CONSTANTS
    k1 = k1
    k2 = k2
    k3 = k3
    l1 = l1
    Key = {k1, k2, k3}
    Reader = {r1, r2}
    Uploader = {u1}
    Lister = {l1}
    MaxEntries = 1
    Setups <- MCSetups
SPECIFICATION Spec
SYMMETRY MCSymmetry
INVARIANTS KnowledgeInv UploadNeverNegative ViewsAgree
PROPERTY ListingKeepsUploads
