CONSTANTS
    k1 = k1  k2 = k2  a = a  b = b  h1 = h1  h2 = h2  p1 = p1  p2 = p2  p3 = p3
    None = None
    Key = {k1, k2}
    Name = {a, b}
    Hash = {h1, h2}
    Proc = {p1, p2}
    Importers = {p1}
    Outputs <- MCTwice
    MaxRefs = 2
    OverlappingImport = FALSE
    TornPublish = FALSE
    Damage = {}
SPECIFICATION Spec
SYMMETRY MCSymmetry
INVARIANTS RefcountCovers PairedMeta IndInv
PROPERTIES NoDrift ImplementsCache
