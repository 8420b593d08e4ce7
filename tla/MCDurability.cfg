CONSTANTS
    k1 = k1
    k2 = k2
    h1 = h1
    h2 = h2
    p1 = p1
    p2 = p2
    None = None
    Key = {k1, k2}
    Hash = {h1, h2}
    Proc = {p1, p2}
    Outputs <- MCOutputs
    Setups <- MCSetups
SPECIFICATION Spec
SYMMETRY MCSymmetry
INVARIANT DurabilityInv
PROPERTIES FlushCertifies HitsIntact
