CONSTANTS
    r1 = r1
    r2 = r2
    p1 = p1
    p2 = p2
    b1 = b1
    None = None
    Request = {r1, r2}
    Prefetch = {p1, p2}
    Packed = {b1}
    Flight = {f1, f2, f3}
    Gen = {g1, g2, g3, g4, g5, g6, g7, g8}
    Setups <- MCSetups
SPECIFICATION FairSpec
INVARIANT OneWriter
PROPERTIES RecheckedClear Answered
