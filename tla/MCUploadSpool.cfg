CONSTANTS
    k1 = k1
    k2 = k2
    w1 = w1
    w2 = w2
    h1 = h1
    h2 = h2
    u1 = u1
    u2 = u2
    None = None
    Gc = gc
    Key = {k1, k2}
    Wrapper = {w1, w2}
    Handler = {h1, h2}
    Worker = {u1, u2}
    Setups <- MCSetups
SPECIFICATION FairSpec
CHECK_DEADLOCK FALSE
INVARIANTS SpoolInv JobsDurable IntentHasEntry NotLost
PROPERTY Uploaded
