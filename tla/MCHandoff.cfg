CONSTANTS
    w1 = w1
    w2 = w2
    w3 = w3
    None = None
    Wrapper = {w1, w2, w3}
    Capacity = 1
    Setups <- MCSetups
SPECIFICATION FairSpec
CHECK_DEADLOCK FALSE
INVARIANTS HandoffInv PublishedOnce
PROPERTIES EventWritten KeyFreed
