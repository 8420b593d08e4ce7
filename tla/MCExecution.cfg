CONSTANTS
    c1 = c1
    c2 = c2
    Client = {c1, c2}
    Tries = 2
    Setups <- MCSetups
    Cap = 1
    Faults = TRUE
    Drains = TRUE
    Crashes = TRUE
    Dies = TRUE
SPECIFICATION FairSpec
CHECK_DEADLOCK FALSE
INVARIANTS ExecutionInv OneOwner
PROPERTIES EveryClientEnds CancelReaps
