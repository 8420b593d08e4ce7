CONSTANTS
    c1 = c1
    c2 = c2
    c3 = c3
    t1 = t1
    t2 = t2
    k1 = k1
    None = None
    Key = {k1}
    Compile = {c1, c2, c3}
    Test = {t1, t2}
    Setups <- MCSetups
SPECIFICATION FairSpec
CHECK_DEADLOCK FALSE
INVARIANTS SchedulerInv OneAdmittedPerKey
PROPERTY EveryoneEnds
