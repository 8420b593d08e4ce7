CONSTANTS
    Task = {t1, t2}
    Epoch = {e1, e2, e3, e4}
    Threshold = 2
    FailureCap = 3
    Nothing = Nothing
SPECIFICATION BreakerFairSpec
INVARIANT BreakerInv
PROPERTIES RecoversByProbe Recovers
