CONSTANTS
    Nil = Nil
    Builder = {b1, b2}
    Sweeper = {s1}
    Inode = {i1, i2, i3}
    Attempts = 2
SPECIFICATION LockFairSpec
INVARIANTS MutualExclusion LockInv
PROPERTIES HolderSafe PublishOnce Finishes
