SPECIFICATION MCSpec
CONSTANTS
    Convs = {"c1", "c2", "c3"}
    Tasks = {"t1", "t2", "t3"}
    Threads = {"t1", "t2"}
    LocksMax = 1
    NLocks = 6
    Locks <- MCLocks
INVARIANTS MergeExclusive
PROPERTIES EveryMergeRuns SettledIsExclusive
