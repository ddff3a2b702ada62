CONSTANTS
    t1 = t1
    t2 = t2
    t3 = t3
    Thread = {t1, t2, t3}
    Writer = {t1, t2, t3}
    Reader = {t1, t2, t3}
    Wrap = 8
SPECIFICATION FairSpec
INVARIANTS MutualExclusion WordCountsThreads NoStrandedWaiter
PROPERTIES WritersServed
