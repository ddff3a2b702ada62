CONSTANTS
    t1 = t1
    t2 = t2
    t3 = t3
    t4 = t4
    Thread = {t1, t2, t3, t4}
    NoThread = NoThread
    MaxDepth = 2
    MayExit = TRUE
    Caller = {t1, t2, t3}
    e1 = e1
    e2 = e2
    e3 = e3
    Entry = {e1, e2, e3}
    NoEntry = NoEntry
    User = {t1, t2}
    MaxCalls <- MCMaxCalls
    DepthModulus = 4
    SequenceModulus = 8
    MaxResourceDepth = 2
CHECK_DEADLOCK FALSE
SPECIFICATION SyncSpec
INVARIANTS FieldsOfOwner TokenNotLost OnceAgreed OnceWaitersListed ResourceCounted ResourceHope
PROPERTIES WaitersServed OnceWaitersReleased SListIsStack
