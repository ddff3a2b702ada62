SPECIFICATION FairSpec
CONSTANTS
    Thread = {t1}
    ManualEvent = {}
    AutoEvent = {e}
    Mutex = {}
    Semaphore = {s}
    SemaphoreMax = 1
    None = None
    m = m
    e = e
    s = s
    Calls <- InterruptCalls
    Requests = {"set", "release", "suspend", "context", "system_apc", "user_apc", "reset", "terminate"}
    MaxSuspend = 2
    MaxApc = 1
    MaxRecursion = 2
CHECK_DEADLOCK FALSE
INVARIANTS OneReplyPerWait SuspendedStops
PROPERTIES SuspendedTakeNothing TimedWaitEnds SystemApcFetched
