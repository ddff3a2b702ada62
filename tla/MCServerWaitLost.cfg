SPECIFICATION Spec
CONSTANTS
    Thread = {t1, t2}
    ManualEvent = {}
    AutoEvent = {e}
    Mutex = {}
    Semaphore = {s}
    SemaphoreMax = 2
    None = None
    m = m
    e = e
    s = s
    Calls <- TimeoutCalls
    Requests = {"release"}
    MaxSuspend = 0
    MaxApc = 0
    MaxRecursion = 1
SYMMETRY Symmetry
CHECK_DEADLOCK FALSE
INVARIANT NobodyToWakeIfCount
