SPECIFICATION Spec
CONSTANTS
    Thread = {t1}
    ManualEvent = {}
    AutoEvent = {e}
    Mutex = {}
    Semaphore = {s}
    SemaphoreMax = 2
    None = None
    m = m
    e = e
    s = s
    Calls <- SignalCalls
    Requests = {"system_apc"}
    MaxSuspend = 0
    MaxApc = 1
    MaxRecursion = 1
SYMMETRY Symmetry
CHECK_DEADLOCK FALSE
INVARIANT SignalsOnce
