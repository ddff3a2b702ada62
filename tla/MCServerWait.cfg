SPECIFICATION Spec
CONSTANTS
    Thread = {t1, t2, t3}
    ManualEvent = {e}
    AutoEvent = {}
    Mutex = {m}
    Semaphore = {s}
    SemaphoreMax = 2
    None = None
    m = m
    e = e
    s = s
    Calls <- ObjectCalls
    Requests = {"set", "reset", "pulse", "release", "die"}
    MaxSuspend = 0
    MaxApc = 0
    MaxRecursion = 2
SYMMETRY Symmetry
CHECK_DEADLOCK FALSE
INVARIANTS  MutexConsistent
PROPERTIES NoOvertaking
