SPECIFICATION FairSpec
CONSTANTS
    None = None
    w1 = w1
    w2 = w2
    w3 = w3
    c1 = c1
    c2 = c2
    work = work
    simple = simple
    Worker = {w1}
    Client = {c1, c2}
    Work = {work}
    Simple = {simple}
    Grouped = {}
    Priority <- SamePriority
    Calls <- TwoWaiters
    MaxPending = 2
    MaxBusy = 3
    MaxWorkers = 2
PROPERTIES WaitReturns
CHECK_DEADLOCK FALSE
