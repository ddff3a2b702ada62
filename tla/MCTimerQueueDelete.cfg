SPECIFICATION LiveSpec
CONSTANTS
    None = None
    w1 = w1
    w2 = w2
    w3 = w3
    c1 = c1
    c2 = c2
    work = work
    simple = simple
    Worker = {w1}
    Client = {c1, c2}
    Work = {work}
    Simple = {simple}
    Grouped = {}
    Priority <- SamePriority
    Calls <- OwnerAndTuner
    MaxPending = 2
    MaxBusy = 3
    MaxWorkers = 2
    x = x
    y = y
    MaxTime = 2
    Never = 9
    QueueTimer = {x, y}
    NoTimer = NoTimer
    InTimerThread = {x}
    DueTime = {0, 1}
    Period = {0, 1}
    MaxRuncount = 1
CHECK_DEADLOCK FALSE
PROPERTY DeleteQueueLeaves
