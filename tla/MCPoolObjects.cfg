SPECIFICATION ObjectsSpec
CONSTANTS
    None = None
    w1 = w1
    w2 = w2
    w3 = w3
    c1 = c1
    c2 = c2
    work = work
    simple = simple
    Worker = {w1, w2}
    Client = {c1, c2}
    Work = {work}
    Simple = {simple}
    Grouped = {work, simple}
    Priority <- TwoPriorities
    Calls <- OwnerAndCloser
    MaxPending = 2
    MaxBusy = 3
    MaxWorkers = 2
    x = x
    y = y
    MaxTime = 2
    Never = 9
    TimerThread = c1
    PoolTimers = {x, y}
    Setting <- MCSetting
    MaxCallbacks = 1
    PoolWaits = {x, y}
    b1 = b1
    b2 = b2
    Bucket = {b1, b2}
    NoBucket = NoBucket
    h1 = h1
    Handle = {h1}
    NoHandle = NoHandle
    OnlyOnce = {x}
    InWaitThread = {y}
    InIoThread = {}
    MaxObjects = 3
    MaxWaitCallbacks = 1
    MaxSignals = 2
    IoThread = c1
    PoolIos = {x, y}
    MaxOperations = 2
SYMMETRY WorkerSymmetry
CHECK_DEADLOCK FALSE
INVARIANTS RefcountsExact FreedUnreachable AssertionsHold PoolHasWorker WorkersMatchWork SleepersHaveWork
           TimersInTime BucketsAgree WaitsWatched CompletionsCounted
 
