CONSTANTS
    w1 = w1
    w2 = w2
    k1 = k1
    a = a
    b = b
    Waiter = {w1, w2}
    Waker = {k1}
    Timed = {w1}
    Addr = {a, b}
    Val = {0, 1}
    TidsSize = 1
    NoThread = NoThread
    NullAddr = NullAddr
SPECIFICATION Spec
INVARIANT ClearedMeansRemoved
CHECK_DEADLOCK FALSE
