SPECIFICATION Spec
CONSTANTS
    t1 = t1
    t2 = t2
    s1 = s1
    s2 = s2
    w1 = w1
    w2 = w2
    a1 = a1
    a2 = a2
    Nil = Nil
    Timers = {t1}
    Shots = {s1}
    Workers = {w1, w2}
    Apps = {a1}
    Pollers = {a1}
    Stoppers = {a1}
    Waiters = {a1, w1}
    Closers = {a1}
    Intervals = {0, 1}
    Modes = {FALSE}
    MayThrow = TRUE
    MaxTime = 1
    MaxCalls = 2
    MaxGen = 3
INVARIANT StatesAreHeld
INVARIANT WorkerHasJoiner
PROPERTY StopJoinsWorker
PROPERTY ImplementsContract
CHECK_DEADLOCK FALSE
