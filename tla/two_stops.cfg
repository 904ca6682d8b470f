SPECIFICATION Spec
CONSTANTS
    t1 = t1
    t2 = t2
    s1 = s1
    s2 = s2
    w1 = w1
    w2 = w2
    a1 = a1
    a2 = a2
    Nil = Nil
    Timers = {}
    Shots = {s1}
    Workers = {w1}
    Apps = {a1, a2}
    Pollers = {}
    Stoppers = {a1, a2}
    Waiters = {a1}
    Closers = {}
    Intervals = {1}
    Modes = {TRUE, FALSE}
    MayThrow = FALSE
    MaxTime = 1
    MaxCalls = 3
    MaxGen = 4
PROPERTY StopJoinsWorker
CHECK_DEADLOCK FALSE
