SPECIFICATION Spec
CONSTANTS
    t1 = t1
    t2 = t2
    s1 = s1
    s2 = s2
    w1 = w1
    w2 = w2
    a1 = a1
    a2 = a2
    Nil = Nil
    Timers = {t1}
    Shots = {}
    Workers = {}
    Apps = {a1}
    Pollers = {a1}
    Stoppers = {}
    Waiters = {}
    Closers = {}
    Intervals = {0, 1}
    Modes = {TRUE, FALSE}
    MayThrow = FALSE
    MaxTime = 2
    MaxCalls = 3
    MaxGen = 4
PROPERTY RestartSurvives
CHECK_DEADLOCK FALSE
