SPECIFICATION FairSpec
CONSTANTS
    t1 = t1
    t2 = t2
    s1 = s1
    s2 = s2
    w1 = w1
    w2 = w2
    a1 = a1
    a2 = a2
    Nil = Nil
    Timers = {t1}
    Shots = {}
    Workers = {w1}
    Apps = {a1, a2}
    Pollers = {}
    Stoppers = {a1}
    Waiters = {a1}
    Closers = {}
    Intervals = {0, 1}
    Modes = {TRUE, FALSE}
    MayThrow = FALSE
    MaxTime = 2
    MaxCalls = 2
    MaxGen = 3
INVARIANT TypeOK
INVARIANT EachFiringOnce
INVARIANT ActiveHasTicket
INVARIANT SleepIsJustified
PROPERTY StopAndWaitDrains
PROPERTY DueIsServed
PROPERTY CallsReturn
