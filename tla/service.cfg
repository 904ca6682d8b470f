SPECIFICATION FairSpec
CONSTANTS
    a1 = a1
    a2 = a2
    main = main
    r1 = r1
    r2 = r2
    r3 = r3
    Nil = Nil
    Callers = {a1, a2}
    Exiter = main
    Runners = {r1, r2, r3}
    Intervals = {1, 2}
    Configs = {1, 2}
    Offsets <- MCOneOffset
    DefaultInterval = 1
    DefaultConfig = 1
    MaxSets = 1
INVARIANT TypeOK
INVARIANT TransitionIsExclusive
INVARIANT OneActiveRunner
INVARIANT StateTellsRunner
INVARIANT ExitIsFinal
INVARIANT ConfigIsInForce
INVARIANT SleepersHaveWaker
PROPERTY CallsReturn
CHECK_DEADLOCK FALSE
