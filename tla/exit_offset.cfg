SPECIFICATION Spec
CONSTANTS
    a1 = a1
    main = main
    r1 = r1
    r2 = r2
    r3 = r3
    Nil = Nil
    Callers = {a1}
    Exiter = main
    Runners = {r1, r2, r3}
    Intervals = {1}
    Configs = {1}
    Offsets <- MCOffsets
    DefaultInterval = 1
    DefaultConfig = 1
    MaxSets = 0
PROPERTY ExitKeepsOffset
