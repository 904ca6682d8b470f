SPECIFICATION PoolSpec
CONSTANTS
    m1 = m1
    m2 = m2
    s1 = s1
    s2 = s2
    s3 = s3
    NoServer = NoServer
    Measurers = {m1, m2}
    Servers = {s1, s2, s3}
    Liars = {s3}
    TrueOffsets <- MCTrue
    AllOffsets <- MCAll
    Delays = {1, 2}
    MaxDelay = 1
    ServerLists = {{s1, s2}, {s1, s2, s3}}
    MinInterval = 1
    BackoffInitial = 1
    BackoffMax = 3
    Configs <- MCConfigs
    Batches <- MCBatches
    MaxTime = 1
SYMMETRY MCSymmetry
INVARIANT OffsetTrusted
INVARIANT BackoffIsExact
VIEW MCView
