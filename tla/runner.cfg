SPECIFICATION FairSpec
CONSTANTS
    s1 = s1
    worker = worker
    owner = owner
    user = user
    NoServer = NoServer
    Worker = worker
    Owner = owner
    Users = {owner, user}
    Measurers = {worker, owner, user}
    Servers = {s1}
    Liars = {}
    TrueOffsets = {4, 6}
    AllOffsets = {4, 6}
    Delays = {1}
    MaxDelay = 1
    MinInterval = 1
    BackoffInitial = 1
    BackoffMax = 1
    Configs <- MCConfigs
    Batches = {}
    ServerLists = {}
    MaxTime = 1
INVARIANT SamplesExplainOffset
INVARIANT StopIsComplete
PROPERTY NotTooSoon
PROPERTY StopReturns
PROPERTY ForceIsServed
