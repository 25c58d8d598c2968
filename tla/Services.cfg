SPECIFICATION Spec
CONSTANTS
    PoolUsers = {u1, u2}
    Connectors = {k1, k2}
    Threads = {w1, w2}
    Endpoints = 1
    PoolSize = 2
    MaxConnections = 3
    MaxRequests = 3
    Operators = {o1, o2}
    Delays = {0, 2}
    MaxSeconds = 3
    Tasks = {t1, t2}
    MaxStops = 2
    Files <- MCFiles
    Unset = unset
    MaxFiles = 4
INVARIANTS
    NothingEarlyLeft
    MergedFollowFiles
    ListsAccumulate
PROPERTIES
    PoolCallsReturn
    TriggeredStops
    NoiseEnds
\* The services end: close, a stop, the last file.
CHECK_DEADLOCK FALSE
