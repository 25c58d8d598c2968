SPECIFICATION Spec
CONSTANTS
    Calls = {c1, c2}
    Requests <- MCRequests
    Users = {1, 2}
    Drift = 1
    NonceTtl = 5
    TokenTtl = 1
    TokenSlack = 3
    MaxCall = 1
    MaxClock = 8
    Visitors = {v1, v2}
    Floor = 2
    Ttl = 3
    MaxTick = 4
    Threads = {p1, p2, p3}
    GracePeriod = 2
    MaxTime = 5
    MaxKeys = 3
INVARIANT
    NewOnce
\* The clocks are bounded.
CHECK_DEADLOCK FALSE
