SPECIFICATION FairSpec
CONSTANTS
    Requests = {r1, r2}
    Keys = {k1}
    Ips = {i1}
    NoToken = NoToken
    Unknown = Unknown
    Burst = 1
    TTL = 0
    MaxWait = 0
    MaxTime = 1
    MaxCalls = 2
    NoEntry = NoEntry
    Idle = Idle
    Faults = {"bind", "serve", "store", "slow", "stale"}
CHECK_DEADLOCK FALSE
INVARIANTS TypeOK OneRecord RevokedNeverServed UsesReachDisk
PROPERTIES StopCompletes
