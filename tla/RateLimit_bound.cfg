SPECIFICATION Spec
CONSTANTS
    Fps = {f1, f2}
    Ips = {i1}
    Threads = {t1, t2}
    Burst = 2
    TTL = 2
    MaxWait = 1
    MaxTime = 4
    MaxCalls = 3
    NoEntry = NoEntry
    Idle = Idle
SYMMETRY Interchangeable
CHECK_DEADLOCK FALSE
INVARIANTS TypeOK RateRespected
PROPERTIES RefusalDeserved
