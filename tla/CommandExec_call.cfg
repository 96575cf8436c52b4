SPECIFICATION FairSpec
CONSTANTS
    Head = Head
    Children = {c1, c2}
    Commands = {listed, unlisted}
    Allowlist = {listed}
    Timeouts <- SomeTimeouts
    DefaultTimeoutMs = 1
    MaxTimeoutMs = 2
    DeniedAsRoot = FALSE
    MaxOutputBytes = 2
    PipeSize = 1
    MaxWrite = 3
CHECK_DEADLOCK FALSE
INVARIANTS OutputIsTrue EndIsTrue
PROPERTIES EveryCallReturns OutputNeverBlocks
