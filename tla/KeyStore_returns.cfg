SPECIFICATION FairSpec
CONSTANTS
    Cli = {c1}
    Threads = {t1, t2}
    Inodes = {i1, i2, i3}
    Keys = {k1, k2, k3}
    Stored = {k1}
    NoInode = NoInode
    Torn = Torn
    Unlinked = Unlinked
    Free = Free
    NoKey = NoKey
    Faults = {"lock", "read", "write"}
    MaxWrites = 2
    MaxReads = 2
CHECK_DEADLOCK FALSE
INVARIANTS NoStrayTemp
PROPERTIES UseNeverForgotten EveryCallReturns
