SPECIFICATION Spec
CONSTANTS
    Cli = {c1, c2}
    Threads = {t1}
    Inodes = {i1, i2, i3, i4}
    Keys = {k1, k2, k3}
    Stored = {k1}
    NoInode = NoInode
    Torn = Torn
    Unlinked = Unlinked
    Free = Free
    NoKey = NoKey
    Faults = {}
    MaxWrites = 3
    MaxReads = 1
SYMMETRY Interchangeable
CHECK_DEADLOCK FALSE
PROPERTIES RevokedNeverVerifies
