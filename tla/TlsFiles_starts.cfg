SPECIFICATION Spec
CONSTANTS
    Starts = {s1, s2, s3}
    Earlier = {old1, old2}
    Nothing = Nothing
    FirstFiles <- AnyFiles
    Faults = {"read", "io", "remove", "crash"}
SYMMETRY Interchangeable
CHECK_DEADLOCK FALSE
INVARIANTS TypeOK FailureNotSticky
PROPERTIES KeptFromLater
