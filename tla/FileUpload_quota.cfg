SPECIFICATION FairSpec
CONSTANTS
    a = a
    ab = ab
    al = al
    Requests = {r1, r2}
    Paths = {a, ab, al}
    Top = Top
    Outside = Outside
    Parent <- DirOf
    LinkTo <- PointsTo
    Trees <- PlainTrees
    Sizes = {0, 2, 3, 4}
    MaxFileBytes = 3
    MaxTotalBytes = 5
    DeniedAsRoot = FALSE
    Nobody = Nobody
    Faults = {"io", "remove", "crash"}
CHECK_DEADLOCK FALSE
INVARIANTS DeniedLeavesNoTrace NoTempLeft
PROPERTIES EveryUploadAnswered QuotaRespected NoClobber OverwrittenIsTrue
