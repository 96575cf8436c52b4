SPECIFICATION Spec
CONSTANTS
    a = a
    ab = ab
    al = al
    Requests = {r1, r2}
    Paths = {a, ab, al}
    Top = Top
    Outside = Outside
    Parent <- DirOf
    LinkTo <- PointsTo
    Trees <- PlainTrees
    Sizes = {0, 2, 3, 4}
    MaxFileBytes = 3
    MaxTotalBytes = 0
    DeniedAsRoot = FALSE
    Nobody = Nobody
    Faults = {}
SYMMETRY Interchangeable
CHECK_DEADLOCK FALSE
PROPERTIES NoClobber
