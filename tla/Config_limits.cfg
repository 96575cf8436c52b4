SPECIFICATION Spec
CONSTANTS
    Word = 64
    Reserve = 6
    Default <- Defaults
    Written <- AnyWritten
    Sizes <- SomeSizes
    Breaks <- SomeBreaks
    Envelopes <- SomeEnvelopes
    Runs <- SomeRuns
    Asked <- SomeAsked
    WaitDelay = 1
    MaxTime = 18
INVARIANTS UploadsJudged StartIsDecidedByLoad ShortTimeoutsAnswered
