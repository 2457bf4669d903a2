SPECIFICATION FairSpec
CONSTANTS
    Targets = {t1, t2}
    Conns = {c1}
    FailThreshold = 0
    SuccessThreshold = 2
    Enable = TRUE
INVARIANTS
    RotationFollowsProbes
    StoppedIsQuiet
PROPERTIES
    RestoredAfterSuccesses
    RemovedAfterFailures
    EventuallyAccurate
    StopReturns
