SPECIFICATION Spec
CONSTANTS
    Targets = {t1, t2}
    Conns = {c1}
    FailThreshold = 3
    SuccessThreshold = 1
    Enable = FALSE
INVARIANT
    StaysInRotation
