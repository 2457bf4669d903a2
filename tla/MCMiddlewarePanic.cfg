SPECIFICATION Spec
SYMMETRY Symmetry
CONSTANTS
    Goroutines = {g1, g2}
    Limit = 1
    Window = 2
    Limit2 = 2
    Window2 = 3
    MaxDrops = 1
    Reqs = {q1, q2}
    Ctxs = {x1, x2}
    TTL = 1
    D = 1
    MaxTime = 2
    Nobody = nobody
CHECK_DEADLOCK FALSE
INVARIANTS
    PanicContained
