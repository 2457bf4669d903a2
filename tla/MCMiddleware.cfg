SPECIFICATION Spec
SYMMETRY Symmetry
CONSTANTS
    Goroutines = {g1, g2, g3}
    Limit = 1
    Window = 2
    Limit2 = 1
    Window2 = 3
    MaxDrops = 1
    Reqs = {q1, q2, q3}
    Ctxs = {x1, x2}
    TTL = 1
    D = 1
    MaxTime = 3
    Nobody = nobody
CHECK_DEADLOCK FALSE
INVARIANTS
    
    AnswersIsolated
    StalenessBounded
