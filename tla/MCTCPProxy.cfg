SPECIFICATION FairSpec
CONSTANTS
    Conns = {1, 2, 3}
    Targets = {t1}
    MaxConnections = 1
    Enabled = TRUE
    HealthCheck = TRUE
    Mux = TRUE
    MaxGen = 2
INVARIANTS
    CountersExact
    CapHolds
    RestMatchesState
    StragglersCancelled
PROPERTIES
    CancelledConnsEnd
    StopReturns
CHECK_DEADLOCK FALSE
