SPECIFICATION Spec
CONSTANTS
    Requests = {r1, r2}
    MaxStarts = 2
    Conns = {1, 2, 3}
    MaxConnections = 1
    Clients = {d1, d2}
    Addrs = {a1, a2}
    Tools = {t1}
    MaxToolCount = 1
    NoClient = nobody
    NoAddr = nowhere
    Callers = {p1, p2, p3}
    MaxOps = 5
    Max = 3
    MaxSize = 7
    MaxCount = 3
INVARIANTS
    LeftoversExplained
    HandlersMatchSubs
    SizeBounded
    CapWithinPeak
    RegisteredIsOpen
PROPERTIES
    ServiceImplemented
    StopReturns
    GoneNoticed
    ConnectAnswered
CHECK_DEADLOCK FALSE
