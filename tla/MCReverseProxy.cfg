SPECIFICATION Spec
CONSTANTS
    t1 = t1
    t2 = t2
    t3 = t3
    r1 = r1
    u1 = u1
    Pool <- MCPool
    Weight <- MCWeight
    Configured = {"RoundRobin", "LeastConn", "Random", "IPHash", "Unknown"}
    MaxRetries = 2
    Requests = {r1}
    Upgrades = {u1}
    Hash <- MCHash
    CounterMod = 4
    MaxFlips = 2
INVARIANTS
    ActiveExact
    OncePerTarget
    RoundRobinExhausts
CHECK_DEADLOCK FALSE
