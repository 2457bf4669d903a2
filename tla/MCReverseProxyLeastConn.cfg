SPECIFICATION Spec
CONSTANTS
    t1 = t1
    t2 = t2
    t3 = t3
    r1 = r1
    u1 = u1
    Pool <- MCTwo
    Weight <- MCTwoWeight
    Configured = {"LeastConn"}
    MaxRetries = 2
    Requests = {r1}
    Upgrades = {}
    Hash <- MCHash
    CounterMod = 4
    MaxFlips = 0
INVARIANT
    GivesUpOnlyWhenExhausted
CHECK_DEADLOCK FALSE
