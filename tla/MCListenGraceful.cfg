SPECIFICATION GSpec
CONSTANTS
    Protocols = {grpc, mqtt, websocket, tcp}
    AuthAware = {grpc, mqtt, websocket}
    Mountable = {websocket}
    Named = {grpc, mqtt}
    Unbounded = {grpc, mqtt, websocket}
    Pids = {1, 2, 3, 4, 5}
    NumChildren = 3
    NumCPU = 1
    MaxExits = 5
INVARIANTS
    AuthEverywhere
    ServedOnce
    HooksAfterClose
    LeftoverExplained
PROPERTIES
    ShutdownCompletes
    PoolKept
CHECK_DEADLOCK FALSE
