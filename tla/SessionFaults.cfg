SPECIFICATION Spec
CONSTANTS
    c1 = c1
    c2 = c2
    c3 = c3
    NoConn = NoConn
    Conn <- ThreeConnections
    HeartbeatTimeout = 1
    Grace = 1
    Ttl = 4
    RolloverWindow = 3
    MaxIdle = 2
    MaxEvents = 2
    Faults = {"throttle", "refuse", "timeout", "break", "garble"}
SYMMETRY ConnSymmetry
CHECK_DEADLOCK FALSE
INVARIANTS TypeOK SessionIsSubscribed
PROPERTIES LossIsExplained
