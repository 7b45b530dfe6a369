SPECIFICATION Spec
CONSTANTS
    c1 = c1
    c2 = c2
    c3 = c3
    NoConn = NoConn
    Conn <- ThreeConnections
    HeartbeatTimeout = 2
    Grace = 1
    Ttl = 9
    RolloverWindow = 3
    MaxIdle = 1
    MaxEvents = 2
    Faults = {"connect", "break", "die"}
SYMMETRY ConnSymmetry
CHECK_DEADLOCK FALSE
INVARIANTS SilenceIsBounded RenewedInTime NoStrayConnection
