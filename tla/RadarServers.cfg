SPECIFICATION Spec
CONSTANTS
    Slots = {s1, s2, s3}
    Sns = {r1, r2, r3}
    InitSn = sn_init
    NULL = null
    MaxConn = 3
    BasePort = 8070
    Tries = 6
    Timeout = 1
    CanFail = TRUE
SYMMETRY MCSymmetry
INVARIANTS
    TypeOK
    ListSound
    PortsDistinct
    SnDistinct
    AnnouncedPort
CHECK_DEADLOCK FALSE
