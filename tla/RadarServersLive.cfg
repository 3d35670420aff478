SPECIFICATION FairSpec
CONSTANTS
    Slots = {s1, s2, s3}
    Sns = {r1, r2, r3}
    InitSn = sn_init
    NULL = null
    MaxConn = 2
    BasePort = 8070
    Tries = 6
    Timeout = 2
    CanFail = FALSE
INVARIANT ListBound
PROPERTIES
    IdleServerFreed
    ShutdownCloses
CHECK_DEADLOCK FALSE
