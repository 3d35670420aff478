SPECIFICATION FairSpec
CONSTANTS
    NReg = 3
    Sent = {11}
    Users = {alg}
    QueueMax = 1
    CanFail = TRUE
    NULL = NULL
INVARIANTS
    TypeOK
    WalkSound
PROPERTIES
    DispatchSound
    ReleaseEnds
CHECK_DEADLOCK FALSE
