SPECIFICATION FairSpec
CONSTANTS
    Radars = {r1, r2}
    C2s = {c1}
    Depth = 2
    MaxMsgs <- MCMaxMsgs
    NULL = NULL
INVARIANTS
    TypeOK
    PostedOwn
PROPERTY
    OrderReleased
CHECK_DEADLOCK FALSE
