SPECIFICATION FairSpec
CONSTANTS
    Producers = {p1, p2}
    Main = main
    NULL = null
    MaxMsg = 1
    NodeMax = 1
    CanFail = FALSE
    MaxPost = 4
    MaxBoot = 1
PROPERTIES
    SenderReleased
    ShutdownEnds
    ImplementsChannel
CHECK_DEADLOCK FALSE
