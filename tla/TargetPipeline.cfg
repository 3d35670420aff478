SPECIFICATION Spec
CONSTANTS
    Producers = {p1, p2}
    Main = main
    NULL = null
    MaxMsg = 2
    NodeMax = 2
    CanFail = TRUE
    MaxPost = 5
    MaxBoot = 2
SYMMETRY MCSymmetry
INVARIANTS
    TypeOK
    CountMatches
    ListIsNewest
    PostOrder
    UserFirst
    HeapBalance
    StaleFirst
CHECK_DEADLOCK FALSE
