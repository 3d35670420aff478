SPECIFICATION Spec
CONSTANTS
    Slots = {s1, s2, s3}
    Peers <- MCPeers
    Default <- MCDefault
    Reachable = {}
    Hosts = {h1, h2}
    Max = 3
    Retries = 1
    Uploaders = {}
    SeqMod = 2
    CanFail = TRUE
    NULL = null
SYMMETRY MCSymmetry
INVARIANTS
    TypeOK
    RequestedDistinct
PROPERTY OnlyRequestedCutsOff
CHECK_DEADLOCK FALSE
