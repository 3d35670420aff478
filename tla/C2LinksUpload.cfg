SPECIFICATION FairSpec
CONSTANTS
    Slots = {s1, s2}
    Peers <- MCPeers
    Default <- MCDefault
    Reachable <- MCPeers
    Hosts = {h1}
    Max = 1
    Retries = 2
    Uploaders <- MCUploaders
    SeqMod = 2
    CanFail = FALSE
    NULL = null
INVARIANTS
    NoFreedSubscriber
    BufferOwned
    LinkBound
PROPERTY UnreachableGivenUp
CHECK_DEADLOCK FALSE
