SPECIFICATION Spec
CONSTANTS
    Packs <- MCPacks
    Interval = 3
    Period = 3
    NULL = NULL
INVARIANTS
    TypeOK
    IdleAlwaysGuided
    OneGuidance
PROPERTIES
    TrackingRarelyDisturbed
