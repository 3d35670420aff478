SPECIFICATION Spec
CONSTANTS
    Ends <- MCEnds
    HeadLen = 3
    MinSize = 4
    MaxSize = 8
    MaxRead = 1
    Lookalike <- MCLookalike
INVARIANTS
    WholePackage
CHECK_DEADLOCK FALSE
