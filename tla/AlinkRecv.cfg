SPECIFICATION FairSpec
CONSTANTS
    Ends <- MCEnds
    HeadLen = 3
    MinSize = 4
    MaxSize = 8
    MaxRead = 7
    Lookalike <- MCLookalike
INVARIANTS
    TypeOK
    CleanCallDelivers
    IdleCallInOrder
PROPERTY ImportUsedUp
CHECK_DEADLOCK FALSE
