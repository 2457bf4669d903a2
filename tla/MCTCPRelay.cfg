SPECIFICATION FairSpec
CONSTANTS
    MaxUp = 2
    MaxDown = 1
INVARIANTS
    StreamFaithful
    HalfCloseKeepsOther
PROPERTIES
    RelayEnds
    EofReachesDestination
CHECK_DEADLOCK FALSE
