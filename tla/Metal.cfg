SPECIFICATION FairSpec
CONSTANTS
    Dispatches <- AllDispatches
    MaxThread = 8
CHECK_DEADLOCK FALSE
INVARIANTS
    InBounds
    RaceFree
    ResultIsReference
PROPERTIES
    DispatchEnds
