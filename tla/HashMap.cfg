\* Two resizes, each spread over several operations.
CONSTANTS
    Keys = {1, 2, 4, 6, 8}
    Hash <- Identity
    InitSlots = 2
    MaxLoad = 1
    RehashWork = 1
    Null = null
SPECIFICATION FairSpec
INVARIANTS
    TablesWellFormed
    ResizeEndsInTime
    ForeachComplete
PROPERTIES
    ImplementsKeySet
    OperationsReturn
