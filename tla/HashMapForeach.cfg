CONSTANTS
    Keys = {1, 4, 6}
    Hash <- Identity
    InitSlots = 2
    MaxLoad = 1
    RehashWork = 1
    Null = null
SPECIFICATION Spec
INVARIANT ForeachStops
