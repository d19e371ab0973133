\* One key more than the largest cache has room for, and one address more, so
\* that an evicted node may be reused at once or later.
CONSTANTS
    Keys = {k1, k2, k3, k4}
    Values = {v1, v2}
    Nodes = {n1, n2, n3, n4}
    Capacities = {1, 2, 3}
    None = none
SPECIFICATION Spec
INVARIANTS
    MapExact
    CacheIsRecent
