\* Six items: the first size at which the last item, in one subtree, may have to
\* rise above the parent of the one it replaces in the other.
CONSTANTS
    Entries = {e1, e2, e3, e4, e5, e6}
    Vals = {0, 1, 2}
    None = none
SYMMETRY Symmetry
SPECIFICATION Spec
INVARIANTS
    HeapOrdered
    RefsExact
    TopIsEarliest
PROPERTIES
    ImplementsTimerQueue
