\* Sets of one member are large, so that every deletion of one is asynchronous;
\* a key may be created anew while its former entry waits for either worker.
CONSTANTS
    Keys = {k1, k2}
    Strings = {s1, s2}
    Members = {m1}
    Scores = {1, 2}
    Ttls <- SomeTtls
    Entries = {e1, e2}
    Workers = {w1, w2}
    LargeSize = 0
    MaxWorks = 0
    MaxTime = 2
    None = none
SPECIFICATION FairSpec
INVARIANTS
    OneOwner
    TimersAreInDb
PROPERTIES
    ImplementsKVStore
    QueuedEntriesFreed
