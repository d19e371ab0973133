\* Two connections and two keys, one key removed per process_timers(), and a
\* clock that never stops: closing, accepting and timing out meet within one
\* pass of the loop, descriptors are reused, and while a key waits to be removed
\* clients may let the other expire again in every pass.
CONSTANTS
    Fds = {4, 5}
    Keys = {k1, k2}
    Ttls = {0, 1}
    IdleTimeout = 1
    MaxWorks = 0
    Int32 = 8
    MaxBatch = 1
    Boot = 3
    Delay = 1
    Null = null
SPECIFICATION FairWindowSpec
INVARIANTS
    ConnectionsAgree
    HandledEventsAreWanted
    WakesInTime
PROPERTIES
    IdleConnectionsClosed
    KeysExpire
