\* int32_t scaled down to 2 values below zero and 2 from zero up; a TTL of 2
\* stands for one of 2^31 ms, about 25 days.
CONSTANTS
    Fds = {4}
    Keys = {k1}
    Ttls = {1, 2}
    IdleTimeout = 1
    MaxWorks = 1
    Int32 = 2
    MaxBatch = 1
    Boot = 4
    Delay = 1
    Null = null
SPECIFICATION WindowSpec
INVARIANT NoTimersNoTimeouts
