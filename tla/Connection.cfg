\* Reads that end inside a length field, a body or a later request; responses
\* that do not fit the socket; every choice of malformed and too long requests.
CONSTANTS
    HeadLen = 2
    BodyLen = 1
    RespLen = 2
    ReadMax = 5
    SndBuf = 3
    Requests = 3
SPECIFICATION FairSpec
INVARIANTS
    ReadOrWrite
    NoStrandedRequest
    BackPressure
PROPERTIES
    EveryRequestAnswered
    RejectedIsClosed
