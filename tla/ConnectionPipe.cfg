\* A socket that takes one byte at a time, and a client that closes early.
CONSTANTS
    HeadLen = 2
    BodyLen = 1
    RespLen = 2
    ReadMax = 5
    SndBuf = 1
    Requests = 2
SPECIFICATION Spec
INVARIANT WriteErrorClosesConnection
