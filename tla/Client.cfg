\* The server's limit lies between the replies that fit and those that do not,
\* the client's below it.
CONSTANTS
    Radix = 6
    W32 = 2
    W64 = 4
    MaxMsg = 16
    MaxArgs = 2
    ClientMax = 12
    TooBigText <- Long
    Commands <- SomeCommands
    Replies <- SomeReplies
    Messages <- SomeMessages
    Texts <- SomeTexts
    Before <- SomeBefore
    None = none
SPECIFICATION FairSpec
CHECK_DEADLOCK FALSE
INVARIANTS
    CodecsAgree
    RequestUnderstood
    PrintedIsReply
PROPERTIES
    ClientEnds
