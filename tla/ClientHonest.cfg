SPECIFICATION FairSpec
CONSTANTS
    Replies <- HonestReplies
    RequestParts = 2
    MaxContent = 17
    MaxCalls = 2
INVARIANTS
    PairedReply
    LockStep
    AllStreamsSetUp
    DeathExplained
    NoMutualWait
PROPERTIES
    ConnectReturns
\* connect() may stand still: the process is gone, all calls are made, or a
\* silent server leaves it in a recv() without a timeout.
CHECK_DEADLOCK FALSE
