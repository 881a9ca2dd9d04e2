SPECIFICATION Spec
CONSTANTS
    Shard = {0, 1}
    Key = {"a", "b"}
    Conn = {"x", "y"}
    Owner <- MCOwner
    Home <- MCHome
    Watches <- MCWatches
    MaxPush = 2
    MaxAsk <- MCMaxAsk
    Pipelines = FALSE
CHECK_DEADLOCK FALSE
INVARIANTS
    ExactlyOnce
    EscrowResolved
    NobodyStarves
    WaitersMatch
    OneReply
