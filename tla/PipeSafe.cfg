SPECIFICATION FairSpec
CONSTANTS
    Peer = {1, 2}
    Kinds = {"local", "forward", "multi", "orchestrated", "immediate", "block", "blockmove"}
    MaxCommand = 3
    TxnKinds = {"local", "watch", "unwatch", "transaction"}
    MaxTxn = 8
    MaxWatch = 2
    MaxWrite = 1
    PipelinesBlocking = FALSE
CHECK_DEADLOCK FALSE
INVARIANTS
    RepliesInOrder
    SlotsAccounted
    ProgramOrder
    StepsUndisturbed
    WatchGuards
    NothingUnanswered
PROPERTIES
    Answers
