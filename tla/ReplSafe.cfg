SPECIFICATION FairSpec
CONSTANTS
    Replica = {r1}
    Kept = {1}
    Backlog = 1
    Window = 2
    Queue = 1
    MaxWrites = 2
    MaxUpsets = 2
    Admit = {}
INVARIANTS Faithful WaitHonest
 
CHECK_DEADLOCK FALSE
