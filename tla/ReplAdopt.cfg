SPECIFICATION Spec
CONSTANTS
    Replica = {r1}
    Kept = {1}
    Backlog = 1
    Window = 2
    Queue = 1
    MaxWrites = 1
    MaxUpsets = 1
    Admit = {"adopt"}
INVARIANT Faithful
CHECK_DEADLOCK FALSE
