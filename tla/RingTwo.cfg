SPECIFICATION Spec
CONSTANTS
    Item = {a, b}
    Uninit = Uninit
    WordBits = 2
    Requested = 2
    MaxPush = 6
CHECK_DEADLOCK FALSE
INVARIANTS
    NoRace
    InOrder
    DropsTheRest
    AdviceIsKept
PROPERTIES
    ImplementsFifo
