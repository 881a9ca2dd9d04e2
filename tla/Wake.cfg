SPECIFICATION FairSpec
CONSTANTS
    Shards = 2
    RingCap = 2
    DrainBudget = 1
    SpinLimit = 1
    Serving = {0}
    MaxRequest = 1
    MaxNote = 2
    Timeouts = {0}
INVARIANTS
    LaneInOrder
    Announced
    NoLostWake
    StaysHot
PROPERTIES
    Delivery
