CONSTANTS
    Node = {1, 2, 3}
    None = None
    Offset = {0, 1}
    MaxEpoch = 2
    MaxHb = 1
    HbLinks <- TwoWayLinks
    MayStand = {1, 2, 3}
    MayRestart = {3}
    Reports <- Node3Advances
SPECIFICATION BootOrLedSpec
INVARIANTS
    IndInv
    ElectionSafety
    
PROPERTY
    KeepsLeadership
CHECK_DEADLOCK FALSE
