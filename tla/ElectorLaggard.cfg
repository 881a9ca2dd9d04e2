CONSTANTS
    Node = {1, 2, 3}
    None = None
    Offset = {0, 1}
    MaxEpoch = 3
    MaxHb = 1
    HbLinks <- Link13
    MayStand = {1}
    MayRestart = {3}
    Reports <- NoReports
SPECIFICATION LedFairSpec
PROPERTIES
    NewcomerLearnsPrimary
    LaggardCatchesUp
CHECK_DEADLOCK FALSE
