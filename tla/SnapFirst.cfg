SPECIFICATION Spec
CONSTANTS
    MaxWrites = 2
    MaxSaves = 2
    MaxRewrites = 0
    MaxCrashes = 1
    MaxFaults = 0
    SmallTee = 1
    DeferCap = 2
    MaxHandoffs = 2
    Starts = {"fresh"}
    Faults = {}
    SavesOutrun = FALSE
INVARIANT
    RestoresOnce
