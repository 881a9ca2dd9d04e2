SPECIFICATION FairSpec
CONSTANTS
    MaxWrites = 5
    MaxSaves = 3
    MaxRewrites = 1
    MaxCrashes = 2
    MaxFaults = 2
    SmallTee = 1
    DeferCap = 2
    MaxHandoffs = 2
    Starts = {"legacy", "image"}
    Faults = {"keep", "place", "base", "tail", "swap", "unplaced"}
    SavesOutrun = FALSE
INVARIANTS
    SnapInv
    RestoresOnce
    NothingUnlogged
PROPERTIES
    KeepsPromise
    JobsEnd
