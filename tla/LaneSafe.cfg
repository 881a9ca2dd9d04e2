SPECIFICATION FairSpec
CONSTANTS
    Conn = {c1}
    MaxWrites = 3
    MaxRewrites = 1
    MaxSaves = 1
    MaxUpsets = 2
    MaxHandoffs = 2
    SmallTee = 1
    TeeCap = 2
    Policies = {"everysec", "always"}
    Targets = {"always"}
    Admit = {}
INVARIANTS
    
    ProvenIsDurable
PROPERTIES
    KeepsPromise
    
CHECK_DEADLOCK FALSE
