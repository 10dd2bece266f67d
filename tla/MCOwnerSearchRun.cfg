\* With and without a learner; every second training, and the fifth, refresh the search.
SPECIFICATION FairSpec
CONSTANTS
    Interval = 1
    RefreshInterval = 2
    Expected = 5
    Batch = 2
    CacheMax = 2
    Modes = {TRUE, FALSE}
    MaxPending = 2
    MaxSteps = 12
    MaxFaults = 2
    FaultKinds = {"search", "append", "train", "refresh", "process", "slow"}
INVARIANTS
    TypeOK
    ReplayIsTheGame
    RootsAreKept
    UpdatesAreCounted
PROPERTIES
    KeepsContract
    RunEnds
CHECK_DEADLOCK FALSE
