\* The scheduled tick, reductions and reports by hand, slow games.
SPECIFICATION FairSpec
CONSTANTS
    l1 = l1
    d1 = d1
    e1 = e1
    Loops = {l1}
    Drains = {d1}
    Reducers = {e1}
    MaxRound = 3
    MaxPool = 3
    RoundCount = 1
    DiesAt = {1}
    MaxFaults = 1
    FaultKinds = {"games", "slow", "rescue", "report"}
INVARIANTS
    RatingsAreComplete

    
CHECK_DEADLOCK FALSE
