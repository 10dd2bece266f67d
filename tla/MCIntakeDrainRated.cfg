\* A pool that grows while it is rated.
SPECIFICATION Spec
CONSTANTS
    ra = ra
    rb = rb
    w1 = w1
    d1 = d1
    d2 = d2
    Runs = {ra}
    Writers = {w1}
    Drains = {d1}
    MaxIter = 3
    MaxRequests = 2
    MaxEvents = 3
    FaultKinds = {"crash", "round", "age"}
    MaxFaults = 1
    SeedPayloads <- MCGrowingSeeds
    SubmitPayloads <- MCNoSubmits
    DrainPayloads <- MCDrainRequests
INVARIANTS
    TypeOK
    RatedStaysKnown

    
CHECK_DEADLOCK FALSE
