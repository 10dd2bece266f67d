\* Scheduled ticks and drains, with two faults.
SPECIFICATION FairSpec
CONSTANTS
    ra = ra
    rb = rb
    w1 = w1
    d1 = d1
    d2 = d2
    Runs = {ra, rb}
    Writers = {w1}
    Drains = {d1}
    MaxIter = 1
    MaxRequests = 1
    MaxEvents = 1
    FaultKinds = {"crash", "expire", "round"}
    MaxFaults = 2
    SeedPayloads <- MCWatchSeeds
    SubmitPayloads <- MCNoSubmits
    DrainPayloads <- MCNoDrainRequests
PROPERTIES
    QueuedAreRated
    CheckpointsAreRated
CHECK_DEADLOCK FALSE
