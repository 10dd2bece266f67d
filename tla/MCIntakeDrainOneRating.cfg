\* The scheduled drain tick alone, nothing failing.
SPECIFICATION Spec
CONSTANTS
    ra = ra
    rb = rb
    w1 = w1
    d1 = d1
    d2 = d2
    Runs = {ra, rb}
    Writers = {w1}
    Drains = {d1, d2}
    MaxIter = 1
    MaxRequests = 1
    MaxEvents = 2
    FaultKinds = {"crash"}
    MaxFaults = 0
    SeedPayloads <- MCWatchSeeds
    SubmitPayloads <- MCNoSubmits
    DrainPayloads <- MCNoDrainRequests
INVARIANTS
    RoundsRateSomethingNew
CHECK_DEADLOCK FALSE
