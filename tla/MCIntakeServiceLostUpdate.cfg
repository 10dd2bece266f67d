\* Two calls at a time and no fault at all.
SPECIFICATION CallsSpec
CONSTANTS
    ra = ra
    rb = rb
    w1 = w1
    w2 = w2
    Runs = {ra, rb}
    Writers = {w1, w2}
    Drains = {}
    MaxIter = 1
    MaxRequests = 2
    Modes = {FALSE}
    OverlapRequests = 2
    OverlapIter = 1
    FaultKinds = {"crash", "expire", "evict"}
    MaxFaults = 0
    SeedPayloads <- MCSeeds
    SubmitPayloads <- MCSubmitsSmall
INVARIANTS
    SubmissionsAppendOnly
CHECK_DEADLOCK FALSE
