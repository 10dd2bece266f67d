\* One call at a time, or two; crashes, evictions and expiry.
SPECIFICATION CallsSpec
CONSTANTS
    ra = ra
    rb = rb
    w1 = w1
    w2 = w2
    Runs = {ra, rb}
    Writers = {w1, w2}
    Drains = {}
    MaxIter = 2
    SeedPayloads <- MCSeeds
    SubmitPayloads <- MCSubmits
    MaxRequests = 3
    Modes = {TRUE, FALSE}
    OverlapRequests = 2
    OverlapIter = 1
    FaultKinds = {"crash", "expire", "evict"}
    MaxFaults = 1
SYMMETRY MCWriterSymmetry
INVARIANTS
    ServiceTypeOK
    SeenIsRecoverable
    ArtifactNeverAhead
PROPERTIES
    PoolNeverShrinks
    DeactivationSticks
CHECK_DEADLOCK FALSE
