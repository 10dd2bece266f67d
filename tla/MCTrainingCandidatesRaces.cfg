\* Ticks beside a call by hand, one call or one trainer failing.
SPECIFICATION FairSpec
CONSTANTS
    c1 = c1
    c2 = c2
    p1 = p1
    p2 = p2
    Calls = {c1, c2}
    Pointers = {p1}
    Kinds = {"manual", "publish", "repair"}
    MaxRating = 2
    MaxTicks = 3
    MaxByHand = 1
    MaxFaults = 1
    FaultKinds = {"crash", "reset"}
INVARIANTS
    TypeOK
    
PROPERTIES
    TrainersMoveForward
    RatingsReachTrainers
CHECK_DEADLOCK FALSE
