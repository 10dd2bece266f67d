\* Ticks without news.
SPECIFICATION Spec
CONSTANTS
    c1 = c1
    c2 = c2
    p1 = p1
    p2 = p2
    Calls = {c1}
    Pointers = {p1, p2}
    Kinds = {}
    MaxRating = 2
    MaxTicks = 3
    MaxByHand = 0
    MaxFaults = 0
    FaultKinds = {"crash", "reset"}
PROPERTIES
    CurrentPointersStay
CHECK_DEADLOCK FALSE
