\* Calls and games die, in twos.
SPECIFICATION Spec
CONSTANTS
    l1 = l1
    d1 = d1
    e1 = e1
    Loops = {l1}
    Drains = {d1}
    Reducers = {e1}
    MaxRound = 3
    MaxPool = 3
    RoundCount = 1
    DiesAt = {0, 1}
    MaxFaults = 2
    FaultKinds = {"request", "games", "loop", "call", "reducer", "drain"}
INVARIANTS
    TypeOK
PROPERTIES
    OnlyDeadRoundsAreSkipped
    
CHECK_DEADLOCK FALSE
