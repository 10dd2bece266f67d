\* Two players, two rounds, one bonus.
SPECIFICATION Spec
CONSTANTS
    a1 = a1
    a2 = a2
    a3 = a3
    Avatars = {a1, a2}
    MaxScore = 3
    WarmUp = 2
    TrailDelay = 2
    WarmDown = 3
    Duration <- MCDuration
    PopDelays = {2}
    Seatings <- MCPair
    MaxRounds = 2
    MaxLeaves = 0
INVARIANTS
    WallsComeBack
CHECK_DEADLOCK FALSE
