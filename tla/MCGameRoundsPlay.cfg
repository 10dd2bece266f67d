\* Three players, two rounds, two bonuses, one player who leaves.
SPECIFICATION Spec
CONSTANTS
    a1 = a1
    a2 = a2
    a3 = a3
    Avatars = {a1, a2, a3}
    MaxScore = 3
    WarmUp = 2
    TrailDelay = 2
    WarmDown = 3
    Duration <- MCDuration
    PopDelays = {2}
    Seatings <- MCSeatings
    MaxRounds = 2
    MaxLeaves = 1
INVARIANTS
    TypeOK
    RoundsNeedTwo
    TrailsWait
    StackedBonusesHold
PROPERTIES
    RoundsScoreOnce
    LongerLivesScoreMore
    RoundsMoveOn
CHECK_DEADLOCK FALSE
