SPECIFICATION Spec
CONSTANTS
    QuestionsPerHalf = 6
    Regulation = 5
    MaxSuddenDeath = 2
    Points <- SamplePoints
INVARIANT TypeOK
INVARIANT PhaseFollows
INVARIANT StreakKept
INVARIANT ShootoutFair
INVARIANT WinnerClear
PROPERTY StreakPasses
PROPERTY EndNears
CHECK_DEADLOCK FALSE
