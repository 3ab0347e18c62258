SPECIFICATION Spec
CONSTANTS
    alice = alice
    bob = bob
    robot = robot
    match1 = match1
    match2 = match2
    w1 = w1
    w2 = w2
    Humans <- TwoHumans
    Bots <- OneBot
    Matches <- OneMatch
    Workers <- OneWorker
    NoMatch = NoMatch
    Nobody = Nobody
    Free = Free
    Dead = Dead
    Fails = TRUE
    Crashes = FALSE
    Lapses = FALSE
SYMMETRY Symmetry
INVARIANTS
    UnsettledReplayable
