SPECIFICATION Spec
CONSTANTS
    alice = alice
    bob = bob
    robot = robot
    match1 = match1
    match2 = match2
    w1 = w1
    w2 = w2
    Humans <- OneHuman
    Bots <- OneBot
    Matches <- TwoMatches
    Workers <- TwoWorkers
    NoMatch = NoMatch
    Nobody = Nobody
    Free = Free
    Dead = Dead
    Fails = TRUE
    Crashes = TRUE
    Lapses = TRUE
SYMMETRY Symmetry
INVARIANTS
    TypeOK
    BotStandingExact
    RefundsExact
    OneResult
PROPERTIES
    OneEnding
ACTION_CONSTRAINT LatecomersAlike
