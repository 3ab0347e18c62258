SPECIFICATION FairSpec
CONSTANTS
    alice = alice
    bob = bob
    h1 = h1
    r1 = r1
    z = z
    Players <- TwoPlayers
    Handlers <- OneHandler
    Replicas <- OneReplica
    Resumer = z
    Home <- OneHome
    Free = Free
    Orphan = Orphan
    RoundCount = 2
    MaxFaults = 1
INVARIANT TypeOK
INVARIANT PublishedOnce
INVARIANT AckedAnswersCount
INVARIANT OnlyResumesRewind
PROPERTY RoundsInOrder
PROPERTY MatchEnds
CHECK_DEADLOCK FALSE
CONSTRAINT NotTakenBack
