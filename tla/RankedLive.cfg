SPECIFICATION FairSpec
CONSTANTS
    alice = alice
    bob = bob
    carol = carol
    lobby1 = lobby1
    lobby2 = lobby2
    id1 = id1
    id2 = id2
    Users <- Pair
    Ids <- OneId
    Lobbies <- OneLobby
    Tickers <- OneTicker
    NoSearch = NoSearch
    NoLobby = NoLobby
    LockLapses = FALSE
    ReEmits = FALSE
    SlowClaims = FALSE
    Droppers <- NoOne
    Faults = FALSE
INVARIANTS
    NoStrandedSearch
PROPERTY QueueDrains
