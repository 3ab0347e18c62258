SPECIFICATION Spec
CONSTANTS
    alice = alice
    bob = bob
    carol = carol
    lobby1 = lobby1
    lobby2 = lobby2
    id1 = id1
    id2 = id2
    Users <- Pair
    Ids <- OneId
    Lobbies <- TwoLobbies
    Tickers <- OneTicker
    NoSearch = NoSearch
    NoLobby = NoLobby
    LockLapses = FALSE
    ReEmits = FALSE
    SlowClaims = TRUE
    Droppers <- NoOne
    Faults = TRUE
SYMMETRY Interchangeable
INVARIANT TypeOK
INVARIANT OneRankedLobby
INVARIANT NoDraftAfterLeave
INVARIANT SearchNotCancelled
