SPECIFICATION FairSpec
CONSTANTS
    First = first
    Second = second
    AutoBan = auto
    AiBan = ai
    Grace = grace
    Link = link
    Free = free
    MaxDrops = 1
    MaxThrows = 1
CONSTRAINT Bounded
ACTION_CONSTRAINT FaultsMeet
INVARIANT TypeOK
INVARIANT OneMatch
INVARIANT TicketsConserved
INVARIANT MatchKeepsLobby
PROPERTY DraftEnds
CHECK_DEADLOCK FALSE
