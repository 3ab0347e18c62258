------------------------ MODULE MCRankedMatchmaking ------------------------
(* TLC instances of RankedMatchmaking. *)
EXTENDS RankedMatchmaking, TLC

CONSTANTS alice, bob, carol, lobby1, lobby2, id1, id2

Alone == {alice}
Pair == {alice, bob}
Trio == {alice, bob, carol}
NoOne == {}
OneId == {id1}
TwoIds == {id1, id2}
OneLobby == {lobby1}
TwoLobbies == {lobby1, lobby2}
OneTicker == {"t1"}
TwoTickers == {"t1", "t2"}

\* A run in which only some players' sockets drop can only permute what it treats alike.
Interchangeable == Permutations(Users) \cup Permutations(Lobbies) \cup Permutations(Ids)
InterchangeableIds == Permutations(Ids)
=============================================================================
