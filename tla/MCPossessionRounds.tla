------------------------- MODULE MCPossessionRounds -------------------------
(* TLC instances of PossessionRounds. *)
EXTENDS PossessionRounds, TLC

CONSTANTS alice, bob, h1, r1, z

TwoPlayers == {alice, bob}
OneHandler == {h1}
OneReplica == {r1}
OneHome == [a \in Actors |-> r1]
\* Every property excuses a match that a resume took back: TLC goes no further there.
NotTakenBack == ~rewound

=============================================================================
