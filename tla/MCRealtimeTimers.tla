------------------------- MODULE MCRealtimeTimers -------------------------
(* Instances of RealtimeTimers for TLC.  A tick stands for about a second: *)
(* the 250 ms grace rounds down to no tick, the retry up to one, the 10 s  *)
(* lock TTL is two ticks so that a handler can outlive it.                 *)
EXTENDS RealtimeTimers, TLC

CONSTANTS r1, r2, m1, m2

OneReplica == {r1}
TwoReplicas == {r1, r2}
OneMember == {m1}
TwoMembers == {m1, m2}

Symmetry == Permutations(TwoReplicas)

=============================================================================
