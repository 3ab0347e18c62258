------------------------- MODULE MCMatchSettlement -------------------------
(* Small instances of MatchSettlement for TLC. *)
EXTENDS MatchSettlement, TLC

CONSTANTS alice, bob, robot, match1, match2, w1, w2

TwoHumans == {alice, bob}
OneHuman == {alice}
OneBot == {robot}
TwoMatches == {match1, match2}
OneMatch == {match1}
TwoWorkers == {w1, w2}
OneWorker == {w1}

Symmetry == Permutations(Humans) \cup Permutations(Matches) \cup Permutations(Workers)

\* A finalizer that comes when its match is over gives the lock back, whatever its kind:
\* one kind stands for the three.
LatecomersAlike == \A w \in Workers :
    At(w, "idle") /\ At(w, "decide")' /\ status[job'[w].match] # "active" => job'[w].kind = "complete"
=============================================================================
