----------------------------- MODULE MatchRounds -----------------------------
(***************************************************************************)
(* What the rounds of a match promise, without locks, leases or timers:    *)
(* the questions are asked one after the other, and each one is scored     *)
(* once, while it is the current one, before the match moves on.  A        *)
(* process that dies may have applied a result without moving on, and      *)
(* then it is applied again.  PossessionRounds implements this, as long    *)
(* as no resume rewinds the match.                                         *)
(***************************************************************************)
EXTENDS Naturals

CONSTANT RoundCount  \* questions of the match

VARIABLES
    current,  \* the index the match is at
    asked,    \* is its question out?
    scored,   \* how often each question's result was applied
    died,     \* has a process died?
    rewound   \* has the match been taken back?

vars == <<current, asked, scored, died, rewound>>

Rounds == 0..(RoundCount - 1)

Init ==
    /\ current = 0
    /\ asked = TRUE
    /\ scored = [q \in Rounds |-> 0]
    /\ died = FALSE
    /\ rewound = FALSE

Score ==
    /\ asked
    /\ scored[current] = 0 \/ died
    /\ scored' = [scored EXCEPT ![current] = IF @ = 0 THEN 1 ELSE 2]
    /\ UNCHANGED <<current, asked, died, rewound>>

Advance ==
    /\ asked
    /\ scored[current] > 0
    /\ current' = current + 1
    /\ asked' = FALSE
    /\ UNCHANGED <<scored, died, rewound>>

Ask ==
    /\ ~asked
    /\ current \in Rounds
    /\ asked' = TRUE
    /\ UNCHANGED <<current, scored, died, rewound>>

Die ==
    /\ ~died
    /\ died' = TRUE
    /\ UNCHANGED <<current, asked, scored, rewound>>

\* Nothing is promised of a match that is taken back.
Rewind == rewound'

Next == Score \/ Advance \/ Ask \/ Die \/ Rewind

Spec == Init /\ [][Next]_vars
=============================================================================
