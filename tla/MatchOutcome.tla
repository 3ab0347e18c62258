---------------------------- MODULE MatchOutcome ----------------------------
(***************************************************************************)
(* What the end of a ranked match promises, without finalizers, locks or   *)
(* transactions: a match is open and then over, with one result or none,   *)
(* and stays so.  A result rates all its players at once; only the loser   *)
(* of an early forfeit is rated before, or without, one.  Tickets come     *)
(* back in one step and only without a result.  The players are told one   *)
(* result, the one there is.  MatchSettlement implements this.             *)
(***************************************************************************)
EXTENDS Naturals

CONSTANTS
    Humans, Bots,
    Matches,
    Nobody    \* the winner of a draw

VARIABLES
    status,    \* of each match: "none", "active", "completed" or "abandoned"
    roster,    \* who plays it
    winner,    \* the result of a completed one
    ledger,    \* the matches and players that are rated
    refunds,   \* tickets given back, per match and human
    announced  \* the results its players were told

vars == <<status, roster, winner, ledger, refunds, announced>>

Init ==
    /\ status = [m \in Matches |-> "none"]
    /\ roster = [m \in Matches |-> {}]
    /\ winner = [m \in Matches |-> Nobody]
    /\ ledger = {}
    /\ refunds = [m \in Matches |-> [u \in Humans |-> 0]]
    /\ announced = [m \in Matches |-> {}]

\* Nobody plays two open matches, bots included.
Open(m, u, v) ==
    /\ status[m] = "none"
    /\ \A n \in Matches : status[n] = "active" => roster[n] \cap {u, v} = {}
    /\ status' = [status EXCEPT ![m] = "active"]
    /\ roster' = [roster EXCEPT ![m] = {u, v}]
    /\ UNCHANGED <<winner, ledger, refunds, announced>>

Complete(m, v) ==
    /\ status[m] = "active"
    /\ status' = [status EXCEPT ![m] = "completed"]
    /\ winner' = [winner EXCEPT ![m] = v]
    /\ UNCHANGED <<roster, ledger, refunds, announced>>

Abandon(m) ==
    /\ status[m] = "active"
    /\ status' = [status EXCEPT ![m] = "abandoned"]
    /\ UNCHANGED <<roster, winner, ledger, refunds, announced>>

\* The result reaches the standings of all players at once.
Settle(m) ==
    /\ status[m] = "completed"
    /\ ledger' = ledger \cup ({m} \X roster[m])
    /\ UNCHANGED <<status, roster, winner, refunds, announced>>

\* A human who forfeits early is rated before there is a result, if there will be one.
Penalise(m, u) ==
    /\ status[m] \in {"active", "abandoned"}
    /\ u \in Humans
    /\ ledger' = ledger \cup {<<m, u>>}
    /\ UNCHANGED <<status, roster, winner, refunds, announced>>

GiveBack(m, us) ==
    /\ status[m] = "abandoned"
    /\ us \subseteq Humans
    /\ \A u \in Humans : refunds[m][u] = 0
    /\ refunds' = [refunds EXCEPT ![m] = [u \in Humans |-> IF u \in us THEN 1 ELSE 0]]
    /\ UNCHANGED <<status, roster, winner, ledger, announced>>

\* A completion whose match was abandoned under it still tells what it decided.
Announce(m, v) ==
    /\ status[m] \in {"completed", "abandoned"}
    /\ status[m] = "completed" => v = winner[m]
    /\ announced[m] \subseteq {v}
    /\ announced' = [announced EXCEPT ![m] = {v}]
    /\ UNCHANGED <<status, roster, winner, ledger, refunds>>

\* What goes on before an ending and after it is not seen here.
Next ==
    \/ UNCHANGED vars
    \/ \E m \in Matches :
         \/ \E u \in Humans, v \in Humans \cup Bots : Open(m, u, v)
         \/ \E v \in roster[m] \cup {Nobody} : Complete(m, v) \/ Announce(m, v)
         \/ Abandon(m) \/ Settle(m)
         \/ \E u \in roster[m] : Penalise(m, u)
         \/ \E us \in SUBSET roster[m] : GiveBack(m, us)

Spec == Init /\ [][Next]_vars
=============================================================================
