--------------------------- MODULE MatchSettlement ---------------------------
(***************************************************************************)
(* How a ranked 1v1 match ends: completion from the pitch, forfeit, early   *)
(* forfeit and no-contest, abandonment, and the settlement of standings,    *)
(* tickets and bot reservations that follows (possession-completion.ts,     *)
(* match-forfeit.service.ts, ranked-no-contest.service.ts,                  *)
(* match-terminal.service.ts, match-final-results.service.ts and the        *)
(* settlement half of ranked.service.ts / ranked.repo.ts).                  *)
(*                                                                          *)
(* Finalizers run in any replica and meet only in a Redis lock and in the   *)
(* database.  A transaction is one action, every other await a boundary.    *)
(* A standing is the set of matches whose result it includes: the code      *)
(* writes ranked_profiles from values it read before its transaction, so    *)
(* a write replaces that set instead of adding to it.                       *)
(***************************************************************************)
EXTENDS Integers, FiniteSets

CONSTANTS
    Humans, Bots,  \* players; bots are the persistent roster bots, who settle too
    Matches,
    Workers,       \* finalizers in progress at once
    NoMatch,
    Nobody,        \* the winner of a draw
    Free,          \* the completion lock's key does not exist
    Dead,          \* it holds the token of a process that is gone
    Fails,         \* may a database or Redis call throw?
    Crashes,       \* may a replica die?
    Lapses         \* may the abandoner's lock, which nothing renews, expire under it?

Players == Humans \cup Bots
Outcomes == Players \cup {Nobody}

ASSUME NamesAssumption ==
    /\ Humans \cap Bots = {} /\ Nobody \notin Players /\ NoMatch \notin Matches
    /\ Free \notin Workers /\ Dead \notin Workers /\ Free # Dead
ASSUME SwitchAssumption == {Fails, Crashes, Lapses} \subseteq BOOLEAN

VARIABLES
    status,     \* matches.status; "none" before the match exists
    roster,     \* match_players
    winner,     \* matches.winner_user_id
    noContest,  \* state_payload.cancelledNoContest
    lock,       \* lock:match:<id>:complete
    ledger,     \* ranked_rp_changes, one row per match and player
    standing,   \* ranked_profiles: the matches this player's RP includes
    refunds,    \* tickets given back, per match and player
    reserved,   \* synthetic_bot_reservations: the match a bot is held for
    lastMatch,  \* lastMatchKey: the result a player can have replayed
    announced,  \* the results (not the no-contests) sent as match:final_results
    job         \* the finalizers

matchVars == <<status, roster, winner, noContest>>
rankVars  == <<ledger, standing>>
vars == <<matchVars, lock, rankVars, refunds, reserved, lastMatch, announced, job>>

Steps == {"idle", "decide", "flip", "penalise", "mark", "cancel", "refund", "read", "write",
          "free", "remember", "release", "unlock", "announce"}
Kinds == {"none", "complete", "forfeit", "abandon", "replay"}

Jobs == [at : Steps, kind : Kinds, match : Matches \cup {NoMatch}, winner : Players \cup {Nobody},
         spared : SUBSET Humans, missing : SUBSET Players, snap : [Players -> SUBSET Matches]]

Idle == [at |-> "idle", kind |-> "none", match |-> NoMatch, winner |-> Nobody,
         spared |-> {}, missing |-> {}, snap |-> [u \in Players |-> {}]]

TypeOK ==
    /\ status \in [Matches -> {"none", "active", "completed", "abandoned"}]
    /\ roster \in [Matches -> SUBSET Players]
    /\ winner \in [Matches -> Players \cup {Nobody}]
    /\ noContest \in [Matches -> BOOLEAN]
    /\ lock \in [Matches -> Workers \cup {Free, Dead}]
    /\ ledger \subseteq Matches \X Players
    /\ standing \in [Players -> SUBSET Matches]
    /\ refunds \in [Matches -> [Humans -> Nat]]
    /\ reserved \in [Bots -> Matches \cup {NoMatch}]
    /\ lastMatch \in [Humans -> Matches \cup {NoMatch}]
    /\ announced \in [Matches -> SUBSET Outcomes]
    /\ job \in [Workers -> Jobs]

Init ==
    /\ status = [m \in Matches |-> "none"] /\ roster = [m \in Matches |-> {}]
    /\ winner = [m \in Matches |-> Nobody] /\ noContest = [m \in Matches |-> FALSE]
    /\ lock = [m \in Matches |-> Free]
    /\ ledger = {} /\ standing = [u \in Players |-> {}]
    /\ refunds = [m \in Matches |-> [u \in Humans |-> 0]]
    /\ reserved = [b \in Bots |-> NoMatch]
    /\ lastMatch = [u \in Humans |-> NoMatch]
    /\ announced = [m \in Matches |-> {}]
    /\ job = [w \in Workers |-> Idle]

-----------------------------------------------------------------------------
(* Shared reads and writes *)

Settled(m, u) == <<m, u>> \in ledger
\* What a settlement read does not outlive it.
Goto(w, step) == job' = [job EXCEPT ![w].at = step, ![w].missing = {}, ![w].snap = Idle.snap]
At(w, step) == job[w].at = step
Done(w) == job' = [job EXCEPT ![w] = Idle]

\* A forfeit names the other player as the winner.
Forfeiter(w) == {u \in roster[job[w].match] : u # job[w].winner}

\* Mutant: a bot is released with its match, whether its result has landed or not.
FreeAlways(m) == reserved' = [b \in Bots |-> IF reserved[b] = m THEN NoMatch ELSE reserved[b]]

\* releaseReservationByMatchIfSettled: the predicate is part of the DELETE.
FreeIfSettled(m) ==
    reserved' = [b \in Bots |->
        IF reserved[b] = m /\ (Settled(m, b) \/ status[m] = "abandoned") THEN NoMatch ELSE reserved[b]]

\* Mutant: the bot's account is credited like a human's.
PayRoster(m, us) ==
    refunds' = [refunds EXCEPT ![m] = [u \in Humans \cup roster[m] |->
        IF u \in roster[m] THEN 1 ELSE refunds[m][u]]]

\* refundRankedTickets
Pay(m, us) ==
    refunds' = [refunds EXCEPT ![m] = [u \in Humans |-> IF u \in us THEN @[u] + 1 ELSE @[u]]]

\* buildFinalResultsPayload from the match row: a winner, a draw, or no result at all.
Results(m) == IF status[m] = "completed" /\ ~noContest[m] THEN {winner[m]} ELSE {}

Tell(m, outcomes) == announced' = [announced EXCEPT ![m] = @ \cup outcomes]

-----------------------------------------------------------------------------
(* A match starts and a finalizer takes its lock *)

\* The session guard keeps a human out of two active matches, the reservation a bot.
StartMatch(m, u, v) ==
    /\ status[m] = "none" /\ u # v
    /\ \A n \in Matches : status[n] = "active" => roster[n] \cap {u, v} \cap Humans = {}
    /\ \A b \in Bots \cap {v} : reserved[b] = NoMatch
    /\ status' = [status EXCEPT ![m] = "active"]
    /\ roster' = [roster EXCEPT ![m] = {u, v}]
    /\ reserved' = [b \in Bots |-> IF b = v THEN m ELSE reserved[b]]
    /\ UNCHANGED <<winner, noContest, lock, rankVars, refunds, lastMatch, announced, job>>

Acquire(w, m, kind) ==
    /\ At(w, "idle") /\ status[m] # "none" /\ lock[m] = Free
    /\ lock' = [lock EXCEPT ![m] = w]
    /\ job' = [job EXCEPT ![w] = [Idle EXCEPT !.at = "decide", !.kind = kind, !.match = m]]
    /\ UNCHANGED <<matchVars, rankVars, refunds, reserved, lastMatch, announced>>

\* Mutant: the status is not read again under the lock.
DecideUnchecked(w) ==
    LET m == job[w].match IN
    /\ At(w, "decide")
    /\ \E next \in {"flip", "penalise", "mark", "cancel", "release"}, v \in roster[m] \cup {Nobody} :
         /\ \/ job[w].kind = "complete" /\ next \in {"flip", "mark"}
            \/ job[w].kind = "forfeit" /\ next \in {"flip", "penalise"} /\ roster[m] \ {v} \subseteq Humans
               /\ v # Nobody
            \/ job[w].kind = "abandon" /\ next = "cancel"
         /\ job' = [job EXCEPT ![w].at = next, ![w].winner = v]
    /\ UNCHANGED <<matchVars, lock, rankVars, refunds, reserved, lastMatch, announced>>

\* getMatch under the lock, then what the finalizer makes of it: a result or, when no
\* human ever answered, a no-contest; a forfeit, early or not; or an abandonment.
Decide(w) ==
    LET m == job[w].match IN
    /\ At(w, "decide")
    /\ \/ status[m] # "active" /\ Goto(w, "release")
       \/ /\ status[m] = "active" /\ job[w].kind = "complete"
          /\ \/ \E v \in roster[m] \cup {Nobody} : job' = [job EXCEPT ![w].at = "flip", ![w].winner = v]
             \/ Goto(w, "mark")
             \/ Goto(w, "release")  \* undecidable
       \/ /\ status[m] = "active" /\ job[w].kind = "forfeit"
          /\ \E v \in roster[m], next \in {"flip", "penalise"} :
               /\ roster[m] \ {v} \subseteq Humans
               /\ job' = [job EXCEPT ![w].at = next, ![w].winner = v]
       \/ status[m] = "active" /\ job[w].kind = "abandon" /\ Goto(w, "cancel")
    /\ UNCHANGED <<matchVars, lock, rankVars, refunds, reserved, lastMatch, announced>>

-----------------------------------------------------------------------------
(* The two terminal transitions *)

\* Mutant: the update that completes a match has no condition on its status.
FlipUnchecked(w) ==
    LET m == job[w].match IN
    /\ At(w, "flip")
    /\ status' = [status EXCEPT ![m] = "completed"]
    /\ winner' = [winner EXCEPT ![m] = job[w].winner]
    /\ noContest' = [noContest EXCEPT ![m] = FALSE]
    /\ Goto(w, "read")
    /\ UNCHANGED <<roster, lock, rankVars, refunds, reserved, lastMatch, announced>>

\* completeMatch: a lost compare-and-set returns as if it had been won.  A forfeit
\* without a cache snapshot spreads the payload it read, a completion replaces it.
Flip(w) ==
    LET m == job[w].match IN
    /\ At(w, "flip")
    /\ IF status[m] = "active"
         THEN /\ status' = [status EXCEPT ![m] = "completed"]
              /\ winner' = [winner EXCEPT ![m] = job[w].winner]
              /\ \E keep \in {FALSE, noContest[m] /\ job[w].kind = "forfeit"} :
                    noContest' = [noContest EXCEPT ![m] = keep]
         ELSE UNCHANGED <<status, winner, noContest>>
    /\ Goto(w, "read")
    /\ UNCHANGED <<roster, lock, rankVars, refunds, reserved, lastMatch, announced>>

\* bumpEarlyForfeitCount and, past the free limit, applyEarlyForfeitRpPenalty, which
\* locks the profile and so adds to it; the ticket is then kept, row inserted or not.
Penalise(w) ==
    LET m == job[w].match IN
    /\ At(w, "penalise")
    /\ \/ Goto(w, "mark") /\ UNCHANGED rankVars
       \/ /\ ledger' = ledger \cup ({m} \X Forfeiter(w))
          /\ standing' = [u \in Players |->
                IF u \in Forfeiter(w) /\ ~Settled(m, u) THEN standing[u] \cup {m} ELSE standing[u]]
          /\ job' = [job EXCEPT ![w].at = "mark", ![w].spared = Forfeiter(w)]
    /\ UNCHANGED <<matchVars, lock, refunds, reserved, lastMatch, announced>>

\* finalizeRankedNoContest: setMatchStatePayload, guarded by the status ...
Mark(w) ==
    LET m == job[w].match IN
    /\ At(w, "mark")
    /\ noContest' = IF status[m] = "active" THEN [noContest EXCEPT ![m] = TRUE] ELSE noContest
    /\ Goto(w, "cancel")
    /\ UNCHANGED <<status, roster, winner, lock, rankVars, refunds, reserved, lastMatch, announced>>

\* Mutant: the result of the compare-and-set is ignored.
CancelUnchecked(w) ==
    LET m == job[w].match IN
    /\ At(w, "cancel")
    /\ status' = IF status[m] = "active" THEN [status EXCEPT ![m] = "abandoned"] ELSE status
    /\ Goto(w, IF job[w].kind = "abandon" THEN "unlock" ELSE "refund")
    /\ UNCHANGED <<roster, winner, noContest, lock, rankVars, refunds, reserved, lastMatch, announced>>

\* ... then abandonMatch, a compare-and-set whose loss throws (or, for the abandoner,
\* ends the attempt).
Cancel(w) ==
    LET m == job[w].match IN
    /\ At(w, "cancel")
    /\ IF status[m] = "active"
         THEN /\ status' = [status EXCEPT ![m] = "abandoned"]
              /\ Goto(w, IF job[w].kind = "abandon" THEN "unlock" ELSE "refund")
         ELSE status' = status /\ Goto(w, "release")
    /\ UNCHANGED <<roster, winner, noContest, lock, rankVars, refunds, reserved, lastMatch, announced>>

\* The abandoner has nothing left to do.
Refunded(w) == IF job[w].kind = "abandon" THEN Done(w) ELSE Goto(w, "free")

\* Every human but the penalised one; the abandoner refunds after its lock,
\* but not when it is the session guard, leaving a match nobody entered.
Refund(w) ==
    LET m == job[w].match IN
    /\ At(w, "refund")
    /\ \/ Pay(m, (roster[m] \cap Humans) \ job[w].spared)
       \/ job[w].kind = "abandon" /\ refunds' = refunds
    /\ Refunded(w)
    /\ UNCHANGED <<matchVars, lock, rankVars, reserved, lastMatch, announced>>

-----------------------------------------------------------------------------
(* settleCompletedRankedMatch, and the end of the finalizer *)

\* What a settlement that returned, or threw, leads to.
Returned(w) == IF job[w].kind = "replay" THEN "announce" ELSE "free"
Threw(w) == CASE job[w].kind = "replay" -> "announce"
              [] job[w].kind = "complete" -> "remember"
              [] OTHER -> "free"

\* The rows that exist, then the profiles of those without one.
ReadStandings(w) ==
    LET m == job[w].match
        missing == {u \in roster[m] : ~Settled(m, u)}
    IN
    /\ At(w, "read")
    /\ IF status[m] = "completed" /\ missing # {}
         THEN job' = [job EXCEPT ![w].at = "write", ![w].missing = missing, ![w].snap = standing]
         ELSE Goto(w, Returned(w))
    /\ UNCHANGED <<matchVars, lock, rankVars, refunds, reserved, lastMatch, announced>>

\* applySettlement: each row is inserted at most once, and only its inserter writes
\* the profile, from the values read before the transaction.
ApplySettlement(w) ==
    LET m == job[w].match IN
    /\ ledger' = ledger \cup ({m} \X job[w].missing)
    /\ standing' = [u \in Players |->
          IF u \in job[w].missing /\ ~Settled(m, u) THEN job[w].snap[u] \cup {m} ELSE standing[u]]

Settle(w) ==
    /\ At(w, "write")
    /\ ApplySettlement(w)
    /\ Goto(w, Returned(w))
    /\ UNCHANGED <<matchVars, lock, refunds, reserved, lastMatch, announced>>

\* releaseIfSettled
FreeBot(w) ==
    /\ At(w, "free")
    /\ FreeIfSettled(job[w].match)
    /\ Goto(w, IF job[w].kind = "abandon" THEN "refund" ELSE "remember")
    /\ UNCHANGED <<matchVars, lock, rankVars, refunds, lastMatch, announced>>

\* A completion past its transition that did not end in a no-contest.
Decided(w) ==
    LET m == job[w].match IN
    job[w].kind = "complete" /\ status[m] # "active" /\ ~noContest[m]

\* The replay keys.  A completion announces its own decision under the lock, any
\* other ending what the row says once the lock is free.
Remember(w) ==
    LET m == job[w].match IN
    /\ At(w, "remember")
    /\ \/ lastMatch' = [u \in Humans |-> IF u \in roster[m] THEN m ELSE lastMatch[u]]
       \/ Fails /\ lastMatch' = lastMatch
    /\ IF Decided(w) THEN Tell(m, {job[w].winner}) /\ Goto(w, "release")
                  ELSE announced' = announced /\ Goto(w, "unlock")
    /\ UNCHANGED <<matchVars, lock, rankVars, refunds, reserved>>

Unlocked(w) == lock' = [m \in Matches |-> IF lock[m] = w THEN Free ELSE lock[m]]

\* releaseLock compares the token.
Release(w) ==
    /\ At(w, "release")
    /\ Unlocked(w)
    /\ Done(w)
    /\ UNCHANGED <<matchVars, rankVars, refunds, reserved, lastMatch, announced>>

Unlock(w) ==
    /\ At(w, "unlock")
    /\ Unlocked(w)
    /\ Goto(w, IF job[w].kind = "abandon" THEN "free" ELSE "announce")
    /\ UNCHANGED <<matchVars, rankVars, refunds, reserved, lastMatch, announced>>

Announce(w) ==
    /\ At(w, "announce")
    /\ Tell(job[w].match, Results(job[w].match))
    /\ Done(w)
    /\ UNCHANGED <<matchVars, lock, rankVars, refunds, reserved, lastMatch>>

-----------------------------------------------------------------------------
(* Replays, acknowledgements, the reservation sweeper, failures *)

\* emitLastMatchResultIfAny on a connect: no lock; a no-contest is only shown again.
Replay(w, u) ==
    LET m == lastMatch[u] IN
    /\ At(w, "idle") /\ m # NoMatch /\ ~noContest[m]
    /\ IF status[m] = "abandoned"
         THEN lastMatch' = [lastMatch EXCEPT ![u] = NoMatch] /\ job' = job
         ELSE /\ lastMatch' = lastMatch
              /\ job' = [job EXCEPT ![w] = [Idle EXCEPT !.at = "read", !.kind = "replay", !.match = m]]
    /\ UNCHANGED <<matchVars, lock, rankVars, refunds, reserved, announced>>

\* handleFinalResultsAck: the announcement or a replay reached the client.
Acknowledge(u) ==
    /\ lastMatch[u] # NoMatch
    /\ lastMatch' = [lastMatch EXCEPT ![u] = NoMatch]
    /\ UNCHANGED <<matchVars, lock, rankVars, refunds, reserved, announced, job>>

\* reconcileOne: an expired reservation of a match that is over.
SweepReservation(m) ==
    /\ status[m] \in {"completed", "abandoned"} /\ \E b \in Bots : reserved[b] = m
    /\ FreeIfSettled(m)
    /\ UNCHANGED <<matchVars, lock, rankVars, refunds, lastMatch, announced, job>>

\* A call throws: a penalty, a settlement, a refund or a release that fails is logged
\* and skipped; any other call ends the finalizer, before or after the transition.
Throw(w) ==
    /\ Fails
    /\ \/ job[w].at \in {"decide", "flip", "mark", "cancel"} /\ Goto(w, "release")
       \/ /\ job[w].kind \in {"complete", "forfeit"} /\ Goto(w, "release")
          /\ job[w].at \in {"read", "refund"} \cup (IF Decided(w) THEN {} ELSE {"free", "remember"})
       \/ At(w, "penalise") /\ Goto(w, "mark")
       \/ job[w].at \in {"read", "write"} /\ Goto(w, Threw(w))
       \/ At(w, "refund") /\ Refunded(w)
       \/ At(w, "free") /\ Goto(w, IF job[w].kind = "abandon" THEN "refund" ELSE "remember")
    /\ UNCHANGED <<matchVars, lock, rankVars, refunds, reserved, lastMatch, announced>>

Crash(w) ==
    /\ Crashes /\ ~At(w, "idle")
    /\ Done(w)
    /\ lock' = [m \in Matches |-> IF lock[m] = w THEN Dead ELSE lock[m]]
    /\ UNCHANGED <<matchVars, rankVars, refunds, reserved, lastMatch, announced>>

\* The 15 s of a lock nothing renews: a dead process's, or the abandoner's.
Expire(m) ==
    /\ \/ lock[m] = Dead
       \/ Lapses /\ \E w \in Workers : lock[m] = w /\ job[w].kind = "abandon"
    /\ lock' = [lock EXCEPT ![m] = Free]
    /\ UNCHANGED <<matchVars, rankVars, refunds, reserved, lastMatch, announced, job>>

-----------------------------------------------------------------------------
Finalizer(w) ==
    \/ Decide(w) \/ Flip(w) \/ Penalise(w) \/ Mark(w) \/ Cancel(w) \/ Refund(w)
    \/ ReadStandings(w) \/ Settle(w) \/ FreeBot(w) \/ Remember(w)
    \/ Release(w) \/ Unlock(w) \/ Announce(w)

Next ==
    \/ \E m \in Matches, u \in Humans, v \in Players : StartMatch(m, u, v)
    \/ \E w \in Workers, m \in Matches, k \in {"complete", "forfeit", "abandon"} : Acquire(w, m, k)
    \/ \E w \in Workers : Finalizer(w) \/ Throw(w) \/ Crash(w) \/ \E u \in Humans : Replay(w, u)
    \/ \E u \in Humans : Acknowledge(u)
    \/ \E m \in Matches : SweepReservation(m) \/ Expire(m)

Spec == Init /\ [][Next]_vars

-----------------------------------------------------------------------------
(* Properties *)

\* A bot's standing is exactly the sum of its ledger: the reservation, freed only once
\* the bot's row exists, keeps two matches of one bot from reading the same profile.
BotStandingExact == \A b \in Bots : standing[b] = {m \in Matches : Settled(m, b)}

\* A ticket comes back at most once, and only for a match that ended without a result,
\* whichever finalizers met and whichever of them was interrupted.
RefundsExact == \A m \in Matches, u \in Humans : refunds[m][u] > 0 =>
    /\ refunds[m][u] = 1
    /\ status[m] = "abandoned" /\ u \in roster[m]

\* The players of a match are never told two results, and a winner they are told of is
\* the recorded one, unless the match was abandoned under the completer's feet.
OneResult == \A m \in Matches :
    /\ Cardinality(announced[m]) <= 1
    /\ status[m] = "completed" => announced[m] \subseteq {winner[m]}

\* The same match without what makes it end.
Promise == INSTANCE MatchOutcome

\* However finalizers meet, throw or die, a match ends once and for good, in one way:
\* with a result that its players are rated by and told, or without one and then, in one
\* step, with their tickets back.
OneEnding == Promise!Spec

\* A result that did not settle can still be settled: by a finalizer at work on it or by
\* a player's replay, as the completion's comment on failed settlements promises.
UnsettledReplayable == \A m \in Matches :
    status[m] = "completed" /\ (\E u \in roster[m] : ~Settled(m, u)) =>
        \/ \E w \in Workers : job[w].match = m
        \/ \E u \in Humans : lastMatch[u] = m
=============================================================================
