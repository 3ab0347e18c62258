------------------------ MODULE MatchSettlementProofs ------------------------
(***************************************************************************)
(* Proofs about MatchSettlement, for every set of players, matches and      *)
(* finalizers and every value of the three switches.  The argument:         *)
(*   - a finalizer at work has a match that was started, and the abandoner  *)
(*     takes a path of its own, so every step keeps the types;              *)
(*   - only the winner of abandonMatch's compare-and-set comes to the       *)
(*     refund, and a match is abandoned once: tickets come back once;       *)
(*   - a bot is reserved for the match whose row it still lacks, so no      *)
(*     second match reads its profile in between;                           *)
(*   - a completion or forfeit holds its lock from its first read to its    *)
(*     last, so what it decided is what the row says when it announces.     *)
(* Together they make a match end as MatchOutcome says.                     *)
(***************************************************************************)
EXTENDS MatchSettlement, FiniteSetTheorems, TLAPS

-----------------------------------------------------------------------------
(* Finalizers *)

LEMMA IdleType == Idle \in Jobs
BY NamesAssumption DEF Idle, Jobs, Steps, Kinds, Players

\* What moving a finalizer to its next step does to the finalizers.
LEMMA GotoJob ==
    ASSUME TypeOK, NEW w \in Workers, NEW step \in Steps, Goto(w, step)
    PROVE  /\ job' \in [Workers -> Jobs]
           /\ job'[w].at = step /\ job'[w].kind = job[w].kind /\ job'[w].match = job[w].match
           /\ job'[w].winner = job[w].winner /\ job'[w].spared = job[w].spared
           /\ job'[w].missing = {}
           /\ \A x \in Workers \ {w} : job'[x] = job[x]
<1>1. job \in [Workers -> Jobs] BY DEF TypeOK
<1>2. Idle.snap \in [Players -> SUBSET Matches] BY DEF Idle
<1>3. DEFINE j == [job[w] EXCEPT !.at = step, !.missing = {}, !.snap = Idle.snap]
<1>4. job' = [job EXCEPT ![w] = j] BY <1>1 DEF Goto
<1>5. j \in Jobs /\ j.at = step /\ j.kind = job[w].kind /\ j.match = job[w].match
      /\ j.winner = job[w].winner /\ j.spared = job[w].spared /\ j.missing = {}
  BY <1>1, <1>2 DEF Jobs
<1> HIDE DEF j
<1> QED BY <1>1, <1>4, <1>5

LEMMA DoneJob ==
    ASSUME TypeOK, NEW w \in Workers, Done(w)
    PROVE  /\ job' \in [Workers -> Jobs]
           /\ job'[w] = Idle
           /\ \A x \in Workers \ {w} : job'[x] = job[x]
BY IdleType DEF TypeOK, Done

LEMMA IdleFields == /\ Idle.at = "idle" /\ Idle.kind = "none" /\ Idle.match = NoMatch
                    /\ Idle.missing = {} /\ Idle.spared = {}
BY DEF Idle

\* A finalizer at work has a match that was started, and so has every replay key; only
\* humans forfeit.
Started ==
    /\ \A w \in Workers : ~At(w, "idle") =>
          job[w].match \in Matches /\ status[job[w].match] # "none"
    /\ \A w \in Workers : At(w, "penalise") => Forfeiter(w) \subseteq Humans
    /\ \A u \in Humans : lastMatch[u] # NoMatch => status[lastMatch[u]] # "none"

\* The abandoner walks a path of its own.
AbandonerPath == \A w \in Workers : job[w].kind = "abandon" =>
    job[w].at \in {"decide", "cancel", "unlock", "free", "refund", "release"}

LEMMA AcquireJob ==
    ASSUME TypeOK, NEW w \in Workers, NEW m \in Matches,
           NEW k \in {"complete", "forfeit", "abandon"}, Acquire(w, m, k)
    PROVE  /\ job' \in [Workers -> Jobs]
           /\ job'[w].at = "decide" /\ job'[w].kind = k /\ job'[w].match = m
           /\ job'[w].missing = {}
           /\ \A x \in Workers \ {w} : job'[x] = job[x]
<1> DEFINE j == [Idle EXCEPT !.at = "decide", !.kind = k, !.match = m]
<1>1. j \in Jobs /\ j.at = "decide" /\ j.kind = k /\ j.match = m /\ j.missing = {}
  BY NamesAssumption DEF Idle, Jobs, Steps, Kinds, Players
<1>2. job \in [Workers -> Jobs] /\ job' = [job EXCEPT ![w] = j]
  BY DEF TypeOK, Acquire
<1> HIDE DEF j
<1> QED BY <1>1, <1>2

LEMMA ReplayJob ==
    ASSUME TypeOK, NEW w \in Workers, NEW u \in Humans, Replay(w, u)
    PROVE  \/ job' = job
           \/ /\ job' \in [Workers -> Jobs]
              /\ job'[w].at = "read" /\ job'[w].kind = "replay" /\ job'[w].match = lastMatch[u]
              /\ job'[w].missing = {}
              /\ \A x \in Workers \ {w} : job'[x] = job[x]
<1> DEFINE m == lastMatch[u]
           j == [Idle EXCEPT !.at = "read", !.kind = "replay", !.match = m]
<1>0. m \in Matches \cup {NoMatch} BY DEF TypeOK
<1> HIDE DEF m
<1>1. j \in Jobs /\ j.at = "read" /\ j.kind = "replay" /\ j.match = m /\ j.missing = {}
  BY <1>0, NamesAssumption DEF Idle, Jobs, Steps, Kinds, Players
<1>2. job \in [Workers -> Jobs] BY DEF TypeOK
<1>3. job' = [job EXCEPT ![w] = j] \/ job' = job
  BY DEF Replay, m
<1> HIDE DEF j
<1> QED BY <1>1, <1>2, <1>3 DEF m

\* What a finalizer that read the match under the lock turns to.
LEMMA DecideJob ==
    ASSUME TypeOK, Started, NEW w \in Workers, Decide(w)
    PROVE  /\ job' \in [Workers -> Jobs]
           /\ job'[w].kind = job[w].kind /\ job'[w].match = job[w].match
           /\ job'[w].at \in {"flip", "mark", "penalise", "cancel", "release"}
           /\ job[w].kind = "abandon" => job'[w].at \in {"cancel", "release"}
           /\ job'[w].at = "penalise" =>
                 roster[job'[w].match] \ {job'[w].winner} \subseteq Humans
           /\ \A x \in Workers \ {w} : job'[x] = job[x]
<1> DEFINE m == job[w].match
<1>1. job \in [Workers -> Jobs] /\ m \in Matches /\ roster[m] \subseteq Players
  BY DEF TypeOK, Started, At, Decide
<1>2. ASSUME NEW v \in roster[m] \cup {Nobody}, NEW next \in {"flip", "penalise"},
             job' = [job EXCEPT ![w].at = next, ![w].winner = v]
      PROVE  /\ job' \in [Workers -> Jobs]
             /\ job'[w].kind = job[w].kind /\ job'[w].match = job[w].match
             /\ job'[w].at = next /\ job'[w].winner = v
             /\ \A x \in Workers \ {w} : job'[x] = job[x]
  <2> DEFINE j == [job[w] EXCEPT !.at = next, !.winner = v]
  <2>1. job' = [job EXCEPT ![w] = j] BY <1>1, <1>2
  <2>2. v \in Players \cup {Nobody} /\ next \in Steps BY <1>1 DEF Steps
  <2>3. j \in Jobs /\ j.at = next /\ j.winner = v /\ j.kind = job[w].kind /\ j.match = job[w].match
    BY <1>1, <2>2 DEF Jobs
  <2> HIDE DEF j
  <2> QED BY <1>1, <2>1, <2>3
<1>3. ASSUME NEW next \in {"mark", "release", "cancel"}, Goto(w, next),
             job[w].kind # "abandon" \/ next # "mark"
      PROVE  /\ job' \in [Workers -> Jobs]
             /\ job'[w].kind = job[w].kind /\ job'[w].match = job[w].match
             /\ job'[w].at = next
             /\ \A x \in Workers \ {w} : job'[x] = job[x]
  BY <1>3, GotoJob DEF Steps
<1>4. CASE job[w].kind = "complete" /\ \E v \in roster[m] \cup {Nobody} :
              job' = [job EXCEPT ![w].at = "flip", ![w].winner = v]
  <2>1. PICK v \in roster[m] \cup {Nobody} : job' = [job EXCEPT ![w].at = "flip", ![w].winner = v]
    BY <1>4
  <2> QED BY <1>2, <1>4, <2>1
<1>5. CASE job[w].kind = "forfeit" /\ \E v \in roster[m], next \in {"flip", "penalise"} :
              /\ roster[m] \ {v} \subseteq Humans
              /\ job' = [job EXCEPT ![w].at = next, ![w].winner = v]
  <2>1. PICK v \in roster[m], next \in {"flip", "penalise"} :
              /\ roster[m] \ {v} \subseteq Humans
              /\ job' = [job EXCEPT ![w].at = next, ![w].winner = v]
    BY <1>5
  <2> QED BY <1>2, <1>5, <2>1
<1>6. CASE job[w].kind = "complete" /\ Goto(w, "mark")
  BY <1>3, <1>6
<1>7. CASE Goto(w, "release")
  BY <1>3, <1>7
<1>8. CASE job[w].kind = "abandon" /\ Goto(w, "cancel")
  BY <1>3, <1>8
<1> QED BY <1>4, <1>5, <1>6, <1>7, <1>8 DEF Decide

-----------------------------------------------------------------------------
(* Types *)

LEMMA TypeInit == Init => TypeOK /\ Started /\ AbandonerPath
BY NamesAssumption, IdleType, IdleFields DEF Init, TypeOK, Started, AbandonerPath, At

LEMMA SettleTypes ==
    ASSUME TypeOK, Started, NEW w \in Workers, At(w, "write"), ApplySettlement(w)
    PROVE  ledger' \subseteq Matches \X Players /\ standing' \in [Players -> SUBSET Matches]
<1>1. job[w] \in Jobs /\ job[w].match \in Matches BY DEF TypeOK, Started, At
<1>2. job[w].missing \subseteq Players /\ job[w].snap \in [Players -> SUBSET Matches]
  BY <1>1 DEF Jobs
<1> QED BY <1>1, <1>2 DEF ApplySettlement, TypeOK

\* What a refund does, to the tickets of one match.
LEMMA PayEffect ==
    ASSUME TypeOK, NEW m \in Matches, NEW us, Pay(m, us)
    PROVE  /\ refunds' \in [Matches -> [Humans -> Nat]]
           /\ \A u \in Humans : refunds'[m][u] = IF u \in us THEN refunds[m][u] + 1 ELSE refunds[m][u]
           /\ \A n \in Matches \ {m} : refunds'[n] = refunds[n]
<1> DEFINE f == [u \in Humans |-> IF u \in us THEN refunds[m][u] + 1 ELSE refunds[m][u]]
<1>1. refunds \in [Matches -> [Humans -> Nat]] /\ refunds' = [refunds EXCEPT ![m] = f]
  BY DEF TypeOK, Pay
<1>2. f \in [Humans -> Nat]
  <2>1. \A u \in Humans : refunds[m][u] \in Nat BY <1>1
  <2> QED BY <2>1
<1>3. \A u \in Humans : f[u] = IF u \in us THEN refunds[m][u] + 1 ELSE refunds[m][u]
  OBVIOUS
<1> HIDE DEF f
<1> QED BY <1>1, <1>2, <1>3

LEMMA FinalizerTypes ==
    ASSUME TypeOK, Started, NEW w \in Workers, Finalizer(w)
    PROVE  TypeOK'
<1>m. ~At(w, "idle") /\ job[w] \in Jobs /\ job[w].match \in Matches
  BY DEF TypeOK, Started, At, Finalizer, Decide, Flip, Penalise, Mark, Cancel, Refund,
         ReadStandings, Settle, FreeBot, Remember, Release, Unlock, Announce
<1>0. /\ roster[job[w].match] \subseteq Players /\ job[w].winner \in Players \cup {Nobody}
      /\ job[w].spared \subseteq Humans
  BY <1>m DEF TypeOK, Jobs
<1>g. \A step \in Steps : Goto(w, step) => job' \in [Workers -> Jobs]
  BY GotoJob
<1>d. Done(w) => job' \in [Workers -> Jobs]
  BY DoneJob
<1>u. Unlocked(w) => lock' \in [Matches -> Workers \cup {Free, Dead}]
  BY DEF Unlocked, TypeOK
<1>1. CASE Decide(w)
  BY <1>1, DecideJob DEF Decide, TypeOK, matchVars, rankVars
<1>2. CASE Flip(w)
  <2>1. job' \in [Workers -> Jobs] BY <1>2, <1>g DEF Flip, Steps
  <2>2. noContest' \in [Matches -> BOOLEAN]
    <3>1. noContest[job[w].match] \in BOOLEAN BY <1>m DEF TypeOK
    <3> QED BY <1>2, <1>m, <3>1 DEF Flip, TypeOK
  <2>3. status' \in [Matches -> {"none", "active", "completed", "abandoned"}]
        /\ winner' \in [Matches -> Players \cup {Nobody}]
    BY <1>2, <1>m, <1>0 DEF Flip, TypeOK
  <2> QED BY <1>2, <2>1, <2>2, <2>3 DEF Flip, TypeOK, rankVars
<1>3. CASE Penalise(w)
  <2>1. job' \in [Workers -> Jobs]
    <3>1. CASE Goto(w, "mark") BY <3>1, <1>g DEF Steps
    <3>2. CASE job' = [job EXCEPT ![w].at = "mark", ![w].spared = Forfeiter(w)]
      <4>1. Forfeiter(w) \subseteq Humans BY <1>3 DEF Started, Penalise
      <4> DEFINE j == [job[w] EXCEPT !.at = "mark", !.spared = Forfeiter(w)]
      <4>2. j \in Jobs BY <1>m, <4>1 DEF Jobs, Steps
      <4> QED BY <3>2, <4>2 DEF TypeOK
    <3> QED BY <1>3, <3>1, <3>2 DEF Penalise
  <2>2. ledger' \subseteq Matches \X Players /\ standing' \in [Players -> SUBSET Matches]
    BY <1>3, <1>m, <1>0 DEF Penalise, Forfeiter, TypeOK, rankVars
  <2> QED BY <1>3, <2>1, <2>2 DEF Penalise, TypeOK, matchVars
<1>4. CASE Mark(w)
  BY <1>4, <1>g DEF Mark, Steps, TypeOK, rankVars
<1>5. CASE Cancel(w)
  BY <1>5, <1>g DEF Cancel, Steps, TypeOK, rankVars
<1>6. CASE Refund(w)
  <2>1. job' \in [Workers -> Jobs] BY <1>6, <1>g, <1>d DEF Refund, Refunded, Steps
  <2>2. refunds' \in [Matches -> [Humans -> Nat]]
    BY <1>6, <1>m, PayEffect DEF Refund, TypeOK
  <2> QED BY <1>6, <2>1, <2>2 DEF Refund, TypeOK, matchVars, rankVars
<1>7. CASE ReadStandings(w)
  <2>1. job' \in [Workers -> Jobs]
    <3> DEFINE gone == {u \in roster[job[w].match] : ~Settled(job[w].match, u)}
               j == [job[w] EXCEPT !.at = "write", !.missing = gone, !.snap = standing]
    <3>1. j \in Jobs BY <1>m, <1>0 DEF Jobs, Steps, TypeOK
    <3>2. CASE job' = [job EXCEPT ![w].at = "write", ![w].missing = gone, ![w].snap = standing]
      <4>1. job' = [job EXCEPT ![w] = j] BY <3>2 DEF TypeOK
      <4> HIDE DEF j
      <4> QED BY <3>1, <4>1 DEF TypeOK
    <3>3. CASE Goto(w, Returned(w))
      BY <3>3, <1>g DEF Returned, Steps
    <3> QED BY <1>7, <3>2, <3>3 DEF ReadStandings
  <2> QED BY <1>7, <2>1 DEF ReadStandings, TypeOK, matchVars, rankVars
<1>8. CASE Settle(w)
  <2>1. job' \in [Workers -> Jobs] BY <1>8, <1>g DEF Settle, Returned, Steps
  <2>2. ledger' \subseteq Matches \X Players /\ standing' \in [Players -> SUBSET Matches]
    BY <1>8, SettleTypes DEF Settle
  <2> QED BY <1>8, <2>1, <2>2 DEF Settle, TypeOK, matchVars
<1>9. CASE FreeBot(w)
  BY <1>9, <1>g DEF FreeBot, FreeIfSettled, Steps, TypeOK, matchVars, rankVars
<1>10. CASE Remember(w)
  <2>1. job' \in [Workers -> Jobs] BY <1>10, <1>g DEF Remember, Steps
  <2>2. lastMatch' \in [Humans -> Matches \cup {NoMatch}]
    BY <1>10, <1>m DEF Remember, TypeOK
  <2>3. announced' \in [Matches -> SUBSET Outcomes]
    BY <1>10, <1>m, <1>0 DEF Remember, Tell, TypeOK, Outcomes
  <2> QED BY <1>10, <2>1, <2>2, <2>3 DEF Remember, TypeOK, matchVars, rankVars
<1>11. CASE Release(w)
  BY <1>11, <1>d, <1>u DEF Release, TypeOK, matchVars, rankVars
<1>12. CASE Unlock(w)
  BY <1>12, <1>g, <1>u DEF Unlock, Steps, TypeOK, matchVars, rankVars
<1>13. CASE Announce(w)
  <2>1. Results(job[w].match) \subseteq Outcomes
    BY <1>m DEF Results, TypeOK, Outcomes
  <2>2. announced' \in [Matches -> SUBSET Outcomes]
    BY <1>13, <1>m, <2>1 DEF Announce, Tell, TypeOK
  <2> QED BY <1>13, <1>d, <2>2 DEF Announce, TypeOK, matchVars, rankVars
<1> QED BY <1>1, <1>2, <1>3, <1>4, <1>5, <1>6, <1>7, <1>8, <1>9, <1>10, <1>11, <1>12, <1>13
        DEF Finalizer

LEMMA TypeNext == TypeOK /\ Started /\ [Next]_vars => TypeOK'
<1> SUFFICES ASSUME TypeOK, Started, [Next]_vars PROVE TypeOK'
  OBVIOUS
<1>1. ASSUME NEW m \in Matches, NEW u \in Humans, NEW v \in Players, StartMatch(m, u, v)
      PROVE  TypeOK'
  BY <1>1 DEF StartMatch, TypeOK, Players, rankVars
<1>2. ASSUME NEW w \in Workers, NEW m \in Matches, NEW k \in {"complete", "forfeit", "abandon"},
             Acquire(w, m, k)
      PROVE  TypeOK'
  BY <1>2, AcquireJob DEF Acquire, TypeOK, matchVars, rankVars
<1>3. ASSUME NEW w \in Workers, Finalizer(w) PROVE TypeOK'
  BY <1>3, FinalizerTypes
<1>4. ASSUME NEW w \in Workers, Throw(w) PROVE TypeOK'
  <2>1. job' \in [Workers -> Jobs]
    BY <1>4, GotoJob, DoneJob DEF Throw, Threw, Refunded, Steps
  <2> QED BY <1>4, <2>1 DEF Throw, TypeOK, matchVars, rankVars
<1>5. ASSUME NEW w \in Workers, Crash(w) PROVE TypeOK'
  BY <1>5, DoneJob DEF Crash, TypeOK, matchVars, rankVars
<1>6. ASSUME NEW w \in Workers, NEW u \in Humans, Replay(w, u) PROVE TypeOK'
  <2>1. job' \in [Workers -> Jobs] BY <1>6, ReplayJob DEF TypeOK
  <2> QED BY <1>6, <2>1 DEF Replay, TypeOK, matchVars, rankVars
<1>7. ASSUME NEW u \in Humans, Acknowledge(u) PROVE TypeOK'
  BY <1>7 DEF Acknowledge, TypeOK, matchVars, rankVars
<1>8. ASSUME NEW m \in Matches, SweepReservation(m) PROVE TypeOK'
  BY <1>8 DEF SweepReservation, FreeIfSettled, TypeOK, matchVars, rankVars
<1>9. ASSUME NEW m \in Matches, Expire(m) PROVE TypeOK'
  BY <1>9 DEF Expire, TypeOK, matchVars, rankVars
<1>10. CASE UNCHANGED vars
  BY <1>10 DEF vars, TypeOK, matchVars, rankVars
<1> QED BY <1>1, <1>2, <1>3, <1>4, <1>5, <1>6, <1>7, <1>8, <1>9, <1>10 DEF Next

-----------------------------------------------------------------------------
(* Which finalizer is where *)

\* What any step of the system does to one finalizer.
Kept(x) == job'[x] = job[x]
Reset(x) == job'[x] = Idle
Taken(x) == /\ At(x, "idle")
            /\ job'[x].kind \in {"complete", "forfeit", "abandon"} /\ job'[x].at = "decide"
            /\ job'[x].match \in Matches /\ status[job'[x].match] # "none"
Replayed(x) == /\ At(x, "idle")
               /\ job'[x].kind = "replay" /\ job'[x].at = "read"
               /\ \E u \in Humans : lastMatch[u] # NoMatch /\ job'[x].match = lastMatch[u]
Moved(x) == /\ ~At(x, "idle") /\ job'[x].at # "idle"
            /\ job'[x].kind = job[x].kind /\ job'[x].match = job[x].match
            /\ job'[x].at = "penalise" =>
                  roster[job'[x].match] \ {job'[x].winner} \subseteq Humans
            /\ job[x].kind = "abandon" =>
                  \/ job'[x].at = "release"
                  \/ job[x].at = "decide" /\ job'[x].at = "cancel"
                  \/ job[x].at = "cancel" /\ job'[x].at = "unlock" /\ Cancel(x)
                  \/ job[x].at = "unlock" /\ job'[x].at = "free"
                  \/ job[x].at = "free" /\ job'[x].at = "refund"
            /\ job[x].kind # "abandon" /\ job'[x].at = "refund" => Cancel(x)

LEMMA Moves ==
    ASSUME TypeOK, Started, AbandonerPath, [Next]_vars, NEW x \in Workers
    PROVE  Kept(x) \/ Reset(x) \/ Taken(x) \/ Replayed(x) \/ Moved(x)
<1>f. ASSUME NEW w \in Workers, Finalizer(w)
      PROVE  Kept(x) \/ Reset(x) \/ Moved(x)
  <2>0. /\ ~At(w, "idle")
        /\ job[w].kind = "abandon" =>
             job[w].at \in {"decide", "cancel", "unlock", "free", "refund", "release"}
    BY <1>f DEF AbandonerPath, At, Finalizer, Decide, Flip, Penalise, Mark, Cancel, Refund,
           ReadStandings, Settle, FreeBot, Remember, Release, Unlock, Announce
  <2>d. Done(w) => Kept(x) \/ Reset(x)
    BY DoneJob DEF Kept, Reset
  <2>s. ASSUME NEW step \in Steps, Goto(w, step)
        PROVE  /\ job'[w].at = step /\ job'[w].kind = job[w].kind /\ job'[w].match = job[w].match
               /\ x # w => Kept(x)
    BY <2>s, GotoJob DEF Kept
  <2>1. CASE Decide(w)
    BY <2>0, <2>1, DecideJob DEF Decide, At, Kept, Moved
  <2>2. CASE Flip(w)
    BY <2>0, <2>2, <2>s DEF Flip, At, Moved, Steps
  <2>3. CASE Penalise(w)
    <3>1. CASE Goto(w, "mark") BY <2>0, <2>3, <3>1, <2>s DEF Penalise, At, Moved, Steps
    <3>2. CASE job' = [job EXCEPT ![w].at = "mark", ![w].spared = Forfeiter(w)]
      <4>1. /\ job'[w].at = "mark" /\ job'[w].kind = job[w].kind /\ job'[w].match = job[w].match
            /\ x # w => Kept(x)
        BY <3>2 DEF TypeOK, Jobs, Kept
      <4> QED BY <2>0, <2>3, <4>1 DEF Penalise, At, Moved
    <3> QED BY <2>3, <3>1, <3>2 DEF Penalise
  <2>4. CASE Mark(w)
    BY <2>0, <2>4, <2>s DEF Mark, At, Moved, Steps
  <2>5. CASE Cancel(w)
    BY <2>0, <2>5, <2>s DEF Cancel, At, Moved, Steps
  <2>6. CASE Refund(w)
    BY <2>0, <2>6, <2>s, <2>d DEF Refund, Refunded, At, Moved, Steps
  <2>7. CASE ReadStandings(w)
    <3>1. CASE Goto(w, Returned(w))
      BY <2>0, <2>7, <3>1, <2>s DEF ReadStandings, Returned, At, Moved, Steps
    <3>2. CASE \E missing \in SUBSET Players :
             job' = [job EXCEPT ![w].at = "write", ![w].missing = missing, ![w].snap = standing]
      <4>1. /\ job'[w].at = "write" /\ job'[w].kind = job[w].kind /\ job'[w].match = job[w].match
            /\ x # w => Kept(x)
        BY <3>2 DEF TypeOK, Jobs, Kept
      <4> QED BY <2>0, <2>7, <4>1 DEF ReadStandings, At, Moved
    <3>3. roster[job[w].match] \subseteq Players
      BY <2>0 DEF Started, TypeOK
    <3> QED BY <2>7, <3>1, <3>2, <3>3 DEF ReadStandings
  <2>8. CASE Settle(w)
    BY <2>0, <2>8, <2>s DEF Settle, Returned, At, Moved, Steps
  <2>9. CASE FreeBot(w)
    BY <2>0, <2>9, <2>s DEF FreeBot, At, Moved, Steps
  <2>10. CASE Remember(w)
    BY <2>0, <2>10, <2>s DEF Remember, At, Moved, Steps
  <2>11. CASE Release(w)
    BY <2>11, <2>d DEF Release
  <2>12. CASE Unlock(w)
    BY <2>0, <2>12, <2>s DEF Unlock, At, Moved, Steps
  <2>13. CASE Announce(w)
    BY <2>13, <2>d DEF Announce
  <2> QED BY <1>f, <2>1, <2>2, <2>3, <2>4, <2>5, <2>6, <2>7, <2>8, <2>9, <2>10, <2>11, <2>12, <2>13
          DEF Finalizer
<1>t. ASSUME NEW w \in Workers, Throw(w)
      PROVE  Kept(x) \/ Reset(x) \/ Moved(x)
  <2>1. CASE job[w].at \in {"decide", "flip", "mark", "cancel"} /\ Goto(w, "release")
    BY <2>1, GotoJob DEF At, Kept, Moved, Steps
  <2>2. CASE job[w].kind \in {"complete", "forfeit"} /\ Goto(w, "release") /\ ~At(w, "idle")
    BY <2>2, GotoJob DEF At, Kept, Moved, Steps
  <2>3. CASE At(w, "penalise") /\ Goto(w, "mark")
    BY <2>3, GotoJob DEF At, Kept, Moved, Steps, AbandonerPath
  <2>4. CASE job[w].at \in {"read", "write"} /\ Goto(w, Threw(w))
    BY <2>4, GotoJob DEF At, Kept, Moved, Steps, AbandonerPath, Threw
  <2>5. CASE At(w, "refund") /\ Refunded(w)
    BY <2>5, GotoJob, DoneJob DEF At, Kept, Reset, Moved, Steps, Refunded
  <2>6. CASE At(w, "free") /\ Goto(w, IF job[w].kind = "abandon" THEN "refund" ELSE "remember")
    BY <2>6, GotoJob DEF At, Kept, Moved, Steps
  <2> QED BY <1>t, <2>1, <2>2, <2>3, <2>4, <2>5, <2>6 DEF Throw, At
<1>1. ASSUME NEW w \in Workers, NEW m \in Matches, NEW k \in {"complete", "forfeit", "abandon"},
             Acquire(w, m, k)
      PROVE  Kept(x) \/ Taken(x)
  BY <1>1, AcquireJob DEF Acquire, Kept, Taken
<1>2. ASSUME NEW w \in Workers, NEW u \in Humans, Replay(w, u)
      PROVE  Kept(x) \/ Replayed(x)
  <2>1. lastMatch[u] # NoMatch /\ At(w, "idle") BY <1>2 DEF Replay
  <2> QED BY <1>2, <2>1, ReplayJob DEF Kept, Replayed
<1>3. ASSUME NEW w \in Workers, Crash(w) PROVE Kept(x) \/ Reset(x)
  BY <1>3, DoneJob DEF Crash, Kept, Reset
<1>4. CASE job' = job
  BY <1>4 DEF Kept
<1> QED BY <1>f, <1>t, <1>1, <1>2, <1>3, <1>4
        DEF Next, StartMatch, Acknowledge, SweepReservation, Expire, vars

\* A match that started keeps its players, and one that ended its ending.
LEMMA MatchesAdvance ==
    ASSUME TypeOK, Started, [Next]_vars, NEW m \in Matches, status[m] # "none"
    PROVE  /\ roster'[m] = roster[m] /\ status'[m] # "none"
           /\ status[m] \in {"completed", "abandoned"} => status'[m] = status[m]
<1>1. ASSUME NEW n \in Matches, NEW u \in Humans, NEW v \in Players, StartMatch(n, u, v)
      PROVE  roster'[m] = roster[m] /\ status'[m] = status[m]
  BY <1>1 DEF StartMatch, TypeOK
<1>2. ASSUME NEW w \in Workers, Flip(w)
      PROVE  /\ roster' = roster /\ status'[m] # "none"
             /\ status[m] \in {"completed", "abandoned"} => status'[m] = status[m]
  BY <1>2 DEF Flip, TypeOK
<1>3. ASSUME NEW w \in Workers, Cancel(w)
      PROVE  /\ roster' = roster /\ status'[m] # "none"
             /\ status[m] \in {"completed", "abandoned"} => status'[m] = status[m]
  BY <1>3 DEF Cancel, TypeOK
<1>4. CASE UNCHANGED <<status, roster>>
  BY <1>4
<1> QED BY <1>1, <1>2, <1>3, <1>4
        DEF Next, Finalizer, vars, matchVars, Acquire, Decide, Penalise, Mark, Refund, ReadStandings,
            Settle, FreeBot, Remember, Release, Unlock, Announce, Throw, Crash, Replay, Acknowledge,
            SweepReservation, Expire

LEMMA StartedNext == TypeOK /\ Started /\ AbandonerPath /\ [Next]_vars => Started' /\ AbandonerPath'
<1> SUFFICES ASSUME TypeOK, Started, AbandonerPath, [Next]_vars PROVE Started' /\ AbandonerPath'
  OBVIOUS
<1> USE Moves, MatchesAdvance
<1>1. ASSUME NEW x \in Workers, ~At(x, "idle")'
      PROVE  job'[x].match \in Matches /\ status'[job'[x].match] # "none"
  <2>1. Kept(x) \/ Moved(x) =>
          job[x].match \in Matches /\ status[job[x].match] # "none" /\ job'[x].match = job[x].match
    BY <1>1 DEF Kept, Moved, Started, At
  <2>2. Replayed(x) => \E u \in Humans : job'[x].match = lastMatch[u]
                         /\ lastMatch[u] \in Matches /\ status[lastMatch[u]] # "none"
    BY DEF Replayed, Started, TypeOK
  <2>3. ~Reset(x) BY <1>1, IdleFields DEF Reset, At
  <2> QED BY <2>1, <2>2, <2>3 DEF Taken
<1>2. ASSUME NEW x \in Workers, At(x, "penalise")' PROVE Forfeiter(x)' \subseteq Humans
  <2>1. ~Reset(x) /\ ~Taken(x) /\ ~Replayed(x)
    BY <1>2, IdleFields DEF Reset, Taken, Replayed, At
  <2>2. job[x].match \in Matches /\ status[job[x].match] # "none" /\ job'[x].match = job[x].match
    BY <1>2, <2>1 DEF Kept, Moved, Started, At
  <2>3. roster'[job[x].match] = roster[job[x].match] BY <2>2
  <2>4. CASE Kept(x) BY <1>2, <2>2, <2>3, <2>4 DEF Kept, Started, At, Forfeiter
  <2>5. CASE Moved(x) BY <1>2, <2>2, <2>3, <2>5 DEF Moved, At, Forfeiter
  <2> QED BY <2>1, <2>4, <2>5
<1>3. ASSUME NEW u \in Humans, lastMatch'[u] # NoMatch
      PROVE  status'[lastMatch'[u]] # "none"
  <2>1. CASE lastMatch'[u] = lastMatch[u]
    BY <1>3, <2>1 DEF Started, TypeOK
  <2>2. CASE \E w \in Workers : Remember(w) /\ lastMatch'[u] = job[w].match
    BY <2>2 DEF Started, Remember, At
  <2>3. CASE \/ \E w \in Workers, v \in Humans : Replay(w, v)
             \/ \E v \in Humans : Acknowledge(v)
    BY <1>3, <2>3, <2>1 DEF Replay, Acknowledge, TypeOK
  <2>4. CASE \E w \in Workers : Remember(w)
    BY <2>4, <2>1, <2>2 DEF Remember, TypeOK
  <2> QED BY <2>1, <2>3, <2>4
          DEF Next, Finalizer, vars, StartMatch, Acquire, Decide, Flip, Penalise, Mark, Cancel, Refund,
              ReadStandings, Settle, FreeBot, Release, Unlock, Announce, Throw, Crash,
              SweepReservation, Expire
<1>4. ASSUME NEW x \in Workers, job'[x].kind = "abandon"
      PROVE  job'[x].at \in {"decide", "cancel", "unlock", "free", "refund", "release"}
  BY <1>4, IdleFields DEF Kept, Reset, Taken, Replayed, Moved, AbandonerPath
<1> QED BY <1>1, <1>2, <1>3, <1>4 DEF Started, AbandonerPath, At

\* The types hold in every reachable state, whatever the sets of players and matches.
THEOREM TypeCorrect == Spec => []TypeOK
<1>1. Spec => [](TypeOK /\ Started /\ AbandonerPath)
  BY TypeInit, TypeNext, StartedNext, PTL DEF Spec
<1> QED BY <1>1, PTL

-----------------------------------------------------------------------------
(* Refunds *)

\* A finalizer that abandoned its match and has its refund before it.
Refunding(w) == \/ At(w, "refund")
                \/ job[w].kind = "abandon" /\ job[w].at \in {"unlock", "free"}

\* It is the only one of its match, and nothing of that match was paid back yet.
RefundsOnce ==
    /\ RefundsExact
    /\ \A w \in Workers : Refunding(w) =>
          /\ status[job[w].match] = "abandoned"
          /\ \A u \in Humans : refunds[job[w].match][u] = 0
    /\ \A w, x \in Workers :
          Refunding(w) /\ Refunding(x) /\ job[w].match = job[x].match => w = x

LEMMA RefundsInit == Init => RefundsOnce
BY IdleFields DEF Init, RefundsOnce, RefundsExact, Refunding, At

\* Nobody turns to a refund but by abandoning an active match.
LEMMA RefundingFrom ==
    ASSUME TypeOK, Started, AbandonerPath, [Next]_vars, NEW x \in Workers, Refunding(x)'
    PROVE  \/ Refunding(x) /\ job'[x].match = job[x].match
           \/ /\ Cancel(x) /\ job'[x].match = job[x].match
              /\ status[job[x].match] = "active" /\ status'[job[x].match] = "abandoned"
              /\ \A y \in Workers \ {x} : job'[y] = job[y]
<1>1. ~Reset(x) /\ ~Taken(x) /\ ~Replayed(x)
  BY IdleFields DEF Reset, Taken, Replayed, Refunding, At
<1>2. CASE Kept(x)
  BY <1>2 DEF Kept, Refunding, At
<1>3. ASSUME Cancel(x)
      PROVE  /\ status[job[x].match] = "active" /\ status'[job[x].match] = "abandoned"
             /\ job'[x].match = job[x].match
             /\ \A y \in Workers \ {x} : job'[y] = job[y]
  <2>1. job[x].match \in Matches BY <1>3 DEF Cancel, Started, At
  <2>2. ~Goto(x, "release") BY GotoJob DEF Refunding, At, Steps
  <2>3. status[job[x].match] = "active" BY <1>3, <2>2 DEF Cancel
  <2>4. \E step \in Steps : Goto(x, step) BY <1>3 DEF Cancel, Steps
  <2> QED BY <1>3, <2>1, <2>3, <2>4, GotoJob DEF Cancel, TypeOK
<1>4. CASE Moved(x)
  BY <1>3, <1>4 DEF Moved, Refunding, At
<1> QED BY <1>1, <1>2, <1>4, Moves

LEMMA RefundStep ==
    ASSUME TypeOK, Started, RefundsOnce, NEW w \in Workers, Refund(w)
    PROVE  RefundsOnce'
<1> DEFINE m == job[w].match
<1>1. /\ m \in Matches /\ Refunding(w) /\ status[m] = "abandoned"
      /\ \A u \in Humans : refunds[m][u] = 0
      /\ UNCHANGED <<status, roster>>
  BY DEF Refund, Started, At, Refunding, RefundsOnce, matchVars
<1>2. /\ ~Refunding(w)'
      /\ \A x \in Workers \ {w} : job'[x] = job[x]
  <2>1. CASE job[w].kind = "abandon" /\ Done(w)
    BY <2>1, DoneJob, IdleFields DEF Refunding, At
  <2>2. CASE job[w].kind # "abandon" /\ Goto(w, "free")
    BY <2>2, GotoJob DEF Refunding, At, Steps
  <2> QED BY <2>1, <2>2 DEF Refund, Refunded
<1>3. /\ \A u \in Humans : refunds'[m][u] = 0 \/ (refunds'[m][u] = 1 /\ u \in roster[m])
      /\ \A n \in Matches \ {m} : refunds'[n] = refunds[n]
  <2>1. CASE refunds' = refunds BY <1>1, <2>1
  <2>2. CASE Pay(m, (roster[m] \cap Humans) \ job[w].spared)
    <3> DEFINE us == (roster[m] \cap Humans) \ job[w].spared
    <3>1. /\ \A u \in Humans : refunds'[m][u] = IF u \in us THEN refunds[m][u] + 1 ELSE refunds[m][u]
          /\ \A n \in Matches \ {m} : refunds'[n] = refunds[n]
      BY <1>1, <2>2, PayEffect
    <3>2. \A u \in us : u \in roster[m] OBVIOUS
    <3> HIDE DEF us, m
    <3> QED BY <1>1, <3>1, <3>2
  <2> QED BY <2>1, <2>2 DEF Refund
<1> HIDE DEF m
<1>4. RefundsExact'
  BY <1>1, <1>3 DEF RefundsOnce, RefundsExact
<1>5. ASSUME NEW x \in Workers, Refunding(x)'
      PROVE  /\ x # w /\ Refunding(x) /\ job'[x] = job[x] /\ job[x].match # m
             /\ job[x].match \in Matches
  BY <1>1, <1>2, <1>5 DEF Refunding, At, RefundsOnce, Started, m
<1> QED BY <1>1, <1>3, <1>4, <1>5 DEF RefundsOnce

LEMMA RefundsNext ==
    TypeOK /\ Started /\ AbandonerPath /\ RefundsOnce /\ [Next]_vars => RefundsOnce'
<1> SUFFICES ASSUME TypeOK, Started, AbandonerPath, RefundsOnce, [Next]_vars PROVE RefundsOnce'
  OBVIOUS
<1>1. CASE \E w \in Workers : Refund(w)
  BY <1>1, RefundStep
<1>2. CASE refunds' = refunds
  <2>1. RefundsExact'
    BY <1>2, MatchesAdvance DEF RefundsOnce, RefundsExact, TypeOK
  <2>2. ASSUME NEW x \in Workers, Refunding(x)'
        PROVE  /\ status'[job'[x].match] = "abandoned"
               /\ \A u \in Humans : refunds'[job'[x].match][u] = 0
    <3>1. job'[x].match = job[x].match /\ job[x].match \in Matches
      BY <2>2, RefundingFrom DEF Refunding, At, Started, Cancel
    <3>2. CASE Refunding(x)
      BY <1>2, <3>1, <3>2, MatchesAdvance DEF RefundsOnce
    <3>3. CASE status[job[x].match] = "active" /\ status'[job[x].match] = "abandoned"
      <4>1. \A u \in Humans : ~(refunds[job[x].match][u] > 0) /\ refunds[job[x].match][u] \in Nat
        BY <3>1, <3>3 DEF RefundsOnce, RefundsExact, TypeOK
      <4> QED BY <1>2, <3>1, <3>3, <4>1
    <3> QED BY <2>2, <3>2, <3>3, RefundingFrom
  <2>3. ASSUME NEW w \in Workers, NEW x \in Workers, Refunding(w)', Refunding(x)',
               job'[w].match = job'[x].match
        PROVE  w = x
    <3>1. CASE Refunding(w) /\ Refunding(x)
      BY <2>3, <3>1, RefundingFrom DEF RefundsOnce, Cancel
    <3>2. CASE ~Refunding(w)
      BY <2>3, <3>2, RefundingFrom DEF RefundsOnce, Refunding, At
    <3>3. CASE ~Refunding(x)
      BY <2>3, <3>3, RefundingFrom DEF RefundsOnce, Refunding, At
    <3> QED BY <3>1, <3>2, <3>3
  <2> QED BY <2>1, <2>2, <2>3 DEF RefundsOnce
<1> QED BY <1>1, <1>2
        DEF Next, Finalizer, vars, StartMatch, Acquire, Decide, Flip, Penalise, Mark, Cancel,
            ReadStandings, Settle, FreeBot, Remember, Release, Unlock, Announce, Throw, Crash, Replay,
            Acknowledge, SweepReservation, Expire

\* A ticket comes back at most once, and only for an abandoned match of its player.
THEOREM RefundsCorrect == Spec => []RefundsExact
<1>1. Spec => [](TypeOK /\ Started /\ AbandonerPath /\ RefundsOnce)
  BY TypeInit, TypeNext, StartedNext, RefundsInit, RefundsNext, PTL DEF Spec
<1>2. RefundsOnce => RefundsExact BY DEF RefundsOnce
<1> QED BY <1>1, <1>2, PTL

-----------------------------------------------------------------------------
(* Standings of the roster bots *)

\* A bot stays reserved for a match it plays until its own row of that match exists.
BotHeld == \A m \in Matches : \A b \in Bots \cap roster[m] :
    status[m] \in {"active", "completed"} /\ ~Settled(m, b) => reserved[b] = m

\* A settlement about to write a bot's standing read the value it still has.
SnapCurrent == \A w \in Workers : At(w, "write") =>
    /\ status[job[w].match] = "completed"
    /\ \A b \in Bots \cap job[w].missing :
          /\ b \in roster[job[w].match]
          /\ ~Settled(job[w].match, b) => job[w].snap[b] = standing[b]

BotsRight == BotStandingExact /\ BotHeld /\ SnapCurrent

LEMMA BotsInit == Init => BotsRight
BY IdleFields DEF Init, BotsRight, BotStandingExact, BotHeld, SnapCurrent, Settled, At, Players

\* A settlement adds its match to the standing of a bot that has no row yet.
LEMMA SettleBot ==
    ASSUME TypeOK, Started, BotsRight, NEW w \in Workers, Settle(w), NEW b \in Bots
    PROVE  LET m == job[w].match IN
           /\ m \in Matches
           /\ \A n \in Matches : Settled(n, b)' <=> Settled(n, b) \/ (n = m /\ b \in job[w].missing)
           /\ b \in job[w].missing /\ ~Settled(m, b) =>
                 standing'[b] = standing[b] \cup {m} /\ reserved[b] = m
           /\ ~(b \in job[w].missing /\ ~Settled(m, b)) => standing'[b] = standing[b]
<1> DEFINE m == job[w].match
<1>1. m \in Matches /\ b \in Players /\ At(w, "write")
  BY DEF Settle, Started, At, Players
<1>2. /\ ledger' = ledger \cup ({m} \X job[w].missing)
      /\ standing'[b] = IF b \in job[w].missing /\ ~Settled(m, b)
                          THEN job[w].snap[b] \cup {m} ELSE standing[b]
  BY <1>1 DEF Settle, ApplySettlement
<1>3. b \in job[w].missing /\ ~Settled(m, b) => job[w].snap[b] = standing[b] /\ reserved[b] = m
  BY <1>1 DEF BotsRight, SnapCurrent, BotHeld
<1> QED BY <1>1, <1>2, <1>3 DEF Settled

\* A penalty never touches a bot.
LEMMA PenaliseBot ==
    ASSUME TypeOK, Started, NEW w \in Workers, Penalise(w), NEW b \in Bots
    PROVE  /\ \A n \in Matches : Settled(n, b)' <=> Settled(n, b)
           /\ standing'[b] = standing[b]
<1>1. Forfeiter(w) \subseteq Humans /\ b \in Players /\ b \notin Humans
  BY NamesAssumption DEF Penalise, Started, Players
<1> QED BY <1>1 DEF Penalise, Settled, rankVars

\* What a step does to a bot's rows, standing and reservation.
LEMMA BotEffect ==
    ASSUME TypeOK, Started, BotsRight, [Next]_vars, NEW b \in Bots
    PROVE  \/ \E w \in Workers : Settle(w) /\ reserved' = reserved
           \/ /\ \A n \in Matches : Settled(n, b)' <=> Settled(n, b)
              /\ standing'[b] = standing[b]
              /\ \/ reserved' = reserved
                 \/ \E m \in Matches : FreeIfSettled(m)
                 \/ \E m \in Matches, u \in Humans, v \in Players : StartMatch(m, u, v)
<1>1. CASE \E w \in Workers : Penalise(w)
  BY <1>1, PenaliseBot DEF Penalise
<1>2. CASE \E w \in Workers : FreeBot(w)
  BY <1>2 DEF FreeBot, Started, At, Settled, rankVars
<1>3. CASE UNCHANGED rankVars
  <2>1. (\A n \in Matches : Settled(n, b)' <=> Settled(n, b)) /\ standing'[b] = standing[b]
    BY <1>3 DEF rankVars, Settled
  <2>2. \/ reserved' = reserved
        \/ \E w \in Workers : FreeBot(w)
        \/ \E m \in Matches : FreeIfSettled(m)
        \/ \E m \in Matches, u \in Humans, v \in Players : StartMatch(m, u, v)
    BY DEF Next, Finalizer, vars, Acquire, Decide, Flip, Penalise, Mark, Cancel, Refund,
           ReadStandings, Settle, Remember, Release, Unlock, Announce, Throw, Crash, Replay,
           Acknowledge, SweepReservation, Expire
  <2> QED BY <1>2, <2>1, <2>2
<1>4. CASE \E w \in Workers : Settle(w)
  BY <1>4 DEF Settle
<1> QED BY <1>1, <1>3, <1>4
        DEF Next, Finalizer, vars, StartMatch, Acquire, Decide, Flip, Mark, Cancel, Refund,
            ReadStandings, FreeBot, Remember, Release, Unlock, Announce, Throw, Crash, Replay,
            Acknowledge, SweepReservation, Expire

LEMMA StandingNext ==
    TypeOK /\ Started /\ BotsRight /\ [Next]_vars => BotStandingExact'
<1> SUFFICES ASSUME TypeOK, Started, BotsRight, [Next]_vars, NEW b \in Bots
             PROVE  standing'[b] = {n \in Matches : Settled(n, b)'}
  BY DEF BotStandingExact
<1>1. standing[b] = {n \in Matches : Settled(n, b)}
  BY DEF BotsRight, BotStandingExact
<1>2. CASE \E w \in Workers : Settle(w)
  BY <1>1, <1>2, SettleBot
<1>3. CASE (\A n \in Matches : Settled(n, b)' <=> Settled(n, b)) /\ standing'[b] = standing[b]
  BY <1>1, <1>3
<1> QED BY <1>2, <1>3, BotEffect

LEMMA HeldNext ==
    TypeOK /\ Started /\ BotsRight /\ [Next]_vars => BotHeld'
<1> SUFFICES ASSUME TypeOK, Started, BotsRight, [Next]_vars,
                    NEW m \in Matches, NEW b \in Bots \cap roster'[m],
                    status'[m] \in {"active", "completed"}, ~Settled(m, b)'
             PROVE  reserved'[b] = m
  BY DEF BotHeld
<1>1. ~Settled(m, b)
  BY BotEffect, SettleBot
<1>2. ASSUME NEW n \in Matches, NEW u \in Humans, NEW v \in Players, StartMatch(n, u, v)
      PROVE  reserved'[b] = m
  <2>1. CASE n = m
    BY <1>2, <2>1, NamesAssumption DEF StartMatch, TypeOK
  <2>2. CASE n # m
    <3>1. b \in roster[m] /\ status[m] \in {"active", "completed"}
      BY <1>2, <2>2 DEF StartMatch, TypeOK
    <3>2. reserved[b] = m BY <1>1, <3>1 DEF BotsRight, BotHeld
    <3> QED BY <1>2, <3>2, NamesAssumption DEF StartMatch
  <2> QED BY <2>1, <2>2
<1>3. CASE status[m] # "none"
  <2>1. b \in roster[m] /\ status[m] \in {"active", "completed"}
    BY <1>3, MatchesAdvance DEF TypeOK
  <2>2. reserved[b] = m BY <1>1, <2>1 DEF BotsRight, BotHeld
  <2>3. ASSUME NEW n \in Matches, FreeIfSettled(n) PROVE reserved'[b] = m
    BY <1>1, <2>1, <2>2, <2>3 DEF FreeIfSettled
  <2> QED BY <1>2, <2>2, <2>3, BotEffect
<1>4. CASE status[m] = "none"
  <2>1. \E n \in Matches, u \in Humans, v \in Players : StartMatch(n, u, v)
    BY <1>4 DEF Next, Finalizer, vars, matchVars, Acquire, Decide, Flip, Penalise, Mark, Cancel,
           Refund, ReadStandings, Settle, FreeBot, Remember, Release, Unlock, Announce, Throw, Crash,
           Replay, Acknowledge, SweepReservation, Expire, TypeOK
  <2> QED BY <1>2, <2>1
<1> QED BY <1>3, <1>4

\* A finalizer comes to its write from its read only.
LEMMA WriteFrom ==
    ASSUME TypeOK, Started, AbandonerPath, [Next]_vars, NEW x \in Workers, At(x, "write")'
    PROVE  Kept(x) \/ ReadStandings(x)
<1>1. ASSUME NEW w \in Workers, NEW step \in Steps \ {"write"}, Goto(w, step) PROVE Kept(x)
  BY <1>1, GotoJob DEF Kept, At
<1>2. ASSUME NEW w \in Workers, Done(w) PROVE Kept(x)
  BY <1>2, DoneJob, IdleFields DEF Kept, At
<1>3. ASSUME NEW w \in Workers, Decide(w) PROVE Kept(x)
  BY <1>3, DecideJob DEF Kept, At
<1>4. ASSUME NEW w \in Workers, Penalise(w) PROVE Kept(x)
  <2>1. CASE Goto(w, "mark") BY <1>1, <2>1 DEF Steps
  <2>2. CASE job' = [job EXCEPT ![w].at = "mark", ![w].spared = Forfeiter(w)]
    BY <2>2 DEF TypeOK, Jobs, Kept, At
  <2> QED BY <1>4, <2>1, <2>2 DEF Penalise
<1>5. ASSUME NEW w \in Workers, ReadStandings(w) PROVE Kept(x) \/ ReadStandings(x)
  <2>1. CASE Goto(w, Returned(w)) BY <1>1, <2>1 DEF Returned, Steps
  <2>2. CASE w # x /\ \E missing \in SUBSET Players :
             job' = [job EXCEPT ![w].at = "write", ![w].missing = missing, ![w].snap = standing]
    BY <2>2 DEF TypeOK, Kept
  <2>3. roster[job[w].match] \subseteq Players
    BY <1>5 DEF ReadStandings, At, Started, TypeOK
  <2> QED BY <1>5, <2>1, <2>2, <2>3 DEF ReadStandings
<1>6. ASSUME NEW w \in Workers, Throw(w) PROVE Kept(x)
  BY <1>1, <1>2, <1>6 DEF Throw, Threw, Refunded, Steps
<1>7. ASSUME NEW w \in Workers, Finalizer(w) PROVE Kept(x) \/ ReadStandings(x)
  BY <1>1, <1>2, <1>3, <1>4, <1>5, <1>7
     DEF Finalizer, Flip, Mark, Cancel, Refund, Refunded, Settle, Returned, FreeBot, Remember,
         Release, Unlock, Announce, Steps
<1>8. ASSUME NEW w \in Workers, NEW m \in Matches, NEW k \in {"complete", "forfeit", "abandon"},
             Acquire(w, m, k)
      PROVE  Kept(x)
  BY <1>8, AcquireJob DEF Kept, At
<1>9. ASSUME NEW w \in Workers, NEW u \in Humans, Replay(w, u) PROVE Kept(x)
  BY <1>9, ReplayJob DEF Kept, At
<1>10. ASSUME NEW w \in Workers, Crash(w) PROVE Kept(x)
  BY <1>2, <1>10 DEF Crash
<1>11. CASE job' = job
  BY <1>11 DEF Kept
<1> QED BY <1>6, <1>7, <1>8, <1>9, <1>10, <1>11
        DEF Next, StartMatch, Acknowledge, SweepReservation, Expire, vars

LEMMA SnapNext ==
    TypeOK /\ Started /\ AbandonerPath /\ BotsRight /\ [Next]_vars => SnapCurrent'
<1> SUFFICES ASSUME TypeOK, Started, AbandonerPath, BotsRight, [Next]_vars,
                    NEW x \in Workers, At(x, "write")'
             PROVE  /\ status'[job'[x].match] = "completed"
                    /\ \A b \in Bots \cap job'[x].missing :
                          /\ b \in roster'[job'[x].match]
                          /\ <<job'[x].match, b>> \notin ledger' => job'[x].snap[b] = standing'[b]
  BY DEF SnapCurrent, Settled, At
<1>1. CASE ReadStandings(x)
  <2> DEFINE m == job[x].match
             gone == {u \in roster[m] : ~Settled(m, u)}
  <2>1. ~Goto(x, Returned(x)) BY GotoJob DEF Returned, At, Steps
  <2>2. /\ status[m] = "completed"
        /\ job' = [job EXCEPT ![x].at = "write", ![x].missing = gone, ![x].snap = standing]
        /\ UNCHANGED <<status, roster, standing>>
    BY <1>1, <2>1 DEF ReadStandings, matchVars, rankVars
  <2>3. job'[x].match = m /\ job'[x].missing = gone /\ job'[x].snap = standing
    BY <2>2 DEF TypeOK, Jobs
  <2>4. ledger' = ledger BY <1>1 DEF ReadStandings, rankVars
  <2> QED BY <2>2, <2>3, <2>4 DEF Settled
<1>2. CASE Kept(x)
  <2> DEFINE m == job[x].match
  <2>1. /\ At(x, "write") /\ job'[x] = job[x] /\ m \in Matches
        /\ status[m] = "completed" /\ status'[m] = "completed" /\ roster'[m] = roster[m]
    BY <1>2, MatchesAdvance DEF Kept, At, BotsRight, SnapCurrent, Started
  <2>2. ASSUME NEW b \in Bots \cap job[x].missing, ~Settled(m, b)'
        PROVE  job[x].snap[b] = standing'[b]
    <3>1. ~Settled(m, b) BY <2>1, <2>2, BotEffect, SettleBot
    <3>2. job[x].snap[b] = standing[b] /\ b \in roster[m] /\ reserved[b] = m
      BY <2>1, <3>1 DEF BotsRight, SnapCurrent, BotHeld
    <3>3. ASSUME NEW w \in Workers, Settle(w) PROVE standing'[b] = standing[b]
      BY <2>1, <2>2, <3>1, <3>2, <3>3, SettleBot
    <3> QED BY <3>2, <3>3, BotEffect
  <2>3. \A b \in Bots \cap job[x].missing : b \in roster[m]
    BY <2>1 DEF BotsRight, SnapCurrent
  <2> HIDE DEF m
  <2> QED BY <2>1, <2>2, <2>3 DEF Settled, m
<1> QED BY <1>1, <1>2, WriteFrom

\* A bot's standing is the sum of its results in every reachable state.
THEOREM BotStandings == Spec => []BotStandingExact
<1>1. TypeOK /\ Started /\ AbandonerPath /\ BotsRight /\ [Next]_vars => BotsRight'
  BY StandingNext, HeldNext, SnapNext DEF BotsRight
<1>2. Spec => [](TypeOK /\ Started /\ AbandonerPath /\ BotsRight)
  BY <1>1, TypeInit, TypeNext, StartedNext, BotsInit, PTL DEF Spec
<1>3. BotsRight => BotStandingExact BY DEF BotsRight
<1> QED BY <1>2, <1>3, PTL

-----------------------------------------------------------------------------
(* One result *)

\* A completion or a forfeit between taking its lock and giving it back.
Finalizing(w) == job[w].kind \in {"complete", "forfeit"} /\ job[w].at \notin {"idle", "announce"}

\* A completion that decided, before its transition, and after.
Undecided(w) == job[w].kind = "complete" /\ job[w].at \in {"flip", "mark", "cancel"}
Ended(w) == job[w].kind = "complete" /\ job[w].at \in {"refund", "read", "write", "free", "remember"}

\* Their heartbeat keeps the lock, and nobody else flips a match.
LockHeld ==
    /\ \A w \in Workers : Finalizing(w) => lock[job[w].match] = w
    /\ \A w \in Workers :
          /\ At(w, "flip") => job[w].kind \in {"complete", "forfeit"}
          /\ At(w, "penalise") => job[w].kind = "forfeit"

\* A completion met by nothing but an abandonment announces first, or the row's winner.
CompleterSees == \A w \in Workers :
    LET m == job[w].match IN
    /\ Undecided(w) => status[m] # "completed" /\ announced[m] = {}
    /\ Ended(w) => \/ status[m] = "abandoned" /\ announced[m] = {}
                   \/ status[m] = "completed" /\ winner[m] = job[w].winner

ResultKnown == \A m \in Matches :
    /\ status[m] \in {"none", "active"} => announced[m] = {}
    /\ status[m] = "completed" => announced[m] \subseteq {winner[m]}
    /\ \E v \in Outcomes : announced[m] \subseteq {v}

ResultsRight == LockHeld /\ CompleterSees /\ ResultKnown

LEMMA ResultsInit == Init => ResultsRight
BY IdleFields DEF Init, ResultsRight, LockHeld, CompleterSees, ResultKnown, Finalizing, Undecided,
                  Ended, At, Outcomes

\* How a finalizer comes to the steps those invariants speak of.
Same(x) == job'[x].kind = job[x].kind /\ job'[x].match = job[x].match /\ job'[x].winner = job[x].winner
Origin(x) ==
    /\ Finalizing(x)' =>
         \/ Taken(x) /\ lock'[job'[x].match] = x
         \/ Finalizing(x) /\ job'[x].match = job[x].match /\ lock' = lock
    /\ At(x, "flip")' => job'[x].kind \in {"complete", "forfeit"}
    /\ At(x, "penalise")' => job'[x].kind = "forfeit"
    /\ Undecided(x)' =>
         \/ status[job'[x].match] = "active" /\ UNCHANGED <<status, announced>>
         \/ Undecided(x) /\ Same(x) /\ UNCHANGED <<status, announced>>
    /\ Ended(x)' =>
         \/ Ended(x) /\ Same(x) /\ UNCHANGED <<status, winner, announced>>
         \/ Undecided(x) /\ Same(x) /\ Flip(x)
         \/ Undecided(x) /\ Same(x) /\ Cancel(x) /\ status[job[x].match] = "active"

LEMMA FinalizerOrigin ==
    ASSUME TypeOK, Started, LockHeld, NEW w \in Workers, Finalizer(w), NEW x \in Workers
    PROVE  Kept(x) \/ Origin(x)
<1>g. ASSUME NEW step \in Steps, Goto(w, step)
      PROVE  job'[w].at = step /\ Same(w) /\ (x # w => Kept(x))
  BY <1>g, GotoJob DEF Kept, Same
<1>d. ASSUME Done(w)
      PROVE  (x # w => Kept(x)) /\ Origin(w)
  BY <1>d, DoneJob, IdleFields DEF Kept, Origin, Finalizing, Undecided, Ended, At
<1> USE DEF At, Finalizing, Undecided, Ended, Steps
<1>1. CASE Decide(w)
  <2>1. /\ job'[w].at = "flip" => job[w].kind \in {"complete", "forfeit"}
        /\ job'[w].at = "penalise" => job[w].kind = "forfeit"
        /\ job'[w].at \in {"flip", "mark", "cancel"} => status[job[w].match] = "active"
    <3>1. ASSUME NEW step \in Steps, Goto(w, step) PROVE job'[w].at = step
      BY <3>1, GotoJob
    <3>2. CASE job[w].kind \in {"complete", "forfeit"} /\ status[job[w].match] = "active"
      <4>1. CASE job[w].kind = "forfeit" BY <3>2, <4>1
      <4>2. CASE job[w].kind = "complete"
        <5>1. job'[w].at # "penalise"
          <6>1. ASSUME NEW v, job' = [job EXCEPT ![w].at = "flip", ![w].winner = v]
                PROVE  job'[w].at = "flip"
            BY <6>1 DEF TypeOK, Jobs
          <6> QED BY <1>1, <3>1, <4>2, <6>1 DEF Decide
        <5> QED BY <3>2, <4>2, <5>1
      <4> QED BY <3>2, <4>1, <4>2
    <3>3. CASE ~(job[w].kind \in {"complete", "forfeit"} /\ status[job[w].match] = "active")
      BY <1>1, <3>1, <3>3 DEF Decide
    <3> QED BY <3>2, <3>3
  <2> QED BY <1>1, <2>1, DecideJob DEF Decide, Kept, Origin, matchVars
<1>2. CASE Flip(w)
  BY <1>2, <1>g DEF Flip, LockHeld, Origin, Same
<1>3. CASE Penalise(w)
  <2>1. CASE Goto(w, "mark")
    BY <1>3, <2>1, <1>g DEF Penalise, LockHeld, Origin, Same
  <2>2. CASE job' = [job EXCEPT ![w].at = "mark", ![w].spared = Forfeiter(w)]
    <3>1. job'[w].at = "mark" /\ Same(w) /\ (x # w => Kept(x))
      BY <2>2 DEF TypeOK, Jobs, Kept, Same
    <3> QED BY <1>3, <3>1 DEF Penalise, LockHeld, Origin, Same
  <2> QED BY <1>3, <2>1, <2>2 DEF Penalise
<1>4. CASE Mark(w)
  BY <1>4, <1>g DEF Mark, Origin, Same
<1>5. CASE Cancel(w)
  BY <1>5, <1>g DEF Cancel, Origin, Same
<1>6. CASE Refund(w)
  BY <1>6, <1>g, <1>d DEF Refund, Refunded, Origin, Same, matchVars
<1>7. CASE ReadStandings(w)
  <2>1. CASE Goto(w, Returned(w))
    BY <1>7, <2>1, <1>g DEF ReadStandings, Returned, Origin, Same, matchVars
  <2>2. CASE \E missing \in SUBSET Players :
             job' = [job EXCEPT ![w].at = "write", ![w].missing = missing, ![w].snap = standing]
    <3>1. job'[w].at = "write" /\ Same(w) /\ (x # w => Kept(x))
      BY <2>2 DEF TypeOK, Jobs, Kept, Same
    <3> QED BY <1>7, <3>1 DEF ReadStandings, Origin, Same, matchVars
  <2>3. roster[job[w].match] \subseteq Players
    BY <1>7 DEF ReadStandings, Started, TypeOK
  <2> QED BY <1>7, <2>1, <2>2, <2>3 DEF ReadStandings
<1>8. CASE Settle(w)
  BY <1>8, <1>g DEF Settle, Returned, Origin, Same, matchVars
<1>9. CASE FreeBot(w)
  BY <1>9, <1>g DEF FreeBot, Origin, Same, matchVars
<1>10. CASE Remember(w)
  BY <1>10, <1>g DEF Remember, Origin, Same
<1>11. CASE Release(w)
  BY <1>11, <1>d DEF Release
<1>12. CASE Unlock(w)
  BY <1>12, <1>g DEF Unlock, Origin, Same
<1>13. CASE Announce(w)
  BY <1>13, <1>d DEF Announce
<1> QED BY <1>1, <1>2, <1>3, <1>4, <1>5, <1>6, <1>7, <1>8, <1>9, <1>10, <1>11, <1>12, <1>13
        DEF Finalizer

LEMMA Origins ==
    ASSUME TypeOK, Started, LockHeld, [Next]_vars, NEW x \in Workers
    PROVE  Kept(x) \/ Origin(x)
<1> USE DEF At, Finalizing, Undecided, Ended, Steps
<1>1. ASSUME NEW w \in Workers, Finalizer(w) PROVE Kept(x) \/ Origin(x)
  BY <1>1, FinalizerOrigin
<1>2. ASSUME NEW w \in Workers, Throw(w) PROVE Kept(x) \/ Origin(x)
  <2>g. ASSUME NEW step \in Steps, Goto(w, step)
        PROVE  job'[w].at = step /\ Same(w) /\ (x # w => Kept(x))
    BY <2>g, GotoJob DEF Kept, Same
  <2>u. lock' = lock /\ UNCHANGED <<status, winner, announced>>
    BY <1>2 DEF Throw, matchVars
  <2>1. CASE job[w].at \in {"decide", "flip", "mark", "cancel"} /\ Goto(w, "release")
    BY <2>1, <2>g, <2>u DEF Origin, Same
  <2>2. CASE /\ job[w].kind \in {"complete", "forfeit"} /\ Goto(w, "release")
             /\ job[w].at \in {"read", "refund", "free", "remember"}
    BY <2>2, <2>g, <2>u DEF Origin, Same
  <2>3. CASE At(w, "penalise") /\ Goto(w, "mark")
    BY <2>3, <2>g, <2>u DEF Origin, Same, LockHeld
  <2>4. CASE job[w].at \in {"read", "write"} /\ Goto(w, Threw(w))
    BY <2>4, <2>g, <2>u DEF Origin, Same, Threw
  <2>5. CASE At(w, "refund") /\ Refunded(w)
    <3>1. CASE Goto(w, "free") BY <2>5, <3>1, <2>g, <2>u DEF Origin, Same
    <3>2. CASE Done(w) BY <3>2, DoneJob, IdleFields DEF Kept, Origin
    <3> QED BY <2>5, <3>1, <3>2 DEF Refunded
  <2>6. CASE At(w, "free") /\ Goto(w, IF job[w].kind = "abandon" THEN "refund" ELSE "remember")
    BY <2>6, <2>g, <2>u DEF Origin, Same
  <2> QED BY <1>2, <2>1, <2>2, <2>3, <2>4, <2>5, <2>6 DEF Throw
<1>3. ASSUME NEW w \in Workers, NEW m \in Matches, NEW k \in {"complete", "forfeit", "abandon"},
             Acquire(w, m, k)
      PROVE  Kept(x) \/ Origin(x)
  <2>1. /\ job'[w].at = "decide" /\ job'[w].kind = k /\ job'[w].match = m
        /\ x # w => Kept(x)
    BY <1>3, AcquireJob DEF Kept
  <2>2. job[w].at = "idle" /\ lock'[m] = w /\ status[m] # "none"
    BY <1>3 DEF Acquire, TypeOK
  <2>3. Taken(w) BY <2>1, <2>2 DEF Taken
  <2> QED BY <2>1, <2>2, <2>3 DEF Origin
<1>4. ASSUME NEW w \in Workers, NEW u \in Humans, Replay(w, u) PROVE Kept(x) \/ Origin(x)
  BY <1>4, ReplayJob DEF Kept, Origin
<1>5. ASSUME NEW w \in Workers, Crash(w) PROVE Kept(x) \/ Origin(x)
  BY <1>5, DoneJob, IdleFields DEF Crash, Kept, Origin
<1>6. CASE job' = job
  BY <1>6 DEF Kept
<1> QED BY <1>1, <1>2, <1>3, <1>4, <1>5, <1>6
        DEF Next, StartMatch, Acknowledge, SweepReservation, Expire, vars

\* Nobody takes the lock of a completion or a forfeit that stands still.
LEMMA LockKept ==
    ASSUME TypeOK, Started, LockHeld, [Next]_vars, NEW x \in Workers, Finalizing(x), Kept(x)
    PROVE  lock'[job[x].match] = x
<1> DEFINE m == job[x].match
<1>1. m \in Matches /\ lock[m] = x BY DEF Finalizing, Started, At, LockHeld
<1>2. ASSUME NEW w \in Workers, Release(w) \/ Unlock(w) \/ Crash(w) PROVE w # x
  BY <1>2, GotoJob, DoneJob, IdleFields DEF Release, Unlock, Crash, At, Kept, Steps
<1>3. ASSUME NEW w \in Workers, Release(w) \/ Unlock(w) \/ Crash(w) PROVE lock'[m] = x
  BY <1>1, <1>2, <1>3 DEF Release, Unlock, Crash, Unlocked
<1>4. ASSUME NEW w \in Workers, NEW n \in Matches, NEW k \in {"complete", "forfeit", "abandon"},
             Acquire(w, n, k)
      PROVE  lock'[m] = x
  BY <1>1, <1>4, NamesAssumption DEF Acquire, TypeOK
<1>5. ASSUME NEW n \in Matches, Expire(n) PROVE lock'[m] = x
  BY <1>1, <1>5, NamesAssumption DEF Expire, TypeOK, Finalizing
<1>6. CASE lock' = lock BY <1>1, <1>6
<1> QED BY <1>3, <1>4, <1>5, <1>6
        DEF Next, Finalizer, vars, StartMatch, Decide, Flip, Penalise, Mark, Cancel, Refund,
            ReadStandings, Settle, FreeBot, Remember, Announce, Throw, Replay, Acknowledge,
            SweepReservation

LEMMA LockNext == TypeOK /\ Started /\ LockHeld /\ [Next]_vars => LockHeld'
<1> SUFFICES ASSUME TypeOK, Started, LockHeld, [Next]_vars PROVE LockHeld'
  OBVIOUS
<1>1. ASSUME NEW x \in Workers, Finalizing(x)' PROVE lock'[job'[x].match] = x
  <2>1. CASE Kept(x) BY <1>1, <2>1, LockKept DEF Kept, Finalizing
  <2>2. CASE Origin(x) BY <1>1, <2>2 DEF Origin, LockHeld
  <2> QED BY <2>1, <2>2, Origins
<1>2. ASSUME NEW x \in Workers
      PROVE  /\ At(x, "flip")' => job'[x].kind \in {"complete", "forfeit"}
             /\ At(x, "penalise")' => job'[x].kind = "forfeit"
  BY Origins DEF Kept, Origin, LockHeld, At
<1> QED BY <1>1, <1>2 DEF LockHeld

\* Who tells the players of a match a result: its completer, or whoever reads the row.
LEMMA Told ==
    ASSUME TypeOK, Started, [Next]_vars, NEW m \in Matches
    PROVE  \/ announced'[m] = announced[m]
           \/ status[m] = "completed" /\ announced'[m] = announced[m] \cup {winner[m]}
           \/ \E w \in Workers : /\ Remember(w) /\ Ended(w) /\ job[w].match = m
                                 /\ status[m] \in {"completed", "abandoned"}
                                 /\ announced'[m] = announced[m] \cup {job[w].winner}
<1>1. ASSUME NEW w \in Workers, Remember(w), job[w].match = m, Decided(w)
      PROVE  /\ Ended(w) /\ status[m] \in {"completed", "abandoned"}
             /\ announced'[m] = announced[m] \cup {job[w].winner}
  BY <1>1 DEF Remember, Decided, Ended, At, Tell, TypeOK, Started
<1>2. ASSUME NEW w \in Workers, Remember(w), job[w].match # m \/ ~Decided(w)
      PROVE  announced'[m] = announced[m]
  BY <1>2 DEF Remember, Tell, TypeOK
<1>3. ASSUME NEW w \in Workers, Announce(w)
      PROVE  \/ announced'[m] = announced[m]
             \/ status[m] = "completed" /\ announced'[m] = announced[m] \cup {winner[m]}
  BY <1>3 DEF Announce, Tell, Results, TypeOK
<1>4. CASE announced' = announced BY <1>4
<1> QED BY <1>1, <1>2, <1>3, <1>4
        DEF Next, Finalizer, vars, StartMatch, Acquire, Decide, Flip, Penalise, Mark, Cancel, Refund,
            ReadStandings, Settle, FreeBot, Release, Unlock, Throw, Crash, Replay, Acknowledge,
            SweepReservation, Expire

\* Who completes a match: a finalizer that holds its lock.
LEMMA Flipped ==
    ASSUME TypeOK, Started, [Next]_vars, NEW m \in Matches, status'[m] = "completed"
    PROVE  \/ status[m] = "completed" /\ winner'[m] = winner[m]
           \/ \E w \in Workers : Flip(w) /\ job[w].match = m /\ status[m] = "active"
<1>1. ASSUME NEW w \in Workers, Flip(w), job[w].match = m, status[m] = "active"
      PROVE  \E v \in Workers : Flip(v) /\ job[v].match = m /\ status[m] = "active"
  BY <1>1
<1>2. ASSUME NEW w \in Workers, Flip(w), job[w].match # m \/ status[m] # "active"
      PROVE  status'[m] = status[m] /\ winner'[m] = winner[m]
  BY <1>2 DEF Flip, TypeOK
<1>3. ASSUME NEW w \in Workers, Cancel(w) PROVE status'[m] = status[m] /\ winner'[m] = winner[m]
  BY <1>3 DEF Cancel, TypeOK
<1>4. ASSUME NEW n \in Matches, NEW u \in Humans, NEW v \in Players, StartMatch(n, u, v)
      PROVE  status'[m] = status[m] /\ winner'[m] = winner[m]
  BY <1>4 DEF StartMatch, TypeOK
<1>5. CASE UNCHANGED <<status, winner>> BY <1>5
<1> QED BY <1>1, <1>2, <1>3, <1>4, <1>5
        DEF Next, Finalizer, vars, matchVars, Acquire, Decide, Penalise, Mark, Refund, ReadStandings,
            Settle, FreeBot, Remember, Release, Unlock, Announce, Throw, Crash, Replay, Acknowledge,
            SweepReservation, Expire

\* While a completion stands still, nobody else completes its match or announces it.
LEMMA Alone ==
    ASSUME TypeOK, Started, LockHeld, NEW x \in Workers, Kept(x), Finalizing(x),
           NEW w \in Workers, job[w].match = job[x].match
    PROVE  ~Flip(w) /\ ~(Remember(w) /\ Ended(w))
<1>1. ASSUME Flip(w) \/ (Remember(w) /\ Ended(w)) PROVE FALSE
  <2>1. Finalizing(w) BY <1>1 DEF Flip, Remember, Ended, LockHeld, At, Finalizing
  <2>2. w = x BY <2>1 DEF LockHeld
  <2>3. job'[w].at # job[w].at
    BY <1>1, GotoJob DEF Flip, Remember, At, Steps
  <2> QED BY <2>2, <2>3 DEF Kept
<1> QED BY <1>1

LEMMA CompleterNext ==
    TypeOK /\ Started /\ AbandonerPath /\ ResultsRight /\ [Next]_vars => CompleterSees'
<1> SUFFICES ASSUME TypeOK, Started, AbandonerPath, ResultsRight, [Next]_vars, NEW x \in Workers
             PROVE  LET m == job'[x].match IN
                    /\ Undecided(x)' => status'[m] # "completed" /\ announced'[m] = {}
                    /\ Ended(x)' => \/ status'[m] = "abandoned" /\ announced'[m] = {}
                                    \/ status'[m] = "completed" /\ winner'[m] = job'[x].winner
  BY DEF CompleterSees
<1> DEFINE m == job[x].match
<1>0. Undecided(x) \/ Ended(x) => Finalizing(x) /\ m \in Matches /\ status[m] # "none"
  BY DEF Undecided, Ended, Finalizing, Started, At
<1>1. CASE Kept(x)
  <2>0. /\ Undecided(x)' <=> Undecided(x)
        /\ Ended(x)' <=> Ended(x)
        /\ job'[x] = job[x]
    BY <1>1 DEF Kept, Undecided, Ended
  <2>1. ASSUME Undecided(x) \/ Ended(x)
        PROVE  /\ status'[m] = "completed" => status[m] = "completed" /\ winner'[m] = winner[m]
               /\ status[m] # "completed" => announced'[m] = announced[m]
    BY <1>0, <1>1, <2>1, Flipped, Told, Alone DEF ResultsRight
  <2>2. Undecided(x) => status'[m] # "completed" /\ announced'[m] = {}
    BY <2>1 DEF ResultsRight, CompleterSees
  <2>3. Ended(x) => \/ status'[m] = "abandoned" /\ announced'[m] = {}
                    \/ status'[m] = "completed" /\ winner'[m] = job[x].winner
    BY <1>0, <2>1, MatchesAdvance DEF ResultsRight, CompleterSees
  <2> QED BY <2>0, <2>2, <2>3
<1>2. CASE Origin(x) /\ Undecided(x)'
  <2>1. job'[x].at # "idle" /\ ~Ended(x)' BY <1>2 DEF Undecided, Ended
  <2>2. CASE status[job'[x].match] = "active" /\ UNCHANGED <<status, announced>>
    <3>1. job'[x].match \in Matches
      BY <2>1, StartedNext DEF At, Started
    <3> QED BY <2>1, <2>2, <3>1 DEF ResultsRight, ResultKnown
  <2>3. CASE Undecided(x) /\ Same(x) /\ UNCHANGED <<status, announced>>
    BY <2>1, <2>3 DEF Same, ResultsRight, CompleterSees
  <2> QED BY <1>2, <2>2, <2>3 DEF Origin
<1>3. CASE Origin(x) /\ Ended(x)'
  <2>0. ~Undecided(x)' BY <1>3 DEF Undecided, Ended
  <2>1. CASE Ended(x) /\ Same(x) /\ UNCHANGED <<status, winner, announced>>
    BY <2>0, <2>1 DEF Same, ResultsRight, CompleterSees
  <2>2. CASE Undecided(x) /\ Same(x) /\ Flip(x)
    <3>1. status[m] \in {"active", "abandoned"} /\ announced'[m] = {}
      BY <1>0, <2>2 DEF ResultsRight, CompleterSees, TypeOK, Flip
    <3>2. status[m] = "active" => status'[m] = "completed" /\ winner'[m] = job[x].winner
      BY <1>0, <2>2 DEF Flip, TypeOK
    <3>3. status[m] = "abandoned" => status'[m] = "abandoned"
      BY <2>2 DEF Flip
    <3> QED BY <2>0, <2>2, <3>1, <3>2, <3>3 DEF Same
  <2>3. CASE Undecided(x) /\ Same(x) /\ Cancel(x) /\ status[m] = "active"
    <3>1. status'[m] = "abandoned" /\ announced'[m] = {}
      BY <1>0, <2>3 DEF Cancel, TypeOK, ResultsRight, CompleterSees
    <3> QED BY <2>0, <2>3, <3>1 DEF Same
  <2> QED BY <1>3, <2>1, <2>2, <2>3 DEF Origin
<1>4. CASE ~Undecided(x)' /\ ~Ended(x)'
  BY <1>4
<1>5. Kept(x) \/ Origin(x) BY Origins DEF ResultsRight
<1> QED BY <1>1, <1>2, <1>3, <1>4, <1>5

LEMMA KnownNext == TypeOK /\ Started /\ ResultsRight /\ [Next]_vars => ResultKnown'
<1> SUFFICES ASSUME TypeOK, Started, ResultsRight, [Next]_vars, NEW m \in Matches
             PROVE  /\ status'[m] \in {"none", "active"} => announced'[m] = {}
                    /\ status'[m] = "completed" => announced'[m] \subseteq {winner'[m]}
                    /\ \E v \in Outcomes : announced'[m] \subseteq {v}
  BY DEF ResultKnown
<1>0. /\ status[m] \in {"none", "active", "completed", "abandoned"}
      /\ winner[m] \in Outcomes
      /\ \A w \in Workers : job[w].winner \in Outcomes
  BY DEF TypeOK, Jobs, Outcomes
<1>1. status'[m] \in {"none", "active"} => status[m] \in {"none", "active"}
  BY <1>0, MatchesAdvance
<1>2. status[m] \in {"none", "active"} => announced'[m] = {}
  BY Told DEF ResultsRight, ResultKnown
<1>3. status[m] = "completed" => announced'[m] \subseteq {winner[m]}
  <2>1. ASSUME NEW w \in Workers, Ended(w), job[w].match = m, status[m] = "completed"
        PROVE  job[w].winner = winner[m]
    BY <2>1 DEF ResultsRight, CompleterSees
  <2> QED BY <2>1, Told DEF ResultsRight, ResultKnown
<1>4. status[m] = "abandoned" => \E v \in Outcomes : announced'[m] \subseteq {v}
  <2>1. ASSUME NEW w \in Workers, Ended(w), job[w].match = m, status[m] = "abandoned"
        PROVE  announced[m] = {}
    BY <2>1 DEF ResultsRight, CompleterSees
  <2> QED BY <1>0, <2>1, Told DEF ResultsRight, ResultKnown
<1>5. status'[m] = "completed" => announced'[m] \subseteq {winner'[m]}
  BY <1>2, <1>3, Flipped
<1> QED BY <1>0, <1>1, <1>2, <1>3, <1>4, <1>5

\* The players of a match are told one result at most, and the recorded one if there is
\* one, in every reachable state: possession-completion.ts and match-final-results.service.ts.
THEOREM ResultsAgree == Spec => []OneResult
<1>1. TypeOK /\ Started /\ AbandonerPath /\ ResultsRight /\ [Next]_vars => ResultsRight'
  BY LockNext, CompleterNext, KnownNext DEF ResultsRight
<1>2. Spec => [](TypeOK /\ Started /\ AbandonerPath /\ ResultsRight)
  BY <1>1, TypeInit, TypeNext, StartedNext, ResultsInit, PTL DEF Spec
<1>3. ResultsRight => OneResult
  <2> SUFFICES ASSUME ResultsRight, NEW m \in Matches
               PROVE  /\ Cardinality(announced[m]) <= 1
                      /\ status[m] = "completed" => announced[m] \subseteq {winner[m]}
    BY DEF OneResult
  <2>1. PICK v \in Outcomes : announced[m] \subseteq {v}
    BY DEF ResultsRight, ResultKnown
  <2>2. announced[m] = {} \/ announced[m] = {v} BY <2>1
  <2>3. Cardinality(announced[m]) \in {0, 1}
    BY <2>2, FS_EmptySet, FS_Singleton
  <2> QED BY <2>3 DEF ResultsRight, ResultKnown
<1> QED BY <1>2, <1>3, PTL

-----------------------------------------------------------------------------
(* One ending *)

\* Whom a match can be decided for.
Entitled(m) == roster[m] \cup {Nobody}

\* A finalizer decides for a player of its match, or for nobody, and so does a result.
WinnersPlay ==
    /\ \A w \in Workers : ~At(w, "idle") => job[w].winner \in Entitled(job[w].match)
    /\ \A m \in Matches : status[m] = "completed" => winner[m] \in Entitled(m)

\* A penalty is taken from the one loser of a match that has no result yet.
PenaltyEarly == \A w \in Workers : At(w, "penalise") =>
    /\ status[job[w].match] # "completed"
    /\ job[w].winner \in roster[job[w].match]

\* A settlement about to write has players of its match, and everybody else has a row.
MissingPlayed == \A w \in Workers : At(w, "write") =>
    LET m == job[w].match IN
    job[w].missing \subseteq roster[m] /\ \A u \in roster[m] \ job[w].missing : Settled(m, u)

\* Two play; a bot gets its row from a result only, never from a penalty.
PairsPlay == \A m \in Matches : status[m] # "none" => \E u, v \in Players : u # v /\ roster[m] = {u, v}
BotsRatedLast == \A m \in Matches, b \in Bots : Settled(m, b) => status[m] = "completed"

EndingRight ==
    WinnersPlay /\ PenaltyEarly /\ MissingPlayed /\ PairsPlay /\ BotsRatedLast

SettlementInv ==
    /\ TypeOK /\ Started /\ AbandonerPath
    /\ RefundsOnce /\ BotsRight /\ ResultsRight /\ EndingRight

\* Nothing has happened at first.
LEMMA SettlementStarts == Init => SettlementInv
<1>1. Init => EndingRight
  BY IdleFields DEF Init, EndingRight, WinnersPlay, PenaltyEarly, MissingPlayed,
       PairsPlay, BotsRatedLast, Settled, At
<1>2. QED BY <1>1, TypeInit, RefundsInit, BotsInit, ResultsInit DEF SettlementInv

\* Whom a finalizer decides for, it has from its decision under the lock.
Choosing(x) ==
    /\ ~At(x, "idle") /\ job'[x].match = job[x].match
    /\ \/ job'[x].winner = job[x].winner
       \/ job'[x].winner \in Entitled(job[x].match)
    /\ job'[x].at = "penalise" =>
         /\ Decide(x) /\ status[job[x].match] = "active"
         /\ job'[x].winner \in roster[job[x].match]

\* How a step may change whom a finalizer decides for.
LEMMA ChoiceFrom ==
    ASSUME TypeOK, Started, [Next]_vars, NEW x \in Workers
    PROVE  \/ Kept(x) \/ Choosing(x) \/ At(x, "idle")'
           \/ job'[x].winner = Nobody /\ job'[x].at # "penalise"
<1> DEFINE Goal == \/ Kept(x) \/ Choosing(x) \/ At(x, "idle")'
                   \/ job'[x].winner = Nobody /\ job'[x].at # "penalise"
<1>1. ASSUME NEW w \in Workers, ~At(w, "idle"), NEW step \in Steps \ {"penalise"}, Goto(w, step)
      PROVE  Goal
  BY <1>1, GotoJob DEF Kept, Choosing
<1>2. ASSUME NEW w \in Workers, Done(w) PROVE Goal
  BY <1>2, DoneJob, IdleFields DEF Kept, At
<1>3. ASSUME NEW w \in Workers, Decide(w) PROVE Goal
  <2> DEFINE m == job[w].match
  <2>1. /\ ~At(w, "idle") /\ job \in [Workers -> Jobs] /\ roster' = roster
        /\ \A y \in Workers \ {w} : job'[y] = job[y]
    BY <1>3, DecideJob DEF Decide, At, TypeOK, matchVars
  <2>2. ASSUME NEW v \in Entitled(m), NEW next \in {"flip", "penalise"},
               job' = [job EXCEPT ![w].at = next, ![w].winner = v],
               next = "penalise" => status[m] = "active" /\ v \in roster[m]
        PROVE  Goal
    <3>1. job'[w].at = next /\ job'[w].winner = v /\ job'[w].match = m
      BY <2>1, <2>2 DEF Jobs
    <3>2. QED BY <1>3, <2>1, <2>2, <3>1 DEF Kept, Choosing
  <2>3. CASE Goto(w, "release") \/ Goto(w, "mark") \/ Goto(w, "cancel")
    BY <1>1, <2>1, <2>3 DEF Steps
  <2>4. CASE \E v \in roster[m] \cup {Nobody} : job' = [job EXCEPT ![w].at = "flip", ![w].winner = v]
    BY <2>2, <2>4 DEF Entitled
  <2>5. CASE /\ status[m] = "active"
             /\ \E v \in roster[m], next \in {"flip", "penalise"} :
                  job' = [job EXCEPT ![w].at = next, ![w].winner = v]
    BY <2>2, <2>5 DEF Entitled
  <2>6. QED BY <1>3, <2>3, <2>4, <2>5 DEF Decide
<1>4. ASSUME NEW w \in Workers, Penalise(w) PROVE Goal
  <2>1. ~At(w, "idle") BY <1>4 DEF Penalise, At
  <2>2. CASE Goto(w, "mark") BY <1>1, <2>1, <2>2 DEF Steps
  <2>3. CASE job' = [job EXCEPT ![w].at = "mark", ![w].spared = Forfeiter(w)]
    BY <2>1, <2>3 DEF TypeOK, Jobs, Kept, Choosing
  <2>4. QED BY <1>4, <2>2, <2>3 DEF Penalise
<1>5. ASSUME NEW w \in Workers, ReadStandings(w) PROVE Goal
  <2>1. ~At(w, "idle") BY <1>5 DEF ReadStandings, At
  <2>2. CASE Goto(w, Returned(w)) BY <1>1, <2>1, <2>2 DEF Returned, Steps
  <2>3. CASE \E missing \in SUBSET Players :
             job' = [job EXCEPT ![w].at = "write", ![w].missing = missing, ![w].snap = standing]
    BY <2>1, <2>3 DEF TypeOK, Jobs, Kept, Choosing
  <2>4. roster[job[w].match] \subseteq Players
    BY <1>5 DEF ReadStandings, At, Started, TypeOK
  <2>5. QED BY <1>5, <2>2, <2>3, <2>4 DEF ReadStandings
<1>6. ASSUME NEW w \in Workers, Throw(w) PROVE Goal
  <2>1. ~At(w, "idle") BY <1>6 DEF Throw, At
  <2>2. QED BY <1>1, <1>2, <1>6, <2>1 DEF Throw, Threw, Refunded, Steps
<1>7. ASSUME NEW w \in Workers, Finalizer(w) PROVE Goal
  <2>1. ~At(w, "idle")
    BY <1>7 DEF At, Finalizer, Decide, Flip, Penalise, Mark, Cancel, Refund, ReadStandings, Settle,
           FreeBot, Remember, Release, Unlock, Announce
  <2>2. QED BY <1>1, <1>2, <1>3, <1>4, <1>5, <1>7, <2>1
     DEF Finalizer, Flip, Mark, Cancel, Refund, Refunded, Settle, Returned, FreeBot, Remember,
         Release, Unlock, Announce, Steps
<1>8. ASSUME NEW w \in Workers, NEW m \in Matches, NEW k \in {"complete", "forfeit", "abandon"},
             Acquire(w, m, k)
      PROVE  Goal
  BY <1>8, AcquireJob DEF Acquire, Idle, TypeOK, Kept
<1>9. ASSUME NEW w \in Workers, NEW u \in Humans, Replay(w, u) PROVE Goal
  BY <1>9 DEF Replay, Idle, TypeOK, Kept
<1>10. ASSUME NEW w \in Workers, Crash(w) PROVE Goal
  BY <1>2, <1>10 DEF Crash
<1>11. CASE job' = job
  BY <1>11 DEF Kept
<1>12. QED BY <1>6, <1>7, <1>8, <1>9, <1>10, <1>11
        DEF Next, StartMatch, Acknowledge, SweepReservation, Expire, vars

\* The winner of the row is the one its finalizer decided for.
LEMMA WinnersNext == SettlementInv /\ [Next]_vars => WinnersPlay'
<1> SUFFICES ASSUME SettlementInv, [Next]_vars PROVE WinnersPlay'
  OBVIOUS
<1> USE DEF SettlementInv, EndingRight
<1>1. ASSUME NEW m \in Matches, status[m] # "none" PROVE Entitled(m)' = Entitled(m)
  BY <1>1, MatchesAdvance DEF Entitled
<1>2. ASSUME NEW x \in Workers, ~At(x, "idle")'
      PROVE  job'[x].winner \in roster'[job'[x].match] \cup {Nobody}
  <2>1. CASE Kept(x) \/ Choosing(x)
    <3>1. job[x].match \in Matches /\ status[job[x].match] # "none" /\ job'[x].match = job[x].match
      BY <1>2, <2>1 DEF Kept, Choosing, Started, At
    <3>2. job[x].winner \in Entitled(job[x].match)
      BY <1>2, <2>1 DEF Kept, Choosing, WinnersPlay, At
    <3>3. QED BY <1>1, <2>1, <3>1, <3>2 DEF Kept, Choosing, Entitled
  <2>2. CASE job'[x].winner = Nobody BY <2>2 DEF Entitled
  <2>3. QED BY <1>2, <2>1, <2>2, ChoiceFrom
<1>3. ASSUME NEW m \in Matches, status'[m] = "completed" PROVE winner'[m] \in Entitled(m)'
  <2>1. CASE status[m] = "completed" /\ winner'[m] = winner[m]
    BY <1>1, <2>1 DEF WinnersPlay
  <2>2. ASSUME NEW w \in Workers, Flip(w), job[w].match = m, status[m] = "active"
        PROVE  winner'[m] \in Entitled(m)'
    BY <1>1, <2>2 DEF Flip, At, WinnersPlay, TypeOK
  <2>3. QED BY <1>3, <2>1, <2>2, Flipped
<1>4. QED BY <1>2, <1>3 DEF WinnersPlay, At, Entitled

\* Whoever penalises holds the lock of the match, so nobody completes it meanwhile.
LEMMA PenaltyNext == SettlementInv /\ [Next]_vars => PenaltyEarly'
<1> SUFFICES ASSUME SettlementInv, [Next]_vars, NEW x \in Workers, At(x, "penalise")'
             PROVE  /\ status'[job'[x].match] # "completed"
                    /\ job'[x].winner \in roster'[job'[x].match]
  BY DEF PenaltyEarly, At
<1> USE DEF SettlementInv, EndingRight
<1>1. CASE Kept(x)
  <2> DEFINE m == job[x].match
  <2>1. /\ At(x, "penalise") /\ m \in Matches /\ status[m] \notin {"none", "completed"}
        /\ job[x].winner \in roster[m] /\ job'[x] = job[x] /\ roster'[m] = roster[m]
    BY <1>1, MatchesAdvance DEF Kept, At, Started, PenaltyEarly
  <2>2. ASSUME NEW w \in Workers, Flip(w), job[w].match = m PROVE FALSE
    <3>1. Finalizing(w) /\ Finalizing(x)
      BY <2>1, <2>2 DEF Flip, At, Finalizing, ResultsRight, LockHeld
    <3>2. w = x BY <2>2, <3>1 DEF ResultsRight, LockHeld
    <3>3. QED BY <2>1, <2>2, <3>2 DEF Flip, At
  <2>3. status'[m] # "completed" BY <2>1, <2>2, Flipped
  <2>4. QED BY <2>1, <2>3
<1>2. CASE Choosing(x)
  <2>1. /\ job[x].match \in Matches /\ job'[x].match = job[x].match
        /\ status[job[x].match] = "active" /\ job'[x].winner \in roster[job[x].match]
        /\ UNCHANGED <<status, roster>>
    BY <1>2 DEF Choosing, At, Started, Decide, matchVars
  <2>2. QED BY <2>1
<1>3. QED BY <1>1, <1>2, ChoiceFrom DEF At

\* The ledger only grows, by the rows of a settlement or of a penalty.
LEMMA LedgerGrows ==
    ASSUME SettlementInv, [Next]_vars
    PROVE  /\ ledger \subseteq ledger'
           /\ \/ ledger' = ledger
              \/ \E w \in Workers : Settle(w)
              \/ \E w \in Workers : /\ Penalise(w)
                                    /\ ledger' = ledger \cup ({job[w].match} \X Forfeiter(w))
<1>1. ASSUME NEW w \in Workers, Penalise(w)
      PROVE  ledger' = ledger \/ ledger' = ledger \cup ({job[w].match} \X Forfeiter(w))
  BY <1>1 DEF Penalise, rankVars
<1>2. ASSUME NEW w \in Workers, Settle(w) PROVE ledger \subseteq ledger'
  BY <1>2 DEF Settle, ApplySettlement
<1>3. CASE ledger' = ledger BY <1>3
<1>4. QED BY <1>1, <1>2, <1>3
        DEF Next, Finalizer, vars, rankVars, StartMatch, Acquire, Decide, Flip, Mark, Cancel, Refund,
            ReadStandings, FreeBot, Remember, Release, Unlock, Announce, Throw, Crash, Replay,
            Acknowledge, SweepReservation, Expire

\* What a settlement did not read as missing has its row, now and later.
LEMMA MissingNext == SettlementInv /\ [Next]_vars => MissingPlayed'
<1> SUFFICES ASSUME SettlementInv, [Next]_vars, NEW x \in Workers, At(x, "write")'
             PROVE  /\ job'[x].missing \subseteq roster'[job'[x].match]
                    /\ \A u \in roster'[job'[x].match] \ job'[x].missing : <<job'[x].match, u>> \in ledger'
  BY DEF MissingPlayed, At, Settled
<1> USE DEF SettlementInv, EndingRight
<1> DEFINE m == job[x].match
           gone == {u \in roster[m] : ~Settled(m, u)}
<1>1. CASE Kept(x)
  <2>1. At(x, "write") /\ m \in Matches /\ roster'[m] = roster[m] /\ job'[x] = job[x]
    BY <1>1, MatchesAdvance DEF Kept, At, Started
  <2>2. QED BY <2>1, LedgerGrows DEF MissingPlayed, Settled
<1>2. CASE ReadStandings(x)
  <2>1. ~Goto(x, Returned(x)) BY GotoJob DEF Returned, At, Steps
  <2>2. /\ job' = [job EXCEPT ![x].at = "write", ![x].missing = gone, ![x].snap = standing]
        /\ roster' = roster /\ ledger' = ledger
    BY <1>2, <2>1 DEF ReadStandings, matchVars, rankVars
  <2>3. job'[x].match = m /\ job'[x].missing = gone
    BY <2>2 DEF TypeOK, Jobs
  <2>4. \A u \in roster[m] \ gone : <<m, u>> \in ledger BY DEF Settled
  <2>5. gone \subseteq roster[m] OBVIOUS
  <2> HIDE DEF m, gone
  <2>6. job'[x].missing \subseteq roster'[job'[x].match] BY <2>2, <2>3, <2>5
  <2>7. \A u \in roster'[job'[x].match] \ job'[x].missing : <<job'[x].match, u>> \in ledger'
    <3>1. roster'[job'[x].match] \ job'[x].missing = roster[m] \ gone BY <2>2, <2>3
    <3>2. QED BY <2>2, <2>3, <2>4, <3>1
  <2>8. QED BY <2>6, <2>7
<1>3. QED BY <1>1, <1>2, WriteFrom

\* A match starts with two players and keeps them.
LEMMA PairsNext == SettlementInv /\ [Next]_vars => PairsPlay'
<1> SUFFICES ASSUME SettlementInv, [Next]_vars, NEW m \in Matches, status'[m] # "none"
             PROVE  \E u, v \in Players : u # v /\ roster'[m] = {u, v}
  BY DEF PairsPlay
<1> USE DEF SettlementInv, EndingRight
<1>1. CASE status[m] # "none" BY <1>1, MatchesAdvance DEF PairsPlay
<1>2. CASE status[m] = "none"
  <2>1. ASSUME NEW w \in Workers, Flip(w) \/ Cancel(w) PROVE status'[m] = status[m]
    BY <1>2, <2>1 DEF Flip, Cancel, At, Started, TypeOK
  <2>2. ASSUME NEW n \in Matches, NEW u \in Humans, NEW v \in Players, StartMatch(n, u, v)
        PROVE  \E a, b \in Players : a # b /\ roster'[m] = {a, b}
    BY <1>2, <2>2 DEF StartMatch, Players, TypeOK
  <2>3. CASE status' = status BY <1>2, <2>3
  <2>4. QED BY <1>2, <2>1, <2>2, <2>3
        DEF Next, Finalizer, vars, matchVars, Acquire, Decide, Penalise, Mark, Refund, ReadStandings,
            Settle, FreeBot, Remember, Release, Unlock, Announce, Throw, Crash, Replay, Acknowledge,
            SweepReservation, Expire
<1>3. QED BY <1>1, <1>2

\* A bot's row comes from a settlement, which reads a completed match.
LEMMA BotsRatedNext == SettlementInv /\ [Next]_vars => BotsRatedLast'
<1> SUFFICES ASSUME SettlementInv, [Next]_vars, NEW m \in Matches, NEW b \in Bots, Settled(m, b)'
             PROVE  status'[m] = "completed"
  BY DEF BotsRatedLast, Settled
<1> USE DEF SettlementInv, EndingRight
<1>1. CASE Settled(m, b) BY <1>1, MatchesAdvance DEF BotsRatedLast
<1>2. ASSUME NEW w \in Workers, Settle(w), ~Settled(m, b) PROVE status'[m] = "completed"
  <2>1. job[w].match = m BY <1>2, SettleBot
  <2>2. status[m] = "completed" BY <1>2, <2>1 DEF Settle, BotsRight, SnapCurrent
  <2>3. QED BY <2>2, MatchesAdvance
<1>3. QED BY <1>1, <1>2, BotEffect

\* All of it together is inductive.
LEMMA SettlementSteps == SettlementInv /\ [Next]_vars => SettlementInv'
<1>1. TypeOK /\ Started /\ AbandonerPath /\ BotsRight /\ [Next]_vars => BotsRight'
  BY StandingNext, HeldNext, SnapNext DEF BotsRight
<1>2. TypeOK /\ Started /\ AbandonerPath /\ ResultsRight /\ [Next]_vars => ResultsRight'
  BY LockNext, CompleterNext, KnownNext DEF ResultsRight
<1>3. SettlementInv /\ [Next]_vars => EndingRight'
  BY WinnersNext, PenaltyNext, MissingNext, PairsNext, BotsRatedNext DEF EndingRight
<1>4. QED BY <1>1, <1>2, <1>3, TypeNext, StartedNext, RefundsNext DEF SettlementInv

\* So it always holds.
LEMMA SettlementAlways == Spec => []SettlementInv
BY SettlementStarts, SettlementSteps, PTL DEF Spec

-----------------------------------------------------------------------------
(* Each step is a step of MatchOutcome, or leaves it alone *)

\* The guard of a start asks for humans only; a bot in an open match is reserved for it.
LEMMA StartOpens ==
    ASSUME SettlementInv, NEW m \in Matches, NEW u \in Humans, NEW v \in Players, StartMatch(m, u, v)
    PROVE  Promise!Open(m, u, v) /\ v \in Humans \cup Bots
<1>1. ASSUME NEW n \in Matches, status[n] = "active" PROVE roster[n] \cap {u, v} = {}
  <2>1. roster[n] \cap {u, v} \cap Humans = {} BY <1>1 DEF StartMatch
  <2>2. v \in Bots => v \notin roster[n]
    <3>1. SUFFICES ASSUME v \in Bots, v \in roster[n] PROVE FALSE OBVIOUS
    <3>2. ~Settled(n, v) BY <1>1, <3>1 DEF SettlementInv, EndingRight, BotsRatedLast
    <3>3. reserved[v] = n BY <1>1, <3>1, <3>2 DEF SettlementInv, BotsRight, BotHeld
    <3>4. reserved[v] = NoMatch BY <3>1 DEF StartMatch
    <3>5. QED BY <3>3, <3>4, NamesAssumption
  <2>3. QED BY <2>1, <2>2 DEF Players
<1>2. QED BY <1>1 DEF StartMatch, rankVars, Promise!Open, Players

\* A won compare-and-set of completeMatch completes the match, for one of its players.
LEMMA FlipCompletes ==
    ASSUME SettlementInv, NEW w \in Workers, Flip(w), status[job[w].match] = "active"
    PROVE  /\ job[w].match \in Matches
           /\ job[w].winner \in Entitled(job[w].match)
           /\ Promise!Complete(job[w].match, job[w].winner)
<1>1. job[w].match \in Matches /\ job[w].winner \in Entitled(job[w].match)
  BY DEF Flip, At, SettlementInv, EndingRight, WinnersPlay, Started
<1>2. QED BY <1>1 DEF Flip, rankVars, Promise!Complete

\* One of abandonMatch abandons it.
LEMMA CancelAbandons ==
    ASSUME SettlementInv, NEW w \in Workers, Cancel(w), status[job[w].match] = "active"
    PROVE  job[w].match \in Matches /\ Promise!Abandon(job[w].match)
<1>1. job[w].match \in Matches BY DEF Cancel, At, SettlementInv, Started
<1>2. QED BY <1>1 DEF Cancel, rankVars, Promise!Abandon

\* A settlement leaves nobody of its match unrated.
LEMMA SettlementRates ==
    ASSUME SettlementInv, NEW w \in Workers, Settle(w)
    PROVE  job[w].match \in Matches /\ Promise!Settle(job[w].match)
<1> DEFINE m == job[w].match
           us == job[w].missing
<1>1. /\ m \in Matches /\ us \subseteq roster[m] /\ status[m] = "completed"
      /\ \A u \in roster[m] \ us : <<m, u>> \in ledger
  BY DEF Settle, At, SettlementInv, Started, EndingRight, MissingPlayed, BotsRight, SnapCurrent, Settled
<1>2. ledger' = ledger \cup ({m} \X us) BY DEF Settle, ApplySettlement
<1>3. UNCHANGED <<status, roster, winner, refunds, announced>> BY DEF Settle, matchVars
<1> HIDE DEF m, us
<1>4. ledger' = ledger \cup ({m} \X roster[m]) BY <1>1, <1>2
<1>5. QED BY <1>1, <1>3, <1>4 DEF Promise!Settle, m

\* A penalty rates one human of a match without a result.
LEMMA PenaltyRates ==
    ASSUME SettlementInv, NEW w \in Workers, Penalise(w), ledger' # ledger
    PROVE  /\ job[w].match \in Matches
           /\ \E u \in roster[job[w].match] : Promise!Penalise(job[w].match, u)
<1> DEFINE m == job[w].match
           us == Forfeiter(w)
<1>1. /\ m \in Matches /\ us \subseteq roster[m] /\ us \subseteq Humans
      /\ status[m] \notin {"none", "completed"} /\ job[w].winner \in roster[m]
  BY DEF Penalise, At, Forfeiter, SettlementInv, Started, EndingRight, PenaltyEarly
<1>2. ledger' = ledger \cup ({m} \X us) BY DEF Penalise, rankVars
<1>3. UNCHANGED <<status, roster, winner, refunds, announced>> BY DEF Penalise, matchVars
<1>4. PICK loser \in roster[m] \cap Humans : us = {loser}
  <2>1. PICK u, v \in Players : u # v /\ roster[m] = {u, v}
    BY <1>1 DEF SettlementInv, EndingRight, PairsPlay
  <2>2. us = {u} \/ us = {v} BY <1>1, <2>1 DEF Forfeiter
  <2>3. QED BY <1>1, <2>2
<1>5. status[m] \in {"active", "abandoned"} BY <1>1 DEF SettlementInv, TypeOK
<1> HIDE DEF m, us
<1>6. ledger' = ledger \cup {<<m, loser>>} BY <1>2, <1>4
<1>7. Promise!Penalise(m, loser) BY <1>3, <1>4, <1>5, <1>6 DEF Promise!Penalise
<1>8. QED BY <1>1, <1>4, <1>7 DEF m

\* The one refund of a match gives back what nobody gave back before.
LEMMA RefundGivesBack ==
    ASSUME SettlementInv, NEW w \in Workers, Refund(w), refunds' # refunds
    PROVE  /\ job[w].match \in Matches
           /\ \E us \in SUBSET roster[job[w].match] : Promise!GiveBack(job[w].match, us)
<1> DEFINE m == job[w].match
           us == (roster[m] \cap Humans) \ job[w].spared
<1>1. /\ m \in Matches /\ status[m] = "abandoned" /\ \A u \in Humans : refunds[m][u] = 0
  BY DEF Refund, At, SettlementInv, Started, RefundsOnce, Refunding
<1>2. Pay(m, us) BY DEF Refund
<1>3. UNCHANGED <<status, roster, winner, ledger, announced>> BY DEF Refund, matchVars, rankVars
<1>4. us \subseteq roster[m] \cap Humans OBVIOUS
<1> HIDE DEF m, us
<1>5. refunds' = [refunds EXCEPT ![m] = [u \in Humans |-> IF u \in us THEN 1 ELSE 0]]
  <2>1. [u \in Humans |-> IF u \in us THEN refunds[m][u] + 1 ELSE refunds[m][u]]
          = [u \in Humans |-> IF u \in us THEN 1 ELSE 0]
    BY <1>1
  <2>2. DOMAIN refunds = Matches BY DEF SettlementInv, TypeOK
  <2>3. refunds' = [refunds EXCEPT ![m] =
                      [u \in Humans |-> IF u \in us THEN refunds[m][u] + 1 ELSE refunds[m][u]]]
    BY <1>1, <1>2, <2>2 DEF Pay
  <2>4. QED BY <2>1, <2>3
<1>6. Promise!GiveBack(m, us) BY <1>1, <1>3, <1>4, <1>5 DEF Promise!GiveBack
<1>7. QED BY <1>1, <1>4, <1>6 DEF m

\* A completion tells what it decided, any other ending what the row says.
LEMMA TellsOne ==
    ASSUME SettlementInv, [Next]_vars, UNCHANGED <<status, roster, winner, ledger, refunds>>,
           NEW w \in Workers, Remember(w) \/ Announce(w), announced' # announced
    PROVE  /\ job[w].match \in Matches
           /\ \E v \in Entitled(job[w].match) : Promise!Announce(job[w].match, v)
<1> DEFINE m == job[w].match
<1>1. m \in Matches /\ announced \in [Matches -> SUBSET Outcomes]
  BY DEF Remember, Announce, At, SettlementInv, Started, TypeOK
<1>2. ASSUME NEW v \in Entitled(m), Tell(m, {v}), status[m] \in {"completed", "abandoned"},
             status[m] = "completed" => winner[m] = v, announced[m] \subseteq {v}
      PROVE  Promise!Announce(m, v)
  <2>1. announced' = [announced EXCEPT ![m] = {v}] BY <1>1, <1>2 DEF Tell
  <2>2. QED BY <1>2, <2>1 DEF Promise!Announce
<1>3. CASE Remember(w)
  <2>1. Decided(w) /\ Tell(m, {job[w].winner}) BY <1>3 DEF Remember
  <2>2. Ended(w) /\ status[m] \in {"completed", "abandoned"}
    BY <1>1, <1>3, <2>1 DEF Remember, Decided, Ended, At, SettlementInv, TypeOK, Started
  <2>3. \/ status[m] = "abandoned" /\ announced[m] = {}
        \/ status[m] = "completed" /\ winner[m] = job[w].winner /\ announced[m] \subseteq {winner[m]}
    BY <1>1, <2>2 DEF SettlementInv, ResultsRight, CompleterSees, ResultKnown
  <2>4. job[w].winner \in Entitled(m)
    BY <1>3 DEF Remember, At, SettlementInv, EndingRight, WinnersPlay
  <2>5. QED BY <1>1, <1>2, <2>1, <2>2, <2>3, <2>4
<1>4. CASE Announce(w)
  <2>1. Tell(m, Results(m)) BY <1>4 DEF Announce
  <2>2. Results(m) # {} BY <1>1, <1>4, <2>1 DEF Tell
  <2>3. status[m] = "completed" /\ Tell(m, {winner[m]}) BY <2>1, <2>2 DEF Results
  <2>4. winner[m] \in Entitled(m) /\ announced[m] \subseteq {winner[m]}
    BY <1>1, <2>3 DEF SettlementInv, EndingRight, WinnersPlay, ResultsRight, ResultKnown
  <2>5. QED BY <1>1, <1>2, <2>3, <2>4
<1>5. QED BY <1>3, <1>4

\* Every other step leaves the outcome alone.
LEMMA StepKeepsPromise == SettlementInv /\ [Next]_vars => [Promise!Next]_(Promise!vars)
<1> SUFFICES ASSUME SettlementInv, [Next]_vars PROVE [Promise!Next]_(Promise!vars)
  OBVIOUS
<1>0. UNCHANGED <<status, roster, winner, ledger, refunds, announced>> => UNCHANGED Promise!vars
  BY DEF Promise!vars
<1>1. ASSUME NEW m \in Matches, NEW u \in Humans, NEW v \in Players, StartMatch(m, u, v)
      PROVE  Promise!Next
  BY <1>1, StartOpens DEF Promise!Next
<1>2. ASSUME NEW w \in Workers, Finalizer(w) PROVE [Promise!Next]_(Promise!vars)
  <2>1. CASE Flip(w)
    <3>1. CASE status[job[w].match] = "active"
      BY <2>1, <3>1, FlipCompletes DEF Promise!Next, Entitled
    <3>2. CASE status[job[w].match] # "active" BY <1>0, <2>1, <3>2 DEF Flip, rankVars
    <3>3. QED BY <3>1, <3>2
  <2>2. CASE Cancel(w)
    <3>1. CASE status[job[w].match] = "active"
      BY <2>2, <3>1, CancelAbandons DEF Promise!Next
    <3>2. CASE status[job[w].match] # "active" BY <1>0, <2>2, <3>2 DEF Cancel, rankVars
    <3>3. QED BY <3>1, <3>2
  <2>3. CASE Penalise(w)
    <3>1. CASE ledger' # ledger BY <2>3, <3>1, PenaltyRates DEF Promise!Next
    <3>2. CASE ledger' = ledger BY <1>0, <2>3, <3>2 DEF Penalise, matchVars
    <3>3. QED BY <3>1, <3>2
  <2>4. CASE Settle(w) BY <2>4, SettlementRates DEF Promise!Next
  <2>5. CASE Refund(w)
    <3>1. CASE refunds' # refunds BY <2>5, <3>1, RefundGivesBack DEF Promise!Next
    <3>2. CASE refunds' = refunds BY <1>0, <2>5, <3>2 DEF Refund, matchVars, rankVars
    <3>3. QED BY <3>1, <3>2
  <2>6. CASE Remember(w) \/ Announce(w)
    <3>0. UNCHANGED <<status, roster, winner, ledger, refunds>>
      BY <2>6 DEF Remember, Announce, matchVars, rankVars
    <3>1. CASE announced' # announced BY <2>6, <3>0, <3>1, TellsOne DEF Promise!Next, Entitled
    <3>2. CASE announced' = announced BY <1>0, <3>0, <3>2
    <3>3. QED BY <3>1, <3>2
  <2>7. CASE Decide(w) \/ Mark(w) \/ ReadStandings(w) \/ FreeBot(w) \/ Release(w) \/ Unlock(w)
    BY <1>0, <2>7 DEF Decide, Mark, ReadStandings, FreeBot, Release, Unlock, matchVars, rankVars
  <2>8. QED BY <1>2, <2>1, <2>2, <2>3, <2>4, <2>5, <2>6, <2>7 DEF Finalizer
<1>3. CASE UNCHANGED <<status, roster, winner, ledger, refunds, announced>>
  BY <1>0, <1>3
<1>4. QED BY <1>1, <1>2, <1>3
        DEF Next, vars, matchVars, rankVars, Acquire, Throw, Crash, Replay, Acknowledge,
            SweepReservation, Expire

\* However finalizers meet, throw or die, a match ends as MatchOutcome says: once and for
\* good, with a result that rates all its players and is the one they are told, or
\* without one and then with their tickets back.
THEOREM ImplementsMatchOutcome == Spec => OneEnding
<1>1. Init => Promise!Init BY DEF Init, Promise!Init
<1>2. QED BY <1>1, StepKeepsPromise, SettlementAlways, PTL DEF Spec, OneEnding, Promise!Spec
=============================================================================
