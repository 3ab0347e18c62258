----------------------- MODULE PossessionRoundsProofs -----------------------
(***************************************************************************)
(* Proofs about PossessionRounds, for every number of players, handlers,   *)
(* replicas, rounds and faults: its safety properties, and that it         *)
(* implements MatchRounds.  The properties are not inductive as they       *)
(* stand.  Placed says of every actor what its stage needs whatever        *)
(* happened (its fence, its lock, a round it can be about); InStep says    *)
(* how it stands to the match as long as nothing was taken back.  Most     *)
(* actions are Quiet for the latter, which one lemma handles.              *)
(***************************************************************************)
EXTENDS PossessionRounds, TLAPS

\* The stages between the fence and its release; those of a sender that has marked its
\* question; those that are about a round of the match.
Fenced == {"check", "early", "commit", "committed"}
Sending == {"publish", "arm"}
InRound == Fenced \cup Sending \cup {"answered", "pick", "mark", "rewrite"}

\* What an actor's stage needs, whatever happened: a round it can be about, the fence of
\* that round, a pause before a resume and, unless it lapsed, the round lock.
ActorRight(b) ==
    /\ pc[b] \in InRound => round[b] \in Rounds
    /\ pc[b] \in Fenced => fence[round[b]] = b
    /\ pc[b] \in {"resumeInTime", "resumeLate", "rewrite"} => "pause" \in faults
    /\ "lapse" \notin faults /\ Critical(b) => lock = b

\* A match is completed at its last index, where no question is asked.
SharedRight ==
    /\ completed <=> current = RoundCount
    /\ completed => ~asked
    /\ pause # "off" => "pause" \in faults

Placed == SharedRight /\ \A b \in Actors : ActorRight(b)

\* The match has come to question q.
Reached(q) == q < current \/ (q = current /\ asked)

\* How an actor stands to a match that was not taken back.
InStep(b) ==
    /\ pc[b] \in {"check", "early", "commit"} => current = round[b] /\ asked
    /\ pc[b] = "publish" => current = round[b] /\ ~asked /\ round[b] \in sent
    /\ pc[b] \in {"arm", "rewrite"} => Reached(round[b])
    /\ pc[b] = "commit" => scored[round[b]] > 0
    /\ pc[b] \in Sending =>
         /\ published[round[b]] = 0
         /\ \A c \in Actors : pc[c] \in Sending /\ round[c] = round[b] => c = b

\* What it knows of the answers, as long as the round lock is its own.
HasAnswers(b) ==
    /\ pc[b] = "answered" => round[b] = current
    /\ pc[b] \in {"check", "early"} => seen[b] = answers[round[b]]
    /\ pc[b] = "commit" => answers[round[b]] \subseteq counted[round[b]]

AskedOnce == \A q \in Rounds : published[q] <= 1 /\ (~Reached(q) => published[q] = 0)

\* Only a resolver between the result and its commit, or one that died there, leaves a
\* result behind that the match has not passed.
ScoredOnce == "crash" \notin faults =>
    \A q \in Rounds : scored[q] > 0 =>
        q < current \/ \E b \in Actors : pc[b] = "commit" /\ round[b] = q

AnswersIn == "lapse" \notin faults =>
    /\ \A b \in Actors : HasAnswers(b)
    /\ \A q \in Rounds : q < current => answers[q] \subseteq counted[q]

Followed == (\A b \in Actors : InStep(b)) /\ AskedOnce /\ ScoredOnce /\ AnswersIn

RoundsInv ==
    /\ TypeOK /\ Placed
    /\ IF rewound THEN "pause" \in faults ELSE Followed

-----------------------------------------------------------------------------
(* Moves of an actor *)

\* Everything about the actors keeps its type.
Moved ==
    /\ pc' \in [Actors -> Stages]
    /\ round' \in [Actors -> Indexes]
    /\ fromTimeout' \in [Actors -> BOOLEAN]
    /\ seen' \in [Actors -> SUBSET Players]

\* Nobody but the actors of D moves.
Only(D) == \A b \in Actors \ D :
    /\ pc'[b] = pc[b] /\ round'[b] = round[b] /\ seen'[b] = seen[b]
    /\ fromTimeout'[b] <=> fromTimeout[b]

\* The rounds are indexes, and so are their successors.
LEMMA RoundsAreIndexes ==
    /\ Rounds \subseteq Indexes /\ Indexes \subseteq Nat /\ 0 \in Rounds
    /\ \A q \in Rounds : q + 1 \in Indexes /\ (q + 1 # RoundCount => q + 1 \in Rounds)
    /\ \A q \in Indexes : q # RoundCount => q \in Rounds
BY BoundsAssumption DEF Rounds, Indexes

\* A call moves one actor.
LEMMA CallMoves ==
    ASSUME TypeOK, NEW a \in Actors, NEW s \in Stages, NEW q \in Indexes, NEW t \in BOOLEAN,
           Call(a, s, q, t)
    PROVE  /\ Moved /\ Only({a})
           /\ pc'[a] = s /\ round'[a] = q /\ (fromTimeout'[a] <=> t)
BY DEF TypeOK, Call, Moved, Only

\* So does a return.
LEMMA ReturnMoves ==
    ASSUME TypeOK, NEW a \in Actors, Return(a)
    PROVE  Moved /\ Only({a}) /\ pc'[a] = "idle" /\ ~fromTimeout'[a]
<1>1. "idle" \in Stages /\ 0 \in Indexes /\ FALSE \in BOOLEAN
  BY RoundsAreIndexes DEF Stages
<1>2. Call(a, "idle", 0, FALSE) BY DEF Return
<1>3. QED BY <1>1, <1>2, CallMoves

\* So does a step to the next stage of what it does.
LEMMA GotoMoves ==
    ASSUME TypeOK, NEW a \in Actors, NEW s \in Stages, Goto(a, s)
    PROVE  /\ Moved /\ Only({a}) /\ pc'[a] = s /\ round' = round /\ fromTimeout' = fromTimeout
BY DEF TypeOK, Goto, Moved, Only

\* So does one that reads the answers.
LEMMA ReadMoves ==
    ASSUME TypeOK, NEW a \in Actors, NEW s \in Stages, round[a] \in Rounds, Read(a, s)
    PROVE  /\ Moved /\ Only({a}) /\ pc'[a] = s /\ round' = round /\ fromTimeout' = fromTimeout
           /\ seen'[a] = answers[round[a]]
<1>1. answers[round[a]] \in SUBSET Players BY DEF TypeOK
<1>2. QED BY <1>1 DEF TypeOK, Read, Moved, Only

\* A resolver that gives up leaves.
LEMMA GiveUpMoves ==
    ASSUME TypeOK, NEW a \in Actors, GiveUp(a)
    PROVE  /\ Moved /\ Only({a}) /\ pc'[a] \in {"leave", "leaveRearm"}
           /\ round' = round /\ fromTimeout' = fromTimeout
<1>1. {"leave", "leaveRearm"} \subseteq Stages BY DEF Stages
<1>2. PICK s \in {"leave", "leaveRearm"} : Goto(a, s) BY DEF GiveUp
<1>3. QED BY <1>1, <1>2, GotoMoves

\* A sender with nothing to send returns, or leaves through its resolver.
LEMMA SendNothingMoves ==
    ASSUME TypeOK, NEW a \in Actors, SendNothing(a)
    PROVE  /\ Moved /\ Only({a})
           /\ \/ pc'[a] = "idle" /\ ~fromTimeout'[a]
              \/ pc'[a] \in {"leaveConcluded", "leaveRearm"} /\ fromTimeout[a]
<1>1. {"leaveConcluded", "leaveRearm"} \subseteq Stages BY DEF Stages
<1>2. CASE ~fromTimeout[a] BY <1>2, ReturnMoves DEF SendNothing
<1>3. CASE fromTimeout[a]
  <2>1. PICK s \in {"leaveConcluded", "leaveRearm"} : Goto(a, s) BY <1>3 DEF SendNothing
  <2>2. QED BY <1>1, <1>3, <2>1, GotoMoves
<1>4. QED BY <1>2, <1>3

\* The timers keep their type.
LEMMA TimerSet ==
    ASSUME TypeOK, NEW q \in Indexes, NEW due \in {"none", "soon", "deadline"},
           SetTimer(q, due) \/ ArmIfAbsent(q) \/ UNCHANGED timer
    PROVE  timer' \in [Indexes -> {"none", "soon", "deadline"}]
BY DEF TypeOK, SetTimer, ArmIfAbsent

\* A fence that is left was one's own.
LEMMA UnfenceSets ==
    ASSUME TypeOK, NEW a \in Actors, NEW q \in Indexes, Unfence(a, q)
    PROVE  /\ fence' \in [Indexes -> Holders]
           /\ \A b \in Actors \ {a}, p \in Indexes : fence[p] = b => fence'[p] = b
BY DEF TypeOK, Unfence, Holders

\* So was a round lock.
LEMMA ReleaseSets ==
    ASSUME TypeOK, NEW a \in Actors, ReleaseRound(a)
    PROVE  /\ lock' \in Holders /\ leaseLost' \in [Actors -> BOOLEAN]
           /\ \A b \in Actors \ {a} : lock = b => lock' = b
BY DEF TypeOK, ReleaseRound, Holders

-----------------------------------------------------------------------------
(* What keeps the invariant *)

\* A step of the actors of D that takes nobody else's fence or lock leaves everybody
\* placed, if it places them.
LEMMA PlacedStep ==
    ASSUME TypeOK, Placed, NEW D \in SUBSET Actors, Only(D), faults \subseteq faults',
           \A b \in Actors \ D : /\ lock = b => lock' = b
                                 /\ \A q \in Indexes : fence[q] = b => fence'[q] = b,
           \A b \in D : ActorRight(b)', SharedRight'
    PROVE  Placed'
<1>1. SUFFICES ASSUME NEW b \in Actors \ D PROVE ActorRight(b)' BY DEF Placed
<1>2. /\ pc'[b] = pc[b] /\ round'[b] = round[b] /\ (fromTimeout'[b] <=> fromTimeout[b])
      /\ ActorRight(b)
  BY DEF Only, Placed
<1>3. round[b] \in Indexes BY DEF TypeOK
<1>4. Critical(b)' <=> Critical(b) BY <1>2 DEF Critical
<1>5. "lapse" \notin faults' /\ Critical(b)' => lock' = b BY <1>2, <1>4 DEF ActorRight
<1>6. pc'[b] \in Fenced => fence'[round'[b]] = b BY <1>2, <1>3 DEF ActorRight
<1>7. QED BY <1>2, <1>5, <1>6 DEF ActorRight

\* The stages that InStep, HasAnswers and ScoredOnce speak of.
Special == {"answered", "check", "early", "commit", "publish", "arm", "rewrite"}

\* A step of the actors of D to other stages, that leaves the match, its results and its
\* answers alone.
Quiet(D) ==
    /\ Only(D)
    /\ \A b \in D : pc'[b] \notin Special /\ (pc[b] = "commit" => "crash" \in faults')
    /\ UNCHANGED <<current, asked, rewound, scored, published, answers, counted>>
    /\ faults \subseteq faults'
    /\ \A b \in Actors : pc'[b] = "publish" /\ round[b] \in sent => round[b] \in sent'

\* Everybody stays in step.
LEMMA QuietKeeps ==
    ASSUME Followed, NEW D \in SUBSET Actors, Quiet(D)
    PROVE  Followed'
<1>1. \A b \in Actors : pc'[b] \in Special =>
        /\ b \notin D /\ pc'[b] = pc[b] /\ round'[b] = round[b] /\ seen'[b] = seen[b]
  BY DEF Quiet, Only
<1>2. ASSUME NEW b \in Actors PROVE InStep(b)'
  <2>1. InStep(b) BY DEF Followed
  <2>2. pc'[b] \in Sending =>
          \A c \in Actors : pc'[c] \in Sending /\ round'[c] = round'[b] => c = b
    BY <1>1, <2>1 DEF InStep, Sending, Special
  <2>3. QED BY <1>1, <2>1, <2>2 DEF InStep, Quiet, Reached, Sending, Special
<1>3. AskedOnce' BY DEF Followed, AskedOnce, Quiet, Reached
<1>4. ScoredOnce'
  <2>1. SUFFICES ASSUME "crash" \notin faults', NEW q \in Rounds, scored[q] > 0, ~(q < current)
        PROVE  \E b \in Actors : pc'[b] = "commit" /\ round'[b] = q
    BY DEF ScoredOnce, Quiet
  <2>2. PICK b \in Actors : pc[b] = "commit" /\ round[b] = q
    BY <2>1 DEF Followed, ScoredOnce, Quiet
  <2>3. b \notin D BY <2>1, <2>2 DEF Quiet
  <2>4. QED BY <2>2, <2>3 DEF Quiet, Only
<1>5. AnswersIn'
  <2>1. SUFFICES ASSUME "lapse" \notin faults'
        PROVE  /\ \A b \in Actors : HasAnswers(b)'
               /\ \A q \in Rounds : q < current => answers[q] \subseteq counted[q]
    BY DEF AnswersIn, Quiet
  <2>2. "lapse" \notin faults BY <2>1 DEF Quiet
  <2>3. ASSUME NEW b \in Actors PROVE HasAnswers(b)'
    BY <1>1, <2>2 DEF Followed, AnswersIn, HasAnswers, Quiet, Special
  <2>4. QED BY <2>2, <2>3 DEF Followed, AnswersIn
<1>6. QED BY <1>2, <1>3, <1>4, <1>5 DEF Followed

\* So the whole invariant is kept.
LEMMA QuietStep ==
    ASSUME RoundsInv, NEW D \in SUBSET Actors, Quiet(D), TypeOK', Placed'
    PROVE  RoundsInv'
<1>1. rewound' = rewound /\ faults \subseteq faults' BY DEF Quiet
<1>2. CASE rewound BY <1>1, <1>2 DEF RoundsInv
<1>3. CASE ~rewound BY <1>1, <1>3, QuietKeeps DEF RoundsInv
<1>4. QED BY <1>2, <1>3

\* A step of one actor that leaves what is shared of the match alone keeps everybody placed.
LEMMA OwnStep ==
    ASSUME TypeOK, Placed, NEW a \in Actors, Only({a}), ActorRight(a)',
           UNCHANGED <<current, asked, completed, pause>>, faults \subseteq faults',
           \A b \in Actors \ {a} : /\ lock = b => lock' = b
                                   /\ \A q \in Indexes : fence[q] = b => fence'[q] = b
    PROVE  Placed'
<1>1. SharedRight' BY DEF Placed, SharedRight
<1>2. {a} \in SUBSET Actors OBVIOUS
<1>3. QED BY <1>1, <1>2, PlacedStep

\* Where nothing of the actor's stage needs a right, it has it.
LEMMA NothingNeeded ==
    ASSUME TypeOK, Placed, NEW a \in Actors,
           pc'[a] \in {"idle", "resolve", "clear", "rearm", "armResumed"}
    PROVE  ActorRight(a)'
BY DEF ActorRight, Critical, InRound, Fenced, Sending

\* A stage under the round lock that needs nothing but the lock.
LEMMA LockIsEnough ==
    ASSUME TypeOK, Placed, NEW a \in Actors, Critical(a), UNCHANGED <<lock, faults>>,
           pc'[a] \in {"locked", "complete", "recover", "leave", "leaveConcluded", "leaveRearm"}
    PROVE  ActorRight(a)'
<1>1. "lapse" \notin faults => lock = a BY DEF Placed, ActorRight
<1>2. QED BY <1>1 DEF ActorRight, InRound, Fenced, Sending

-----------------------------------------------------------------------------
(* The resolver *)

\* A resolver takes the round lock or finds it busy.
LEMMA LockKeeps ==
    ASSUME RoundsInv, NEW a \in Actors, AcquireRound(a) \/ FindRoundBusy(a)
    PROVE  RoundsInv'
<1>1. TypeOK /\ Placed BY DEF RoundsInv
<1>2. {"locked", "rearm", "idle"} \subseteq Stages BY DEF Stages
<1>3. Moved /\ Only({a}) /\ pc'[a] \in {"locked", "rearm", "idle"}
  BY <1>1, <1>2, GotoMoves, ReturnMoves DEF AcquireRound, FindRoundBusy
<1>4. /\ lock' = a \/ lock' = lock
      /\ lock' # lock => lock = Free
      /\ pc'[a] = "locked" => lock' = a
  BY <1>1, <1>2, GotoMoves, ReturnMoves DEF AcquireRound, FindRoundBusy, keys
<1>5. TypeOK'
  BY <1>1, <1>3, <1>4
  DEF AcquireRound, FindRoundBusy, TypeOK, Moved, Holders, cache, keys, ghosts
<1>6. ActorRight(a)'
  BY <1>3, <1>4 DEF ActorRight, Critical, InRound, Fenced, Sending
<1>7. Placed'
  BY <1>1, <1>3, <1>4, <1>6, OwnStep, ActorsAssumption
  DEF AcquireRound, FindRoundBusy, cache, keys
<1>8. Quiet({a})
  BY <1>3 DEF AcquireRound, FindRoundBusy, Quiet, Special, At, cache, keys, ghosts
<1>9. QED BY <1>5, <1>7, <1>8, QuietStep

\* The branches behind the fence.
LEMMA BranchMoves ==
    ASSUME TypeOK, Placed, NEW a \in Actors, Branch(a), pc[a] = "locked"
    PROVE  /\ Moved /\ Only({a}) /\ round' = round
           /\ fromTimeout' = fromTimeout
           /\ \/ pc'[a] \in {"recover", "leave", "leaveConcluded", "leaveRearm"}
              \/ pc'[a] = "pick" /\ fromTimeout[a] /\ round[a] \in Rounds
              \/ /\ pc'[a] \in {"check", "early"} /\ round[a] \in Rounds
                 /\ current = round[a] /\ asked /\ seen'[a] = answers[round[a]]
<1>1. {"recover", "leave", "leaveConcluded", "leaveRearm", "pick", "check", "early"} \subseteq Stages
  BY DEF Stages
<1>2. current \in Indexes /\ (~completed => current # RoundCount) /\ (asked => ~completed)
  BY DEF TypeOK, Placed, SharedRight
<1>3. ~completed => current \in Rounds BY <1>2, RoundsAreIndexes
<1>4. CASE \E s \in {"recover", "leaveConcluded"} : Goto(a, s) BY <1>1, <1>4, GotoMoves
<1>5. CASE GiveUp(a) BY <1>5, GiveUpMoves
<1>6. CASE fromTimeout[a] /\ ~completed /\ current = round[a] /\ Goto(a, "pick")
  BY <1>1, <1>3, <1>6, GotoMoves
<1>7. CASE current = round[a] /\ asked /\ \E s \in {"check", "early"} : Read(a, s)
  BY <1>1, <1>2, <1>3, <1>7, ReadMoves
<1>8. QED BY <1>4, <1>5, <1>6, <1>7 DEF Branch

\* A resolver takes the fence of its round, or finds it taken.
LEMMA FenceKeeps ==
    ASSUME RoundsInv, NEW a \in Actors, TakeFence(a) \/ FindFenced(a)
    PROVE  RoundsInv'
<1>1. TypeOK /\ Placed BY DEF RoundsInv
<1>2. pc[a] = "locked" /\ round[a] \in Indexes BY <1>1 DEF TakeFence, FindFenced, At, TypeOK
<1>3. Critical(a) /\ ("lapse" \notin faults => lock = a)
  BY <1>1, <1>2 DEF Critical, Placed, ActorRight
<1>4. CASE FindFenced(a)
  <2>1. Moved /\ Only({a}) /\ pc'[a] \in {"leave", "leaveRearm"}
    BY <1>1, <1>4, GiveUpMoves DEF FindFenced
  <2>2. TypeOK' BY <1>1, <1>4, <2>1 DEF FindFenced, TypeOK, Moved, cache, keys, ghosts
  <2>3. ActorRight(a)' BY <1>1, <1>3, <1>4, <2>1, LockIsEnough DEF FindFenced, keys
  <2>4. Placed' BY <1>1, <1>4, <2>1, <2>3, OwnStep DEF FindFenced, cache, keys
  <2>5. Quiet({a}) BY <1>2, <1>4, <2>1 DEF FindFenced, Quiet, Special, cache, keys, ghosts
  <2>6. QED BY <2>2, <2>4, <2>5, QuietStep
<1>5. CASE TakeFence(a)
  <2>1. /\ Moved /\ Only({a}) /\ round' = round /\ fromTimeout' = fromTimeout
        /\ \/ pc'[a] \in {"recover", "leave", "leaveConcluded", "leaveRearm"}
           \/ pc'[a] = "pick" /\ fromTimeout[a] /\ round[a] \in Rounds
           \/ /\ pc'[a] \in {"check", "early"} /\ round[a] \in Rounds
              /\ current = round[a] /\ asked /\ seen'[a] = answers[round[a]]
    BY <1>1, <1>2, <1>5, BranchMoves DEF TakeFence
  <2>2. /\ fence' \in [Indexes -> Holders] /\ fence'[round[a]] = a
        /\ \A b \in Actors \ {a}, q \in Indexes : fence[q] = b => fence'[q] = b
    BY <1>1, <1>2, <1>5, ActorsAssumption DEF TakeFence, TypeOK, Holders
  <2>3. TypeOK' BY <1>1, <1>5, <2>1, <2>2 DEF TakeFence, TypeOK, Moved, cache, ghosts
  <2>4. UNCHANGED <<lock, faults, cache, ghosts, answers, pause, sent>> BY <1>5 DEF TakeFence
  <2>5. ActorRight(a)'
    BY <1>3, <2>1, <2>2, <2>4 DEF ActorRight, InRound, Fenced, Sending
  <2>6. Placed' BY <1>1, <2>1, <2>2, <2>4, <2>5, OwnStep DEF cache
  <2>7. CASE pc'[a] \notin {"check", "early"}
    <3>1. Quiet({a}) BY <1>2, <2>1, <2>4, <2>7 DEF Quiet, Special, cache, ghosts
    <3>2. QED BY <2>3, <2>6, <3>1, QuietStep
  <2>8. CASE pc'[a] \in {"check", "early"}
    <3>1. CASE rewound BY <2>3, <2>4, <2>6, <3>1 DEF RoundsInv, ghosts
    <3>2. CASE ~rewound
      <4>1. Followed BY <3>2 DEF RoundsInv
      <4>2. \A b \in Actors \ {a} :
              pc'[b] = pc[b] /\ round'[b] = round[b] /\ seen'[b] = seen[b]
        BY <2>1 DEF Only
      <4>3. ASSUME NEW b \in Actors PROVE InStep(b)'
        <5>1. CASE b = a
          BY <2>1, <2>4, <2>8, <5>1 DEF InStep, Sending, cache
        <5>2. CASE b # a
          BY <2>4, <2>8, <4>1, <4>2, <5>2 DEF Followed, InStep, Sending, Reached, cache, ghosts
        <5>3. QED BY <5>1, <5>2
      <4>4. AskedOnce' BY <2>4, <4>1 DEF Followed, AskedOnce, Reached, cache, ghosts
      <4>5. ScoredOnce'
        BY <1>2, <2>4, <4>1, <4>2 DEF Followed, ScoredOnce, cache, ghosts
      <4>6. AnswersIn'
        <5>1. \A b \in Actors : "lapse" \notin faults => HasAnswers(b)'
          BY <2>1, <2>4, <2>8, <4>1, <4>2 DEF Followed, AnswersIn, HasAnswers, cache, ghosts
        <5>2. QED BY <2>4, <4>1, <5>1 DEF Followed, AnswersIn, cache, ghosts
      <4>7. Followed' BY <4>3, <4>4, <4>5, <4>6 DEF Followed
      <4>8. QED BY <2>3, <2>4, <2>6, <3>2, <4>7 DEF RoundsInv, ghosts
    <3>3. QED BY <3>1, <3>2
  <2>9. QED BY <2>7, <2>8
<1>6. QED BY <1>4, <1>5

\* A resolver holds back, or puts a round off to its deadline.
LEMMA HoldBackKeeps ==
    ASSUME RoundsInv, NEW a \in Actors, HoldBack(a) \/ DeferEarly(a)
    PROVE  RoundsInv'
<1>1. TypeOK /\ Placed BY DEF RoundsInv
<1>2. pc[a] \in {"check", "early"} /\ Critical(a) BY DEF HoldBack, DeferEarly, At, Critical
<1>3. "leave" \in Stages BY DEF Stages
<1>4. Moved /\ Only({a}) /\ pc'[a] \in {"leave", "leaveRearm"}
  BY <1>1, <1>3, GiveUpMoves, GotoMoves DEF HoldBack, DeferEarly
<1>5. round[a] \in Indexes BY <1>1 DEF TypeOK
<1>6. timer' \in [Indexes -> {"none", "soon", "deadline"}]
  BY <1>1, <1>5, TimerSet DEF HoldBack, DeferEarly
<1>7. UNCHANGED <<cache, answers, pause, keys, leaseLost, waits, booting, ended, ghosts, faults>>
  BY DEF HoldBack, DeferEarly
<1>8. TypeOK' BY <1>1, <1>4, <1>6, <1>7 DEF TypeOK, Moved, cache, keys, ghosts
<1>9. ActorRight(a)' BY <1>1, <1>2, <1>4, <1>7, LockIsEnough DEF keys
<1>10. Placed' BY <1>1, <1>4, <1>7, <1>9, OwnStep DEF cache, keys
<1>11. Quiet({a}) BY <1>2, <1>4, <1>7 DEF Quiet, Special, cache, keys, ghosts
<1>12. QED BY <1>8, <1>10, <1>11, QuietStep

\* Two actors with a fence are about two rounds.
LEMMA OneFenced ==
    ASSUME Placed, NEW a \in Actors, NEW b \in Actors, pc[a] \in Fenced, pc[b] \in Fenced,
           round[a] = round[b]
    PROVE  a = b
BY DEF Placed, ActorRight

\* Two actors with an unlapsed round lock are one.
LEMMA OneCritical ==
    ASSUME Placed, NEW a \in Actors, NEW b \in Actors, Critical(a), Critical(b),
           "lapse" \notin faults
    PROVE  a = b
BY DEF Placed, ActorRight

\* One more of what is counted up to two.
LEMMA UpCounts ==
    ASSUME NEW f \in [Rounds -> 0..2], NEW q \in Rounds, NEW g, g = [f EXCEPT ![q] = Up(@)]
    PROVE  /\ g \in [Rounds -> 0..2] /\ g[q] > 0 /\ g[q] = Up(f[q])
           /\ f[q] = 0 => g[q] = 1
           /\ \A p \in Rounds \ {q} : g[p] = f[p]
<1>1. f[q] \in 0..2 OBVIOUS
<1>2. Up(f[q]) \in 0..2 /\ Up(f[q]) > 0 /\ (f[q] = 0 => Up(f[q]) = 1) BY <1>1 DEF Up
<1>3. QED BY <1>1, <1>2

\* The result of a round is applied.
LEMMA ApplyKeeps ==
    ASSUME RoundsInv, NEW a \in Actors, ApplyRound(a)
    PROVE  RoundsInv'
<1>1. TypeOK /\ Placed BY DEF RoundsInv
<1>2. /\ pc[a] = "check" /\ Critical(a) /\ round[a] \in Rounds /\ fence[round[a]] = a
      /\ "lapse" \notin faults => lock = a
  BY <1>1 DEF ApplyRound, At, Critical, Placed, ActorRight, InRound, Fenced
<1>3. Moved /\ Only({a}) /\ pc'[a] = "commit" /\ round' = round
  BY <1>1, GotoMoves DEF ApplyRound, Stages
<1>4. UNCHANGED <<cache, answers, timer, pause, keys, leaseLost, waits, booting, ended, published,
                  rewound, faults>>
  BY DEF ApplyRound
<1>5. /\ scored' \in [Rounds -> 0..2] /\ scored'[round[a]] > 0
      /\ \A q \in Rounds \ {round[a]} : scored'[q] = scored[q]
  BY <1>1, <1>2, UpCounts DEF ApplyRound, TypeOK
<1>6. /\ counted' \in [Rounds -> SUBSET Players] /\ counted'[round[a]] = seen[a]
      /\ \A q \in Rounds \ {round[a]} : counted'[q] = counted[q]
  BY <1>1, <1>2 DEF ApplyRound, TypeOK
<1>7. TypeOK' BY <1>1, <1>3, <1>4, <1>5, <1>6 DEF TypeOK, Moved, cache, keys
<1>8. ActorRight(a)' BY <1>2, <1>3, <1>4 DEF ActorRight, keys, InRound, Fenced, Sending
<1>9. Placed' BY <1>1, <1>3, <1>4, <1>8, OwnStep DEF cache, keys
<1>10. CASE rewound BY <1>4, <1>7, <1>9, <1>10 DEF RoundsInv
<1>11. CASE ~rewound
  <2>1. Followed BY <1>11 DEF RoundsInv
  <2>2. \A b \in Actors \ {a} :
          pc'[b] = pc[b] /\ round'[b] = round[b] /\ seen'[b] = seen[b]
    BY <1>3 DEF Only
  <2>3. current = round[a] /\ asked BY <1>2, <2>1 DEF Followed, InStep
  <2>4. \A b \in Actors \ {a} : pc[b] \in Fenced => round[b] # round[a]
    BY <1>1, <1>2, OneFenced DEF Fenced
  <2>5. ASSUME NEW b \in Actors PROVE InStep(b)'
    <3>1. CASE b = a BY <1>3, <1>4, <1>5, <2>3, <3>1 DEF InStep, Sending, cache
    <3>2. CASE b # a
      <4>1. InStep(b) BY <2>1 DEF Followed
      <4>2. pc[b] = "commit" => round[b] \in Rounds
        BY <1>1 DEF Placed, ActorRight, InRound, Fenced
      <4>3. pc'[b] = "commit" => scored'[round'[b]] > 0
        BY <1>5, <2>2, <2>4, <3>2, <4>1, <4>2 DEF InStep, Fenced
      <4>4. QED
        BY <1>3, <1>4, <2>2, <3>2, <4>1, <4>3 DEF InStep, Sending, Reached, cache, keys
    <3>3. QED BY <3>1, <3>2
  <2>6. AskedOnce' BY <1>4, <2>1 DEF Followed, AskedOnce, Reached, cache
  <2>7. ScoredOnce'
    <3>1. SUFFICES ASSUME "crash" \notin faults', NEW q \in Rounds, scored'[q] > 0
          PROVE  q < current' \/ \E b \in Actors : pc'[b] = "commit" /\ round'[b] = q
      BY DEF ScoredOnce
    <3>2. CASE q = round[a] BY <1>3, <3>2
    <3>3. CASE q # round[a]
      BY <1>2, <1>4, <1>5, <2>1, <2>2, <3>1, <3>3 DEF Followed, ScoredOnce, cache
    <3>4. QED BY <3>2, <3>3
  <2>8. AnswersIn'
    <3>1. SUFFICES ASSUME "lapse" \notin faults
          PROVE  /\ \A b \in Actors : HasAnswers(b)'
                 /\ \A q \in Rounds : q < current => answers[q] \subseteq counted'[q]
      BY <1>4 DEF AnswersIn, cache
    <3>2. seen[a] = answers[round[a]] BY <1>2, <2>1, <3>1 DEF Followed, AnswersIn, HasAnswers
    <3>3. HasAnswers(a)' BY <1>3, <1>4, <1>6, <3>2 DEF HasAnswers
    <3>4. ASSUME NEW b \in Actors \ {a} PROVE HasAnswers(b)'
      <4>1. HasAnswers(b) BY <2>1, <3>1 DEF Followed, AnswersIn
      <4>2. pc[b] # "commit" BY <1>1, <1>2, <3>1, OneCritical DEF Critical
      <4>3. QED BY <1>4, <2>2, <4>1, <4>2 DEF HasAnswers, cache
    <3>5. ASSUME NEW q \in Rounds, q < current PROVE answers[q] \subseteq counted'[q]
      <4>1. q # round[a] BY <2>3, <3>5, RoundsAreIndexes
      <4>2. answers[q] \subseteq counted[q] BY <2>1, <3>1, <3>5 DEF Followed, AnswersIn
      <4>3. QED BY <1>6, <4>1, <4>2
    <3>6. QED BY <3>3, <3>4, <3>5
  <2>9. Followed' BY <2>5, <2>6, <2>7, <2>8 DEF Followed
  <2>10. QED BY <1>4, <1>7, <1>9, <1>11, <2>9 DEF RoundsInv
<1>12. QED BY <1>10, <1>11

\* The round is committed: the match moves on.
LEMMA CommitKeeps ==
    ASSUME RoundsInv, NEW a \in Actors, CommitRound(a)
    PROVE  RoundsInv'
<1>1. TypeOK /\ Placed BY DEF RoundsInv
<1>2. /\ pc[a] = "commit" /\ Critical(a) /\ round[a] \in Rounds /\ fence[round[a]] = a
      /\ "lapse" \notin faults => lock = a
  BY <1>1 DEF CommitRound, At, Critical, Placed, ActorRight, InRound, Fenced
<1>3. Moved /\ Only({a}) /\ pc'[a] = "committed" /\ round' = round
  BY <1>1, GotoMoves DEF CommitRound, Stages
<1>4. UNCHANGED <<answers, timer, pause, keys, leaseLost, waits, booting, ended,
                  scored, counted, published, faults>>
  BY DEF CommitRound
<1>5. /\ current' = round[a] + 1 /\ asked' = FALSE /\ expired' = FALSE
      /\ completed' = (round[a] + 1 = RoundCount)
      /\ rewound' = (rewound \/ round[a] + 1 < current)
  BY DEF CommitRound, Overwrite
<1>6. current' \in Indexes BY <1>2, <1>5, RoundsAreIndexes
<1>7. TypeOK' BY <1>1, <1>3, <1>4, <1>5, <1>6 DEF TypeOK, Moved, keys
<1>8. ActorRight(a)' BY <1>2, <1>3, <1>4 DEF ActorRight, keys, InRound, Fenced, Sending
<1>9. SharedRight' BY <1>1, <1>4, <1>5 DEF Placed, SharedRight
<1>10. Placed'
  <2>1. {a} \in SUBSET Actors /\ faults \subseteq faults' BY <1>4
  <2>2. QED BY <1>1, <1>3, <1>4, <1>8, <1>9, <2>1, PlacedStep DEF keys
<1>11. CASE rewound BY <1>4, <1>5, <1>7, <1>10, <1>11 DEF RoundsInv
<1>12. CASE ~rewound
  <2>1. Followed BY <1>12 DEF RoundsInv
  <2>2. \A b \in Actors \ {a} :
          pc'[b] = pc[b] /\ round'[b] = round[b] /\ seen'[b] = seen[b]
    BY <1>3 DEF Only
  <2>3. current = round[a] /\ asked /\ current \in Nat /\ current' = current + 1
    BY <1>2, <1>5, <2>1, RoundsAreIndexes DEF Followed, InStep
  <2>4. ~rewound'
    <3>1. ~(round[a] + 1 < current) BY <2>3
    <3>2. QED BY <1>5, <1>12, <3>1
  <2>5. \A b \in Actors \ {a} : pc[b] \notin {"check", "early", "commit"}
    <3>1. SUFFICES ASSUME NEW b \in Actors, pc[b] \in {"check", "early", "commit"}
          PROVE  b = a
      OBVIOUS
    <3>2. round[b] = round[a] BY <2>1, <2>3, <3>1 DEF Followed, InStep
    <3>3. QED BY <1>1, <1>2, <3>1, <3>2, OneFenced DEF Fenced
  <2>6. \A b \in Actors : pc[b] # "publish" BY <2>1, <2>3 DEF Followed, InStep
  <2>7. ASSUME NEW q \in Nat PROVE Reached(q) => q < current'
    BY <2>3 DEF Reached
  <2>8. ASSUME NEW b \in Actors PROVE InStep(b)'
    <3>1. CASE b = a BY <1>3, <3>1 DEF InStep, Sending
    <3>2. CASE b # a
      <4>1. InStep(b) /\ round[b] \in Nat
        BY <1>1, <2>1, RoundsAreIndexes DEF Followed, TypeOK
      <4>2. pc'[b] \in {"arm", "rewrite"} => Reached(round[b])'
        BY <2>2, <2>7, <3>2, <4>1 DEF InStep, Reached
      <4>3. pc'[b] \in Sending => /\ published'[round'[b]] = 0
                                  /\ \A c \in Actors : pc'[c] \in Sending /\ round'[c] = round'[b] => c = b
        BY <1>3, <1>4, <2>2, <3>2, <4>1 DEF InStep, Sending
      <4>4. pc'[b] \notin {"check", "early", "commit", "publish"} BY <2>2, <2>5, <2>6, <3>2
      <4>5. QED BY <4>2, <4>3, <4>4 DEF InStep
    <3>3. QED BY <3>1, <3>2
  <2>9. AskedOnce'
    <3>1. \A q \in Rounds : ~Reached(q)' => ~Reached(q)
      BY <2>7, RoundsAreIndexes DEF Reached
    <3>2. QED BY <1>4, <2>1, <3>1 DEF Followed, AskedOnce
  <2>10. ScoredOnce'
    <3>1. SUFFICES ASSUME "crash" \notin faults, NEW q \in Rounds, scored[q] > 0
          PROVE  q < current'
      BY <1>4 DEF ScoredOnce
    <3>2. q < current \/ \E b \in Actors : pc[b] = "commit" /\ round[b] = q
      BY <2>1, <3>1 DEF Followed, ScoredOnce
    <3>3. q < current \/ q = current BY <2>3, <2>5, <3>2
    <3>4. QED BY <2>3, <3>3, RoundsAreIndexes
  <2>11. AnswersIn'
    <3>1. SUFFICES ASSUME "lapse" \notin faults
          PROVE  /\ \A b \in Actors : HasAnswers(b)'
                 /\ \A q \in Rounds : q < current' => answers[q] \subseteq counted[q]
      BY <1>4 DEF AnswersIn
    <3>2. HasAnswers(a) BY <2>1, <3>1 DEF Followed, AnswersIn
    <3>3. ASSUME NEW b \in Actors PROVE HasAnswers(b)'
      <4>1. b # a => pc[b] # "answered" BY <1>1, <1>2, <3>1, OneCritical DEF Critical
      <4>2. pc'[b] \notin {"answered", "check", "early", "commit"} BY <1>3, <2>2, <2>5, <4>1
      <4>3. QED BY <4>2 DEF HasAnswers
    <3>4. ASSUME NEW q \in Rounds, q < current' PROVE answers[q] \subseteq counted[q]
      <4>1. q < current \/ q = round[a] BY <2>3, <3>4, RoundsAreIndexes
      <4>2. CASE q < current BY <2>1, <3>1, <4>2 DEF Followed, AnswersIn
      <4>3. CASE q = round[a] BY <1>2, <3>2, <4>3 DEF HasAnswers
      <4>4. QED BY <4>1, <4>2, <4>3
    <3>5. QED BY <3>3, <3>4
  <2>12. Followed' BY <2>8, <2>9, <2>10, <2>11 DEF Followed
  <2>13. QED BY <1>7, <1>10, <2>4, <2>12 DEF RoundsInv
<1>13. QED BY <1>11, <1>12

\* The fence is released and the next question scheduled.
LEMMA ReleaseFenceKeeps ==
    ASSUME RoundsInv, NEW a \in Actors, ReleaseFence(a)
    PROVE  RoundsInv'
<1>1. TypeOK /\ Placed BY DEF RoundsInv
<1>2. pc[a] = "committed" /\ Critical(a) /\ round[a] \in Rounds
  BY <1>1 DEF ReleaseFence, At, Critical, Placed, ActorRight, InRound, Fenced
<1>3. round[a] + 1 \in Indexes /\ (round[a] + 1 # RoundCount => round[a] + 1 \in Rounds)
      /\ round[a] \in Indexes
  BY <1>2, RoundsAreIndexes
<1>4. {"complete", "leaveConcluded"} \subseteq Stages BY DEF Stages
<1>5. Moved /\ Only({a}) /\ pc'[a] \in {"complete", "leaveConcluded"}
  BY <1>1, <1>4, GotoMoves DEF ReleaseFence
<1>6. timer' \in [Indexes -> {"none", "soon", "deadline"}]
  BY <1>1, <1>3, TimerSet DEF ReleaseFence, ScheduleNext
<1>7. waits' \in [Replicas -> SUBSET Rounds]
  BY <1>1, <1>3, ActorsAssumption DEF ReleaseFence, ScheduleNext, TypeOK
<1>8. /\ fence' \in [Indexes -> Holders]
      /\ \A b \in Actors \ {a}, q \in Indexes : fence[q] = b => fence'[q] = b
  BY <1>1, <1>3, UnfenceSets DEF ReleaseFence
<1>9. UNCHANGED <<cache, answers, pause, lock, sent, leaseLost, booting, ended, ghosts, faults>>
  BY DEF ReleaseFence
<1>10. TypeOK' BY <1>1, <1>5, <1>6, <1>7, <1>8, <1>9 DEF TypeOK, Moved, cache, ghosts
<1>11. ActorRight(a)' BY <1>1, <1>2, <1>5, <1>9, LockIsEnough
<1>12. Placed' BY <1>1, <1>5, <1>8, <1>9, <1>11, OwnStep DEF cache
<1>13. Quiet({a}) BY <1>2, <1>5, <1>9 DEF Quiet, Special, cache, ghosts
<1>14. QED BY <1>10, <1>12, <1>13, QuietStep

\* The match is completed, or its completion is busy.
LEMMA CompleteKeeps ==
    ASSUME RoundsInv, NEW a \in Actors, Complete(a) \/ CompletionBusy(a)
    PROVE  RoundsInv'
<1>1. TypeOK /\ Placed BY DEF RoundsInv
<1>2. pc[a] \in {"complete", "recover"} /\ Critical(a)
  BY DEF Complete, CompletionBusy, At, Critical
<1>3. {"leaveConcluded", "leaveRearm"} \subseteq Stages BY DEF Stages
<1>4. Moved /\ Only({a}) /\ pc'[a] \in {"leaveConcluded", "leaveRearm"}
  BY <1>1, <1>3, GotoMoves DEF Complete, CompletionBusy
<1>5. timer' \in [Indexes -> {"none", "soon", "deadline"}]
  BY <1>1, TimerSet DEF Complete, CompletionBusy, TypeOK
<1>6. ended' \in BOOLEAN BY <1>1 DEF Complete, CompletionBusy, TypeOK
<1>7. UNCHANGED <<cache, answers, pause, keys, leaseLost, waits, booting, ghosts, faults>>
  BY DEF Complete, CompletionBusy
<1>8. TypeOK' BY <1>1, <1>4, <1>5, <1>6, <1>7 DEF TypeOK, Moved, cache, keys, ghosts
<1>9. ActorRight(a)' BY <1>1, <1>2, <1>4, <1>7, LockIsEnough DEF keys
<1>10. Placed' BY <1>1, <1>4, <1>7, <1>9, OwnStep DEF cache, keys
<1>11. Quiet({a}) BY <1>2, <1>4, <1>7 DEF Quiet, Special, cache, keys, ghosts
<1>12. QED BY <1>8, <1>10, <1>11, QuietStep

\* The resolver leaves: fence, lock and timers.
LEMMA DepartKeeps ==
    ASSUME RoundsInv, NEW a \in Actors, Depart(a)
    PROVE  RoundsInv'
<1>1. TypeOK /\ Placed BY DEF RoundsInv
<1>2. pc[a] \in {"leave", "leaveConcluded", "leaveRearm", "clear", "rearm"} /\ round[a] \in Indexes
  BY <1>1 DEF Depart, Leave, ClearTimer, DeferTimer, At, TypeOK
<1>3. {"clear", "rearm"} \subseteq Stages BY DEF Stages
<1>4. Return(a) \/ \E s \in {"clear", "rearm"} : Goto(a, s)
  BY DEF Depart, Leave, ClearTimer, DeferTimer, At
<1>5. Moved /\ Only({a}) /\ pc'[a] \in {"idle", "clear", "rearm"}
  BY <1>1, <1>3, <1>4, GotoMoves, ReturnMoves
<1>6. timer' \in [Indexes -> {"none", "soon", "deadline"}]
  BY <1>1, <1>2, TimerSet DEF Depart, Leave, ClearTimer, DeferTimer
<1>7. /\ fence' \in [Indexes -> Holders]
      /\ \A b \in Actors \ {a}, q \in Indexes : fence[q] = b => fence'[q] = b
  BY <1>1, <1>2, UnfenceSets DEF Depart, Leave, ClearTimer, DeferTimer, keys, TypeOK
<1>8. /\ lock' \in Holders /\ leaseLost' \in [Actors -> BOOLEAN]
      /\ \A b \in Actors \ {a} : lock = b => lock' = b
  BY <1>1, ReleaseSets DEF Depart, Leave, ClearTimer, DeferTimer, keys, TypeOK
<1>9. UNCHANGED <<cache, answers, pause, sent, waits, booting, ended, ghosts, faults>>
  BY DEF Depart, Leave, ClearTimer, DeferTimer, keys
<1>10. TypeOK' BY <1>1, <1>5, <1>6, <1>7, <1>8, <1>9 DEF TypeOK, Moved, cache, ghosts
<1>11. ActorRight(a)' BY <1>1, <1>5, NothingNeeded
<1>12. Placed' BY <1>1, <1>5, <1>7, <1>8, <1>9, <1>11, OwnStep DEF cache
<1>13. Quiet({a}) BY <1>2, <1>5, <1>9 DEF Quiet, Special, cache, ghosts
<1>14. QED BY <1>10, <1>12, <1>13, QuietStep

\* Every step of a resolver keeps the invariant.
LEMMA ResolveKeeps ==
    ASSUME RoundsInv, NEW a \in Actors, Resolve(a)
    PROVE  RoundsInv'
<1>1. CASE Enter(a) BY <1>1, LockKeeps, FenceKeeps DEF Enter
<1>2. CASE Decide(a) BY <1>2, HoldBackKeeps, ApplyKeeps DEF Decide
<1>3. CASE Conclude(a) BY <1>3, CommitKeeps, ReleaseFenceKeeps, CompleteKeeps DEF Conclude
<1>4. CASE Depart(a) BY <1>4, DepartKeeps
<1>5. QED BY <1>1, <1>2, <1>3, <1>4 DEF Resolve

-----------------------------------------------------------------------------
(* The dispatch *)

\* A sender picks its question, or finds nothing to send.
LEMMA PickKeeps ==
    ASSUME RoundsInv, NEW a \in Actors, PickQuestion(a)
    PROVE  RoundsInv'
<1>1. TypeOK /\ Placed BY DEF RoundsInv
<1>2. /\ pc[a] = "pick" /\ round[a] \in Rounds
      /\ fromTimeout[a] => Critical(a) /\ ("lapse" \notin faults => lock = a)
  BY <1>1 DEF PickQuestion, At, Critical, Placed, ActorRight, InRound
<1>3. "mark" \in Stages BY DEF Stages
<1>4. UNCHANGED <<cache, answers, timer, pause, keys, leaseLost, waits, booting, ended, ghosts, faults>>
  BY DEF PickQuestion
<1>5. CASE SendNothing(a)
  <2>1. /\ Moved /\ Only({a})
        /\ \/ pc'[a] = "idle"
           \/ pc'[a] \in {"leaveConcluded", "leaveRearm"} /\ fromTimeout[a]
    BY <1>1, <1>5, SendNothingMoves
  <2>2. TypeOK' BY <1>1, <1>4, <2>1 DEF TypeOK, Moved, cache, keys, ghosts
  <2>3. ActorRight(a)' BY <1>1, <1>2, <1>4, <2>1, NothingNeeded, LockIsEnough DEF keys
  <2>4. Placed' BY <1>1, <1>4, <2>1, <2>3, OwnStep DEF cache, keys
  <2>5. Quiet({a}) BY <1>2, <1>4, <2>1 DEF Quiet, Special, cache, keys, ghosts
  <2>6. QED BY <2>2, <2>4, <2>5, QuietStep
<1>6. CASE Goto(a, "mark")
  <2>1. Moved /\ Only({a}) /\ pc'[a] = "mark" /\ round' = round /\ fromTimeout' = fromTimeout
    BY <1>1, <1>3, <1>6, GotoMoves
  <2>2. TypeOK' BY <1>1, <1>4, <2>1 DEF TypeOK, Moved, cache, keys, ghosts
  <2>3. ActorRight(a)' BY <1>2, <1>4, <2>1 DEF ActorRight, Critical, Fenced, keys
  <2>4. Placed' BY <1>1, <1>4, <2>1, <2>3, OwnStep DEF cache, keys
  <2>5. Quiet({a}) BY <1>2, <1>4, <2>1 DEF Quiet, Special, cache, keys, ghosts
  <2>6. QED BY <2>2, <2>4, <2>5, QuietStep
<1>7. QED BY <1>5, <1>6 DEF PickQuestion

\* A sender marks its question, and is the only one that may publish it.
LEMMA MarkKeeps ==
    ASSUME RoundsInv, NEW a \in Actors, MarkSent(a)
    PROVE  RoundsInv'
<1>1. TypeOK /\ Placed BY DEF RoundsInv
<1>2. /\ pc[a] = "mark" /\ round[a] \in Rounds /\ round[a] \in Indexes /\ round[a] \in Nat
      /\ fromTimeout[a] => Critical(a) /\ ("lapse" \notin faults => lock = a)
  BY <1>1, RoundsAreIndexes DEF MarkSent, At, Critical, Placed, ActorRight, InRound
<1>3. "publish" \in Stages BY DEF Stages
<1>4. UNCHANGED <<cache, answers, timer, pause, lock, fence, leaseLost, waits, booting, ended,
                  ghosts, faults>> /\ sent' = sent \cup {round[a]}
  BY DEF MarkSent
<1>5. CASE SendNothing(a)
  <2>1. /\ Moved /\ Only({a})
        /\ \/ pc'[a] = "idle"
           \/ pc'[a] \in {"leaveConcluded", "leaveRearm"} /\ fromTimeout[a]
    BY <1>1, <1>5, SendNothingMoves
  <2>2. TypeOK' BY <1>1, <1>2, <1>4, <2>1 DEF TypeOK, Moved, cache, ghosts
  <2>3. ActorRight(a)' BY <1>1, <1>2, <1>4, <2>1, NothingNeeded, LockIsEnough
  <2>4. Placed' BY <1>1, <1>4, <2>1, <2>3, OwnStep DEF cache
  <2>5. Quiet({a}) BY <1>2, <1>4, <2>1 DEF Quiet, Special, cache, ghosts
  <2>6. QED BY <2>2, <2>4, <2>5, QuietStep
<1>6. CASE Goto(a, "publish") /\ round[a] \notin sent /\ ~MovedOn(a)
  <2>1. Moved /\ Only({a}) /\ pc'[a] = "publish" /\ round' = round /\ fromTimeout' = fromTimeout
    BY <1>1, <1>3, <1>6, GotoMoves
  <2>2. TypeOK' BY <1>1, <1>2, <1>4, <2>1 DEF TypeOK, Moved, cache, ghosts
  <2>3. ActorRight(a)' BY <1>2, <1>4, <2>1 DEF ActorRight, Critical, Fenced
  <2>4. Placed' BY <1>1, <1>4, <2>1, <2>3, OwnStep DEF cache
  <2>5. CASE rewound BY <1>4, <2>2, <2>4, <2>5 DEF RoundsInv, ghosts
  <2>6. CASE ~rewound
    <3>1. Followed BY <2>6 DEF RoundsInv
    <3>2. \A b \in Actors \ {a} :
            pc'[b] = pc[b] /\ round'[b] = round[b] /\ seen'[b] = seen[b]
      BY <2>1 DEF Only
    <3>3. current = round[a] /\ ~asked BY <1>6 DEF MovedOn
    <3>4. \A b \in Actors \ {a} : pc[b] \in Sending => round[b] # round[a]
      <4>1. SUFFICES ASSUME NEW b \in Actors, pc[b] \in Sending, round[b] = round[a]
            PROVE  FALSE
        OBVIOUS
      <4>2. pc[b] # "publish" BY <1>6, <3>1, <4>1 DEF Followed, InStep
      <4>3. ~Reached(round[b]) BY <1>2, <3>3, <4>1 DEF Reached
      <4>4. pc[b] # "arm" BY <3>1, <4>3 DEF Followed, InStep
      <4>5. QED BY <4>1, <4>2, <4>4 DEF Sending
    <3>5. published[round[a]] = 0
      BY <1>2, <3>1, <3>3 DEF Followed, AskedOnce, Reached
    <3>6. ASSUME NEW b \in Actors PROVE InStep(b)'
      <4>1. CASE b = a
        BY <1>4, <2>1, <3>2, <3>3, <3>4, <3>5, <4>1 DEF InStep, cache, ghosts
      <4>2. CASE b # a
        <5>1. InStep(b) BY <3>1 DEF Followed
        <5>2. pc'[b] \in Sending =>
                \A c \in Actors : pc'[c] \in Sending /\ round'[c] = round'[b] => c = b
          BY <2>1, <3>2, <3>4, <4>2, <5>1 DEF InStep
        <5>3. QED BY <1>4, <3>2, <4>2, <5>1, <5>2 DEF InStep, Reached, cache, ghosts
      <4>3. QED BY <4>1, <4>2
    <3>7. AskedOnce' BY <1>4, <3>1 DEF Followed, AskedOnce, Reached, cache, ghosts
    <3>8. ScoredOnce' BY <1>2, <1>4, <3>1, <3>2 DEF Followed, ScoredOnce, cache, ghosts
    <3>9. AnswersIn'
      <4>1. \A b \in Actors : "lapse" \notin faults => HasAnswers(b)'
        BY <1>4, <2>1, <3>1, <3>2 DEF Followed, AnswersIn, HasAnswers, cache, ghosts
      <4>2. QED BY <1>4, <3>1, <4>1 DEF Followed, AnswersIn, cache, ghosts
    <3>10. Followed' BY <3>6, <3>7, <3>8, <3>9 DEF Followed
    <3>11. QED BY <1>4, <2>2, <2>4, <2>6, <3>10 DEF RoundsInv, ghosts
  <2>7. QED BY <2>5, <2>6
<1>7. QED BY <1>5, <1>6 DEF MarkSent

\* A sender writes its question into the cache.
LEMMA PublishKeeps ==
    ASSUME RoundsInv, NEW a \in Actors, PublishQuestion(a)
    PROVE  RoundsInv'
<1>1. TypeOK /\ Placed BY DEF RoundsInv
<1>2. /\ pc[a] = "publish" /\ round[a] \in Rounds /\ round[a] \in Indexes /\ round[a] \in Nat
      /\ fromTimeout[a] => Critical(a) /\ ("lapse" \notin faults => lock = a)
  BY <1>1, RoundsAreIndexes
  DEF PublishQuestion, At, Critical, Placed, ActorRight, InRound, Sending
<1>3. /\ Moved /\ Only({a}) /\ pc'[a] = "arm" /\ round' = round /\ fromTimeout' = fromTimeout
  BY <1>1, GotoMoves DEF PublishQuestion, Stages
<1>4. UNCHANGED <<answers, timer, keys, leaseLost, waits, booting, ended, scored, counted,
                  published, faults>>
  BY DEF PublishQuestion
<1>5. /\ current' = round[a] /\ asked' = TRUE /\ completed' = FALSE /\ expired' = FALSE
      /\ rewound' = (rewound \/ round[a] < current)
      /\ pause' \in {pause, "inTime"} /\ (pause' # "off" => pause # "off")
  BY <1>1 DEF PublishQuestion, Overwrite, TypeOK
<1>6. TypeOK' BY <1>1, <1>2, <1>3, <1>4, <1>5 DEF TypeOK, Moved, keys
<1>7. ActorRight(a)' BY <1>2, <1>3, <1>4 DEF ActorRight, Critical, Fenced, keys
<1>8. round[a] # RoundCount BY <1>2, BoundsAssumption DEF Rounds
<1>9. SharedRight' BY <1>1, <1>4, <1>5, <1>8 DEF Placed, SharedRight
<1>10. Placed'
  <2>1. {a} \in SUBSET Actors /\ faults \subseteq faults' BY <1>4
  <2>2. QED BY <1>1, <1>3, <1>4, <1>7, <1>9, <2>1, PlacedStep DEF keys
<1>11. CASE rewound BY <1>4, <1>5, <1>6, <1>10, <1>11 DEF RoundsInv
<1>12. CASE ~rewound
  <2>1. Followed BY <1>12 DEF RoundsInv
  <2>2. \A b \in Actors \ {a} :
          pc'[b] = pc[b] /\ round'[b] = round[b] /\ seen'[b] = seen[b]
    BY <1>3 DEF Only
  <2>3. current = round[a] /\ ~asked /\ current' = current
    BY <1>2, <1>5, <2>1 DEF Followed, InStep
  <2>4. ~rewound'
    <3>1. ~(round[a] < current) BY <1>2, <2>3
    <3>2. QED BY <1>5, <1>12, <3>1
  <2>5. \A b \in Actors \ {a} : pc[b] # "publish"
    <3>1. SUFFICES ASSUME NEW b \in Actors, pc[b] = "publish" PROVE b = a OBVIOUS
    <3>2. round[b] = round[a] BY <2>1, <2>3, <3>1 DEF Followed, InStep
    <3>3. QED BY <1>2, <2>1, <3>1, <3>2 DEF Followed, InStep, Sending
  <2>6. \A q : Reached(q) => Reached(q)' BY <1>5, <2>3 DEF Reached
  <2>7. ASSUME NEW b \in Actors PROVE InStep(b)'
    <3>1. InStep(b) BY <2>1 DEF Followed
    <3>2. pc'[b] \in Sending =>
            /\ published'[round'[b]] = 0
            /\ \A c \in Actors : pc'[c] \in Sending /\ round'[c] = round'[b] => c = b
      BY <1>2, <1>3, <1>4, <2>1, <2>2, <3>1 DEF Followed, InStep, Sending
    <3>3. pc'[b] \in {"check", "early", "commit"} => current' = round'[b] /\ asked'
      BY <1>3, <1>5, <2>2, <2>3, <3>1 DEF InStep
    <3>4. pc'[b] # "publish" BY <1>3, <2>2, <2>5
    <3>5. pc'[b] \in {"arm", "rewrite"} => Reached(round[b])'
      BY <1>3, <1>5, <2>2, <2>6, <3>1 DEF InStep, Reached
    <3>6. pc'[b] \in {"arm", "rewrite"} => (Reached(round[b]))' /\ round'[b] = round[b]
      BY <1>3, <3>5
    <3>7. pc'[b] = "commit" => scored'[round'[b]] > 0
      BY <1>3, <1>4, <2>2, <3>1 DEF InStep
    <3>8. QED BY <3>2, <3>3, <3>4, <3>6, <3>7 DEF InStep, Reached
  <2>8. AskedOnce' BY <1>4, <2>1, <2>6 DEF Followed, AskedOnce
  <2>9. ScoredOnce' BY <1>2, <1>4, <2>1, <2>2, <2>3 DEF Followed, ScoredOnce
  <2>10. AnswersIn'
    <3>1. \A b \in Actors : "lapse" \notin faults => HasAnswers(b)'
      BY <1>3, <1>4, <2>1, <2>2, <2>3 DEF Followed, AnswersIn, HasAnswers
    <3>2. QED BY <1>4, <2>1, <2>3, <3>1 DEF Followed, AnswersIn
  <2>11. Followed' BY <2>7, <2>8, <2>9, <2>10 DEF Followed
  <2>12. QED BY <1>6, <1>10, <2>4, <2>11 DEF RoundsInv
<1>13. QED BY <1>11, <1>12

\* A sender arms the deadline and its question goes out.
LEMMA ArmKeeps ==
    ASSUME RoundsInv, NEW a \in Actors, ArmDeadline(a)
    PROVE  RoundsInv'
<1>1. TypeOK /\ Placed BY DEF RoundsInv
<1>2. /\ pc[a] = "arm" /\ round[a] \in Rounds /\ round[a] \in Indexes
      /\ fromTimeout[a] => Critical(a)
  BY <1>1, RoundsAreIndexes DEF ArmDeadline, At, Critical, Placed, ActorRight, InRound, Sending
<1>3. "leave" \in Stages BY DEF Stages
<1>4. /\ Moved /\ Only({a})
      /\ pc'[a] = "idle" \/ (pc'[a] = "leave" /\ fromTimeout[a])
  <2>1. CASE fromTimeout[a]
    <3>1. Goto(a, "leave") BY <2>1 DEF ArmDeadline
    <3>2. QED BY <1>1, <1>3, <2>1, <3>1, GotoMoves
  <2>2. CASE ~fromTimeout[a]
    <3>1. Return(a) BY <2>2 DEF ArmDeadline
    <3>2. QED BY <1>1, <3>1, ReturnMoves
  <2>3. QED BY <2>1, <2>2
<1>5. UNCHANGED <<cache, answers, pause, keys, leaseLost, waits, booting, ended, scored, counted,
                  rewound, faults>>
  BY DEF ArmDeadline
<1>6. timer' \in [Indexes -> {"none", "soon", "deadline"}]
  BY <1>1, <1>2, TimerSet DEF ArmDeadline
<1>7. /\ published' \in [Rounds -> 0..2] /\ (published[round[a]] = 0 => published'[round[a]] = 1)
      /\ \A q \in Rounds \ {round[a]} : published'[q] = published[q]
  <2>1. published' = [published EXCEPT ![round[a]] = Up(@)] BY DEF ArmDeadline
  <2>2. published \in [Rounds -> 0..2] BY <1>1 DEF TypeOK
  <2>3. /\ \A q \in Rounds \ {round[a]} : published'[q] = published[q]
        /\ published'[round[a]] = Up(published[round[a]])
    BY <1>2, <2>1, <2>2
  <2>4. published[round[a]] \in 0..2 BY <1>2, <2>2
  <2>5. Up(published[round[a]]) \in 0..2 /\ (published[round[a]] = 0 => Up(published[round[a]]) = 1)
    BY <2>4 DEF Up
  <2>6. published' \in [Rounds -> 0..2] BY <1>2, <2>1, <2>2, <2>5
  <2>7. QED BY <2>3, <2>5, <2>6
<1>8. TypeOK' BY <1>1, <1>4, <1>5, <1>6, <1>7 DEF TypeOK, Moved, cache, keys
<1>9. ActorRight(a)' BY <1>1, <1>2, <1>4, <1>5, NothingNeeded, LockIsEnough DEF keys
<1>10. Placed' BY <1>1, <1>4, <1>5, <1>9, OwnStep DEF cache, keys
<1>11. CASE rewound BY <1>5, <1>8, <1>10, <1>11 DEF RoundsInv
<1>12. CASE ~rewound
  <2>1. Followed BY <1>12 DEF RoundsInv
  <2>2. \A b \in Actors \ {a} :
          pc'[b] = pc[b] /\ round'[b] = round[b] /\ seen'[b] = seen[b]
    BY <1>4 DEF Only
  <2>3. /\ Reached(round[a]) /\ published[round[a]] = 0
        /\ \A c \in Actors \ {a} : pc[c] \in Sending => round[c] # round[a]
    BY <1>2, <2>1 DEF Followed, InStep, Sending
  <2>4. ASSUME NEW b \in Actors PROVE InStep(b)'
    <3>1. CASE b = a BY <1>4, <3>1 DEF InStep, Sending
    <3>2. CASE b # a
      <4>1. InStep(b) /\ (pc[b] \in Sending => round[b] \in Rounds \ {round[a]})
        BY <1>1, <2>1, <2>3, <3>2 DEF Followed, Placed, ActorRight, InRound
      <4>2. pc'[b] \in Sending =>
              /\ published'[round'[b]] = 0
              /\ \A c \in Actors : pc'[c] \in Sending /\ round'[c] = round'[b] => c = b
        BY <1>4, <1>7, <2>2, <3>2, <4>1 DEF InStep, Sending
      <4>3. QED BY <1>5, <2>2, <3>2, <4>1, <4>2 DEF InStep, Reached, cache, keys
    <3>3. QED BY <3>1, <3>2
  <2>5. AskedOnce'
    <3>1. SUFFICES ASSUME NEW q \in Rounds
          PROVE  published'[q] <= 1 /\ (~Reached(q) => published'[q] = 0)
      BY <1>5 DEF AskedOnce, Reached, cache
    <3>2. CASE q = round[a] BY <1>7, <2>3, <3>2
    <3>3. CASE q # round[a] BY <1>7, <2>1, <3>3 DEF Followed, AskedOnce
    <3>4. QED BY <3>2, <3>3
  <2>6. ScoredOnce' BY <1>2, <1>5, <2>1, <2>2 DEF Followed, ScoredOnce, cache
  <2>7. AnswersIn'
    <3>1. \A b \in Actors : "lapse" \notin faults => HasAnswers(b)'
      BY <1>4, <1>5, <2>1, <2>2 DEF Followed, AnswersIn, HasAnswers, cache
    <3>2. QED BY <1>5, <2>1, <3>1 DEF Followed, AnswersIn, cache
  <2>8. Followed' BY <2>4, <2>5, <2>6, <2>7 DEF Followed
  <2>9. QED BY <1>5, <1>8, <1>10, <1>12, <2>8 DEF RoundsInv
<1>13. QED BY <1>11, <1>12

\* A wait ends or a timer fires.
LEMMA CalledKeeps ==
    ASSUME RoundsInv,
           \/ \E h \in Handlers, q \in Indexes : Fire(h, q)
           \/ \E r \in Replicas : EndWait(r)
    PROVE  RoundsInv'
<1>1. TypeOK /\ Placed BY DEF RoundsInv
<1>2. {"resolve", "pick"} \subseteq Stages /\ {TRUE, FALSE} = BOOLEAN BY DEF Stages
<1>3. ASSUME NEW h \in Handlers, NEW q \in Indexes, Fire(h, q)
      PROVE  RoundsInv'
  <2>1. h \in Actors BY DEF Actors
  <2>2. Moved /\ Only({h}) /\ pc'[h] = "resolve"
    BY <1>1, <1>2, <1>3, <2>1, CallMoves DEF Fire
  <2>3. timer' \in [Indexes -> {"none", "soon", "deadline"}] BY <1>1, <1>3, TimerSet DEF Fire
  <2>4. UNCHANGED <<cache, answers, pause, keys, leaseLost, waits, booting, ended, ghosts, faults>>
    BY <1>3 DEF Fire
  <2>5. TypeOK' BY <1>1, <2>2, <2>3, <2>4 DEF TypeOK, Moved, cache, keys, ghosts
  <2>6. Placed' BY <1>1, <2>1, <2>2, <2>4, NothingNeeded, OwnStep DEF cache, keys
  <2>7. Quiet({h})
    BY <1>3, <2>2, <2>4 DEF Fire, At, Quiet, Special, cache, keys, ghosts
  <2>8. QED BY <2>1, <2>5, <2>6, <2>7, QuietStep
<1>4. ASSUME NEW r \in Replicas, EndWait(r)
      PROVE  RoundsInv'
  <2>1. r \in Actors BY DEF Actors, Others
  <2>2. PICK q \in waits[r] :
          /\ waits' = [waits EXCEPT ![r] = @ \ {q}]
          /\ Call(r, "pick", q, FALSE) \/ UNCHANGED control
    BY <1>4 DEF EndWait
  <2>3. q \in Rounds /\ q \in Indexes BY <1>1, RoundsAreIndexes DEF TypeOK
  <2>4. waits' \in [Replicas -> SUBSET Rounds] BY <1>1, <2>2 DEF TypeOK
  <2>5. /\ UNCHANGED <<cache, answers, timer, pause, keys, leaseLost, booting, ended, ghosts, faults>>
        /\ pc[r] = "idle"
    BY <1>4 DEF EndWait, At
  <2>6. /\ Moved /\ Only({r})
        /\ \/ pc'[r] = "idle"
           \/ pc'[r] = "pick" /\ round'[r] \in Rounds /\ ~fromTimeout'[r]
    <3>1. CASE Call(r, "pick", q, FALSE)
      BY <1>1, <1>2, <2>1, <2>3, <3>1, CallMoves
    <3>2. CASE UNCHANGED control
      BY <1>1, <2>5, <3>2 DEF control, Moved, Only, TypeOK
    <3>3. QED BY <2>2, <3>1, <3>2
  <2>7. TypeOK' BY <1>1, <2>4, <2>5, <2>6 DEF TypeOK, Moved, cache, keys, ghosts
  <2>8. ActorRight(r)'
    <3>1. CASE pc'[r] = "idle" BY <1>1, <2>1, <3>1, NothingNeeded
    <3>2. CASE pc'[r] # "idle" BY <2>6, <3>2 DEF ActorRight, Critical, Fenced
    <3>3. QED BY <3>1, <3>2
  <2>9. Placed' BY <1>1, <2>1, <2>5, <2>6, <2>8, OwnStep DEF cache, keys
  <2>10. Quiet({r}) BY <2>5, <2>6 DEF Quiet, Special, cache, keys, ghosts
  <2>11. QED BY <2>1, <2>7, <2>9, <2>10, QuietStep
<1>5. QED BY <1>3, <1>4

-----------------------------------------------------------------------------
(* The answers *)

\* A player's answer gets the round lock.
LEMMA SubmitKeeps ==
    ASSUME RoundsInv, NEW p \in Players, SubmitAnswer(p)
    PROVE  RoundsInv'
<1>1. TypeOK /\ Placed BY DEF RoundsInv
<1>2. p \in Actors BY DEF Actors, Others
<1>3. current \in Rounds
  BY <1>1, RoundsAreIndexes DEF SubmitAnswer, TypeOK, Placed, SharedRight
<1>4. "answered" \in Stages /\ current \in Indexes /\ answers[current] \in SUBSET Players
  BY <1>1, <1>3 DEF Stages, TypeOK
<1>5. /\ Moved /\ Only({p}) /\ pc'[p] = "answered" /\ round'[p] = current /\ pc[p] = "idle"
  BY <1>1, <1>2, <1>4 DEF SubmitAnswer, At, Moved, Only, TypeOK
<1>6. /\ UNCHANGED <<cache, answers, timer, pause, fence, sent, leaseLost, waits, booting, ended,
                     ghosts, faults>>
      /\ lock = Free /\ lock' = p
  BY DEF SubmitAnswer
<1>7. TypeOK' BY <1>1, <1>2, <1>5, <1>6 DEF TypeOK, Moved, Holders, cache, ghosts
<1>8. ActorRight(p)' BY <1>3, <1>5, <1>6 DEF ActorRight, Fenced
<1>9. Placed' BY <1>1, <1>2, <1>5, <1>6, <1>8, OwnStep, ActorsAssumption DEF cache
<1>10. CASE rewound BY <1>6, <1>7, <1>9, <1>10 DEF RoundsInv, ghosts
<1>11. CASE ~rewound
  <2>1. Followed BY <1>11 DEF RoundsInv
  <2>2. \A b \in Actors \ {p} :
          pc'[b] = pc[b] /\ round'[b] = round[b] /\ seen'[b] = seen[b]
    BY <1>5 DEF Only
  <2>3. ASSUME NEW b \in Actors PROVE InStep(b)'
    <3>1. CASE b = p BY <1>5, <3>1 DEF InStep, Sending
    <3>2. CASE b # p
      BY <1>5, <1>6, <2>1, <2>2, <3>2 DEF Followed, InStep, Sending, Reached, cache, ghosts
    <3>3. QED BY <3>1, <3>2
  <2>4. AskedOnce' BY <1>6, <2>1 DEF Followed, AskedOnce, Reached, cache, ghosts
  <2>5. ScoredOnce' BY <1>5, <1>6, <2>1, <2>2 DEF Followed, ScoredOnce, cache, ghosts
  <2>6. AnswersIn'
    <3>1. \A b \in Actors : "lapse" \notin faults => HasAnswers(b)'
      BY <1>5, <1>6, <2>1, <2>2 DEF Followed, AnswersIn, HasAnswers, cache, ghosts
    <3>2. QED BY <1>6, <2>1, <3>1 DEF Followed, AnswersIn, cache, ghosts
  <2>7. Followed' BY <2>3, <2>4, <2>5, <2>6 DEF Followed
  <2>8. QED BY <1>6, <1>7, <1>9, <1>11, <2>7 DEF RoundsInv, ghosts
<1>12. QED BY <1>10, <1>11

\* The answer is written, or dropped when the lease is gone.
LEMMA AnswerKeeps ==
    ASSUME RoundsInv, NEW p \in Players, Answer(p)
    PROVE  RoundsInv'
<1>1. TypeOK /\ Placed BY DEF RoundsInv
<1>2. p \in Actors BY DEF Actors, Others
<1>3. pc[p] = "answered" /\ Critical(p) /\ round[p] \in Rounds /\ round[p] \in Indexes
  BY <1>1, <1>2, RoundsAreIndexes
  DEF Answer, CommitAnswer, DropAnswer, At, Critical, Placed, ActorRight, InRound
<1>4. "resolve" \in Stages /\ FALSE \in BOOLEAN BY DEF Stages
<1>5. Moved /\ Only({p}) /\ pc'[p] \in {"idle", "resolve"}
  <2>1. Return(p) \/ Call(p, "resolve", round[p], FALSE)
    BY DEF Answer, CommitAnswer, DropAnswer
  <2>2. CASE Return(p) BY <1>1, <1>2, <2>2, ReturnMoves
  <2>3. CASE Call(p, "resolve", round[p], FALSE) BY <1>1, <1>2, <1>3, <1>4, <2>3, CallMoves
  <2>4. QED BY <2>1, <2>2, <2>3
<1>6. UNCHANGED <<cache, timer, pause, fence, sent, waits, booting, ended, ghosts, faults>>
  BY DEF Answer, CommitAnswer, DropAnswer
<1>7. /\ lock' \in Holders /\ leaseLost' \in [Actors -> BOOLEAN]
      /\ \A b \in Actors \ {p} : lock = b => lock' = b
  BY <1>1, <1>2, ReleaseSets DEF Answer, CommitAnswer, DropAnswer
<1>8. /\ answers' \in [Rounds -> SUBSET Players]
      /\ \A q \in Rounds \ {round[p]} : answers'[q] = answers[q]
  <2>1. answers \in [Rounds -> SUBSET Players] BY <1>1 DEF TypeOK
  <2>2. answers' = answers \/ answers' = [answers EXCEPT ![round[p]] = @ \cup {p}]
    BY DEF Answer, CommitAnswer, DropAnswer
  <2>3. QED BY <1>3, <2>1, <2>2
<1>9. TypeOK' BY <1>1, <1>5, <1>6, <1>7, <1>8 DEF TypeOK, Moved, cache, ghosts
<1>10. Placed' BY <1>1, <1>2, <1>5, <1>6, <1>7, NothingNeeded, OwnStep DEF cache
<1>11. CASE rewound BY <1>6, <1>9, <1>10, <1>11 DEF RoundsInv, ghosts
<1>12. CASE ~rewound
  <2>1. Followed BY <1>12 DEF RoundsInv
  <2>2. \A b \in Actors \ {p} :
          pc'[b] = pc[b] /\ round'[b] = round[b] /\ seen'[b] = seen[b]
    BY <1>5 DEF Only
  <2>3. ASSUME NEW b \in Actors PROVE InStep(b)'
    <3>1. CASE b = p BY <1>5, <3>1 DEF InStep, Sending
    <3>2. CASE b # p
      BY <1>5, <1>6, <2>1, <2>2, <3>2 DEF Followed, InStep, Sending, Reached, cache, ghosts
    <3>3. QED BY <3>1, <3>2
  <2>4. AskedOnce' BY <1>6, <2>1 DEF Followed, AskedOnce, Reached, cache, ghosts
  <2>5. ScoredOnce' BY <1>3, <1>6, <2>1, <2>2 DEF Followed, ScoredOnce, cache, ghosts
  <2>6. AnswersIn'
    <3>1. SUFFICES ASSUME "lapse" \notin faults
          PROVE  /\ \A b \in Actors : HasAnswers(b)'
                 /\ \A q \in Rounds : q < current => answers'[q] \subseteq counted[q]
      BY <1>6 DEF AnswersIn, cache, ghosts
    <3>2. ASSUME NEW b \in Actors PROVE HasAnswers(b)'
      <4>1. pc'[b] \notin {"answered", "check", "early", "commit"}
        <5>1. CASE b = p BY <1>5, <5>1
        <5>2. CASE b # p
          <6>1. ~Critical(b) BY <1>1, <1>2, <1>3, <3>1, <5>2, OneCritical
          <6>2. QED BY <2>2, <5>2, <6>1 DEF Critical
        <5>3. QED BY <5>1, <5>2
      <4>2. QED BY <4>1 DEF HasAnswers
    <3>3. ASSUME NEW q \in Rounds, q < current PROVE answers'[q] \subseteq counted[q]
      <4>1. round[p] = current BY <1>2, <1>3, <2>1, <3>1 DEF Followed, AnswersIn, HasAnswers
      <4>2. q \in Nat BY RoundsAreIndexes
      <4>3. q # round[p] BY <3>3, <4>1, <4>2
      <4>4. QED BY <1>8, <2>1, <3>1, <3>3, <4>3 DEF Followed, AnswersIn
    <3>4. QED BY <3>2, <3>3
  <2>7. Followed' BY <2>3, <2>4, <2>5, <2>6 DEF Followed
  <2>8. QED BY <1>6, <1>9, <1>10, <1>12, <2>7 DEF RoundsInv, ghosts
<1>13. QED BY <1>11, <1>12

-----------------------------------------------------------------------------
(* Pause, resume and restart *)

\* A paused match is resumed, and its question armed at the end.
LEMMA ResumeMatchKeeps ==
    ASSUME RoundsInv, NEW z \in Actors, ResumeMatch(z) \/ ArmResumed(z)
    PROVE  RoundsInv'
<1>1. TypeOK /\ Placed BY DEF RoundsInv
<1>2. {"resumeInTime", "resumeLate"} \subseteq Stages /\ 0 \in Indexes /\ FALSE \in BOOLEAN
  BY RoundsAreIndexes DEF Stages
<1>3. pc[z] \in {"idle", "armResumed"} /\ round[z] \in Indexes
  BY <1>1 DEF ResumeMatch, ArmResumed, At, TypeOK
<1>4. /\ Moved /\ Only({z})
      /\ pc'[z] = "idle" \/ (pc'[z] \in {"resumeInTime", "resumeLate"} /\ pause # "off")
  <2>1. CASE ArmResumed(z) BY <1>1, <2>1, ReturnMoves DEF ArmResumed
  <2>2. CASE ResumeMatch(z)
    <3>1. PICK s \in {"resumeInTime", "resumeLate"} : Call(z, s, 0, FALSE)
      BY <2>2 DEF ResumeMatch
    <3>2. QED BY <1>1, <1>2, <2>2, <3>1, CallMoves DEF ResumeMatch
  <2>3. QED BY <2>1, <2>2
<1>5. /\ UNCHANGED <<cache, answers, keys, leaseLost, waits, booting, ended, ghosts, faults>>
      /\ pause' = pause \/ pause' = "off"
  BY DEF ResumeMatch, ArmResumed
<1>6. timer' \in [Indexes -> {"none", "soon", "deadline"}]
  BY <1>1, <1>3, TimerSet DEF ResumeMatch, ArmResumed
<1>7. TypeOK' BY <1>1, <1>4, <1>5, <1>6 DEF TypeOK, Moved, cache, keys, ghosts
<1>8. ActorRight(z)'
  <2>1. CASE pc'[z] = "idle" BY <1>1, <2>1, NothingNeeded
  <2>2. CASE pc'[z] \in {"resumeInTime", "resumeLate"} /\ pause # "off"
    BY <1>1, <1>5, <2>2 DEF Placed, SharedRight, ActorRight, Critical, InRound, Fenced, Sending
  <2>3. QED BY <1>4, <2>1, <2>2
<1>9. SharedRight' BY <1>1, <1>5 DEF Placed, SharedRight, cache
<1>10. Placed'
  <2>1. {z} \in SUBSET Actors /\ faults \subseteq faults' BY <1>5
  <2>2. QED BY <1>1, <1>4, <1>5, <1>8, <1>9, <2>1, PlacedStep DEF keys
<1>11. Quiet({z}) BY <1>3, <1>4, <1>5 DEF Quiet, Special, cache, keys, ghosts
<1>12. QED BY <1>7, <1>10, <1>11, QuietStep

\* A resume reads the match: what it will write back is a question that was asked.
LEMMA ReadForResumeKeeps ==
    ASSUME RoundsInv, NEW z \in Actors, ReadForResume(z)
    PROVE  RoundsInv'
<1>1. TypeOK /\ Placed BY DEF RoundsInv
<1>2. pc[z] \in {"resumeInTime", "resumeLate"} /\ "pause" \in faults
  BY <1>1 DEF ReadForResume, Placed, ActorRight
<1>3. UNCHANGED <<cache, answers, timer, pause, keys, leaseLost, waits, booting, ended, ghosts, faults>>
  BY DEF ReadForResume
<1>4. {"pick", "resolve", "rewrite"} \subseteq Stages /\ {TRUE, FALSE} = BOOLEAN BY DEF Stages
<1>5. current \in Indexes /\ (~completed \/ asked => current \in Rounds)
  BY <1>1, RoundsAreIndexes DEF TypeOK, Placed, SharedRight
<1>6. CASE Return(z) \/ Call(z, "resolve", current, TRUE)
  <2>1. Moved /\ Only({z}) /\ pc'[z] \in {"idle", "resolve"}
    BY <1>1, <1>4, <1>5, <1>6, CallMoves, ReturnMoves
  <2>2. TypeOK' BY <1>1, <1>3, <2>1 DEF TypeOK, Moved, cache, keys, ghosts
  <2>3. Placed' BY <1>1, <1>3, <2>1, NothingNeeded, OwnStep DEF cache, keys
  <2>4. Quiet({z}) BY <1>2, <1>3, <2>1 DEF Quiet, Special, cache, keys, ghosts
  <2>5. QED BY <2>2, <2>3, <2>4, QuietStep
<1>7. CASE ~completed /\ Call(z, "pick", current, FALSE)
  <2>1. /\ Moved /\ Only({z}) /\ pc'[z] = "pick" /\ round'[z] \in Rounds /\ ~fromTimeout'[z]
    BY <1>1, <1>4, <1>5, <1>7, CallMoves
  <2>2. TypeOK' BY <1>1, <1>3, <2>1 DEF TypeOK, Moved, cache, keys, ghosts
  <2>3. ActorRight(z)' BY <2>1 DEF ActorRight, Critical, Fenced
  <2>4. Placed' BY <1>1, <1>3, <2>1, <2>3, OwnStep DEF cache, keys
  <2>5. Quiet({z}) BY <1>2, <1>3, <2>1 DEF Quiet, Special, cache, keys, ghosts
  <2>6. QED BY <2>2, <2>4, <2>5, QuietStep
<1>8. CASE asked /\ Call(z, "rewrite", current, FALSE)
  <2>1. /\ Moved /\ Only({z}) /\ pc'[z] = "rewrite" /\ round'[z] = current /\ current \in Rounds
    BY <1>1, <1>4, <1>5, <1>8, CallMoves
  <2>2. TypeOK' BY <1>1, <1>3, <2>1 DEF TypeOK, Moved, cache, keys, ghosts
  <2>3. ActorRight(z)' BY <1>2, <1>3, <2>1 DEF ActorRight, Critical, Fenced
  <2>4. Placed' BY <1>1, <1>3, <2>1, <2>3, OwnStep DEF cache, keys
  <2>5. CASE rewound BY <1>2, <1>3, <2>2, <2>4, <2>5 DEF RoundsInv, ghosts
  <2>6. CASE ~rewound
    <3>1. Followed BY <2>6 DEF RoundsInv
    <3>2. \A b \in Actors \ {z} :
            pc'[b] = pc[b] /\ round'[b] = round[b] /\ seen'[b] = seen[b]
      BY <2>1 DEF Only
    <3>3. ASSUME NEW b \in Actors PROVE InStep(b)'
      <4>1. CASE b = z BY <1>3, <1>8, <2>1, <4>1 DEF InStep, Sending, Reached, cache
      <4>2. CASE b # z
        BY <1>3, <2>1, <3>1, <3>2, <4>2 DEF Followed, InStep, Sending, Reached, cache, keys, ghosts
      <4>3. QED BY <4>1, <4>2
    <3>4. AskedOnce' BY <1>3, <3>1 DEF Followed, AskedOnce, Reached, cache, ghosts
    <3>5. ScoredOnce' BY <1>2, <1>3, <3>1, <3>2 DEF Followed, ScoredOnce, cache, ghosts
    <3>6. AnswersIn'
      <4>1. \A b \in Actors : "lapse" \notin faults => HasAnswers(b)'
        BY <1>3, <2>1, <3>1, <3>2 DEF Followed, AnswersIn, HasAnswers, cache, ghosts
      <4>2. QED BY <1>3, <3>1, <4>1 DEF Followed, AnswersIn, cache, ghosts
    <3>7. Followed' BY <3>3, <3>4, <3>5, <3>6 DEF Followed
    <3>8. QED BY <1>3, <2>2, <2>4, <2>6, <3>7 DEF RoundsInv, ghosts
  <2>7. QED BY <2>5, <2>6
<1>9. QED BY <1>6, <1>7, <1>8 DEF ReadForResume

\* A resume writes back what it read: the match where it was, or one that was paused
\* is taken back.
LEMMA RewriteCacheKeeps ==
    ASSUME RoundsInv, NEW z \in Actors, RewriteCache(z)
    PROVE  /\ RoundsInv'
           /\ ~rewound' => UNCHANGED <<current, asked>>
<1>1. TypeOK /\ Placed BY DEF RoundsInv
<1>2. /\ pc[z] = "rewrite" /\ "pause" \in faults
      /\ round[z] \in Rounds /\ round[z] \in Indexes /\ round[z] \in Nat
  BY <1>1, RoundsAreIndexes DEF RewriteCache, At, Placed, ActorRight, InRound
<1>3. Moved /\ Only({z}) /\ pc'[z] = "armResumed"
  BY <1>1, GotoMoves DEF RewriteCache, Stages
<1>4. UNCHANGED <<answers, timer, pause, keys, leaseLost, waits, booting, ended, scored, counted,
                  published, faults>>
  BY DEF RewriteCache
<1>5. /\ current' = round[z] /\ asked' = TRUE /\ completed' = FALSE /\ expired' = FALSE
      /\ rewound' = (rewound \/ round[z] < current)
  BY DEF RewriteCache, Overwrite
<1>6. TypeOK' BY <1>1, <1>2, <1>3, <1>4, <1>5 DEF TypeOK, Moved, keys
<1>7. round[z] # RoundCount BY <1>2, BoundsAssumption DEF Rounds
<1>8. SharedRight' BY <1>1, <1>4, <1>5, <1>7 DEF Placed, SharedRight
<1>9. Placed'
  <2>1. {z} \in SUBSET Actors /\ faults \subseteq faults' BY <1>4
  <2>2. ActorRight(z)' BY <1>1, <1>3, NothingNeeded
  <2>3. QED BY <1>1, <1>3, <1>4, <1>8, <2>1, <2>2, PlacedStep DEF keys
<1>10. CASE rewound' BY <1>2, <1>4, <1>6, <1>9, <1>10 DEF RoundsInv
<1>11. CASE ~rewound'
  <2>1. ~rewound /\ ~(round[z] < current) BY <1>5, <1>11
  <2>2. Reached(round[z]) BY <1>2, <2>1 DEF RoundsInv, Followed, InStep
  <2>3. round[z] = current /\ asked BY <2>1, <2>2 DEF Reached
  <2>4. UNCHANGED <<current, asked>> BY <1>1, <1>5, <2>3 DEF TypeOK
  <2>5. rewound' = rewound BY <1>1, <1>6, <1>11, <2>1 DEF TypeOK
  <2>6. Quiet({z}) BY <1>2, <1>3, <1>4, <2>4, <2>5 DEF Quiet, Special, keys
  <2>7. QED BY <1>6, <1>9, <2>4, <2>6, QuietStep
<1>12. QED BY <1>10, <1>11

\* A replica that restarts looks after the match's timers.
LEMMA BootKeeps ==
    ASSUME RoundsInv, NEW r \in Replicas, Boot(r)
    PROVE  RoundsInv'
<1>1. TypeOK /\ Placed BY DEF RoundsInv
<1>2. r \in Actors /\ "resolve" \in Stages /\ TRUE \in BOOLEAN BY DEF Actors, Others, Stages
<1>3. current \in Indexes /\ pc[r] = "idle" BY <1>1 DEF TypeOK, Boot, At
<1>4. Moved /\ Only({r}) /\ pc'[r] \in {"idle", "resolve"}
  <2>1. CASE Call(r, "resolve", current, TRUE) BY <1>1, <1>2, <1>3, <2>1, CallMoves
  <2>2. CASE UNCHANGED control BY <1>1, <1>3, <2>2 DEF control, Moved, Only, TypeOK
  <2>3. QED BY <2>1, <2>2 DEF Boot
<1>5. timer' \in [Indexes -> {"none", "soon", "deadline"}]
  BY <1>1, <1>3, TimerSet DEF Boot
<1>6. ended' \in BOOLEAN BY <1>1 DEF Boot, TypeOK
<1>7. booting' \in [Replicas -> BOOLEAN] BY <1>1 DEF Boot, TypeOK
<1>8. UNCHANGED <<cache, answers, pause, keys, leaseLost, waits, ghosts, faults>> BY DEF Boot
<1>9. TypeOK' BY <1>1, <1>4, <1>5, <1>6, <1>7, <1>8 DEF TypeOK, Moved, cache, keys, ghosts
<1>10. Placed' BY <1>1, <1>2, <1>4, <1>8, NothingNeeded, OwnStep DEF cache, keys
<1>11. Quiet({r}) BY <1>3, <1>4, <1>8 DEF Quiet, Special, cache, keys, ghosts
<1>12. QED BY <1>2, <1>9, <1>10, <1>11, QuietStep

-----------------------------------------------------------------------------
(* Time and faults *)

\* A disconnect pauses the match.
LEMMA PauseKeeps ==
    ASSUME RoundsInv, PauseMatch
    PROVE  RoundsInv'
<1>1. TypeOK /\ Placed BY DEF RoundsInv
<1>2. current \in Indexes BY <1>1 DEF TypeOK
<1>3. /\ pause' \in {"inTime", "late"} /\ faults' = faults \cup {"pause"}
      /\ UNCHANGED <<cache, answers, keys, control, leaseLost, waits, booting, ended, ghosts>>
  BY DEF PauseMatch, Fails
<1>4. timer' \in [Indexes -> {"none", "soon", "deadline"}] BY <1>1, <1>2, TimerSet DEF PauseMatch
<1>5. TypeOK' BY <1>1, <1>3, <1>4 DEF TypeOK, Faults, cache, keys, control, ghosts
<1>6. Only({}) /\ {} \in SUBSET Actors BY <1>3 DEF Only, control
<1>7. SharedRight' BY <1>1, <1>3 DEF Placed, SharedRight, cache
<1>8. Placed' BY <1>1, <1>3, <1>6, <1>7, PlacedStep DEF keys
<1>9. Quiet({}) BY <1>3, <1>6 DEF Quiet, cache, keys, ghosts
<1>10. QED BY <1>5, <1>6, <1>8, <1>9, QuietStep

\* A deadline passes, the keys of the dead and the marks expire, a renewal fails.
LEMMA TimeKeeps ==
    ASSUME RoundsInv, TimePasses \/ \E a \in Actors : NoticeLeaseLost(a)
    PROVE  RoundsInv'
<1>1. TypeOK /\ Placed BY DEF RoundsInv
<1>2. UNCHANGED <<current, asked, completed, answers, timer, pause, control, waits, booting, ended,
                  ghosts, faults>>
  BY DEF TimePasses, Expire, OrphanExpires, MarkExpires, NoticeLeaseLost, cache, keys
<1>3. expired' \in BOOLEAN /\ sent' \subseteq Indexes
  BY <1>1 DEF TimePasses, Expire, OrphanExpires, MarkExpires, NoticeLeaseLost, cache, keys, TypeOK
<1>4. leaseLost' \in [Actors -> BOOLEAN]
  BY <1>1 DEF TimePasses, Expire, OrphanExpires, MarkExpires, NoticeLeaseLost, TypeOK
<1>5. lock' \in Holders /\ \A b \in Actors : lock = b => lock' = b
  BY <1>1, ActorsAssumption
  DEF TimePasses, Expire, OrphanExpires, MarkExpires, NoticeLeaseLost, keys, TypeOK, Holders
<1>6. /\ fence' \in [Indexes -> Holders]
      /\ \A b \in Actors, q \in Indexes : fence[q] = b => fence'[q] = b
  <2>1. fence \in [Indexes -> Holders] /\ Free \in Holders BY <1>1 DEF TypeOK, Holders
  <2>2. fence' = fence \/ \E q \in Indexes : fence[q] = Orphan /\ fence' = [fence EXCEPT ![q] = Free]
    BY DEF TimePasses, Expire, OrphanExpires, MarkExpires, NoticeLeaseLost, keys
  <2>3. QED BY <2>1, <2>2, ActorsAssumption
<1>7. \A b \in Actors : pc[b] = "publish" /\ round[b] \in sent => round[b] \in sent'
  BY DEF TimePasses, Expire, OrphanExpires, MarkExpires, NoticeLeaseLost, keys, At
<1>8. TypeOK' BY <1>1, <1>2, <1>3, <1>4, <1>5, <1>6 DEF TypeOK, control, ghosts
<1>9. Only({}) /\ {} \in SUBSET Actors BY <1>2 DEF Only, control
<1>10. SharedRight' BY <1>1, <1>2 DEF Placed, SharedRight
<1>11. Placed' BY <1>1, <1>2, <1>5, <1>6, <1>9, <1>10, PlacedStep
<1>12. Quiet({}) BY <1>2, <1>7, <1>9 DEF Quiet, control, ghosts
<1>13. QED BY <1>8, <1>9, <1>11, <1>12, QuietStep

\* A holder of the round lock outlives its lease.
LEMMA LapseKeeps ==
    ASSUME RoundsInv, NEW a \in Actors, LeaseLapses(a)
    PROVE  RoundsInv'
<1>1. TypeOK /\ Placed BY DEF RoundsInv
<1>2. /\ lock = a /\ lock' = Free /\ faults' = faults \cup {"lapse"}
      /\ UNCHANGED <<cache, answers, timer, pause, fence, sent, control, leaseLost, waits, booting,
                     ended, ghosts>>
  BY DEF LeaseLapses, Fails
<1>3. TypeOK' BY <1>1, <1>2 DEF TypeOK, Holders, Faults, cache, control, ghosts
<1>4. Only({}) /\ Only({a}) /\ {} \in SUBSET Actors BY <1>2 DEF Only, control
<1>5. ActorRight(a)' BY <1>1, <1>2 DEF Placed, ActorRight, control
<1>6. SharedRight' /\ {a} \in SUBSET Actors BY <1>1, <1>2 DEF Placed, SharedRight, cache
<1>7. Placed' BY <1>1, <1>2, <1>4, <1>5, <1>6, PlacedStep
<1>8. Quiet({}) BY <1>2, <1>4 DEF Quiet, cache, ghosts
<1>9. QED BY <1>3, <1>4, <1>7, <1>8, QuietStep

\* A process dies: its actors are gone, its keys are orphans.
LEMMA CrashKeeps ==
    ASSUME RoundsInv, NEW r \in Replicas, Crash(r)
    PROVE  RoundsInv'
<1> DEFINE Dead == {a \in Actors : Home[a] = r}
<1>1. TypeOK /\ Placed BY DEF RoundsInv
<1>2. /\ faults' = faults \cup {"crash"} /\ waits' = [waits EXCEPT ![r] = {}]
      /\ booting' = [booting EXCEPT ![r] = TRUE]
      /\ UNCHANGED <<cache, answers, timer, pause, sent, ended, ghosts>>
  BY DEF Crash, Fails
<1>3. /\ pc' = [a \in Actors |-> IF a \in Dead THEN "idle" ELSE pc[a]]
      /\ round' = [a \in Actors |-> IF a \in Dead THEN 0 ELSE round[a]]
      /\ fromTimeout' = [a \in Actors |-> a \notin Dead /\ fromTimeout[a]]
      /\ seen' = [a \in Actors |-> IF a \in Dead THEN {} ELSE seen[a]]
      /\ leaseLost' = [a \in Actors |-> a \notin Dead /\ leaseLost[a]]
  BY DEF Crash
<1>4. /\ lock' = IF lock \in Dead THEN Orphan ELSE lock
      /\ fence' = [q \in Indexes |-> IF fence[q] \in Dead THEN Orphan ELSE fence[q]]
  BY DEF Crash
<1>5. "idle" \in Stages /\ 0 \in Indexes BY RoundsAreIndexes DEF Stages
<1>6. Moved /\ leaseLost' \in [Actors -> BOOLEAN] BY <1>1, <1>3, <1>5 DEF Moved, TypeOK
<1>7. waits' \in [Replicas -> SUBSET Rounds] /\ booting' \in [Replicas -> BOOLEAN]
  BY <1>1, <1>2 DEF TypeOK
<1>8. /\ lock' \in Holders /\ fence' \in [Indexes -> Holders]
      /\ \A b \in Actors \ Dead : /\ lock = b => lock' = b
                                  /\ \A q \in Indexes : fence[q] = b => fence'[q] = b
  BY <1>1, <1>4 DEF TypeOK, Holders
<1>9. TypeOK' BY <1>1, <1>2, <1>6, <1>7, <1>8 DEF TypeOK, Moved, Faults, cache, ghosts
<1>10. Only(Dead) /\ Dead \in SUBSET Actors /\ \A b \in Dead : pc'[b] = "idle"
  BY <1>3 DEF Only
<1> HIDE DEF Dead
<1>11. \A b \in Dead : ActorRight(b)' BY <1>1, <1>10, NothingNeeded
<1>12. SharedRight' /\ faults \subseteq faults' BY <1>1, <1>2 DEF Placed, SharedRight, cache
<1>13. Placed' BY <1>1, <1>8, <1>10, <1>11, <1>12, PlacedStep
<1>14. Quiet(Dead) BY <1>2, <1>10 DEF Quiet, Special, cache, ghosts
<1>15. QED BY <1>9, <1>10, <1>13, <1>14, QuietStep

-----------------------------------------------------------------------------
(* The invariant *)

\* It holds at first.
LEMMA RoundsStart == Init => RoundsInv
<1> SUFFICES ASSUME Init PROVE RoundsInv OBVIOUS
<1>1. 0 \in Rounds /\ 0 \in Indexes /\ RoundCount # 0 /\ Rounds \subseteq Nat
  BY RoundsAreIndexes, BoundsAssumption
<1>2. TypeOK
  <2>1. published \in [Rounds -> 0..2] /\ scored \in [Rounds -> 0..2] BY DEF Init
  <2>2. timer \in [Indexes -> {"none", "soon", "deadline"}] BY DEF Init
  <2>3. QED BY <1>1, <2>1, <2>2 DEF Init, TypeOK, Stages, Holders
<1>3. Placed
  BY <1>1 DEF Init, Placed, SharedRight, ActorRight, Critical, InRound, Fenced, Sending
<1>4. AskedOnce BY <1>1 DEF Init, AskedOnce, Reached
<1>5. ScoredOnce BY DEF Init, ScoredOnce
<1>6. AnswersIn BY DEF Init, AnswersIn, HasAnswers
<1>7. \A b \in Actors : InStep(b) BY DEF Init, InStep, Sending
<1>8. QED BY <1>2, <1>3, <1>4, <1>5, <1>6, <1>7 DEF RoundsInv, Followed, Init

\* Every step keeps it.
LEMMA RoundsStep == RoundsInv /\ [Next]_vars => RoundsInv'
<1> SUFFICES ASSUME RoundsInv, [Next]_vars PROVE RoundsInv' OBVIOUS
<1>1. ASSUME NEW a \in Actors, Resolve(a) \/ Dispatch(a) \/ LeaseLapses(a) \/ NoticeLeaseLost(a)
      PROVE  RoundsInv'
  <2>1. CASE Dispatch(a) BY <2>1, PickKeeps, MarkKeeps, PublishKeeps, ArmKeeps DEF Dispatch
  <2>2. QED BY <1>1, <2>1, ResolveKeeps, LapseKeeps, TimeKeeps
<1>2. ASSUME NEW p \in Players, SubmitAnswer(p) \/ Answer(p)
      PROVE  RoundsInv'
  BY <1>2, SubmitKeeps, AnswerKeeps
<1>3. CASE \E h \in Handlers, q \in Indexes : Fire(h, q) BY <1>3, CalledKeeps
<1>4. ASSUME NEW r \in Replicas, EndWait(r) \/ Boot(r) \/ Crash(r)
      PROVE  RoundsInv'
  BY <1>4, CalledKeeps, BootKeeps, CrashKeeps
<1>5. CASE Resume(Resumer)
  <2>1. Resumer \in Actors BY DEF Actors, Others
  <2>2. QED BY <1>5, <2>1, ResumeMatchKeeps, ReadForResumeKeeps, RewriteCacheKeeps DEF Resume
<1>6. CASE PauseMatch \/ TimePasses BY <1>6, PauseKeeps, TimeKeeps
<1>7. CASE UNCHANGED vars
  <2>1. UNCHANGED <<current, asked, completed, expired, answers, timer, pause, lock, fence, sent, pc,
                    round, fromTimeout, seen, leaseLost, waits, booting, ended, scored, counted,
                    published, rewound, faults>>
    BY <1>7 DEF vars, cache, keys, control, ghosts
  <2>2. TypeOK' BY <2>1 DEF RoundsInv, TypeOK
  <2>3. Only({}) /\ {} \in SUBSET Actors BY <2>1 DEF Only
  <2>4. SharedRight' BY <2>1 DEF RoundsInv, Placed, SharedRight
  <2>5. Placed' BY <2>1, <2>3, <2>4, PlacedStep DEF RoundsInv
  <2>6. Quiet({}) BY <2>1, <2>3 DEF Quiet
  <2>7. QED BY <2>2, <2>3, <2>5, <2>6, QuietStep
<1>8. QED BY <1>1, <1>2, <1>3, <1>4, <1>5, <1>6, <1>7 DEF Next

\* So it always holds.
LEMMA RoundsAlways == Spec => []RoundsInv
BY RoundsStart, RoundsStep, PTL DEF Spec

-----------------------------------------------------------------------------
(* What a match promises *)

\* Every part of the state keeps its type.
THEOREM TypeCorrect == Spec => []TypeOK
<1>1. RoundsInv => TypeOK BY DEF RoundsInv
<1>2. QED BY <1>1, RoundsAlways, PTL

\* Only a match that was paused goes back to a question it has passed: no resolver and
\* no sender, however late its overwrite of the blob, takes the match back.
THEOREM OnlyResumesGoBack == Spec => []OnlyResumesRewind
<1>1. RoundsInv => OnlyResumesRewind BY DEF RoundsInv, OnlyResumesRewind
<1>2. QED BY <1>1, RoundsAlways, PTL

\* A question goes out once, however many of its wait, its backup, a recovery and a
\* resume try to send it.
THEOREM PublishesOnce == Spec => []PublishedOnce
<1>1. RoundsInv => PublishedOnce BY DEF RoundsInv, PublishedOnce, Followed, AskedOnce
<1>2. QED BY <1>1, RoundsAlways, PTL

\* An acknowledged answer is in the result of its round, whichever resolver scored it.
THEOREM CountsAcknowledgedAnswers == Spec => []AckedAnswersCount
<1>1. RoundsInv => AckedAnswersCount
  <2>1. SUFFICES ASSUME RoundsInv, NEW q \in Rounds, current > q, ~rewound, "lapse" \notin faults
        PROVE  answers[q] \subseteq counted[q]
    BY DEF AckedAnswersCount
  <2>2. current \in Nat /\ q \in Nat BY <2>1, RoundsAreIndexes DEF RoundsInv, TypeOK
  <2>3. q < current BY <2>1, <2>2
  <2>4. QED BY <2>1, <2>3 DEF RoundsInv, Followed, AnswersIn
<1>2. QED BY <1>1, RoundsAlways, PTL

\* The steps that neither score nor overwrite the match, and nobody dies in, are
\* stutters of MatchRounds.
LEMMA OwnStutters ==
    ASSUME NEW a \in Actors,
           \/ Enter(a) \/ HoldBack(a) \/ DeferEarly(a)
           \/ ReleaseFence(a) \/ Complete(a) \/ CompletionBusy(a) \/ Depart(a)
           \/ PickQuestion(a) \/ MarkSent(a) \/ ArmDeadline(a)
           \/ LeaseLapses(a) \/ NoticeLeaseLost(a)
           \/ ResumeMatch(a) \/ ReadForResume(a) \/ ArmResumed(a)
    PROVE  /\ UNCHANGED <<current, asked, scored, rewound>>
           /\ "crash" \in faults' <=> "crash" \in faults
<1>1. CASE Enter(a)
  BY <1>1 DEF Enter, AcquireRound, FindRoundBusy, TakeFence, FindFenced, cache, ghosts
<1>2. CASE HoldBack(a) \/ DeferEarly(a)
  BY <1>2 DEF HoldBack, DeferEarly, cache, ghosts
<1>3. CASE ReleaseFence(a) \/ Complete(a) \/ CompletionBusy(a)
  BY <1>3 DEF ReleaseFence, Complete, CompletionBusy, cache, ghosts
<1>4. CASE Depart(a)
  BY <1>4 DEF Depart, Leave, ClearTimer, DeferTimer, cache, ghosts
<1>5. CASE PickQuestion(a) \/ MarkSent(a) \/ ArmDeadline(a)
  BY <1>5 DEF PickQuestion, MarkSent, ArmDeadline, cache, ghosts
<1>6. CASE LeaseLapses(a) \/ NoticeLeaseLost(a)
  BY <1>6 DEF LeaseLapses, Fails, NoticeLeaseLost, cache, ghosts
<1>7. CASE ResumeMatch(a) \/ ReadForResume(a) \/ ArmResumed(a)
  BY <1>7 DEF ResumeMatch, ReadForResume, ArmResumed, cache, ghosts
<1>8. QED BY <1>1, <1>2, <1>3, <1>4, <1>5, <1>6, <1>7

\* So are those of the players, the timers, the waits, a boot, a pause and of time.
LEMMA OtherStutters ==
    ASSUME \/ \E p \in Players : SubmitAnswer(p) \/ Answer(p)
           \/ \E h \in Handlers, q \in Indexes : Fire(h, q)
           \/ \E r \in Replicas : EndWait(r) \/ Boot(r)
           \/ PauseMatch \/ TimePasses
    PROVE  /\ UNCHANGED <<current, asked, scored, rewound>>
           /\ "crash" \in faults' <=> "crash" \in faults
<1>1. CASE \E p \in Players : SubmitAnswer(p) \/ Answer(p)
  BY <1>1 DEF SubmitAnswer, Answer, CommitAnswer, DropAnswer, cache, ghosts
<1>2. CASE \E h \in Handlers, q \in Indexes : Fire(h, q) BY <1>2 DEF Fire, cache, ghosts
<1>3. CASE \E r \in Replicas : EndWait(r) \/ Boot(r) BY <1>3 DEF EndWait, Boot, cache, ghosts
<1>4. CASE PauseMatch BY <1>4 DEF PauseMatch, Fails, cache, ghosts
<1>5. CASE TimePasses
  BY <1>5 DEF TimePasses, Expire, OrphanExpires, MarkExpires, cache, ghosts
<1>6. QED BY <1>1, <1>2, <1>3, <1>4, <1>5

\* A result is applied to the question that is out, once unless a process died.
LEMMA ApplyScores ==
    ASSUME RoundsInv, ~rewound, NEW a \in Actors, ApplyRound(a)
    PROVE  Promise!Score
<1>1. /\ TypeOK /\ Placed /\ Followed /\ pc[a] = "check" BY DEF RoundsInv, ApplyRound, At
<1>2. current = round[a] /\ asked /\ round[a] \in Rounds
  BY <1>1 DEF Followed, InStep, Placed, ActorRight, InRound, Fenced
<1>3. scored[current] = 0 \/ "crash" \in faults
  <2>1. SUFFICES ASSUME scored[round[a]] # 0, "crash" \notin faults PROVE FALSE BY <1>2
  <2>2. scored[round[a]] > 0 BY <1>1, <1>2, <2>1 DEF TypeOK
  <2>3. PICK b \in Actors : pc[b] = "commit" /\ round[b] = round[a]
    <3>1. round[a] \in Nat BY <1>2, RoundsAreIndexes
    <3>2. ~(round[a] < current) BY <1>2, <3>1
    <3>3. QED BY <1>1, <1>2, <2>1, <2>2, <3>2 DEF Followed, ScoredOnce
  <2>4. b = a BY <1>1, <2>3, OneFenced DEF Fenced
  <2>5. QED BY <1>1, <2>3, <2>4
<1>4. scored' = [scored EXCEPT ![current] = IF @ = 0 THEN 1 ELSE 2]
  <2>1. scored[current] \in 0..2 BY <1>1, <1>2 DEF TypeOK
  <2>2. Up(scored[current]) = IF scored[current] = 0 THEN 1 ELSE 2 BY <2>1 DEF Up
  <2>3. QED BY <1>2, <2>2 DEF ApplyRound
<1>5. UNCHANGED <<current, asked, rewound, faults>> BY DEF ApplyRound, cache
<1>6. QED BY <1>2, <1>3, <1>4, <1>5 DEF Promise!Score

\* The match moves on from a question that was scored.
LEMMA CommitAdvances ==
    ASSUME RoundsInv, ~rewound, ~rewound', NEW a \in Actors, CommitRound(a)
    PROVE  Promise!Advance
<1>1. TypeOK /\ Placed /\ Followed /\ pc[a] = "commit" BY DEF RoundsInv, CommitRound, At
<1>2. current = round[a] /\ asked /\ scored[round[a]] > 0 BY <1>1 DEF Followed, InStep
<1>3. /\ current' = round[a] + 1 /\ asked' = FALSE
      /\ UNCHANGED <<scored, faults>>
  BY DEF CommitRound, Overwrite
<1>4. rewound' = rewound
  <2>1. rewound \in BOOLEAN /\ rewound' \in BOOLEAN BY <1>1 DEF TypeOK, CommitRound, Overwrite
  <2>2. QED BY <2>1
<1>5. QED BY <1>2, <1>3, <1>4 DEF Promise!Advance

\* A question is asked when the last one is done with.
LEMMA PublishAsks ==
    ASSUME RoundsInv, ~rewound, ~rewound', NEW a \in Actors, PublishQuestion(a)
    PROVE  Promise!Ask
<1>1. TypeOK /\ Placed /\ Followed /\ pc[a] = "publish" BY DEF RoundsInv, PublishQuestion, At
<1>2. current = round[a] /\ ~asked /\ round[a] \in Rounds
  BY <1>1 DEF Followed, InStep, Placed, ActorRight, InRound, Sending
<1>3. /\ current' = round[a] /\ asked' = TRUE /\ UNCHANGED <<scored, faults>>
  BY DEF PublishQuestion, Overwrite
<1>4. rewound' = rewound
  <2>1. rewound \in BOOLEAN /\ rewound' \in BOOLEAN BY <1>1 DEF TypeOK, PublishQuestion, Overwrite
  <2>2. QED BY <2>1
<1>5. QED BY <1>2, <1>3, <1>4 DEF Promise!Ask, Promise!Rounds, Rounds

\* A match that was taken back stays so.
LEMMA RewoundStays == [Next]_vars /\ rewound => rewound'
<1> SUFFICES ASSUME [Next]_vars, rewound PROVE rewound' OBVIOUS
<1>1. CASE \E a \in Actors : ApplyRound(a) \/ CommitRound(a) \/ PublishQuestion(a) \/ RewriteCache(a)
  BY <1>1 DEF ApplyRound, CommitRound, PublishQuestion, RewriteCache, Overwrite
<1>2. CASE \E r \in Replicas : Crash(r) BY <1>2 DEF Crash, ghosts
<1>3. CASE UNCHANGED vars BY <1>3 DEF vars, ghosts
<1>4. CASE \E a \in Actors :
             \/ Enter(a) \/ HoldBack(a) \/ DeferEarly(a)
             \/ ReleaseFence(a) \/ Complete(a) \/ CompletionBusy(a) \/ Depart(a)
             \/ PickQuestion(a) \/ MarkSent(a) \/ ArmDeadline(a)
             \/ LeaseLapses(a) \/ NoticeLeaseLost(a)
             \/ ResumeMatch(a) \/ ReadForResume(a) \/ ArmResumed(a)
  BY <1>4, OwnStutters
<1>5. Resumer \in Actors BY DEF Actors, Others
<1>6. QED
  BY <1>1, <1>2, <1>3, <1>4, <1>5, OtherStutters
  DEF Next, Resolve, Decide, Conclude, Dispatch, Resume

\* Every step of the rounds is one of MatchRounds, or changes nothing of it.
LEMMA StepKeepsPromise == RoundsInv /\ [Next]_vars => [Promise!Next]_(Promise!vars)
<1> SUFFICES ASSUME RoundsInv, [Next]_vars PROVE [Promise!Next]_(Promise!vars) OBVIOUS
<1>1. CASE rewound' BY <1>1 DEF Promise!Next, Promise!Rewind
<1>2. CASE ~rewound'
  <2>1. RoundsInv' /\ TypeOK /\ TypeOK' BY RoundsStep DEF RoundsInv
  <2>2. ASSUME UNCHANGED <<current, asked, scored, rewound>>,
               "crash" \in faults' <=> "crash" \in faults
        PROVE  UNCHANGED Promise!vars
    BY <2>2 DEF Promise!vars
  <2>3. ~rewound BY <1>2, RewoundStays
  <2>4. ASSUME NEW a \in Actors,
               Resolve(a) \/ Dispatch(a) \/ LeaseLapses(a) \/ NoticeLeaseLost(a)
        PROVE  [Promise!Next]_(Promise!vars)
    <3>1. CASE ApplyRound(a) BY <2>3, <3>1, ApplyScores DEF Promise!Next
    <3>2. CASE CommitRound(a) BY <1>2, <2>3, <3>2, CommitAdvances DEF Promise!Next
    <3>3. CASE PublishQuestion(a) BY <1>2, <2>3, <3>3, PublishAsks DEF Promise!Next
    <3>4. CASE ~ApplyRound(a) /\ ~CommitRound(a) /\ ~PublishQuestion(a)
      BY <2>2, <2>4, <3>4, OwnStutters DEF Resolve, Decide, Conclude, Dispatch
    <3>5. QED BY <3>1, <3>2, <3>3, <3>4
  <2>5. CASE Resume(Resumer)
    <3>1. Resumer \in Actors BY DEF Actors, Others
    <3>2. CASE RewriteCache(Resumer)
      <4>1. UNCHANGED <<current, asked>> BY <1>2, <3>1, <3>2, RewriteCacheKeeps
      <4>2. UNCHANGED <<scored, faults>> BY <3>2 DEF RewriteCache
      <4>3. rewound' = rewound BY <1>2, <2>1, <2>3 DEF TypeOK
      <4>4. QED BY <2>2, <4>1, <4>2, <4>3
    <3>3. CASE ~RewriteCache(Resumer) BY <2>2, <2>5, <3>1, <3>3, OwnStutters DEF Resume
    <3>4. QED BY <3>2, <3>3
  <2>6. ASSUME NEW r \in Replicas, Crash(r)
        PROVE  Promise!Die
    BY <2>6 DEF Crash, Fails, Promise!Die, cache, ghosts
  <2>7. CASE UNCHANGED vars BY <2>2, <2>7 DEF vars, cache, ghosts
  <2>8. QED BY <2>2, <2>4, <2>5, <2>6, <2>7, OtherStutters DEF Next, Promise!Next
<1>3. QED BY <1>1, <1>2

\* The rounds implement MatchRounds: each question is asked once, in order, and scored
\* before the match moves on; once, unless a process died over it or a resume took the
\* match back.
THEOREM ImplementsMatchRounds == Spec => RoundsInOrder
<1>1. Init => Promise!Init BY DEF Init, Promise!Init, Promise!Rounds, Rounds
<1>2. QED BY <1>1, StepKeepsPromise, RoundsAlways, PTL DEF Spec, RoundsInOrder, Promise!Spec
=============================================================================
