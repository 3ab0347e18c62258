-------------------------- MODULE RankedDraftProofs --------------------------
(***************************************************************************)
(* Proofs about RankedDraft, for every number of disconnects and errors.   *)
(* The properties are not inductive as they stand: DraftInv adds who may   *)
(* stand at a stage of the completion (the holder of its lock) and how     *)
(* many payments and active matches that stage goes with, an error or not. *)
(* Most steps are taken aside, by an actor that does not hold the lock;    *)
(* the holder goes on, or releases it: one lemma each.                     *)
(***************************************************************************)
EXTENDS RankedDraft, SequenceTheorems, TLAPS

Holding == {"consume", "signals", "create", "created", "failed", "undo", "undoing"}
Aborting == {"abort", "teardown"}

\* A grace expiry never completes a draft.
GraceOnlyAborts == pc[Grace] \in {"idle", "abort", "teardown", "clean"}

\* The stages of the completion are those of the holder of its lock.
CompletionHeld ==
    /\ \A a \in Actors : pc[a] \in Holding => completing = a
    /\ completing # Free => pc[completing] \in Holding \cup Aborting

Stage == IF completing = Free THEN "free" ELSE pc[completing]

\* Each player has paid for the active matches, for what errors kept, and for the match
\* that is being made.
Accounted ==
    /\ spent = live + leaked + IF Stage \in {"signals", "create"} THEN 1 ELSE 0
    /\ leaked <= throws

\* While the lobby is still a draft's, or its completion on the way to a match, the only
\* active matches are those that errors left.
Counted ==
    live <= IF Stage = "created" \/ (~Active /\ Stage \notin {"consume", "signals", "create"})
            THEN 1 + stranded ELSE stranded

CreatedIsLive == Stage = "created" => live > 0

\* A persistent bot is reserved, or in a match, or neither.
BotCounted == bot => live <= IF reserved THEN 0 ELSE 1

BotMatchSafe == bot /\ live > 0 =>
    lobby # "gone" /\ \A a \in Actors : pc[a] \notin {"teardown", "undoing"}

LockInv == GraceOnlyAborts /\ CompletionHeld
MoneyInv == Accounted /\ Counted /\ CreatedIsLive /\ BotCounted
DraftInv == LockInv /\ MoneyInv /\ BotMatchSafe

-----------------------------------------------------------------------------
(* Helpers *)

Bans == {<<>>, <<First>>, <<Second>>, <<First, Second>>, <<Second, First>>}

\* The next turn is a member's.
LEMMA TurnIsMembers ==
    ASSUME NEW b \in Bans
    PROVE  NextActor(b) \in Members
<1>1. \A x : \E m \in Members : m # x BY ActorsAssumption DEF Members
<1>2. First \in Members BY DEF Members
<1>3. QED BY <1>1, <1>2 DEF NextActor

\* What appending to a list of one gives.
LEMMA AppendOne ==
    ASSUME NEW S, NEW x \in S, NEW y \in S
    PROVE  Append(<<x>>, y) = <<x, y>>
<1>1. Len(<<x>>) = 1 /\ <<x>>[1] = x /\ <<x>> \in Seq(S) OBVIOUS
<1>2. Len(Append(<<x>>, y)) = 2 /\ Append(<<x>>, y) \in Seq(S) BY <1>1
<1>3. Append(<<x>>, y)[1] = x /\ Append(<<x>>, y)[2] = y BY <1>1
<1>4. <<x, y>> \in Seq(S) /\ Len(<<x, y>>) = 2 OBVIOUS
<1>5. \A i \in 1..2 : Append(<<x>>, y)[i] = <<x, y>>[i] BY <1>3
<1>6. QED BY <1>2, <1>4, <1>5, SeqEqual

\* A member who has not banned can be appended.
LEMMA AppendBan ==
    ASSUME TypeOK, NEW u \in Members, u \notin Banned
    PROVE  Append(bans, u) \in Bans
<1>1. CASE bans = <<>> BY <1>1 DEF Bans, Members
<1>2. ASSUME NEW m \in Members, bans = <<m>>
      PROVE  Append(bans, u) \in Bans
  <2>1. m \in Banned BY <1>2 DEF Banned
  <2>2. u # m BY <2>1
  <2>3. Append(bans, u) = <<m, u>> BY <1>2, AppendOne
  <2>4. QED BY <2>2, <2>3 DEF Bans, Members
<1>3. CASE bans \in {<<First, Second>>, <<Second, First>>}
  <2>1. Len(bans) = 2 /\ {bans[1], bans[2]} = Members BY <1>3 DEF Members
  <2>2. Banned = Members BY <2>1 DEF Banned
  <2>3. QED BY <2>2
<1>4. QED BY <1>1, <1>2, <1>3 DEF TypeOK, Members

\* The length of the list of bans.
LEMMA BansLength == ASSUME NEW b \in Bans PROVE Len(b) \in 0..2
BY DEF Bans

\* A default actor is a member.
LEMMA DefaultIsMember == \A a : Default(a) \in Members
BY DEF Default, Members

\* An actor that goes to a stage moves alone.
LEMMA GotoMoves ==
    ASSUME TypeOK, NEW a \in Actors, NEW s \in Stages, Goto(a, s)
    PROVE  /\ pc' = [pc EXCEPT ![a] = s] /\ pc' \in [Actors -> Stages]
           /\ who' \in [Actors -> Members]
BY DefaultIsMember DEF TypeOK, Goto

\* So does one that is started for a member.
LEMMA StartMoves ==
    ASSUME TypeOK, NEW a \in Actors, NEW s \in Stages, NEW u \in Members, Start(a, s, u)
    PROVE  /\ pc' = [pc EXCEPT ![a] = s] /\ pc' \in [Actors -> Stages]
           /\ who' \in [Actors -> Members]
BY DEF TypeOK, Start

\* The end of a completion is idle, or the rest of the auto-ban.
LEMMA ReturnMoves ==
    ASSUME TypeOK, NEW a \in Actors, Return(a)
    PROVE  \E s \in {"idle", "again"} :
             /\ pc' = [pc EXCEPT ![a] = s] /\ pc' \in [Actors -> Stages]
             /\ who' \in [Actors -> Members]
<1>1. {"idle", "again"} \subseteq Stages BY DEF Stages
<1>2. PICK s \in {"idle", "again"} : Goto(a, s) BY DEF Return
<1>3. s \in Stages BY <1>1
<1>4. QED BY <1>2, <1>3, GotoMoves

-----------------------------------------------------------------------------
(* Types *)

\* The program counters and the players they act for, after a move of one actor.
Moved == pc' \in [Actors -> Stages] /\ who' \in [Actors -> Members]

\* The timers, after a step.
Armed == auto' \in {"none", "plain", "gated"} /\ {ripe', aiDue'} \subseteq BOOLEAN

\* The payments and the matches, after a step.
Paid == {reserved', empty'} \subseteq BOOLEAN /\ {live', spent', leaked', stranded'} \subseteq Nat

\* The errors, after a step.
Erred == lost' \in BOOLEAN /\ drops' \in 0..MaxDrops /\ throws' \in 0..MaxThrows

\* What a step leaves alone keeps its type.
LEMMA SameTypes ==
    ASSUME TypeOK
    PROVE  /\ UNCHANGED timers => Armed
           /\ UNCHANGED money => Paid
           /\ UNCHANGED errors => Erred
           /\ UNCHANGED control => Moved
BY DEF TypeOK, timers, money, errors, control, Armed, Paid, Erred, Moved

\* Arming a turn leaves the timers what they may be.
LEMMA ArmOverTypes ==
    ASSUME TypeOK, NEW x \in {"none", "plain", "gated"}, NEW y \in BOOLEAN, NEW b, NEW m,
           ArmOver(x, y, b, m)
    PROVE  Armed
<1>1. auto' \in {"none", "plain", "gated"} BY DEF ArmOver, Schedule
<1>2. ripe' \in BOOLEAN BY DEF ArmOver, Schedule, TypeOK
<1>3. aiDue' \in BOOLEAN BY DEF ArmOver
<1>4. QED BY <1>1, <1>2, <1>3 DEF Armed

\* So does clearing them.
LEMMA ClearTimersTypes == ASSUME ClearTimers PROVE Armed
BY DEF ClearTimers, Schedule, Armed

\* Errors are counted up to their bound.
LEMMA ThrowsTypes ==
    ASSUME TypeOK, NEW n \in Nat, Throws(n)
    PROVE  Erred
BY BoundsAssumption DEF Throws, TypeOK, Erred

\* A refund is of a payment.
LEMMA RefundTypes ==
    ASSUME TypeOK, spent > 0, NEW kept \in 0..1, Refund(kept)
    PROVE  spent' \in Nat /\ leaked' \in Nat
BY DEF Refund, TypeOK

\* A step of the bans leaves every variable in its type.
LEMMA BanTypes ==
    ASSUME TypeOK, NEW a \in Actors, Ban(a)
    PROVE  TypeOK'
<1>1. who[a] \in Members BY DEF TypeOK
<1>2. {"insert", "idle", "complete"} \subseteq Stages BY DEF Stages
<1>3. CASE InsertBan(a)
  <2>1. bans' \in Bans BY <1>1, <1>3, AppendBan DEF InsertBan, TypeOK, Bans
  <2>2. Moved BY <1>2, <1>3, GotoMoves DEF InsertBan, Moved
  <2>3. CASE UNCHANGED timers
    <3>1. Armed BY <2>3, SameTypes
    <3>2. QED BY <1>3, <2>1, <2>2, <3>1, SameTypes DEF InsertBan, TypeOK, Bans, Moved, Armed, Paid, Erred, marks
  <2>4. CASE aiDue' = TRUE /\ UNCHANGED <<auto, ripe>>
    <3>1. Armed BY <2>4 DEF TypeOK, Armed
    <3>2. QED BY <1>3, <2>1, <2>2, <3>1, SameTypes DEF InsertBan, TypeOK, Bans, Moved, Armed, Paid, Erred, marks
  <2>5. CASE ArmOver(auto, aiDue, bans', ready)
    <3>1. Armed BY <2>5, ArmOverTypes DEF TypeOK
    <3>2. QED BY <1>3, <2>1, <2>2, <3>1, SameTypes DEF InsertBan, TypeOK, Bans, Moved, Armed, Paid, Erred, marks
  <2>6. QED BY <1>3, <2>3, <2>4, <2>5 DEF InsertBan
<1>4. CASE InsertFails(a)
  <2>1. Moved BY <1>2, <1>4, GotoMoves DEF InsertFails, Moved
  <2>2. Armed BY <1>4 DEF InsertFails, Schedule, TypeOK, Armed
  <2>3. Erred BY <1>4, ThrowsTypes DEF InsertFails
  <2>4. QED
    BY <1>4, <2>1, <2>2, <2>3, SameTypes DEF InsertFails, TypeOK, Moved, Armed, Erred, Paid, marks
<1>5. QED BY <1>3, <1>4 DEF Ban

\* So does a step of the completion that looks for its lock or releases it.
LEMMA LockTypes ==
    ASSUME TypeOK, LockInv, NEW a \in Actors,
           FindCompleting(a) \/ AcquireCompletion(a) \/ ReleaseFailed(a)
    PROVE  TypeOK'
<1>1. {"idle", "again", "consume"} \subseteq Stages BY DEF Stages
<1>2. a = Grace \/ a \in Completers BY DEF Completers
<1>3. Moved
  BY <1>1, GotoMoves, ReturnMoves DEF FindCompleting, AcquireCompletion, ReleaseFailed, Moved
<1>4. Armed
  <2>1. \/ UNCHANGED timers \/ ClearTimers
        \/ (Schedule("plain") /\ UNCHANGED aiDue) \/ UNCHANGED <<auto, ripe, aiDue>>
    BY DEF FindCompleting, AcquireCompletion, ReleaseFailed
  <2>2. CASE UNCHANGED timers \/ ClearTimers BY <2>2, SameTypes, ClearTimersTypes
  <2>3. CASE (Schedule("plain") /\ UNCHANGED aiDue) \/ UNCHANGED <<auto, ripe, aiDue>>
    BY <2>3 DEF Schedule, Armed, TypeOK
  <2>4. QED BY <2>1, <2>2, <2>3
<1>5. completing' \in Completers \cup {Free}
  <2>1. a # Grace \/ completing' = Free \/ completing' = completing
    BY DEF FindCompleting, AcquireCompletion, ReleaseFailed, LockInv, GraceOnlyAborts, At
  <2>2. QED BY <1>2, <2>1 DEF FindCompleting, AcquireCompletion, ReleaseFailed, TypeOK
<1>6. Paid /\ Erred BY SameTypes DEF FindCompleting, AcquireCompletion, ReleaseFailed
<1>7. UNCHANGED <<bot, lobby, bans, ready, marks, away>>
  BY DEF FindCompleting, AcquireCompletion, ReleaseFailed
<1>8. QED BY <1>3, <1>4, <1>5, <1>6, <1>7 DEF TypeOK, Moved, Armed, Paid, Erred, marks

\* So does one that pays, or makes the match or not.
LEMMA PayTypes ==
    ASSUME TypeOK, DraftInv, NEW a \in Actors,
           ConsumeTickets(a) \/ NoTickets(a) \/ CheckSignals(a) \/ SignalsThrow(a)
             \/ CreateMatch(a) \/ CreateFails(a)
    PROVE  TypeOK'
<1>1. {"signals", "create", "created", "failed", "abort"} \subseteq Stages BY DEF Stages
<1>2. Moved
  BY <1>1, GotoMoves DEF ConsumeTickets, NoTickets, CheckSignals, SignalsThrow, CreateMatch,
                         CreateFails, Moved
<1>3. pc[a] \in {"signals", "create"} => spent > 0
  <2>1. SUFFICES ASSUME pc[a] \in {"signals", "create"} PROVE spent > 0 OBVIOUS
  <2>2. completing = a /\ completing # Free
    BY <2>1, ActorsAssumption DEF DraftInv, LockInv, CompletionHeld, Holding
  <2>3. spent = live + leaked + 1 BY <2>1, <2>2 DEF DraftInv, MoneyInv, Accounted, Stage
  <2>4. QED BY <2>3 DEF TypeOK
<1>4. Erred
  <2>1. UNCHANGED errors \/ \E n \in Nat : Throws(n)
    <3>1. \A kept \in 0..1 : kept \in Nat /\ kept + (IF Creatable THEN 1 ELSE 0) \in Nat OBVIOUS
    <3>2. QED
      BY <3>1 DEF ConsumeTickets, NoTickets, CheckSignals, SignalsThrow, CreateMatch, CreateFails
  <2>2. QED BY <2>1, SameTypes, ThrowsTypes
<1>5. Paid
  <2>1. CASE ConsumeTickets(a) BY <2>1 DEF ConsumeTickets, TypeOK, Paid
  <2>2. CASE NoTickets(a) BY <2>2, SameTypes DEF NoTickets
  <2>3. CASE CheckSignals(a) BY <1>3, <2>3, RefundTypes DEF CheckSignals, At, TypeOK, Paid
  <2>4. CASE SignalsThrow(a) BY <2>4 DEF SignalsThrow, TypeOK, Paid
  <2>5. CASE CreateMatch(a)
    <3>1. live' = live + 1 /\ reserved' = FALSE /\ UNCHANGED <<empty, spent, leaked, stranded>>
      BY <2>5 DEF CreateMatch
    <3>2. live' \in Nat BY <3>1 DEF TypeOK
    <3>3. QED BY <3>1, <3>2 DEF TypeOK, Paid
  <2>6. CASE CreateFails(a)
    <3>1. spent' \in Nat /\ leaked' \in Nat BY <1>3, <2>6, RefundTypes DEF CreateFails, At
    <3>2. empty' \in BOOLEAN BY <2>6 DEF CreateFails, TypeOK
    <3>3. QED BY <2>6, <3>1, <3>2 DEF CreateFails, TypeOK, Paid
  <2>7. QED BY <2>1, <2>2, <2>3, <2>4, <2>5, <2>6
<1>6. Armed
  <2>1. UNCHANGED timers \/ ArmOver(auto, aiDue, <<>>, ready)
    BY DEF ConsumeTickets, NoTickets, CheckSignals, SignalsThrow, CreateMatch, CreateFails
  <2>2. QED BY <2>1, SameTypes, ArmOverTypes DEF TypeOK
<1>7. bans' \in Bans
  BY DEF ConsumeTickets, NoTickets, CheckSignals, SignalsThrow, CreateMatch, CreateFails, TypeOK, Bans
<1>8. UNCHANGED <<bot, lobby, ready, marks, away, completing>>
  BY DEF ConsumeTickets, NoTickets, CheckSignals, SignalsThrow, CreateMatch, CreateFails
<1>9. QED
  BY <1>2, <1>4, <1>5, <1>6, <1>7, <1>8 DEF TypeOK, Bans, Moved, Armed, Paid, Erred, marks

\* The end of a completion leaves what it touches in its type.
LEMMA CloseTypes ==
    ASSUME TypeOK, NEW a \in Actors, CloseCompletion(a)
    PROVE  Moved /\ Armed /\ completing' \in Completers \cup {Free}
BY ReturnMoves, ClearTimersTypes DEF CloseCompletion, Moved

\* So does a step from a match that was made.
LEMMA CreatedTypes ==
    ASSUME TypeOK, DraftInv, NEW a \in Actors,
           AbandonMatch(a) \/ AbandonFails(a) \/ BeginMatch(a) \/ BeginThrows(a)
    PROVE  TypeOK'
<1>1. {"undo", "failed"} \subseteq Stages BY DEF Stages
<1>2. live > 0 /\ spent > 0
  <2>1. pc[a] = "created" BY DEF AbandonMatch, AbandonFails, BeginMatch, BeginThrows, At
  <2>2. completing = a /\ completing # Free
    BY <2>1, ActorsAssumption DEF DraftInv, LockInv, CompletionHeld, Holding
  <2>3. live > 0 /\ spent = live + leaked
    BY <2>1, <2>2 DEF DraftInv, MoneyInv, Accounted, CreatedIsLive, Stage, TypeOK
  <2>4. QED BY <2>3 DEF TypeOK
<1>3. Moved /\ Armed /\ completing' \in Completers \cup {Free}
  <2>1. CASE CloseCompletion(a) BY <2>1, CloseTypes
  <2>2. CASE (Goto(a, "undo") \/ Goto(a, "failed")) /\ UNCHANGED <<timers, completing>>
    BY <1>1, <2>2, GotoMoves, SameTypes DEF Moved, TypeOK
  <2>3. QED BY <2>1, <2>2 DEF AbandonMatch, AbandonFails, BeginMatch, BeginThrows
<1>4. Paid
  <2>1. CASE AbandonMatch(a)
    <3>1. spent' \in Nat /\ leaked' \in Nat BY <1>2, <2>1, RefundTypes DEF AbandonMatch
    <3>2. live' \in Nat BY <1>2, <2>1 DEF AbandonMatch, TypeOK
    <3>3. QED BY <2>1, <3>1, <3>2 DEF AbandonMatch, TypeOK, Paid
  <2>2. CASE AbandonFails(a) BY <2>2 DEF AbandonFails, TypeOK, Paid
  <2>3. CASE BeginMatch(a) BY <2>3, SameTypes DEF BeginMatch
  <2>4. CASE BeginThrows(a) BY <2>4 DEF BeginThrows, TypeOK, Paid
  <2>5. QED BY <2>1, <2>2, <2>3, <2>4
<1>5. Erred
  <2>1. UNCHANGED errors \/ \E n \in 0..1 : Throws(n)
    BY DEF AbandonMatch, AbandonFails, BeginMatch, BeginThrows
  <2>2. QED BY <2>1, SameTypes, ThrowsTypes
<1>6. lobby' \in {"active", "closed", "gone"}
  BY DEF AbandonMatch, AbandonFails, BeginMatch, BeginThrows, TypeOK
<1>7. UNCHANGED <<bot, bans, ready, marks, away>>
  BY DEF AbandonMatch, AbandonFails, BeginMatch, BeginThrows
<1>8. QED BY <1>3, <1>4, <1>5, <1>6, <1>7 DEF TypeOK, Moved, Armed, Paid, Erred, marks

\* So does every step of the completion.
LEMMA CompleteTypes ==
    ASSUME TypeOK, DraftInv, NEW a \in Actors, Complete(a)
    PROVE  TypeOK'
BY LockTypes, PayTypes, CreatedTypes DEF Complete, DraftInv

\* What follows an abort leaves the variables it touches in their types.
LEMMA AfterAbortTypes ==
    ASSUME TypeOK, NEW a \in Actors, AfterAbort(a)
    PROVE  /\ Moved /\ Armed
           /\ absent' \subseteq Members
           /\ completing' \in Completers \cup {Free}
<1>1. {"idle", "clean", "failed"} \subseteq Stages BY DEF Stages
<1>2. CASE CloseCompletion(a) BY <1>2, CloseTypes DEF AfterAbort
<1>3. CASE ~CloseCompletion(a)
  <2>1. UNCHANGED <<timers, completing>> BY <1>3 DEF AfterAbort
  <2>2. Moved BY <1>1, <1>3, GotoMoves DEF AfterAbort, Moved
  <2>3. QED BY <2>1, <2>2, SameTypes DEF AfterAbort, TypeOK
<1>4. QED BY <1>2, <1>3

\* So does the abort.
LEMMA AbortTypes ==
    ASSUME TypeOK, NEW a \in Actors, Abort(a)
    PROVE  TypeOK'
<1>1. {"teardown", "undoing", "failed"} \subseteq Stages BY DEF Stages
<1>2. CASE LookForMatch(a)
  <2>1. Moved /\ Armed /\ absent' \subseteq Members /\ completing' \in Completers \cup {Free}
    <3>1. CASE AfterAbort(a) BY <3>1, AfterAbortTypes
    <3>2. CASE /\ Goto(a, IF At(a, "abort") THEN "teardown" ELSE "undoing")
               /\ UNCHANGED <<absent, timers, completing>>
      BY <1>1, <3>2, GotoMoves, SameTypes DEF Moved, TypeOK
    <3>3. QED BY <1>2, <3>1, <3>2 DEF LookForMatch
  <2>2. QED BY <1>2, <2>1, SameTypes DEF LookForMatch, TypeOK, Moved, Armed, Paid, Erred
<1>3. CASE TearDown(a)
  <2>1. Paid BY <1>3 DEF TearDown, TypeOK, Paid
  <2>2. QED
    BY <1>3, <2>1, AfterAbortTypes, SameTypes DEF TearDown, TypeOK, Moved, Armed, Paid, Erred
<1>4. CASE AbortThrows(a)
  <2>1. Moved BY <1>1, <1>4, GotoMoves DEF AbortThrows, Moved
  <2>2. Erred BY <1>4, ThrowsTypes DEF AbortThrows
  <2>3. QED
    BY <1>4, <2>1, <2>2, SameTypes DEF AbortThrows, TypeOK, Moved, Armed, Paid, Erred, marks
<1>5. QED BY <1>2, <1>3, <1>4 DEF Abort

\* So does an error of another handler.
LEMMA ThrowTypes ==
    ASSUME TypeOK, (\E a \in Actors : HandlerThrows(a)) \/ PopThrows
    PROVE  TypeOK'
<1>1. Erred
  <2>1. throws < MaxThrows /\ throws' = throws + 1 /\ drops' = drops
    BY DEF HandlerThrows, PopThrows
  <2>2. throws' \in 0..MaxThrows BY <2>1, BoundsAssumption DEF TypeOK
  <2>3. lost' \in BOOLEAN BY DEF HandlerThrows, PopThrows, TypeOK
  <2>4. QED BY <2>1, <2>2, <2>3 DEF TypeOK, Erred
<1>2. "idle" \in Stages BY DEF Stages
<1>3. ASSUME NEW a \in Actors, HandlerThrows(a)
      PROVE  TypeOK'
  <2>1. Moved BY <1>2, <1>3, GotoMoves DEF HandlerThrows, Moved
  <2>2. Armed /\ Paid BY <1>3, SameTypes DEF HandlerThrows
  <2>3. graceDue' \in BOOLEAN BY <1>3 DEF HandlerThrows, TypeOK
  <2>4. QED
    BY <1>1, <1>3, <2>1, <2>2, <2>3 DEF HandlerThrows, TypeOK, Moved, Armed, Paid, Erred
<1>4. CASE PopThrows
  <2>1. Armed BY <1>4 DEF PopThrows, Schedule, TypeOK, Armed
  <2>2. Moved /\ Paid BY <1>4, SameTypes DEF PopThrows
  <2>3. QED BY <1>1, <1>4, <2>1, <2>2 DEF PopThrows, TypeOK, Moved, Armed, Paid, Erred, marks
<1>5. QED BY <1>3, <1>4

\* A disconnect, a reconnect and a grace expiry leave every variable in its type.
LEMMA LinkTypes ==
    ASSUME TypeOK, Resume \/ Pause \/ Expiry
    PROVE  TypeOK'
<1>1. {"idle", "unpause", "restartTimers", "complete", "grace", "abort"} \subseteq Stages BY DEF Stages
<1>2. {Link, Grace} \subseteq Actors BY DEF Actors
<1>3. who[Link] \in Members BY <1>2 DEF TypeOK
<1>4. Paid /\ Erred
  BY SameTypes DEF Resume, Pause, Expiry, ClearDisconnect, EndPause, ResumeTimers, PauseDraft,
                   ArmGrace, FireGrace, CleanAfterGrace
<1>5. CASE ClearDisconnect
  <2>1. Moved /\ Armed BY <1>1, <1>2, <1>5, GotoMoves, SameTypes DEF ClearDisconnect, Moved
  <2>2. QED BY <1>4, <1>5, <2>1 DEF ClearDisconnect, TypeOK, Moved, Armed, Paid, Erred
<1>6. CASE EndPause
  <2>1. Moved /\ Armed BY <1>1, <1>2, <1>6, GotoMoves, SameTypes DEF EndPause, Moved
  <2>2. QED BY <1>4, <1>6, <2>1 DEF EndPause, TypeOK, Moved, Armed, Paid, Erred
<1>7. CASE ResumeTimers
  <2>1. Moved BY <1>1, <1>2, <1>7, GotoMoves DEF ResumeTimers, Moved
  <2>2. Armed BY <1>7, ArmOverTypes, ClearTimersTypes DEF ResumeTimers
  <2>3. QED BY <1>4, <1>7, <2>1, <2>2 DEF ResumeTimers, TypeOK, Moved, Armed, Paid, Erred, marks
<1>8. CASE PauseDraft
  <2>1. Moved /\ Armed BY <1>1, <1>2, <1>8, GotoMoves, SameTypes DEF PauseDraft, Moved
  <2>2. QED BY <1>3, <1>4, <1>8, <2>1 DEF PauseDraft, TypeOK, Moved, Armed, Paid, Erred
<1>9. CASE ArmGrace
  <2>1. Moved /\ Armed BY <1>1, <1>2, <1>9, GotoMoves, ClearTimersTypes DEF ArmGrace, Moved
  <2>2. QED BY <1>4, <1>9, <2>1 DEF ArmGrace, TypeOK, Moved, Armed, Paid, Erred
<1>10. CASE FireGrace
  <2>1. Moved BY <1>1, <1>2, <1>10, GotoMoves, SameTypes DEF FireGrace, Moved
  <2>2. Armed BY <1>10, SameTypes DEF FireGrace
  <2>3. QED BY <1>4, <1>10, <2>1, <2>2 DEF FireGrace, TypeOK, Moved, Armed, Paid, Erred
<1>11. CASE CleanAfterGrace
  <2>1. Moved /\ Armed BY <1>1, <1>2, <1>11, GotoMoves, ClearTimersTypes DEF CleanAfterGrace, Moved
  <2>2. QED BY <1>4, <1>11, <2>1 DEF CleanAfterGrace, TypeOK, Moved, Armed, Paid, Erred
<1>12. QED
  BY <1>5, <1>6, <1>7, <1>8, <1>9, <1>10, <1>11 DEF Resume, Pause, Expiry

\* So do the timers' handlers.
LEMMA TimerTypes ==
    ASSUME TypeOK, Ripen \/ FireAuto \/ AutoGoesOn \/ FireAi
    PROVE  TypeOK'
<1>1. {"idle", "insert", "complete", "abort"} \subseteq Stages BY DEF Stages
<1>2. {AutoBan, AiBan} \subseteq Actors BY DEF Actors
<1>3. Turn \in Members /\ Second \in Members BY TurnIsMembers DEF Turn, TypeOK, Bans, Members
<1>4. UNCHANGED <<bot, lobby, bans, ready, marks, away, completing>>
  BY DEF Ripen, FireAuto, AutoGoesOn, FireAi
<1>5. Paid /\ Erred BY SameTypes DEF Ripen, FireAuto, AutoGoesOn, FireAi
<1>6. Moved
  BY <1>1, <1>2, <1>3, GotoMoves, StartMoves, SameTypes
  DEF Ripen, FireAuto, AutoGoesOn, FireAi, Moved
<1>7. Armed
  <2>1. CASE Ripen BY <2>1 DEF Ripen, TypeOK, Armed
  <2>2. CASE FireAuto
    <3>1. CASE ArmOver("none", aiDue, bans, ready) BY <3>1, ArmOverTypes DEF TypeOK
    <3>2. CASE Schedule("none") /\ UNCHANGED aiDue BY <3>2 DEF Schedule, TypeOK, Armed
    <3>3. QED BY <2>2, <3>1, <3>2 DEF FireAuto
  <2>3. CASE AutoGoesOn BY <2>3, ArmOverTypes DEF AutoGoesOn, ArmTurn, TypeOK
  <2>4. CASE FireAi BY <2>4 DEF FireAi, Schedule, TypeOK, Armed
  <2>5. QED BY <2>1, <2>2, <2>3, <2>4
<1>8. QED BY <1>4, <1>5, <1>6, <1>7 DEF TypeOK, Moved, Armed, Paid, Erred, marks

\* So do the players' own moves.
LEMMA PlayerTypes ==
    ASSUME TypeOK, NEW u \in Members, Click(u) \/ UiReady(u) \/ Drop(u) \/ Reconnect(u)
    PROVE  TypeOK'
<1>1. {"insert", "pause", "resume"} \subseteq Stages BY DEF Stages
<1>2. u \in Actors /\ Link \in Actors BY DEF Actors
<1>3. Paid BY SameTypes DEF Click, UiReady, Drop, Reconnect
<1>4. CASE Click(u)
  <2>1. Moved BY <1>1, <1>2, <1>4, GotoMoves DEF Click, Moved
  <2>2. Armed /\ Erred BY <1>4, SameTypes DEF Click
  <2>3. QED BY <1>3, <1>4, <2>1, <2>2 DEF Click, TypeOK, Moved, Armed, Paid, Erred, marks
<1>5. CASE UiReady(u)
  <2>1. Len(bans) \in {0, 1}
    <3>1. Len(bans) \in 0..2 BY BansLength DEF TypeOK, Bans
    <3>2. Len(bans) < 2 BY <1>5 DEF UiReady
    <3>3. QED BY <3>1, <3>2
  <2>2. ready' \subseteq Members \X {0, 1} BY <1>5, <2>1 DEF UiReady, TypeOK
  <2>3. Armed BY <1>5, ArmOverTypes DEF UiReady, TypeOK
  <2>4. Moved /\ Erred BY <1>5, SameTypes DEF UiReady
  <2>5. QED BY <1>3, <1>5, <2>2, <2>3, <2>4 DEF UiReady, TypeOK, Moved, Armed, Paid, Erred, marks
<1>6. CASE Drop(u)
  <2>1. Moved BY <1>1, <1>2, <1>6, StartMoves DEF Drop, Moved
  <2>2. Erred BY <1>6, BoundsAssumption DEF Drop, TypeOK, Erred
  <2>3. Armed BY <1>6, SameTypes DEF Drop
  <2>4. QED BY <1>3, <1>6, <2>1, <2>2, <2>3 DEF Drop, TypeOK, Moved, Armed, Paid, Erred, marks
<1>7. CASE Reconnect(u)
  <2>1. Moved BY <1>1, <1>2, <1>7, StartMoves, SameTypes DEF Reconnect, Moved
  <2>2. Armed /\ Erred BY <1>7, SameTypes DEF Reconnect
  <2>3. QED BY <1>3, <1>7, <2>1, <2>2 DEF Reconnect, TypeOK, Moved, Armed, Paid, Erred, marks
<1>8. QED BY <1>4, <1>5, <1>6, <1>7

-----------------------------------------------------------------------------
(* The lock *)

\* A step of somebody who does not hold the lock, to a stage outside the completion.
LEMMA AsideLock ==
    ASSUME TypeOK, LockInv, NEW a \in Actors, NEW s \in Stages \ Holding,
           completing # a, pc' = [pc EXCEPT ![a] = s], completing' = completing,
           a = Grace => s \in {"idle", "abort", "teardown", "clean"}
    PROVE  LockInv' /\ Stage' = Stage
<1>1. pc \in [Actors -> Stages] /\ Free \notin Actors BY ActorsAssumption DEF TypeOK
<1>2. pc'[a] = s /\ \A x \in Actors \ {a} : pc'[x] = pc[x] BY <1>1
<1>3. completing # Free => completing \in Actors \ {a} BY DEF TypeOK, Completers
<1>4. GraceOnlyAborts' BY <1>2 DEF LockInv, GraceOnlyAborts, Actors
<1>5. CompletionHeld' BY <1>2, <1>3 DEF LockInv, CompletionHeld
<1>6. Stage' = Stage BY <1>2, <1>3 DEF Stage
<1>7. QED BY <1>4, <1>5, <1>6 DEF LockInv

\* The holder, or who acquires the lock, goes on to a stage of the completion.
LEMMA HolderGoesOn ==
    ASSUME TypeOK, LockInv, NEW a \in Actors \ {Grace}, NEW s \in Holding \cup Aborting,
           completing' = a, \A x \in Actors \ {a} : pc[x] \notin Holding,
           pc' = [pc EXCEPT ![a] = s]
    PROVE  LockInv' /\ Stage' = s
<1>1. pc \in [Actors -> Stages] /\ Free \notin Actors BY ActorsAssumption DEF TypeOK
<1>2. pc'[a] = s /\ \A x \in Actors \ {a} : pc'[x] = pc[x] BY <1>1
<1>3. GraceOnlyAborts' BY <1>2 DEF LockInv, GraceOnlyAborts, Actors
<1>4. CompletionHeld' BY <1>2 DEF CompletionHeld
<1>5. Stage' = s BY <1>1, <1>2 DEF Stage
<1>6. QED BY <1>3, <1>4, <1>5 DEF LockInv

\* The holder releases it.
LEMMA HolderLeaves ==
    ASSUME TypeOK, LockInv, NEW a \in Actors \ {Grace}, completing = a,
           completing' = Free, Return(a)
    PROVE  LockInv' /\ Stage' = "free"
<1>1. pc \in [Actors -> Stages] BY DEF TypeOK
<1>2. PICK s \in {"idle", "again"} : pc' = [pc EXCEPT ![a] = s] BY ReturnMoves
<1>3. pc'[a] = s /\ \A x \in Actors \ {a} : pc'[x] = pc[x] BY <1>1, <1>2
<1>4. GraceOnlyAborts' BY <1>3 DEF LockInv, GraceOnlyAborts, Actors
<1>5. CompletionHeld'
  <2>1. \A x \in Actors \ {a} : pc[x] \notin Holding BY DEF LockInv, CompletionHeld
  <2>2. QED BY <1>3, <2>1 DEF CompletionHeld, Holding
<1>6. QED BY <1>4, <1>5 DEF LockInv, Stage

\* Who is at a stage of the completion holds its lock.
LEMMA AtStage ==
    ASSUME TypeOK, LockInv, NEW a \in Actors,
           pc[a] \in Holding \/ (completing = a /\ pc[a] \in Aborting)
    PROVE  /\ completing = a /\ a # Grace /\ Stage = pc[a]
           /\ \A x \in Actors \ {a} : pc[x] \notin Holding
<1>1. completing = a /\ \A x \in Actors : pc[x] \in Holding => completing = x
  BY DEF LockInv, CompletionHeld
<1>2. a # Grace BY <1>1, ActorsAssumption DEF TypeOK, Completers
<1>3. QED BY <1>1, <1>2, ActorsAssumption DEF Stage

\* Who is at neither a stage of the completion nor one of the abort does not hold it.
LEMMA NotAtStage ==
    ASSUME TypeOK, LockInv, NEW a \in Actors, pc[a] \notin Holding \cup Aborting
    PROVE  completing # a
BY ActorsAssumption DEF LockInv, CompletionHeld

-----------------------------------------------------------------------------
(* The invariant *)

\* Nothing but the number of errors changes for payments and matches, and the lobby and
\* the bot's reservation may go.
LEMMA MoneyStays ==
    ASSUME TypeOK, MoneyInv, Stage' = Stage, throws' \in Nat, throws' >= throws,
           lobby' = "active" => lobby = "active", reserved' => reserved,
           UNCHANGED <<bot, live, spent, leaked, stranded>>
    PROVE  MoneyInv'
<1>1. Accounted' BY DEF MoneyInv, Accounted, TypeOK
<1>2. Counted'
  <2>1. CASE Stage \in {"consume", "signals", "create"} BY <2>1 DEF MoneyInv, Counted
  <2>2. CASE Stage \notin {"consume", "signals", "create"}
    <3>1. CASE lobby' = "active" BY <3>1 DEF MoneyInv, Counted, Active
    <3>2. CASE lobby' # "active"
      <4>1. live <= 1 + stranded BY DEF MoneyInv, Counted, TypeOK
      <4>2. QED BY <2>2, <3>2, <4>1 DEF Counted, Active
    <3>3. QED BY <3>1, <3>2
  <2>3. QED BY <2>1, <2>2
<1>3. CreatedIsLive' BY DEF MoneyInv, CreatedIsLive
<1>4. BotCounted' BY DEF MoneyInv, BotCounted, TypeOK
<1>5. QED BY <1>1, <1>2, <1>3, <1>4 DEF MoneyInv

\* A bot's match is as safe as before when nobody goes to a teardown.
LEMMA BotStaysSafe ==
    ASSUME TypeOK, BotMatchSafe, NEW a \in Actors, NEW s \in Stages,
           pc' = [pc EXCEPT ![a] = s], UNCHANGED <<bot, live>>,
           s \in {"teardown", "undoing"} => live = 0,
           lobby' = "gone" => lobby = "gone" \/ pc[a] \in {"teardown", "undoing"}
    PROVE  BotMatchSafe'
<1>1. SUFFICES ASSUME bot, live > 0
      PROVE  lobby' # "gone" /\ \A x \in Actors : pc'[x] \notin {"teardown", "undoing"}
  BY DEF BotMatchSafe
<1>2. lobby # "gone" /\ \A x \in Actors : pc[x] \notin {"teardown", "undoing"}
  BY <1>1 DEF BotMatchSafe
<1>3. s \notin {"teardown", "undoing"} BY <1>1
<1>4. pc \in [Actors -> Stages] BY DEF TypeOK
<1>5. QED BY <1>2, <1>3, <1>4

\* A step of somebody who does not hold the lock, to a stage outside the completion,
\* keeps the invariant; it may end a teardown.
LEMMA AsideKeeps ==
    ASSUME TypeOK, DraftInv, NEW a \in Actors, NEW s \in Stages \ Holding,
           completing # a, pc' = [pc EXCEPT ![a] = s],
           s = "teardown" => live = 0,
           a = Grace => s \in {"idle", "abort", "teardown", "clean"},
           lobby' = lobby \/ (lobby' = "gone" /\ pc[a] = "teardown"),
           reserved' => reserved, throws' \in Nat, throws' >= throws,
           UNCHANGED <<bot, completing, live, spent, leaked, stranded>>
    PROVE  DraftInv'
<1>1. LockInv' /\ Stage' = Stage BY AsideLock DEF DraftInv
<1>2. MoneyInv' BY <1>1, MoneyStays DEF DraftInv
<1>3. s # "undoing" BY DEF Holding
<1>4. BotMatchSafe' BY <1>3, BotStaysSafe DEF DraftInv
<1>5. QED BY <1>1, <1>2, <1>4 DEF DraftInv

\* A step that moves nobody keeps it, too.
LEMMA StillKeeps ==
    ASSUME TypeOK, DraftInv, throws' \in Nat, throws' >= throws,
           UNCHANGED <<pc, bot, lobby, completing, reserved, live, spent, leaked, stranded>>
    PROVE  DraftInv'
<1>1. LockInv' /\ Stage' = Stage
  BY DEF DraftInv, LockInv, GraceOnlyAborts, CompletionHeld, Stage
<1>2. MoneyInv' BY <1>1, MoneyStays DEF DraftInv
<1>3. BotMatchSafe' BY DEF DraftInv, BotMatchSafe
<1>4. QED BY <1>1, <1>2, <1>3 DEF DraftInv

\* The holder of the lock goes on, and payments and matches stay: from a stage that
\* accounts for them as the next one does.
LEMMA HolderKeeps ==
    ASSUME TypeOK, DraftInv, NEW a \in Actors, NEW s \in Holding \cup Aborting,
           pc[a] \in (Holding \cup Aborting) \ {"created"}, completing = a, completing' = a,
           pc' = [pc EXCEPT ![a] = s],
           s \in {"signals", "create"} <=> pc[a] \in {"signals", "create"},
           s = "created" => FALSE,
           s \in {"consume", "signals", "create"} => pc[a] \in {"consume", "signals", "create"},
           s \in {"teardown", "undoing"} => live = 0,
           throws' \in Nat, throws' >= throws,
           UNCHANGED <<bot, lobby, reserved, live, spent, leaked, stranded>>
    PROVE  DraftInv'
<1>1. /\ a # Grace /\ Stage = pc[a] /\ \A x \in Actors \ {a} : pc[x] \notin Holding
      /\ s \in Stages
  BY AtStage DEF DraftInv, Holding, Aborting, Stages
<1>2. LockInv' /\ Stage' = s BY <1>1, HolderGoesOn DEF DraftInv
<1>3. Accounted' BY <1>1, <1>2 DEF DraftInv, MoneyInv, Accounted, TypeOK
<1>4. Counted' BY <1>1, <1>2 DEF DraftInv, MoneyInv, Counted, Active, TypeOK
<1>5. CreatedIsLive' BY <1>2 DEF CreatedIsLive
<1>6. BotCounted' BY DEF DraftInv, MoneyInv, BotCounted
<1>7. BotMatchSafe' BY <1>1, BotStaysSafe DEF DraftInv
<1>8. QED BY <1>2, <1>3, <1>4, <1>5, <1>6, <1>7 DEF DraftInv, MoneyInv

\* Errors are only counted up.
LEMMA ThrowsGrow ==
    ASSUME TypeOK, NEW n \in Nat, Throws(n)
    PROVE  throws' \in Nat /\ throws' = throws + n
BY DEF Throws, TypeOK

\* Bans are made outside the completion.
LEMMA BanKeeps ==
    ASSUME TypeOK, DraftInv, NEW a \in Actors, Ban(a)
    PROVE  DraftInv'
<1>1. pc[a] = "insert" /\ UNCHANGED <<lobby, bot, completing, money>>
  BY DEF Ban, InsertBan, InsertFails, At
<1>2. PICK s \in {"idle", "complete"} : Goto(a, s) BY DEF Ban, InsertBan, InsertFails
<1>3. s \in Stages \ Holding /\ s # "teardown" BY DEF Stages, Holding
<1>4. pc' = [pc EXCEPT ![a] = s] BY <1>2, <1>3, GotoMoves
<1>5. completing # a /\ a # Grace
  BY <1>1, NotAtStage DEF Holding, Aborting, DraftInv, LockInv, GraceOnlyAborts
<1>6. throws' \in Nat /\ throws' >= throws
  <2>1. UNCHANGED errors \/ \E n \in 0..1 : Throws(n) BY DEF Ban, InsertBan, InsertFails
  <2>2. CASE UNCHANGED errors BY <2>2 DEF errors, TypeOK
  <2>3. CASE \E n \in 0..1 : Throws(n) BY <2>3, ThrowsGrow DEF TypeOK
  <2>4. QED BY <2>1, <2>2, <2>3
<1>7. QED BY <1>1, <1>3, <1>4, <1>5, <1>6, AsideKeeps DEF money

\* Somebody acquires the completion lock, or looks at it and goes.
LEMMA AcquireKeeps ==
    ASSUME TypeOK, DraftInv, NEW a \in Actors, FindCompleting(a) \/ AcquireCompletion(a)
    PROVE  DraftInv'
<1>1. pc[a] = "complete" /\ UNCHANGED <<lobby, bot, money, errors>>
  BY DEF FindCompleting, AcquireCompletion, At
<1>2. a # Grace /\ completing # a
  BY <1>1, NotAtStage DEF DraftInv, LockInv, GraceOnlyAborts, Holding, Aborting
<1>3. throws' = throws /\ throws' \in Nat BY <1>1 DEF errors, TypeOK
<1>4. CASE Return(a) /\ completing' = completing
  <2>1. PICK s \in {"idle", "again"} : pc' = [pc EXCEPT ![a] = s] BY <1>4, ReturnMoves
  <2>2. s \in Stages \ Holding /\ s # "teardown" BY DEF Stages, Holding
  <2>3. throws' >= throws BY <1>3
  <2>4. QED BY <1>1, <1>2, <1>3, <1>4, <2>1, <2>2, <2>3, AsideKeeps DEF money
<1>5. CASE completing = Free /\ Active /\ completing' = a /\ Goto(a, "consume")
  <2>1. pc' = [pc EXCEPT ![a] = "consume"] BY <1>5, GotoMoves DEF Stages
  <2>2. \A x \in Actors : pc[x] \notin Holding
    BY <1>5, ActorsAssumption DEF DraftInv, LockInv, CompletionHeld
  <2>3. Stage = "free" BY <1>5 DEF Stage
  <2>4. LockInv' /\ Stage' = "consume"
    BY <1>2, <1>5, <2>1, <2>2, HolderGoesOn DEF DraftInv, Holding
  <2>5. Accounted' BY <1>1, <1>3, <2>3, <2>4 DEF DraftInv, MoneyInv, Accounted, money
  <2>6. Counted' BY <1>1, <1>5, <2>3, <2>4 DEF DraftInv, MoneyInv, Counted, Active, money
  <2>7. CreatedIsLive' /\ BotCounted'
    BY <1>1, <2>4 DEF DraftInv, MoneyInv, CreatedIsLive, BotCounted, money
  <2>8. BotMatchSafe' BY <1>1, <2>1, BotStaysSafe DEF DraftInv, money, Stages
  <2>9. QED BY <2>4, <2>5, <2>6, <2>7, <2>8 DEF DraftInv, MoneyInv
<1>6. QED BY <1>4, <1>5 DEF FindCompleting, AcquireCompletion

\* The tickets are spent, or not.
LEMMA ConsumeKeeps ==
    ASSUME TypeOK, DraftInv, NEW a \in Actors, ConsumeTickets(a) \/ NoTickets(a)
    PROVE  DraftInv'
<1>1. pc[a] = "consume" /\ UNCHANGED <<lobby, bot, completing>>
  BY DEF ConsumeTickets, NoTickets, At
<1>2. /\ completing = a /\ a # Grace /\ Stage = "consume"
      /\ \A x \in Actors \ {a} : pc[x] \notin Holding
  BY <1>1, AtStage DEF DraftInv, Holding
<1>3. CASE ConsumeTickets(a)
  <2>1. /\ spent' = spent + 1
        /\ UNCHANGED <<reserved, live, leaked, stranded>> /\ throws' = throws
    BY <1>3 DEF ConsumeTickets, errors
  <2>2. pc' = [pc EXCEPT ![a] = "signals"] BY <1>3, GotoMoves DEF ConsumeTickets, Stages
  <2>3. LockInv' /\ Stage' = "signals"
    BY <1>1, <1>2, <2>2, HolderGoesOn DEF DraftInv, Holding
  <2>4. Accounted' BY <1>2, <2>1, <2>3 DEF DraftInv, MoneyInv, Accounted, TypeOK
  <2>5. Counted' BY <1>2, <2>1, <2>3 DEF DraftInv, MoneyInv, Counted
  <2>6. CreatedIsLive' /\ BotCounted'
    BY <1>1, <2>1, <2>3 DEF DraftInv, MoneyInv, CreatedIsLive, BotCounted
  <2>7. BotMatchSafe' BY <1>1, <2>1, <2>2, BotStaysSafe DEF DraftInv, Stages
  <2>8. QED BY <2>3, <2>4, <2>5, <2>6, <2>7 DEF DraftInv, MoneyInv
<1>4. CASE NoTickets(a)
  <2>1. PICK s \in {"abort", "failed"} : Goto(a, s) BY <1>4 DEF NoTickets
  <2>2. pc' = [pc EXCEPT ![a] = s] /\ s \in Holding \cup Aborting
    BY <2>1, GotoMoves DEF Stages, Holding, Aborting
  <2>3. throws' \in Nat /\ throws' >= throws
    <3>1. CASE UNCHANGED errors BY <3>1 DEF errors, TypeOK
    <3>2. CASE Throws(1) BY <3>2, ThrowsGrow DEF TypeOK
    <3>3. QED BY <1>4, <3>1, <3>2 DEF NoTickets
  <2>4. pc[a] \in (Holding \cup Aborting) \ {"created"} BY <1>1 DEF Holding
  <2>5. UNCHANGED <<reserved, live, spent, leaked, stranded>> BY <1>4 DEF NoTickets, money
  <2>6. QED BY <1>1, <1>2, <2>2, <2>3, <2>4, <2>5, HolderKeeps
<1>5. QED BY <1>3, <1>4

\* The second look at the signals: it goes on, or the payment comes back, or an error
\* keeps it.
LEMMA SignalsKeep ==
    ASSUME TypeOK, DraftInv, NEW a \in Actors, CheckSignals(a) \/ SignalsThrow(a)
    PROVE  DraftInv'
<1>1. /\ pc[a] = "signals"
      /\ UNCHANGED <<lobby, bot, completing, reserved, live, stranded>>
  BY DEF CheckSignals, SignalsThrow, At
<1>2. /\ completing = a /\ a # Grace /\ Stage = "signals"
      /\ \A x \in Actors \ {a} : pc[x] \notin Holding
  BY <1>1, AtStage DEF DraftInv, Holding
<1>3. CASE Goto(a, "create") /\ UNCHANGED <<spent, leaked, errors>>
  <2>1. pc' = [pc EXCEPT ![a] = "create"] BY <1>3, GotoMoves DEF Stages
  <2>2. throws' \in Nat /\ throws' >= throws BY <1>3 DEF errors, TypeOK
  <2>3. pc[a] \in (Holding \cup Aborting) \ {"created"} BY <1>1 DEF Holding
  <2>4. "create" \in Holding \cup Aborting BY DEF Holding
  <2>5. QED BY <1>1, <1>2, <1>3, <2>1, <2>2, <2>3, <2>4, HolderKeeps
<1>4. ASSUME NEW s \in {"abort", "failed"}, Goto(a, s), NEW kept \in 0..1,
             leaked' = leaked + kept, spent' = (spent - 1) + kept, throws' = throws + kept
      PROVE  DraftInv'
  <2>1. pc' = [pc EXCEPT ![a] = s] /\ s \in Holding \cup Aborting
    BY <1>4, GotoMoves DEF Stages, Holding, Aborting
  <2>2. LockInv' /\ Stage' = s BY <1>1, <1>2, <2>1, HolderGoesOn DEF DraftInv
  <2>3. Accounted'
    <3>1. spent = live + leaked + 1 /\ leaked <= throws
      BY <1>2 DEF DraftInv, MoneyInv, Accounted
    <3>2. s \notin {"signals", "create"} OBVIOUS
    <3>3. live \in Nat /\ leaked \in Nat /\ throws \in Nat /\ kept \in Nat
      BY <1>4, BoundsAssumption DEF TypeOK
    <3>4. live' = live BY <1>1
    <3>5. spent' = live + (leaked + kept) + 0 BY <1>4, <3>1, <3>3
    <3>6. leaked + kept <= throws + kept BY <3>1, <3>3
    <3>7. spent' = live' + leaked' + 0 /\ leaked' <= throws' BY <1>4, <3>4, <3>5, <3>6
    <3>8. QED BY <2>2, <3>2, <3>7 DEF Accounted
  <2>4. Counted' BY <1>1, <1>2, <2>2 DEF DraftInv, MoneyInv, Counted, TypeOK
  <2>5. CreatedIsLive' /\ BotCounted'
    BY <1>1, <2>2 DEF DraftInv, MoneyInv, CreatedIsLive, BotCounted
  <2>6. BotMatchSafe' BY <1>1, <2>1, BotStaysSafe DEF DraftInv, Stages
  <2>7. QED BY <2>2, <2>3, <2>4, <2>5, <2>6 DEF DraftInv, MoneyInv
<1>5. CASE CheckSignals(a)
  <2>1. CASE absent = {} BY <1>3, <1>5, <2>1 DEF CheckSignals
  <2>2. CASE absent # {}
    <3>1. PICK kept \in 0..1 : Refund(kept) /\ Throws(kept) BY <1>5, <2>2 DEF CheckSignals
    <3>2. Goto(a, "abort") BY <1>5, <2>2 DEF CheckSignals
    <3>3. QED BY <1>4, <3>1, <3>2 DEF Refund, Throws
  <2>3. QED BY <2>1, <2>2
<1>6. CASE SignalsThrow(a)
  <2>1. leaked' = leaked + 1 /\ throws' = throws + 1 /\ Goto(a, "failed") /\ spent' = spent
    BY <1>6 DEF SignalsThrow, Throws
  <2>2. spent' = (spent - 1) + 1 BY <2>1 DEF TypeOK
  <2>3. QED BY <1>4, <2>1, <2>2
<1>7. QED BY <1>5, <1>6

\* The match is created.
LEMMA CreateKeeps ==
    ASSUME TypeOK, DraftInv, NEW a \in Actors, CreateMatch(a)
    PROVE  DraftInv'
<1>1. /\ pc[a] = "create" /\ UNCHANGED <<lobby, bot, completing, spent, leaked, stranded>>
      /\ live' = live + 1 /\ reserved' = FALSE /\ throws' = throws
  BY DEF CreateMatch, At, errors
<1>2. /\ completing = a /\ a # Grace /\ Stage = "create"
      /\ \A x \in Actors \ {a} : pc[x] \notin Holding
  BY <1>1, AtStage DEF DraftInv, Holding
<1>3. pc' = [pc EXCEPT ![a] = "created"] BY GotoMoves DEF CreateMatch, Stages
<1>4. LockInv' /\ Stage' = "created"
  BY <1>1, <1>2, <1>3, HolderGoesOn DEF DraftInv, Holding
<1>5. Accounted' BY <1>1, <1>2, <1>4 DEF DraftInv, MoneyInv, Accounted, TypeOK
<1>6. Counted' BY <1>1, <1>2, <1>4 DEF DraftInv, MoneyInv, Counted, TypeOK
<1>7. CreatedIsLive' BY <1>1 DEF CreatedIsLive, TypeOK
<1>8. BotCounted'
  <2>1. bot => live = 0 BY DEF CreateMatch, Creatable, DraftInv, MoneyInv, BotCounted, TypeOK
  <2>2. bot => live' = 1 BY <1>1, <2>1
  <2>3. QED BY <1>1, <2>2 DEF BotCounted
<1>9. BotMatchSafe'
  <2>1. SUFFICES ASSUME bot
        PROVE  lobby' # "gone" /\ \A x \in Actors : pc'[x] \notin {"teardown", "undoing"}
    BY <1>1 DEF BotMatchSafe
  <2>2. lobby # "gone" /\ \A x \in Actors : pc[x] \notin {"teardown", "undoing"}
    BY <2>1 DEF CreateMatch, Creatable
  <2>3. pc \in [Actors -> Stages] BY DEF TypeOK
  <2>4. QED BY <1>1, <1>3, <2>2, <2>3
<1>10. QED BY <1>4, <1>5, <1>6, <1>7, <1>8, <1>9 DEF DraftInv, MoneyInv

\* It is not, and the payment comes back or an error keeps it.
LEMMA CreateFailsKeeps ==
    ASSUME TypeOK, DraftInv, NEW a \in Actors, CreateFails(a)
    PROVE  DraftInv'
<1>1. pc[a] = "create" /\ UNCHANGED <<lobby, bot, completing, reserved, live, stranded>>
  BY DEF CreateFails, At
<1>2. /\ completing = a /\ a # Grace /\ Stage = "create"
      /\ \A x \in Actors \ {a} : pc[x] \notin Holding
  BY <1>1, AtStage DEF DraftInv, Holding
<1>3. pc' = [pc EXCEPT ![a] = "failed"] BY GotoMoves DEF CreateFails, Stages
<1>4. LockInv' /\ Stage' = "failed"
  BY <1>1, <1>2, <1>3, HolderGoesOn DEF DraftInv, Holding
<1>5. Accounted'
  <2>1. PICK kept \in 0..1, n \in 0..1 : Refund(kept) /\ Throws(kept + n)
    <3>1. PICK kept \in 0..1 : Refund(kept) /\ Throws(kept + (IF Creatable THEN 1 ELSE 0))
      BY DEF CreateFails
    <3>2. CASE Creatable
      <4>1. Throws(kept + 1) BY <3>1, <3>2
      <4>2. QED BY <3>1, <4>1
    <3>3. CASE ~Creatable
      <4>1. Throws(kept + 0) BY <3>1, <3>3
      <4>2. QED BY <3>1, <4>1
    <3>4. QED BY <3>2, <3>3
  <2>2. spent = live + leaked + 1 /\ leaked <= throws
    BY <1>2 DEF DraftInv, MoneyInv, Accounted
  <2>3. spent' = (spent - 1) + kept /\ leaked' = leaked + kept /\ throws' = throws + (kept + n)
    BY <2>1 DEF Refund, Throws
  <2>4. {live, spent, leaked, throws} \subseteq Nat BY DEF TypeOK
  <2>5. leaked' <= throws' BY <2>2, <2>3, <2>4
  <2>6. spent' = live' + leaked' + 0 BY <1>1, <2>2, <2>3, <2>4
  <2>7. QED BY <1>4, <2>5, <2>6 DEF Accounted
<1>6. Counted' BY <1>1, <1>2, <1>4 DEF DraftInv, MoneyInv, Counted, TypeOK
<1>7. CreatedIsLive' /\ BotCounted'
  BY <1>1, <1>4 DEF DraftInv, MoneyInv, CreatedIsLive, BotCounted
<1>8. BotMatchSafe' BY <1>1, <1>3, BotStaysSafe DEF DraftInv, Stages
<1>9. QED BY <1>4, <1>5, <1>6, <1>7, <1>8 DEF DraftInv, MoneyInv

\* A completion that failed ends.
LEMMA ReleaseKeeps ==
    ASSUME TypeOK, DraftInv, NEW a \in Actors, ReleaseFailed(a)
    PROVE  DraftInv'
<1>1. /\ pc[a] = "failed" /\ completing' = Free /\ Return(a)
      /\ UNCHANGED <<lobby, bot, reserved, live, spent, leaked, stranded, throws>>
  BY DEF ReleaseFailed, At, money, errors
<1>2. completing = a /\ a # Grace /\ Stage = "failed" BY <1>1, AtStage DEF DraftInv, Holding
<1>3. LockInv' /\ Stage' = "free" BY <1>1, <1>2, HolderLeaves DEF DraftInv
<1>4. Accounted' BY <1>1, <1>2, <1>3 DEF DraftInv, MoneyInv, Accounted
<1>5. Counted' BY <1>1, <1>2, <1>3 DEF DraftInv, MoneyInv, Counted, Active
<1>6. CreatedIsLive' /\ BotCounted'
  BY <1>1, <1>3 DEF DraftInv, MoneyInv, CreatedIsLive, BotCounted
<1>7. BotMatchSafe'
  <2>1. PICK s \in {"idle", "again"} : pc' = [pc EXCEPT ![a] = s] BY <1>1, ReturnMoves
  <2>2. s \in Stages /\ s \notin {"teardown", "undoing"} BY DEF Stages
  <2>3. QED BY <1>1, <2>1, <2>2, BotStaysSafe DEF DraftInv
<1>8. QED BY <1>3, <1>4, <1>5, <1>6, <1>7 DEF DraftInv, MoneyInv

\* So does one whose match begins, or is not abandoned because of an error.
LEMMA CloseKeeps ==
    ASSUME TypeOK, DraftInv, NEW a \in Actors, BeginMatch(a) \/ AbandonFails(a)
    PROVE  DraftInv'
<1>1. /\ pc[a] = "created" /\ completing' = Free /\ Return(a)
      /\ UNCHANGED <<bot, reserved, live, spent, leaked>>
  BY DEF BeginMatch, AbandonFails, CloseCompletion, At, money
<1>2. completing = a /\ a # Grace /\ Stage = "created" BY <1>1, AtStage DEF DraftInv, Holding
<1>3. LockInv' /\ Stage' = "free" BY <1>1, <1>2, HolderLeaves DEF DraftInv
<1>4. live <= 1 + stranded BY <1>2 DEF DraftInv, MoneyInv, Counted
<1>5. \/ lobby' # "active" /\ stranded' = stranded /\ throws' = throws
      \/ lobby' = lobby /\ stranded' = stranded + 1 /\ throws' = throws + 1
  BY DEF BeginMatch, AbandonFails, Throws, money, errors, TypeOK
<1>6. Accounted' BY <1>1, <1>2, <1>3, <1>5 DEF DraftInv, MoneyInv, Accounted, TypeOK
<1>7. Counted'
  <2>1. CASE lobby' # "active" /\ stranded' = stranded
    BY <1>1, <1>3, <1>4, <2>1 DEF Counted, Active
  <2>2. CASE stranded' = stranded + 1
    <3>1. live' <= stranded' /\ live' <= 1 + stranded' BY <1>1, <1>4, <2>2 DEF TypeOK
    <3>2. QED BY <3>1 DEF Counted
  <2>3. QED BY <1>5, <2>1, <2>2
<1>8. CreatedIsLive' /\ BotCounted'
  BY <1>1, <1>3 DEF DraftInv, MoneyInv, CreatedIsLive, BotCounted
<1>9. BotMatchSafe'
  <2>1. PICK s \in {"idle", "again"} : pc' = [pc EXCEPT ![a] = s] BY <1>1, ReturnMoves
  <2>2. s \in Stages /\ s \notin {"teardown", "undoing"} BY DEF Stages
  <2>3. lobby' = "gone" => lobby = "gone" BY DEF BeginMatch, AbandonFails
  <2>4. QED BY <1>1, <2>1, <2>2, <2>3, BotStaysSafe DEF DraftInv
<1>10. QED BY <1>3, <1>6, <1>7, <1>8, <1>9 DEF DraftInv, MoneyInv

\* The match is abandoned, and the payment comes back or an error keeps it.
LEMMA AbandonKeeps ==
    ASSUME TypeOK, DraftInv, NEW a \in Actors, AbandonMatch(a)
    PROVE  DraftInv'
<1>1. /\ pc[a] = "created" /\ live' = live - 1
      /\ UNCHANGED <<lobby, bot, completing, reserved, stranded>>
  BY DEF AbandonMatch, At
<1>2. /\ completing = a /\ a # Grace /\ Stage = "created"
      /\ \A x \in Actors \ {a} : pc[x] \notin Holding
  BY <1>1, AtStage DEF DraftInv, Holding
<1>3. pc' = [pc EXCEPT ![a] = "undo"] BY GotoMoves DEF AbandonMatch, Stages
<1>4. LockInv' /\ Stage' = "undo"
  BY <1>1, <1>2, <1>3, HolderGoesOn DEF DraftInv, Holding
<1>5. Accounted'
  <2>1. PICK kept \in 0..1 : Refund(kept) /\ Throws(kept) BY DEF AbandonMatch
  <2>2. spent = live + leaked /\ leaked <= throws
    BY <1>2 DEF DraftInv, MoneyInv, Accounted, TypeOK
  <2>3. spent' = (spent - 1) + kept /\ leaked' = leaked + kept /\ throws' = throws + kept
    BY <2>1 DEF Refund, Throws
  <2>4. {live, spent, leaked, throws} \subseteq Nat BY DEF TypeOK
  <2>5. spent' = live' + leaked' + 0 /\ leaked' <= throws' BY <1>1, <2>2, <2>3, <2>4
  <2>6. QED BY <1>4, <2>5 DEF Accounted
<1>6. Counted'
  <2>1. live <= 1 + stranded BY <1>2 DEF DraftInv, MoneyInv, Counted
  <2>2. live' <= stranded' /\ live' <= 1 + stranded' BY <1>1, <2>1 DEF TypeOK
  <2>3. QED BY <2>2 DEF Counted
<1>7. CreatedIsLive' BY <1>4 DEF CreatedIsLive
<1>8. BotCounted' BY <1>1 DEF DraftInv, MoneyInv, BotCounted, TypeOK
<1>9. BotMatchSafe'
  <2>1. bot => live <= 1
    <3>1. bot => live <= IF reserved THEN 0 ELSE 1 BY DEF DraftInv, MoneyInv, BotCounted
    <3>2. QED BY <3>1 DEF TypeOK
  <2>2. bot => ~(live' > 0) BY <1>1, <2>1 DEF TypeOK
  <2>3. QED BY <1>1, <2>2 DEF BotMatchSafe
<1>10. QED BY <1>4, <1>5, <1>6, <1>7, <1>8, <1>9 DEF DraftInv, MoneyInv

\* An error before the match began leaves it beside its draft, or the lobby is closed.
LEMMA BeginThrowsKeeps ==
    ASSUME TypeOK, DraftInv, NEW a \in Actors, BeginThrows(a)
    PROVE  DraftInv'
<1>1. /\ pc[a] = "created" /\ throws' = throws + 1
      /\ UNCHANGED <<bot, completing, reserved, live, spent, leaked>>
  BY DEF BeginThrows, Throws, At
<1>2. /\ completing = a /\ a # Grace /\ Stage = "created"
      /\ \A x \in Actors \ {a} : pc[x] \notin Holding
  BY <1>1, AtStage DEF DraftInv, Holding
<1>3. pc' = [pc EXCEPT ![a] = "failed"] BY GotoMoves DEF BeginThrows, Stages
<1>4. LockInv' /\ Stage' = "failed"
  BY <1>1, <1>2, <1>3, HolderGoesOn DEF DraftInv, Holding
<1>5. live <= 1 + stranded BY <1>2 DEF DraftInv, MoneyInv, Counted
<1>6. Accounted' BY <1>1, <1>2, <1>4 DEF DraftInv, MoneyInv, Accounted, TypeOK
<1>7. Counted'
  <2>1. CASE stranded' = stranded + 1
    <3>1. live' <= stranded' /\ live' <= 1 + stranded' BY <1>1, <1>5, <2>1 DEF TypeOK
    <3>2. QED BY <3>1 DEF Counted
  <2>2. CASE lobby' = "closed" /\ stranded' = stranded
    BY <1>1, <1>4, <1>5, <2>2 DEF Counted, Active
  <2>3. QED BY <2>1, <2>2 DEF BeginThrows
<1>8. CreatedIsLive' /\ BotCounted'
  BY <1>1, <1>4 DEF DraftInv, MoneyInv, CreatedIsLive, BotCounted
<1>9. BotMatchSafe'
  <2>1. lobby' = "gone" => lobby = "gone" BY DEF BeginThrows
  <2>2. QED BY <1>1, <1>3, <2>1, BotStaysSafe DEF DraftInv, Stages
<1>10. QED BY <1>4, <1>6, <1>7, <1>8, <1>9 DEF DraftInv, MoneyInv

\* What follows an abort, by the holder of the lock or beside it; the lobby may have been
\* torn down.
LEMMA AfterKeeps ==
    ASSUME TypeOK, DraftInv, NEW a \in Actors, AfterAbort(a),
           pc[a] \in {"abort", "undo", "teardown", "undoing"},
           lobby' = lobby \/ (lobby' = "gone" /\ pc[a] \in {"teardown", "undoing"}),
           reserved' => reserved, throws' \in Nat, throws' >= throws,
           UNCHANGED <<bot, live, spent, leaked, stranded>>
    PROVE  DraftInv'
<1>1. lobby' = "active" => lobby = "active" OBVIOUS
<1>2. CASE completing # a
  <2>1. pc[a] \notin {"undo", "undoing"} BY <1>2, AtStage DEF DraftInv, Holding
  <2>2. PICK s \in {"clean", "idle"} :
          Goto(a, s) /\ completing' = completing /\ (a = Grace => s = "clean")
    BY <1>2, <2>1 DEF AfterAbort
  <2>3. s \in Stages \ Holding /\ s # "teardown" BY DEF Stages, Holding
  <2>4. pc' = [pc EXCEPT ![a] = s] BY <2>2, <2>3, GotoMoves
  <2>5. QED BY <1>2, <2>1, <2>2, <2>3, <2>4, AsideKeeps
<1>3. CASE completing = a
  <2>1. /\ a # Grace /\ Stage = pc[a] /\ Stage \in {"abort", "undo", "teardown", "undoing"}
        /\ \A x \in Actors \ {a} : pc[x] \notin Holding
    BY <1>3, AtStage DEF DraftInv, Holding, Aborting
  <2>2. PICK s \in {"failed", "idle", "again"} :
          pc' = [pc EXCEPT ![a] = s] /\ s \in Stages /\ LockInv' /\ Stage' \in {"failed", "free"}
    <3>1. CASE CloseCompletion(a)
      <4>1. LockInv' /\ Stage' = "free"
        BY <1>3, <2>1, <3>1, HolderLeaves DEF DraftInv, CloseCompletion
      <4>2. PICK s \in {"idle", "again"} : pc' = [pc EXCEPT ![a] = s]
        BY <3>1, ReturnMoves DEF CloseCompletion
      <4>3. QED BY <4>1, <4>2 DEF Stages
    <3>2. CASE Goto(a, "failed") /\ UNCHANGED <<timers, completing>>
      <4>1. pc' = [pc EXCEPT ![a] = "failed"] /\ completing' = a
        BY <1>3, <3>2, GotoMoves DEF Stages
      <4>2. "failed" \in Holding \cup Aborting /\ "failed" \in Stages BY DEF Holding, Stages
      <4>3. LockInv' /\ Stage' = "failed" BY <2>1, <4>1, <4>2, HolderGoesOn DEF DraftInv
      <4>4. QED BY <4>1, <4>2, <4>3
    <3>3. QED BY <1>3, <2>1, <3>1, <3>2 DEF AfterAbort
  <2>3. Accounted' BY <2>1, <2>2 DEF DraftInv, MoneyInv, Accounted, TypeOK
  <2>4. Counted'
    <3>1. live <= 1 + stranded /\ (lobby = "active" => live <= stranded)
      BY <2>1 DEF DraftInv, MoneyInv, Counted, Active, TypeOK
    <3>2. Stage' \notin {"consume", "signals", "create", "created"} BY <2>2
    <3>3. CASE lobby' = "active" BY <1>1, <3>1, <3>3 DEF Counted, TypeOK
    <3>4. CASE lobby' # "active" BY <3>1, <3>2, <3>4 DEF Counted, Active
    <3>5. QED BY <3>3, <3>4
  <2>5. CreatedIsLive' BY <2>2 DEF CreatedIsLive
  <2>6. BotCounted' BY DEF DraftInv, MoneyInv, BotCounted, TypeOK
  <2>7. BotMatchSafe' BY <2>2, BotStaysSafe DEF DraftInv
  <2>8. QED BY <2>2, <2>3, <2>4, <2>5, <2>6, <2>7 DEF DraftInv, MoneyInv
<1>4. QED BY <1>2, <1>3

\* The look for a match, by the holder of the lock or beside it.
LEMMA LookKeeps ==
    ASSUME TypeOK, DraftInv, NEW a \in Actors, LookForMatch(a)
    PROVE  DraftInv'
<1>1. /\ pc[a] \in {"abort", "undo"}
      /\ UNCHANGED <<lobby, bot, reserved, live, spent, leaked, stranded, throws>>
  BY DEF LookForMatch, money, errors
<1>2. throws' \in Nat /\ throws' >= throws BY <1>1 DEF TypeOK
<1>3. CASE AfterAbort(a) BY <1>3, <1>1, <1>2, AfterKeeps
<1>4. CASE ~AfterAbort(a)
  <2>1. /\ live = 0 /\ completing' = completing
        /\ Goto(a, IF At(a, "abort") THEN "teardown" ELSE "undoing")
    BY <1>4 DEF LookForMatch, TypeOK
  <2>2. CASE pc[a] = "abort"
    <3>1. pc' = [pc EXCEPT ![a] = "teardown"] BY <2>1, <2>2, GotoMoves DEF At, Stages
    <3>2. CASE completing = a
      <4>1. "teardown" \in Holding \cup Aborting BY DEF Aborting
      <4>2. pc[a] \in (Holding \cup Aborting) \ {"created"} BY <2>2 DEF Aborting
      <4>3. QED BY <1>1, <1>2, <2>1, <2>2, <3>1, <3>2, <4>1, <4>2, HolderKeeps
    <3>3. CASE completing # a
      <4>1. "teardown" \in Stages \ Holding BY DEF Stages, Holding
      <4>2. QED BY <1>1, <1>2, <2>1, <3>1, <3>3, <4>1, AsideKeeps
    <3>4. QED BY <3>2, <3>3
  <2>3. CASE pc[a] = "undo"
    <3>1. pc' = [pc EXCEPT ![a] = "undoing"] BY <2>1, <2>3, GotoMoves DEF At, Stages
    <3>2. completing = a BY <2>3, AtStage DEF DraftInv, Holding
    <3>3. "undoing" \in Holding \cup Aborting BY DEF Holding
    <3>4. pc[a] \in (Holding \cup Aborting) \ {"created"} BY <2>3 DEF Holding
    <3>5. QED BY <1>1, <1>2, <2>1, <2>3, <3>1, <3>2, <3>3, <3>4, HolderKeeps
  <2>4. QED BY <1>1, <2>2, <2>3
<1>5. QED BY <1>3, <1>4

\* An abort keeps the invariant: nobody tears down the lobby of a bot's match.
LEMMA AbortKeeps ==
    ASSUME TypeOK, DraftInv, NEW a \in Actors, Abort(a)
    PROVE  DraftInv'
<1>1. CASE LookForMatch(a) BY <1>1, LookKeeps
<1>2. CASE TearDown(a)
  <2>1. /\ AfterAbort(a) /\ pc[a] \in {"teardown", "undoing"} /\ lobby' = "gone" /\ ~reserved'
        /\ UNCHANGED <<bot, live, spent, leaked, stranded, throws>>
    BY <1>2 DEF TearDown, errors
  <2>2. throws' \in Nat /\ throws' >= throws BY <2>1 DEF TypeOK
  <2>3. QED BY <2>1, <2>2, AfterKeeps
<1>3. CASE AbortThrows(a)
  <2>1. /\ completing = a /\ completing' = a
        /\ pc[a] \in {"abort", "teardown", "undo", "undoing"}
        /\ UNCHANGED <<lobby, bot, reserved, live, spent, leaked, stranded>>
    BY <1>3 DEF AbortThrows, money
  <2>2. throws' \in Nat /\ throws' >= throws BY <1>3, ThrowsGrow DEF AbortThrows, TypeOK
  <2>3. pc' = [pc EXCEPT ![a] = "failed"] BY <1>3, GotoMoves DEF AbortThrows, Stages
  <2>4. "failed" \in Holding \cup Aborting BY DEF Holding
  <2>5. pc[a] \in (Holding \cup Aborting) \ {"created"} BY <2>1 DEF Holding, Aborting
  <2>6. QED BY <2>1, <2>2, <2>3, <2>4, <2>5, HolderKeeps
<1>4. QED BY <1>1, <1>2, <1>3 DEF Abort

\* An error of a handler that does not hold the lock.
LEMMA ThrowKeeps ==
    ASSUME TypeOK, DraftInv, (\E a \in Actors : HandlerThrows(a)) \/ PopThrows
    PROVE  DraftInv'
<1>1. throws' \in Nat /\ throws' >= throws BY DEF HandlerThrows, PopThrows, TypeOK
<1>2. UNCHANGED <<lobby, bot, completing, reserved, live, spent, leaked, stranded>>
  BY DEF HandlerThrows, PopThrows, money
<1>3. ASSUME NEW a \in Actors, HandlerThrows(a) PROVE DraftInv'
  <2>1. completing # a /\ Goto(a, "idle") BY <1>3 DEF HandlerThrows
  <2>2. "idle" \in Stages \ Holding BY DEF Stages, Holding
  <2>3. pc' = [pc EXCEPT ![a] = "idle"] BY <2>1, <2>2, GotoMoves
  <2>4. QED BY <1>1, <1>2, <2>1, <2>2, <2>3, AsideKeeps
<1>4. CASE PopThrows BY <1>1, <1>2, <1>4, StillKeeps DEF PopThrows, control
<1>5. QED BY <1>3, <1>4

\* A disconnect, a reconnect and a grace expiry keep the invariant.
LEMMA LinkKeeps ==
    ASSUME TypeOK, DraftInv, Resume \/ Pause \/ Expiry
    PROVE  DraftInv'
<1>1. UNCHANGED <<lobby, bot, completing, money, errors>>
  BY DEF Resume, Pause, Expiry, ClearDisconnect, EndPause, ResumeTimers, PauseDraft, ArmGrace,
         FireGrace, CleanAfterGrace
<1>2. Link \in Actors /\ Grace \in Actors /\ Link # Grace BY ActorsAssumption DEF Actors
<1>3. throws' \in Nat /\ throws' >= throws BY <1>1 DEF errors, TypeOK
<1>4. CASE Resume \/ Pause
  <2>1. PICK s \in {"idle", "unpause", "restartTimers", "complete", "grace"} : Goto(Link, s)
    BY <1>4 DEF Resume, Pause, ClearDisconnect, EndPause, ResumeTimers, PauseDraft, ArmGrace
  <2>2. s \in Stages \ Holding /\ s # "teardown" BY DEF Stages, Holding
  <2>3. pc' = [pc EXCEPT ![Link] = s] BY <1>2, <2>1, <2>2, GotoMoves
  <2>4. pc[Link] \notin Holding \cup Aborting
    BY <1>4 DEF Resume, Pause, ClearDisconnect, EndPause, ResumeTimers, PauseDraft, ArmGrace,
                At, Holding, Aborting
  <2>5. completing # Link BY <1>2, <2>4, NotAtStage DEF DraftInv
  <2>6. QED BY <1>1, <1>2, <1>3, <2>2, <2>3, <2>5, AsideKeeps DEF money
<1>5. CASE Expiry
  <2>1. completing # Grace BY ActorsAssumption DEF TypeOK, Completers, Actors
  <2>2. CASE UNCHANGED control BY <1>1, <1>3, <2>2, StillKeeps DEF control, money
  <2>3. CASE ~UNCHANGED control
    <3>1. PICK s \in {"idle", "abort"} : Goto(Grace, s)
      BY <1>5, <2>3 DEF Expiry, FireGrace, CleanAfterGrace
    <3>2. s \in Stages \ Holding /\ s # "teardown" BY DEF Stages, Holding
    <3>3. pc' = [pc EXCEPT ![Grace] = s] BY <1>2, <3>1, <3>2, GotoMoves
    <3>4. QED BY <1>1, <1>2, <1>3, <2>1, <3>1, <3>2, <3>3, AsideKeeps DEF money
  <2>4. QED BY <2>2, <2>3
<1>6. QED BY <1>4, <1>5

\* So do the timers' handlers and the players' own moves.
LEMMA OthersKeep ==
    ASSUME TypeOK, DraftInv,
           \/ Ripen \/ FireAuto \/ AutoGoesOn \/ FireAi
           \/ \E u \in Members : Click(u) \/ UiReady(u) \/ Drop(u) \/ Reconnect(u)
    PROVE  DraftInv'
<1>1. UNCHANGED <<lobby, bot, completing, money, throws>>
  BY DEF Ripen, FireAuto, AutoGoesOn, FireAi, Click, UiReady, Drop, Reconnect, errors
<1>2. throws' \in Nat /\ throws' >= throws BY <1>1 DEF TypeOK
<1>3. Actors \ {Grace} = Members \cup {AutoBan, AiBan, Link}
  BY ActorsAssumption DEF Actors, Members
<1>4. Turn \in Members /\ Second \in Members BY TurnIsMembers DEF Turn, TypeOK, Bans, Members
<1>5. CASE UNCHANGED control BY <1>1, <1>2, <1>5, StillKeeps DEF control, money
<1>6. CASE ~UNCHANGED control
  <2>1. PICK a \in Actors \ {Grace}, s \in {"insert", "complete", "abort", "idle", "pause", "resume"} :
          /\ pc[a] \in {"idle", "again"}
          /\ Goto(a, s) \/ \E u \in Members : Start(a, s, u)
    BY <1>3, <1>4, <1>6 DEF Ripen, FireAuto, AutoGoesOn, FireAi, Click, UiReady, Drop, Reconnect, At
  <2>2. s \in Stages \ Holding /\ s # "teardown" BY DEF Stages, Holding
  <2>3. pc' = [pc EXCEPT ![a] = s] BY <2>1, <2>2, GotoMoves, StartMoves
  <2>4. completing # a BY <2>1, NotAtStage DEF DraftInv, Holding, Aborting
  <2>5. QED BY <1>1, <1>2, <2>1, <2>2, <2>3, <2>4, AsideKeeps DEF money
<1>7. QED BY <1>5, <1>6

-----------------------------------------------------------------------------
(* The theorems *)

\* Types and the inductive invariant hold in the beginning and through every step.
LEMMA Inductive == Spec => [](TypeOK /\ DraftInv)
<1>1. Init => TypeOK /\ DraftInv
  <2>1. SUFFICES ASSUME Init PROVE TypeOK /\ DraftInv OBVIOUS
  <2>2. TypeOK
    <3>1. pc \in [Actors -> Stages] BY <2>1 DEF Init, Stages
    <3>2. who \in [Actors -> Members] BY <2>1, DefaultIsMember DEF Init
    <3>3. {bot, ripe, aiDue, graceDue, paused, graceKey, reserved, empty, lost} \subseteq BOOLEAN
      BY <2>1 DEF Init
    <3>4. {live, spent, leaked, stranded} \subseteq Nat BY <2>1 DEF Init
    <3>5. drops \in 0..MaxDrops /\ throws \in 0..MaxThrows BY <2>1, BoundsAssumption DEF Init
    <3>6. QED BY <2>1, <3>1, <3>2, <3>3, <3>4, <3>5 DEF Init, TypeOK
  <2>3. Grace \in Actors /\ \A a \in Actors : pc[a] = "idle" BY <2>1 DEF Init, Actors
  <2>4. LockInv /\ Stage = "free"
    BY <2>1, <2>3 DEF Init, LockInv, GraceOnlyAborts, CompletionHeld, Holding, Stage
  <2>5. MoneyInv
    BY <2>1, <2>4 DEF Init, MoneyInv, Accounted, Counted, CreatedIsLive, BotCounted, Active
  <2>6. BotMatchSafe BY <2>1 DEF Init, BotMatchSafe
  <2>7. QED BY <2>2, <2>4, <2>5, <2>6 DEF DraftInv
<1>2. TypeOK /\ DraftInv /\ [Next]_vars => TypeOK' /\ DraftInv'
  <2>1. SUFFICES ASSUME TypeOK, DraftInv, [Next]_vars PROVE TypeOK' /\ DraftInv' OBVIOUS
  <2>2. ASSUME NEW u \in Members, Click(u) \/ UiReady(u) \/ Drop(u) \/ Reconnect(u)
        PROVE  TypeOK' /\ DraftInv'
    BY <2>1, <2>2, PlayerTypes, OthersKeep
  <2>3. ASSUME NEW a \in Actors, Ban(a)
        PROVE  TypeOK' /\ DraftInv'
    BY <2>1, <2>3, BanTypes, BanKeeps
  <2>4. ASSUME NEW a \in Actors, Complete(a)
        PROVE  TypeOK' /\ DraftInv'
    <3>1. TypeOK' BY <2>1, <2>4, CompleteTypes
    <3>2. DraftInv'
      BY <2>1, <2>4, AcquireKeeps, ConsumeKeeps, SignalsKeep, CreateKeeps, CreateFailsKeeps,
         ReleaseKeeps, CloseKeeps, AbandonKeeps, BeginThrowsKeeps DEF Complete
    <3>3. QED BY <3>1, <3>2
  <2>5. ASSUME NEW a \in Actors, Abort(a)
        PROVE  TypeOK' /\ DraftInv'
    BY <2>1, <2>5, AbortTypes, AbortKeeps
  <2>6. CASE (\E a \in Actors : HandlerThrows(a)) \/ PopThrows
    BY <2>1, <2>6, ThrowTypes, ThrowKeeps
  <2>7. CASE Resume \/ Pause \/ Expiry BY <2>1, <2>7, LinkTypes, LinkKeeps
  <2>8. CASE Ripen \/ FireAuto \/ AutoGoesOn \/ FireAi BY <2>1, <2>8, TimerTypes, OthersKeep
  <2>9. CASE UNCHANGED vars
    <3>1. TypeOK' BY <2>1, <2>9 DEF vars, timers, marks, money, errors, control, TypeOK
    <3>2. throws' \in Nat /\ throws' >= throws BY <2>1, <2>9 DEF vars, errors, TypeOK
    <3>3. DraftInv' BY <2>1, <2>9, <3>2, StillKeeps DEF vars, money, control
    <3>4. QED BY <3>1, <3>3
  <2>10. QED
    BY <2>1, <2>2, <2>3, <2>4, <2>5, <2>6, <2>7, <2>8, <2>9 DEF Next
<1>3. QED BY <1>1, <1>2, PTL DEF Spec

\* Every variable of a draft keeps its type: nobody bans twice, whoever's click, timer
\* and deadline collide, no grace expiry takes the completion lock, and no ticket is given
\* back that was not paid.
THEOREM TypeCorrect == Spec => []TypeOK
BY Inductive, PTL

\* However many handlers see two bans at the same moment and whatever throws, a lobby has
\* one active match more than errors left between a match's creation and the closing of
\* its lobby; a persistent bot's lobby has one.
THEOREM CreatesOneMatch == Spec => []OneMatch
<1>1. TypeOK /\ DraftInv => OneMatch
  <2>1. SUFFICES ASSUME TypeOK, DraftInv PROVE OneMatch OBVIOUS
  <2>2. CASE bot
    <3>1. live <= IF reserved THEN 0 ELSE 1 BY <2>1, <2>2 DEF DraftInv, MoneyInv, BotCounted
    <3>2. live <= 1 BY <2>1, <3>1 DEF TypeOK
    <3>3. QED BY <2>2, <3>2 DEF OneMatch
  <2>3. CASE ~bot
    <3>1. live <= 1 + stranded BY <2>1 DEF DraftInv, MoneyInv, Counted, TypeOK
    <3>2. QED BY <2>3, <3>1 DEF OneMatch
  <2>4. QED BY <2>2, <2>3
<1>2. QED BY <1>1, Inductive, PTL

\* Whenever nobody completes the draft, each player has paid for the matches that go on,
\* for what an error kept, and for nothing else.
THEOREM KeepsTickets == Spec => []TicketsConserved
<1>1. TypeOK /\ DraftInv => TicketsConserved
  BY DEF DraftInv, MoneyInv, Accounted, Stage, TicketsConserved, TypeOK
<1>2. QED BY <1>1, Inductive, PTL

\* The lobby of a persistent bot's match is never torn down under it.
THEOREM KeepsLobby == Spec => []MatchKeepsLobby
<1>1. DraftInv => MatchKeepsLobby BY DEF DraftInv, BotMatchSafe, MatchKeepsLobby
<1>2. QED BY <1>1, Inductive, PTL

=============================================================================
