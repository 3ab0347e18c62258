----------------------------- MODULE RankedDraft -----------------------------
(***************************************************************************)
(* The draft of a ranked lobby, from draft:start to its match or its       *)
(* teardown (src/realtime/services/draft-realtime.service.ts).  Each       *)
(* member bans one category, by a click or by a timer; whoever sees two    *)
(* bans completes the draft under a lock, which spends the tickets and     *)
(* creates the match.  A disconnect pauses the draft and arms a grace      *)
(* timer; a reconnect resumes it; the grace timer tears the draft down.    *)
(*                                                                          *)
(* Bans live in a table, the pause, grace and absence marks in Redis, the  *)
(* timers in RealtimeTimers' sorted set.  No lock is shared by the         *)
(* completion, the pause, the resume and the grace expiry.  A handler's    *)
(* reads up to its next write are one step, and a call that throws does so *)
(* between two steps.  What an error leaves behind is counted in ghosts.   *)
(***************************************************************************)
EXTENDS Naturals, Sequences

CONSTANTS
    First, Second,  \* the members, in the order of their turns; each with one draft:ban handler
    AutoBan, AiBan, \* the handlers of draft_auto_ban and draft_ai_ban timers
    Grace,          \* the handler of the draft_grace_expiry timer
    Link,           \* the handler of a disconnect, then of the reconnect
    Free,           \* nobody holds the completion lock
    MaxDrops,       \* how many disconnects happen at most
    MaxThrows       \* how many calls throw at most (a refund's three attempts are one)

Members == {First, Second}
Actors == Members \cup {AutoBan, AiBan, Grace, Link}
Completers == Actors \ {Grace}

ASSUME ActorsAssumption ==
    /\ First # Second
    /\ AutoBan \notin Members
    /\ AiBan \notin Members \cup {AutoBan}
    /\ Grace \notin Members \cup {AutoBan, AiBan}
    /\ Link \notin Members \cup {AutoBan, AiBan, Grace}
    /\ Free \notin Actors
ASSUME BoundsAssumption == MaxDrops \in Nat /\ MaxThrows \in Nat

VARIABLES
    bot,          \* is the second member a persistent bot?
    lobby,        \* "active", "closed" by the match that began, or "gone"
    bans,         \* who has banned, in order
    ready,        \* draft:ui_ready marks: <<member, number of bans>>
    auto,         \* draft_auto_ban: "none", "plain" or "gated" (until ui_ready is overdue)
    ripe,         \* has its deadline come?
    aiDue,        \* is draft_ai_ban armed?
    graceDue,     \* is draft_grace_expiry armed?
    paused,       \* draft:pause
    graceKey,     \* draft:grace
    disconnected, \* draft:disconnect
    absent,       \* draft:absent_after_grace
    away,         \* whose socket is gone
    pc,           \* where an actor stands
    who,          \* the member it acts for
    completing,   \* draft:complete:lock
    reserved,     \* is the bot's reservation still the lobby's?
    live,         \* the lobby's active matches
    empty,        \* has it an active match row that got no players?
    spent,        \* what each human has paid and not got back, in tickets
    leaked,       \* ghost: payments that an error kept
    stranded,     \* ghost: errors between the creation of a match and its beginning
    lost,         \* ghost: has a handler outside the completion thrown?
    drops, throws \* disconnects and errors so far

timers == <<auto, ripe, aiDue>>
marks == <<paused, graceKey, graceDue, disconnected, absent>>
money == <<reserved, live, empty, spent, leaked, stranded>>
errors == <<lost, drops, throws>>
control == <<pc, who>>
vars == <<bot, lobby, bans, ready, timers, marks, away, control, completing, money, errors>>

Stages == {"idle", "insert", "complete", "consume", "signals", "create", "created", "failed", "again",
           "abort", "teardown", "undo", "undoing", "clean",
           "pause", "grace", "resume", "unpause", "restartTimers"}

TypeOK ==
    /\ {bot, ripe, aiDue, graceDue, paused, graceKey, reserved, empty, lost} \subseteq BOOLEAN
    /\ lobby \in {"active", "closed", "gone"}
    /\ bans \in {<<>>, <<First>>, <<Second>>, <<First, Second>>, <<Second, First>>}
    /\ ready \subseteq Members \X {0, 1}
    /\ auto \in {"none", "plain", "gated"}
    /\ disconnected \cup absent \cup away \subseteq Members
    /\ pc \in [Actors -> Stages]
    /\ who \in [Actors -> Members]
    /\ completing \in Completers \cup {Free}
    /\ {live, spent, leaked, stranded} \subseteq Nat
    /\ drops \in 0..MaxDrops /\ throws \in 0..MaxThrows

Default(a) == IF a \in {Second, AiBan} THEN Second ELSE First

Init ==
    /\ bot \in BOOLEAN
    /\ lobby = "active"
    /\ bans = <<>> /\ ready = {}
    /\ auto = "gated" /\ ripe = FALSE /\ aiDue = FALSE /\ graceDue = FALSE
    /\ paused = FALSE /\ graceKey = FALSE
    /\ disconnected = {} /\ absent = {} /\ away = {}
    /\ pc = [a \in Actors |-> "idle"]
    /\ who = [a \in Actors |-> Default(a)]
    /\ completing = Free
    /\ reserved = bot /\ live = 0 /\ empty = FALSE /\ spent = 0
    /\ leaked = 0 /\ stranded = 0 /\ lost = FALSE /\ drops = 0 /\ throws = 0

-----------------------------------------------------------------------------
(* Helpers *)

Humans == IF bot THEN {First} ELSE Members
Banned == {bans[i] : i \in 1..Len(bans)}
Active == lobby = "active"

\* getNextActorId: the member who did not ban last.
NextActor(b) == IF b = <<>> THEN First ELSE CHOOSE m \in Members : m # b[Len(b)]
Turn == NextActor(bans)

At(a, stage) == pc[a] = stage
Goto(a, stage) ==
    /\ pc' = [pc EXCEPT ![a] = stage]
    /\ who' = IF a = Link /\ stage # "idle" THEN who ELSE [who EXCEPT ![a] = Default(a)]
Start(a, stage, u) == pc' = [pc EXCEPT ![a] = stage] /\ who' = [who EXCEPT ![a] = u]

\* A timer that is scheduled, again or for the first time, has its deadline before it.
Schedule(kind) == auto' = kind /\ ripe' = FALSE
ClearTimers == Schedule("none") /\ aiDue' = FALSE

\* scheduleDraftAutoBanForCurrentTurn, over the timers that are there: the bot's timer,
\* or an auto-ban that first waits for draft:ui_ready.
ArmOver(oldAuto, oldAi, b, marked) ==
    LET botsTurn == bot /\ NextActor(b) = Second
        idle == paused \/ ~Active \/ Len(b) >= 2
    IN  /\ IF idle \/ botsTurn THEN auto' = oldAuto /\ ripe' = (ripe /\ oldAuto = auto)
           ELSE Schedule(IF <<NextActor(b), Len(b)>> \in marked THEN "plain" ELSE "gated")
        /\ aiDue' = (oldAi \/ (~idle /\ botsTurn))

ArmTurn == ArmOver(auto, aiDue, bans, ready)

\* completeDraftIfReady returns to its caller: only the auto-ban goes on.
Return(a) == Goto(a, IF a = AutoBan THEN "again" ELSE "idle")

\* n calls of this step throw.
Throws(n) == throws + n <= MaxThrows /\ throws' = throws + n /\ UNCHANGED <<lost, drops>>

\* refundRankedTicketsWithRetry: the payment comes back, or all three attempts throw.
Refund(kept) == spent' = (spent - 1) + kept /\ leaked' = leaked + kept

-----------------------------------------------------------------------------
(* Bans: handleBan, runDraftAutoBan, runRankedAiDraftBan *)

Click(u) ==
    /\ At(u, "idle") /\ u \in Humans \ away
    /\ Active /\ ~paused /\ Turn = u
    /\ Goto(u, "insert")
    /\ UNCHANGED <<bot, lobby, bans, ready, timers, marks, away, completing, money, errors>>

InsertTwice(a) ==
    /\ At(a, "insert") /\ lobby # "gone"
    /\ bans' = Append(bans, who[a])
    /\ Goto(a, "complete")
    /\ UNCHANGED <<bot, lobby, ready, timers, marks, away, completing, money, errors>>

\* The primary key lets a member ban once; a second insert finds the first.  A human's
\* handler then counts the bans again, the timers' handlers go on to the completion.
InsertBan(a) ==
    /\ At(a, "insert") /\ lobby # "gone"
    /\ bans' = IF who[a] \in Banned THEN bans ELSE Append(bans, who[a])
    /\ IF a \notin Members \/ Len(bans') = 2 THEN Goto(a, "complete") /\ UNCHANGED timers
       ELSE IF bot THEN Goto(a, "idle") /\ aiDue' = TRUE /\ UNCHANGED <<auto, ripe>>
       ELSE Goto(a, "idle") /\ ArmOver(auto, aiDue, bans', ready)
    /\ UNCHANGED <<bot, lobby, ready, marks, away, completing, money, errors>>

\* The lobby is gone, the other member banned that category, or the insert throws.
InsertFails(a) ==
    /\ At(a, "insert")
    /\ Throws(IF lobby = "gone" \/ (a \in Members /\ a \notin Banned /\ bans # <<>>) THEN 0 ELSE 1)
    /\ IF a = AutoBan THEN Goto(a, "complete") /\ UNCHANGED <<auto, ripe>>
                   ELSE Goto(a, "idle") /\ Schedule("plain")
    /\ UNCHANGED <<bot, lobby, bans, ready, aiDue, marks, away, completing, money>>

\* Every draft:ui_ready of the member whose turn it is moves the deadline.
UiReady(u) ==
    /\ u \in Humans \ away /\ Active /\ Len(bans) < 2 /\ Turn = u
    /\ ready' = ready \cup {<<u, Len(bans)>>}
    /\ ArmOver(auto, aiDue, bans, ready')
    /\ UNCHANGED <<bot, lobby, bans, marks, away, control, completing, money, errors>>

\* The deadline of draft_auto_ban comes.
Ripen ==
    /\ auto # "none" /\ ~ripe
    /\ ripe' = TRUE
    /\ UNCHANGED <<bot, lobby, bans, ready, auto, aiDue, marks, away, control, completing, money, errors>>

\* Popped and read.  A human who is not ui_ready is waited for until the gate's deadline.
FireAuto ==
    /\ ripe /\ At(AutoBan, "idle")
    /\ LET waits == Turn \in Humans /\ <<Turn, Len(bans)>> \notin ready IN
       IF paused \/ ~Active THEN Schedule("none") /\ UNCHANGED <<aiDue, control>>
       ELSE IF Len(bans) = 2 THEN Schedule("none") /\ Goto(AutoBan, "complete") /\ UNCHANGED aiDue
       ELSE IF ~waits THEN Schedule("none") /\ Start(AutoBan, "insert", Turn) /\ UNCHANGED aiDue
       ELSE IF auto = "gated" THEN Schedule("none") /\ Goto(AutoBan, "abort") /\ UNCHANGED aiDue
       ELSE ArmOver("none", aiDue, bans, ready) /\ UNCHANGED control
    /\ UNCHANGED <<bot, lobby, bans, ready, marks, away, completing, money, errors>>

\* After runDraftAutoBan's completion: the next turn, if there is one.
AutoGoesOn ==
    /\ At(AutoBan, "again")
    /\ ArmTurn
    /\ Goto(AutoBan, "idle")
    /\ UNCHANGED <<bot, lobby, bans, ready, marks, away, completing, money, errors>>

FireAi ==
    /\ aiDue /\ At(AiBan, "idle")
    /\ aiDue' = FALSE
    /\ IF paused \/ ~Active \/ Second \in Banned THEN UNCHANGED <<auto, ripe, control>>
       ELSE IF Len(bans) # 1 THEN Schedule("plain") /\ UNCHANGED control
       ELSE Start(AiBan, "insert", Second) /\ UNCHANGED <<auto, ripe>>
    /\ UNCHANGED <<bot, lobby, bans, ready, marks, away, completing, money, errors>>

-----------------------------------------------------------------------------
(* Completion: completeDraftIfReady, startMatchFromDraft *)

FindCompleting(a) ==
    /\ At(a, "complete") /\ completing # Free
    /\ Return(a)
    /\ UNCHANGED <<bot, lobby, bans, ready, timers, marks, away, completing, money, errors>>

AcquireAnyway(a) ==
    /\ At(a, "complete") /\ Active /\ Len(bans) = 2
    /\ completing' = a /\ Goto(a, "consume")
    /\ UNCHANGED <<bot, lobby, bans, ready, timers, marks, away, money, errors>>

\* The lock, then the lobby and the bans as they are now (the same look before the
\* lock only saves taking it).
AcquireCompletion(a) ==
    /\ At(a, "complete") /\ completing = Free
    /\ IF Active /\ Len(bans) = 2
       THEN completing' = a /\ Goto(a, "consume") /\ UNCHANGED timers
       ELSE /\ Return(a) /\ UNCHANGED completing
            /\ IF Active THEN UNCHANGED timers ELSE ClearTimers
    /\ UNCHANGED <<bot, lobby, bans, ready, marks, away, money, errors>>

\* The members and the abort signals are read, then the tickets spent.
ConsumeTickets(a) ==
    /\ At(a, "consume") /\ Active /\ absent = {}
    /\ spent' = spent + 1
    /\ Goto(a, "signals")
    /\ UNCHANGED <<bot, lobby, bans, ready, timers, marks, away, completing,
                   reserved, live, empty, leaked, stranded, errors>>

\* Somebody is absent or has no ticket; the lobby is gone; a read throws or the wallets
\* stay contended.
NoTickets(a) ==
    /\ At(a, "consume")
    /\ \/ Active /\ Goto(a, "abort") /\ UNCHANGED errors
       \/ ~Active /\ Goto(a, "failed") /\ UNCHANGED errors
       \/ Active /\ Throws(1) /\ Goto(a, "failed")
    /\ UNCHANGED <<bot, lobby, bans, ready, timers, marks, away, completing, money>>

\* The signals are read once more; whoever is absent by now gets the tickets back.
CheckSignals(a) ==
    /\ At(a, "signals")
    /\ IF absent = {} THEN Goto(a, "create") /\ UNCHANGED <<spent, leaked, errors>>
       ELSE Goto(a, "abort") /\ \E kept \in 0..1 : Refund(kept) /\ Throws(kept)
    /\ UNCHANGED <<bot, lobby, bans, ready, timers, marks, away, completing, reserved, live, empty, stranded>>

\* That read throws past the refund: the tickets are kept, and the completion will be
\* tried, and paid for, again.
SignalsThrow(a) ==
    /\ At(a, "signals") /\ Throws(1)
    /\ leaked' = leaked + 1
    /\ Goto(a, "failed")
    /\ UNCHANGED <<bot, lobby, bans, ready, timers, marks, away, completing,
                   reserved, live, empty, spent, stranded>>

\* The match of a persistent bot is created with its players under the lobby's advisory
\* lock, and takes over the bot's reservation or is rolled back.
Creatable == lobby # "gone" /\ (bot => reserved)

CreateMatch(a) ==
    /\ At(a, "create") /\ Creatable
    /\ bot => \A x \in Actors : pc[x] \notin {"teardown", "undoing"}
    /\ live' = live + 1 /\ reserved' = FALSE
    /\ Goto(a, "created")
    /\ UNCHANGED <<bot, lobby, bans, ready, timers, marks, away, completing,
                   empty, spent, leaked, stranded, errors>>

ForgetRefund(a) ==
    /\ At(a, "create")
    /\ Throws(IF Creatable THEN 1 ELSE 0)
    /\ bans' = IF Active THEN <<>> ELSE bans
    /\ ArmOver(auto, aiDue, <<>>, ready)
    /\ Goto(a, "failed")
    /\ UNCHANGED <<bot, lobby, ready, marks, away, completing, money>>

\* The tickets come back and startDraft, on a lobby that is there, begins again, or finds
\* its lock taken or no categories and leaves the bans.  The match of two humans is two
\* statements: the row may be there without its players.
CreateFails(a) ==
    /\ At(a, "create")
    /\ \E kept \in 0..1 : Refund(kept) /\ Throws(kept + (IF Creatable THEN 1 ELSE 0))
    /\ empty' \in {empty, empty \/ (Creatable /\ ~bot)}
    /\ \/ bans' = (IF Active THEN <<>> ELSE bans) /\ ArmOver(auto, aiDue, <<>>, ready)
       \/ UNCHANGED <<bans, timers>>
    /\ Goto(a, "failed")
    /\ UNCHANGED <<bot, lobby, ready, marks, away, completing, reserved, live, stranded>>

LeaveWedged(a) ==
    /\ At(a, "failed")
    /\ completing' = Free
    /\ Return(a)
    /\ UNCHANGED <<bot, lobby, bans, ready, timers, marks, away, money, errors>>

\* rearmDraftCompletionIfStuck, then the release.
ReleaseFailed(a) ==
    /\ At(a, "failed")
    /\ completing' = Free
    /\ IF Active /\ auto = "none" THEN Schedule("plain") ELSE UNCHANGED <<auto, ripe>>
    /\ Return(a)
    /\ UNCHANGED <<bot, lobby, bans, ready, aiDue, marks, away, money, errors>>

\* The leftover timers go and the lock is released.
CloseCompletion(a) == ClearTimers /\ completing' = Free /\ Return(a)

\* Somebody absent by now: the match is abandoned and the tickets come back.
AbandonMatch(a) ==
    /\ At(a, "created") /\ absent # {}
    /\ live' = live - 1
    /\ \E kept \in 0..1 : Refund(kept) /\ Throws(kept)
    /\ Goto(a, "undo")
    /\ UNCHANGED <<bot, lobby, bans, ready, timers, marks, away, completing, reserved, empty, stranded>>

\* It is not abandoned: match, tickets and lobby are left to the sweeper of stale matches.
AbandonFails(a) ==
    /\ At(a, "created") /\ absent # {} /\ Throws(1)
    /\ stranded' = stranded + 1
    /\ CloseCompletion(a)
    /\ UNCHANGED <<bot, lobby, bans, ready, marks, away, reserved, live, empty, spent, leaked>>

\* beginMatchForLobby closes the lobby.
BeginMatch(a) ==
    /\ At(a, "created") /\ absent = {}
    /\ lobby' = IF lobby = "gone" THEN lobby ELSE "closed"
    /\ CloseCompletion(a)
    /\ UNCHANGED <<bot, bans, ready, marks, away, money, errors>>

\* The look for absent members throws, or beginMatchForLobby does: before it closes the
\* lobby, and the match is left beside a draft that will be completed again, or after.
BeginThrows(a) ==
    /\ At(a, "created") /\ Throws(1)
    /\ \/ stranded' = stranded + 1 /\ UNCHANGED lobby
       \/ absent = {} /\ Active /\ lobby' = "closed" /\ UNCHANGED stranded
    /\ Goto(a, "failed")
    /\ UNCHANGED <<bot, bans, ready, timers, marks, away, completing, reserved, live, empty, spent, leaked>>

-----------------------------------------------------------------------------
(* Teardown: abortRankedDraftBeforeMatchCreation, reservationService.abortLobby *)

\* What follows a teardown in the grace expiry, the completion (before its match and after
\* it was abandoned) or the auto-ban.
AfterAbort(a) ==
    /\ absent' = {}
    /\ IF pc[a] \in {"undo", "undoing"} THEN CloseCompletion(a)
       ELSE /\ Goto(a, IF a = Grace THEN "clean" ELSE IF completing = a THEN "failed" ELSE "idle")
            /\ UNCHANGED <<timers, completing>>

AbortUnchecked(a) ==
    /\ At(a, "abort")
    /\ Goto(a, "teardown")
    /\ UNCHANGED <<bot, lobby, bans, ready, timers, marks, away, completing, money, errors>>

\* A lobby whose match is active is left alone.
LookForMatch(a) ==
    /\ pc[a] \in {"abort", "undo"}
    /\ IF live > 0 \/ empty THEN AfterAbort(a)
       ELSE /\ Goto(a, IF At(a, "abort") THEN "teardown" ELSE "undoing")
            /\ UNCHANGED <<absent, timers, completing>>
    /\ UNCHANGED <<bot, lobby, bans, ready, paused, graceKey, graceDue, disconnected, away, money, errors>>

TearDown(a) ==
    /\ pc[a] \in {"teardown", "undoing"}
    /\ lobby' = "gone" /\ reserved' = FALSE
    /\ AfterAbort(a)
    /\ UNCHANGED <<bot, bans, ready, paused, graceKey, graceDue, disconnected, away,
                   live, empty, spent, leaked, stranded, errors>>

\* The abort of a completion throws: its catch arms the recovery.
AbortThrows(a) ==
    /\ completing = a /\ pc[a] \in {"abort", "teardown", "undo", "undoing"} /\ Throws(1)
    /\ Goto(a, "failed")
    /\ UNCHANGED <<bot, lobby, bans, ready, timers, marks, away, completing, money>>

-----------------------------------------------------------------------------
(* Errors outside the completion *)

\* The scheduler tries a grace expiry again; the timers' other handlers and the sockets'
\* only log the error.
HandlerThrows(a) ==
    /\ completing # a /\ pc[a] \notin {"idle", "insert"}
    /\ throws < MaxThrows /\ throws' = throws + 1
    /\ lost' = (lost \/ a # Grace) /\ graceDue' = (graceDue \/ a = Grace)
    /\ Goto(a, "idle")
    /\ UNCHANGED <<bot, lobby, bans, ready, timers, paused, graceKey, disconnected, absent, away,
                   completing, money, drops>>

\* A timer was popped and its handler's first reads throw.
PopThrows ==
    /\ throws < MaxThrows /\ throws' = throws + 1
    /\ lost' = TRUE
    /\ \/ ripe /\ At(AutoBan, "idle") /\ Schedule("none") /\ UNCHANGED aiDue
       \/ aiDue /\ At(AiBan, "idle") /\ aiDue' = FALSE /\ UNCHANGED <<auto, ripe>>
    /\ UNCHANGED <<bot, lobby, bans, ready, marks, away, control, completing, money, drops>>

-----------------------------------------------------------------------------
(* Disconnect and reconnect *)

Drop(u) ==
    /\ u \in Humans \ away /\ At(Link, "idle") /\ Active
    /\ drops < MaxDrops /\ drops' = drops + 1
    /\ away' = away \cup {u}
    /\ Start(Link, "pause", u)
    /\ UNCHANGED <<bot, lobby, bans, ready, timers, marks, completing, money, lost, throws>>

\* pauseDraftForDisconnectedPlayer
PauseDraft ==
    /\ At(Link, "pause")
    /\ IF Active
       THEN /\ disconnected' = disconnected \cup {who[Link]} /\ paused' = TRUE
            /\ Goto(Link, "grace")
       ELSE Goto(Link, "idle") /\ UNCHANGED <<disconnected, paused>>
    /\ UNCHANGED <<bot, lobby, bans, ready, timers, graceKey, graceDue, absent, away, completing, money, errors>>

ArmGrace ==
    /\ At(Link, "grace")
    /\ ClearTimers
    /\ graceDue' = (graceDue \/ ~graceKey) /\ graceKey' = TRUE
    /\ Goto(Link, "idle")
    /\ UNCHANGED <<bot, lobby, bans, ready, paused, disconnected, absent, away, completing, money, errors>>

Reconnect(u) ==
    /\ u \in away /\ At(Link, "idle")
    /\ away' = away \ {u}
    /\ IF Active THEN Start(Link, "resume", u) ELSE UNCHANGED control
    /\ UNCHANGED <<bot, lobby, bans, ready, timers, marks, completing, money, errors>>

ClearDisconnect ==
    /\ At(Link, "resume")
    /\ Goto(Link, IF who[Link] \in disconnected \cup absent THEN "unpause" ELSE "restartTimers")
    /\ disconnected' = disconnected \ {who[Link]} /\ absent' = absent \ {who[Link]}
    /\ UNCHANGED <<bot, lobby, bans, ready, timers, paused, graceKey, graceDue, away, completing, money, errors>>

EndPause ==
    /\ At(Link, "unpause")
    /\ IF disconnected = {} THEN paused' = FALSE /\ graceKey' = FALSE /\ graceDue' = FALSE
       ELSE UNCHANGED <<paused, graceKey, graceDue>>
    /\ Goto(Link, "restartTimers")
    /\ UNCHANGED <<bot, lobby, bans, ready, timers, disconnected, absent, away, completing, money, errors>>

ResumeTimers ==
    /\ At(Link, "restartTimers")
    /\ Goto(Link, IF Active /\ ~paused /\ Len(bans) = 2 THEN "complete" ELSE "idle")
    /\ IF ~Active \/ paused \/ Len(bans) = 2 THEN ClearTimers
       ELSE ArmOver("none", FALSE, bans, ready)
    /\ UNCHANGED <<bot, lobby, bans, ready, marks, away, completing, money, errors>>

\* runDraftGraceExpiry: somebody is still disconnected, the draft is torn down.
FireGrace ==
    /\ graceDue /\ At(Grace, "idle")
    /\ graceDue' = FALSE
    /\ IF ~graceKey THEN UNCHANGED <<paused, graceKey, absent, control>>
       ELSE IF ~Active \/ disconnected = {}
            THEN paused' = FALSE /\ graceKey' = FALSE /\ UNCHANGED <<absent, control>>
       ELSE absent' = absent \cup disconnected /\ Goto(Grace, "abort") /\ UNCHANGED <<paused, graceKey>>
    /\ UNCHANGED <<bot, lobby, bans, ready, timers, disconnected, away, completing, money, errors>>

CleanAfterGrace ==
    /\ At(Grace, "clean")
    /\ ClearTimers
    /\ graceDue' = FALSE /\ paused' = FALSE /\ graceKey' = FALSE /\ disconnected' = {}
    /\ Goto(Grace, "idle")
    /\ UNCHANGED <<bot, lobby, bans, ready, absent, away, completing, money, errors>>

-----------------------------------------------------------------------------

Ban(a) == InsertBan(a) \/ InsertFails(a)

Complete(a) ==
    \/ FindCompleting(a) \/ AcquireCompletion(a) \/ ConsumeTickets(a) \/ NoTickets(a)
    \/ CheckSignals(a) \/ SignalsThrow(a) \/ CreateMatch(a) \/ CreateFails(a) \/ ReleaseFailed(a)
    \/ AbandonMatch(a) \/ AbandonFails(a) \/ BeginMatch(a) \/ BeginThrows(a)

Abort(a) == LookForMatch(a) \/ TearDown(a) \/ AbortThrows(a)

Resume == ClearDisconnect \/ EndPause \/ ResumeTimers

Pause == PauseDraft \/ ArmGrace

Expiry == FireGrace \/ CleanAfterGrace

Next ==
    \/ \E u \in Members : Click(u) \/ UiReady(u) \/ Drop(u) \/ Reconnect(u)
    \/ \E a \in Actors : Ban(a) \/ Complete(a) \/ Abort(a) \/ HandlerThrows(a)
    \/ Resume \/ Pause \/ Expiry
    \/ Ripen \/ FireAuto \/ AutoGoesOn \/ FireAi \/ PopThrows

Spec == Init /\ [][Next]_vars

\* What the server owes in one of its handlers; a player's own moves owe nothing.
Work(a) ==
    \/ Ban(a) \/ Complete(a) \/ Abort(a)
    \/ a = AutoBan /\ (Ripen \/ FireAuto \/ AutoGoesOn)
    \/ a = AiBan /\ FireAi
    \/ a = Grace /\ Expiry
    \/ a = Link /\ (Pause \/ Resume)

\* The grace expiry is run, and so is some other handler as long as one has work.
Fairness == WF_vars(Work(Grace)) /\ WF_vars(\E a \in Actors \ {Grace} : Work(a))

FairSpec == Spec /\ Fairness

-----------------------------------------------------------------------------
(* Properties *)

\* However many handlers see two bans at the same moment (clicks, the timers' handlers, a
\* reconnect), completeDraftIfReady makes one match: the lock and the closed lobby keep the
\* others out.  Only an error between the creation of a match and the closing of its lobby
\* lets a later completion make another (the rows are "not fully excluded at the DB level",
\* the code says), and a persistent bot's reservation, handed to its match, not even then.
OneMatch == live <= IF bot THEN 1 ELSE 1 + stranded

\* Whenever nobody is completing the draft, each player has paid for the matches that go
\* on and for nothing else, except what an error kept: startMatchFromDraft gives the tickets
\* back where a match fails, but not past a throw of the second look for absent members,
\* and a refund may fail for good.
TicketsConserved == completing = Free => spent = live + leaked /\ leaked <= throws

\* The lobby of a persistent bot's match is never torn down under it by an abort that
\* began before the match was there: both take the lobby's advisory lock.
MatchKeepsLobby == bot /\ live > 0 => lobby # "gone"

\* An error left an active match on the lobby, or stopped a handler that nobody runs again.
NeedsHelp == stranded > 0 \/ empty \/ lost

\* A draft ends, in a match or torn down, whoever stays silent or away and whatever throws
\* in the completion before it has made a match, unless players go on clicking or sending
\* draft:ui_ready for ever: both move the deadline.
DraftEnds ==
    <>[][~(\E u \in Members : Click(u) \/ UiReady(u))]_vars => <>(lobby # "active" \/ NeedsHelp)
=============================================================================
