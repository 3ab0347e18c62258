-------------------------- MODULE PossessionRounds --------------------------
(***************************************************************************)
(* The rounds of a possession match: answers, deadlines, the resolver and  *)
(* the dispatch of the next question                                       *)
(* (src/realtime/possession-round-resolver.ts,                             *)
(* possession-question-dispatch.ts, possession-answer-handlers.ts and      *)
(* match-cache.ts), with the pause and resume of                           *)
(* services/match-disconnect.service.ts and the re-arm after a restart of  *)
(* services/boot-timer-rearm.service.ts.                                   *)
(*                                                                          *)
(* The match lives in a Redis blob that every writer overwrites whole.     *)
(* Answers and resolvers share one lock with a lease; a resolver also sets *)
(* a fence per question, a sender a mark per question.  A question's timer *)
(* is durable, the wait before the next question lives in one process.     *)
(*                                                                          *)
(* Time is abstract: a timer is due "soon" (a retry, a backup, a backstop) *)
(* or at the deadline of its question, which passes when Expire happens.   *)
(***************************************************************************)
EXTENDS Integers, FiniteSets

CONSTANTS
    Players,     \* the two players, each with one answer handler at a time
    Handlers,    \* handlers of possession_question timers
    Replicas,    \* server processes; as an actor, one's own waits and its boot
    Resumer,     \* the handler of the resume-countdown timer
    Home,        \* the replica an actor runs in
    Free,        \* no such key
    Orphan,      \* the key holds the token of a process that died
    RoundCount,  \* questions of the match
    MaxFaults    \* of a process that dies, a disconnect that pauses the match and a round
                 \* lock that outlives its lease, how many may happen

Others == Players \cup Replicas \cup {Resumer}
Actors == Others \cup Handlers
Rounds == 0..(RoundCount - 1)
Indexes == 0..RoundCount   \* the last one only carries completion retries
Holders == Actors \cup {Free, Orphan}
Faults == {"crash", "pause", "lapse"}

ASSUME ActorsAssumption ==
    /\ Free # Orphan
    /\ {Free, Orphan} \cap Actors = {}
    /\ Players \cap (Handlers \cup Replicas \cup {Resumer}) = {}
    /\ Handlers \cap (Replicas \cup {Resumer}) = {}
    /\ Resumer \notin Replicas
    /\ Home \in [Actors -> Replicas]
    /\ \A r \in Replicas : Home[r] = r
ASSUME BoundsAssumption ==
    RoundCount \in Nat \ {0} /\ MaxFaults \in Nat

VARIABLES
    current,     \* cache.currentQIndex
    asked,       \* cache.currentQuestion is set
    completed,   \* cache.statePayload.phase is COMPLETED
    answers,     \* the answer overlay of each question: who has been acknowledged
    expired,     \* has the deadline of the current question passed?
    timer,       \* possession_question timers: "none", "soon" or "deadline"
    pause,       \* the pause key; "late" when the question had expired before it
    lock,        \* lock:match:<id>:round
    fence,       \* resolve:inprogress:<id>:<q>
    sent,        \* the questions whose mark possession:sent:<id>:<q> is set
    pc,          \* where an actor stands
    round,       \* the qIndex it was called with
    fromTimeout, \* the resolver's parameter
    seen,        \* the answers in its copy of the cache, while it decides on them
    leaseLost,   \* has its renewal reported the lease gone?
    waits,       \* the replica's setTimeout waits and ready gates
    booting,     \* must the replica still run its boot re-arm?
    ended,       \* the match row is no longer active
    scored,      \* ghost: how often a round's side effects were applied
    counted,     \* ghost: whose answers its last resolution counted
    published,   \* ghost: how often a transition sent a question
    rewound,     \* ghost: has a writer of the blob brought back a question it had passed?
    faults       \* those that happened

cache == <<current, asked, completed, expired>>
keys == <<lock, fence, sent>>
control == <<pc, round, fromTimeout, seen>>
ghosts == <<scored, counted, published, rewound>>
vars == <<cache, answers, timer, pause, keys, control, leaseLost, waits, booting, ended, ghosts, faults>>

Stages == {"idle", "answered", "resolve", "locked", "check", "early", "commit",
           "committed", "complete", "recover", "leave", "leaveConcluded", "leaveRearm",
           "clear", "rearm", "pick", "mark", "publish", "arm", "resumeInTime", "resumeLate",
           "rewrite", "armResumed"}

TypeOK ==
    /\ current \in Indexes
    /\ {asked, completed, expired, ended, rewound} \subseteq BOOLEAN
    /\ answers \in [Rounds -> SUBSET Players]
    /\ timer \in [Indexes -> {"none", "soon", "deadline"}]
    /\ pause \in {"off", "inTime", "late"}
    /\ lock \in Holders
    /\ fence \in [Indexes -> Holders]
    /\ sent \subseteq Indexes
    /\ pc \in [Actors -> Stages]
    /\ round \in [Actors -> Indexes]
    /\ fromTimeout \in [Actors -> BOOLEAN]
    /\ seen \in [Actors -> SUBSET Players]
    /\ leaseLost \in [Actors -> BOOLEAN]
    /\ waits \in [Replicas -> SUBSET Rounds]
    /\ booting \in [Replicas -> BOOLEAN]
    /\ scored \in [Rounds -> 0..2]
    /\ counted \in [Rounds -> SUBSET Players]
    /\ published \in [Rounds -> 0..2]
    /\ faults \subseteq Faults

Init ==
    /\ current = 0 /\ asked = TRUE /\ completed = FALSE /\ expired = FALSE
    /\ answers = [q \in Rounds |-> {}]
    /\ timer = [q \in Indexes |-> IF q = 0 THEN "deadline" ELSE "none"]
    /\ pause = "off"
    /\ lock = Free
    /\ fence = [q \in Indexes |-> Free]
    /\ sent = {}
    /\ pc = [a \in Actors |-> "idle"]
    /\ round = [a \in Actors |-> 0]
    /\ fromTimeout = [a \in Actors |-> FALSE]
    /\ seen = [a \in Actors |-> {}]
    /\ leaseLost = [a \in Actors |-> FALSE]
    /\ waits = [r \in Replicas |-> {}]
    /\ booting = [r \in Replicas |-> FALSE]
    /\ ended = FALSE
    /\ scored = [q \in Rounds |-> 0]
    /\ counted = [q \in Rounds |-> {}]
    /\ published = [q \in Rounds |-> IF q = 0 THEN 1 ELSE 0]
    /\ rewound = FALSE
    /\ faults = {}

-----------------------------------------------------------------------------
(* Helpers *)

At(a, stage) == pc[a] = stage

\* A handler is called with an index.
Call(a, stage, q, timeout) ==
    /\ pc' = [pc EXCEPT ![a] = stage]
    /\ round' = [round EXCEPT ![a] = q]
    /\ fromTimeout' = [fromTimeout EXCEPT ![a] = timeout]
    /\ seen' = [seen EXCEPT ![a] = {}]

Return(a) == Call(a, "idle", 0, FALSE)

Goto(a, stage) ==
    /\ pc' = [pc EXCEPT ![a] = stage]
    /\ seen' = [seen EXCEPT ![a] = {}]
    /\ UNCHANGED <<round, fromTimeout>>

\* getMatchCache: the blob with the overlay of its question merged in.
Read(a, stage) ==
    /\ pc' = [pc EXCEPT ![a] = stage]
    /\ seen' = [seen EXCEPT ![a] = answers[round[a]]]
    /\ UNCHANGED <<round, fromTimeout>>

\* setMatchCache: the blob is replaced whole, whatever it holds by now.
Overwrite(q, isAsked, isCompleted) ==
    /\ current' = q /\ asked' = isAsked /\ completed' = isCompleted /\ expired' = FALSE
    /\ rewound' = (rewound \/ q < current)

SetTimer(q, due) == timer' = [timer EXCEPT ![q] = due]
ArmIfAbsent(q) == timer' = [timer EXCEPT ![q] = IF @ = "none" THEN "soon" ELSE @]
Unfence(a, q) == fence' = [fence EXCEPT ![q] = IF @ = a THEN Free ELSE @]
ReleaseRound(a) ==
    /\ lock' = IF lock = a THEN Free ELSE lock
    /\ leaseLost' = [leaseLost EXCEPT ![a] = FALSE]

\* A fault of each kind happens once at most.
Fails(kind) ==
    /\ kind \notin faults /\ Cardinality(faults) < MaxFaults
    /\ faults' = faults \cup {kind}

Up(n) == IF n < 2 THEN n + 1 ELSE n

\* The exit of a resolver that concluded nothing: a timer that fired is armed again.
GiveUp(a) == Goto(a, IF fromTimeout[a] THEN "leaveRearm" ELSE "leave")

\* Between the grant of the round lock and its release (a sender inside a resolver included).
Critical(a) ==
    \/ pc[a] \in {"answered", "locked", "check", "early", "commit", "committed",
                   "complete", "recover", "leave", "leaveConcluded", "leaveRearm"}
    \/ fromTimeout[a] /\ pc[a] \in {"pick", "mark", "publish", "arm"}

-----------------------------------------------------------------------------
(* Answers: handlePossessionAnswer under withAnswerLock *)

\* The lock, then the read of the cache.  A busy lock, another question, a second
\* answer or a match that is over change nothing.
SubmitAnswer(p) ==
    /\ At(p, "idle") /\ lock = Free
    /\ asked /\ p \notin answers[current] /\ ~ended
    /\ lock' = p
    /\ pc' = [pc EXCEPT ![p] = "answered"]
    /\ round' = [round EXCEPT ![p] = current]
    /\ seen' = [seen EXCEPT ![p] = answers[current]]
    /\ UNCHANGED <<cache, answers, timer, pause, fence, sent, fromTimeout, leaseLost, waits, booting,
                   ended, ghosts, faults>>

\* The lease is checked, then the answer written and acknowledged; the count that
\* triggers the resolver is that of the copy read before.
CommitAnswer(p) ==
    /\ At(p, "answered") /\ ~leaseLost[p]
    /\ answers' = [answers EXCEPT ![round[p]] = @ \cup {p}]
    /\ ReleaseRound(p)
    /\ IF seen[p] \cup {p} = Players THEN Call(p, "resolve", round[p], FALSE) ELSE Return(p)
    /\ UNCHANGED <<cache, timer, pause, fence, sent, waits, booting, ended, ghosts, faults>>

DropAnswer(p) ==
    /\ At(p, "answered") /\ leaseLost[p]
    /\ ReleaseRound(p)
    /\ Return(p)
    /\ UNCHANGED <<cache, answers, timer, pause, fence, sent, waits, booting, ended, ghosts, faults>>

-----------------------------------------------------------------------------
(* The resolver: resolvePossessionRound *)

\* The scheduler pops a due timer and calls the resolver with fromTimeout.
Fire(h, q) ==
    /\ At(h, "idle")
    /\ \/ timer[q] = "soon"
       \/ timer[q] = "deadline" /\ (current # q \/ expired)
    /\ SetTimer(q, "none")
    /\ Call(h, "resolve", q, TRUE)
    /\ UNCHANGED <<cache, answers, pause, keys, leaseLost, waits, booting, ended, ghosts, faults>>

AcquireUnchecked(a) ==
    /\ At(a, "resolve")
    /\ lock' = a
    /\ Goto(a, "locked")
    /\ UNCHANGED <<cache, answers, timer, pause, fence, sent, leaseLost, waits, booting, ended, ghosts, faults>>

AcquireRound(a) ==
    /\ At(a, "resolve") /\ lock = Free
    /\ lock' = a
    /\ Goto(a, "locked")
    /\ UNCHANGED <<cache, answers, timer, pause, fence, sent, leaseLost, waits, booting, ended, ghosts, faults>>

FindBusyAndForget(a) ==
    /\ At(a, "resolve") /\ lock # Free
    /\ Return(a)
    /\ UNCHANGED <<cache, answers, timer, pause, keys, leaseLost, waits, booting, ended, ghosts, faults>>

FindRoundBusy(a) ==
    /\ At(a, "resolve") /\ lock # Free
    /\ IF fromTimeout[a] THEN Goto(a, "rearm") ELSE Return(a)
    /\ UNCHANGED <<cache, answers, timer, pause, keys, leaseLost, waits, booting, ended, ghosts, faults>>

\* The fence, and the read of the cache that follows: nothing but another
\* resolver of this round looks at the fence.  The branches are those of the code.
Branch(a) ==
    LET q == round[a] IN
    \/ ended /\ Goto(a, "leaveConcluded")
    \/ ~ended /\ current > q /\ Goto(a, IF completed THEN "recover" ELSE "leaveConcluded")
    \/ ~ended /\ current < q /\ GiveUp(a)
    \/ /\ ~ended /\ current = q /\ asked
       /\ Read(a, IF fromTimeout[a] /\ ~expired THEN "early" ELSE "check")
    \/ /\ ~ended /\ current = q /\ ~asked
       /\ \/ fromTimeout[a] /\ completed /\ Goto(a, "recover")
          \/ fromTimeout[a] /\ ~completed /\ ~leaseLost[a] /\ Goto(a, "pick")
          \/ (fromTimeout[a] => ~completed /\ leaseLost[a]) /\ GiveUp(a)

TakeAnyFence(a) ==
    /\ At(a, "locked")
    /\ fence' = [fence EXCEPT ![round[a]] = a]
    /\ Branch(a)
    /\ UNCHANGED <<cache, answers, timer, pause, lock, sent, leaseLost, waits, booting, ended, ghosts, faults>>

TakeFence(a) ==
    /\ At(a, "locked") /\ fence[round[a]] = Free
    /\ fence' = [fence EXCEPT ![round[a]] = a]
    /\ Branch(a)
    /\ UNCHANGED <<cache, answers, timer, pause, lock, sent, leaseLost, waits, booting, ended, ghosts, faults>>

FindFenced(a) ==
    /\ At(a, "locked") /\ fence[round[a]] # Free
    /\ GiveUp(a)
    /\ UNCHANGED <<cache, answers, timer, pause, keys, leaseLost, waits, booting, ended, ghosts, faults>>

\* The pause key, the early-fire and missing-answer returns, the last abort point.
HoldBack(a) ==
    /\ \/ At(a, "early") /\ pause # "off"
       \/ At(a, "check") /\ \/ pause # "off"
                            \/ ~fromTimeout[a] /\ seen[a] # Players
                            \/ leaseLost[a]
    /\ GiveUp(a)
    /\ UNCHANGED <<cache, answers, timer, pause, keys, leaseLost, waits, booting, ended, ghosts, faults>>

\* Fired before the deadline (a backup): armed again for the deadline, nothing else.
DeferEarly(a) ==
    /\ At(a, "early") /\ pause = "off"
    /\ SetTimer(round[a], "deadline")
    /\ Goto(a, "leave")
    /\ UNCHANGED <<cache, answers, pause, keys, leaseLost, waits, booting, ended, ghosts, faults>>

\* The side effects: backfill, totals, possession, goal, round_result.
ApplyRound(a) ==
    /\ At(a, "check") /\ pause = "off" /\ ~leaseLost[a]
    /\ fromTimeout[a] \/ seen[a] = Players
    /\ scored' = [scored EXCEPT ![round[a]] = Up(@)]
    /\ counted' = [counted EXCEPT ![round[a]] = seen[a]]
    /\ Goto(a, "commit")
    /\ UNCHANGED <<cache, answers, timer, pause, keys, leaseLost, waits, booting, ended, published, rewound, faults>>

\* setMatchCache(cache): the blob is overwritten whole.
CommitRound(a) ==
    /\ At(a, "commit")
    /\ Overwrite(round[a] + 1, FALSE, round[a] + 1 = RoundCount)
    /\ Goto(a, "committed")
    /\ UNCHANGED <<answers, timer, pause, keys, leaseLost, waits, booting, ended,
                   scored, counted, published, faults>>

\* scheduleNextPossessionQuestion: a wait or a ready gate in this process, which after a
\* goal, a penalty or before the shoot-out has a durable backup.
ScheduleNext(a) ==
    /\ waits' = [waits EXCEPT ![Home[a]] = @ \cup {round[a] + 1}]
    /\ UNCHANGED timer \/ ArmIfAbsent(round[a] + 1)

MissLastRound(a) ==
    /\ At(a, "committed")
    /\ Unfence(a, round[a])
    /\ Goto(a, "leaveConcluded")
    /\ ScheduleNext(a)
    /\ UNCHANGED <<cache, answers, pause, lock, sent, leaseLost, booting, ended, ghosts, faults>>

\* The fence goes, and the match goes on.
ReleaseFence(a) ==
    /\ At(a, "committed")
    /\ Unfence(a, round[a])
    /\ IF round[a] + 1 = RoundCount THEN Goto(a, "complete") /\ UNCHANGED <<timer, waits>>
                                   ELSE Goto(a, "leaveConcluded") /\ ScheduleNext(a)
    /\ UNCHANGED <<cache, answers, pause, lock, sent, leaseLost, booting, ended, ghosts, faults>>

\* completePossessionMatch, the subject of MatchSettlement.
Complete(a) ==
    /\ At(a, "complete") \/ At(a, "recover")
    /\ ended' = TRUE
    /\ Goto(a, "leaveConcluded")
    /\ UNCHANGED <<cache, answers, timer, pause, keys, leaseLost, waits, booting, ghosts, faults>>

\* Its lock is another's: the resolver ignores it, a recovery has a retry armed.
CompletionBusy(a) ==
    /\ \E b \in Actors \ {a} : pc[b] \in {"complete", "recover"}
    /\ \/ At(a, "complete") /\ Goto(a, "leaveConcluded") /\ UNCHANGED timer
       \/ At(a, "recover") /\ current = round[a] /\ Goto(a, "leaveRearm") /\ UNCHANGED timer
       \/ At(a, "recover") /\ current # round[a] /\ Goto(a, "leaveConcluded") /\ ArmIfAbsent(current)
    /\ UNCHANGED <<cache, answers, pause, keys, leaseLost, waits, booting, ended, ghosts, faults>>

\* The finally block: fence and lock, both compare-and-delete, then the timers.
Leave(a) ==
    /\ pc[a] \in {"leave", "leaveConcluded", "leaveRearm"}
    /\ Unfence(a, round[a])
    /\ ReleaseRound(a)
    /\ CASE At(a, "leave") -> Return(a)
         [] At(a, "leaveConcluded") -> Goto(a, "clear")
         [] At(a, "leaveRearm") -> Goto(a, "rearm")
    /\ UNCHANGED <<cache, answers, timer, pause, sent, waits, booting, ended, ghosts, faults>>

ClearTimer(a) ==
    /\ At(a, "clear")
    /\ SetTimer(round[a], "none")
    /\ Return(a)
    /\ UNCHANGED <<cache, answers, pause, keys, leaseLost, waits, booting, ended, ghosts, faults>>

DeferTimer(a) ==
    /\ At(a, "rearm")
    /\ SetTimer(round[a], "soon")
    /\ Return(a)
    /\ UNCHANGED <<cache, answers, pause, keys, leaseLost, waits, booting, ended, ghosts, faults>>

-----------------------------------------------------------------------------
(* The dispatch: scheduleNextPossessionQuestion, sendPossessionMatchQuestion *)

\* The in-process wait ends; it does not resend what its backup already sent.
EndWait(r) ==
    /\ At(r, "idle")
    /\ \E q \in waits[r] :
         /\ waits' = [waits EXCEPT ![r] = @ \ {q}]
         /\ IF current = q /\ ~asked THEN Call(r, "pick", q, FALSE) ELSE UNCHANGED control
    /\ UNCHANGED <<cache, answers, timer, pause, keys, leaseLost, booting, ended, ghosts, faults>>

\* A sender inside a resolver leaves through it: concluded when the match is over.
SendNothing(a) ==
    IF ~fromTimeout[a] THEN Return(a)
    ELSE Goto(a, IF ended THEN "leaveConcluded" ELSE "leaveRearm")

PickQuestion(a) ==
    /\ At(a, "pick")
    /\ IF ended \/ completed \/ pause # "off" THEN SendNothing(a) ELSE Goto(a, "mark")
    /\ UNCHANGED <<cache, answers, timer, pause, keys, leaseLost, waits, booting, ended, ghosts, faults>>

MovedOn(a) == ended \/ asked \/ current # round[a]

SendUnmarked(a) ==
    /\ At(a, "mark")
    /\ sent' = sent \cup {round[a]}
    /\ Goto(a, "publish")
    /\ UNCHANGED <<cache, answers, timer, pause, lock, fence, leaseLost, waits, booting, ended, ghosts, faults>>

\* SET NX, then the look at the live cache while holding the mark.
MarkSent(a) ==
    /\ At(a, "mark")
    /\ sent' = sent \cup {round[a]}
    /\ IF round[a] \in sent \/ MovedOn(a) THEN SendNothing(a) ELSE Goto(a, "publish")
    /\ UNCHANGED <<cache, answers, timer, pause, lock, fence, leaseLost, waits, booting, ended, ghosts, faults>>

PublishQuestion(a) ==
    /\ At(a, "publish")
    /\ Overwrite(round[a], TRUE, FALSE)
    /\ pause' = IF pause = "late" THEN "inTime" ELSE pause
    /\ Goto(a, "arm")
    /\ UNCHANGED <<answers, timer, keys, leaseLost, waits, booting, ended, scored, counted, published, faults>>

\* The real deadline replaces a backup, and match:question goes out.
ArmDeadline(a) ==
    /\ At(a, "arm")
    /\ SetTimer(round[a], "deadline")
    /\ published' = [published EXCEPT ![round[a]] = Up(@)]
    /\ IF fromTimeout[a] THEN Goto(a, "leave") ELSE Return(a)
    /\ UNCHANGED <<cache, answers, pause, keys, leaseLost, waits, booting, ended, scored, counted, rewound, faults>>

-----------------------------------------------------------------------------
(* Pause, resume and restart *)

\* pauseMatchForDisconnectedPlayer: the pause key, the timer deferred as a backstop.
PauseMatch ==
    /\ pause = "off" /\ ~ended
    /\ Fails("pause")
    /\ pause' = IF asked /\ expired THEN "late" ELSE "inTime"
    /\ SetTimer(current, "soon")
    /\ UNCHANGED <<cache, answers, keys, control, leaseLost, waits, booting, ended, ghosts>>

\* completeResumeCountdown: everybody is back, the pause key goes first.
ResumeMatch(z) ==
    /\ At(z, "idle") /\ pause # "off"
    /\ pause' = "off"
    /\ Call(z, IF pause = "late" THEN "resumeLate" ELSE "resumeInTime", 0, FALSE)
    /\ UNCHANGED <<cache, answers, timer, keys, leaseLost, waits, booting, ended, ghosts, faults>>

\* resumePossessionMatchQuestion: an expired question is resolved, a missing one sent.
ReadForResume(z) ==
    /\ pc[z] \in {"resumeInTime", "resumeLate"}
    /\ \/ (ended \/ completed) /\ Return(z)
       \/ ~ended /\ ~completed /\ ~asked /\ Call(z, "pick", current, FALSE)
       \/ ~ended /\ asked /\ At(z, "resumeLate") /\ Call(z, "resolve", current, TRUE)
       \/ ~ended /\ asked /\ At(z, "resumeInTime") /\ Call(z, "rewrite", current, FALSE)
    /\ UNCHANGED <<cache, answers, timer, pause, keys, leaseLost, waits, booting, ended, ghosts, faults>>

\* The blob it read, its deadline moved, overwrites whatever the cache holds by now.
RewriteCache(z) ==
    /\ At(z, "rewrite")
    /\ Overwrite(round[z], TRUE, FALSE)
    /\ Goto(z, "armResumed")
    /\ UNCHANGED <<answers, timer, pause, keys, leaseLost, waits, booting, ended, scored, counted, published, faults>>

ArmResumed(z) ==
    /\ At(z, "armResumed")
    /\ SetTimer(round[z], "deadline")
    /\ Return(z)
    /\ UNCHANGED <<cache, answers, pause, keys, leaseLost, waits, booting, ended, ghosts, faults>>

\* rearmActiveMatchTimersOnBoot, ensurePossessionActiveTimers.
Boot(r) ==
    /\ At(r, "idle") /\ booting[r]
    /\ booting' = [booting EXCEPT ![r] = FALSE]
    /\ \/ (ended \/ pause # "off") /\ UNCHANGED <<control, timer, ended>>
       \/ /\ ~ended /\ pause = "off"
          /\ \/ completed /\ ended' = TRUE /\ UNCHANGED <<control, timer>>
             \/ ~completed /\ ~asked /\ ArmIfAbsent(current) /\ UNCHANGED <<control, ended>>
             \/ asked /\ expired /\ Call(r, "resolve", current, TRUE) /\ UNCHANGED <<timer, ended>>
             \/ asked /\ ~expired /\ SetTimer(current, "deadline") /\ UNCHANGED <<control, ended>>
    /\ UNCHANGED <<cache, answers, pause, keys, leaseLost, waits, ghosts, faults>>

-----------------------------------------------------------------------------
(* Time and faults *)

Expire ==
    /\ asked /\ ~expired
    /\ expired' = TRUE
    /\ UNCHANGED <<current, asked, completed, answers, timer, pause, keys, control, leaseLost, waits,
                   booting, ended, ghosts, faults>>

\* A stalled holder outlives its lease; its renewal tells it so only later.
LeaseLapses(a) ==
    /\ lock = a
    /\ Fails("lapse")
    /\ lock' = Free
    /\ UNCHANGED <<cache, answers, timer, pause, fence, sent, control, leaseLost, waits, booting, ended, ghosts>>

NoticeLeaseLost(a) ==
    /\ Critical(a) /\ lock # a /\ ~leaseLost[a]
    /\ leaseLost' = [leaseLost EXCEPT ![a] = TRUE]
    /\ UNCHANGED <<cache, answers, timer, pause, keys, control, waits, booting, ended, ghosts, faults>>

\* The keys of the dead expire; a mark also expires behind its sender (which no
\* longer matters once the question is out, so only that of a missing one does).
OrphanExpires ==
    \/ /\ lock = Orphan /\ lock' = Free
       /\ UNCHANGED <<cache, answers, timer, pause, fence, sent, control, leaseLost, waits, booting, ended, ghosts, faults>>
    \/ \E q \in Indexes :
         /\ fence[q] = Orphan /\ fence' = [fence EXCEPT ![q] = Free]
         /\ UNCHANGED <<cache, answers, timer, pause, lock, sent, control, leaseLost, waits, booting, ended, ghosts, faults>>

MarkExpires(q) ==
    /\ q \in sent /\ current = q /\ ~asked
    /\ \A a \in Actors : ~(At(a, "publish") /\ round[a] = q)
    /\ sent' = sent \ {q}
    /\ UNCHANGED <<cache, answers, timer, pause, lock, fence, control, leaseLost, waits, booting, ended, ghosts, faults>>

Crash(r) ==
    LET Dead == {a \in Actors : Home[a] = r}
        Orphaned(k) == IF k \in Dead THEN Orphan ELSE k
    IN  /\ Fails("crash")
        /\ pc' = [a \in Actors |-> IF a \in Dead THEN "idle" ELSE pc[a]]
        /\ round' = [a \in Actors |-> IF a \in Dead THEN 0 ELSE round[a]]
        /\ fromTimeout' = [a \in Actors |-> a \notin Dead /\ fromTimeout[a]]
        /\ seen' = [a \in Actors |-> IF a \in Dead THEN {} ELSE seen[a]]
        /\ leaseLost' = [a \in Actors |-> a \notin Dead /\ leaseLost[a]]
        /\ lock' = Orphaned(lock)
        /\ fence' = [q \in Indexes |-> Orphaned(fence[q])]
        /\ waits' = [waits EXCEPT ![r] = {}]
        /\ booting' = [booting EXCEPT ![r] = TRUE]
        /\ UNCHANGED <<cache, answers, timer, pause, sent, ended, ghosts>>

-----------------------------------------------------------------------------

Enter(a) == AcquireRound(a) \/ FindRoundBusy(a) \/ TakeFence(a) \/ FindFenced(a)

Decide(a) == HoldBack(a) \/ DeferEarly(a) \/ ApplyRound(a)

Conclude(a) == CommitRound(a) \/ ReleaseFence(a) \/ Complete(a) \/ CompletionBusy(a)

Depart(a) == Leave(a) \/ ClearTimer(a) \/ DeferTimer(a)

\* In the order of their stages (which TLC need not try one by one).
Resolve(a) ==
    \/ pc[a] \in {"resolve", "locked"} /\ Enter(a)
    \/ pc[a] \in {"check", "early"} /\ Decide(a)
    \/ pc[a] \in {"commit", "committed", "complete", "recover"} /\ Conclude(a)
    \/ pc[a] \in {"leave", "leaveConcluded", "leaveRearm", "clear", "rearm"} /\ Depart(a)

Dispatch(a) == PickQuestion(a) \/ MarkSent(a) \/ PublishQuestion(a) \/ ArmDeadline(a)

Answer(p) == CommitAnswer(p) \/ DropAnswer(p)

Resume(z) == ResumeMatch(z) \/ ReadForResume(z) \/ RewriteCache(z) \/ ArmResumed(z)

TimePasses == Expire \/ OrphanExpires \/ \E q \in Indexes : MarkExpires(q)

Next ==
    \/ \E a \in Actors : Resolve(a) \/ Dispatch(a) \/ LeaseLapses(a) \/ NoticeLeaseLost(a)
    \/ \E p \in Players : SubmitAnswer(p) \/ Answer(p)
    \/ \E h \in Handlers, q \in Indexes : Fire(h, q)
    \/ \E r \in Replicas : EndWait(r) \/ Boot(r) \/ Crash(r)
    \/ Resume(Resumer)
    \/ PauseMatch \/ TimePasses

Spec == Init /\ [][Next]_vars

\* What an actor has begun, or owes: everything of its own but a new answer.
Work(a) ==
    \/ ~At(a, "idle") /\ \/ Resolve(a) \/ Dispatch(a)
                         \/ a \in Players /\ Answer(a)
                         \/ a = Resumer /\ Resume(a)
    \/ At(a, "idle") /\ \/ a \in Handlers /\ \E q \in Indexes : Fire(a, q)
                        \/ a \in Replicas /\ (EndWait(a) \/ Boot(a))
                        \/ a = Resumer /\ ResumeMatch(a)

\* Timers fire and their handlers run on; so does the rest of the server (whose work ends,
\* while a timer may come back for ever), a replica that died boots, a paused match is
\* resumed; deadlines and leases pass.  Nobody has to answer, crash or disconnect.
Fairness ==
    /\ \A h \in Handlers : WF_vars(Work(h))
    /\ WF_vars(TimePasses \/ \E a \in Others : Work(a))

FairSpec == Spec /\ Fairness

-----------------------------------------------------------------------------
(* Properties *)

\* The match as MatchRounds promises it; a process that died may leave a result half applied.
Promise == INSTANCE MatchRounds WITH died <- "crash" \in faults

\* Each question is asked once, in order, and scored before the match moves on: once,
\* unless a process died over it (resolver and senders under a lapsing lease; the fence
\* and the mark are for this).  A resume may break it; OnlyResumesRewind says nobody else does.
RoundsInOrder == Promise!Spec

\* The timed wait, its durable backup and a recovery all send the next question:
\* it still goes out once.
PublishedOnce == \A q \in Rounds : published[q] <= 1 \/ rewound

\* Once the match is past a question, every answer acknowledged for it is in the
\* result that was committed, whichever resolver scored it and however often (unless the
\* lock lapsed under the answer, or a resume rewound the match).
AckedAnswersCount == \A q \in Rounds :
    current > q /\ ~rewound /\ "lapse" \notin faults => answers[q] \subseteq counted[q]

\* Everybody overwrites the blob whole, some long after they read it: still only a
\* match that was paused (and whose resume writes back what it read) can go back to a
\* question it has passed; a resolver or a sender, however late, cannot.
OnlyResumesRewind == rewound => "pause" \in faults

\* Whoever dies, pauses or stays silent, the match is played to its end (one that a
\* resume rewound is not answered for).
MatchEnds == <>(ended \/ rewound)
=============================================================================
