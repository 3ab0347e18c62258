--------------------------- MODULE RealtimeTimers ---------------------------
(***************************************************************************)
(* The durable timer scheduler of the realtime server                      *)
(* (src/realtime/realtime-timer-scheduler.ts) on top of the Redis lock of  *)
(* src/realtime/locks.ts.                                                   *)
(*                                                                          *)
(* Every replica of the server shares one Redis sorted set of timers and   *)
(* one payload key per timer.  A replica polls the set, pops what is due,  *)
(* and hands each popped timer to its handler under a lock with a TTL.     *)
(* Every await of processDueMember is a point where other replicas, other  *)
(* handlers and socket events interleave, so each is an action of its own. *)
(*                                                                          *)
(* Time is relative: a score, a deadline or a TTL is the number of ticks   *)
(* left, and Tick counts all of them down, so nothing bounds a behaviour.  *)
(***************************************************************************)
EXTENDS Integers, FiniteSets

CONSTANTS
    Replicas,      \* server processes
    Members,       \* timers, the code's `${kind}:${key}`
    Nobody,        \* the lock key does not exist
    Orphan,        \* the lock holds a token no live worker remembers
    MaxDelay,      \* the longest delay a caller asks for
    RetryDelay,    \* Date.now() + 1000 of the two retry paths
    Grace,         \* the 250 ms of the stale-pop guard
    LockTTL,       \* the 10 000 ms of processDueMember's lock
    Concurrency,   \* TIMER_HANDLER_CONCURRENCY
    BatchSize,     \* TIMER_BATCH_SIZE
    HandlersFail,  \* may a handler throw?
    RedisDrops,    \* may a replica's Redis client be closed by the watchdog?
    Crashes,       \* may a replica die and restart?
    CancelAllowed  \* do callers cancel timers in this instance?

ASSUME ReplicasAssumption == Nobody \notin Replicas /\ Orphan \notin Replicas /\ Nobody # Orphan
ASSUME DelayAssumption ==
    /\ MaxDelay \in Nat /\ RetryDelay \in 0..MaxDelay /\ Grace \in Nat
    /\ LockTTL \in Nat \ {0} /\ Concurrency \in Nat \ {0} /\ BatchSize \in Nat \ {0}
ASSUME SwitchAssumption == {HandlersFail, RedisDrops, Crashes, CancelAllowed} \subseteq BOOLEAN

VARIABLES
    zset,        \* realtime:timers: ticks left, or None when not a member
    payload,     \* realtime:timer:payload:*: ticks to the deadline it is for, or None
    holder,      \* lock:realtime_timer:*: whose token the key holds
    ttl,         \* its PX, ticks left; 0 when the key does not exist
    open,        \* does this replica's Redis client report isOpen?
    fallback,    \* localFallbackTimers: ticks left, or None
    localLock,   \* localLocks: TTL left of the process-local lock, 0 when absent
    pc,          \* where this replica's processDueMember(member) stands
    token,       \* which backend granted this worker's lock token
    age,         \* ghost: ticks since the worker's Redis lock was granted, up to LockTTL
    cancelling,  \* cancelRealtimeTimer sent ZREM and its DEL is still on the wire
    owed         \* ghost: what the last caller of schedule/cancel is still owed

lock == <<holder, ttl>>
vars == <<zset, payload, lock, open, fallback, localLock, pc, token, age, cancelling, owed>>

None == -1
Ticks == 0..MaxDelay
Stages == {"idle", "popped", "busy", "locked", "fresh", "running", "failed",
           "release", "releaseHandled", "cleanup"}

TypeOK ==
    /\ zset \in [Members -> Ticks \cup {None}]
    /\ payload \in [Members -> Ticks \cup {None}]
    /\ holder \in [Members -> Replicas \cup {Nobody, Orphan}]
    /\ ttl \in [Members -> 0..LockTTL]
    /\ open \in [Replicas -> BOOLEAN]
    /\ fallback \in [Replicas -> [Members -> Ticks \cup {None}]]
    /\ localLock \in [Replicas -> [Members -> 0..LockTTL]]
    /\ pc \in [Replicas -> [Members -> Stages]]
    /\ token \in [Replicas -> [Members -> {"none", "redis", "local"}]]
    /\ age \in [Replicas -> [Members -> 0..LockTTL]]
    /\ cancelling \in [Replicas -> [Members -> BOOLEAN]]
    /\ owed \in [Members -> {"nothing", "owed", "inHand"}]

Init ==
    /\ zset = [m \in Members |-> None]
    /\ payload = [m \in Members |-> None]
    /\ holder = [m \in Members |-> Nobody]
    /\ ttl = [m \in Members |-> 0]
    /\ open = [r \in Replicas |-> TRUE]
    /\ fallback = [r \in Replicas |-> [m \in Members |-> None]]
    /\ localLock = [r \in Replicas |-> [m \in Members |-> 0]]
    /\ pc = [r \in Replicas |-> [m \in Members |-> "idle"]]
    /\ token = [r \in Replicas |-> [m \in Members |-> "none"]]
    /\ age = [r \in Replicas |-> [m \in Members |-> 0]]
    /\ cancelling = [r \in Replicas |-> [m \in Members |-> FALSE]]
    /\ owed = [m \in Members |-> "nothing"]

-----------------------------------------------------------------------------
(* Helpers *)

\* Mutant: scores run below zero.
DownPastZero(n) == n - 1

Down(n) == IF n > 0 THEN n - 1 ELSE n

\* pollInFlight: the previous batch of this replica has not finished.
PollInFlight(r) == \E m \in Members : pc[r][m] # "idle"

\* The members processDueMembers' workers are on, of the batch popped by r.
Working(r) == {m \in Members : pc[r][m] \notin {"idle", "popped"}}

\* One connection per replica: its commands reach Redis in the order issued.
Ordered(r, m) == ~cancelling[r][m]

\* A worker between a granted lock and the end of its releaseLock.
Critical(r, m) == pc[r][m] \in {"locked", "fresh", "running", "failed", "release", "releaseHandled"}

Goto(r, m, stage) == pc' = [pc EXCEPT ![r][m] = stage]

\* Popped and not yet decided: in the hands of a worker.
InHand(r, m) == pc[r][m] \in {"popped", "busy", "locked", "fresh", "failed"}

\* Ghost: what a failing process has in its hands is no longer owed.
WriteOff(r) ==
    owed' = [m \in Members |-> IF InHand(r, m) \/ pc[r][m] = "running" THEN "nothing" ELSE owed[m]]

-----------------------------------------------------------------------------
(* Callers: socket handlers, services and the timer handlers themselves *)

\* scheduleRealtimeTimer with Redis: SET payload and ZADD in one MULTI.
Schedule(r, m, d) ==
    /\ open[r] /\ Ordered(r, m)
    /\ fallback' = [fallback EXCEPT ![r][m] = None]
    /\ payload' = [payload EXCEPT ![m] = d]
    /\ zset' = [zset EXCEPT ![m] = d]
    /\ owed' = [owed EXCEPT ![m] = "owed"]
    /\ UNCHANGED <<lock, open, localLock, pc, token, age, cancelling>>

\* The same with onlyIfAbsent: an existing entry keeps its score, the payload
\* is written in any case.  Callers pass the payload the entry already has.
ScheduleIfAbsent(r, m, d) ==
    /\ open[r] /\ Ordered(r, m)
    /\ fallback[r][m] = None
    /\ payload' = [payload EXCEPT ![m] = IF zset[m] # None /\ payload[m] # None THEN @ ELSE d]
    /\ zset' = [zset EXCEPT ![m] = IF @ = None THEN d ELSE @]
    /\ owed' = [owed EXCEPT ![m] = "owed"]
    /\ UNCHANGED <<lock, open, fallback, localLock, pc, token, age, cancelling>>

\* Without Redis the timer becomes a setTimeout of this process.
ScheduleFallback(r, m, d) ==
    /\ ~open[r]
    /\ fallback' = [fallback EXCEPT ![r][m] = d]
    /\ UNCHANGED <<zset, payload, lock, open, localLock, pc, token, age, cancelling, owed>>

\* requireDurable without Redis: the caller gets an error, after the local
\* fallback has been cleared.
RefuseDurable(r, m) ==
    /\ ~open[r]
    /\ fallback' = [fallback EXCEPT ![r][m] = None]
    /\ UNCHANGED <<zset, payload, lock, open, localLock, pc, token, age, cancelling, owed>>

\* cancelRealtimeTimer: ZREM now; DEL is the second command of Promise.all.
Cancel(r, m) ==
    /\ CancelAllowed
    /\ Ordered(r, m)
    /\ fallback' = [fallback EXCEPT ![r][m] = None]
    /\ IF open[r]
       THEN /\ zset' = [zset EXCEPT ![m] = None]
            /\ cancelling' = [cancelling EXCEPT ![r][m] = TRUE]
            /\ owed' = [owed EXCEPT ![m] = "nothing"]
       ELSE UNCHANGED <<zset, cancelling, owed>>
    /\ UNCHANGED <<payload, lock, open, localLock, pc, token, age>>

CancelPayload(r, m) ==
    /\ cancelling[r][m]
    /\ cancelling' = [cancelling EXCEPT ![r][m] = FALSE]
    /\ payload' = [payload EXCEPT ![m] = None]
    /\ UNCHANGED <<zset, lock, open, fallback, localLock, pc, token, age, owed>>

-----------------------------------------------------------------------------
(* The poller and processDueMember *)

\* POP_DUE_TIMERS: read what is due and remove it, in one script.
Poll(r) ==
    LET due == {m \in Members : zset[m] = 0} IN
    /\ open[r] /\ ~PollInFlight(r)
    /\ \A m \in Members : Ordered(r, m)
    /\ \E batch \in SUBSET due :
         /\ batch # {}
         /\ Cardinality(batch) = BatchSize \/ (batch = due /\ Cardinality(due) < BatchSize)
         /\ zset' = [m \in Members |-> IF m \in batch THEN None ELSE zset[m]]
         /\ pc' = [pc EXCEPT ![r] = [m \in Members |-> IF m \in batch THEN "popped" ELSE "idle"]]
    /\ UNCHANGED <<payload, lock, open, fallback, localLock, token, age, cancelling, owed>>

\* One of the Concurrency workers takes the next popped member.
Starting(r, m) ==
    /\ pc[r][m] = "popped" /\ Ordered(r, m)
    /\ Cardinality(Working(r)) < Concurrency

\* Mutant: SET without NX.
AcquireAlways(r, m) ==
    /\ Starting(r, m) /\ open[r]
    /\ holder' = [holder EXCEPT ![m] = r]
    /\ ttl' = [ttl EXCEPT ![m] = LockTTL]
    /\ token' = [token EXCEPT ![r][m] = "redis"]
    /\ age' = [age EXCEPT ![r][m] = 0]
    /\ Goto(r, m, "locked")
    /\ UNCHANGED <<zset, payload, open, fallback, localLock, cancelling, owed>>

\* acquireLock: SET key token NX PX ttl.
AcquireRedis(r, m) ==
    /\ Starting(r, m)
    /\ open[r] /\ holder[m] = Nobody
    /\ holder' = [holder EXCEPT ![m] = r]
    /\ ttl' = [ttl EXCEPT ![m] = LockTTL]
    /\ token' = [token EXCEPT ![r][m] = "redis"]
    /\ age' = [age EXCEPT ![r][m] = 0]
    /\ Goto(r, m, "locked")
    /\ UNCHANGED <<zset, payload, open, fallback, localLock, cancelling, owed>>

\* acquireLock without Redis: the process-local map.
AcquireLocal(r, m) ==
    /\ Starting(r, m)
    /\ ~open[r] /\ localLock[r][m] = 0
    /\ localLock' = [localLock EXCEPT ![r][m] = LockTTL]
    /\ token' = [token EXCEPT ![r][m] = "local"]
    /\ Goto(r, m, "locked")
    /\ UNCHANGED <<zset, payload, lock, open, fallback, age, cancelling, owed>>

FindLocked(r, m) ==
    /\ Starting(r, m)
    /\ IF open[r] THEN holder[m] # Nobody ELSE localLock[r][m] > 0
    /\ Goto(r, m, "busy")
    /\ UNCHANGED <<zset, payload, lock, open, fallback, localLock, token, age, cancelling, owed>>

\* rescheduleRedisMember: a plain ZADD, whatever the member's score is by now.
PutBack(r, m) ==
    zset' = IF open[r] THEN [zset EXCEPT ![m] = RetryDelay] ELSE zset

\* Mutant: the pop is dropped when the lock is busy.
DropBusy(r, m) ==
    /\ pc[r][m] = "busy"
    /\ Goto(r, m, "idle")
    /\ UNCHANGED <<zset, payload, lock, open, fallback, localLock, token, age, cancelling, owed>>

RescheduleBusy(r, m) ==
    /\ pc[r][m] = "busy" /\ Ordered(r, m)
    /\ PutBack(r, m)
    /\ Goto(r, m, "idle")
    /\ UNCHANGED <<payload, lock, open, fallback, localLock, token, age, cancelling, owed>>

\* The stale-pop guard: a member scheduled again for later is left alone.
CheckStalePop(r, m) ==
    /\ pc[r][m] = "locked" /\ Ordered(r, m)
    /\ Goto(r, m, IF open[r] /\ zset[m] > Grace THEN "release" ELSE "fresh")
    /\ UNCHANGED <<zset, payload, lock, open, fallback, localLock, token, age, cancelling, owed>>

\* readPayload, then the handler starts; without a payload the pop is dropped.
ReadPayload(r, m) ==
    /\ pc[r][m] = "fresh" /\ Ordered(r, m)
    /\ IF open[r] /\ payload[m] # None
       THEN /\ Goto(r, m, "running")
            /\ owed' = [owed EXCEPT ![m] = IF @ = "owed" THEN "inHand" ELSE @]
       ELSE /\ Goto(r, m, "release")
            /\ UNCHANGED owed
    /\ UNCHANGED <<zset, payload, lock, open, fallback, localLock, token, age, cancelling>>

HandlerReturns(r, m) ==
    /\ pc[r][m] = "running"
    /\ Goto(r, m, "releaseHandled")
    /\ owed' = [owed EXCEPT ![m] = IF @ = "inHand" THEN "nothing" ELSE @]
    /\ UNCHANGED <<zset, payload, lock, open, fallback, localLock, token, age, cancelling>>

HandlerThrows(r, m) ==
    /\ HandlersFail
    /\ pc[r][m] = "running"
    /\ Goto(r, m, "failed")
    /\ owed' = [owed EXCEPT ![m] = IF @ = "inHand" /\ open[r] THEN "owed" ELSE @]
    /\ UNCHANGED <<zset, payload, lock, open, fallback, localLock, token, age, cancelling>>

\* Mutant: a failed handler is not retried.
DropFailed(r, m) ==
    /\ pc[r][m] = "failed"
    /\ Goto(r, m, "release")
    /\ UNCHANGED <<zset, payload, lock, open, fallback, localLock, token, age, cancelling, owed>>

RescheduleFailed(r, m) ==
    /\ pc[r][m] = "failed" /\ Ordered(r, m)
    /\ PutBack(r, m)
    /\ Goto(r, m, "release")
    /\ UNCHANGED <<payload, lock, open, fallback, localLock, token, age, cancelling, owed>>

\* Mutant: DEL without comparing the token.
ReleaseUnchecked(r, m) ==
    /\ pc[r][m] \in {"release", "releaseHandled"} /\ Ordered(r, m)
    /\ holder' = IF open[r] THEN [holder EXCEPT ![m] = Nobody] ELSE holder
    /\ ttl' = IF open[r] THEN [ttl EXCEPT ![m] = 0] ELSE ttl
    /\ token' = [token EXCEPT ![r][m] = "none"]
    /\ Goto(r, m, IF pc[r][m] = "releaseHandled" THEN "cleanup" ELSE "idle")
    /\ UNCHANGED <<zset, payload, open, fallback, localLock, age, cancelling, owed>>

\* releaseLock compares the token in whichever backend is in use by now: a
\* token of the other backend frees nothing, and its lock waits for its TTL.
Release(r, m) ==
    /\ pc[r][m] \in {"release", "releaseHandled"} /\ Ordered(r, m)
    /\ LET mine == token[r][m] = "redis" /\ holder[m] = r IN
         /\ holder' = IF mine
                      THEN [holder EXCEPT ![m] = IF open[r] THEN Nobody ELSE Orphan]
                      ELSE holder
         /\ ttl' = IF mine /\ open[r] THEN [ttl EXCEPT ![m] = 0] ELSE ttl
    /\ localLock' = IF token[r][m] = "local" /\ ~open[r]
                    THEN [localLock EXCEPT ![r][m] = 0]
                    ELSE localLock
    /\ token' = [token EXCEPT ![r][m] = "none"]
    /\ Goto(r, m, IF pc[r][m] = "releaseHandled" THEN "cleanup" ELSE "idle")
    /\ UNCHANGED <<zset, payload, open, fallback, age, cancelling, owed>>

\* Mutant: DEL without looking at the sorted set.
CleanupAlways(r, m) ==
    /\ pc[r][m] = "cleanup" /\ Ordered(r, m)
    /\ payload' = IF open[r] THEN [payload EXCEPT ![m] = None] ELSE payload
    /\ Goto(r, m, "idle")
    /\ UNCHANGED <<zset, lock, open, fallback, localLock, token, age, cancelling, owed>>

\* CLEANUP_PAYLOAD_IF_UNSCHEDULED, skipped when Redis is closed.
Cleanup(r, m) ==
    /\ pc[r][m] = "cleanup" /\ Ordered(r, m)
    /\ payload' = IF open[r] /\ zset[m] = None THEN [payload EXCEPT ![m] = None] ELSE payload
    /\ Goto(r, m, "idle")
    /\ UNCHANGED <<zset, lock, open, fallback, localLock, token, age, cancelling, owed>>

\* The setTimeout of a local fallback: it forgets itself and calls the handler.
FireFallback(r, m) ==
    /\ fallback[r][m] = 0
    /\ fallback' = [fallback EXCEPT ![r][m] = None]
    /\ UNCHANGED <<zset, payload, lock, open, localLock, pc, token, age, cancelling, owed>>

-----------------------------------------------------------------------------
(* The environment *)

\* forceReconnect of the Redis watchdog: disconnect() drops the queued
\* commands, and until connect() the client is not open.
RedisClosed(r) ==
    /\ RedisDrops /\ open[r]
    /\ open' = [open EXCEPT ![r] = FALSE]
    /\ cancelling' = [cancelling EXCEPT ![r] = [m \in Members |-> FALSE]]
    /\ WriteOff(r)
    /\ UNCHANGED <<zset, payload, lock, fallback, localLock, pc, token, age>>

RedisReopened(r) ==
    /\ ~open[r]
    /\ open' = [open EXCEPT ![r] = TRUE]
    /\ UNCHANGED <<zset, payload, lock, fallback, localLock, pc, token, age, cancelling, owed>>

\* A process dies with its workers, its setTimeouts and its local locks; what
\* it held in Redis stays until the TTL, and a new process takes its place.
Crash(r) ==
    /\ Crashes
    /\ open' = [open EXCEPT ![r] = TRUE]
    /\ holder' = [m \in Members |-> IF holder[m] = r THEN Orphan ELSE holder[m]]
    /\ fallback' = [fallback EXCEPT ![r] = [m \in Members |-> None]]
    /\ localLock' = [localLock EXCEPT ![r] = [m \in Members |-> 0]]
    /\ pc' = [pc EXCEPT ![r] = [m \in Members |-> "idle"]]
    /\ token' = [token EXCEPT ![r] = [m \in Members |-> "none"]]
    /\ age' = [age EXCEPT ![r] = [m \in Members |-> 0]]
    /\ cancelling' = [cancelling EXCEPT ![r] = [m \in Members |-> FALSE]]
    /\ WriteOff(r)
    /\ UNCHANGED <<zset, payload, ttl>>

\* Time passes: scores and deadlines come closer, lock TTLs run out.
Tick ==
    /\ zset' = [m \in Members |-> Down(zset[m])]
    /\ payload' = [m \in Members |-> Down(payload[m])]
    /\ holder' = [m \in Members |-> IF ttl[m] <= 1 THEN Nobody ELSE holder[m]]
    /\ ttl' = [m \in Members |-> Down(ttl[m])]
    /\ fallback' = [r \in Replicas |-> [m \in Members |-> Down(fallback[r][m])]]
    /\ localLock' = [r \in Replicas |-> [m \in Members |-> Down(localLock[r][m])]]
    /\ age' = [r \in Replicas |-> [m \in Members |->
                 IF token[r][m] = "redis" /\ age[r][m] < LockTTL THEN age[r][m] + 1 ELSE age[r][m]]]
    /\ UNCHANGED <<open, pc, token, cancelling, owed>>

Caller(r, m) ==
    \/ \E d \in Ticks :
         Schedule(r, m, d) \/ ScheduleIfAbsent(r, m, d) \/ ScheduleFallback(r, m, d)
    \/ RefuseDurable(r, m) \/ Cancel(r, m)

Worker(r, m) ==
    \/ AcquireRedis(r, m) \/ AcquireLocal(r, m) \/ FindLocked(r, m) \/ RescheduleBusy(r, m) \/ CheckStalePop(r, m) \/ ReadPayload(r, m)
    \/ HandlerReturns(r, m) \/ HandlerThrows(r, m) \/ RescheduleFailed(r, m)
    \/ Release(r, m) \/ Cleanup(r, m)

Next ==
    \/ \E r \in Replicas : Poll(r) \/ RedisClosed(r) \/ RedisReopened(r) \/ Crash(r)
    \/ \E r \in Replicas, m \in Members :
         Caller(r, m) \/ CancelPayload(r, m) \/ Worker(r, m) \/ FireFallback(r, m)
    \/ Tick

Spec == Init /\ [][Next]_vars

\* setInterval keeps polling, every await of a worker returns (Redis answers
\* and handlers are bounded by their database timeouts), and time passes.
\* A command may queue behind a DEL of its own process over and over;
\* the connection is first-in first-out, so it is served: strong fairness.
Fairness ==
    /\ WF_vars(Tick)
    /\ \A r \in Replicas : SF_vars(Poll(r))
    /\ \A r \in Replicas, m \in Members :
         WF_vars(CancelPayload(r, m)) /\ SF_vars(Worker(r, m))

FairSpec == Spec /\ Fairness

-----------------------------------------------------------------------------
(* Properties *)

\* Two workers are past acquireLock for one timer only if the lock of one of
\* them outlived its 10 s TTL, or was granted by a process-local map: the
\* mutual exclusion processDueMember gets from SET NX PX without a heartbeat.
HandlersExcluded ==
    \A m \in Members : \A r, s \in Replicas :
      r # s /\ Critical(r, m) /\ Critical(s, m) =>
        \E w \in {r, s} : token[w][m] = "local" \/ age[w][m] = LockTTL

\* A token-checked release frees only the worker's own lock: a worker whose
\* TTL has not run out still owns the Redis key, whatever other workers,
\* releases of expired tokens, crashes and reconnects did in between.
LockHeldUntilExpiry ==
    \A r \in Replicas, m \in Members :
      token[r][m] = "redis" /\ age[r][m] < LockTTL =>
        holder[m] = r /\ ttl[m] = LockTTL - age[r][m]

\* The last schedule of a timer is never lost: until a handler gets it or it
\* is cancelled, its payload exists and its member is in the sorted set or in
\* the hands of a worker that has not yet decided.  This is what the
\* atomic MULTI and the atomic cleanup script (lines 257-264, 418-423) are for.
NoTimerLost ==
    \A m \in Members : owed[m] = "owed" =>
      /\ payload[m] # None
      /\ \/ zset[m] # None
         \/ \E r \in Replicas : InHand(r, m)

\* Membership alone survives any interleaving of replicas, cancels, crashes and
\* reconnects: as long as its payload exists, an owed timer is in the sorted set or in
\* a worker's hands.  Only what a failing process had in its own hands is written off.
NeverDisarmed ==
    \A m \in Members : owed[m] = "owed" /\ payload[m] # None =>
      \/ zset[m] # None
      \/ \E r \in Replicas : InHand(r, m)

\* A scheduled timer is handed to a handler, unless callers keep moving it.
Delivered ==
    \A m \in Members :
      \/ []<>(owed[m] # "owed")
      \/ []<><<\E r \in Replicas, d \in Ticks : Schedule(r, m, d)>>_vars

=============================================================================
