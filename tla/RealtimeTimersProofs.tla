------------------------ MODULE RealtimeTimersProofs ------------------------
(* Proofs about RealtimeTimers, for every set of replicas and timers and   *)
(* every delay, TTL, batch size and concurrency limit.                     *)
EXTENDS RealtimeTimers, TLAPS

\* Whoever is between acquireLock and releaseLock got a token from a backend.
CriticalHasToken ==
    \A r \in Replicas, m \in Members :
      Critical(r, m) => token[r][m] \in {"redis", "local"}

USE DEF None, Ticks, Stages

LEMMA TypeInit == Init => TypeOK
BY ReplicasAssumption, DelayAssumption DEF Init, TypeOK

LEMMA DownInTicks ==
    ASSUME NEW B \in Nat, NEW n \in 0..B \cup {None}
    PROVE  Down(n) \in 0..B \cup {None} /\ (n # None => Down(n) \in 0..B)
BY DEF Down

\* Everything a caller, a worker or the environment does keeps the types.
LEMMA TypeNext == TypeOK /\ [Next]_vars => TypeOK'
<1> SUFFICES ASSUME TypeOK, [Next]_vars PROVE TypeOK'
  OBVIOUS
<1> USE DelayAssumption, ReplicasAssumption
<1>1. ASSUME NEW r \in Replicas, NEW m \in Members, Caller(r, m) PROVE TypeOK'
  <2>1. ASSUME NEW d \in Ticks, Schedule(r, m, d) PROVE TypeOK'
    BY <2>1 DEF Schedule, lock, TypeOK
  <2>2. ASSUME NEW d \in Ticks, ScheduleIfAbsent(r, m, d) PROVE TypeOK'
    BY <2>2 DEF ScheduleIfAbsent, lock, TypeOK
  <2>3. ASSUME NEW d \in Ticks, ScheduleFallback(r, m, d) PROVE TypeOK'
    BY <2>3 DEF ScheduleFallback, lock, TypeOK
  <2>4. CASE RefuseDurable(r, m)
    BY <2>4 DEF RefuseDurable, lock, TypeOK
  <2>5. CASE Cancel(r, m)
    <3>1. fallback' \in [Replicas -> [Members -> Ticks \cup {None}]]
      BY <2>5 DEF Cancel, lock, TypeOK
    <3>2. /\ zset' \in [Members -> Ticks \cup {None}]
          /\ owed' \in [Members -> {"nothing", "owed", "inHand"}]
      BY <2>5 DEF Cancel, TypeOK
    <3>3. cancelling' \in [Replicas -> [Members -> BOOLEAN]]
      <4>1. [cancelling EXCEPT ![r][m] = TRUE] \in [Replicas -> [Members -> BOOLEAN]]
        BY DEF TypeOK
      <4>2. cancelling' = [cancelling EXCEPT ![r][m] = TRUE] \/ cancelling' = cancelling
        BY <2>5 DEF Cancel
      <4>3. QED
        BY <4>1, <4>2 DEF TypeOK
    <3>4. QED
      BY <2>5, <3>1, <3>2, <3>3 DEF Cancel, lock, TypeOK
  <2>6. QED
    BY <1>1, <2>1, <2>2, <2>3, <2>4, <2>5 DEF Caller
<1>2. ASSUME NEW r \in Replicas, NEW m \in Members, Worker(r, m) PROVE TypeOK'
  <2>0. CASE AcquireLocal(r, m)
    <3>1. /\ localLock' \in [Replicas -> [Members -> 0..LockTTL]]
          /\ token' \in [Replicas -> [Members -> {"none", "redis", "local"}]]
          /\ pc' \in [Replicas -> [Members -> Stages]]
      BY <2>0 DEF AcquireLocal, Goto, lock, TypeOK
    <3>2. QED
      BY <2>0, <3>1 DEF AcquireLocal, lock, TypeOK
  <2>1. CASE AcquireRedis(r, m)
    <3>1. /\ holder' \in [Members -> Replicas \cup {Nobody, Orphan}]
          /\ ttl' \in [Members -> 0..LockTTL]
          /\ age' \in [Replicas -> [Members -> 0..LockTTL]]
      BY <2>1 DEF AcquireRedis, lock, TypeOK
    <3>2. /\ token' \in [Replicas -> [Members -> {"none", "redis", "local"}]]
          /\ pc' \in [Replicas -> [Members -> Stages]]
      BY <2>1 DEF AcquireRedis, Goto, lock, TypeOK
    <3>3. QED
      BY <2>1, <3>1, <3>2 DEF AcquireRedis, lock, TypeOK
  <2>11. CASE FindLocked(r, m)
    BY <2>11 DEF FindLocked, Goto, lock, TypeOK
  <2>2. CASE RescheduleBusy(r, m)
    BY <2>2 DEF RescheduleBusy, PutBack, Goto, lock, TypeOK
  <2>3. CASE CheckStalePop(r, m)
    <3>1. \E stage \in {"release", "fresh"} : Goto(r, m, stage)
      BY <2>3 DEF CheckStalePop
    <3>2. pc' \in [Replicas -> [Members -> Stages]]
      BY <3>1 DEF Goto, lock, TypeOK
    <3>3. QED
      BY <2>3, <3>2 DEF CheckStalePop, lock, TypeOK
  <2>4. CASE ReadPayload(r, m)
    <3>1. \E stage \in {"running", "release"} : Goto(r, m, stage)
      BY <2>4 DEF ReadPayload
    <3>2. pc' \in [Replicas -> [Members -> Stages]]
      BY <3>1 DEF Goto, TypeOK
    <3>3. owed' \in [Members -> {"nothing", "owed", "inHand"}]
      BY <2>4 DEF ReadPayload, TypeOK
    <3>4. QED
      BY <2>4, <3>2, <3>3 DEF ReadPayload, lock, TypeOK
  <2>5. CASE HandlerReturns(r, m)
    BY <2>5 DEF HandlerReturns, Goto, lock, TypeOK
  <2>6. CASE HandlerThrows(r, m)
    BY <2>6 DEF HandlerThrows, Goto, lock, TypeOK
  <2>7. CASE RescheduleFailed(r, m)
    BY <2>7 DEF RescheduleFailed, PutBack, Goto, lock, TypeOK
  <2>8. CASE Release(r, m)
    <3>1. \E stage \in {"cleanup", "idle"} : Goto(r, m, stage)
      BY <2>8 DEF Release
    <3>2. pc' \in [Replicas -> [Members -> Stages]]
      BY <3>1 DEF Goto, lock, TypeOK
    <3>3. holder' \in [Members -> Replicas \cup {Nobody, Orphan}] /\ ttl' \in [Members -> 0..LockTTL]
      BY <2>8 DEF Release, lock, TypeOK
    <3>4. token' \in [Replicas -> [Members -> {"none", "redis", "local"}]]
      BY <2>8 DEF Release, lock, TypeOK
    <3>5. localLock' \in [Replicas -> [Members -> 0..LockTTL]]
      BY <2>8 DEF Release, lock, TypeOK
    <3>6. QED
      BY <2>8, <3>2, <3>3, <3>4, <3>5 DEF Release, lock, TypeOK
  <2>9. CASE Cleanup(r, m)
    BY <2>9 DEF Cleanup, Goto, lock, TypeOK
  <2>10. QED
    BY <1>2, <2>0, <2>11, <2>1, <2>2, <2>3, <2>4, <2>5, <2>6, <2>7, <2>8, <2>9 DEF Worker
<1>3. ASSUME NEW r \in Replicas, NEW m \in Members, CancelPayload(r, m) \/ FireFallback(r, m)
      PROVE  TypeOK'
  <2>1. CASE CancelPayload(r, m)
    BY <2>1 DEF CancelPayload, lock, TypeOK
  <2>2. CASE FireFallback(r, m)
    BY <2>2 DEF FireFallback, lock, TypeOK
  <2>3. QED
    BY <1>3, <2>1, <2>2
<1>4. ASSUME NEW r \in Replicas, Poll(r) PROVE TypeOK'
  BY <1>4 DEF Poll, lock, TypeOK
<1>5. ASSUME NEW r \in Replicas, RedisClosed(r) \/ RedisReopened(r) PROVE TypeOK'
  <2>1. CASE RedisClosed(r)
    <3>1. open' \in [Replicas -> BOOLEAN] /\ cancelling' \in [Replicas -> [Members -> BOOLEAN]]
      BY <2>1 DEF RedisClosed, lock, TypeOK
    <3>2. owed' \in [Members -> {"nothing", "owed", "inHand"}]
      BY <2>1 DEF RedisClosed, WriteOff, TypeOK
    <3>3. QED
      BY <2>1, <3>1, <3>2 DEF RedisClosed, lock, TypeOK
  <2>2. CASE RedisReopened(r)
    BY <2>2 DEF RedisReopened, lock, TypeOK
  <2>3. QED
    BY <1>5, <2>1, <2>2
<1>6. ASSUME NEW r \in Replicas, Crash(r) PROVE TypeOK'
  <2>1. holder' \in [Members -> Replicas \cup {Nobody, Orphan}] /\ ttl' \in [Members -> 0..LockTTL]
    BY <1>6 DEF Crash, lock, TypeOK
  <2>2. open' \in [Replicas -> BOOLEAN] /\ cancelling' \in [Replicas -> [Members -> BOOLEAN]]
    BY <1>6 DEF Crash, lock, TypeOK
  <2>3. fallback' \in [Replicas -> [Members -> Ticks \cup {None}]]
    BY <1>6 DEF Crash, lock, TypeOK
  <2>4. /\ localLock' \in [Replicas -> [Members -> 0..LockTTL]]
        /\ age' \in [Replicas -> [Members -> 0..LockTTL]]
    BY <1>6 DEF Crash, lock, TypeOK
  <2>5. /\ pc' \in [Replicas -> [Members -> Stages]]
        /\ token' \in [Replicas -> [Members -> {"none", "redis", "local"}]]
    BY <1>6 DEF Crash, lock, TypeOK
  <2>6. owed' \in [Members -> {"nothing", "owed", "inHand"}]
    BY <1>6 DEF Crash, WriteOff, TypeOK
  <2>7. QED
    BY <1>6, <2>1, <2>2, <2>3, <2>4, <2>5, <2>6 DEF Crash, lock, TypeOK
<1>7. CASE Tick
  <2>1. zset' \in [Members -> Ticks \cup {None}] /\ payload' \in [Members -> Ticks \cup {None}]
    BY <1>7, DownInTicks DEF Tick, lock, TypeOK
  <2>2. fallback' \in [Replicas -> [Members -> Ticks \cup {None}]]
    BY <1>7, DownInTicks DEF Tick, lock, TypeOK
  <2>3. localLock' \in [Replicas -> [Members -> 0..LockTTL]]
    BY <1>7 DEF Tick, Down, lock, TypeOK
  <2>4. holder' \in [Members -> Replicas \cup {Nobody, Orphan}] /\ ttl' \in [Members -> 0..LockTTL]
    BY <1>7 DEF Tick, Down, TypeOK
  <2>5. age' \in [Replicas -> [Members -> 0..LockTTL]]
    BY <1>7 DEF Tick, lock, TypeOK
  <2>6. QED
    BY <1>7, <2>1, <2>2, <2>3, <2>4, <2>5 DEF Tick, lock, TypeOK
<1>8. CASE UNCHANGED vars
  BY <1>8 DEF vars, lock, TypeOK
<1>9. QED
  BY <1>1, <1>2, <1>3, <1>4, <1>5, <1>6, <1>7, <1>8 DEF Next

\* Type correctness: every variable keeps the shape the code gives it.
THEOREM TypeCorrect == Spec => []TypeOK
<1>1. Init => TypeOK
  BY TypeInit
<1>2. TypeOK /\ [Next]_vars => TypeOK'
  BY TypeNext
<1>3. QED
  BY <1>1, <1>2, PTL DEF Spec

-----------------------------------------------------------------------------
(* Who holds the lock, and for how long *)

\* The actions that touch the lock, a token or its age.
LockStep(r, m) == AcquireRedis(r, m) \/ AcquireLocal(r, m) \/ Release(r, m)

\* Every other action of a caller or a worker leaves them alone.
LEMMA OthersLeaveLocks ==
    ASSUME NEW r \in Replicas, NEW m \in Members,
           Caller(r, m) \/ CancelPayload(r, m) \/ Worker(r, m) \/ FireFallback(r, m),
           ~LockStep(r, m)
    PROVE  UNCHANGED <<holder, ttl, token, age>>
BY DEF Caller, Worker, LockStep, lock, Schedule, ScheduleIfAbsent, ScheduleFallback,
       RefuseDurable, Cancel, CancelPayload, FindLocked, RescheduleBusy, CheckStalePop,
       ReadPayload, HandlerReturns, HandlerThrows, RescheduleFailed, Cleanup, FireFallback

LEMMA HeldNext == TypeOK /\ LockHeldUntilExpiry /\ [Next]_vars => LockHeldUntilExpiry'
<1> SUFFICES ASSUME TypeOK, LockHeldUntilExpiry, [Next]_vars,
                    NEW s \in Replicas, NEW n \in Members,
                    token'[s][n] = "redis", age'[s][n] < LockTTL
             PROVE  holder'[n] = s /\ ttl'[n] = LockTTL - age'[s][n]
  BY DEF LockHeldUntilExpiry
<1> USE DelayAssumption, ReplicasAssumption
<1>1. ASSUME UNCHANGED <<holder, ttl, token, age>>
      PROVE  holder'[n] = s /\ ttl'[n] = LockTTL - age'[s][n]
  BY <1>1 DEF LockHeldUntilExpiry
<1>2. ASSUME NEW r \in Replicas, NEW m \in Members, AcquireRedis(r, m)
      PROVE  holder'[n] = s /\ ttl'[n] = LockTTL - age'[s][n]
  <2>1. CASE s = r /\ n = m
    <3>1. holder'[m] = r /\ ttl'[m] = LockTTL
      BY <1>2 DEF AcquireRedis, TypeOK
    <3>2. age'[r][m] = 0
      BY <1>2 DEF AcquireRedis, TypeOK
    <3>3. QED
      BY <2>1, <3>1, <3>2
  <2>2. CASE ~(s = r /\ n = m)
    <3>1. token'[s][n] = token[s][n] /\ age'[s][n] = age[s][n]
      BY <1>2, <2>2 DEF AcquireRedis, TypeOK
    <3>2. holder[n] = s /\ ttl[n] = LockTTL - age[s][n]
      BY <3>1 DEF LockHeldUntilExpiry
    <3>3. n # m
      BY <1>2, <3>2 DEF AcquireRedis
    <3>4. holder'[n] = holder[n] /\ ttl'[n] = ttl[n]
      BY <1>2, <3>3 DEF AcquireRedis, TypeOK
    <3>5. QED
      BY <3>1, <3>2, <3>4
  <2>3. QED
    BY <2>1, <2>2
<1>3. ASSUME NEW r \in Replicas, NEW m \in Members, AcquireLocal(r, m)
      PROVE  holder'[n] = s /\ ttl'[n] = LockTTL - age'[s][n]
  <2>1. UNCHANGED <<holder, ttl, age>>
    BY <1>3 DEF AcquireLocal, lock
  <2>2. token[s][n] = "redis"
    BY <1>3 DEF AcquireLocal, TypeOK
  <2>3. QED
    BY <2>1, <2>2 DEF LockHeldUntilExpiry
<1>4. ASSUME NEW r \in Replicas, NEW m \in Members, Release(r, m)
      PROVE  holder'[n] = s /\ ttl'[n] = LockTTL - age'[s][n]
  <2>1. ~(s = r /\ n = m) /\ token[s][n] = "redis" /\ age' = age
    BY <1>4 DEF Release, TypeOK
  <2>2. holder[n] = s /\ ttl[n] = LockTTL - age[s][n]
    BY <2>1 DEF LockHeldUntilExpiry
  <2>3. holder'[n] = holder[n] /\ ttl'[n] = ttl[n]
    BY <1>4, <2>1, <2>2 DEF Release, TypeOK
  <2>4. QED
    BY <2>1, <2>2, <2>3
<1>5. ASSUME NEW r \in Replicas, Crash(r)
      PROVE  holder'[n] = s /\ ttl'[n] = LockTTL - age'[s][n]
  <2>1. s # r /\ token[s][n] = "redis" /\ age'[s][n] = age[s][n] /\ ttl' = ttl
    BY <1>5 DEF Crash, TypeOK
  <2>2. holder[n] = s /\ ttl[n] = LockTTL - age[s][n]
    BY <2>1 DEF LockHeldUntilExpiry
  <2>3. QED
    BY <1>5, <2>1, <2>2 DEF Crash
<1>6. CASE Tick
  <2>1. token[s][n] = "redis" /\ age[s][n] < LockTTL /\ age'[s][n] = age[s][n] + 1
    BY <1>6 DEF Tick, TypeOK
  <2>2. holder[n] = s /\ ttl[n] = LockTTL - age[s][n] /\ age[s][n] \in 0..LockTTL
    BY <2>1 DEF LockHeldUntilExpiry, TypeOK
  <2>3. ttl[n] > 1
    BY <2>1, <2>2
  <2>4. holder'[n] = holder[n] /\ ttl'[n] = ttl[n] - 1
    BY <1>6, <2>3 DEF Tick, Down, TypeOK
  <2>5. QED
    BY <2>1, <2>2, <2>4
<1>7. ASSUME NEW r \in Replicas, Poll(r) \/ RedisClosed(r) \/ RedisReopened(r)
      PROVE  UNCHANGED <<holder, ttl, token, age>>
  BY <1>7 DEF Poll, RedisClosed, RedisReopened, lock
<1>8. CASE UNCHANGED vars
  BY <1>1, <1>8 DEF vars, lock
<1>9. QED
  BY <1>1, <1>2, <1>3, <1>4, <1>5, <1>6, <1>7, <1>8, OthersLeaveLocks DEF Next, LockStep

\* A token-checked release never frees another worker's lock, and a crash or a
\* reconnect never takes one away before its TTL.
THEOREM LockOwnership == Spec => []LockHeldUntilExpiry
<1>1. Init => LockHeldUntilExpiry
  BY DEF Init, LockHeldUntilExpiry
<1>2. QED
  BY <1>1, HeldNext, TypeCorrect, PTL DEF Spec

LEMMA TokenNext == TypeOK /\ CriticalHasToken /\ [Next]_vars => CriticalHasToken'
<1> SUFFICES ASSUME TypeOK, CriticalHasToken, [Next]_vars,
                    NEW s \in Replicas, NEW n \in Members, Critical(s, n)'
             PROVE  token'[s][n] \in {"redis", "local"}
  BY DEF CriticalHasToken
<1>1. ASSUME Critical(s, n), token'[s][n] = token[s][n]
      PROVE  token'[s][n] \in {"redis", "local"}
  BY <1>1 DEF CriticalHasToken
<1>2. ASSUME NEW r \in Replicas, NEW m \in Members, Worker(r, m)
      PROVE  token'[s][n] \in {"redis", "local"}
  <2>1. CASE AcquireRedis(r, m) \/ AcquireLocal(r, m)
    <3>1. CASE s = r /\ n = m
      BY <2>1, <3>1 DEF AcquireRedis, AcquireLocal, TypeOK
    <3>2. CASE ~(s = r /\ n = m)
      <4>1. pc'[s][n] = pc[s][n] /\ token'[s][n] = token[s][n]
        BY <2>1, <3>2 DEF AcquireRedis, AcquireLocal, Goto, TypeOK
      <4>2. QED
        BY <4>1, <1>1 DEF Critical
    <3>3. QED
      BY <3>1, <3>2
  <2>2. CASE FindLocked(r, m) \/ RescheduleBusy(r, m) \/ Cleanup(r, m)
    <3>1. token' = token
      BY <2>2 DEF FindLocked, RescheduleBusy, Cleanup
    <3>2. ~(s = r /\ n = m)
      BY <2>2 DEF FindLocked, RescheduleBusy, Cleanup, Goto, Critical, TypeOK
    <3>3. pc'[s][n] = pc[s][n]
      BY <2>2, <3>2 DEF FindLocked, RescheduleBusy, Cleanup, Goto, TypeOK
    <3>4. QED
      BY <3>1, <3>3, <1>1 DEF Critical
  <2>3. CASE \/ CheckStalePop(r, m) \/ ReadPayload(r, m) \/ HandlerReturns(r, m)
             \/ HandlerThrows(r, m) \/ RescheduleFailed(r, m)
    <3>1. token' = token /\ Critical(r, m)
      BY <2>3 DEF CheckStalePop, ReadPayload, HandlerReturns, HandlerThrows, RescheduleFailed,
                  Critical
    <3>2. ~(s = r /\ n = m) => pc'[s][n] = pc[s][n]
      BY <2>3 DEF CheckStalePop, ReadPayload, HandlerReturns, HandlerThrows, RescheduleFailed,
                  Goto, TypeOK
    <3>3. QED
      BY <3>1, <3>2, <1>1 DEF Critical
  <2>4. CASE Release(r, m)
    <3>1. ~(s = r /\ n = m)
      BY <2>4 DEF Release, Goto, Critical, TypeOK
    <3>2. pc'[s][n] = pc[s][n] /\ token'[s][n] = token[s][n]
      BY <2>4, <3>1 DEF Release, Goto, TypeOK
    <3>3. QED
      BY <3>2, <1>1 DEF Critical
  <2>5. QED
    BY <1>2, <2>1, <2>2, <2>3, <2>4 DEF Worker
<1>3. ASSUME NEW r \in Replicas, NEW m \in Members,
             Caller(r, m) \/ CancelPayload(r, m) \/ FireFallback(r, m)
      PROVE  UNCHANGED <<pc, token>>
  BY <1>3 DEF Caller, Schedule, ScheduleIfAbsent, ScheduleFallback, RefuseDurable, Cancel,
              CancelPayload, FireFallback
<1>4. ASSUME NEW r \in Replicas, Poll(r) PROVE token'[s][n] \in {"redis", "local"}
  <2>1. s # r
    BY <1>4 DEF Poll, Critical, TypeOK
  <2>2. pc'[s][n] = pc[s][n] /\ token'[s][n] = token[s][n]
    BY <1>4, <2>1 DEF Poll, TypeOK
  <2>3. QED
    BY <2>2, <1>1 DEF Critical
<1>5. ASSUME NEW r \in Replicas, RedisClosed(r) \/ RedisReopened(r) PROVE UNCHANGED <<pc, token>>
  BY <1>5 DEF RedisClosed, RedisReopened
<1>6. ASSUME NEW r \in Replicas, Crash(r) PROVE token'[s][n] \in {"redis", "local"}
  <2>1. s # r
    BY <1>6 DEF Crash, Critical, TypeOK
  <2>2. pc'[s][n] = pc[s][n] /\ token'[s][n] = token[s][n]
    BY <1>6, <2>1 DEF Crash, TypeOK
  <2>3. QED
    BY <2>2, <1>1 DEF Critical
<1>7. Tick \/ UNCHANGED vars => UNCHANGED <<pc, token>>
  BY DEF Tick, vars
<1>8. ASSUME UNCHANGED <<pc, token>> PROVE token'[s][n] \in {"redis", "local"}
  BY <1>1, <1>8 DEF Critical
<1>9. QED
  BY <1>2, <1>3, <1>4, <1>5, <1>6, <1>7, <1>8 DEF Next

LEMMA TokenInit == Init => CriticalHasToken
BY DEF Init, CriticalHasToken, Critical

\* Ownership is exclusive, so two workers meet in one timer's critical section
\* only past a TTL or on a process-local lock.
LEMMA OwnershipExcludes ==
    TypeOK /\ LockHeldUntilExpiry /\ CriticalHasToken => HandlersExcluded
<1> SUFFICES ASSUME TypeOK, LockHeldUntilExpiry, CriticalHasToken,
                    NEW m \in Members, NEW r \in Replicas, NEW s \in Replicas,
                    r # s, Critical(r, m), Critical(s, m),
                    \A w \in {r, s} : token[w][m] # "local" /\ age[w][m] # LockTTL
             PROVE  FALSE
  BY DEF HandlersExcluded
<1>1. token[r][m] = "redis" /\ token[s][m] = "redis"
  BY DEF CriticalHasToken
<1>2. age[r][m] < LockTTL /\ age[s][m] < LockTTL
  <2>1. age[r][m] \in 0..LockTTL /\ age[s][m] \in 0..LockTTL
    BY DEF TypeOK
  <2>2. age[r][m] # LockTTL /\ age[s][m] # LockTTL
    OBVIOUS
  <2>3. QED
    BY <2>1, <2>2, DelayAssumption
<1>3. QED
  BY <1>1, <1>2 DEF LockHeldUntilExpiry

\* Two handlers of one timer overlap only if a lock outlived its 10 s TTL or
\* was granted by a process-local map.
THEOREM HandlerExclusion == Spec => []HandlersExcluded
<1>1. QED
  BY TokenInit, TokenNext, TypeCorrect, LockOwnership, OwnershipExcludes, PTL DEF Spec

-----------------------------------------------------------------------------
(* Membership *)

\* What makes NeverDisarmed inductive: the worker that has an owed timer in hand still
\* has its Redis, for a client that closes is written off with all it had in hand.
Armed ==
    \A m \in Members : owed[m] = "owed" /\ payload[m] # None =>
      zset[m] # None \/ \E r \in Replicas : InHand(r, m) /\ open[r]

LEMMA ArmedInit == Init => Armed
BY DEF Init, Armed

\* A timer that was armed stays so if it stays in the set, or in the same hands.
LEMMA StillArmed ==
    ASSUME Armed, NEW n \in Members, owed[n] = "owed", payload[n] # None,
           zset[n] # None => zset'[n] # None,
           \A s \in Replicas : InHand(s, n) /\ open[s] =>
             zset'[n] # None \/ (InHand(s, n)' /\ open'[s])
    PROVE  zset'[n] # None \/ \E s \in Replicas : (InHand(s, n) /\ open[s])'
BY DEF Armed

LEMMA ArmedNext == TypeOK /\ Armed /\ [Next]_vars => Armed'
<1> SUFFICES ASSUME TypeOK, Armed, [Next]_vars,
                    NEW n \in Members, owed'[n] = "owed", payload'[n] # None
             PROVE  zset'[n] # None \/ \E s \in Replicas : (InHand(s, n) /\ open[s])'
  BY DEF Armed
<1> DEFINE Goal == zset'[n] # None \/ \E s \in Replicas : (InHand(s, n) /\ open[s])'
<1> USE DelayAssumption DEF InHand
<1>1. ASSUME NEW r \in Replicas, NEW m \in Members, Caller(r, m) PROVE Goal
  <2>1. ASSUME NEW d \in Ticks, Schedule(r, m, d) \/ ScheduleIfAbsent(r, m, d) PROVE Goal
    <3>1. CASE n = m
      <4>1. zset'[n] # None
        BY <2>1, <3>1 DEF Schedule, ScheduleIfAbsent, TypeOK
      <4> QED BY <4>1
    <3>2. CASE n # m
      <4>1. /\ owed[n] = "owed" /\ payload[n] # None /\ zset'[n] = zset[n]
            /\ pc' = pc /\ open' = open
        BY <2>1, <3>2 DEF Schedule, ScheduleIfAbsent, TypeOK
      <4> QED BY <4>1, StillArmed
    <3> QED BY <3>1, <3>2
  <2>2. ASSUME NEW d \in Ticks, ScheduleFallback(r, m, d) \/ RefuseDurable(r, m) PROVE Goal
    <3>1. UNCHANGED <<zset, payload, owed, pc, open>>
      BY <2>2 DEF ScheduleFallback, RefuseDurable
    <3> QED BY <3>1, StillArmed
  <2>3. CASE Cancel(r, m)
    <3>1. /\ owed[n] = "owed" /\ payload[n] # None /\ zset'[n] = zset[n]
          /\ pc' = pc /\ open' = open
      BY <2>3 DEF Cancel, TypeOK
    <3> QED BY <3>1, StillArmed
  <2>4. CASE RefuseDurable(r, m)
    <3>1. UNCHANGED <<zset, payload, owed, pc, open>>
      BY <2>4 DEF RefuseDurable
    <3> QED BY <3>1, StillArmed
  <2> QED BY <1>1, <2>1, <2>2, <2>3, <2>4 DEF Caller
<1>2. ASSUME NEW r \in Replicas, NEW m \in Members, Worker(r, m) PROVE Goal
  <2>1. ASSUME NEW stage \in {"locked", "busy", "fresh"}, Goto(r, m, stage),
               UNCHANGED <<zset, payload, owed, open>>
        PROVE  Goal
    <3>1. \A s \in Replicas : InHand(s, n) => InHand(s, n)'
      BY <2>1 DEF Goto, TypeOK
    <3> QED BY <2>1, <3>1, StillArmed
  <2>2. CASE AcquireRedis(r, m) \/ AcquireLocal(r, m) \/ FindLocked(r, m)
    BY <2>1, <2>2 DEF AcquireRedis, AcquireLocal, FindLocked
  <2>3. CASE RescheduleBusy(r, m) \/ RescheduleFailed(r, m)
    <3>0. UNCHANGED <<payload, owed, open>> /\ (\E stage \in Stages : Goto(r, m, stage)) /\ PutBack(r, m)
      BY <2>3 DEF RescheduleBusy, RescheduleFailed
    <3>1. zset[n] # None => zset'[n] # None
      BY <3>0 DEF PutBack, TypeOK
    <3>2. n = m /\ open[r] => zset'[n] # None
      BY <3>0 DEF PutBack, TypeOK
    <3>3. \A s \in Replicas : InHand(s, n) /\ ~(s = r /\ n = m) => InHand(s, n)'
      BY <3>0 DEF Goto, TypeOK
    <3> QED BY <3>0, <3>1, <3>2, <3>3, StillArmed
  <2>4. CASE CheckStalePop(r, m)
    <3>1. CASE Goto(r, m, "fresh")
      BY <2>1, <2>4, <3>1 DEF CheckStalePop
    <3>2. CASE zset[m] > Grace /\ Goto(r, m, "release")
      <4>1. UNCHANGED <<zset, payload, owed, open>>
        BY <2>4 DEF CheckStalePop
      <4>2. zset[m] # None
        BY <3>2
      <4>3. \A s \in Replicas : InHand(s, n) /\ n # m => InHand(s, n)'
        BY <3>2 DEF Goto, TypeOK
      <4> QED BY <4>1, <4>2, <4>3, StillArmed
    <3> QED BY <2>4, <3>1, <3>2 DEF CheckStalePop
  <2>5. CASE ReadPayload(r, m)
    <3>1. owed[n] = "owed" /\ UNCHANGED <<zset, payload, open>>
      BY <2>5 DEF ReadPayload, TypeOK
    <3>2. n = m => ~open[r]
      BY <2>5, <3>1 DEF ReadPayload, TypeOK
    <3>3. \A s \in Replicas : InHand(s, n) /\ ~(s = r /\ n = m) => InHand(s, n)'
      BY <2>5 DEF ReadPayload, Goto, TypeOK
    <3> QED BY <3>1, <3>2, <3>3, StillArmed
  <2>6. CASE HandlerReturns(r, m)
    <3>1. owed[n] = "owed" /\ UNCHANGED <<zset, payload, open>>
      BY <2>6 DEF HandlerReturns, TypeOK
    <3>2. \A s \in Replicas : InHand(s, n) => InHand(s, n)'
      BY <2>6 DEF HandlerReturns, Goto, TypeOK
    <3> QED BY <3>1, <3>2, StillArmed
  <2>7. CASE HandlerThrows(r, m)
    <3>0. UNCHANGED <<zset, payload, open>> /\ Goto(r, m, "failed")
      BY <2>7 DEF HandlerThrows
    <3>1. CASE owed[n] = "owed"
      <4>1. \A s \in Replicas : InHand(s, n) => InHand(s, n)'
        BY <3>0 DEF Goto, TypeOK
      <4> QED BY <3>0, <3>1, <4>1, StillArmed
    <3>2. CASE owed[n] # "owed"
      <4>1. n = m /\ open[r]
        BY <2>7, <3>2 DEF HandlerThrows, TypeOK
      <4>2. InHand(r, n)' /\ open'[r]
        BY <3>0, <4>1 DEF Goto, TypeOK
      <4> QED BY <4>2
    <3> QED BY <3>1, <3>2
  <2>8. CASE Release(r, m) \/ Cleanup(r, m)
    <3>1. owed' = owed /\ zset' = zset /\ open' = open
      BY <2>8 DEF Release, Cleanup
    <3>2. payload[n] # None
      BY <2>8 DEF Release, Cleanup, TypeOK
    <3>3. ~InHand(r, m) /\ \E stage \in Stages : Goto(r, m, stage)
      BY <2>8 DEF Release, Cleanup
    <3>4. \A s \in Replicas : InHand(s, n) => InHand(s, n)'
      BY <3>3 DEF Goto, TypeOK
    <3> QED BY <3>1, <3>2, <3>4, StillArmed
  <2> QED BY <1>2, <2>2, <2>3, <2>4, <2>5, <2>6, <2>7, <2>8 DEF Worker
<1>3. ASSUME NEW r \in Replicas, NEW m \in Members, CancelPayload(r, m) \/ FireFallback(r, m)
      PROVE  Goal
  <2>1. UNCHANGED <<zset, owed, pc, open>> /\ payload[n] # None
    BY <1>3 DEF CancelPayload, FireFallback, TypeOK
  <2> QED BY <2>1, StillArmed
<1>4. ASSUME NEW r \in Replicas, Poll(r) PROVE Goal
  <2>0. PICK batch \in SUBSET Members :
          /\ zset' = [m \in Members |-> IF m \in batch THEN None ELSE zset[m]]
          /\ pc' = [pc EXCEPT ![r] = [m \in Members |-> IF m \in batch THEN "popped" ELSE "idle"]]
    BY <1>4 DEF Poll
  <2>1. open[r] /\ UNCHANGED <<payload, owed, open>> /\ ~InHand(r, n)
    BY <1>4 DEF Poll, PollInFlight
  <2>2. CASE n \in batch
    <3>1. InHand(r, n)' /\ open'[r]
      BY <2>0, <2>1, <2>2 DEF TypeOK
    <3> QED BY <3>1
  <2>3. CASE n \notin batch
    <3>1. zset'[n] = zset[n] /\ \A s \in Replicas : InHand(s, n) => InHand(s, n)'
      BY <2>0, <2>1, <2>3 DEF TypeOK
    <3> QED BY <2>1, <3>1, StillArmed
  <2> QED BY <2>2, <2>3
<1>5. ASSUME NEW r \in Replicas, RedisClosed(r) \/ Crash(r) PROVE Goal
  <2>1. UNCHANGED <<zset, payload>> /\ WriteOff(r)
    BY <1>5 DEF RedisClosed, Crash
  <2>2. owed[n] = "owed" /\ ~InHand(r, n)
    BY <2>1 DEF WriteOff
  <2>3. \A s \in Replicas \ {r} : pc'[s] = pc[s] /\ open'[s] = open[s]
    BY <1>5 DEF RedisClosed, Crash, TypeOK
  <2> QED BY <2>1, <2>2, <2>3, StillArmed
<1>6. ASSUME NEW r \in Replicas, RedisReopened(r) PROVE Goal
  <2>1. UNCHANGED <<zset, payload, owed, pc>> /\ \A s \in Replicas : open[s] => open'[s]
    BY <1>6 DEF RedisReopened, TypeOK
  <2> QED BY <2>1, StillArmed
<1>7. CASE Tick
  <2>1. UNCHANGED <<owed, pc, open>> /\ payload[n] # None /\ (zset[n] # None => zset'[n] # None)
    BY <1>7 DEF Tick, Down, TypeOK
  <2> QED BY <2>1, StillArmed
<1>8. CASE UNCHANGED vars
  BY <1>8, StillArmed DEF vars
<1> QED BY <1>1, <1>2, <1>3, <1>4, <1>5, <1>6, <1>7, <1>8 DEF Next

\* Whatever callers, workers, crashes and reconnects do, an owed timer whose payload
\* exists is in the sorted set or in the hands of a worker of processDueMember.
THEOREM MembershipSurvives == Spec => []NeverDisarmed
<1>1. Armed => NeverDisarmed
  BY DEF Armed, NeverDisarmed
<1> QED BY <1>1, ArmedInit, ArmedNext, TypeCorrect, PTL DEF Spec

-----------------------------------------------------------------------------
(* Payloads, with one replica *)

\* With one replica a timer that is owed has its payload, and no DEL of it is on the wire;
\* one that its handler has is with a worker whose client is open.
PayloadHeld ==
    \A r \in Replicas, m \in Members :
      /\ owed[m] # "nothing" => payload[m] # None /\ ~cancelling[r][m]
      /\ owed[m] = "inHand" => pc[r][m] = "running" /\ open[r]

\* A step after which nothing more is owed, and what is owed keeps its payload.
LEMMA PayloadFrame ==
    ASSUME PayloadHeld, NEW s \in Replicas, NEW n \in Members,
           owed'[n] \in {owed[n], "nothing"},
           owed[n] # "nothing" /\ owed'[n] # "nothing" =>
             /\ payload[n] # None => payload'[n] # None
             /\ cancelling'[s][n] => cancelling[s][n]
             /\ owed[n] = "inHand" => pc'[s][n] = pc[s][n] /\ open'[s] = open[s]
    PROVE  /\ owed'[n] # "nothing" => payload'[n] # None /\ ~cancelling'[s][n]
           /\ owed'[n] = "inHand" => pc'[s][n] = "running" /\ open'[s]
BY DEF PayloadHeld

\* The cleanup script is the one that could delete the payload of a timer that is owed:
\* with one replica such a timer is in the sorted set by then, where the script looks.
LEMMA PayloadNext ==
    ASSUME \A r, s \in Replicas : r = s, TypeOK, Armed, PayloadHeld, [Next]_vars
    PROVE  PayloadHeld'
<1> SUFFICES ASSUME NEW s \in Replicas, NEW n \in Members
             PROVE  /\ owed'[n] # "nothing" => payload'[n] # None /\ ~cancelling'[s][n]
                    /\ owed'[n] = "inHand" => pc'[s][n] = "running" /\ open'[s]
  BY DEF PayloadHeld
<1> DEFINE Goal == /\ owed'[n] # "nothing" => payload'[n] # None /\ ~cancelling'[s][n]
                   /\ owed'[n] = "inHand" => pc'[s][n] = "running" /\ open'[s]
<1> USE DelayAssumption
<1>0. \A r \in Replicas : r = s OBVIOUS
<1>1. ASSUME NEW r \in Replicas, NEW m \in Members, Caller(r, m) PROVE Goal
  <2>1. ASSUME NEW d \in Ticks, Schedule(r, m, d) \/ ScheduleIfAbsent(r, m, d) PROVE Goal
    <3>1. CASE n = m
      <4>1. owed'[n] = "owed" /\ payload'[n] # None
        BY <2>1, <3>1 DEF Schedule, ScheduleIfAbsent, TypeOK, Ticks
      <4>2. cancelling' = cancelling /\ ~cancelling[s][n]
        BY <1>0, <2>1, <3>1 DEF Schedule, ScheduleIfAbsent, Ordered
      <4> QED BY <4>1, <4>2
    <3>2. CASE n # m
      <4>1. /\ owed'[n] = owed[n] /\ payload'[n] = payload[n]
            /\ UNCHANGED <<cancelling, pc, open>>
        BY <2>1, <3>2 DEF Schedule, ScheduleIfAbsent, TypeOK
      <4> QED BY <4>1, PayloadFrame
    <3> QED BY <3>1, <3>2
  <2>2. ASSUME NEW d \in Ticks, ScheduleFallback(r, m, d) PROVE Goal
    BY <2>2, PayloadFrame DEF ScheduleFallback
  <2>3. CASE RefuseDurable(r, m)
    BY <2>3, PayloadFrame DEF RefuseDurable
  <2>4. CASE Cancel(r, m)
    <3>1. UNCHANGED <<payload, pc, open>> BY <2>4 DEF Cancel
    <3>2. CASE n = m /\ open[r]
      <4>1. owed'[n] = "nothing" BY <2>4, <3>2 DEF Cancel, TypeOK
      <4> QED BY <4>1
    <3>3. CASE ~(n = m /\ open[r])
      <4>1. owed'[n] = owed[n] /\ cancelling'[s][n] = cancelling[s][n]
        BY <2>4, <3>3 DEF Cancel, TypeOK
      <4> QED BY <3>1, <4>1, PayloadFrame
    <3> QED BY <3>2, <3>3
  <2> QED BY <1>1, <2>1, <2>2, <2>3, <2>4 DEF Caller
<1>2. ASSUME NEW r \in Replicas, NEW m \in Members, Worker(r, m) PROVE Goal
  <2>1. CASE \/ AcquireRedis(r, m) \/ AcquireLocal(r, m) \/ FindLocked(r, m)
             \/ RescheduleBusy(r, m) \/ CheckStalePop(r, m) \/ RescheduleFailed(r, m)
             \/ Release(r, m)
    <3>1. UNCHANGED <<payload, owed, open, cancelling>> /\ pc[r][m] # "running"
      BY <2>1 DEF AcquireRedis, AcquireLocal, FindLocked, RescheduleBusy, CheckStalePop,
                  RescheduleFailed, Release, Starting
    <3>2. \E stage : Goto(r, m, stage)
      BY <2>1 DEF AcquireRedis, AcquireLocal, FindLocked, RescheduleBusy, CheckStalePop,
                  RescheduleFailed, Release
    <3>3. ~(s = r /\ n = m) => pc'[s][n] = pc[s][n]
      BY <3>2 DEF Goto, TypeOK
    <3>4. owed[n] = "inHand" => pc'[s][n] = pc[s][n]
      BY <3>1, <3>3 DEF PayloadHeld
    <3> QED BY <3>1, <3>4, PayloadFrame
  <2>2. CASE ReadPayload(r, m)
    <3>0. UNCHANGED <<payload, open, cancelling>> BY <2>2 DEF ReadPayload
    <3>1. CASE n = m /\ open[r] /\ payload[m] # None
      <4>1. pc'[s][n] = "running" /\ open[s] /\ ~cancelling[s][n]
        BY <1>0, <2>2, <3>1 DEF ReadPayload, Goto, Ordered, TypeOK
      <4> QED BY <3>0, <3>1, <4>1
    <3>2. CASE n = m /\ ~(open[r] /\ payload[m] # None)
      <4>1. owed' = owed /\ pc[s][n] # "running"
        BY <1>0, <2>2, <3>2 DEF ReadPayload
      <4> QED BY <3>0, <4>1, PayloadFrame DEF PayloadHeld
    <3>3. CASE n # m
      <4>1. owed'[n] = owed[n] /\ pc'[s][n] = pc[s][n]
        BY <2>2, <3>3 DEF ReadPayload, Goto, TypeOK
      <4> QED BY <3>0, <4>1, PayloadFrame
    <3> QED BY <3>1, <3>2, <3>3
  <2>3. CASE HandlerReturns(r, m) \/ HandlerThrows(r, m)
    <3>0. UNCHANGED <<payload, open, cancelling>> /\ \E stage : Goto(r, m, stage)
      BY <2>3 DEF HandlerReturns, HandlerThrows
    <3>1. CASE n = m
      <4>1. owed[n] = "inHand" => open[r] BY DEF PayloadHeld
      <4>2. IF owed[n] = "inHand" THEN owed'[n] \in {"owed", "nothing"} ELSE owed'[n] = owed[n]
        BY <2>3, <3>1, <4>1 DEF HandlerReturns, HandlerThrows, TypeOK
      <4> QED BY <3>0, <4>2 DEF PayloadHeld
    <3>2. CASE n # m
      <4>1. owed'[n] = owed[n] BY <2>3, <3>2 DEF HandlerReturns, HandlerThrows, TypeOK
      <4>2. pc'[s][n] = pc[s][n] BY <3>0, <3>2 DEF Goto, TypeOK
      <4> QED BY <3>0, <4>1, <4>2, PayloadFrame
    <3> QED BY <3>1, <3>2
  <2>4. CASE Cleanup(r, m)
    <3>0. UNCHANGED <<owed, open, cancelling>> /\ pc[r][m] = "cleanup" /\ Goto(r, m, "idle")
      BY <2>4 DEF Cleanup
    <3>1. owed[n] = "inHand" => ~(s = r /\ n = m)
      BY <3>0 DEF PayloadHeld
    <3>2. ~(s = r /\ n = m) => pc'[s][n] = pc[s][n]
      BY <3>0 DEF Goto, TypeOK
    <3>3. n = m /\ owed[n] = "owed" /\ payload[n] # None => zset[m] # None
      BY <1>0, <3>0 DEF Armed, InHand
    <3>4. n = m => owed[n] # "inHand" BY <1>0, <3>1
    <3>5. owed[n] # "nothing" /\ payload[n] # None => payload'[n] # None
      <4>1. CASE n = m
        <5>1. owed[n] # "nothing" => owed[n] = "owed" BY <3>4, <4>1 DEF TypeOK
        <5> QED BY <2>4, <3>3, <4>1, <5>1 DEF Cleanup
      <4>2. CASE n # m
        <5>1. payload'[n] = payload[n] BY <2>4, <4>2 DEF Cleanup
        <5> QED BY <5>1
      <4> QED BY <4>1, <4>2
    <3> QED BY <3>0, <3>1, <3>2, <3>5, PayloadFrame
  <2> QED BY <1>2, <2>1, <2>2, <2>3, <2>4 DEF Worker
<1>3. ASSUME NEW r \in Replicas, NEW m \in Members, CancelPayload(r, m) PROVE Goal
  <2>1. /\ UNCHANGED <<owed, pc, open>> /\ cancelling[r][m]
        /\ cancelling' = [cancelling EXCEPT ![r][m] = FALSE]
        /\ payload' = [payload EXCEPT ![m] = None]
    BY <1>3 DEF CancelPayload
  <2>2. n = m => owed[n] = "nothing" BY <2>1 DEF PayloadHeld
  <2>3. n # m => payload'[n] = payload[n] /\ cancelling'[s][n] = cancelling[s][n]
    BY <2>1 DEF TypeOK
  <2> QED BY <2>1, <2>2, <2>3, PayloadFrame
<1>4. ASSUME NEW r \in Replicas, Poll(r) PROVE Goal
  <2>1. UNCHANGED <<payload, owed, open, cancelling>> BY <1>4 DEF Poll
  <2>2. pc[s][n] = "idle" BY <1>0, <1>4 DEF Poll, PollInFlight
  <2>3. owed[n] # "inHand" BY <2>2 DEF PayloadHeld
  <2> QED BY <2>1, <2>3, PayloadFrame
<1>5. ASSUME NEW r \in Replicas, RedisClosed(r) \/ Crash(r) PROVE Goal
  <2>1. payload' = payload /\ WriteOff(r) /\ ~cancelling'[s][n]
    BY <1>0, <1>5 DEF RedisClosed, Crash, TypeOK
  <2>2. owed'[n] \in {owed[n], "nothing"} /\ (pc[s][n] = "running" => owed'[n] = "nothing")
    BY <1>0, <2>1 DEF WriteOff
  <2>3. owed[n] = "inHand" => owed'[n] = "nothing" BY <2>2 DEF PayloadHeld
  <2> QED BY <2>1, <2>2, <2>3 DEF PayloadHeld
<1>6. ASSUME NEW r \in Replicas, RedisReopened(r) PROVE Goal
  <2>1. UNCHANGED <<payload, owed, pc, cancelling>> /\ ~open[s]
    BY <1>0, <1>6 DEF RedisReopened
  <2>2. owed[n] # "inHand" BY <2>1 DEF PayloadHeld
  <2> QED BY <2>1, <2>2, PayloadFrame
<1>7. CASE Tick
  <2>1. UNCHANGED <<owed, pc, open, cancelling>> BY <1>7 DEF Tick
  <2>2. payload[n] # None => payload'[n] # None BY <1>7 DEF Tick, Down, TypeOK
  <2> QED BY <2>1, <2>2, PayloadFrame
<1>8. CASE UNCHANGED vars BY <1>8, PayloadFrame DEF vars
<1>9. ASSUME NEW r \in Replicas, NEW m \in Members, FireFallback(r, m) PROVE Goal
  BY <1>9, PayloadFrame DEF FireFallback
<1> QED BY <1>1, <1>2, <1>3, <1>4, <1>5, <1>6, <1>7, <1>8, <1>9 DEF Next

\* One replica never loses a timer, whatever its callers do and however often it crashes,
\* loses its Redis or has handlers that throw: what a crash has in its hands is written
\* off, and everything else that is owed keeps its payload and its place.  That two
\* replicas can lose one is what the run timers_rearm_lost shows.
THEOREM AloneLosesNothing ==
    ASSUME \E r : Replicas = {r}
    PROVE  Spec => []NoTimerLost
<1>0. Replicas # {} /\ \A r, s \in Replicas : r = s
  OBVIOUS
<1>1. Init => PayloadHeld
  BY DEF Init, PayloadHeld
<1>2. TypeOK /\ Armed /\ PayloadHeld /\ [Next]_vars => PayloadHeld'
  BY <1>0, PayloadNext
<1>3. Armed /\ PayloadHeld => NoTimerLost
  BY <1>0 DEF Armed, PayloadHeld, NoTimerLost
<1> QED BY <1>1, <1>2, <1>3, ArmedInit, ArmedNext, TypeCorrect, PTL DEF Spec

=============================================================================
