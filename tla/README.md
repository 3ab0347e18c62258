# A formal model of the Quizball backend

TLA+ modules of the parts of this repository where several processes, timers and
players meet, the TLC instances that check them, and proofs that TLAPS checks. All
source paths below are relative to the repository.

What a reader should know first:

- The server runs in several **replicas**. They share a Redis (queues, flags, locks,
  durable timers, caches) and a Postgres. A handler is a JavaScript function: it runs
  alone in its replica until its next `await`, and at an `await` anything else may run.
- So in the models an action is what happens between two awaits that matter: one Redis
  command, `MULTI` or Lua script, one database transaction, or a run of reads that
  nothing else can tell apart from one read.
- Nothing modelled here is sent over an unreliable network between replicas; the hard
  behaviours are interleavings, locks that expire, processes that die with work in
  their hands, and calls that throw half-way through.

## 1. Inventory

### Components this project models, or will

| Component | State | Operations | Meets | Hard because | Correct when |
|---|---|---|---|---|---|
| **Durable timer scheduler** `realtime-timer-scheduler.ts` | Redis sorted set of deadlines, a payload key per timer, per-process fallbacks | schedule, cancel, poll and pop, run a handler, retry, clean up | every service with a deadline; locks | all replicas poll one set; the pop precedes the handler; a handler may re-arm its own timer | no timer is lost, each due timer reaches a handler, two replicas do not run one timer at once |
| **Redis locks** `locks.ts` | a token with a TTL, or a process-local entry | acquire, extend, compare-and-delete release | all of the realtime code | a holder outlives its TTL; Redis drops between acquire and release | a release frees only its own lock |
| **Redis client and watchdog** `redis.ts` | one client per replica, replaced when it hangs | force a reconnect | everything above | the client changes between two commands of one handler | the two properties above still hold |
| **Ranked matchmaking** `ranked-matchmaking.service.ts`, `lua/ranked-matchmaking.scripts.ts` | queue, timeouts and user map in Redis; cancel, leave-guard and in-flight flags | join, leave, disconnect, connect, tick: pair, fall back to a bot | session guard, lobbies, timers, bots | a pairing is 10 awaits long and each player may leave at any of them | nobody is seated twice, drafted after leaving, or left searching for nothing; the queue drains |
| **User session guard** `user-session-guard.service.ts` | a transition lock per user; a snapshot derived from the other stores | prepare for queue, lobby, match, connect | all entry points | the snapshot is stale when used | one user, one activity |
| **Ranked AI lobby** `lobby-ranked-ai.service.ts` | a lobby with a reserved bot | create, match-found, start the draft, abort | matchmaking, reservations | delayed callbacks of a lobby that changed meanwhile | a callback touches only its own lobby |
| **Lobby connect and lifecycle** `lobby-connect.service.ts`, `lobby-lifecycle.helpers.ts` | lobbies, lobby members | rejoin, disconnect grace, heal a waiting lobby | matchmaking, draft | a reconnect and the durable timer both start the draft | a waiting lobby starts or is closed |
| **Bot reservations** `synthetic-bots/`, `synthetic-bot-reservation-sweeper.service.ts` | one row per bot: lobby, then match, with a lease | acquire, transfer, heartbeat, release if settled, sweep | draft, settlement, auction | the lease expires while the owner works | a bot plays one match at a time and is freed |
| **Endings of a match** `possession-completion.ts`, `match-forfeit.service.ts`, `ranked-no-contest.service.ts`, `match-terminal.service.ts`, `match-final-results.service.ts` | match status, winner and payload; completion lock; replay keys | complete, forfeit, cancel, abandon, announce, replay, acknowledge | settlement, wallet, reservations | four paths race for one row, each a dozen awaits long; any call may throw, any process may die | one ending, one announced result, tickets back at most once |
| **Ranked settlement** `modules/ranked/` | ledger of rating changes, profiles | settle, early-forfeit penalty | endings, replay | values read before the transaction are written in it | standings equal the ledger |
| **Draft** `draft-realtime.service.ts` | lobby, bans, grace keys | ban, automatic ban, bot ban, grace expiry, create the match | timers, wallet, reservations | five callers may see "two bans, ready" at once | one match, one ticket each; no draft is wedged |
| **Match presence** `match-disconnect.service.ts`, `match-presence.service.ts`, `match-entry.service.ts` | pause, grace and resume keys; disconnect counters | disconnect, rejoin, pause, resume countdown, grace expiry | timers, endings | two players flap while durable timers fire late | a paused match resumes or ends; nobody present forfeits |
| **Possession rounds** `possession-*.ts`, `match-cache.ts` | the match cache, the round lock and the resolve fence | dispatch a question, answer, resolve, half-time, penalties | timers, presence, endings | the last answer and the deadline race; the lease lapses mid-resolution | each round is resolved exactly once, and is resolved |
| **Party quiz** `party-quiz-*.ts` | the same for up to 8 players | answer, resolve, drop out, reward | timers, wallet | rewards are reconciled after failures | each reward is paid once |
| **Friendly lobbies** `lobby-realtime.service.ts`, `lobby-janitor.service.ts` | lobbies, members, ready flags, challenges | create, join, ready, leave, start, sweep | session guard | hand-over of the host beside a start | a lobby has one host and no ghosts |
| **Wallet** `modules/store/` | wallets, purchases, transactions | consume, refund, refill, purchase, fulfil | draft, endings, webhooks | duplicate webhooks, retried compare-and-set | the balance is the sum of the transactions |
| **Auction** `auction-*.service.ts`, `modules/auction/` | versioned match state in Redis, search claims with leases | search, claim, bid, fold, time out, bots, persist | timers, reservations | claims are recovered while their owner is slow | one move per version; no seat is claimed twice |
| **Football grid** `football-grid-*.ts`, `modules/football-grid/` | versioned state in Postgres, terminal deliveries | search, pair, answer, pass, draw, deliver the result | timers, presence | result deliveries are leased and retried | each terminal result is delivered and settled once |
| **Duels, rooms** `modules/duel/`, `modules/room/` | one aggregate row each | ready, command, absent, expire, forfeit | timers, lobbies | presence fences, stale timer tokens | a stale expiry changes nothing |
| **Weekend league** `modules/weekend-league/` | runs, an outbox of events, standings | dispatch, answer, freeze, void, deliver | Redis hot state | a crash between the freeze and its reveal | every slot is scored once |
| **Partner plays and webhooks** `modules/partners/` | plays, quotas, deliveries | reserve, finish, sweep, deliver | the games they wrap | retried starts and deliveries | the daily limit holds, a play is refunded once |

### Components that stay outside

Request-and-response services on one row (daily challenges and mini-games, campaigns,
objectives, achievements, progression, friends, notifications, users, guests,
authentication), content and translation, read models (statistics, leaderboards,
administration), the HTTP layer, configuration, logging and scripts. Their transactions
are short and their concurrency is the database's. `PROJECT.json` lists every one with
its files and the reason.

### Hazards

`PROJECT.json` lists them at the lines where they bite, with the property that would
catch each one, or why there is none.

## 2. Modules

Written, in this order:

| Module | Models | Instances | Proofs |
|---|---|---|---|
| `RealtimeTimers` | timer scheduler, locks, watchdog | `MCRealtimeTimers` | `RealtimeTimersProofs` |
| `RankedMatchmaking` | queue to draft start, with the session guard, bot lobbies and connects it uses | `MCRankedMatchmaking` | `RankedMatchmakingProofs`, `RankedSearchProofs` |
| `MatchOutcome` | what the end of a match promises (abstract) | | |
| `MatchSettlement` | endings, settlement, refunds, reservations, replay; implements `MatchOutcome` | `MCMatchSettlement` | `MatchSettlementProofs` |
| `MatchRounds` | what the rounds of a match promise (abstract) | | |
| `PossessionRounds` | answers, deadlines, the resolver, the dispatch, pause and resume, the boot re-arm; implements `MatchRounds` | `MCPossessionRounds` | `PossessionRoundsProofs` |
| `RankedDraft` | bans, automatic bans, completion, tickets, grace, teardown | `MCRankedDraft` | `RankedDraftProofs` |
| `PossessionPlay` | the rules a resolved round applies: possession, goals, streaks, halves, last attack, penalties | `MCPossessionPlay` | `PossessionPlayProofs` |

How they fit together: `RankedMatchmaking` ends where a draft starts, `RankedDraft` begins
there and ends with a match or a teardown, `PossessionRounds` plays the match out and
`MatchSettlement` begins with a match that is to be ended. `PossessionRounds` abstracts
what a round does to the score into "applied"; `PossessionPlay` is that function, and its
theorems bound the number of questions `PossessionRounds` takes as `RoundCount`. The
timers all of them use are those of `RealtimeTimers`, taken as "fires some time after it
is due, unless cancelled".

Planned, most important first:

1. Half-time in `PossessionRounds`: four writers of the blob under four locks.
2. `MatchPresence`: pause, grace and resume for two players on late timers.
3. Wallet (refill, consume, refund, fulfilment), then reservations with leases.
4. `Auction` and `FootballGrid`: an abstract "one move per version" specification both
   implement; claims with leases.
5. Lobbies, duels and rooms, weekend league, partner plays.

Abstract specifications worth stating: a one-shot timer (armed, then handed over or
cancelled) that `RealtimeTimers` implements under the faults it excludes; a lease lock,
used by `PossessionRounds`, `RankedDraft` and `MatchSettlement`. Of what the runs check,
every safety property that holds for all constants is proved (section 5); the proofs still
to come are those of the modules above.

### RealtimeTimers

| In the model | In the code |
|---|---|
| `zset`, `payload` | `realtime:timers`, `realtime:timer:payload:*` |
| `holder`, `ttl` | `lock:realtime_timer:*` and its `PX` |
| `fallback`, `localLock` | `localFallbackTimers`, `localLocks` of one process |
| `pc[r][m]` | where `processDueMember` stands for one popped member |
| `Schedule`, `ScheduleIfAbsent`, `ScheduleFallback`, `RefuseDurable` | `scheduleRealtimeTimer` with its options |
| `Cancel`, `CancelPayload` | `cancelRealtimeTimer`: `ZREM`, then the `DEL` on the wire |
| `Poll` | `POP_DUE_TIMERS_SCRIPT`, guarded by `pollInFlight` |
| `AcquireRedis`, `AcquireLocal`, `FindLocked`, `RescheduleBusy` | `acquireLock` and the busy branch |
| `CheckStalePop`, `ReadPayload`, `HandlerReturns`, `HandlerThrows`, `RescheduleFailed` | the body of `processDueMember` |
| `Release`, `Cleanup` | `releaseLock`, `CLEANUP_PAYLOAD_IF_UNSCHEDULED` |
| `RedisClosed`, `RedisReopened`, `Crash`, `Tick` | the watchdog, a process that dies, time |

Time is relative (ticks left), so no bound on a behaviour is needed. `age` and `owed`
are ghosts: how long a lock has been held, and what the last caller is still owed. A
replica's commands leave on one connection in order (`Ordered`). The handler's own work
is abstract: it returns or throws, and everything a handler could schedule is in
`Caller`. Callers of `onlyIfAbsent` pass the payload the entry already has, as they do
in the code.

### RankedMatchmaking

| In the model | In the code |
|---|---|
| `queue`, `due`, `userMap` | the two sorted sets, `RANKED_MM_USER_MAP_KEY` |
| `cancelled`, `leaveGuard`, `inFlight` | the three per-user flags with their TTLs |
| `op`, `knocking`, `seen`, `dropped` | the handlers that hold, or wait for, a user's transition lock |
| `stage`, `pair`, `present`, `todo`, `room` | where a `rankedTick` stands and what it holds in local variables |
| `status`, `members`, `timer`, `party`, `healing` | the ranked lobby and its callbacks |
| `told` | what the last event made the client show |
| `StartTick` ... `EndTick` | `rankedTick`, `processFallbacks`, `processPairs` and the scripts |
| `SetPairingInFlight` ... `ClearPairingInFlight`, `PairingThrows` | `startHumanRankedMatch`, one await after the other |
| `BotCheckCancel` ... `CreateBotLobby`, `BotThrows` | `startAiFallback`, `startRankedAiForUser` |
| `DraftCheckCancel`, `BotCallback`, `StartDraft`, `HealDraft` | `runRankedDraftStart`, the bot callbacks, the draft start on a connect |
| `RequestJoin` ... `JoinQueue` | `handleQueueJoin` with `prepareForQueueJoin` |
| `RequestLeave`, `LeaveQueue`, `LeaveLobbies` | `handleQueueLeave` with `cleanupRankedQueueArtifacts` |
| `Disconnect`, `CleanupDisconnect`, `GiveUpCleanup`, `Connect`, `LobbyGrace` | the disconnect and connect paths |
| `MatchOver` (external) | the match that follows, whose lobby is closed at its end |

Simplified: the debounce key is nondeterministic; the 60 s search hash outlives the
queue; the queue size and the due searches are read together, and a lobby is created
with its members; the batch caps, partner pool, country codes, the stale-lobby heal, the
30 s of the in-flight flag, `startDraft` throwing, and a process that dies within a
pairing are left out. A cancel marker does not expire while the leave, pairing or draft
timer it is for is pending (30 s against seconds), nor a leave guard during its leave.
A bot is not in `members`; `Full` counts it.

### MatchSettlement

| In the model | In the code |
|---|---|
| `status`, `roster`, `winner`, `noContest` | the `matches` row, `match_players`, `state_payload.cancelledNoContest` |
| `lock` | `lock:match:<id>:complete`; `Dead` when its process is gone |
| `ledger`, `standing` | `ranked_rp_changes`, `ranked_profiles` |
| `refunds`, `reserved` | tickets given back, `synthetic_bot_reservations` |
| `lastMatch`, `announced` | the replay key of a player, the results sent |
| `job[w]` | a finalizer: its step, its kind, its match and what it read |
| `Acquire`, `Decide`, `Flip`, `Penalise`, `Mark`, `Cancel`, `Refund` | `completePossessionMatch`, `finalizeMatchAsForfeit`, `finalizeRankedNoContest`, `abandonMatchWithCompleteLock` |
| `ReadStandings`, `Settle` | `settleCompletedRankedMatch` and `applySettlement` |
| `FreeBot`, `Remember`, `Release`, `Unlock`, `Announce` | the end of a finalizer |
| `Replay`, `Acknowledge`, `SweepReservation` | `emitLastMatchResultIfAny`, `handleFinalResultsAck`, the sweeper |
| `Throw`, `Crash`, `Expire` | a call that throws, a process that dies, a lock nothing renews |

`OneEnding` says that every behaviour is one of `MatchOutcome` (`Promise`), which has
the rows, the refunds and the announced results and knows nothing of finalizers, locks,
standings, reservations and replay keys: a match is open and then completed, with one
result, or abandoned, and stays so; a result rates all its players in one step; tickets
come back in one step, and only without a result; nobody, bots included, is in two open
matches. Two escapes are in the abstract specification because the code has them: the
penalty of an early forfeit is committed before anything is decided, and a completion
whose match was abandoned under it still announces its winner.

A standing is the **set of matches** whose result it includes, not a number: the code
computes a profile from values read before its transaction and writes it back, so a
write replaces the set, and a lost update shows as a missing match.

Simplified: partner matches, the party quiz, placement draws, experience, achievements,
coins, season resets and the Elo arithmetic; whether a forfeit is early, a match
undecidable or without interaction is nondeterministic, and so is the early-forfeit
counter; the payload write is part of the compare-and-set; the replay keys of both
players are written together or not at all, and a completion writes them together with
its announcement; an acknowledgement may come as soon as the key exists; no-contests are
not in `announced`; `StartMatch` folds reservation and transfer; a heartbeat lock lapses
only with its process; the orphan resolver's order (refund, then cleanup) is folded into
the disconnect path's.

### PossessionRounds and MatchRounds

| In the model | In the code |
|---|---|
| `current`, `asked`, `completed`, `expired` | the match cache: one Redis blob, written whole by every writer; the deadline in it |
| `answers` | the answer overlays, merged by `getMatchCache` |
| `timer`, `waits` | `possession_question` timers; the `setTimeout` waits and ready gates of one process |
| `lock`, `fence`, `sent`, `pause` | `lock:match:<id>:round`, `resolve:inprogress:*`, `possession:sent:*`, the pause key |
| `pc`, `round`, `fromTimeout`, `seen`, `leaseLost` | where a handler stands, its arguments and local variables |
| `SubmitAnswer`, `CommitAnswer`, `DropAnswer` | `handlePossessionAnswer` under `withAnswerLock` |
| `Fire`, `AcquireRound` ... `ApplyRound`, `CommitRound`, `ReleaseFence`, `Leave`, `ClearTimer`, `DeferTimer` | `resolvePossessionRound` |
| `Complete`, `CompletionBusy` | `completePossessionMatch` and its recovery |
| `ScheduleNext` (with `ReleaseFence`), `EndWait` | `scheduleNextPossessionQuestion` |
| `PickQuestion`, `MarkSent`, `PublishQuestion`, `ArmDeadline` | `sendPossessionMatchQuestion` |
| `PauseMatch`, `ResumeMatch`, `ReadForResume`, `RewriteCache`, `ArmResumed` | the pause of a disconnect, `completeResumeCountdown`, `resumePossessionMatchQuestion` |
| `Crash`, `Boot` | a process that dies, `rearmActiveMatchTimersOnBoot` |
| `LeaseLapses`, `NoticeLeaseLost`, `OrphanExpires`, `MarkExpires`, `Expire` | TTLs, renewals that fail, time |

`scored`, `counted`, `published` and `rewound` are ghosts. `RoundsInOrder` says that every
behaviour is one of `MatchRounds` (`Promise == INSTANCE MatchRounds`, in which `died` is
`"crash" \in faults`): ask, score once, advance, in order. Two escapes are written into
the abstract specification because the code has them: a process that dies between the
side effects of a round and the write of the blob applies the result a second time, and
of a match that a resume took back (section 4) nothing is promised.

Simplified: half-time, the categories, the attempts and evaluation of an answer, the
refresh of a cache a resolver finds missing, and the second connection of a player are
left out; the release of the fence and the start of the wait that follows it are one
step; timers have two deadlines (soon, or that of the question); a question that is
missing at a resume is sent as a transition (`onlyIfUnsent`); a mark does not expire
under a sender between its mark and its write (30 s); the fence and the read behind it
are one step, as are the mark and the look at the live cache. A crash and a pause in the
same match can freeze it (its replica boots while the match is paused, and nothing re-arms
what the resume then finds missing), which is why `MaxFaults` counts all three kinds
together.

### RankedDraft

| In the model | In the code |
|---|---|
| `lobby`, `bans` | the lobby, `lobby_category_bans` |
| `live`, `empty` | the lobby's active match rows; one whose players were never written |
| `reserved` | the lobby's row in `synthetic_bot_reservations` |
| `spent` | how often each human has paid a ticket and not got it back |
| `ready`, `paused`, `graceKey`, `disconnected`, `absent` | the draft's keys in Redis |
| `auto` with `ripe`, `aiDue`, `graceDue` | the timers `draft_auto_ban` (and whether its deadline has come), `draft_ai_ban`, `draft_grace_expiry` |
| `completing` | `draft:complete:lock` |
| `leaked`, `stranded`, `lost` (ghosts) | payments an error kept; errors between the creation of a match and its beginning; has a handler outside the completion thrown? |
| `Click`, `InsertBan`, `InsertFails`, `UiReady` | `handleBan`, `draft:ui_ready` |
| `Ripen`, `FireAuto`, `AutoGoesOn`, `FireAi` | `runDraftAutoBan`, `runRankedAiDraftBan` |
| `FindCompleting` ... `BeginMatch` | `completeDraftIfReady`, `startMatchFromDraft` |
| `NoTickets`, `SignalsThrow`, `CreateFails`, `AbandonFails`, `BeginThrows`, `AbortThrows`, `ReleaseFailed` | their catches (580-593, 775-790) and `rearmDraftCompletionIfStuck` |
| `HandlerThrows`, `PopThrows` | a throw in a handler that is not completing: only a grace expiry is tried again |
| `LookForMatch`, `TearDown` | `abortRankedDraftBeforeMatchCreation`, `abortRankedAiLobbyLocked` |
| `Drop`, `PauseDraft`, `ArmGrace`, `FireGrace`, `CleanAfterGrace` | `pauseDraftForDisconnectedPlayer`, `runDraftGraceExpiry` |
| `Reconnect`, `ClearDisconnect`, `EndPause`, `ResumeTimers` | `resumeDraftForReconnectedPlayer`, `resumeActiveDraftTimers` |

Any call of a handler may throw, between two of its steps; between the writes that one
step merges it may not. A refund's three attempts are one call: they give the payment back
or keep it. `spent` counts every payment, so a completion that is tried again and charges
again shows.

Simplified: friendly drafts (the forfeit branch, the automatic bans of their recovery),
partner pools, cancel markers (they act like absence), which category is banned (whether
two bans collide is nondeterministic, and a stale pool after a restart is left out),
processes that die, locks that lapse, the in-memory fallback of the grace timer, the lease
and the sweeper of a reservation, failures of `rearmDraftCompletionIfStuck` and of the
lock's release themselves, and the early return of `beginMatchForLobby`, which needs a match
just created to be without its row or its players. The teardown after a shortage of
tickets is that of an abort. The reads of a handler up to its next write are one step; so
are the look before the completion lock and the look under it, the two deletes at the end
of a pause with the cancel of its timer, and the match row of a persistent bot with its
players (one transaction in the code; for two humans `CreateFails` may leave the row alone).
A reconnect begins when the handler of its disconnect has ended (`Link` is one actor):
lifting that wedges a draft, as the hazards say.

### PossessionPlay

`play` is `PossessionStatePayload` reduced to what decides a match: the phase, the half
and the round in it, possession, goals, the speed streak and the penalty score. Each
action resolves one round of its phase: `NormalRound`, `LastAttackRound`, `EndHalftime`,
`PenaltyRound` apply `applyNormalResolution` with `resolveSpeedStreak`,
`applyLastAttackResolution`, `finalizeHalftime` and `applyPenaltyResolution`; `RunDry` is
a shoot-out whose questions ran out, `Restore` a state that was stored and parsed again
(`parsePossessionState`).
Points are taken from `Points`, a subset of 0 to 100, which is what scoring an answer
yields. Left out: categories (except whether that of the second half is known, `preset`),
attempts, the seat that kicks off, deadlines, and the branch for a missing player.

## 3. Runs

States are distinct states TLC reaches.

| Run | Instance | What it asks | States |
|---|---|---|---|
| `timers_single` | 1 replica, 2 timers, delays up to 2, lock TTL 2; handlers fail, callers cancel; `FairSpec` | is a scheduled timer ever lost (`NoTimerLost`), and does each reach a handler (`Delivered`)? | 48 thousand |
| `timers_faults` | 2 replicas, 1 timer, delays up to 1, lock TTL 1; crashes, reconnects, cancels, failures; symmetry of replicas | `TypeOK`, `NeverDisarmed`, `LockHeldUntilExpiry`, `HandlersExcluded` when everything goes wrong | 1.2 million |
| `timers_rearm_lost` | 2 replicas, 1 timer, no faults at all | violation of `NoTimerLost`, finding 1 | |
| `ranked_live` | 2 players, 1 lobby, 1 ticker, no drops or faults; `FairSpec` | is a client left searching for nothing (`NoStrandedSearch`); does every search leave the queue (`QueueDrains`)? | 87 thousand |
| `ranked_races` | 2 players, 2 lobbies, claims of any length, calls that throw | `OneRankedLobby`, `NoDraftAfterLeave`, `SearchNotCancelled`, `TypeOK` | 2.4 million |
| `ranked_drops` | 2 players, 2 search identifiers, 1 lobby, one player's sockets drop and return | `MappedSearchesQueued`: user map and queue agree through drops and requeues | 1.2 million |
| `ranked_stuck` | 2 players, 2 lobbies, no faults | violation of `NoStuckLobby`, finding 2 | |
| `settlement_races` | 1 human, 1 bot, 2 matches, 2 finalizers; calls throw, processes die, the abandoner's lock lapses | `BotStandingExact`, `RefundsExact`, `OneResult`, `TypeOK`, `OneEnding` (the refinement of `MatchOutcome`) | 1.3 million |
| `settlement_acked` | 2 humans, 1 bot, 1 match, 1 finalizer; only calls that throw | violation of `UnsettledReplayable`, finding 3 | |
| `rounds` | 2 players, 2 questions, 1 timer handler, 1 replica, 1 resumer; a crash, a pause or a lapse; `FairSpec` | `RoundsInOrder` (the refinement), `PublishedOnce`, `AckedAnswersCount`, `OnlyResumesRewind`, `TypeOK`; is the match played to its end (`MatchEnds`)? | 669 thousand |
| `ranked_draft` | 2 members, with and without a bot; one disconnect, one call that throws at any point, both in a completion; `FairSpec` | `OneMatch`, `TicketsConserved`, `MatchKeepsLobby`, `TypeOK`; does the draft end (`DraftEnds`)? | 735 thousand |
| `possession_rules` | 6 questions a half, 5 penalties, 2 rounds of sudden death, answers of 0, 40 and 100 points | `PhaseFollows`, `StreakKept`, `StreakPasses`, `ShootoutFair`, `WinnerClear`, `EndNears`, `TypeOK` | 24 thousand |

Every passing property also has a mutant of the modelled code (defined beside the
original, named by a comment "Mutant") that breaks it under the same run.

**Why the bounds are enough.** *Timers:* a race over one timer needs two replicas; two
timers in one replica are what concurrency, batches and overlapping polls need; a lock
of one or two ticks can expire under its holder, a delay of one or two can be moved
while it runs. *Ranked:* a pair is the largest unit the code handles, one lobby is where
it ends, two lobbies are what a double seat needs, two identifiers what a mapping that
points at the wrong search needs. `LockLapses` and `ReEmits` are off everywhere:
switching them on shows what the hazards say: a re-emitted join can strand the partner,
and overlapping ticks seat a player twice. `ranked-matchmaking.service.ts:69` says that
the tick lock outlives the worst-case tick "so parallel ticks cannot overlap"; the code
does not check it, and the runs assume that it is so.
`SlowClaims` and `Faults` are on where safety is checked and off for liveness
and `NoStrandedSearch`, where a thrown call strands both players, as the log line in the
code accepts. *Settlement:* two finalizers, two matches that share their human and their
bot: the smallest instance where matches meet in a profile and finalizers in a lock,
with every fault on. A finalizer that takes the lock of a match already over only gives
it back, whatever its kind, so TLC lets one kind come that late (`LatecomersAlike`);
without that constraint the five properties hold as well, in 2.8 million states.
*Rounds:* two questions are the least that has a "next" one and a last one; two players,
since the last answer is what races the deadline and a missing one what sends a resolver
back; one handler and the boot of one replica already make two resolvers meet, with each
other and with the two of the answers. `MaxFaults` is 1: each kind of fault at every
point of the match, but no two of them. TLC stops at a match that a resume took back
(`NotTakenBack`): every property excuses what comes after, and since `rewound` never
turns false again, no behaviour that could violate `MatchEnds` is cut. *Draft:* the two
members it always has; `MaxDrops` and `MaxThrows` are 1, at most three handlers are at work
at a time (`ThreeAtWork`), a draft that is over is not followed (`Over`), and a disconnect
and an error meet in two ways (`FaultsMeet`): after an error that was repaired, or in a
completion that finds somebody absent. Other meetings of the two are not explored for
`DraftEnds`. The safety properties are proved without these bounds; TLC checked their
invariant for one disconnect and two errors at any point as well (5.6 million states).
*Rules:* the lengths are those of the configuration, except for the sudden
death, which it switches off: two rounds show that it can be entered and left. Points of
0, 40 and 100 reach a goal, a draw and a swing of every sign.

**Fairness.** `timers_single`: weak fairness of time, strong fairness of the poll and of
each worker, weak fairness of a `DEL` on the wire. `setInterval` keeps polling and every
await returns; a command may queue behind another of its connection again and again, but
the connection is first-in first-out, so it is served: hence strong. `ranked_live`: weak
fairness of deadlines, the tick and the durable draft timers, which is `setInterval` and
the scheduler; players are under no obligation. `Delivered` excepts a timer that callers
keep moving, and `QueueDrains` assumes that players eventually stop leaving: a crowd that
keeps leaving can defer the bot fallback for ever. `rounds`: weak fairness of each timer
handler, and of everything else the server does together with the passing of time (its
work and its time end, a retry timer may come back for ever: so a lock retried by a timer
does not keep its holder from running); a replica that died boots, a paused match is
resumed; nobody has to answer. `ranked_draft`: weak fairness of the grace
expiry, and of the rest of the server's handlers together with the deadline of the
auto-ban: every await returns and every timer comes. `DraftEnds` assumes that clicks and
`draft:ui_ready` stop at some time. A click that collides with the other ban arms a new
deadline, and so does every `draft:ui_ready` of the member whose turn it is, so a player
who never stops sending either can put the end off for ever. Nobody has to click, to be
ready or to come back. `DraftEnds` also excuses what `NeedsHelp` names: an error left an
active match on the lobby, or stopped a handler nobody runs again (section 4).

## 4. Findings

- `timers_rearm_lost`: the cleanup script protects a re-armed timer only while it is in
  the sorted set. If another replica has popped it already, its payload is deleted and
  the pop finds nothing: the fire is dropped, which the comment above the script says
  must not happen.
- `ranked_stuck`: a leave between the last cancel check and `createLobby` finds no lobby
  to close; the draft timer sees the marker and returns, and the waiting lobby stays until
  the janitor dissolves it, two hours later and with no socket in its room
  (`lobby-janitor.service.ts:21`).
- `settlement_acked`: a settlement that threw is retried only through the replay key,
  which the acknowledgement deletes without a look at the ledger, and which may never
  have been written. Then nobody settles the match, and its bot stays reserved.

The rest has no run of its own.

A resume can take a match back. `completeResumeCountdown` deletes the pause key, then
`resumePossessionMatchQuestion` reads the blob, awaits and writes the whole of it back
without the round lock (`possession-question-dispatch.ts:1232-1301`). A resolver that had
waited for the pause may commit the round in between; the write brings the passed question
back and the players are asked it again. `rounds` reaches this (with `~rewound` for the
body of `OnlyResumesRewind` TLC shows the behaviour), and its other properties excuse a
match after it; `OnlyResumesRewind` says that no late resolver and no late sender can do
the same.

Errors in `draft-realtime.service.ts` that its recovery does not repair. `RankedDraft` has
each of them, the properties say what still holds, and a ghost counts the rest:

- After a match of two humans is created, `redis.exists` (533-536) or `beginMatchForLobby`
  before it closes the lobby (`match-lifecycle.service.ts:354`) may throw. The catch
  (775-790) re-arms the auto-ban on a lobby that is still active and has two bans, so the
  next completion charges the tickets again and creates a second match beside the first.
  The comment on the lock (715-724) promises otherwise: "Exactly-once guard ... the winner
  either creates the match (lobby leaves 'active', later attempts no-op) or fails through
  startMatchFromDraft's own recovery". A later one (1019-1020) admits it: "Duplicate
  *match* rows under a rare concurrent completion are not fully excluded at the DB level
  yet". `OneMatch` therefore allows one more match for each such error (`stranded`);
  without `+ stranded` TLC finds the second match. A persistent bot's draft makes no second
  match, since the first took its reservation: its completion fails and the draft is
  restarted, again and again. `DraftEnds` excuses both (`NeedsHelp`).
- The second look for absent members (442) comes after the tickets were spent (426) and
  outside every refund. If it throws the payment is kept, and the completion that is tried
  again charges another (`SignalsThrow`). So does a refund whose three attempts fail.
  `TicketsConserved` counts both in `leaked`, at most one for each error.
- If abandoning the match for an absent member throws (580-593), the match, its tickets and
  the active lobby stay, and the caller clears the draft's timers (763-765): nothing drives
  that lobby until a sweep (`AbandonFails`).
- The handlers of the auto-ban and of the bot's ban were popped before they run and only
  log an error (993-996); nothing re-arms them (`HandlerThrows`, `PopThrows`). A draft where
  nobody clicks, reconnects or sends `draft:ui_ready` then waits for the janitor.

Comments and documents that disagree with the code of a match; the model follows the code:

- `possession-completion.ts:114-116` says of the choice by points and correct answers:
  "Reached by the sudden-death cap (a level shootout after 5 + N pairs)". It is not:
  `completePossessionMatch` draws a level shoot-out before it looks at either (247-255,
  where the comment says so: "no total-points fallback"). `docs/ranked-system.md` (section 5
  of its list, "Draw handling") still ties a draw to a "total_points_fallback tie".
  `WinnerClear` is what the code does: a shoot-out that ends level is a draw, and points
  decide no completed match.
- `possession-state.ts:385` calls sudden death "unbounded"; `applyPenaltyResolution` and its
  tests bound it, which `EndNears` rests on.

## 5. Proofs

`RealtimeTimersProofs`, for every number of replicas and timers and every delay, TTL,
batch and concurrency limit:

- `TypeCorrect`: `Spec => []TypeOK`.
- `LockOwnership`: `Spec => []LockHeldUntilExpiry`. Inductive with `TypeOK`: the age of
  a lock and the TTL of its key count down together, and every other action leaves a
  living token's key alone.
- `HandlerExclusion`: `Spec => []HandlersExcluded`. `HandlersExcluded` says nothing about
  who owns the key, so it is not inductive; with `LockHeldUntilExpiry` and
  `CriticalHasToken` (whoever is past `acquireLock` has a token) two workers with time
  left would both own one key.

- `MembershipSurvives`: `Spec => []NeverDisarmed`. A worker in whose hands an owed timer
  is might have lost its Redis and be about to drop it; `Armed` adds that some such worker
  has a client that is open, which `WriteOff` justifies: a client that closes is owed
  nothing for what its process had in hand.

- `AloneLosesNothing`: one replica loses no timer (`NoTimerLost`), with every fault the
  model has. `PayloadHeld`: a timer that is owed has its payload, no `DEL` of that payload
  is on the wire, and one that its handler has is with a worker whose client is open. The
  assumption of one replica is what finding 1 is about: its run needs two replicas and no
  fault at all.

`RankedMatchmakingProofs`, for every set of players, search identifiers, lobbies and
tickers, whether or not joins are re-emitted, claims are slow and calls throw:

- `TypeCorrect` and `MapAgrees`: `Spec => []TypeOK`, `Spec => []MappedSearchesQueued`.
  Inductive together with the types of the queue (`QueueRight`): a script removes a
  search from the queue and from the map at once, the `MULTI` of a join or a requeue
  adds it to both, and `Resume` deletes only a mapping.
- `SeatedOnce`: `~LockLapses` implies `Spec => []OneRankedLobby`. `AloneTick`: one tick
  is on; `Seatless`: from the session check to `createLobby` the players it claimed are
  in no lobby, since only a tick seats players. With two ticks both could pass the check
  first, hence the assumption.
- `MarkerCleared` and `LeaveHonoured`: `Droppers = {}` implies `Spec =>
  []SearchNotCancelled` and `Spec => []NoDraftAfterLeave`, even when ticks overlap.
  `Marked`: the marker stands throughout a leave, and past `LeaveQueue` the player is
  neither mapped nor about to be. `LeaverCancelled`: while a pairing or a draft timer
  holds the leaver, so does the marker. `LeaverChecked`: a lobby that lists a leaver is
  waiting, and its timer still has its cancel check ahead. With sockets that drop, the
  requeue of a pairing writes a search without the player's lock, hence the assumption.

`RankedSearchProofs`:

- `NobodyStranded`: `Droppers = {}`, `~Faults`, `~ReEmits` and `~SlowClaims` imply `Spec =>
  []NoStrandedSearch`, for every number of players, search identifiers, lobbies and
  tickers, and even when ticks overlap. `NoStrandedSearch` is about what the client shows
  and what the server still has for it, so its invariant (`SearchInv`) follows a player
  from the join over the search and the claim to the seat, one of them at a time: a tick
  holds whom it claimed alone (`TickRight`), a lobby with a bot is its player's
  (`LobbyRight`), and somebody answers whoever is shown a search (`Owed`). TLC found no
  violation of `SearchInv` with two players, two lobbies and two tickers that lapse. The
  assumptions are needed: TLC shows a stranded client as soon as a socket drops, a call
  may throw, a client repeats its join, or a claim sets its flag after a leave or a join
  has passed.

`MatchSettlementProofs`, for every set of players, matches and finalizers, with and
without failures, crashes and lapses:

- `TypeCorrect`. `TypeOK` needs `Started` (a finalizer at work and a replay key have a
  match that was started) and `AbandonerPath` (the abandoner's steps).
- `RefundsCorrect`: `Spec => []RefundsExact`. The strengthening `RefundsOnce` says who is
  on the way to a refund: one finalizer, the one whose compare-and-set abandoned the
  match, and the tickets are not back yet.
- `BotStandings`: `Spec => []BotStandingExact`. `BotHeld`: a bot without a row for a
  match it plays is reserved for it. `SnapCurrent`: what a settlement read of such a bot
  is still its standing when it writes.
- `ResultsAgree`: `Spec => []OneResult`. `LockHeld`: a completion or forfeit owns its
  lock throughout. `CompleterSees`: what it decided is not contradicted by the row,
  unless it was abandoned. `ResultKnown`: what was announced is at most one result.
- `ImplementsMatchOutcome`: `Spec => OneEnding`, the refinement of `MatchOutcome`, from all
  of the above and `EndingRight`: whom a finalizer decides for plays the match
  (`WinnersPlay`), a penalty finds a match without a result since its finalizer holds the
  lock (`PenaltyEarly`), what a settlement did not read as missing has its row
  (`MissingPlayed`), and a bot's row comes from a result (`BotsRatedLast`), so a bot whose
  match is open is still reserved for it when another one starts. There is one lemma per
  step that changes the outcome (`StartOpens` ... `TellsOne`).

`PossessionRoundsProofs`, for every number of questions, players, handlers, replicas and
faults:

- `TypeCorrect`, `OnlyResumesGoBack`, `PublishesOnce` and `CountsAcknowledgedAnswers`:
  `TypeOK`, `OnlyResumesRewind`, `PublishedOnce` and `AckedAnswersCount` always hold. What
  they excuse they say themselves: a match a resume took back, and for the last one a lock
  that lapsed.
- `ImplementsMatchRounds`: `Spec => RoundsInOrder`, the refinement of `MatchRounds`.
  Applying a result scores (`ApplyScores`), committing it advances, publishing asks,
  a crash dies, and everything else leaves `MatchRounds` alone.
- The invariant is `RoundsInv`. `Placed` holds whatever happened: who is past the fence
  has it, who is in a critical section has the round lock unless a lock lapsed, who resumes
  follows a pause. `Followed` holds until a resume takes the match back: a resolver between
  the fence and its commit is about the current question, and one with a result in its
  hands is the only one (`InStep`); at most one sender is past its mark, and its question is
  not out (`AskedOnce`); a result nobody committed belongs to a resolver at its commit or to
  a crash (`ScoredOnce`); what a resolver has seen or applied includes the acknowledged
  answers, as long as no lock lapses (`AnswersIn`). None of the four properties is
  inductive without it: a resolver that commits late would be free to score any question.
  TLC checked `RoundsInv` first, completely for one fault.

`RankedDraftProofs`, for every number of disconnects and of calls that throw:

- `TypeCorrect`, `CreatesOneMatch`, `KeepsTickets`, `KeepsLobby`: `TypeOK`, `OneMatch`,
  `TicketsConserved`, `MatchKeepsLobby`. The invariant is `DraftInv`. Its first part says who
  completes: the holder of the completion lock and nobody else (`CompletionHeld`), never a
  grace expiry (`GraceOnlyAborts`). Its second part is a balance that holds at each stage of
  a completion (`Stage`), whoever is at it: the payments are those of the active matches, of
  what errors kept and of the match being made (`Accounted`); while the lobby can still be
  completed, the only active matches are those that errors left (`Counted`), so a completion
  adds one to nothing else; a match just created is there to be abandoned (`CreatedIsLive`);
  a bot is reserved or in one match (`BotCounted`). `BotMatchSafe` keeps whoever looks for a
  match before tearing down from standing at the teardown beside one. None of the properties
  is inductive: `OneMatch` says nothing of a completion that is about to create, and
  `TicketsConserved` nothing while one is under way. There is a lemma for each group of
  actions (`...Keep`, `...Keeps`).

`PossessionPlayProofs`, for every number of questions, penalties and rounds of sudden
death and every set of points between 0 and 100:

- `TypeCorrect`, `PhasesFollow`, `StreaksKept`, `ShootoutsFair`, `WinnersClear`: the phases
  hand over what the next one relies on, whoever holds the speed streak has earned it
  twice, a shoot-out goes on exactly as long as neither side is out of reach, and a match
  that is completed has a winner by goals or penalties or is a drawn shoot-out.
- `StreaksPass` and `EndComesNearer` are about steps: the streak passes only to the seat
  that was earning it, and each step lowers `Rank`, a natural number. So a match has at
  most `Rank(InitialPlay)` rounds and half-times, which is why `PossessionRounds` may take
  a number of questions as a constant.
- The invariant is `PlayInv`: the properties of a state together and `Aux`. The properties
  are not inductive: that a shoot-out starts level needs that nothing of it happened before
  (`NoPenalties`), when sudden death began is what its kicks say, and why a match is over
  is needed for its winner. There is one lemma for each function that ends a round
  (`...Goes`); `KickFacts` is the arithmetic of who can still win, without the records.
- `ReloadIsHarmless`: a state that is right survives `Reload`, the parse of the stored
  state, unchanged. It is why `Restore` is a step like any other in those theorems.

The assumptions are the named ones of the modules (distinct names, positive bounds,
Boolean switches). The central step of each proof is a lemma on what one step can do to
one finalizer or worker (`Moves`, `Origins`); the invariants follow from it by cases.

**Only model-checked:** the liveness properties `Delivered`, `QueueDrains`, `MatchEnds` and
`DraftEnds`, since liveness under fairness is beyond the prover. Some theorems cover less
than the whole of a module because the property is false beyond: `NoTimerLost` with two
replicas, `NoStrandedSearch` with the switches above on, `OneRankedLobby` with ticks that
outlive their lock, `SearchNotCancelled` and `NoDraftAfterLeave` with sockets that drop.
Also beyond the prover: `ENABLED`, and induction over data, that is, what a recursive
definition computes for every input. No module uses `RECURSIVE`.

## 6. Not modelled

`PROJECT.json` lists each part that is left out with its reason. Most of this repository
is request-and-response services, content, read models, generated types and scripts: code
without a state of its own that two actors could disturb, where the database's
transaction is the whole of the concurrency. The modules above take the parts that have
one, in the order of the plan, so the lines they map are a small share of all the lines.
What has such a state and is not modelled yet: half-time, match presence, the auction, the
football grid, duels, rooms, the weekend league, partner plays, and the wallet beyond
tickets. The party quiz repeats the round protocol of `PossessionRounds` for more players.
