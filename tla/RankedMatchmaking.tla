------------------------- MODULE RankedMatchmaking -------------------------
(***************************************************************************)
(* Public ranked matchmaking: the Redis queue and its three Lua scripts,   *)
(* the tick that pairs humans or falls back to a bot, the socket handlers  *)
(* of join, leave, disconnect and reconnect, and the ranked lobby up to    *)
(* the start of its draft (ranked-matchmaking.service.ts with what it      *)
(* calls of user-session-guard, lobby-ranked-ai and lobby-connect).        *)
(*                                                                          *)
(* A script and a MULTI are one action each; so is a run of reads nothing  *)
(* else depends on.  Everywhere else an await is a boundary between two    *)
(* actions: a tick, several socket handlers and the draft timers interleave *)
(* between them.  A search is <<user, n>>, so its hash needs no userId.    *)
(***************************************************************************)
EXTENDS Integers, FiniteSets

CONSTANTS
    Users,        \* players
    Ids,          \* distinguishes the searches of one player (randomUUID)
    Lobbies,      \* ranked lobbies that can exist at once
    Tickers,      \* replicas that run rankedTick
    NoSearch,     \* the user map has no entry
    NoLobby,
    LockLapses,   \* may a tick outlive TICK_LOCK_TTL_MS, so that a second one starts?
    ReEmits,      \* may a client send queue_join again while it shows a search or joins?
    SlowClaims,   \* may a player's leave guard or next join pass a claim that set no flag yet?
    Droppers,     \* players whose sockets may drop and come back
    Faults        \* may a database call throw, or an account be gone?

Searches == Users \X Ids
Owner(s) == s[1]

ASSUME NamesAssumption == NoSearch \notin Searches /\ NoLobby \notin Lobbies
ASSUME DroppersAssumption == Droppers \subseteq Users
ASSUME SwitchAssumption == {LockLapses, ReEmits, SlowClaims, Faults} \subseteq BOOLEAN

VARIABLES
    queue,      \* searches with status 'queued', in the queue and the timeouts sets
    due,        \* those whose deadlineAt has passed
    userMap,    \* RANKED_MM_USER_MAP_KEY
    cancelled,  \* players with ranked:mm:cancel set
    leaveGuard, \* players with the leave guard set
    inFlight,   \* players with the pairing-in-flight key set
    online,     \* players with a live authenticated socket
    op,         \* the handler that holds the player's session lock, and its next step
    knocking,   \* queue joins past their early checks, waiting for that lock
    seen,       \* the search a join read from the user map
    dropped,    \* disconnects whose cleanup waits for that lock
    stage,      \* the next step of a ticker
    pair,       \* the player(s) it claimed
    present,    \* those of them it found connected, after an absent one
    todo,       \* the due searches it read
    room,       \* the lobby it created
    status,     \* lobbies.status; "none" when the row does not exist
    members,    \* lobby_members
    timer,      \* the next scheduled callback of a lobby
    party,      \* the human players in that callback's payload
    healing,    \* a reconnect scheduled this lobby's draft
    told,       \* what the last event sent to the player's sockets shows
    left        \* ghost: players whose leave completed and who did not join again

queueVars == <<queue, due, userMap>>
flagVars  == <<cancelled, leaveGuard, inFlight>>
userVars  == <<op, knocking, seen, dropped>>
jobVars   == <<stage, pair, present, todo, room>>
lobbyVars == <<status, members, timer, party, healing>>
vars == <<queueVars, flagVars, online, userVars, jobVars, lobbyVars, told, left>>

Ops == {"none", "sawNothing", "sawSearch", "sawLobby", "uncancel", "resume", "enqueue",
        "leaving", "cleaning"}
PairStages == {"flag", "cancel1", "socket1", "drop", "requeue", "users", "cancel2", "session",
               "socket2", "lobby", "announce", "clear"}
BotStages == {"botCancel", "botSession", "botSocket", "botStart", "botLobby"}
Stages == {"idle", "claims", "pairs"} \cup PairStages \cup BotStages
Timers == {"none", "found", "checked", "botSearch", "botFound", "botChecked"}

TypeOK ==
    /\ queue \subseteq Searches /\ due \subseteq Searches
    /\ userMap \in [Users -> Searches \cup {NoSearch}]
    /\ cancelled \subseteq Users /\ leaveGuard \subseteq Users /\ inFlight \subseteq Users
    /\ online \subseteq Users
    /\ op \in [Users -> Ops]
    /\ knocking \subseteq Users /\ dropped \subseteq Users
    /\ seen \in [Users -> Searches \cup {NoSearch}]
    /\ stage \in [Tickers -> Stages]
    /\ pair \in [Tickers -> SUBSET Users] /\ present \in [Tickers -> SUBSET Users]
    /\ todo \in [Tickers -> SUBSET Searches]
    /\ room \in [Tickers -> Lobbies \cup {NoLobby}]
    /\ status \in [Lobbies -> {"none", "waiting", "active"}]
    /\ members \in [Lobbies -> SUBSET Users] /\ party \in [Lobbies -> SUBSET Users]
    /\ timer \in [Lobbies -> Timers]
    /\ healing \subseteq Lobbies
    /\ told \in [Users -> {"idle", "searching", "found", "draft"}]
    /\ left \subseteq Users

Init ==
    /\ queue = {} /\ due = {} /\ userMap = [u \in Users |-> NoSearch]
    /\ cancelled = {} /\ leaveGuard = {} /\ inFlight = {}
    /\ online = Users
    /\ op = [u \in Users |-> "none"] /\ knocking = {} /\ dropped = {}
    /\ seen = [u \in Users |-> NoSearch]
    /\ stage = [t \in Tickers |-> "idle"]
    /\ pair = [t \in Tickers |-> {}] /\ present = [t \in Tickers |-> {}]
    /\ todo = [t \in Tickers |-> {}] /\ room = [t \in Tickers |-> NoLobby]
    /\ status = [l \in Lobbies |-> "none"] /\ members = [l \in Lobbies |-> {}]
    /\ timer = [l \in Lobbies |-> "none"] /\ party = [l \in Lobbies |-> {}]
    /\ healing = {}
    /\ told = [u \in Users |-> "idle"] /\ left = {}

-----------------------------------------------------------------------------
(* Shared reads and writes *)

Mapped(s) == userMap[Owner(s)] = s
InLobby(u) == \E l \in Lobbies : u \in members[l]
WaitingLobbies(us) == {l \in Lobbies : status[l] = "waiting" /\ members[l] \cap us # {}}

\* io.to(`user:...`).emit: only connected sockets learn anything.
Tell(us, what) == told' = [u \in Users |-> IF u \in us \cap online THEN what ELSE told[u]]

\* Mutant: the cancel script forgets the HDEL of the user map.
CancelKeepsMapping(us) ==
    LET gone == {s \in queue : Owner(s) \in us /\ Mapped(s)}
    IN queue' = queue \ gone /\ due' = due \ gone /\ userMap' = userMap

\* RANKED_MM_CANCEL_SEARCH_SCRIPT for each of us: the mapped, still queued search.
CancelSearches(us) ==
    LET gone == {s \in queue : Owner(s) \in us /\ Mapped(s)}
    IN /\ queue' = queue \ gone
       /\ due' = due \ gone
       /\ userMap' = [u \in Users |-> IF \E s \in gone : Owner(s) = u THEN NoSearch ELSE userMap[u]]

\* Mutant: the search id read from the user map is queued again, without a look at nil.
EnqueueMapped(u) == queue' = queue \cup {userMap[u]} /\ UNCHANGED <<due, userMap>>

\* The MULTI of a join and of a requeue, with a search id nothing refers to.
Enqueue(u) == \E n \in Ids : LET s == <<u, n>> IN
    /\ s \notin queue /\ s # seen[u] /\ \A t \in Tickers : s \notin todo[t]
    /\ queue' = queue \cup {s}
    /\ due' = due
    /\ userMap' = [userMap EXCEPT ![u] = s]

\* abortRankedAiLobbyLocked: remove every member and delete the lobby.
AbortLobbies(ls) ==
    /\ status' = [l \in Lobbies |-> IF l \in ls THEN "none" ELSE status[l]]
    /\ members' = [l \in Lobbies |-> IF l \in ls THEN {} ELSE members[l]]

UnusedLobby(l) ==
    /\ status[l] = "none" /\ timer[l] = "none" /\ l \notin healing
    /\ \A t \in Tickers : room[t] # l

Schedule(l, callback, us) ==
    /\ timer' = [timer EXCEPT ![l] = callback]
    /\ party' = [party EXCEPT ![l] = us]

\* getRankedMatchmakingSessionBlock with ignorePairingInFlight.
SessionBlocked(u) == userMap[u] # NoSearch \/ InLobby(u)

Goto(t, s) == stage' = [stage EXCEPT ![t] = s]
Step(u, o) == op' = [op EXCEPT ![u] = o]

-----------------------------------------------------------------------------
(* rankedTick: the fallback phase, then the pair phase *)

\* Mutant: off by one, a single search already defers the fallbacks.
StartTickAlone(t) ==
    /\ stage[t] = "idle"
    /\ LockLapses \/ \A o \in Tickers : stage[o] = "idle"
    /\ todo' = [todo EXCEPT ![t] = IF Cardinality(queue) >= 1 THEN {} ELSE queue \cap due]
    /\ Goto(t, "claims")
    /\ UNCHANGED <<queueVars, flagVars, online, userVars, pair, present, room, lobbyVars, told, left>>

\* The tick lock, then processFallbacks' ZCARD and its read of what is due.
StartTick(t) ==
    /\ stage[t] = "idle"
    /\ LockLapses \/ \A o \in Tickers : stage[o] = "idle"
    /\ todo' = [todo EXCEPT ![t] = IF Cardinality(queue) >= 2 THEN {} ELSE queue \cap due]
    /\ Goto(t, "claims")
    /\ UNCHANGED <<queueVars, flagVars, online, userVars, pair, present, room, lobbyVars, told, left>>

\* RANKED_MM_CLAIM_FALLBACK_SCRIPT for the next due search.
ClaimFallback(t) ==
    /\ stage[t] = "claims"
    /\ \E s \in todo[t] :
        /\ todo' = [todo EXCEPT ![t] = @ \ {s}]
        /\ queue' = queue \ {s} /\ due' = due \ {s}
        /\ IF s \in queue /\ Mapped(s)
             THEN /\ userMap' = [userMap EXCEPT ![Owner(s)] = NoSearch]
                  /\ pair' = [pair EXCEPT ![t] = {Owner(s)}]
                  /\ Goto(t, "botCancel")
             ELSE UNCHANGED <<userMap, pair, stage>>
    /\ UNCHANGED <<flagVars, online, userVars, present, room, lobbyVars, told, left>>

EndFallbacks(t) ==
    /\ stage[t] = "claims" /\ todo[t] = {}
    /\ Goto(t, "pairs")
    /\ UNCHANGED <<queueVars, flagVars, online, userVars, pair, present, todo, room, lobbyVars, told, left>>

\* RANKED_MM_PAIR_TWO_RANDOM_SCRIPT: a stale pick is dropped and ends the phase.
PairTwo(t) ==
    /\ stage[t] = "pairs"
    /\ \E a \in queue : \E b \in queue \ {a} :
        \/ /\ Mapped(a) /\ Mapped(b)
           /\ queue' = queue \ {a, b} /\ due' = due \ {a, b}
           /\ userMap' = [userMap EXCEPT ![Owner(a)] = NoSearch, ![Owner(b)] = NoSearch]
           /\ pair' = [pair EXCEPT ![t] = {Owner(a), Owner(b)}]
           /\ Goto(t, "flag")
        \/ /\ ~Mapped(a)
           /\ queue' = queue \ {a} /\ due' = due \ {a}
           /\ Goto(t, "idle")
           /\ UNCHANGED <<userMap, pair>>
    /\ UNCHANGED <<flagVars, online, userVars, present, todo, room, lobbyVars, told, left>>

EndTick(t) ==
    /\ stage[t] = "pairs" /\ Cardinality(queue) < 2
    /\ Goto(t, "idle")
    /\ UNCHANGED <<queueVars, flagVars, online, userVars, pair, present, todo, room, lobbyVars, told, left>>

-----------------------------------------------------------------------------
(* startHumanRankedMatch, one await after the other *)

SetPairingInFlight(t) ==
    /\ stage[t] = "flag"
    /\ inFlight' = inFlight \cup pair[t]
    /\ Goto(t, "cancel1")
    /\ UNCHANGED <<queueVars, cancelled, leaveGuard, online, userVars, pair, present, todo, room,
                   lobbyVars, told, left>>

\* Mutant: a cancelled pairing is dropped without a word to the other player.
ForgetSurvivors(t) == told' = told

\* releaseUncancelledUsers
ReleaseUncancelled(t) == Tell(pair[t] \ cancelled, "idle")

\* getCancelFlags, before anything else and again right before the lobby.
CheckCancelFlags(t) ==
    /\ stage[t] \in {"cancel1", "cancel2"}
    /\ IF pair[t] \cap cancelled # {}
         THEN ReleaseUncancelled(t) /\ Goto(t, "clear")
         ELSE /\ Goto(t, IF stage[t] = "cancel1" THEN "socket1" ELSE "session")
              /\ told' = told
    /\ UNCHANGED <<queueVars, flagVars, online, userVars, pair, present, todo, room, lobbyVars, left>>

\* abortIfMissingLiveSocket reads who is connected ...
CheckSockets(t) ==
    /\ stage[t] \in {"socket1", "socket2"}
    /\ IF pair[t] \subseteq online
         THEN Goto(t, IF stage[t] = "socket1" THEN "users" ELSE "lobby") /\ present' = present
         ELSE Goto(t, "drop") /\ present' = [present EXCEPT ![t] = pair[t] \cap online]
    /\ UNCHANGED <<queueVars, flagVars, online, userVars, pair, todo, room, lobbyVars, told, left>>

\* ... cancels whatever the absent ones have queued by now ...
DropAbsent(t) ==
    /\ stage[t] = "drop"
    /\ CancelSearches(pair[t] \ present[t])
    /\ Tell(pair[t] \ present[t], "idle")
    /\ Goto(t, "requeue")
    /\ UNCHANGED <<flagVars, online, userVars, pair, present, todo, room, lobbyVars, left>>

\* ... and requeues the one who was there, without that player's session lock.
Requeue(t) ==
    /\ stage[t] = "requeue"
    /\ \/ present[t] = {} /\ UNCHANGED <<queueVars, told>>
       \/ \E u \in present[t] : Enqueue(u) /\ Tell({u}, "searching")
    /\ present' = [present EXCEPT ![t] = {}]
    /\ Goto(t, "clear")
    /\ UNCHANGED <<flagVars, online, userVars, pair, todo, room, lobbyVars, left>>

\* The user rows, then the wallets.
CheckUsers(t) ==
    /\ stage[t] = "users"
    /\ \/ Goto(t, "cancel2") /\ UNCHANGED <<queueVars, told>>
       \/ Goto(t, "clear") /\ Tell(pair[t], "idle") /\ UNCHANGED queueVars  \* no ticket left
       \/ /\ Faults
          /\ \E missing \in SUBSET pair[t] \ {{}} :
                CancelSearches(missing) /\ Tell(missing, "idle")
          /\ Goto(t, "clear")
    /\ UNCHANGED <<flagVars, online, userVars, pair, present, todo, room, lobbyVars, left>>

\* Mutant: the session check before the lobby is dropped.
CheckNoSession(t) ==
    /\ stage[t] = "session"
    /\ Goto(t, "socket2")
    /\ UNCHANGED <<queueVars, flagVars, online, userVars, pair, present, todo, room, lobbyVars, told, left>>

CheckSession(t) ==
    /\ stage[t] = "session"
    /\ Goto(t, IF \E u \in pair[t] : SessionBlocked(u) THEN "clear" ELSE "socket2")
    /\ UNCHANGED <<queueVars, flagVars, online, userVars, pair, present, todo, room, lobbyVars, told, left>>

\* createLobby and both addMembers.
CreateLobby(t) ==
    /\ stage[t] = "lobby"
    /\ \E l \in Lobbies :
        /\ UnusedLobby(l)
        /\ status' = [status EXCEPT ![l] = "waiting"]
        /\ members' = [members EXCEPT ![l] = pair[t]]
        /\ room' = [room EXCEPT ![t] = l]
    /\ Goto(t, "announce")
    /\ UNCHANGED <<queueVars, flagVars, online, userVars, pair, present, todo, timer, party, healing, told, left>>

\* ranked:match_found to both and the durable draft-start timer.
Announce(t) ==
    /\ stage[t] = "announce"
    /\ Tell(pair[t], "found")
    /\ Schedule(room[t], "found", pair[t])
    /\ Goto(t, "clear")
    /\ UNCHANGED <<queueVars, flagVars, online, userVars, pair, present, todo, room, status, members, healing, left>>

\* The finally block; processPairs then claims the next pair.
ClearPairingInFlight(t) ==
    /\ stage[t] = "clear"
    /\ inFlight' = inFlight \ pair[t]
    /\ pair' = [pair EXCEPT ![t] = {}] /\ room' = [room EXCEPT ![t] = NoLobby]
    /\ Goto(t, "pairs")
    /\ UNCHANGED <<queueVars, cancelled, leaveGuard, online, userVars, present, todo, lobbyVars, told, left>>

\* A call throws: processPairs and processFallbacks log it and go on.
PairingThrows(t) ==
    /\ Faults /\ stage[t] \in PairStages \ {"clear"}
    /\ present' = [present EXCEPT ![t] = {}]
    /\ Goto(t, "clear")
    /\ UNCHANGED <<queueVars, flagVars, online, userVars, pair, todo, room, lobbyVars, told, left>>

-----------------------------------------------------------------------------
(* startAiFallback and startRankedAiForUser *)

\* Back to the loop of processFallbacks.
NextFallback(t) == Goto(t, "claims") /\ pair' = [pair EXCEPT ![t] = {}]

BotCheckCancel(t) ==
    /\ stage[t] = "botCancel"
    /\ IF pair[t] \cap cancelled # {} THEN NextFallback(t) ELSE Goto(t, "botSession") /\ pair' = pair
    /\ UNCHANGED <<queueVars, flagVars, online, userVars, present, todo, room, lobbyVars, told, left>>

BotCheckSession(t) ==
    /\ stage[t] = "botSession"
    /\ IF \E u \in pair[t] : SessionBlocked(u) \/ u \in inFlight
         THEN NextFallback(t) ELSE Goto(t, "botSocket") /\ pair' = pair
    /\ UNCHANGED <<queueVars, flagVars, online, userVars, present, todo, room, lobbyVars, told, left>>

\* No socket or no ticket: queue_left.
BotCheckSocket(t) ==
    /\ stage[t] = "botSocket"
    /\ \/ NextFallback(t) /\ Tell(pair[t], "idle")
       \/ pair[t] \subseteq online /\ Goto(t, "botStart") /\ UNCHANGED <<pair, told>>
    /\ UNCHANGED <<queueVars, flagVars, online, userVars, present, todo, room, lobbyVars, left>>

\* startRankedAiForUser: the last cancel check ...
BotStart(t) ==
    /\ stage[t] = "botStart"
    /\ IF pair[t] \cap cancelled # {} THEN NextFallback(t) ELSE Goto(t, "botLobby") /\ pair' = pair
    /\ UNCHANGED <<queueVars, flagVars, online, userVars, present, todo, room, lobbyVars, told, left>>

\* ... then a lobby with a reserved bot, or a failure the player hears of.
CreateBotLobby(t) ==
    /\ stage[t] = "botLobby"
    /\ \/ Tell(pair[t], "idle") /\ UNCHANGED lobbyVars
       \/ /\ \E l \in Lobbies :
                /\ UnusedLobby(l)
                /\ status' = [status EXCEPT ![l] = "waiting"]
                /\ members' = [members EXCEPT ![l] = pair[t]]
                /\ Schedule(l, "botSearch", pair[t])
          /\ UNCHANGED <<told, healing>>
    /\ NextFallback(t)
    /\ UNCHANGED <<queueVars, flagVars, online, userVars, present, todo, room, left>>

BotThrows(t) ==
    /\ Faults /\ stage[t] \in BotStages
    /\ NextFallback(t)
    /\ UNCHANGED <<queueVars, flagVars, online, userVars, present, todo, room, lobbyVars, told, left>>

-----------------------------------------------------------------------------
(* The draft-start callbacks of a ranked lobby *)

\* Mutant: the draft starts without a look at the cancel flags.
DraftUnchecked(l) ==
    /\ timer[l] = "found"
    /\ timer' = [timer EXCEPT ![l] = "checked"]
    /\ UNCHANGED <<queueVars, flagVars, online, userVars, jobVars, status, members, party, healing, told, left>>

\* ranked_draft_start fires: runRankedDraftStart reads the cancel flags.  A public pair
\* that was cancelled is left as it is (closePartnerPairLobby is for partners).
DraftCheckCancel(l) ==
    /\ timer[l] = "found"
    /\ timer' = [timer EXCEPT ![l] = IF party[l] \cap cancelled # {} THEN "none" ELSE "checked"]
    /\ UNCHANGED <<queueVars, flagVars, online, userVars, jobVars, status, members, party, healing, told, left>>

\* handleRankedAiMatchFound, then startRankedAiDraft: cancelled, gone, advanced, superseded, or on.
BotCallback(l) ==
    LET us == party[l]
        superseded == \E o \in Lobbies \ {l} : members[o] \cap us # {}
        Over == timer' = [timer EXCEPT ![l] = "none"]
    IN
    /\ timer[l] \in {"botSearch", "botFound"}
    /\ \/ /\ us \cap cancelled # {} /\ status[l] # "active" /\ Over
          /\ AbortLobbies({l}) /\ told' = told
       \/ /\ us \cap cancelled = {} /\ status[l] = "none" /\ Over
          /\ Tell({u \in us : ~SessionBlocked(u)}, "idle") /\ UNCHANGED <<status, members>>
       \/ /\ status[l] = "active" /\ Over
          /\ UNCHANGED <<status, members, told>>
       \/ /\ us \cap cancelled = {} /\ status[l] = "waiting" /\ superseded /\ Over
          /\ AbortLobbies({l}) /\ told' = told
       \/ /\ us \cap cancelled = {} /\ status[l] = "waiting" /\ ~superseded
          /\ IF timer[l] = "botSearch"
               THEN timer' = [timer EXCEPT ![l] = "botFound"] /\ Tell(us, "found")
               ELSE timer' = [timer EXCEPT ![l] = "botChecked"] /\ told' = told
          /\ UNCHANGED <<status, members>>
    /\ UNCHANGED <<queueVars, flagVars, online, userVars, jobVars, party, healing, left>>

\* startDraft with expectWaiting: the waiting -> active compare-and-set, and draft:start.
Activate(l) ==
    IF status[l] = "waiting"
      THEN status' = [status EXCEPT ![l] = "active"] /\ Tell(members[l], "draft")
      ELSE UNCHANGED <<status, told>>

StartDraft(l) ==
    /\ timer[l] \in {"checked", "botChecked"}
    /\ timer' = [timer EXCEPT ![l] = "none"]
    /\ IF timer[l] = "botChecked" /\ status[l] = "none"
         THEN status' = status /\ Tell({u \in party[l] : ~SessionBlocked(u)}, "idle")
         ELSE Activate(l)
    /\ UNCHANGED <<queueVars, flagVars, online, userVars, jobVars, members, party, healing, left>>

\* The 250 ms callback of rejoinWaitingLobbyOnConnect.
HealDraft(l) ==
    /\ l \in healing
    /\ healing' = healing \ {l}
    /\ Activate(l)
    /\ UNCHANGED <<queueVars, flagVars, online, userVars, jobVars, members, timer, party, left>>

\* External: the match is created, played and settled, and its lobby closed.
MatchOver(l) ==
    /\ status[l] = "active" /\ \A u \in members[l] : op[u] = "none"
    /\ AbortLobbies({l}) /\ Tell(members[l], "idle")
    /\ UNCHANGED <<queueVars, flagVars, online, userVars, jobVars, timer, party, healing, left>>

-----------------------------------------------------------------------------
(* handleQueueJoin *)

\* A claimed player no pairing flag protects yet (a bot fallback sets none).
Unflagged(u) == u \notin inFlight /\ \E t \in Tickers : u \in pair[t]

\* A reload or a second tab re-emits the join of a search that is on or starting.
MayJoin(u) == ReEmits \/ (told[u] = "idle" /\ op[u] = "none" /\ u \notin knocking)

\* The checks before the lock pass: no session block, no leave guard, a ticket, no debounce key.
RequestJoin(u) ==
    /\ u \in online \ knocking /\ MayJoin(u)
    /\ ~InLobby(u) /\ u \notin inFlight \cup leaveGuard /\ (SlowClaims \/ ~Unflagged(u))
    /\ knocking' = knocking \cup {u}
    /\ UNCHANGED <<queueVars, flagVars, online, op, seen, dropped, jobVars, lobbyVars, told, left>>

\* They do not: a recent leave, or no ticket.
RefuseJoin(u) ==
    /\ u \in online /\ MayJoin(u)
    /\ ~InLobby(u) /\ u \notin inFlight
    /\ Tell({u}, "idle")
    /\ UNCHANGED <<queueVars, flagVars, online, userVars, jobVars, lobbyVars, left>>

\* Debounced: a second join within two seconds only shows the search again.
DebounceJoin(u) ==
    /\ u \in online /\ MayJoin(u)
    /\ ~InLobby(u) /\ u \notin inFlight \cup leaveGuard /\ userMap[u] \in queue
    /\ Tell({u}, "searching")
    /\ UNCHANGED <<queueVars, flagVars, online, userVars, jobVars, lobbyVars, left>>

\* The lock is busy for too long.
GiveUpJoin(u) ==
    /\ u \in knocking /\ op[u] # "none"
    /\ knocking' = knocking \ {u}
    /\ UNCHANGED <<queueVars, flagVars, online, op, seen, dropped, jobVars, lobbyVars, told, left>>

\* Under the lock: the leave guard again, then resolveContext of prepareForQueueJoin.
LockJoin(u) ==
    /\ u \in knocking /\ op[u] = "none"
    /\ knocking' = knocking \ {u}
    /\ IF u \in leaveGuard
         THEN op' = op /\ Tell({u}, "idle")
         ELSE /\ told' = told
              /\ IF \E l \in Lobbies : status[l] = "active" /\ u \in members[l]
                   THEN op' = op
                   ELSE Step(u, IF InLobby(u) THEN "sawLobby"
                                ELSE IF userMap[u] # NoSearch THEN "sawSearch" ELSE "sawNothing")
    /\ UNCHANGED <<queueVars, flagVars, online, seen, dropped, jobVars, lobbyVars, left>>

\* hasAnyPairingInFlight, and the cleanup of what the context showed.
PrepareJoin(u) ==
    /\ op[u] \in {"sawNothing", "sawSearch", "sawLobby"}
    /\ IF u \in inFlight
         THEN Step(u, "none") /\ UNCHANGED <<queueVars, status, members>>
         ELSE /\ Step(u, "uncancel")
              /\ IF op[u] = "sawLobby"
                   THEN CancelSearches({u}) /\ AbortLobbies(WaitingLobbies({u}))
                   ELSE UNCHANGED <<queueVars, status, members>>
    /\ UNCHANGED <<flagVars, online, knocking, seen, dropped, jobVars, timer, party, healing, told, left>>

\* Mutant: the join leaves the marker of an earlier leave in place.
KeepCancelled(u) ==
    /\ op[u] = "uncancel"
    /\ cancelled' = cancelled
    /\ seen' = [seen EXCEPT ![u] = userMap[u]]
    /\ Step(u, IF userMap[u] = NoSearch THEN "enqueue" ELSE "resume")
    /\ left' = left \ {u}
    /\ UNCHANGED <<queueVars, leaveGuard, inFlight, online, knocking, dropped, jobVars, lobbyVars, told>>

\* DEL of the cancel marker, HGET of the user map.
Uncancel(u) ==
    /\ op[u] = "uncancel"
    /\ cancelled' = cancelled \ {u}
    /\ seen' = [seen EXCEPT ![u] = userMap[u]]
    /\ Step(u, IF userMap[u] = NoSearch THEN "enqueue" ELSE "resume")
    /\ left' = left \ {u}
    /\ UNCHANGED <<queueVars, leaveGuard, inFlight, online, knocking, dropped, jobVars, lobbyVars, told>>

\* HGETALL of that search: resume it, or HDEL whatever the map holds by now.
Resume(u) ==
    /\ op[u] = "resume"
    /\ IF seen[u] \in queue
         THEN Step(u, "none") /\ Tell({u}, "searching") /\ userMap' = userMap
         ELSE Step(u, "enqueue") /\ told' = told /\ userMap' = [userMap EXCEPT ![u] = NoSearch]
    /\ seen' = [seen EXCEPT ![u] = NoSearch]
    /\ UNCHANGED <<queue, due, flagVars, online, knocking, dropped, jobVars, lobbyVars, left>>

JoinQueue(u) ==
    /\ op[u] = "enqueue"
    /\ Enqueue(u)
    /\ Tell({u}, "searching")
    /\ Step(u, "none")
    /\ UNCHANGED <<flagVars, online, knocking, seen, dropped, jobVars, lobbyVars, left>>

-----------------------------------------------------------------------------
(* handleQueueLeave *)

\* The cancel marker and the leave guard.
RequestLeave(u) ==
    /\ u \in online /\ op[u] = "none"
    /\ cancelled' = cancelled \cup {u}
    /\ leaveGuard' = leaveGuard \cup {u}
    /\ Step(u, "leaving")
    /\ UNCHANGED <<queueVars, inFlight, online, knocking, seen, dropped, jobVars, lobbyVars, told, left>>

LeaveQueue(u) ==
    /\ op[u] = "leaving"
    /\ CancelSearches({u})
    /\ Tell({u}, "idle")
    /\ Step(u, "cleaning")
    /\ UNCHANGED <<flagVars, online, knocking, seen, dropped, jobVars, lobbyVars, left>>

\* cleanupRankedQueueArtifacts: abort waiting lobbies, close drafts nobody has entered.
LeaveLobbies(u) ==
    LET mine == {l \in Lobbies : u \in members[l]}
        drafting == {l \in mine : status[l] = "active"}
    IN
    /\ op[u] = "cleaning"
    /\ CancelSearches({u})
    /\ AbortLobbies(mine)
    /\ Tell(UNION {members[l] : l \in drafting}, "idle")
    /\ Step(u, "none")
    /\ left' = left \cup {u}
    /\ UNCHANGED <<flagVars, online, knocking, seen, dropped, jobVars, timer, party, healing>>

-----------------------------------------------------------------------------
(* handleSocketDisconnect, connection and keys that expire *)

\* The last socket closes.  A socket attached to a lobby skips the ranked cleanup.
Disconnect(u) ==
    /\ u \in Droppers \cap online
    /\ online' = online \ {u}
    /\ told' = [told EXCEPT ![u] = "idle"]
    /\ IF InLobby(u)
         THEN UNCHANGED <<cancelled, dropped>>
         ELSE cancelled' = cancelled \cup {u} /\ dropped' = dropped \cup {u}
    /\ UNCHANGED <<queueVars, leaveGuard, inFlight, op, knocking, seen, jobVars, lobbyVars, left>>

CleanupDisconnect(u) ==
    /\ u \in dropped /\ op[u] = "none"
    /\ cancelled' = cancelled \cup {u}
    /\ CancelSearches({u})
    /\ dropped' = dropped \ {u}
    /\ UNCHANGED <<leaveGuard, inFlight, online, op, knocking, seen, jobVars, lobbyVars, told, left>>

\* DISCONNECT_CLEANUP_LOCK_ATTEMPTS times the lock was busy.
GiveUpCleanup(u) ==
    /\ u \in dropped /\ op[u] # "none"
    /\ dropped' = dropped \ {u}
    /\ UNCHANGED <<queueVars, flagVars, online, op, knocking, seen, jobVars, lobbyVars, told, left>>

\* Two members: both players, or one and a bot (bots are not in members).
Full(l) == Cardinality(members[l]) = 2 \/ timer[l] \in {"botSearch", "botFound", "botChecked"}

\* prepareForConnect, the session:state it leads to, and rejoinWaitingLobbyOnConnect.
Connect(u) ==
    LET waiting == WaitingLobbies({u}) IN
    /\ u \in Users \ online /\ op[u] = "none"
    /\ online' = online \cup {u}
    /\ IF InLobby(u) THEN CancelSearches({u}) ELSE UNCHANGED queueVars
    /\ healing' = healing \cup {l \in waiting : Full(l)}
    /\ told' = [told EXCEPT ![u] = IF waiting # {} THEN "found"
                                   ELSE IF InLobby(u) THEN "draft"
                                   ELSE IF userMap[u] # NoSearch THEN "searching" ELSE "idle"]
    /\ UNCHANGED <<flagVars, userVars, jobVars, status, members, timer, party, left>>

\* handleLobbyDisconnect after LOBBY_DISCONNECT_GRACE_MS.
LobbyGrace(u, l) ==
    /\ u \in members[l] \ online /\ status[l] = "waiting"
    /\ IF members[l] = {u} THEN AbortLobbies({l})
       ELSE members' = [members EXCEPT ![l] = @ \ {u}] /\ status' = status
    /\ UNCHANGED <<queueVars, flagVars, online, userVars, jobVars, timer, party, healing, told, left>>

\* deadlineAt passes.
PassDeadline(s) ==
    /\ s \in queue \ due
    /\ due' = due \cup {s}
    /\ UNCHANGED <<queue, userMap, flagVars, online, userVars, jobVars, lobbyVars, told, left>>

\* A pairing or a draft start of this player is still on its way.
Pending(u) == \/ \E t \in Tickers : u \in pair[t]
              \/ \E l \in Lobbies : timer[l] # "none" /\ u \in party[l]

\* LEAVE_GUARD_TTL_SEC; two seconds outlast the leave itself.
ExpireLeaveGuard(u) ==
    /\ u \in leaveGuard /\ op[u] = "none" /\ (SlowClaims \/ ~Unflagged(u))
    /\ leaveGuard' = leaveGuard \ {u}
    /\ UNCHANGED <<queueVars, cancelled, inFlight, online, userVars, jobVars, lobbyVars, told, left>>

\* CANCEL_KEY_TTL_SEC; thirty seconds outlast the leave, a pairing and its 1.2 s draft timer.
ExpireCancel(u) ==
    /\ u \in cancelled /\ op[u] = "none" /\ ~Pending(u)
    /\ cancelled' = cancelled \ {u}
    /\ UNCHANGED <<queueVars, leaveGuard, inFlight, online, userVars, jobVars, lobbyVars, told, left>>

-----------------------------------------------------------------------------
Ticker(t) ==
    \/ StartTick(t) \/ ClaimFallback(t) \/ EndFallbacks(t) \/ PairTwo(t) \/ EndTick(t)
    \/ SetPairingInFlight(t) \/ CheckCancelFlags(t) \/ CheckSockets(t) \/ DropAbsent(t)
    \/ Requeue(t) \/ CheckUsers(t) \/ CheckSession(t) \/ CreateLobby(t) \/ Announce(t)
    \/ ClearPairingInFlight(t) \/ PairingThrows(t)
    \/ BotCheckCancel(t) \/ BotCheckSession(t) \/ BotCheckSocket(t) \/ BotStart(t)
    \/ CreateBotLobby(t) \/ BotThrows(t)

Callbacks(l) == DraftCheckCancel(l) \/ BotCallback(l) \/ StartDraft(l) \/ HealDraft(l) \/ MatchOver(l)

Handlers(u) ==
    \/ RequestJoin(u) \/ RefuseJoin(u) \/ DebounceJoin(u) \/ GiveUpJoin(u) \/ LockJoin(u)
    \/ PrepareJoin(u) \/ Uncancel(u) \/ Resume(u) \/ JoinQueue(u)
    \/ RequestLeave(u) \/ LeaveQueue(u) \/ LeaveLobbies(u)
    \/ Disconnect(u) \/ CleanupDisconnect(u) \/ GiveUpCleanup(u) \/ Connect(u)
    \/ ExpireLeaveGuard(u) \/ ExpireCancel(u)

Next ==
    \/ \E t \in Tickers : Ticker(t)
    \/ \E l \in Lobbies : Callbacks(l)
    \/ \E u \in Users : Handlers(u) \/ \E l \in Lobbies : LobbyGrace(u, l)
    \/ \E s \in Searches : PassDeadline(s)

Spec == Init /\ [][Next]_vars

\* The interval timer fires, a tick's awaits settle, the durable timers fire, clocks advance.
FairSpec ==
    /\ Spec
    /\ \A s \in Searches : WF_vars(PassDeadline(s))
    /\ \A t \in Tickers : WF_vars(Ticker(t))
    /\ \A l \in Lobbies : WF_vars(DraftCheckCancel(l) \/ BotCallback(l) \/ StartDraft(l))

-----------------------------------------------------------------------------
(* Properties *)

\* The user map and the queue never disagree about a mapped search: what the session
\* guard reports as IN_QUEUE is what the pair and fallback scripts can still claim.
MappedSearchesQueued == \A u \in Users : userMap[u] # NoSearch =>
    userMap[u] \in queue /\ Owner(userMap[u]) = u

\* A player is never seated in two ranked lobbies, although a player can be queued
\* while in a lobby and be claimed again (the session check is what stops it).
OneRankedLobby == \A u \in Users : Cardinality({l \in Lobbies : u \in members[l]}) <= 1

\* A player whose leave completed, and who did not join again, is in no draft, wherever
\* in the pairing the leave landed (cancel flags, lobby cleanup and draft-start check).
NoDraftAfterLeave == \A l \in Lobbies : status[l] = "active" => members[l] \cap left = {}

\* A client that shows a search is owed an answer by something: its queued search, a
\* pairing, a lobby that waits for its bot, or a handler of its own.
NoStrandedSearch == \A u \in online : told[u] = "searching" =>
    \/ userMap[u] # NoSearch
    \/ op[u] # "none" \/ u \in knocking
    \/ \E t \in Tickers : u \in pair[t]
    \/ \E l \in Lobbies : timer[l] # "none" /\ u \in party[l]

\* A search is never on while the marker of an earlier leave stands: the next pairing
\* would silently drop a player who came back.
SearchNotCancelled == \A u \in Users :
    userMap[u] # NoSearch /\ op[u] = "none" => u \notin cancelled

\* A lobby never stays in 'waiting' with nothing left to start its draft or to close it.
NoStuckLobby == \A l \in Lobbies : status[l] = "waiting" =>
    \/ timer[l] # "none" \/ l \in healing
    \/ \E t \in Tickers : room[t] = l
    \/ \E u \in members[l] : op[u] # "none" \/ u \in knocking

\* Once players stop leaving, every search leaves the queue: paired, handed to a bot,
\* cancelled or found stale (a crowd that keeps leaving can defer the fallbacks forever).
QueueDrains ==
    (\A u \in Users : <>[](op[u] # "leaving")) => \A s \in Searches : s \in queue ~> s \notin queue
=============================================================================
