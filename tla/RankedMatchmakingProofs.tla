----------------------- MODULE RankedMatchmakingProofs -----------------------
(***************************************************************************)
(* Proofs about RankedMatchmaking, for every set of players, search ids,    *)
(* lobbies and tickers, with re-emitted joins and calls that throw.  What   *)
(* a theorem does not cover is its assumption: ticks that outlive their     *)
(* lock (SeatedOnce), sockets that drop (MarkerCleared, LeaveHonoured).     *)
(***************************************************************************)
EXTENDS RankedMatchmaking, FiniteSetTheorems, TLAPS

Shown == {"idle", "searching", "found", "draft"}

LEMMA OwnerTypes == \A s \in Searches : Owner(s) \in Users
BY DEF Owner, Searches

-----------------------------------------------------------------------------
(* What the shared writes of the handlers do *)

LEMMA TellTypes ==
    ASSUME TypeOK, NEW us, NEW what \in Shown, Tell(us, what)
    PROVE  told' \in [Users -> Shown]
BY DEF Tell, TypeOK, Shown

LEMMA GotoTypes ==
    ASSUME TypeOK, NEW t \in Tickers, NEW s \in Stages, Goto(t, s)
    PROVE  stage' \in [Tickers -> Stages]
BY DEF Goto, TypeOK

LEMMA StepTypes ==
    ASSUME TypeOK, NEW u \in Users, NEW o \in Ops, Step(u, o)
    PROVE  op' \in [Users -> Ops]
BY DEF Step, TypeOK

LEMMA ScheduleTypes ==
    ASSUME TypeOK, NEW l \in Lobbies, NEW callback \in Timers, NEW us \in SUBSET Users,
           Schedule(l, callback, us)
    PROVE  timer' \in [Lobbies -> Timers] /\ party' \in [Lobbies -> SUBSET Users]
BY DEF Schedule, TypeOK

LEMMA AbortTypes ==
    ASSUME TypeOK, NEW ls, AbortLobbies(ls)
    PROVE  /\ status' \in [Lobbies -> {"none", "waiting", "active"}]
           /\ members' \in [Lobbies -> SUBSET Users]
BY DEF AbortLobbies, TypeOK

\* The queue keeps its types, and the user map agrees with it.
QueueTypes ==
    /\ queue \subseteq Searches /\ due \subseteq Searches
    /\ userMap \in [Users -> Searches \cup {NoSearch}]
QueueRight == QueueTypes /\ MappedSearchesQueued

\* The cancel script removes a search from the queue and from the map together.
LEMMA CancelRight ==
    ASSUME QueueRight, NEW us, CancelSearches(us)
    PROVE  QueueRight'
<1> DEFINE gone == {s \in queue : Owner(s) \in us /\ Mapped(s)}
<1>1. /\ queue' = queue \ gone /\ due' = due \ gone
      /\ userMap' = [u \in Users |-> IF \E s \in gone : Owner(s) = u THEN NoSearch ELSE userMap[u]]
  BY DEF CancelSearches
<1>2. QueueTypes'
  BY <1>1 DEF QueueRight, QueueTypes
<1>3. ASSUME NEW u \in Users, userMap'[u] # NoSearch
      PROVE  userMap'[u] \in queue' /\ Owner(userMap'[u]) = u
  <2>1. userMap'[u] = userMap[u] /\ ~\E s \in gone : Owner(s) = u
    BY <1>1, <1>3
  <2>2. userMap[u] \in queue /\ Owner(userMap[u]) = u
    BY <1>3, <2>1 DEF QueueRight, MappedSearchesQueued
  <2> QED BY <1>1, <2>1, <2>2
<1> QED BY <1>2, <1>3 DEF QueueRight, MappedSearchesQueued

\* A new search enters both.
LEMMA EnqueueRight ==
    ASSUME QueueRight, NEW u \in Users, Enqueue(u)
    PROVE  QueueRight'
<1>1. PICK n \in Ids : /\ queue' = queue \cup {<<u, n>>} /\ due' = due
                       /\ userMap' = [userMap EXCEPT ![u] = <<u, n>>]
  BY DEF Enqueue
<1>2. <<u, n>> \in Searches /\ Owner(<<u, n>>) = u
  BY DEF Searches, Owner
<1> HIDE DEF Owner
<1> QED BY <1>1, <1>2 DEF QueueRight, QueueTypes, MappedSearchesQueued

LEMMA ClaimRight ==
    ASSUME TypeOK, QueueRight, NEW t \in Tickers, ClaimFallback(t)
    PROVE  QueueRight'
<1>1. PICK s \in todo[t] :
          /\ queue' = queue \ {s} /\ due' = due \ {s}
          /\ IF s \in queue /\ Mapped(s)
               THEN userMap' = [userMap EXCEPT ![Owner(s)] = NoSearch]
               ELSE userMap' = userMap
  BY DEF ClaimFallback
<1>2. s \in Searches /\ Owner(s) \in Users
  BY OwnerTypes DEF TypeOK
<1>3. QueueTypes'
  BY <1>1, <1>2 DEF QueueRight, QueueTypes
<1>4. ASSUME NEW u \in Users, userMap'[u] # NoSearch
      PROVE  userMap'[u] \in queue' /\ Owner(userMap'[u]) = u
  <2>1. userMap'[u] = userMap[u] /\ (s \in queue /\ Mapped(s) => u # Owner(s))
    BY <1>1, <1>2, <1>4 DEF QueueRight, QueueTypes
  <2>2. userMap[u] \in queue /\ Owner(userMap[u]) = u
    BY <1>4, <2>1 DEF QueueRight, MappedSearchesQueued
  <2>3. userMap[u] # s
    BY <2>1, <2>2 DEF Mapped
  <2> QED BY <1>1, <2>1, <2>2, <2>3
<1> QED BY <1>3, <1>4 DEF QueueRight, MappedSearchesQueued

LEMMA PairRight ==
    ASSUME QueueRight, NEW t \in Tickers, PairTwo(t)
    PROVE  QueueRight'
<1>1. PICK a \in queue, b \in queue :
        \/ /\ Mapped(a) /\ Mapped(b)
           /\ queue' = queue \ {a, b} /\ due' = due \ {a, b}
           /\ userMap' = [userMap EXCEPT ![Owner(a)] = NoSearch, ![Owner(b)] = NoSearch]
        \/ /\ ~Mapped(a)
           /\ queue' = queue \ {a} /\ due' = due \ {a}
           /\ userMap' = userMap
  BY DEF PairTwo
<1>2. Owner(a) \in Users /\ Owner(b) \in Users
  BY OwnerTypes DEF QueueRight, QueueTypes
<1>3. QueueTypes'
  BY <1>1, <1>2 DEF QueueRight, QueueTypes
<1>4. ASSUME NEW u \in Users, userMap'[u] # NoSearch
      PROVE  userMap'[u] \in queue' /\ Owner(userMap'[u]) = u
  <2>1. CASE Mapped(a) /\ Mapped(b) /\ queue' = queue \ {a, b}
             /\ userMap' = [userMap EXCEPT ![Owner(a)] = NoSearch, ![Owner(b)] = NoSearch]
    <3>1. userMap'[u] = userMap[u] /\ u # Owner(a) /\ u # Owner(b)
      BY <1>2, <1>4, <2>1 DEF QueueRight, QueueTypes
    <3>2. userMap[u] \in queue /\ Owner(userMap[u]) = u
      BY <1>4, <3>1 DEF QueueRight, MappedSearchesQueued
    <3> QED BY <2>1, <3>1, <3>2
  <2>2. CASE ~Mapped(a) /\ queue' = queue \ {a} /\ userMap' = userMap
    <3>1. userMap[u] \in queue /\ Owner(userMap[u]) = u
      BY <1>4, <2>2 DEF QueueRight, MappedSearchesQueued
    <3>2. userMap[u] # a
      BY <2>2, <3>1 DEF Mapped
    <3> QED BY <2>2, <3>1, <3>2
  <2> QED BY <1>1, <2>1, <2>2
<1> QED BY <1>3, <1>4 DEF QueueRight, MappedSearchesQueued

\* Only these operations touch the queue; the scripts and the MULTI keep it right, and a
\* resume deletes a mapping only.
LEMMA QueueNext == TypeOK /\ QueueRight /\ [Next]_vars => QueueRight'
<1> SUFFICES ASSUME TypeOK, QueueRight, [Next]_vars PROVE QueueRight'
  OBVIOUS
<1>1. CASE UNCHANGED queueVars
  BY <1>1 DEF queueVars, QueueRight, QueueTypes, MappedSearchesQueued
<1>2. ASSUME NEW t \in Tickers, Ticker(t) PROVE QueueRight'
  <2>1. CASE ClaimFallback(t) \/ PairTwo(t)
    BY <2>1, ClaimRight, PairRight
  <2>2. CASE DropAbsent(t)
    BY <2>2, CancelRight DEF DropAbsent
  <2>3. CASE Requeue(t)
    BY <1>1, <2>3, EnqueueRight DEF Requeue, queueVars, TypeOK
  <2>4. CASE CheckUsers(t)
    BY <1>1, <2>4, CancelRight DEF CheckUsers
  <2> QED BY <1>1, <1>2, <2>1, <2>2, <2>3, <2>4
          DEF Ticker, StartTick, EndFallbacks, EndTick, SetPairingInFlight, CheckCancelFlags,
              CheckSockets, CheckSession, CreateLobby, Announce, ClearPairingInFlight,
              PairingThrows, BotCheckCancel, BotCheckSession, BotCheckSocket, BotStart,
              CreateBotLobby, BotThrows
<1>3. ASSUME NEW l \in Lobbies, Callbacks(l) PROVE QueueRight'
  BY <1>1, <1>3 DEF Callbacks, DraftCheckCancel, BotCallback, StartDraft, HealDraft, MatchOver
<1>4. ASSUME NEW u \in Users, Handlers(u) PROVE QueueRight'
  <2>1. CASE PrepareJoin(u)
    <3>1. UNCHANGED queueVars \/ CancelSearches({u})
      BY <2>1 DEF PrepareJoin
    <3> QED BY <1>1, <3>1, CancelRight
  <2>2. CASE Resume(u)
    <3>1. CASE userMap' = userMap
      BY <1>1, <2>2, <3>1 DEF Resume, queueVars
    <3>2. CASE userMap' = [userMap EXCEPT ![u] = NoSearch]
      BY <2>2, <3>2 DEF Resume, QueueRight, QueueTypes, MappedSearchesQueued
    <3> QED BY <2>2, <3>1, <3>2 DEF Resume
  <2>3. CASE JoinQueue(u)
    BY <2>3, EnqueueRight DEF JoinQueue
  <2>4. CASE LeaveQueue(u) \/ LeaveLobbies(u) \/ CleanupDisconnect(u)
    BY <2>4, CancelRight DEF LeaveQueue, LeaveLobbies, CleanupDisconnect
  <2>5. CASE Connect(u)
    <3>1. UNCHANGED queueVars \/ CancelSearches({u})
      BY <2>5 DEF Connect
    <3> QED BY <1>1, <3>1, CancelRight
  <2> QED BY <1>1, <1>4, <2>1, <2>2, <2>3, <2>4, <2>5
          DEF Handlers, RequestJoin, RefuseJoin, DebounceJoin, GiveUpJoin, LockJoin, Uncancel,
              RequestLeave, Disconnect, GiveUpCleanup, ExpireLeaveGuard, ExpireCancel
<1>5. ASSUME NEW u \in Users, NEW l \in Lobbies, LobbyGrace(u, l) PROVE QueueRight'
  BY <1>1, <1>5 DEF LobbyGrace
<1>6. ASSUME NEW s \in Searches, PassDeadline(s) PROVE QueueRight'
  BY <1>6 DEF PassDeadline, QueueRight, QueueTypes, MappedSearchesQueued
<1>7. CASE UNCHANGED vars
  BY <1>1, <1>7 DEF vars
<1> QED BY <1>2, <1>3, <1>4, <1>5, <1>6, <1>7 DEF Next

-----------------------------------------------------------------------------
(* The types of everything else *)

FlagTypes ==
    /\ cancelled \subseteq Users /\ leaveGuard \subseteq Users /\ inFlight \subseteq Users
    /\ online \subseteq Users /\ left \subseteq Users /\ told \in [Users -> Shown]
UserTypes ==
    /\ op \in [Users -> Ops] /\ knocking \subseteq Users /\ dropped \subseteq Users
    /\ seen \in [Users -> Searches \cup {NoSearch}]
JobTypes ==
    /\ stage \in [Tickers -> Stages]
    /\ pair \in [Tickers -> SUBSET Users] /\ present \in [Tickers -> SUBSET Users]
    /\ todo \in [Tickers -> SUBSET Searches]
    /\ room \in [Tickers -> Lobbies \cup {NoLobby}]
LobbyTypes ==
    /\ status \in [Lobbies -> {"none", "waiting", "active"}]
    /\ members \in [Lobbies -> SUBSET Users] /\ party \in [Lobbies -> SUBSET Users]
    /\ timer \in [Lobbies -> Timers]
    /\ healing \subseteq Lobbies
RestTypes == FlagTypes /\ UserTypes /\ JobTypes /\ LobbyTypes

LEMMA TypeParts == TypeOK <=> QueueTypes /\ RestTypes
BY DEF TypeOK, QueueTypes, RestTypes, FlagTypes, UserTypes, JobTypes, LobbyTypes, Shown

LEMMA TypeInit == Init => TypeOK /\ QueueRight
BY DEF Init, TypeOK, QueueRight, QueueTypes, MappedSearchesQueued, Ops, Stages, Timers

\* A step of a tick is a step within it.
LEMMA TickerTypes ==
    ASSUME TypeOK, NEW t \in Tickers, Ticker(t)
    PROVE  RestTypes'
<1> USE GotoTypes, TellTypes DEF Stages, PairStages, BotStages, Shown
<1>0. RestTypes BY TypeParts
<1>u. (UNCHANGED userVars => UserTypes') /\ (UNCHANGED lobbyVars => LobbyTypes')
  BY <1>0 DEF RestTypes, UserTypes, LobbyTypes, userVars, lobbyVars
<1>1. UserTypes'
  BY <1>u DEF Ticker, StartTick, ClaimFallback, EndFallbacks, PairTwo, EndTick, SetPairingInFlight,
     CheckCancelFlags, CheckSockets, DropAbsent, Requeue, CheckUsers, CheckSession, CreateLobby,
     Announce, ClearPairingInFlight, PairingThrows, BotCheckCancel, BotCheckSession,
     BotCheckSocket, BotStart, CreateBotLobby, BotThrows
<1>2. LobbyTypes'
  <2>1. CASE CreateLobby(t)
    BY <1>0, <2>1 DEF CreateLobby, RestTypes, LobbyTypes, JobTypes
  <2>2. CASE Announce(t)
    <3>1. timer' \in [Lobbies -> Timers] /\ party' \in [Lobbies -> SUBSET Users]
      BY <1>0, <2>2 DEF Announce, Schedule, RestTypes, LobbyTypes, JobTypes, Timers
    <3> QED BY <1>0, <2>2, <3>1 DEF Announce, RestTypes, LobbyTypes
  <2>3. CASE CreateBotLobby(t)
    <3>1. CASE UNCHANGED lobbyVars BY <1>u, <3>1
    <3>2. CASE \E l \in Lobbies :
                /\ status' = [status EXCEPT ![l] = "waiting"]
                /\ members' = [members EXCEPT ![l] = pair[t]]
                /\ Schedule(l, "botSearch", pair[t])
                /\ healing' = healing
      BY <1>0, <3>2 DEF Schedule, RestTypes, LobbyTypes, JobTypes, Timers
    <3> QED BY <2>3, <3>1, <3>2 DEF CreateBotLobby
  <2> QED BY <1>u, <2>1, <2>2, <2>3
       DEF Ticker, StartTick, ClaimFallback, EndFallbacks, PairTwo, EndTick, SetPairingInFlight,
           CheckCancelFlags, CheckSockets, DropAbsent, Requeue, CheckUsers, CheckSession,
           ClearPairingInFlight, PairingThrows, BotCheckCancel, BotCheckSession,
           BotCheckSocket, BotStart, BotThrows
<1>3. FlagTypes' /\ JobTypes'
  <2> USE <1>0 DEF RestTypes, FlagTypes, JobTypes, flagVars, jobVars
  <2>n. ASSUME NextFallback(t)
        PROVE  stage' \in [Tickers -> Stages] /\ pair' \in [Tickers -> SUBSET Users]
    BY <2>n DEF NextFallback
  <2>1. CASE StartTick(t)
    <3>1. todo' \in [Tickers -> SUBSET Searches]
      BY <2>1 DEF StartTick, TypeOK
    <3> QED BY <2>1, <3>1 DEF StartTick
  <2>2. CASE ClaimFallback(t)
    <3>1. todo' \in [Tickers -> SUBSET Searches]
      BY <2>2 DEF ClaimFallback
    <3>2. stage' \in [Tickers -> Stages]
      BY <2>2 DEF ClaimFallback
    <3>3. pair' \in [Tickers -> SUBSET Users]
      BY <2>2, OwnerTypes DEF ClaimFallback
    <3> QED BY <2>2, <3>1, <3>2, <3>3 DEF ClaimFallback
  <2>3. CASE EndFallbacks(t) \/ EndTick(t)
    BY <2>3 DEF EndFallbacks, EndTick
  <2>4. CASE PairTwo(t)
    <3>1. stage' \in [Tickers -> Stages]
      BY <2>4 DEF PairTwo
    <3>2. pair' \in [Tickers -> SUBSET Users]
      BY <2>4, OwnerTypes DEF PairTwo, TypeOK
    <3> QED BY <2>4, <3>1, <3>2 DEF PairTwo
  <2>5. CASE SetPairingInFlight(t)
    BY <2>5 DEF SetPairingInFlight
  <2>6. CASE CheckCancelFlags(t)
    <3>1. stage' \in [Tickers -> Stages] /\ told' \in [Users -> Shown]
      BY <2>6 DEF CheckCancelFlags, ReleaseUncancelled
    <3> QED BY <2>6, <3>1 DEF CheckCancelFlags
  <2>7. CASE CheckSockets(t)
    <3>1. stage' \in [Tickers -> Stages] /\ present' \in [Tickers -> SUBSET Users]
      BY <2>7 DEF CheckSockets
    <3> QED BY <2>7, <3>1 DEF CheckSockets
  <2>8. CASE DropAbsent(t)
    BY <2>8 DEF DropAbsent
  <2>9. CASE Requeue(t)
    <3>1. told' \in [Users -> Shown] /\ present' \in [Tickers -> SUBSET Users]
      BY <2>9 DEF Requeue
    <3> QED BY <2>9, <3>1 DEF Requeue
  <2>10. CASE CheckUsers(t)
    <3>1. stage' \in [Tickers -> Stages] /\ told' \in [Users -> Shown]
      BY <2>10 DEF CheckUsers
    <3> QED BY <2>10, <3>1 DEF CheckUsers
  <2>11. CASE CheckSession(t)
    <3>1. stage' \in [Tickers -> Stages]
      BY <2>11 DEF CheckSession
    <3> QED BY <2>11, <3>1 DEF CheckSession
  <2>12. CASE CreateLobby(t)
    BY <2>12 DEF CreateLobby
  <2>13. CASE Announce(t)
    BY <2>13 DEF Announce
  <2>14. CASE ClearPairingInFlight(t)
    BY <2>14 DEF ClearPairingInFlight
  <2>15. CASE PairingThrows(t)
    BY <2>15 DEF PairingThrows
  <2>16. CASE BotCheckCancel(t) \/ BotCheckSession(t) \/ BotStart(t)
    <3>1. stage' \in [Tickers -> Stages] /\ pair' \in [Tickers -> SUBSET Users]
      BY <2>16, <2>n DEF BotCheckCancel, BotCheckSession, BotStart
    <3> QED BY <2>16, <3>1 DEF BotCheckCancel, BotCheckSession, BotStart
  <2>17. CASE BotCheckSocket(t)
    <3>1. stage' \in [Tickers -> Stages] /\ pair' \in [Tickers -> SUBSET Users]
      BY <2>17, <2>n DEF BotCheckSocket
    <3>2. told' \in [Users -> Shown]
      BY <2>17 DEF BotCheckSocket
    <3> QED BY <2>17, <3>1, <3>2 DEF BotCheckSocket
  <2>18. CASE CreateBotLobby(t) \/ BotThrows(t)
    <3>1. stage' \in [Tickers -> Stages] /\ pair' \in [Tickers -> SUBSET Users]
      BY <2>18, <2>n DEF CreateBotLobby, BotThrows
    <3>2. told' \in [Users -> Shown]
      BY <2>18 DEF CreateBotLobby, BotThrows
    <3> QED BY <2>18, <3>1, <3>2 DEF CreateBotLobby, BotThrows
  <2> QED BY <2>1, <2>2, <2>3, <2>4, <2>5, <2>6, <2>7, <2>8, <2>9, <2>10, <2>11, <2>12, <2>13,
             <2>14, <2>15, <2>16, <2>17, <2>18 DEF Ticker
<1> QED BY <1>1, <1>2, <1>3 DEF RestTypes

LEMMA CallbackTypes ==
    ASSUME TypeOK, NEW l \in Lobbies, Callbacks(l)
    PROVE  RestTypes'
<1> USE TellTypes, AbortTypes DEF Shown, Timers
<1>0. RestTypes BY TypeParts
<1>1. UserTypes' /\ JobTypes'
  BY <1>0 DEF Callbacks, DraftCheckCancel, BotCallback, StartDraft, HealDraft, MatchOver, RestTypes,
              UserTypes, JobTypes, userVars, jobVars
<1>a. ASSUME Activate(l)
      PROVE  status' \in [Lobbies -> {"none", "waiting", "active"}] /\ told' \in [Users -> Shown]
  BY <1>0, <1>a DEF Activate, RestTypes, LobbyTypes, FlagTypes
<1>2. told' \in [Users -> Shown]
  BY <1>0, <1>a DEF Callbacks, DraftCheckCancel, BotCallback, StartDraft, HealDraft, MatchOver,
     RestTypes, FlagTypes
<1>3. FlagTypes'
  BY <1>0, <1>2 DEF Callbacks, DraftCheckCancel, BotCallback, StartDraft, HealDraft, MatchOver,
     RestTypes, FlagTypes, flagVars
<1>4. timer' \in [Lobbies -> Timers]
  BY <1>0 DEF Callbacks, DraftCheckCancel, BotCallback, StartDraft, HealDraft, MatchOver,
     RestTypes, LobbyTypes
<1>5. /\ status' \in [Lobbies -> {"none", "waiting", "active"}]
      /\ members' \in [Lobbies -> SUBSET Users]
  BY <1>0, <1>a DEF Callbacks, DraftCheckCancel, BotCallback, StartDraft, HealDraft, MatchOver,
     RestTypes, LobbyTypes
<1>6. LobbyTypes'
  BY <1>0, <1>4, <1>5 DEF Callbacks, DraftCheckCancel, BotCallback, StartDraft, HealDraft,
     MatchOver, RestTypes, LobbyTypes
<1> QED BY <1>1, <1>3, <1>6 DEF RestTypes

LEMMA HandlerTypes ==
    ASSUME TypeOK, NEW u \in Users, Handlers(u)
    PROVE  RestTypes'
<1> USE TellTypes, StepTypes, AbortTypes DEF Shown, Ops
<1>0. RestTypes BY TypeParts
<1>1. JobTypes'
  BY <1>0 DEF Handlers, RequestJoin, RefuseJoin, DebounceJoin, GiveUpJoin, LockJoin, PrepareJoin,
     Uncancel, Resume, JoinQueue, RequestLeave, LeaveQueue, LeaveLobbies, Disconnect,
     CleanupDisconnect, GiveUpCleanup, Connect, ExpireLeaveGuard, ExpireCancel, RestTypes,
     JobTypes, jobVars
<1> USE <1>0 DEF RestTypes, FlagTypes, UserTypes, LobbyTypes, flagVars, userVars, lobbyVars
<1>2. CASE RequestJoin(u) \/ RefuseJoin(u) \/ DebounceJoin(u) \/ GiveUpJoin(u)
  BY <1>1, <1>2 DEF RequestJoin, RefuseJoin, DebounceJoin, GiveUpJoin
<1>3. CASE LockJoin(u)
  <2>1. op' \in [Users -> Ops] /\ told' \in [Users -> Shown]
    BY <1>3 DEF LockJoin
  <2> QED BY <1>1, <1>3, <2>1 DEF LockJoin
<1>4. CASE PrepareJoin(u)
  <2>1. op' \in [Users -> Ops]
    BY <1>4 DEF PrepareJoin
  <2>2. /\ status' \in [Lobbies -> {"none", "waiting", "active"}]
        /\ members' \in [Lobbies -> SUBSET Users]
    BY <1>4 DEF PrepareJoin
  <2> QED BY <1>1, <1>4, <2>1, <2>2 DEF PrepareJoin
<1>5. CASE Uncancel(u)
  <2>1. op' \in [Users -> Ops]
    BY <1>5 DEF Uncancel
  <2>2. seen' \in [Users -> Searches \cup {NoSearch}]
    BY <1>5 DEF Uncancel, TypeOK
  <2> QED BY <1>1, <1>5, <2>1, <2>2 DEF Uncancel
<1>6. CASE Resume(u)
  <2>1. op' \in [Users -> Ops] /\ told' \in [Users -> Shown]
    BY <1>6 DEF Resume
  <2> QED BY <1>1, <1>6, <2>1 DEF Resume
<1>7. CASE JoinQueue(u) \/ RequestLeave(u) \/ LeaveQueue(u)
  BY <1>1, <1>7 DEF JoinQueue, RequestLeave, LeaveQueue
<1>8. CASE LeaveLobbies(u)
  BY <1>1, <1>8 DEF LeaveLobbies
<1>9. CASE Disconnect(u)
  <2>1. told' \in [Users -> Shown] /\ online' \subseteq Users
    BY <1>9 DEF Disconnect
  <2> QED BY <1>1, <1>9, <2>1 DEF Disconnect
<1>10. CASE CleanupDisconnect(u) \/ GiveUpCleanup(u) \/ ExpireLeaveGuard(u) \/ ExpireCancel(u)
  BY <1>1, <1>10 DEF CleanupDisconnect, GiveUpCleanup, ExpireLeaveGuard, ExpireCancel
<1>11. CASE Connect(u)
  <2>1. told' \in [Users -> Shown] /\ online' \subseteq Users
    BY <1>11 DEF Connect
  <2>2. healing' \subseteq Lobbies
    BY <1>11 DEF Connect, WaitingLobbies
  <2> QED BY <1>1, <1>11, <2>1, <2>2 DEF Connect
<1> QED BY <1>2, <1>3, <1>4, <1>5, <1>6, <1>7, <1>8, <1>9, <1>10, <1>11 DEF Handlers

LEMMA RestNext == TypeOK /\ [Next]_vars => RestTypes'
<1> SUFFICES ASSUME TypeOK, [Next]_vars PROVE RestTypes'
  OBVIOUS
<1>0. RestTypes BY TypeParts
<1> USE <1>0 DEF RestTypes, FlagTypes, UserTypes, JobTypes, LobbyTypes, flagVars, userVars, jobVars,
            lobbyVars
<1>1. ASSUME NEW u \in Users, NEW l \in Lobbies, LobbyGrace(u, l) PROVE RestTypes'
  <2>1. /\ status' \in [Lobbies -> {"none", "waiting", "active"}]
        /\ members' \in [Lobbies -> SUBSET Users]
    BY <1>1, AbortTypes DEF LobbyGrace
  <2> QED BY <1>1, <2>1 DEF LobbyGrace
<1>2. ASSUME NEW s \in Searches, PassDeadline(s) PROVE RestTypes'
  BY <1>2 DEF PassDeadline
<1>3. CASE UNCHANGED vars
  BY <1>3 DEF vars
<1> QED BY <1>1, <1>2, <1>3, TickerTypes, CallbackTypes, HandlerTypes DEF Next

LEMMA QueueInductive == Spec => [](TypeOK /\ QueueRight)
<1>1. TypeOK' <=> QueueTypes' /\ RestTypes'
  BY TypeParts, PTL
<1>2. QueueRight' => QueueTypes'
  BY DEF QueueRight
<1>3. TypeOK /\ QueueRight /\ [Next]_vars => TypeOK' /\ QueueRight'
  BY QueueNext, RestNext, <1>1, <1>2
<1> QED BY <1>3, TypeInit, PTL DEF Spec

\* The types hold in every reachable state, whatever the constants and the switches.
THEOREM TypeCorrect == Spec => []TypeOK
BY QueueInductive, PTL

\* What the user map says of a player is in the queue and the player's own, through
\* claims, requeues, resumes and cancels of ticks and handlers that overlap.
THEOREM MapAgrees == Spec => []MappedSearchesQueued
<1>1. QueueRight => MappedSearchesQueued BY DEF QueueRight
<1> QED BY QueueInductive, <1>1, PTL

-----------------------------------------------------------------------------
(* One seat for each player, while a tick never outlives its lock *)

\* At most one tick is on: the tick lock.
AloneTick == \A t, o \in Tickers : stage[t] # "idle" /\ stage[o] # "idle" => t = o

\* Between the session check and the lobby, whom the tick claimed is in no lobby.
SeatStages == {"socket2", "lobby", "botSocket", "botStart", "botLobby"}
Seatless == \A t \in Tickers : stage[t] \in SeatStages => \A u \in pair[t] : ~InLobby(u)

OneSeat == \A u \in Users : \A l, k \in Lobbies : u \in members[l] /\ u \in members[k] => l = k

SeatInv == AloneTick /\ Seatless /\ OneSeat

\* A step that leaves the ticks alone and seats nobody.
LEMMA SeatFrame ==
    ASSUME SeatInv, stage' = stage, pair' = pair,
           \A l \in Lobbies : members'[l] \subseteq members[l]
    PROVE  SeatInv'
BY DEF SeatInv, AloneTick, Seatless, OneSeat, InLobby

\* A callback or a handler, a lobby's grace and a clock are such steps.
LEMMA AbortShrinks ==
    ASSUME TypeOK, NEW ls, AbortLobbies(ls)
    PROVE  \A l \in Lobbies : members'[l] \subseteq members[l]
BY DEF AbortLobbies, TypeOK

LEMMA OthersSeatNobody ==
    ASSUME TypeOK,
           \/ \E l \in Lobbies : Callbacks(l)
           \/ \E u \in Users : Handlers(u) \/ \E l \in Lobbies : LobbyGrace(u, l)
           \/ \E s \in Searches : PassDeadline(s)
           \/ UNCHANGED vars
    PROVE  stage' = stage /\ pair' = pair /\ \A l \in Lobbies : members'[l] \subseteq members[l]
<1> USE AbortShrinks
<1>1. ASSUME NEW l \in Lobbies, Callbacks(l)
      PROVE  stage' = stage /\ pair' = pair /\ \A k \in Lobbies : members'[k] \subseteq members[k]
  BY <1>1 DEF Callbacks, DraftCheckCancel, BotCallback, StartDraft, HealDraft, MatchOver, jobVars
<1>2. ASSUME NEW u \in Users, Handlers(u)
      PROVE  stage' = stage /\ pair' = pair /\ \A k \in Lobbies : members'[k] \subseteq members[k]
  <2>1. CASE PrepareJoin(u) \/ LeaveLobbies(u)
    BY <2>1 DEF PrepareJoin, LeaveLobbies, jobVars
  <2>2. CASE ~(PrepareJoin(u) \/ LeaveLobbies(u))
    BY <1>2, <2>2 DEF Handlers, RequestJoin, RefuseJoin, DebounceJoin, GiveUpJoin, LockJoin,
       Uncancel, Resume, JoinQueue, RequestLeave, LeaveQueue, Disconnect, CleanupDisconnect,
       GiveUpCleanup, Connect, ExpireLeaveGuard, ExpireCancel, jobVars, lobbyVars
  <2> QED BY <2>1, <2>2
<1>3. ASSUME NEW u \in Users, NEW l \in Lobbies, LobbyGrace(u, l)
      PROVE  stage' = stage /\ pair' = pair /\ \A k \in Lobbies : members'[k] \subseteq members[k]
  <2>1. CASE AbortLobbies({l})
    BY <1>3, <2>1 DEF LobbyGrace, jobVars
  <2>2. CASE members' = [members EXCEPT ![l] = @ \ {u}]
    BY <1>3, <2>2 DEF LobbyGrace, jobVars, TypeOK
  <2> QED BY <1>3, <2>1, <2>2 DEF LobbyGrace
<1>4. ASSUME NEW s \in Searches, PassDeadline(s)
      PROVE  stage' = stage /\ pair' = pair /\ members' = members
  BY <1>4 DEF PassDeadline, jobVars, lobbyVars
<1>5. CASE UNCHANGED vars
  BY <1>5 DEF vars, jobVars, lobbyVars
<1> QED BY <1>1, <1>2, <1>3, <1>4, <1>5

\* A tick moves only itself, and one that starts finds the others idle.
LEMMA TickMoves ==
    ASSUME TypeOK, ~LockLapses, NEW t \in Tickers, Ticker(t)
    PROVE  /\ \A o \in Tickers \ {t} : stage'[o] = stage[o]
           /\ stage[t] # "idle" \/ \A o \in Tickers : stage[o] = "idle"
<1> USE DEF TypeOK, Goto, NextFallback, PairStages, BotStages
<1>1. CASE StartTick(t) BY <1>1 DEF StartTick
<1>2. CASE ClaimFallback(t) BY <1>2 DEF ClaimFallback
<1>3. CASE EndFallbacks(t) \/ EndTick(t) BY <1>3 DEF EndFallbacks, EndTick
<1>4. CASE PairTwo(t) BY <1>4 DEF PairTwo
<1>5. CASE SetPairingInFlight(t) \/ CheckCancelFlags(t) \/ CheckSockets(t) \/ DropAbsent(t)
  BY <1>5 DEF SetPairingInFlight, CheckCancelFlags, CheckSockets, DropAbsent
<1>6. CASE Requeue(t) \/ CheckUsers(t) \/ CheckSession(t)
  BY <1>6 DEF Requeue, CheckUsers, CheckSession
<1>7. CASE CreateLobby(t) \/ Announce(t) \/ ClearPairingInFlight(t) \/ PairingThrows(t)
  BY <1>7 DEF CreateLobby, Announce, ClearPairingInFlight, PairingThrows
<1>8. CASE BotCheckCancel(t) \/ BotCheckSession(t) \/ BotCheckSocket(t) \/ BotStart(t)
  BY <1>8 DEF BotCheckCancel, BotCheckSession, BotCheckSocket, BotStart
<1>9. CASE CreateBotLobby(t) \/ BotThrows(t)
  BY <1>9 DEF CreateBotLobby, BotThrows
<1> QED BY <1>1, <1>2, <1>3, <1>4, <1>5, <1>6, <1>7, <1>8, <1>9 DEF Ticker

\* The tick reaches a seating stage only past the session check, with the same players.
LEMMA SeatStageReached ==
    ASSUME TypeOK, NEW t \in Tickers, Ticker(t), stage'[t] \in SeatStages
    PROVE  /\ pair'[t] = pair[t] /\ members' = members
           /\ stage[t] \in SeatStages \/ \A u \in pair[t] : ~InLobby(u)
<1> USE DEF TypeOK, Goto, SeatStages, lobbyVars
<1>n. ~NextFallback(t) BY DEF NextFallback
<1>1. CASE StartTick(t) BY <1>1 DEF StartTick
<1>2. CASE ClaimFallback(t)
  <2>1. stage'[t] \in {"botCancel", "claims"} BY <1>2 DEF ClaimFallback
  <2> QED BY <2>1
<1>3. CASE EndFallbacks(t) \/ EndTick(t) BY <1>3 DEF EndFallbacks, EndTick
<1>4. CASE PairTwo(t)
  <2>1. stage'[t] \in {"flag", "idle"} BY <1>4 DEF PairTwo
  <2> QED BY <2>1
<1>5. CASE SetPairingInFlight(t) BY <1>5 DEF SetPairingInFlight
<1>6. CASE CheckCancelFlags(t) BY <1>6 DEF CheckCancelFlags
<1>7. CASE CheckSockets(t) BY <1>7 DEF CheckSockets
<1>8. CASE DropAbsent(t) BY <1>8 DEF DropAbsent
<1>9. CASE Requeue(t) BY <1>9 DEF Requeue
<1>10. CASE CheckUsers(t) BY <1>10 DEF CheckUsers
<1>11. CASE CheckSession(t) BY <1>11 DEF CheckSession, SessionBlocked
<1>12. CASE CreateLobby(t) BY <1>12 DEF CreateLobby
<1>13. CASE Announce(t) BY <1>13 DEF Announce
<1>14. CASE ClearPairingInFlight(t) BY <1>14 DEF ClearPairingInFlight
<1>15. CASE PairingThrows(t) BY <1>15 DEF PairingThrows
<1>16. CASE BotCheckCancel(t) BY <1>16, <1>n DEF BotCheckCancel
<1>17. CASE BotCheckSession(t) BY <1>17, <1>n DEF BotCheckSession, SessionBlocked
<1>18. CASE BotCheckSocket(t) BY <1>18, <1>n DEF BotCheckSocket
<1>19. CASE BotStart(t) BY <1>19, <1>n DEF BotStart
<1>20. CASE CreateBotLobby(t) BY <1>20, <1>n DEF CreateBotLobby
<1>21. CASE BotThrows(t) BY <1>21, <1>n DEF BotThrows
<1> QED BY <1>1, <1>2, <1>3, <1>4, <1>5, <1>6, <1>7, <1>8, <1>9, <1>10, <1>11, <1>12, <1>13,
           <1>14, <1>15, <1>16, <1>17, <1>18, <1>19, <1>20, <1>21 DEF Ticker

\* Only a tick at its lobby stage seats players, in one lobby.
LEMMA Seating ==
    ASSUME TypeOK, NEW t \in Tickers, Ticker(t)
    PROVE  \/ members' = members
           \/ /\ stage[t] \in SeatStages
              /\ \E l \in Lobbies : members' = [members EXCEPT ![l] = pair[t]]
<1>1. CASE CreateLobby(t) BY <1>1 DEF CreateLobby, SeatStages
<1>2. CASE CreateBotLobby(t) BY <1>2 DEF CreateBotLobby, SeatStages, lobbyVars
<1> QED BY <1>1, <1>2
    DEF Ticker, StartTick, ClaimFallback, EndFallbacks, PairTwo, EndTick, SetPairingInFlight,
        CheckCancelFlags, CheckSockets, DropAbsent, Requeue, CheckUsers, CheckSession, Announce,
        ClearPairingInFlight, PairingThrows, BotCheckCancel, BotCheckSession, BotCheckSocket,
        BotStart, BotThrows, lobbyVars

LEMMA TickSeats ==
    ASSUME TypeOK, SeatInv, ~LockLapses, NEW t \in Tickers, Ticker(t)
    PROVE  SeatInv'
<1>1. \A o \in Tickers \ {t} : stage[o] = "idle" /\ stage'[o] = "idle"
  BY TickMoves DEF SeatInv, AloneTick
<1>2. AloneTick'
  BY <1>1 DEF AloneTick
<1>3. Seatless'
  <2>1. ASSUME NEW o \in Tickers, stage'[o] \in SeatStages
        PROVE  o = t
    BY <1>1, <2>1 DEF SeatStages
  <2>2. ASSUME stage'[t] \in SeatStages
        PROVE  \A u \in pair'[t] : ~InLobby(u)'
    BY <2>2, SeatStageReached DEF SeatInv, Seatless, InLobby
  <2> QED BY <2>1, <2>2 DEF Seatless
<1>4. OneSeat'
  <2>1. CASE members' = members
    BY <2>1 DEF SeatInv, OneSeat
  <2>2. ASSUME NEW l \in Lobbies, stage[t] \in SeatStages,
               members' = [members EXCEPT ![l] = pair[t]]
        PROVE  OneSeat'
    <3>1. \A u \in pair[t] : \A k \in Lobbies : u \notin members[k]
      BY <2>2 DEF SeatInv, Seatless, InLobby
    <3>2. \A k \in Lobbies : members'[k] = IF k = l THEN pair[t] ELSE members[k]
      BY <2>2 DEF TypeOK
    <3> QED BY <3>1, <3>2 DEF SeatInv, OneSeat
  <2> QED BY <2>1, <2>2, Seating
<1> QED BY <1>2, <1>3, <1>4 DEF SeatInv

\* Nobody sits in two ranked lobbies: the session check right before the lobby is what
\* keeps it so, though a player can be queued while in a lobby, and the tick lock is
\* what makes that check enough.
THEOREM SeatedOnce == ASSUME ~LockLapses PROVE Spec => []OneRankedLobby
<1>1. Init => SeatInv
  BY DEF Init, SeatInv, AloneTick, Seatless, OneSeat, SeatStages
<1>2. TypeOK /\ SeatInv /\ [Next]_vars => SeatInv'
  <2> SUFFICES ASSUME TypeOK, SeatInv, [Next]_vars PROVE SeatInv'
    OBVIOUS
  <2>1. CASE \E t \in Tickers : Ticker(t)
    BY <2>1, TickSeats
  <2>2. CASE ~ \E t \in Tickers : Ticker(t)
    BY <2>2, OthersSeatNobody, SeatFrame DEF Next
  <2> QED BY <2>1, <2>2
<1>3. SeatInv => OneRankedLobby
  <2> SUFFICES ASSUME SeatInv, NEW u \in Users
               PROVE  Cardinality({l \in Lobbies : u \in members[l]}) <= 1
    BY DEF OneRankedLobby
  <2> DEFINE seats == {l \in Lobbies : u \in members[l]}
  <2>1. CASE seats = {}
    BY <2>1, FS_EmptySet
  <2>2. ASSUME NEW k \in seats
        PROVE  Cardinality(seats) = 1
    <3>1. seats = {k}
      BY DEF SeatInv, OneSeat
    <3> HIDE DEF seats
    <3> QED BY <3>1, FS_Singleton
  <2>3. Cardinality(seats) = 0 \/ Cardinality(seats) = 1
    <3> HIDE DEF seats
    <3> QED BY <2>1, <2>2, FS_EmptySet
  <2> QED BY <2>3
<1> QED BY <1>1, <1>2, <1>3, TypeCorrect, PTL DEF Spec

-----------------------------------------------------------------------------
(* A leave is honoured, while sockets stay up *)

\* Nothing is requeued behind a player's back: no socket drops.
Calm == online = Users /\ healing = {} /\ dropped = {} /\ \A t \in Tickers : present[t] = {}

\* Neither a search of the player nor a join that is about to write one.
Out(u) == userMap[u] = NoSearch /\ op[u] \notin {"resume", "enqueue"}

\* The marker stands throughout a leave, and from LeaveQueue on the player is out.
Marked ==
    /\ \A u \in Users : op[u] \in {"leaving", "cleaning"} => u \in cancelled
    /\ \A u \in cancelled : op[u] = "leaving" \/ Out(u)
    /\ \A u \in left : Out(u)

LeaveInv == Calm /\ Marked

LEMMA CancelClears ==
    ASSUME QueueRight, NEW us, NEW u \in us, CancelSearches(us), u \in Users
    PROVE  userMap'[u] = NoSearch
BY DEF CancelSearches, QueueRight, QueueTypes, MappedSearchesQueued, Mapped

LEMMA CancelOnly ==
    ASSUME QueueRight, NEW us, CancelSearches(us)
    PROVE  \A u \in Users : userMap'[u] \in {userMap[u], NoSearch}
BY DEF CancelSearches, QueueRight, QueueTypes

\* A step after which nobody's marker, handler or leave changed and no search was added.
LEMMA LeaveFrame ==
    ASSUME LeaveInv, TypeOK, online' = online, healing' \subseteq healing, dropped' = dropped,
           \A t \in Tickers : present'[t] = {},
           op' = op, cancelled' = cancelled, left' = left,
           \A u \in Users : userMap'[u] \in {userMap[u], NoSearch}
    PROVE  LeaveInv'
BY DEF LeaveInv, Calm, Marked, Out, TypeOK

LEMMA TickLeaves ==
    ASSUME TypeOK, QueueRight, LeaveInv, NEW t \in Tickers, Ticker(t)
    PROVE  LeaveInv'
<1>1. /\ online' = online /\ dropped' = dropped /\ op' = op /\ cancelled' = cancelled
      /\ left' = left /\ healing' = healing
  BY DEF Ticker, StartTick, ClaimFallback, EndFallbacks, PairTwo, EndTick, SetPairingInFlight,
     CheckCancelFlags, CheckSockets, DropAbsent, Requeue, CheckUsers, CheckSession, CreateLobby,
     Announce, ClearPairingInFlight, PairingThrows, BotCheckCancel, BotCheckSession,
     BotCheckSocket, BotStart, CreateBotLobby, BotThrows, userVars, flagVars, lobbyVars
<1>2. \A o \in Tickers : present'[o] = {}
  <2> USE DEF LeaveInv, Calm, TypeOK
  <2>1. CASE CheckSockets(t)
    <3>1. pair[t] \subseteq online BY DEF TypeOK
    <3> QED BY <2>1, <3>1 DEF CheckSockets
  <2>2. CASE Requeue(t) \/ PairingThrows(t) BY <2>2 DEF Requeue, PairingThrows
  <2>3. CASE ~(CheckSockets(t) \/ Requeue(t) \/ PairingThrows(t))
    BY <2>3 DEF Ticker, StartTick, ClaimFallback, EndFallbacks, PairTwo, EndTick,
       SetPairingInFlight, CheckCancelFlags, DropAbsent, CheckUsers, CheckSession, CreateLobby,
       Announce, ClearPairingInFlight, BotCheckCancel, BotCheckSession,
       BotCheckSocket, BotStart, CreateBotLobby, BotThrows
  <2> QED BY <2>1, <2>2, <2>3
<1>3. \A u \in Users : userMap'[u] \in {userMap[u], NoSearch}
  <2>1. CASE ClaimFallback(t) BY <2>1 DEF ClaimFallback, TypeOK
  <2>2. CASE PairTwo(t) BY <2>2 DEF PairTwo, TypeOK
  <2>3. CASE DropAbsent(t) BY <2>3, CancelOnly DEF DropAbsent
  <2>4. CASE Requeue(t) BY <2>4 DEF Requeue, LeaveInv, Calm, queueVars
  <2>5. CASE CheckUsers(t) BY <2>5, CancelOnly DEF CheckUsers, queueVars
  <2>6. CASE ~(\/ ClaimFallback(t) \/ PairTwo(t) \/ DropAbsent(t) \/ Requeue(t) \/ CheckUsers(t))
    BY <2>6 DEF Ticker, StartTick, EndFallbacks, EndTick, SetPairingInFlight, CheckCancelFlags,
       CheckSockets, CheckSession, CreateLobby, Announce, ClearPairingInFlight, PairingThrows,
       BotCheckCancel, BotCheckSession, BotCheckSocket, BotStart, CreateBotLobby, BotThrows,
       queueVars
  <2> QED BY <2>1, <2>2, <2>3, <2>4, <2>5, <2>6
<1> QED BY <1>1, <1>2, <1>3, LeaveFrame

LEMMA HandlerLeaves ==
    ASSUME TypeOK, QueueRight, LeaveInv, Droppers = {}, NEW u \in Users, Handlers(u)
    PROVE  LeaveInv'
<1>1. Calm'
  BY DEF LeaveInv, Calm, Handlers, RequestJoin, RefuseJoin, DebounceJoin, GiveUpJoin, LockJoin,
     PrepareJoin, Uncancel, Resume, JoinQueue, RequestLeave, LeaveQueue, LeaveLobbies, Disconnect,
     CleanupDisconnect, GiveUpCleanup, Connect, ExpireLeaveGuard, ExpireCancel, jobVars,
     lobbyVars, userVars
<1>2. Marked'
  <2> USE DEF LeaveInv, Calm, Marked, Out, Step, TypeOK, queueVars, flagVars, userVars
  <2>1. CASE RequestJoin(u) \/ RefuseJoin(u) \/ DebounceJoin(u) \/ GiveUpJoin(u)
    BY <2>1 DEF RequestJoin, RefuseJoin, DebounceJoin, GiveUpJoin
  <2>2. CASE LockJoin(u) BY <2>2 DEF LockJoin
  <2>3. CASE PrepareJoin(u)
    <3>1. \A v \in Users : userMap'[v] \in {userMap[v], NoSearch}
      BY <2>3, CancelOnly DEF PrepareJoin
    <3>2. /\ cancelled' = cancelled /\ left' = left /\ op[u] # "leaving"
          /\ op' = [op EXCEPT ![u] = "none"] \/ op' = [op EXCEPT ![u] = "uncancel"]
      BY <2>3 DEF PrepareJoin
    <3> QED BY <3>1, <3>2
  <2>4. CASE Uncancel(u) BY <2>4 DEF Uncancel
  <2>5. CASE Resume(u) BY <2>5 DEF Resume
  <2>6. CASE JoinQueue(u)
    <3>1. u \notin cancelled /\ u \notin left /\ cancelled' = cancelled /\ left' = left
      BY <2>6 DEF JoinQueue
    <3>2. op' = [op EXCEPT ![u] = "none"] /\ \A v \in Users \ {u} : userMap'[v] = userMap[v]
      BY <2>6 DEF JoinQueue, Enqueue
    <3> QED BY <3>1, <3>2
  <2>7. CASE RequestLeave(u) BY <2>7 DEF RequestLeave
  <2>8. CASE LeaveQueue(u) \/ LeaveLobbies(u)
    <3>1. userMap'[u] = NoSearch /\ \A v \in Users : userMap'[v] \in {userMap[v], NoSearch}
      BY <2>8, CancelClears, CancelOnly DEF LeaveQueue, LeaveLobbies
    <3>2. /\ cancelled' = cancelled /\ left' \in {left, left \cup {u}} /\ u \in cancelled
          /\ op' = [op EXCEPT ![u] = "cleaning"] \/ op' = [op EXCEPT ![u] = "none"]
      BY <2>8 DEF LeaveQueue, LeaveLobbies
    <3> QED BY <3>1, <3>2
  <2>9. CASE Disconnect(u) \/ CleanupDisconnect(u) \/ GiveUpCleanup(u) \/ Connect(u)
    BY <2>9 DEF Disconnect, CleanupDisconnect, GiveUpCleanup, Connect
  <2>10. CASE ExpireLeaveGuard(u) \/ ExpireCancel(u)
    BY <2>10 DEF ExpireLeaveGuard, ExpireCancel
  <2> QED BY <2>1, <2>2, <2>3, <2>4, <2>5, <2>6, <2>7, <2>8, <2>9, <2>10 DEF Handlers
<1> QED BY <1>1, <1>2 DEF LeaveInv

LEMMA LeaveNext == Droppers = {} /\ TypeOK /\ QueueRight /\ LeaveInv /\ [Next]_vars => LeaveInv'
<1> SUFFICES ASSUME Droppers = {}, TypeOK, QueueRight, LeaveInv, [Next]_vars PROVE LeaveInv'
  OBVIOUS
<1>1. CASE \E t \in Tickers : Ticker(t)
  BY <1>1, TickLeaves
<1>2. CASE \E u \in Users : Handlers(u)
  BY <1>2, HandlerLeaves
<1>3. ASSUME NEW l \in Lobbies, Callbacks(l)
      PROVE  LeaveInv'
  BY <1>3, LeaveFrame DEF Callbacks, DraftCheckCancel, BotCallback, StartDraft, HealDraft,
     MatchOver, LeaveInv, Calm, queueVars, flagVars, userVars, jobVars
<1>4. ASSUME NEW u \in Users, NEW l \in Lobbies, LobbyGrace(u, l)
      PROVE  LeaveInv'
  BY <1>4, LeaveFrame DEF LobbyGrace, LeaveInv, Calm, queueVars, flagVars, userVars, jobVars
<1>5. ASSUME NEW s \in Searches, PassDeadline(s)
      PROVE  LeaveInv'
  BY <1>5, LeaveFrame DEF PassDeadline, LeaveInv, Calm, flagVars, userVars, jobVars, lobbyVars
<1>6. CASE UNCHANGED vars
  BY <1>6, LeaveFrame DEF LeaveInv, Calm, vars, queueVars, flagVars, userVars, jobVars, lobbyVars
<1> QED BY <1>1, <1>2, <1>3, <1>4, <1>5, <1>6 DEF Next

LEMMA LeaveInductive == ASSUME Droppers = {} PROVE Spec => [](TypeOK /\ QueueRight /\ LeaveInv)
<1>1. Init => LeaveInv
  BY DEF Init, LeaveInv, Calm, Marked, Out
<1>2. TypeOK /\ QueueRight /\ LeaveInv /\ [Next]_vars => LeaveInv'
  BY LeaveNext
<1> QED BY <1>1, <1>2, QueueInductive, PTL DEF Spec

\* While sockets stay up, no search is on under the marker of an earlier leave: the
\* join clears the marker before it writes a search, the leave clears the search before
\* it lets the player's lock go, and nothing else adds one.
THEOREM MarkerCleared == ASSUME Droppers = {} PROVE Spec => []SearchNotCancelled
<1>1. TypeOK /\ LeaveInv => SearchNotCancelled
  BY DEF LeaveInv, Marked, Out, SearchNotCancelled, TypeOK
<1> QED BY <1>1, LeaveInductive, PTL

\* What a leaver is claimed for already, the marker outlasts.
LeaverCancelled == \A u \in left : Pending(u) => u \in cancelled

\* A tick announces a lobby to the players it seated in it.
SeatParty == \A t \in Tickers : stage[t] = "announce" =>
    room[t] \in Lobbies /\ members[room[t]] \subseteq pair[t]

\* A lobby that still lists a leaver waits, and its callback has a cancel check ahead.
LeaverChecked == \A u \in left : \A l \in Lobbies : u \in members[l] =>
    /\ status[l] = "waiting" /\ timer[l] \notin {"checked", "botChecked"}
    /\ timer[l] # "none" => u \in party[l]

DraftInv == LeaverCancelled /\ SeatParty /\ LeaverChecked

\* Only a mapped search is claimed, so no tick claims a leaver anew.
LEMMA PairsShrink ==
    ASSUME TypeOK, LeaveInv, NEW t \in Tickers, Ticker(t)
    PROVE  \A o \in Tickers : \A u \in left : u \in pair'[o] => u \in pair[o]
<1> USE DEF TypeOK, NextFallback
<1>m. \A s \in Searches : Mapped(s) => Owner(s) \notin left
  BY NamesAssumption DEF LeaveInv, Marked, Out, Mapped
<1>1. CASE ClaimFallback(t) BY <1>1, <1>m DEF ClaimFallback
<1>2. CASE PairTwo(t)
  <2>1. pair' = pair \/ \E a, b \in Searches :
            Mapped(a) /\ Mapped(b) /\ pair' = [pair EXCEPT ![t] = {Owner(a), Owner(b)}]
    BY <1>2 DEF PairTwo
  <2> QED BY <2>1, <1>m
<1>3. CASE BotCheckCancel(t) \/ BotCheckSession(t) \/ BotCheckSocket(t) \/ BotStart(t)
  BY <1>3 DEF BotCheckCancel, BotCheckSession, BotCheckSocket, BotStart
<1>4. CASE CreateBotLobby(t) \/ BotThrows(t) \/ ClearPairingInFlight(t)
  BY <1>4 DEF CreateBotLobby, BotThrows, ClearPairingInFlight
<1>5. CASE ~(\/ ClaimFallback(t) \/ PairTwo(t) \/ BotCheckCancel(t) \/ BotCheckSession(t)
             \/ BotCheckSocket(t) \/ BotStart(t) \/ CreateBotLobby(t) \/ BotThrows(t)
             \/ ClearPairingInFlight(t))
  BY <1>5 DEF Ticker, StartTick, EndFallbacks, EndTick, SetPairingInFlight, CheckCancelFlags,
     CheckSockets, DropAbsent, Requeue, CheckUsers, CheckSession, CreateLobby, Announce,
     PairingThrows
<1> QED BY <1>1, <1>2, <1>3, <1>4, <1>5

LEMMA PendingFrame ==
    ASSUME DraftInv, left' = left, cancelled' = cancelled,
           \A u \in left : Pending(u)' => Pending(u)
    PROVE  LeaverCancelled'
BY DEF DraftInv, LeaverCancelled

\* A tick keeps the three: a new lobby has no callback yet, or one that checks first.
LEMMA TickDrafts ==
    ASSUME TypeOK, LeaveInv, DraftInv, NEW t \in Tickers, Ticker(t)
    PROVE  DraftInv'
<1> USE DEF Goto, Tell
<1>1. left' = left /\ cancelled' = cancelled
  BY DEF Ticker, StartTick, ClaimFallback, EndFallbacks, PairTwo, EndTick, SetPairingInFlight,
     CheckCancelFlags, CheckSockets, DropAbsent, Requeue, CheckUsers, CheckSession, CreateLobby,
     Announce, ClearPairingInFlight, PairingThrows, BotCheckCancel, BotCheckSession,
     BotCheckSocket, BotStart, CreateBotLobby, BotThrows, userVars, flagVars
<1>p. \A o \in Tickers : \A u \in left : u \in pair'[o] => u \in pair[o]
  BY PairsShrink
<1>2. CASE CreateLobby(t)
  <2>1. PICK l \in Lobbies :
            /\ UnusedLobby(l)
            /\ status' = [status EXCEPT ![l] = "waiting"]
            /\ members' = [members EXCEPT ![l] = pair[t]]
            /\ room' = [room EXCEPT ![t] = l]
    BY <1>2 DEF CreateLobby
  <2>2. timer' = timer /\ party' = party /\ pair' = pair
    BY <1>2 DEF CreateLobby
  <2>3. LeaverCancelled'
    BY <1>1, <2>2, PendingFrame DEF Pending
  <2>4. SeatParty'
    BY <1>2, <2>1, <2>2 DEF SeatParty, DraftInv, CreateLobby, UnusedLobby, TypeOK
  <2>5. LeaverChecked'
    BY <1>1, <2>1, <2>2 DEF LeaverChecked, DraftInv, UnusedLobby, TypeOK
  <2> QED BY <2>3, <2>4, <2>5 DEF DraftInv
<1>3. CASE Announce(t)
  <2>1. /\ timer' = [timer EXCEPT ![room[t]] = "found"]
        /\ party' = [party EXCEPT ![room[t]] = pair[t]]
        /\ status' = status /\ members' = members /\ pair' = pair /\ room' = room
        /\ stage' = [stage EXCEPT ![t] = "clear"]
    BY <1>3 DEF Announce, Schedule
  <2>2. \A u \in left : Pending(u)' => Pending(u)
    BY <1>1, <2>1 DEF Pending, TypeOK
  <2>3. SeatParty'
    BY <2>1 DEF SeatParty, DraftInv, TypeOK
  <2>4. LeaverChecked'
    BY <1>1, <1>3, <2>1 DEF LeaverChecked, SeatParty, DraftInv, Announce, TypeOK
  <2> QED BY <1>1, <2>2, <2>3, <2>4, PendingFrame DEF DraftInv
<1>4. CASE CreateBotLobby(t) /\ ~UNCHANGED lobbyVars
  <2>1. PICK l \in Lobbies :
            /\ UnusedLobby(l)
            /\ status' = [status EXCEPT ![l] = "waiting"]
            /\ members' = [members EXCEPT ![l] = pair[t]]
            /\ timer' = [timer EXCEPT ![l] = "botSearch"]
            /\ party' = [party EXCEPT ![l] = pair[t]]
    BY <1>4 DEF CreateBotLobby, Schedule
  <2>2. pair' = [pair EXCEPT ![t] = {}] /\ stage' = [stage EXCEPT ![t] = "claims"] /\ room' = room
    BY <1>4 DEF CreateBotLobby, NextFallback
  <2>3. \A u \in left : Pending(u)' => Pending(u)
    BY <1>1, <2>1, <2>2 DEF Pending, TypeOK
  <2>4. SeatParty'
    BY <2>1, <2>2 DEF SeatParty, DraftInv, UnusedLobby, TypeOK
  <2>5. LeaverChecked'
    BY <1>1, <2>1 DEF LeaverChecked, DraftInv, TypeOK
  <2> QED BY <1>1, <2>3, <2>4, <2>5, PendingFrame DEF DraftInv
<1>5. CASE UNCHANGED lobbyVars /\ ~CreateLobby(t)
  <2>1. UNCHANGED <<status, members, timer, party>>
    BY <1>5 DEF lobbyVars
  <2>2. \A u \in left : Pending(u)' => Pending(u)
    BY <1>1, <1>p, <2>1 DEF Pending
  <2>3. \A o \in Tickers : stage'[o] = "announce" =>
            stage[o] = "announce" /\ room'[o] = room[o] /\ pair'[o] = pair[o]
    <3> USE DEF TypeOK, NextFallback
    <3>1. CASE StartTick(t) \/ EndFallbacks(t) \/ EndTick(t) \/ SetPairingInFlight(t)
      BY <3>1 DEF StartTick, EndFallbacks, EndTick, SetPairingInFlight
    <3>2. CASE ClaimFallback(t) BY <3>2 DEF ClaimFallback
    <3>3. CASE PairTwo(t) BY <3>3 DEF PairTwo
    <3>4. CASE CheckCancelFlags(t) \/ CheckSockets(t) \/ DropAbsent(t)
      BY <3>4 DEF CheckCancelFlags, CheckSockets, DropAbsent
    <3>5. CASE Requeue(t) \/ CheckUsers(t) \/ CheckSession(t)
      BY <3>5 DEF Requeue, CheckUsers, CheckSession
    <3>6. CASE Announce(t) \/ ClearPairingInFlight(t) \/ PairingThrows(t)
      BY <3>6 DEF Announce, ClearPairingInFlight, PairingThrows
    <3>7. CASE BotCheckCancel(t) \/ BotCheckSession(t) \/ BotCheckSocket(t) \/ BotStart(t)
      BY <3>7 DEF BotCheckCancel, BotCheckSession, BotCheckSocket, BotStart
    <3>8. CASE CreateBotLobby(t) \/ BotThrows(t)
      BY <3>8 DEF CreateBotLobby, BotThrows
    <3> QED BY <3>1, <3>2, <3>3, <3>4, <3>5, <3>6, <3>7, <3>8, <1>5 DEF Ticker
  <2>4. SeatParty' /\ LeaverChecked'
    BY <1>1, <2>1, <2>3 DEF SeatParty, LeaverChecked, DraftInv
  <2> QED BY <1>1, <2>2, <2>4, PendingFrame DEF DraftInv
<1> QED BY <1>2, <1>3, <1>4, <1>5
    DEF Ticker, StartTick, ClaimFallback, EndFallbacks, PairTwo, EndTick, SetPairingInFlight,
        CheckCancelFlags, CheckSockets, DropAbsent, Requeue, CheckUsers, CheckSession,
        ClearPairingInFlight, PairingThrows, BotCheckCancel, BotCheckSession, BotCheckSocket,
        BotStart, BotThrows

\* A step that schedules nothing and leaves nobody anew.
LEMMA DraftFrame ==
    ASSUME TypeOK, DraftInv, UNCHANGED <<stage, pair, room, party>>, left' \subseteq left,
           \A u \in left' : u \in cancelled => u \in cancelled' \/ ~Pending(u)',
           \A l \in Lobbies : timer'[l] # "none" => timer[l] # "none",
           \A l \in Lobbies : members'[l] \subseteq members[l],
           \A l \in Lobbies : \A u \in left' : u \in members'[l] =>
               status'[l] = status[l] /\ timer'[l] \in {timer[l], "none", "botFound"}
    PROVE  DraftInv'
<1>1. \A u \in left' : Pending(u)' => Pending(u)
  BY DEF Pending
<1>2. LeaverCancelled'
  BY <1>1 DEF DraftInv, LeaverCancelled
<1>3. SeatParty'
  BY DEF DraftInv, SeatParty
<1>4. LeaverChecked'
  BY DEF DraftInv, LeaverChecked
<1> QED BY <1>2, <1>3, <1>4 DEF DraftInv

LEMMA CallbackDrafts ==
    ASSUME TypeOK, LeaveInv, DraftInv, NEW l \in Lobbies, Callbacks(l)
    PROVE  DraftInv'
<1>1. UNCHANGED <<stage, pair, room, party, left, cancelled>>
  BY DEF Callbacks, DraftCheckCancel, BotCallback, StartDraft, HealDraft, MatchOver, jobVars,
     flagVars
<1>2. \A k \in Lobbies : timer'[k] # "none" => timer[k] # "none"
  BY DEF Callbacks, DraftCheckCancel, BotCallback, StartDraft, HealDraft, MatchOver, TypeOK
<1>3. \A k \in Lobbies : members'[k] \subseteq members[k]
  BY OthersSeatNobody
<1>c. \A u \in left : u \in party[l] /\ timer[l] # "none" => u \in cancelled
  BY DEF DraftInv, LeaverCancelled, Pending
<1>4. ASSUME NEW k \in Lobbies, NEW u \in left, u \in members'[k]
      PROVE  status'[k] = status[k] /\ timer'[k] \in {timer[k], "none", "botFound"}
  <2> USE DEF TypeOK, AbortLobbies
  <2>0. /\ u \in members[k] /\ status[k] = "waiting" /\ timer[k] \notin {"checked", "botChecked"}
        /\ timer[k] # "none" => u \in party[k]
    BY <1>1, <1>3, <1>4 DEF DraftInv, LeaverChecked
  <2>1. CASE DraftCheckCancel(l)
    BY <1>c, <2>0, <2>1 DEF DraftCheckCancel
  <2>2. CASE BotCallback(l)
    <3>1. CASE k = l
      <4>1. party[l] \cap cancelled # {}
        BY <1>c, <2>0, <2>2, <3>1 DEF BotCallback
      <4> QED BY <1>4, <2>0, <2>2, <3>1, <4>1 DEF BotCallback
    <3>2. CASE k # l
      BY <2>2, <3>2 DEF BotCallback
    <3> QED BY <3>1, <3>2
  <2>3. CASE StartDraft(l)
    BY <2>0, <2>3 DEF StartDraft, Activate
  <2>4. CASE HealDraft(l)
    BY <2>4 DEF HealDraft, LeaveInv, Calm
  <2>5. CASE MatchOver(l)
    BY <1>4, <2>0, <2>5 DEF MatchOver
  <2> QED BY <2>1, <2>2, <2>3, <2>4, <2>5 DEF Callbacks
<1> QED BY <1>1, <1>2, <1>3, <1>4, DraftFrame

LEMMA HandlerDrafts ==
    ASSUME TypeOK, LeaveInv, DraftInv, Droppers = {}, NEW u \in Users, Handlers(u)
    PROVE  DraftInv'
<1>1. UNCHANGED <<stage, pair, room, party, timer>>
  BY DEF Handlers, RequestJoin, RefuseJoin, DebounceJoin, GiveUpJoin, LockJoin,
     PrepareJoin, Uncancel, Resume, JoinQueue, RequestLeave, LeaveQueue, LeaveLobbies, Disconnect,
     CleanupDisconnect, GiveUpCleanup, Connect, ExpireLeaveGuard, ExpireCancel, jobVars,
     lobbyVars
<1>2. \A l \in Lobbies : members'[l] \subseteq members[l]
  BY OthersSeatNobody
<1>3. CASE LeaveLobbies(u)
  <2>1. /\ left' = left \cup {u} /\ cancelled' = cancelled /\ u \in cancelled
        /\ \A l \in Lobbies : u \notin members'[l]
        /\ \A l \in Lobbies : members'[l] # {} => status'[l] = status[l]
    BY <1>3 DEF LeaveLobbies, AbortLobbies, flagVars, TypeOK, LeaveInv, Marked
  <2>2. LeaverCancelled'
    BY <1>1, <2>1 DEF DraftInv, LeaverCancelled, Pending
  <2>3. SeatParty'
    BY <1>1, <1>3 DEF DraftInv, SeatParty, LeaveLobbies, AbortLobbies, TypeOK
  <2>4. LeaverChecked'
    BY <1>1, <1>2, <2>1 DEF DraftInv, LeaverChecked
  <2> QED BY <2>2, <2>3, <2>4 DEF DraftInv
<1>4. CASE ~LeaveLobbies(u)
  <2>1. left' \subseteq left
    BY <1>4 DEF Handlers, RequestJoin, RefuseJoin, DebounceJoin, GiveUpJoin, LockJoin,
       PrepareJoin, Uncancel, Resume, JoinQueue, RequestLeave, LeaveQueue, Disconnect,
       CleanupDisconnect, GiveUpCleanup, Connect, ExpireLeaveGuard, ExpireCancel
  <2>2. \A v \in left' : v \in cancelled => v \in cancelled' \/ ~Pending(v)'
    <3>1. CASE Uncancel(u)
      BY <3>1 DEF Uncancel
    <3>2. CASE ExpireCancel(u)
      <4>1. ~Pending(u)'
        BY <1>1, <3>2 DEF ExpireCancel, Pending
      <4> QED BY <3>2, <4>1 DEF ExpireCancel
    <3> QED BY <1>4, <3>1, <3>2
        DEF Handlers, RequestJoin, RefuseJoin, DebounceJoin, GiveUpJoin, LockJoin,
            PrepareJoin, Resume, JoinQueue, RequestLeave, LeaveQueue, Disconnect,
            CleanupDisconnect, GiveUpCleanup, Connect, ExpireLeaveGuard, flagVars
  <2>3. \A l \in Lobbies : members'[l] # {} => status'[l] = status[l]
    BY <1>4 DEF Handlers, RequestJoin, RefuseJoin, DebounceJoin, GiveUpJoin, LockJoin,
       PrepareJoin, Uncancel, Resume, JoinQueue, RequestLeave, LeaveQueue, Disconnect,
       CleanupDisconnect, GiveUpCleanup, Connect, ExpireLeaveGuard, ExpireCancel, AbortLobbies,
       lobbyVars
  <2> QED BY <1>1, <1>2, <2>1, <2>2, <2>3, DraftFrame
<1> QED BY <1>3, <1>4

LEMMA DraftNext ==
    Droppers = {} /\ TypeOK /\ LeaveInv /\ DraftInv /\ [Next]_vars => DraftInv'
<1> SUFFICES ASSUME Droppers = {}, TypeOK, LeaveInv, DraftInv, [Next]_vars PROVE DraftInv'
  OBVIOUS
<1>1. CASE \E t \in Tickers : Ticker(t)
  BY <1>1, TickDrafts
<1>2. CASE \E l \in Lobbies : Callbacks(l)
  BY <1>2, CallbackDrafts
<1>3. CASE \E u \in Users : Handlers(u)
  BY <1>3, HandlerDrafts
<1>4. ASSUME NEW u \in Users, NEW l \in Lobbies, LobbyGrace(u, l)
      PROVE  FALSE
  BY <1>4 DEF LobbyGrace, LeaveInv, Calm, TypeOK
<1>5. CASE (\E s \in Searches : PassDeadline(s)) \/ UNCHANGED vars
  BY <1>5, DraftFrame DEF PassDeadline, vars, jobVars, lobbyVars, flagVars
<1> QED BY <1>1, <1>2, <1>3, <1>4, <1>5 DEF Next

\* While sockets stay up, who left and did not join again is in no draft: wherever the
\* leave landed in a pairing, a cancel check is ahead of every lobby that lists the
\* leaver, and the marker stands until that pairing is over.
THEOREM LeaveHonoured == ASSUME Droppers = {} PROVE Spec => []NoDraftAfterLeave
<1>1. Init => DraftInv
  BY DEF Init, DraftInv, LeaverCancelled, SeatParty, LeaverChecked
<1>2. TypeOK /\ LeaveInv /\ DraftInv /\ [Next]_vars => DraftInv'
  BY DraftNext
<1>3. DraftInv => NoDraftAfterLeave
  BY DEF DraftInv, LeaverChecked, NoDraftAfterLeave
<1> QED BY <1>1, <1>2, <1>3, LeaveInductive, PTL DEF Spec
=============================================================================
