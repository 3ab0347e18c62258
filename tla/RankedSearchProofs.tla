-------------------------- MODULE RankedSearchProofs --------------------------
(***************************************************************************)
(* No client is left searching for nothing, for every number of players,   *)
(* search ids, lobbies and tickers, and for ticks that outlive their lock. *)
(* What the theorem assumes is what the property needs: no socket drops,   *)
(* no call throws, a client that shows a search does not join again, and a *)
(* claim sets its flag before the leave guard or the next join passes it.  *)
(* The invariant follows a player from the join over the search and the    *)
(* claim to the seat: one of them at a time.                               *)
(***************************************************************************)
EXTENDS RankedMatchmakingProofs

\* The stages of a join, from the lock to the queue.
JoinOps == {"sawNothing", "sawSearch", "sawLobby", "uncancel", "resume", "enqueue"}
Asking(u) == u \in knocking \/ op[u] \in JoinOps
Claimed(u) == \E t \in Tickers : u \in pair[t]

\* A player asks, searches, is claimed or sits in a lobby: one of them at a time.
PlayerRight(u) ==
    /\ op[u] # "resume"
    /\ op[u] \in JoinOps => u \notin knocking
    /\ told[u] = "searching" => ~Asking(u) /\ op[u] # "cleaning"
    /\ userMap[u] # NoSearch => told[u] = "searching"
    /\ u \in cancelled /\ told[u] = "searching" => op[u] = "leaving"
    /\ Claimed(u) \/ InLobby(u) => ~Asking(u) /\ userMap[u] = NoSearch
    /\ u \in inFlight => \E t \in Tickers : u \in pair[t] /\ stage[t] \in PairStages

\* A ticker between two claims, before it has a lobby for a pair.
Resting == {"idle", "claims", "pairs"}
Early == PairStages \ {"drop", "requeue", "announce", "clear"}

\* A tick holds whom it claimed, alone, and until its lobby they sit nowhere.
TickRight(t) ==
    /\ stage[t] \notin {"drop", "requeue"}
    /\ stage[t] \in Resting => pair[t] = {}
    /\ stage[t] \in BotStages => \E u \in Users : pair[t] = {u}
    /\ stage[t] = "announce" =>
         /\ room[t] \in Lobbies /\ timer[room[t]] = "none"
         /\ \A o \in Tickers : stage[o] = "announce" /\ room[o] = room[t] => o = t
    /\ \A u \in pair[t] :
         /\ InLobby(u) => stage[t] \in {"announce", "clear"}
         /\ \A o \in Tickers : u \in pair[o] => o = t

BotTimers == {"botSearch", "botFound", "botChecked"}

\* A lobby with a bot is its player's, and a seat is the player's only one.
LobbyRight(l) ==
    /\ timer[l] \in BotTimers =>
         /\ \E u \in Users : party[l] = {u}
         /\ status[l] # "none" => members[l] = party[l]
    /\ \A u \in members[l] : \A k \in Lobbies : u \in members[k] => k = l

\* Who answers a player that is shown a search.
Answered(u) ==
    \/ userMap[u] # NoSearch
    \/ op[u] = "leaving"
    \/ \E t \in Tickers : u \in pair[t] /\ stage[t] # "clear"
    \/ \E l \in Lobbies : timer[l] = "botSearch" /\ status[l] = "waiting" /\ u \in members[l]

Owed(u) == told[u] = "searching" => Answered(u)

SearchInv ==
    /\ \A u \in Users : PlayerRight(u) /\ Owed(u)
    /\ \A t \in Tickers : TickRight(t)
    /\ \A l \in Lobbies : LobbyRight(l)

-----------------------------------------------------------------------------
(* The steps of a tick *)

\* A tick moves on, or shows its players nothing new.
SeatsKept == UNCHANGED <<status, members, timer, party>>
UserKept == UNCHANGED <<op, knocking, cancelled>>

Advances(t) ==
    /\ UserKept /\ SeatsKept /\ UNCHANGED <<userMap, pair, room, told>>
    /\ \A o \in Tickers \ {t} : stage'[o] = stage[o]
    /\ \/ stage[t] \in Resting /\ stage'[t] \in Resting
       \/ stage[t] \in Early /\ stage'[t] \in Early
       \/ stage[t] \in BotStages /\ stage'[t] \in BotStages
    /\ inFlight' = inFlight \/ (stage'[t] \in Early /\ inFlight' = inFlight \cup pair[t])

\* A tick that moves on keeps the invariant: who it holds stays held.
LEMMA AdvanceKeeps ==
    ASSUME TypeOK, SearchInv, NEW t \in Tickers, Advances(t)
    PROVE  SearchInv'
<1> USE DEF UserKept, SeatsKept
<1>1. \A o \in Tickers :
        /\ stage[o] \in PairStages => stage'[o] \in PairStages
        /\ stage[o] # "clear" => stage'[o] # "clear"
        /\ stage'[o] = "announce" => stage[o] = "announce"
        /\ stage'[o] \in Resting => stage[o] \in Resting
        /\ stage'[o] \in BotStages => stage[o] \in BotStages
        /\ stage'[o] \notin {"drop", "requeue"} \/ stage'[o] = stage[o]
        /\ stage[o] \in {"announce", "clear"} => stage'[o] = stage[o]
  BY DEF Advances, Resting, Early, PairStages, BotStages
<1>2. ASSUME NEW u \in Users PROVE PlayerRight(u)' /\ Owed(u)'
  <2>1. PlayerRight(u) /\ Owed(u) BY DEF SearchInv
  <2>2. u \in inFlight' => \E o \in Tickers : u \in pair'[o] /\ stage'[o] \in PairStages
    <3>1. CASE u \in inFlight BY <1>1, <2>1, <3>1 DEF Advances, PlayerRight
    <3>2. CASE u \notin inFlight BY <3>2 DEF Advances, Early
    <3>3. QED BY <3>1, <3>2
  <2>3. (Claimed(u)' <=> Claimed(u)) /\ (InLobby(u)' <=> InLobby(u)) /\ (Asking(u)' <=> Asking(u))
    BY DEF Advances, Claimed, InLobby, Asking
  <2>4. PlayerRight(u)' BY <2>1, <2>2, <2>3 DEF Advances, PlayerRight
  <2>5. Owed(u)' BY <1>1, <2>1 DEF Advances, Owed, Answered
  <2>6. QED BY <2>4, <2>5
<1>3. ASSUME NEW o \in Tickers PROVE TickRight(o)'
  BY <1>1 DEF Advances, SearchInv, TickRight, InLobby
<1>4. ASSUME NEW l \in Lobbies PROVE LobbyRight(l)'
  BY DEF Advances, SearchInv, LobbyRight
<1>5. QED BY <1>2, <1>3, <1>4 DEF SearchInv

\* A tick lets go of its players: each was told, or is about to leave.
LetsGo(t) ==
    /\ UserKept /\ SeatsKept /\ userMap' = userMap
    /\ \A o \in Tickers \ {t} : stage'[o] = stage[o] /\ pair'[o] = pair[o] /\ room'[o] = room[o]
    /\ \/ stage'[t] = "clear" /\ pair'[t] = pair[t] /\ inFlight' = inFlight
          /\ stage[t] \in PairStages
       \/ stage'[t] \in Resting /\ pair'[t] = {} /\ inFlight' \subseteq inFlight \ pair[t]
    /\ \A u \in Users \ pair[t] : told'[u] = told[u]
    /\ \A u \in pair[t] :
         /\ told'[u] = told[u] \/ told'[u] # "searching"
         /\ told'[u] = "searching" => stage[t] = "clear" \/ op[u] = "leaving"

\* So does one that lets go: nobody it held is left with a search on the screen.
LEMMA LetGoKeeps ==
    ASSUME TypeOK, SearchInv, NEW t \in Tickers, LetsGo(t)
    PROVE  SearchInv'
<1> USE DEF UserKept, SeatsKept
<1>1. ASSUME NEW u \in Users PROVE PlayerRight(u)' /\ Owed(u)'
  <2>1. PlayerRight(u) /\ Owed(u) BY DEF SearchInv
  <2>2. u \in inFlight' => \E o \in Tickers : u \in pair'[o] /\ stage'[o] \in PairStages
    BY <2>1 DEF LetsGo, PlayerRight, PairStages
  <2>3. (Claimed(u)' => Claimed(u)) /\ (InLobby(u)' <=> InLobby(u)) /\ (Asking(u)' <=> Asking(u))
    BY DEF LetsGo, Claimed, InLobby, Asking
  <2>4. u \in pair[t] => Claimed(u) BY DEF Claimed
  <2>5. PlayerRight(u)'
    BY <2>1, <2>2, <2>3, <2>4 DEF LetsGo, PlayerRight
  <2>6. Owed(u)'
    <3>1. SUFFICES ASSUME told'[u] = "searching" PROVE Answered(u)' BY DEF Owed
    <3>2. Answered(u) BY <2>1, <3>1 DEF LetsGo, Owed
    <3>3. CASE u \in pair[t] /\ stage[t] # "clear"
      BY <3>1, <3>3 DEF LetsGo, Answered
    <3>4. CASE u \notin pair[t] \/ stage[t] = "clear"
      <4>1. \A o \in Tickers : u \in pair[o] /\ stage[o] # "clear" => o # t BY <3>4
      <4>2. QED BY <3>2, <4>1 DEF LetsGo, Answered
    <3>5. QED BY <3>3, <3>4
  <2>7. QED BY <2>5, <2>6
<1>2. ASSUME NEW o \in Tickers PROVE TickRight(o)'
  <2>1. \A k \in Tickers : stage'[k] = "announce" =>
          k # t /\ stage[k] = "announce" /\ room'[k] = room[k]
    BY DEF LetsGo, Resting
  <2>2. \A k \in Tickers : pair'[k] \subseteq pair[k] BY DEF LetsGo
  <2>3. TickRight(o) BY DEF SearchInv
  <2>4. CASE o = t
    BY <2>2, <2>3, <2>4 DEF LetsGo, TickRight, InLobby, Resting, BotStages
  <2>5. CASE o # t
    BY <2>1, <2>2, <2>3, <2>5 DEF LetsGo, TickRight, InLobby
  <2>6. QED BY <2>4, <2>5
<1>3. ASSUME NEW l \in Lobbies PROVE LobbyRight(l)'
  BY DEF LetsGo, SearchInv, LobbyRight
<1>4. QED BY <1>1, <1>2, <1>3 DEF SearchInv

\* A tick claims players whose searches are mapped.
Claims(t, us) ==
    /\ UserKept /\ SeatsKept /\ UNCHANGED <<room, told, inFlight>>
    /\ us \subseteq Users /\ \A u \in us : userMap[u] # NoSearch
    /\ userMap' \in [Users -> Searches \cup {NoSearch}]
    /\ \A u \in Users : userMap'[u] = IF u \in us THEN NoSearch ELSE userMap[u]
    /\ \A o \in Tickers \ {t} : stage'[o] = stage[o] /\ pair'[o] = pair[o]
    /\ pair[t] = {} /\ pair'[t] = us
    /\ stage'[t] = "flag" \/ (stage'[t] = "botCancel" /\ \E u \in Users : us = {u})

\* So does a claim: whom it takes from the queue was asking for nothing else.
LEMMA ClaimKeeps ==
    ASSUME TypeOK, SearchInv, NEW t \in Tickers, NEW us, Claims(t, us)
    PROVE  SearchInv'
<1> USE DEF UserKept, SeatsKept
<1>1. ASSUME NEW u \in us
      PROVE  ~Claimed(u) /\ ~InLobby(u) /\ ~Asking(u)
  BY DEF Claims, SearchInv, PlayerRight
<1>2. ASSUME NEW u \in Users PROVE PlayerRight(u)' /\ Owed(u)'
  <2>1. PlayerRight(u) /\ Owed(u) BY DEF SearchInv
  <2>2. u \in inFlight' => \E o \in Tickers : u \in pair'[o] /\ stage'[o] \in PairStages
    <3>1. \A o \in Tickers : u \in pair[o] => o # t BY DEF Claims
    <3>2. QED BY <2>1, <3>1 DEF Claims, PlayerRight
  <2>3. (InLobby(u)' <=> InLobby(u)) /\ (Asking(u)' <=> Asking(u))
    BY DEF Claims, InLobby, Asking
  <2>4. Claimed(u)' => Claimed(u) \/ u \in us BY DEF Claims, Claimed
  <2>5. PlayerRight(u)'
    BY <1>1, <2>1, <2>2, <2>3, <2>4 DEF Claims, PlayerRight
  <2>6. Owed(u)'
    <3>1. SUFFICES ASSUME told'[u] = "searching" PROVE Answered(u)' BY DEF Owed
    <3>2. Answered(u) BY <2>1, <3>1 DEF Claims, Owed
    <3>3. CASE u \in us BY <3>3 DEF Claims, Answered
    <3>4. CASE u \notin us
      <4>1. \A o \in Tickers : u \in pair[o] => o # t BY DEF Claims
      <4>2. QED BY <3>2, <3>4, <4>1 DEF Claims, Answered
    <3>5. QED BY <3>3, <3>4
  <2>7. QED BY <2>5, <2>6
<1>3. ASSUME NEW o \in Tickers PROVE TickRight(o)'
  <2>1. \A k \in Tickers : stage'[k] = "announce" => k # t /\ stage[k] = "announce"
    BY DEF Claims
  <2>2. TickRight(o) BY DEF SearchInv
  <2>3. CASE o = t
    <3>1. \A u \in us : \A k \in Tickers : u \in pair'[k] => k = t
      BY <1>1 DEF Claims, Claimed
    <3>2. \A u \in us : ~InLobby(u)' BY <1>1 DEF Claims, InLobby
    <3>3. QED BY <2>3, <3>1, <3>2 DEF Claims, TickRight, Resting, BotStages
  <2>4. CASE o # t
    <3>1. \A u \in pair[o] : u \notin us BY <1>1 DEF Claimed
    <3>2. QED BY <2>1, <2>2, <2>4, <3>1 DEF Claims, TickRight, InLobby
  <2>5. QED BY <2>3, <2>4
<1>4. ASSUME NEW l \in Lobbies PROVE LobbyRight(l)'
  BY DEF Claims, SearchInv, LobbyRight
<1>5. QED BY <1>2, <1>3, <1>4 DEF SearchInv

\* A pair gets a lobby of its own, before anybody is told.
LEMMA CreateKeeps ==
    ASSUME TypeOK, SearchInv, NEW t \in Tickers, CreateLobby(t)
    PROVE  SearchInv'
<1>1. PICK l \in Lobbies :
        /\ UnusedLobby(l)
        /\ status' = [status EXCEPT ![l] = "waiting"]
        /\ members' = [members EXCEPT ![l] = pair[t]]
        /\ room' = [room EXCEPT ![t] = l]
  BY DEF CreateLobby
<1>2. /\ UNCHANGED <<op, knocking, cancelled, userMap, inFlight, pair, told, timer, party>>
      /\ stage[t] = "lobby" /\ stage' = [stage EXCEPT ![t] = "announce"]
  BY DEF CreateLobby, Goto, queueVars, flagVars, userVars
<1>3. /\ members'[l] = pair[t] /\ status'[l] = "waiting" /\ room'[t] = l /\ stage'[t] = "announce"
      /\ \A k \in Lobbies \ {l} : members'[k] = members[k] /\ status'[k] = status[k]
      /\ \A o \in Tickers \ {t} : stage'[o] = stage[o] /\ room'[o] = room[o]
  BY <1>1, <1>2 DEF TypeOK
<1>4. \A u \in pair[t] : ~InLobby(u) /\ Claimed(u)
  BY <1>2 DEF SearchInv, TickRight, Claimed
<1>5. \A u \in Users : InLobby(u)' => InLobby(u) \/ u \in pair[t]
  BY <1>3 DEF InLobby
<1>6. ASSUME NEW u \in Users PROVE PlayerRight(u)' /\ Owed(u)'
  <2>1. PlayerRight(u) /\ Owed(u) BY DEF SearchInv
  <2>2. u \in inFlight => \E o \in Tickers : u \in pair[o] /\ stage'[o] \in PairStages
    BY <1>2, <1>3, <2>1 DEF PlayerRight, PairStages
  <2>3. (Claimed(u)' <=> Claimed(u)) /\ (Asking(u)' <=> Asking(u))
    BY <1>2 DEF Claimed, Asking
  <2>4. PlayerRight(u)' BY <1>2, <1>4, <1>5, <2>1, <2>2, <2>3 DEF PlayerRight
  <2>5. Owed(u)'
    <3>1. SUFFICES ASSUME told[u] = "searching" PROVE Answered(u)' BY <1>2 DEF Owed
    <3>2. Answered(u) BY <2>1, <3>1 DEF Owed
    <3>3. \A o \in Tickers : stage[o] # "clear" => stage'[o] # "clear" BY <1>3
    <3>4. \A k \in Lobbies : status[k] = "waiting" /\ u \in members[k] =>
            status'[k] = "waiting" /\ u \in members'[k]
      BY <1>1, <1>3 DEF UnusedLobby
    <3>5. QED BY <1>2, <3>2, <3>3, <3>4 DEF Answered
  <2>6. QED BY <2>4, <2>5
<1>7. ASSUME NEW o \in Tickers PROVE TickRight(o)'
  <2>1. TickRight(o) BY DEF SearchInv
  <2>2. \A k \in Tickers : stage'[k] = "announce" /\ room'[k] = l => k = t
    BY <1>1, <1>3 DEF UnusedLobby
  <2>3. CASE o = t
    BY <1>1, <1>2, <1>3, <2>1, <2>2, <2>3 DEF TickRight, Resting, BotStages, UnusedLobby
  <2>4. CASE o # t
    <3>1. \A u \in pair[o] : u \notin pair[t] BY <2>1, <2>4 DEF TickRight
    <3>2. \A u \in pair[o] : InLobby(u)' => InLobby(u)
      BY <1>5, <3>1 DEF TypeOK
    <3>3. stage[o] = "announce" => \A k \in Tickers :
            stage'[k] = "announce" /\ room'[k] = room[o] => k = o
      BY <1>1, <1>3, <2>1, <2>4 DEF TickRight, UnusedLobby
    <3>4. QED BY <1>2, <1>3, <2>1, <2>4, <3>2, <3>3 DEF TickRight
  <2>5. QED BY <2>3, <2>4
<1>8. ASSUME NEW k \in Lobbies PROVE LobbyRight(k)'
  <2>1. LobbyRight(k) BY DEF SearchInv
  <2>2. \A u \in members'[k] : \A j \in Lobbies : u \in members'[j] => j = k
    BY <1>3, <1>4, <2>1 DEF LobbyRight, InLobby
  <2>3. k = l => timer[k] = "none" BY <1>1 DEF UnusedLobby
  <2>4. QED BY <1>2, <1>3, <2>1, <2>2, <2>3 DEF LobbyRight, BotTimers
<1>9. QED BY <1>6, <1>7, <1>8 DEF SearchInv

\* A pair is told of its lobby; the callback is that lobby's first.
LEMMA AnnounceKeeps ==
    ASSUME TypeOK, LeaveInv, SearchInv, NEW t \in Tickers, Announce(t)
    PROVE  SearchInv'
<1> DEFINE l == room[t]
<1>0. l \in Lobbies BY DEF Announce, SearchInv, TickRight
<1>1. /\ UNCHANGED <<op, knocking, cancelled, userMap, inFlight, pair, room, status, members>>
      /\ stage[t] = "announce" /\ stage' = [stage EXCEPT ![t] = "clear"]
  BY DEF Announce, Goto, queueVars, flagVars, userVars
<1>2. /\ stage'[t] = "clear" /\ \A o \in Tickers \ {t} : stage'[o] = stage[o]
      /\ timer'[l] = "found" /\ timer[l] = "none"
      /\ \A k \in Lobbies \ {l} : timer'[k] = timer[k] /\ party'[k] = party[k]
  BY <1>0, <1>1 DEF Announce, Schedule, TypeOK, SearchInv, TickRight
<1>3. \A u \in Users : told'[u] = IF u \in pair[t] THEN "found" ELSE told[u]
  BY DEF Announce, Tell, LeaveInv, Calm
<1>6. ASSUME NEW u \in Users PROVE PlayerRight(u)' /\ Owed(u)'
  <2>1. PlayerRight(u) /\ Owed(u) BY DEF SearchInv
  <2>2. u \in inFlight => \E o \in Tickers : u \in pair[o] /\ stage'[o] \in PairStages
    BY <1>1, <1>2, <2>1 DEF PlayerRight, PairStages
  <2>3. (Claimed(u)' <=> Claimed(u)) /\ (Asking(u)' <=> Asking(u)) /\ (InLobby(u)' <=> InLobby(u))
    BY <1>1 DEF Claimed, Asking, InLobby
  <2>4. u \in pair[t] => Claimed(u) BY DEF Claimed
  <2>5. PlayerRight(u)' BY <1>1, <1>3, <2>1, <2>2, <2>3, <2>4 DEF PlayerRight
  <2>6. Owed(u)'
    <3>1. SUFFICES ASSUME told'[u] = "searching" PROVE Answered(u)' BY DEF Owed
    <3>2. Answered(u) /\ u \notin pair[t] BY <1>3, <2>1, <3>1 DEF Owed
    <3>3. QED BY <1>1, <1>2, <3>2 DEF Answered
  <2>7. QED BY <2>5, <2>6
<1>7. ASSUME NEW o \in Tickers PROVE TickRight(o)'
  <2>1. TickRight(o) /\ TickRight(t) BY DEF SearchInv
  <2>2. \A u \in Users : InLobby(u)' <=> InLobby(u) BY <1>1 DEF InLobby
  <2>3. CASE o = t
    BY <1>1, <1>2, <2>1, <2>2, <2>3 DEF TickRight, Resting, BotStages, TypeOK
  <2>4. CASE o # t
    <3>1. stage[o] = "announce" => room[o] # l BY <1>1, <2>1, <2>4 DEF TickRight
    <3>2. stage[o] = "announce" => timer'[room[o]] = "none"
      BY <1>2, <2>1, <3>1 DEF TickRight
    <3>3. QED BY <1>1, <1>2, <2>1, <2>2, <2>4, <3>2 DEF TickRight, TypeOK
  <2>5. QED BY <2>3, <2>4
<1>8. ASSUME NEW k \in Lobbies PROVE LobbyRight(k)'
  BY <1>1, <1>2 DEF SearchInv, LobbyRight, BotTimers
<1>9. QED BY <1>6, <1>7, <1>8 DEF SearchInv

\* A player gets a lobby with a bot, and the callback that answers the search.
LEMMA BotLobbyKeeps ==
    ASSUME TypeOK, SearchInv, NEW t \in Tickers, CreateBotLobby(t), ~UNCHANGED lobbyVars
    PROVE  SearchInv'
<1>1. PICK l \in Lobbies :
        /\ UnusedLobby(l)
        /\ status' = [status EXCEPT ![l] = "waiting"]
        /\ members' = [members EXCEPT ![l] = pair[t]]
        /\ timer' = [timer EXCEPT ![l] = "botSearch"]
        /\ party' = [party EXCEPT ![l] = pair[t]]
  BY DEF CreateBotLobby, Schedule
<1>2. /\ UNCHANGED <<op, knocking, cancelled, userMap, inFlight, room, told>>
      /\ stage[t] = "botLobby" /\ stage' = [stage EXCEPT ![t] = "claims"]
      /\ pair' = [pair EXCEPT ![t] = {}]
  BY DEF CreateBotLobby, Goto, NextFallback, queueVars, flagVars, userVars
<1>3. /\ members'[l] = pair[t] /\ status'[l] = "waiting" /\ timer'[l] = "botSearch"
      /\ party'[l] = pair[t] /\ pair'[t] = {} /\ stage'[t] = "claims"
      /\ \A k \in Lobbies \ {l} : /\ members'[k] = members[k] /\ status'[k] = status[k]
                                  /\ timer'[k] = timer[k] /\ party'[k] = party[k]
      /\ \A o \in Tickers \ {t} : stage'[o] = stage[o] /\ pair'[o] = pair[o]
  BY <1>1, <1>2 DEF TypeOK
<1>4. \A u \in pair[t] : ~InLobby(u) /\ Claimed(u)
  BY <1>2 DEF SearchInv, TickRight, Claimed
<1>5. \A u \in Users : InLobby(u)' => InLobby(u) \/ u \in pair[t]
  BY <1>3 DEF InLobby
<1>6. ASSUME NEW u \in Users PROVE PlayerRight(u)' /\ Owed(u)'
  <2>1. PlayerRight(u) /\ Owed(u) BY DEF SearchInv
  <2>2. u \in inFlight => \E o \in Tickers : u \in pair'[o] /\ stage'[o] \in PairStages
    <3>1. stage[t] \notin PairStages BY <1>2 DEF PairStages
    <3>2. QED BY <1>3, <2>1, <3>1 DEF PlayerRight
  <2>3. (Claimed(u)' => Claimed(u)) /\ (Asking(u)' <=> Asking(u))
    BY <1>2, <1>3 DEF Claimed, Asking
  <2>4. PlayerRight(u)' BY <1>2, <1>4, <1>5, <2>1, <2>2, <2>3 DEF PlayerRight
  <2>5. Owed(u)'
    <3>1. SUFFICES ASSUME told[u] = "searching" PROVE Answered(u)' BY <1>2 DEF Owed
    <3>2. Answered(u) BY <2>1, <3>1 DEF Owed
    <3>3. CASE u \in pair[t] BY <1>3, <3>3 DEF Answered
    <3>4. CASE u \notin pair[t]
      <4>1. \A k \in Lobbies : status[k] = "waiting" => k # l BY <1>1 DEF UnusedLobby
      <4>2. QED BY <1>2, <1>3, <3>2, <3>4, <4>1 DEF Answered
    <3>5. QED BY <3>3, <3>4
  <2>6. QED BY <2>4, <2>5
<1>7. ASSUME NEW o \in Tickers PROVE TickRight(o)'
  <2>1. TickRight(o) BY DEF SearchInv
  <2>2. CASE o = t
    BY <1>3, <2>2 DEF TickRight, Resting, BotStages
  <2>3. CASE o # t
    <3>1. \A u \in pair[o] : u \notin pair[t] BY <2>1, <2>3 DEF TickRight
    <3>2. \A u \in pair[o] : InLobby(u)' => InLobby(u)
      BY <1>5, <3>1 DEF TypeOK
    <3>3. stage[o] = "announce" => timer'[room[o]] = "none"
      BY <1>1, <2>1 DEF TickRight, UnusedLobby, TypeOK
    <3>4. \A k \in Tickers : stage'[k] = "announce" => k # t BY <1>3
    <3>5. QED BY <1>2, <1>3, <2>1, <2>3, <3>2, <3>3, <3>4 DEF TickRight
  <2>4. QED BY <2>2, <2>3
<1>8. ASSUME NEW k \in Lobbies PROVE LobbyRight(k)'
  <2>1. LobbyRight(k) BY DEF SearchInv
  <2>2. \A u \in members'[k] : \A j \in Lobbies : u \in members'[j] => j = k
    BY <1>3, <1>4, <2>1 DEF LobbyRight, InLobby
  <2>3. \E u \in Users : pair[t] = {u} BY <1>2 DEF SearchInv, TickRight, BotStages
  <2>4. QED BY <1>3, <2>1, <2>2, <2>3 DEF LobbyRight
<1>9. QED BY <1>6, <1>7, <1>8 DEF SearchInv

\* Nothing blocks a claimed pair before its lobby: they neither search nor sit anywhere.
LEMMA ClaimedFree ==
    ASSUME SearchInv, NEW t \in Tickers, stage[t] \notin {"announce", "clear"},
           NEW u \in Users, u \in pair[t]
    PROVE  ~SessionBlocked(u) /\ (stage[t] \in BotStages => u \notin inFlight)
<1>1. Claimed(u) /\ PlayerRight(u) /\ TickRight(t) BY DEF Claimed, SearchInv
<1>2. ~InLobby(u) /\ userMap[u] = NoSearch BY <1>1 DEF PlayerRight, TickRight
<1>3. stage[t] \in BotStages => u \notin inFlight
  BY <1>1 DEF PlayerRight, TickRight, BotStages, PairStages
<1>4. QED BY <1>2, <1>3 DEF SessionBlocked

\* A claimed player whose marker is set, and who is shown a search, is leaving.
LEMMA MarkedLeaves ==
    ASSUME SearchInv, NEW u \in Users, u \in cancelled, told[u] = "searching"
    PROVE  op[u] = "leaving"
BY DEF SearchInv, PlayerRight

\* A fallback that ends without a lobby lets its player go.
LEMMA FallbackEnds ==
    ASSUME TypeOK, SearchInv, NEW t \in Tickers, stage[t] \in BotStages, NextFallback(t),
           UserKept, SeatsKept, UNCHANGED <<userMap, room, inFlight>>,
           \A u \in Users \ pair[t] : told'[u] = told[u],
           \A u \in pair[t] : \/ told'[u] = "idle"
                              \/ told'[u] = told[u] /\ u \in cancelled
    PROVE  SearchInv'
<1>1. \A u \in pair[t] : u \in Users BY DEF TypeOK
<1>2. \A u \in pair[t] : u \notin inFlight
  BY <1>1, ClaimedFree DEF BotStages
<1>3. /\ stage'[t] \in Resting /\ pair'[t] = {}
      /\ \A o \in Tickers \ {t} : stage'[o] = stage[o] /\ pair'[o] = pair[o] /\ room'[o] = room[o]
  BY DEF NextFallback, Goto, TypeOK, Resting
<1>4. \A u \in pair[t] :
         /\ told'[u] = told[u] \/ told'[u] # "searching"
         /\ told'[u] = "searching" => op[u] = "leaving"
  BY <1>1, MarkedLeaves
<1>5. LetsGo(t) BY <1>2, <1>3, <1>4 DEF LetsGo
<1>6. QED BY <1>5, LetGoKeeps

\* Every step of a tick keeps the invariant.
LEMMA TickerSearches ==
    ASSUME TypeOK, LeaveInv, SearchInv, ~Faults, NEW t \in Tickers, Ticker(t)
    PROVE  SearchInv'
<1> USE DEF Goto, UserKept, SeatsKept, queueVars, flagVars, userVars, lobbyVars
<1>0. /\ TickRight(t) /\ pair[t] \subseteq Users /\ online = Users
      /\ \A us \in SUBSET Users : us \cap online = us
  BY DEF SearchInv, TypeOK, LeaveInv, Calm
<1>s. stage \in [Tickers -> Stages] /\ pair \in [Tickers -> SUBSET Users]
      /\ told \in [Users -> {"idle", "searching", "found", "draft"}]
      /\ userMap \in [Users -> Searches \cup {NoSearch}]
  BY DEF TypeOK
<1>1. CASE StartTick(t) \/ EndFallbacks(t) \/ EndTick(t)
  <2>1. Advances(t)
    BY <1>1, <1>s DEF StartTick, EndFallbacks, EndTick, Advances, Resting
  <2>2. QED BY <2>1, AdvanceKeeps
<1>2. CASE ClaimFallback(t)
  <2>1. PICK s \in todo[t] :
          IF s \in queue /\ Mapped(s)
             THEN /\ userMap' = [userMap EXCEPT ![Owner(s)] = NoSearch]
                  /\ pair' = [pair EXCEPT ![t] = {Owner(s)}]
                  /\ Goto(t, "botCancel")
             ELSE UNCHANGED <<userMap, pair, stage>>
    BY <1>2 DEF ClaimFallback
  <2>2. s \in Searches /\ Owner(s) \in Users BY OwnerTypes DEF TypeOK
  <2>3. stage[t] = "claims" /\ UNCHANGED <<op, knocking, cancelled, inFlight, status, members,
                                           timer, party, room, told>>
    BY <1>2 DEF ClaimFallback
  <2>4. CASE s \in queue /\ Mapped(s)
    <3>1. userMap[Owner(s)] # NoSearch BY <2>2, <2>4, NamesAssumption DEF Mapped
    <3>2. pair[t] = {} BY <1>0, <2>3 DEF TickRight, Resting
    <3>3. Claims(t, {Owner(s)})
      BY <1>s, <2>1, <2>2, <2>3, <2>4, <3>1, <3>2 DEF Claims
    <3>4. QED BY <3>3, ClaimKeeps
  <2>5. CASE ~(s \in queue /\ Mapped(s))
    <3>1. Advances(t) BY <2>1, <2>3, <2>5 DEF Advances, Resting
    <3>2. QED BY <3>1, AdvanceKeeps
  <2>6. QED BY <2>4, <2>5
<1>3. CASE PairTwo(t)
  <2>1. stage[t] = "pairs" /\ UNCHANGED <<op, knocking, cancelled, inFlight, status, members,
                                          timer, party, room, told>>
    BY <1>3 DEF PairTwo
  <2>2. \/ \E a, b \in queue :
              /\ Mapped(a) /\ Mapped(b)
              /\ userMap' = [userMap EXCEPT ![Owner(a)] = NoSearch, ![Owner(b)] = NoSearch]
              /\ pair' = [pair EXCEPT ![t] = {Owner(a), Owner(b)}]
              /\ Goto(t, "flag")
        \/ Goto(t, "idle") /\ UNCHANGED <<userMap, pair>>
    BY <1>3 DEF PairTwo
  <2>3. ASSUME NEW a \in queue, NEW b \in queue, Mapped(a), Mapped(b),
               userMap' = [userMap EXCEPT ![Owner(a)] = NoSearch, ![Owner(b)] = NoSearch],
               pair' = [pair EXCEPT ![t] = {Owner(a), Owner(b)}],
               Goto(t, "flag")
        PROVE  SearchInv'
    <3>1. a \in Searches /\ b \in Searches /\ Owner(a) \in Users /\ Owner(b) \in Users
      BY OwnerTypes DEF TypeOK
    <3>2. userMap[Owner(a)] # NoSearch /\ userMap[Owner(b)] # NoSearch
      BY <2>3, <3>1, NamesAssumption DEF Mapped
    <3>3. pair[t] = {} BY <1>0, <2>1 DEF TickRight, Resting
    <3>4. userMap' \in [Users -> Searches \cup {NoSearch}]
          /\ \A u \in Users : userMap'[u] = IF u \in {Owner(a), Owner(b)} THEN NoSearch ELSE userMap[u]
      BY <1>s, <2>3, <3>1
    <3>5. Claims(t, {Owner(a), Owner(b)})
      BY <1>s, <2>1, <2>3, <3>1, <3>2, <3>3, <3>4 DEF Claims
    <3>6. QED BY <3>5, ClaimKeeps
  <2>4. CASE Goto(t, "idle") /\ UNCHANGED <<userMap, pair>>
    <3>1. Advances(t) BY <1>s, <2>1, <2>4 DEF Advances, Resting
    <3>2. QED BY <3>1, AdvanceKeeps
  <2>5. QED BY <2>2, <2>3, <2>4
<1>4. CASE SetPairingInFlight(t)
  <2>1. Advances(t)
    BY <1>4, <1>s DEF SetPairingInFlight, Advances, Early, PairStages
  <2>2. QED BY <2>1, AdvanceKeeps
<1>5. CASE CheckCancelFlags(t)
  <2>1. CASE pair[t] \cap cancelled # {}
    <3>1. /\ \A u \in Users \ pair[t] : told'[u] = told[u]
          /\ \A u \in pair[t] : told'[u] = IF u \in cancelled THEN told[u] ELSE "idle"
      BY <1>5, <2>1, <1>0 DEF CheckCancelFlags, ReleaseUncancelled, Tell
    <3>2. \A u \in pair[t] :
            /\ told'[u] = told[u] \/ told'[u] # "searching"
            /\ told'[u] = "searching" => op[u] = "leaving"
      BY <3>1, <1>0, MarkedLeaves
    <3>3. stage[t] \in PairStages /\ stage'[t] = "clear"
          /\ \A o \in Tickers \ {t} : stage'[o] = stage[o]
      BY <1>5, <2>1, <1>s DEF CheckCancelFlags, PairStages
    <3>4. UNCHANGED <<op, knocking, cancelled, userMap, inFlight, status, members, timer, party,
                      pair, room>>
      BY <1>5 DEF CheckCancelFlags
    <3>5. LetsGo(t) BY <3>1, <3>2, <3>3, <3>4 DEF LetsGo
    <3>6. QED BY <3>5, LetGoKeeps
  <2>2. CASE pair[t] \cap cancelled = {}
    <3>1. Advances(t)
      BY <1>5, <2>2, <1>s DEF CheckCancelFlags, Advances, Early, PairStages
    <3>2. QED BY <3>1, AdvanceKeeps
  <2>3. QED BY <2>1, <2>2
<1>6. CASE CheckSockets(t)
  <2>1. Advances(t)
    BY <1>6, <1>0, <1>s DEF CheckSockets, Advances, Early, PairStages
  <2>2. QED BY <2>1, AdvanceKeeps
<1>7. CASE DropAbsent(t) \/ Requeue(t)
  BY <1>0, <1>7 DEF DropAbsent, Requeue, TickRight
<1>8. CASE CheckUsers(t)
  <2>1. CASE Goto(t, "cancel2") /\ UNCHANGED <<queueVars, told>>
    <3>1. Advances(t)
      BY <1>8, <2>1, <1>s DEF CheckUsers, Advances, Early, PairStages
    <3>2. QED BY <3>1, AdvanceKeeps
  <2>2. CASE Goto(t, "clear") /\ Tell(pair[t], "idle") /\ UNCHANGED queueVars
    <3>1. \A u \in Users : told'[u] = IF u \in pair[t] THEN "idle" ELSE told[u]
      BY <2>2, <1>0 DEF Tell
    <3>2. stage[t] \in PairStages /\ stage'[t] = "clear"
          /\ \A o \in Tickers \ {t} : stage'[o] = stage[o]
      BY <1>8, <2>2, <1>s DEF CheckUsers, PairStages
    <3>3. UNCHANGED <<op, knocking, cancelled, userMap, inFlight, status, members, timer, party,
                      pair, room>>
      BY <1>8, <2>2 DEF CheckUsers
    <3>4. LetsGo(t) BY <1>0, <3>1, <3>2, <3>3 DEF LetsGo
    <3>5. QED BY <3>4, LetGoKeeps
  <2>3. QED BY <1>8, <2>1, <2>2 DEF CheckUsers
<1>9. CASE CheckSession(t)
  <2>1. \A u \in pair[t] : ~SessionBlocked(u)
    BY <1>0, <1>9, ClaimedFree DEF CheckSession
  <2>2. Advances(t)
    BY <1>9, <2>1, <1>s DEF CheckSession, Advances, Early, PairStages
  <2>3. QED BY <2>2, AdvanceKeeps
<1>10. CASE CreateLobby(t) BY <1>10, CreateKeeps
<1>11. CASE Announce(t) BY <1>11, AnnounceKeeps
<1>12. CASE ClearPairingInFlight(t)
  <2>1. /\ stage[t] = "clear" /\ stage'[t] = "pairs" /\ pair'[t] = {}
        /\ \A o \in Tickers \ {t} : stage'[o] = stage[o] /\ pair'[o] = pair[o] /\ room'[o] = room[o]
    BY <1>12, <1>s DEF ClearPairingInFlight, TypeOK
  <2>2. UNCHANGED <<op, knocking, cancelled, userMap, told, status, members, timer, party>>
        /\ inFlight' = inFlight \ pair[t]
    BY <1>12 DEF ClearPairingInFlight
  <2>3. LetsGo(t) BY <2>1, <2>2 DEF LetsGo, Resting
  <2>4. QED BY <2>3, LetGoKeeps
<1>13. CASE PairingThrows(t) \/ BotThrows(t)
  BY <1>13 DEF PairingThrows, BotThrows
<1>14. CASE BotCheckCancel(t) \/ BotStart(t)
  <2>0. /\ stage[t] \in BotStages
        /\ UNCHANGED <<op, knocking, cancelled, userMap, inFlight, status, members, timer, party,
                       room, told>>
    BY <1>14 DEF BotCheckCancel, BotStart, BotStages
  <2>1. CASE pair[t] \cap cancelled # {}
    <3>1. NextFallback(t) BY <1>14, <2>1 DEF BotCheckCancel, BotStart
    <3>2. \A u \in pair[t] : u \in cancelled BY <1>0, <2>0, <2>1 DEF TickRight
    <3>3. QED BY <2>0, <3>1, <3>2, FallbackEnds
  <2>2. CASE pair[t] \cap cancelled = {}
    <3>1. Advances(t)
      BY <1>14, <2>0, <2>2, <1>s DEF BotCheckCancel, BotStart, Advances, BotStages
    <3>2. QED BY <3>1, AdvanceKeeps
  <2>3. QED BY <2>1, <2>2
<1>15. CASE BotCheckSession(t)
  <2>1. \A u \in pair[t] : ~SessionBlocked(u) /\ u \notin inFlight
    BY <1>0, <1>15, ClaimedFree DEF BotCheckSession, BotStages
  <2>2. Advances(t)
    BY <1>15, <2>1, <1>s DEF BotCheckSession, Advances, BotStages
  <2>3. QED BY <2>2, AdvanceKeeps
<1>16. CASE BotCheckSocket(t)
  <2>0. /\ stage[t] \in BotStages
        /\ UNCHANGED <<op, knocking, cancelled, userMap, inFlight, status, members, timer, party, room>>
    BY <1>16 DEF BotCheckSocket, BotStages
  <2>1. CASE NextFallback(t) /\ Tell(pair[t], "idle")
    <3>1. \A u \in Users : told'[u] = IF u \in pair[t] THEN "idle" ELSE told[u]
      BY <2>1, <1>0 DEF Tell
    <3>2. QED BY <1>0, <2>0, <2>1, <3>1, FallbackEnds
  <2>2. CASE Goto(t, "botStart") /\ UNCHANGED <<pair, told>>
    <3>1. Advances(t) BY <2>0, <2>2, <1>s DEF Advances, BotStages
    <3>2. QED BY <3>1, AdvanceKeeps
  <2>3. QED BY <1>16, <2>1, <2>2 DEF BotCheckSocket
<1>17. CASE CreateBotLobby(t)
  <2>1. CASE UNCHANGED lobbyVars /\ Tell(pair[t], "idle")
    <3>0. /\ stage[t] \in BotStages /\ NextFallback(t)
          /\ UNCHANGED <<op, knocking, cancelled, userMap, inFlight, status, members, timer, party,
                         room>>
      BY <1>17, <2>1 DEF CreateBotLobby, BotStages
    <3>1. \A u \in Users : told'[u] = IF u \in pair[t] THEN "idle" ELSE told[u]
      BY <2>1, <1>0 DEF Tell
    <3>2. QED BY <1>0, <3>0, <3>1, FallbackEnds
  <2>2. CASE ~UNCHANGED lobbyVars BY <1>17, <2>2, BotLobbyKeeps
  <2>3. CASE UNCHANGED lobbyVars /\ ~Tell(pair[t], "idle")
    <3>1. PICK l \in Lobbies : UnusedLobby(l) /\ timer' = [timer EXCEPT ![l] = "botSearch"]
      BY <1>17, <2>3 DEF CreateBotLobby, Schedule
    <3>2. QED BY <2>3, <3>1 DEF UnusedLobby, TypeOK
  <2>4. QED BY <2>1, <2>2, <2>3
<1>18. QED
  BY <1>1, <1>2, <1>3, <1>4, <1>5, <1>6, <1>7, <1>8, <1>9, <1>10, <1>11, <1>12, <1>13, <1>14,
     <1>15, <1>16, <1>17 DEF Ticker

-----------------------------------------------------------------------------
(* The steps of everybody else *)

\* The lobby whose callback answers u keeps it.
BotWaits(u, l) == timer[l] = "botSearch" /\ status[l] = "waiting" /\ u \in members[l]

\* No claim moves, no lobby is created and no timer is set.
LobbiesShed ==
    /\ UNCHANGED <<inFlight, stage, pair, room, party>>
    /\ \A l \in Lobbies :
         /\ timer[l] = "none" => timer'[l] = "none"
         /\ timer'[l] \in BotTimers => timer[l] \in BotTimers
         /\ members'[l] \subseteq members[l]
         /\ status'[l] # "none" => status[l] # "none" /\ members'[l] = members[l]

\* The player is at most told that no search is on, and keeps the lobby that answers one.
Bystander(u) ==
    /\ op'[u] = op[u] /\ (u \in knocking' <=> u \in knocking)
    /\ (u \in cancelled' <=> u \in cancelled) /\ userMap'[u] = userMap[u]
    /\ told'[u] = told[u] \/ (told'[u] # "searching" /\ userMap[u] = NoSearch)
    /\ told'[u] = "searching" => \/ op[u] = "leaving"
                                 \/ \A l \in Lobbies : BotWaits(u, l) => BotWaits(u, l)'

\* A step of others is safe for bystanders; who acts must be right afterwards.
LEMMA OthersKeep ==
    ASSUME TypeOK, SearchInv, LobbiesShed,
           \A u \in Users : Bystander(u) \/ (PlayerRight(u)' /\ Owed(u)')
    PROVE  SearchInv'
<1> USE DEF LobbiesShed, Bystander
<1>1. \A u \in Users : InLobby(u)' => InLobby(u) BY DEF InLobby
<1>2. ASSUME NEW u \in Users, Bystander(u) PROVE PlayerRight(u)' /\ Owed(u)'
  <2>1. PlayerRight(u) /\ Owed(u) BY DEF SearchInv
  <2>2. (Claimed(u)' <=> Claimed(u)) /\ (Asking(u)' <=> Asking(u))
    BY <1>2 DEF Claimed, Asking
  <2>3. PlayerRight(u)' BY <1>1, <1>2, <2>1, <2>2 DEF PlayerRight
  <2>4. Owed(u)'
    <3>1. SUFFICES ASSUME told'[u] = "searching" PROVE Answered(u)' BY DEF Owed
    <3>2. Answered(u) BY <1>2, <2>1, <3>1 DEF Owed
    <3>3. CASE op[u] = "leaving" BY <1>2, <3>3 DEF Answered
    <3>4. CASE \A l \in Lobbies : BotWaits(u, l) => BotWaits(u, l)'
      BY <1>2, <3>2, <3>4 DEF Answered, BotWaits
    <3>5. QED BY <1>2, <3>1, <3>3, <3>4
  <2>5. QED BY <2>3, <2>4
<1>3. ASSUME NEW t \in Tickers PROVE TickRight(t)'
  BY <1>1 DEF SearchInv, TickRight, TypeOK
<1>4. ASSUME NEW l \in Lobbies PROVE LobbyRight(l)'
  BY DEF SearchInv, LobbyRight
<1>5. QED BY <1>2, <1>3, <1>4 DEF SearchInv

\* The player a bot is on its way to sits in that lobby alone and in no other.
LEMMA BotsPlayer ==
    ASSUME TypeOK, SearchInv, NEW l \in Lobbies, timer[l] \in BotTimers, status[l] = "waiting",
           NEW u \in members[l]
    PROVE  /\ members[l] = {u} /\ party[l] = {u}
           /\ \A k \in Lobbies : u \in members[k] => k = l
BY DEF SearchInv, LobbyRight, TypeOK

\* A seated player has no search mapped.
LEMMA SeatedUnmapped ==
    ASSUME TypeOK, SearchInv
    PROVE  \A u \in Users : InLobby(u) => userMap[u] = NoSearch
BY DEF SearchInv, PlayerRight

\* A draft-start callback that gives up leaves its player told, leaving, or elsewhere.
LEMMA CallbackSearches ==
    ASSUME TypeOK, LeaveInv, SearchInv, NEW l \in Lobbies, Callbacks(l)
    PROVE  SearchInv'
<1> USE DEF BotWaits
<1>0. /\ online = Users /\ healing = {} /\ \A us \in SUBSET Users : us \cap online = us
      /\ members[l] \subseteq Users /\ party[l] \subseteq Users
  BY DEF LeaveInv, Calm, TypeOK
<1>k. UNCHANGED <<inFlight, stage, pair, room, party, op, knocking, cancelled, userMap>>
  BY DEF Callbacks, DraftCheckCancel, BotCallback, StartDraft, HealDraft, MatchOver, queueVars,
     flagVars, userVars, jobVars
<1>s. /\ status \in [Lobbies -> {"none", "waiting", "active"}]
      /\ members \in [Lobbies -> SUBSET Users] /\ timer \in [Lobbies -> Timers]
      /\ told \in [Users -> {"idle", "searching", "found", "draft"}]
  BY DEF TypeOK
<1>1. CASE DraftCheckCancel(l)
  <2>1. /\ UNCHANGED <<status, members, told>> /\ timer[l] = "found"
        /\ timer'[l] \in {"none", "checked"} /\ \A k \in Lobbies \ {l} : timer'[k] = timer[k]
    BY <1>1, <1>s DEF DraftCheckCancel
  <2>2. \A k \in Lobbies :
          /\ timer[k] = "none" => timer'[k] = "none"
          /\ timer'[k] \in BotTimers => timer[k] \in BotTimers
          /\ timer[k] = "botSearch" => timer'[k] = "botSearch"
    BY <2>1 DEF BotTimers
  <2>3. QED BY <1>k, <2>1, <2>2, OthersKeep DEF LobbiesShed, Bystander
<1>2. CASE BotCallback(l)
  <2>0. timer[l] \in BotTimers BY <1>2 DEF BotCallback, BotTimers
  <2>1. /\ timer'[l] \in {"none", "botFound", "botChecked"}
        /\ \A k \in Lobbies \ {l} :
              timer'[k] = timer[k] /\ status'[k] = status[k] /\ members'[k] = members[k]
        /\ \/ status'[l] = status[l] /\ members'[l] = members[l]
           \/ status'[l] = "none" /\ members'[l] = {}
    BY <1>2, <1>s DEF BotCallback, AbortLobbies
  <2>2. ASSUME NEW u \in Users
        PROVE  /\ told'[u] = told[u] \/ (told'[u] # "searching" /\ userMap[u] = NoSearch)
               /\ told'[u] = "searching" => op[u] = "leaving" \/ ~BotWaits(u, l)
    <3>1. status[l] = "waiting" /\ u \in members[l] =>
            party[l] = {u} /\ \A k \in Lobbies : u \in members[k] => k = l
      BY <2>0, BotsPlayer
    <3>2. CASE party[l] \cap cancelled # {} /\ told' = told
      BY <3>1, <3>2, MarkedLeaves
    <3>3. CASE status[l] = "none" /\ Tell({v \in party[l] : ~SessionBlocked(v)}, "idle")
      <4>1. \A v \in Users : told'[v] = told[v] \/ (told'[v] = "idle" /\ ~SessionBlocked(v))
        BY <3>3 DEF Tell
      <4>2. QED BY <3>3, <4>1 DEF SessionBlocked
    <3>4. CASE status[l] = "active" /\ told' = told BY <3>4
    <3>5. CASE status[l] = "waiting" /\ told' = told
               /\ \E o \in Lobbies \ {l} : members[o] \cap party[l] # {}
      BY <3>1, <3>5
    <3>6. CASE status[l] = "waiting" /\ timer[l] = "botSearch" /\ Tell(party[l], "found")
      <4>1. \E v \in Users : party[l] = {v} /\ members[l] = {v}
        BY <2>0, <3>6 DEF SearchInv, LobbyRight
      <4>2. \A v \in Users : told'[v] = IF v \in party[l] THEN "found" ELSE told[v]
        BY <1>0, <3>6 DEF Tell
      <4>3. u \in party[l] => InLobby(u) BY <4>1 DEF InLobby
      <4>4. QED BY <4>1, <4>2, <4>3, SeatedUnmapped
    <3>7. CASE timer[l] # "botSearch" /\ told' = told /\ party[l] \cap cancelled = {}
      BY <3>7
    <3>8. QED
      BY <1>2, <3>2, <3>3, <3>4, <3>5, <3>6, <3>7 DEF BotCallback
  <2>3. \A k \in Lobbies :
          /\ timer[k] = "none" => timer'[k] = "none"
          /\ timer'[k] \in BotTimers => timer[k] \in BotTimers
          /\ members'[k] \subseteq members[k]
          /\ status'[k] # "none" => status[k] # "none" /\ members'[k] = members[k]
    BY <2>0, <2>1 DEF BotTimers
  <2>4. \A u \in Users : told'[u] = "searching" => \/ op[u] = "leaving"
                                                  \/ \A k \in Lobbies : BotWaits(u, k) => BotWaits(u, k)'
    BY <2>1, <2>2
  <2>5. QED BY <1>k, <2>2, <2>3, <2>4, OthersKeep DEF LobbiesShed, Bystander
<1>3. CASE StartDraft(l)
  <2>1. /\ timer[l] \notin {"none", "botSearch"} /\ timer'[l] = "none"
        /\ \A k \in Lobbies \ {l} : timer'[k] = timer[k] /\ status'[k] = status[k]
        /\ members' = members /\ (status'[l] # "none" => status[l] # "none")
    BY <1>3, <1>s DEF StartDraft, Activate
  <2>2. ASSUME NEW u \in Users
        PROVE  told'[u] = told[u] \/ (told'[u] # "searching" /\ userMap[u] = NoSearch)
    <3>1. CASE told' = told BY <3>1
    <3>2. CASE Tell({v \in party[l] : ~SessionBlocked(v)}, "idle")
      BY <3>2 DEF Tell, SessionBlocked
    <3>3. CASE Tell(members[l], "draft")
      <4>1. u \in members[l] => InLobby(u) BY DEF InLobby
      <4>2. QED BY <3>3, <4>1, SeatedUnmapped DEF Tell
    <3>4. QED BY <1>3, <3>1, <3>2, <3>3 DEF StartDraft, Activate
  <2>3. \A k \in Lobbies :
          /\ timer[k] = "none" => timer'[k] = "none"
          /\ timer'[k] \in BotTimers => timer[k] \in BotTimers
          /\ timer[k] = "botSearch" => timer'[k] = timer[k] /\ status'[k] = status[k]
          /\ status'[k] # "none" => status[k] # "none"
    BY <2>1 DEF BotTimers
  <2>4. QED BY <1>k, <2>1, <2>2, <2>3, OthersKeep DEF LobbiesShed, Bystander
<1>4. CASE HealDraft(l) BY <1>0, <1>4 DEF HealDraft
<1>5. CASE MatchOver(l)
  <2>1. /\ timer' = timer /\ status[l] = "active" /\ status'[l] = "none" /\ members'[l] = {}
        /\ \A k \in Lobbies \ {l} : status'[k] = status[k] /\ members'[k] = members[k]
        /\ \A u \in Users : told'[u] = IF u \in members[l] THEN "idle" ELSE told[u]
    BY <1>5, <1>0, <1>s DEF MatchOver, AbortLobbies, Tell
  <2>2. \A u \in members[l] : InLobby(u) BY DEF InLobby
  <2>3. \A u \in Users : told'[u] = told[u] \/ (told'[u] # "searching" /\ userMap[u] = NoSearch)
    BY <2>1, <2>2, SeatedUnmapped
  <2>4. \A u \in Users : \A k \in Lobbies : BotWaits(u, k) => BotWaits(u, k)'
    BY <2>1
  <2>5. \A k \in Lobbies :
          /\ members'[k] \subseteq members[k]
          /\ status'[k] # "none" => status[k] # "none" /\ members'[k] = members[k]
    BY <2>1
  <2>6. QED BY <1>k, <2>1, <2>3, <2>4, <2>5, OthersKeep DEF LobbiesShed, Bystander
<1>6. QED BY <1>1, <1>2, <1>3, <1>4, <1>5 DEF Callbacks

\* A handler touches one player only, and what it tells is that player's alone.
OnlyActs(u) ==
    \A v \in Users \ {u} :
       /\ op'[v] = op[v] /\ (v \in knocking' <=> v \in knocking)
       /\ (v \in cancelled' <=> v \in cancelled) /\ userMap'[v] = userMap[v]
       /\ told'[v] = told[v]

\* A handler that closes no lobby keeps the invariant when its player is right.
LEMMA HandlerKeeps ==
    ASSUME TypeOK, SearchInv, NEW u \in Users, OnlyActs(u),
           UNCHANGED <<inFlight, stage, pair, room, party, timer, members, status>>,
           PlayerRight(u)', told'[u] = "searching" => Answered(u)'
    PROVE  SearchInv'
<1>1. LobbiesShed BY DEF LobbiesShed
<1>2. \A v \in Users \ {u} : Bystander(v) BY DEF OnlyActs, Bystander, BotWaits
<1>3. QED BY <1>1, <1>2, OthersKeep DEF Owed

\* The cancel script touches the mappings of its player only.
LEMMA CancelOwn ==
    ASSUME QueueRight, NEW u \in Users, CancelSearches({u})
    PROVE  userMap'[u] = NoSearch /\ \A v \in Users \ {u} : userMap'[v] = userMap[v]
<1>1. userMap'[u] = NoSearch BY CancelClears
<1>2. \A v \in Users \ {u} : userMap'[v] = userMap[v] BY DEF CancelSearches
<1>3. QED BY <1>1, <1>2

\* A join asks only while nothing else is on for its player.
LEMMA JoinSearches ==
    ASSUME TypeOK, QueueRight, LeaveInv, SearchInv, ~ReEmits, ~SlowClaims, NEW u \in Users,
           \/ RequestJoin(u) \/ RefuseJoin(u) \/ DebounceJoin(u) \/ GiveUpJoin(u) \/ LockJoin(u)
           \/ PrepareJoin(u) \/ Uncancel(u) \/ Resume(u) \/ JoinQueue(u)
    PROVE  SearchInv'
<1> USE DEF queueVars, flagVars, userVars, jobVars, lobbyVars
<1>0. /\ PlayerRight(u) /\ Owed(u) /\ online = Users /\ {u} \cap online = {u}
      BY DEF SearchInv, LeaveInv, Calm
<1>s. /\ op \in [Users -> Ops] /\ told \in [Users -> {"idle", "searching", "found", "draft"}]
      /\ userMap \in [Users -> Searches \cup {NoSearch}]
  BY DEF TypeOK
<1>a. Asking(u) => /\ told[u] # "searching" /\ userMap[u] = NoSearch /\ ~Claimed(u) /\ ~InLobby(u)
                   /\ u \notin inFlight
  BY <1>0 DEF PlayerRight, Claimed
<1>k. UNCHANGED <<inFlight, stage, pair, room, party, timer>>
  BY DEF RequestJoin, RefuseJoin, DebounceJoin, GiveUpJoin, LockJoin, PrepareJoin, Uncancel, Resume,
     JoinQueue
<1>1. CASE RequestJoin(u)
  <2>1. /\ UNCHANGED <<op, cancelled, userMap, told, members, status>> /\ knocking' = knocking \cup {u}
        /\ told[u] = "idle" /\ op[u] = "none" /\ ~InLobby(u) /\ u \notin inFlight /\ ~Unflagged(u)
    BY <1>1 DEF RequestJoin, MayJoin
  <2>2. ~Claimed(u) BY <2>1 DEF Unflagged, Claimed
  <2>3. ~Claimed(u)' /\ ~InLobby(u)' BY <1>k, <2>1, <2>2 DEF Claimed, InLobby
  <2>4. PlayerRight(u)' BY <1>0, <1>k, <2>1, <2>3 DEF PlayerRight, JoinOps
  <2>5. OnlyActs(u) BY <2>1 DEF OnlyActs
  <2>6. QED BY <1>k, <2>1, <2>4, <2>5, HandlerKeeps
<1>2. CASE RefuseJoin(u)
  <2>1. /\ UNCHANGED <<op, knocking, cancelled, userMap, members, status>>
        /\ told[u] = "idle" /\ \A v \in Users : told'[v] = IF v = u THEN "idle" ELSE told[v]
    BY <1>2, <1>0 DEF RefuseJoin, MayJoin, Tell
  <2>2. OnlyActs(u) /\ told'[u] = told[u] BY <2>1 DEF OnlyActs
  <2>3. (Claimed(u)' <=> Claimed(u)) /\ (InLobby(u)' <=> InLobby(u)) /\ (Asking(u)' <=> Asking(u))
    BY <1>k, <2>1 DEF Claimed, InLobby, Asking
  <2>4. PlayerRight(u)' BY <1>0, <1>k, <2>1, <2>2, <2>3 DEF PlayerRight
  <2>5. QED BY <1>k, <2>1, <2>2, <2>4, HandlerKeeps
<1>3. CASE DebounceJoin(u)
  <2>1. told[u] = "idle" /\ userMap[u] \in queue BY <1>3 DEF DebounceJoin, MayJoin
  <2>2. userMap[u] # NoSearch BY <2>1, NamesAssumption DEF TypeOK
  <2>3. QED BY <1>0, <2>1, <2>2 DEF PlayerRight
<1>4. CASE GiveUpJoin(u)
  <2>1. /\ UNCHANGED <<op, cancelled, userMap, told, members, status>> /\ knocking' = knocking \ {u}
        /\ u \in knocking
    BY <1>4 DEF GiveUpJoin
  <2>2. (Claimed(u)' <=> Claimed(u)) /\ (InLobby(u)' <=> InLobby(u)) /\ (Asking(u)' => Asking(u))
    BY <1>k, <2>1 DEF Claimed, InLobby, Asking
  <2>3. PlayerRight(u)' BY <1>0, <1>k, <2>1, <2>2 DEF PlayerRight
  <2>4. OnlyActs(u) /\ told'[u] # "searching" BY <1>a, <2>1 DEF OnlyActs, Asking
  <2>5. QED BY <1>k, <2>1, <2>3, <2>4, HandlerKeeps
<1>5. CASE LockJoin(u)
  <2>1. /\ UNCHANGED <<cancelled, userMap, members, status>> /\ knocking' = knocking \ {u}
        /\ u \in knocking
    BY <1>5 DEF LockJoin
  <2>2. op' = op \/ op' = [op EXCEPT ![u] = "sawNothing"]
    BY <1>5, <1>a, <2>1 DEF LockJoin, Step, Asking
  <2>3. told' = told \/ Tell({u}, "idle")
    BY <1>5 DEF LockJoin
  <2>4. told'[u] # "searching" /\ \A v \in Users \ {u} : told'[v] = told[v]
    BY <1>a, <2>1, <2>3 DEF Tell, Asking
  <2>5. OnlyActs(u) BY <1>s, <2>1, <2>2, <2>4 DEF OnlyActs
  <2>6. ~Claimed(u)' /\ ~InLobby(u)' BY <1>a, <1>k, <2>1 DEF Claimed, InLobby, Asking
  <2>7. op'[u] \in {"none", "sawNothing"} BY <1>5, <1>s, <2>2 DEF LockJoin
  <2>8. userMap[u] = NoSearch /\ u \notin inFlight BY <1>a, <2>1 DEF Asking
  <2>9. PlayerRight(u)' BY <1>k, <2>1, <2>4, <2>6, <2>7, <2>8 DEF PlayerRight
  <2>10. QED BY <1>k, <2>1, <2>4, <2>5, <2>9, HandlerKeeps
<1>6. CASE PrepareJoin(u)
  <2>0. Asking(u) /\ u \notin knocking
    BY <1>0, <1>6 DEF PrepareJoin, Asking, JoinOps, PlayerRight
  <2>1. UNCHANGED <<knocking, cancelled, told>>
    BY <1>6 DEF PrepareJoin
  <2>2. UNCHANGED <<members, status>>
    <3>1. WaitingLobbies({u}) = {} BY <1>a, <2>0 DEF WaitingLobbies, InLobby
    <3>2. ASSUME AbortLobbies(WaitingLobbies({u})) PROVE UNCHANGED <<members, status>>
      BY <3>1, <3>2 DEF AbortLobbies, TypeOK
    <3>3. QED BY <1>6, <3>2 DEF PrepareJoin
  <2>3. userMap'[u] = NoSearch /\ \A v \in Users \ {u} : userMap'[v] = userMap[v]
    <3>1. CASE userMap' = userMap BY <1>a, <2>0, <3>1
    <3>2. CASE CancelSearches({u}) BY <3>2, CancelOwn
    <3>3. QED BY <1>6, <3>1, <3>2 DEF PrepareJoin
  <2>4. op' = [op EXCEPT ![u] = "uncancel"]
    BY <1>6, <1>a, <2>0 DEF PrepareJoin, Step
  <2>5. OnlyActs(u) BY <1>s, <2>1, <2>3, <2>4 DEF OnlyActs
  <2>6. ~Claimed(u)' /\ ~InLobby(u)' BY <1>a, <1>k, <2>0, <2>2 DEF Claimed, InLobby
  <2>7. op'[u] = "uncancel" /\ told'[u] # "searching" BY <1>a, <1>s, <2>0, <2>1, <2>4
  <2>8. PlayerRight(u)' BY <1>a, <1>k, <2>0, <2>1, <2>3, <2>6, <2>7 DEF PlayerRight
  <2>9. QED BY <1>k, <2>2, <2>5, <2>7, <2>8, HandlerKeeps
<1>7. CASE Uncancel(u)
  <2>0. Asking(u) /\ u \notin knocking
    BY <1>0, <1>7 DEF Uncancel, Asking, JoinOps, PlayerRight
  <2>1. UNCHANGED <<knocking, userMap, told, members, status>> /\ cancelled' = cancelled \ {u}
        /\ op' = [op EXCEPT ![u] = "enqueue"]
    BY <1>7, <1>a, <2>0 DEF Uncancel, Step
  <2>2. OnlyActs(u) BY <1>s, <2>1 DEF OnlyActs
  <2>3. ~Claimed(u)' /\ ~InLobby(u)' BY <1>a, <1>k, <2>0, <2>1 DEF Claimed, InLobby
  <2>4. op'[u] = "enqueue" /\ told'[u] # "searching" BY <1>a, <1>s, <2>0, <2>1
  <2>5. PlayerRight(u)' BY <1>a, <1>k, <2>0, <2>1, <2>3, <2>4 DEF PlayerRight
  <2>6. QED BY <1>k, <2>1, <2>2, <2>4, <2>5, HandlerKeeps
<1>8. CASE Resume(u) BY <1>0, <1>8 DEF Resume, PlayerRight
<1>9. CASE JoinQueue(u)
  <2>0. Asking(u) /\ u \notin knocking /\ u \notin cancelled
    BY <1>0, <1>9 DEF JoinQueue, Asking, JoinOps, PlayerRight, LeaveInv, Marked, Out
  <2>1. PICK n \in Ids : userMap' = [userMap EXCEPT ![u] = <<u, n>>]
    BY <1>9 DEF JoinQueue, Enqueue
  <2>2. userMap'[u] # NoSearch /\ \A v \in Users \ {u} : userMap'[v] = userMap[v]
    BY <1>s, <2>1, NamesAssumption DEF Searches
  <2>3. /\ UNCHANGED <<knocking, cancelled, members, status>> /\ op' = [op EXCEPT ![u] = "none"]
        /\ \A v \in Users : told'[v] = IF v = u THEN "searching" ELSE told[v]
    BY <1>9, <1>0 DEF JoinQueue, Step, Tell
  <2>4. OnlyActs(u) BY <1>s, <2>2, <2>3 DEF OnlyActs
  <2>5. ~Claimed(u)' /\ ~InLobby(u)' BY <1>a, <1>k, <2>0, <2>3 DEF Claimed, InLobby
  <2>6. op'[u] = "none" BY <1>s, <2>3
  <2>7. PlayerRight(u)'
    BY <1>a, <1>k, <2>0, <2>3, <2>5, <2>6 DEF PlayerRight, Asking, JoinOps
  <2>8. Answered(u)' BY <2>2 DEF Answered
  <2>9. QED BY <1>k, <2>3, <2>4, <2>7, <2>8, HandlerKeeps
<1>10. QED BY <1>1, <1>2, <1>3, <1>4, <1>5, <1>6, <1>7, <1>8, <1>9

\* A leave answers its player, and closes no lobby that owes another one a bot.
LEMMA LeaveSearches ==
    ASSUME TypeOK, QueueRight, LeaveInv, SearchInv, NEW u \in Users,
           \/ RequestLeave(u) \/ LeaveQueue(u) \/ LeaveLobbies(u)
           \/ ExpireLeaveGuard(u) \/ ExpireCancel(u)
    PROVE  SearchInv'
<1> USE DEF queueVars, flagVars, userVars, jobVars, lobbyVars
<1>0. PlayerRight(u) /\ Owed(u) /\ online = Users /\ \A us \in SUBSET Users : us \cap online = us
  BY DEF SearchInv, LeaveInv, Calm
<1>s. /\ op \in [Users -> Ops] /\ told \in [Users -> {"idle", "searching", "found", "draft"}]
      /\ userMap \in [Users -> Searches \cup {NoSearch}]
      /\ members \in [Lobbies -> SUBSET Users]
      /\ status \in [Lobbies -> {"none", "waiting", "active"}]
  BY DEF TypeOK
<1>k. UNCHANGED <<inFlight, stage, pair, room, party, timer, knocking>>
  BY DEF RequestLeave, LeaveQueue, LeaveLobbies, ExpireLeaveGuard, ExpireCancel
<1>c. Claimed(u)' <=> Claimed(u) BY <1>k DEF Claimed
<1>1. CASE RequestLeave(u)
  <2>1. UNCHANGED <<userMap, told, members, status>> /\ cancelled' = cancelled \cup {u}
        /\ op' = [op EXCEPT ![u] = "leaving"]
    BY <1>1 DEF RequestLeave, Step
  <2>2. op'[u] = "leaving" /\ OnlyActs(u) BY <1>k, <1>s, <2>1 DEF OnlyActs
  <2>3. (InLobby(u)' <=> InLobby(u)) /\ (Asking(u)' => Asking(u))
    BY <1>k, <2>1, <2>2 DEF InLobby, Asking, JoinOps
  <2>4. PlayerRight(u)' BY <1>0, <1>c, <1>k, <2>1, <2>2, <2>3 DEF PlayerRight, JoinOps
  <2>5. Answered(u)' BY <2>2 DEF Answered
  <2>6. QED BY <1>k, <2>1, <2>2, <2>4, <2>5, HandlerKeeps
<1>2. CASE LeaveQueue(u)
  <2>1. UNCHANGED <<cancelled, members, status>> /\ op' = [op EXCEPT ![u] = "cleaning"]
        /\ \A v \in Users : told'[v] = IF v = u THEN "idle" ELSE told[v]
    BY <1>2, <1>0 DEF LeaveQueue, Step, Tell
  <2>2. userMap'[u] = NoSearch /\ \A v \in Users \ {u} : userMap'[v] = userMap[v]
    BY <1>2, CancelOwn DEF LeaveQueue
  <2>3. op'[u] = "cleaning" /\ OnlyActs(u) BY <1>k, <1>s, <2>1, <2>2 DEF OnlyActs
  <2>4. (InLobby(u)' <=> InLobby(u)) /\ (Asking(u)' => Asking(u))
    BY <1>k, <2>1, <2>3 DEF InLobby, Asking, JoinOps
  <2>5. PlayerRight(u)' BY <1>0, <1>c, <1>k, <2>1, <2>2, <2>3, <2>4 DEF PlayerRight, JoinOps
  <2>6. QED BY <1>k, <2>1, <2>3, <2>5, HandlerKeeps
<1>3. CASE LeaveLobbies(u)
  <2>1. UNCHANGED cancelled /\ op' = [op EXCEPT ![u] = "none"] /\ op[u] = "cleaning"
    BY <1>3 DEF LeaveLobbies, Step
  <2>2. userMap'[u] = NoSearch /\ \A v \in Users \ {u} : userMap'[v] = userMap[v]
    BY <1>3, CancelOwn DEF LeaveLobbies
  <2>3. \A l \in Lobbies : IF u \in members[l]
                             THEN status'[l] = "none" /\ members'[l] = {}
                             ELSE status'[l] = status[l] /\ members'[l] = members[l]
    BY <1>3 DEF LeaveLobbies, AbortLobbies
  <2>4. \A v \in Users :
          told'[v] = IF \E l \in Lobbies : u \in members[l] /\ status[l] = "active" /\ v \in members[l]
                       THEN "idle" ELSE told[v]
    BY <1>3, <1>0 DEF LeaveLobbies, Tell
  <2>5. LobbiesShed BY <1>k, <1>s, <2>3 DEF LobbiesShed
  <2>6. ASSUME NEW v \in Users \ {u} PROVE Bystander(v)
    <3>1. \A l \in Lobbies : BotWaits(v, l) => u \notin members[l]
      BY BotsPlayer DEF BotWaits, BotTimers
    <3>2. \A l \in Lobbies : BotWaits(v, l) => BotWaits(v, l)'
      BY <1>k, <2>3, <3>1 DEF BotWaits
    <3>3. told'[v] = told[v] \/ (told'[v] # "searching" /\ userMap[v] = NoSearch)
      BY <2>4, SeatedUnmapped DEF InLobby
    <3>4. op'[v] = op[v] BY <1>s, <2>1
    <3>5. QED BY <1>k, <2>1, <2>2, <3>2, <3>3, <3>4 DEF Bystander
  <2>7. told'[u] # "searching" BY <1>0, <2>1, <2>4 DEF PlayerRight
  <2>8. op'[u] = "none" BY <1>s, <2>1
  <2>9. (InLobby(u)' => InLobby(u)) /\ (Asking(u)' => Asking(u))
    BY <1>k, <2>3, <2>8 DEF InLobby, Asking, JoinOps
  <2>10. PlayerRight(u)' BY <1>0, <1>c, <1>k, <2>2, <2>7, <2>8, <2>9 DEF PlayerRight, JoinOps
  <2>11. QED BY <2>5, <2>6, <2>7, <2>10, OthersKeep DEF Owed
<1>4. CASE ExpireLeaveGuard(u) \/ ExpireCancel(u)
  <2>1. UNCHANGED <<op, userMap, told, members, status>> /\ cancelled' \in {cancelled, cancelled \ {u}}
    BY <1>4 DEF ExpireLeaveGuard, ExpireCancel
  <2>2. OnlyActs(u) BY <1>k, <2>1 DEF OnlyActs
  <2>3. (InLobby(u)' <=> InLobby(u)) /\ (Asking(u)' <=> Asking(u))
    BY <1>k, <2>1 DEF InLobby, Asking
  <2>4. PlayerRight(u)' BY <1>0, <1>c, <1>k, <2>1, <2>3 DEF PlayerRight
  <2>5. told[u] = "searching" => Answered(u)' BY <1>0, <1>k, <2>1 DEF Owed, Answered
  <2>6. QED BY <1>k, <2>1, <2>2, <2>4, <2>5, HandlerKeeps
<1>5. QED BY <1>1, <1>2, <1>3, <1>4

-----------------------------------------------------------------------------
\* Every step keeps the invariant.
LEMMA SearchNext ==
    /\ Droppers = {} /\ ~Faults /\ ~ReEmits /\ ~SlowClaims
    /\ TypeOK /\ QueueRight /\ LeaveInv /\ SearchInv /\ [Next]_vars
    => SearchInv'
<1> SUFFICES ASSUME Droppers = {}, ~Faults, ~ReEmits, ~SlowClaims,
                    TypeOK, QueueRight, LeaveInv, SearchInv, [Next]_vars
             PROVE  SearchInv'
  OBVIOUS
<1>1. CASE \E t \in Tickers : Ticker(t) BY <1>1, TickerSearches
<1>2. CASE \E l \in Lobbies : Callbacks(l) BY <1>2, CallbackSearches
<1>3. ASSUME NEW u \in Users, Handlers(u) PROVE SearchInv'
  <2>1. CASE Disconnect(u) \/ CleanupDisconnect(u) \/ GiveUpCleanup(u) \/ Connect(u)
    BY <2>1 DEF Disconnect, CleanupDisconnect, GiveUpCleanup, Connect, LeaveInv, Calm
  <2>2. CASE \/ RequestLeave(u) \/ LeaveQueue(u) \/ LeaveLobbies(u)
             \/ ExpireLeaveGuard(u) \/ ExpireCancel(u)
    BY <2>2, LeaveSearches
  <2>3. QED BY <1>3, <2>1, <2>2, JoinSearches DEF Handlers
<1>4. ASSUME NEW u \in Users, NEW l \in Lobbies, LobbyGrace(u, l) PROVE SearchInv'
  BY <1>4 DEF LobbyGrace, LeaveInv, Calm, TypeOK
<1>5. CASE (\E s \in Searches : PassDeadline(s)) \/ UNCHANGED vars
  <2>1. UNCHANGED <<op, knocking, cancelled, userMap, told, inFlight, stage, pair, room, party,
                    timer, members, status>>
    BY <1>5 DEF PassDeadline, vars, queueVars, flagVars, userVars, jobVars, lobbyVars
  <2>2. LobbiesShed /\ \A u \in Users : Bystander(u)
    BY <2>1 DEF LobbiesShed, Bystander, BotWaits
  <2>3. QED BY <2>2, OthersKeep
<1>6. QED BY <1>1, <1>2, <1>3, <1>4, <1>5 DEF Next

\* A client that shows a search is owed an answer, in every state: its search is mapped,
\* a tick holds the player, a lobby waits for its bot, or a leave of its own is on.
THEOREM NobodyStranded ==
    ASSUME Droppers = {}, ~Faults, ~ReEmits, ~SlowClaims
    PROVE  Spec => []NoStrandedSearch
<1>1. Init => SearchInv
  <2>1. ASSUME Init PROVE SearchInv
    <3>1. \A u \in Users : PlayerRight(u) /\ Owed(u)
      BY <2>1 DEF Init, PlayerRight, Owed, Claimed, InLobby, Asking, JoinOps
    <3>2. \A t \in Tickers : TickRight(t)
      BY <2>1 DEF Init, TickRight, BotStages, Resting
    <3>3. \A l \in Lobbies : LobbyRight(l)
      BY <2>1 DEF Init, LobbyRight, BotTimers
    <3>4. QED BY <3>1, <3>2, <3>3 DEF SearchInv
  <2>2. QED BY <2>1
<1>2. TypeOK /\ QueueRight /\ LeaveInv /\ SearchInv /\ [Next]_vars => SearchInv'
  BY SearchNext
<1>3. TypeOK /\ SearchInv => NoStrandedSearch
  <2>1. SUFFICES ASSUME TypeOK, SearchInv, NEW u \in online, told[u] = "searching"
                 PROVE  \/ userMap[u] # NoSearch
                        \/ op[u] # "none" \/ u \in knocking
                        \/ \E t \in Tickers : u \in pair[t]
                        \/ \E l \in Lobbies : timer[l] # "none" /\ u \in party[l]
    BY DEF NoStrandedSearch
  <2>2. u \in Users /\ Answered(u) BY <2>1 DEF TypeOK, SearchInv, Owed
  <2>3. \A l \in Lobbies : timer[l] = "botSearch" /\ status[l] = "waiting" => members[l] = party[l]
    BY <2>1 DEF SearchInv, LobbyRight, BotTimers
  <2>4. QED BY <2>2, <2>3 DEF Answered
<1>4. QED BY <1>1, <1>2, <1>3, LeaveInductive, PTL DEF Spec
===============================================================================
