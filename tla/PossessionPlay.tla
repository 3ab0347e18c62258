---------------------------- MODULE PossessionPlay ----------------------------
(***************************************************************************)
(* The rules of a possession match, as functions of the state that the     *)
(* resolver of a round transforms: the swing of the ball and its goals,    *)
(* the speed streak, the last attack, the ends of the halves, the          *)
(* shoot-out and who won (src/realtime/possession-resolution.ts,           *)
(* possession-state.ts, possession-completion.ts; the streak's bookkeeping *)
(* in possession-round-resolver.ts, the end of half-time in                *)
(* possession-halftime.ts).  PossessionRounds says when they are applied,  *)
(* this module what they do.                                               *)
(*                                                                          *)
(* Left out: the categories, the attempts shown to the players, the seat   *)
(* that kicks off and the deadlines.  A match has both its players.        *)
(***************************************************************************)
EXTENDS Integers

CONSTANTS
    QuestionsPerHalf,  \* POSSESSION_QUESTIONS_PER_HALF
    Regulation,        \* penalties of each seat before sudden death
    MaxSuddenDeath,    \* POSSESSION_MAX_SUDDEN_DEATH_ROUNDS
    Points             \* what an answer may earn

ASSUME RulesAssumption ==
    /\ QuestionsPerHalf \in Nat \ {0}
    /\ Regulation \in Nat \ {0}
    /\ MaxSuddenDeath \in Nat
    /\ Points \subseteq 0..100

Seats == {1, 2}
Nobody == 0
SomeSeat == Seats \cup {Nobody}
Other(seat) == 3 - seat

VARIABLE play  \* possession state, with the scores of the match

PlayStates ==
    [phase : {"normal", "lastAttack", "halftime", "penalty", "completed"},
     half : {1, 2},
     diff : -99..99,               \* possessionDiff
     answered : Nat,               \* normalQuestionsAnsweredInHalf
     attacker : SomeSeat,          \* lastAttack.attackerSeat
     purpose : {"secondHalf", "penalty"},
     holder : SomeSeat,            \* the speed streak: who has it,
     candidate : SomeSeat,         \* who is earning it,
     streak : 0..2,                \* and for how many rounds
     goals : [Seats -> Nat],
     pens : [Seats -> Nat],        \* penaltyGoals
     kicks : [Seats -> Nat],       \* penalty.kicksTaken
     round : Nat,                  \* penalty.round
     shooter : Seats,
     sudden : BOOLEAN,             \* penalty.suddenDeath
     dry : BOOLEAN]                \* ghost: the shoot-out ran out of questions

Zero == [seat \in Seats |-> 0]

InitialPlay ==
    [phase |-> "normal", half |-> 1, diff |-> 0, answered |-> 0, attacker |-> Nobody,
     purpose |-> "secondHalf", holder |-> Nobody, candidate |-> Nobody, streak |-> 0,
     goals |-> Zero, pens |-> Zero, kicks |-> Zero, round |-> 0, shooter |-> 1,
     sudden |-> FALSE, dry |-> FALSE]

Level(f) == f[1] = f[2]

-----------------------------------------------------------------------------
(* Normal play and the last attack *)

\* Mutant: a ball on the line is no goal.
SwingToTheLine(s, p) ==
    LET next == s.diff + p[1] - p[2] IN
    CASE next > 100  -> [s EXCEPT !.diff = 0, !.goals[1] = @ + 1]
      [] next < -100 -> [s EXCEPT !.diff = 0, !.goals[2] = @ + 1]
      [] OTHER       -> [s EXCEPT !.diff = next]

\* applyDeltaAndGoalCheck: at 100 a goal, and the ball returns to the middle.
Swing(s, p) ==
    LET next == s.diff + p[1] - p[2] IN
    CASE next >= 100  -> [s EXCEPT !.diff = 0, !.goals[1] = @ + 1]
      [] next <= -100 -> [s EXCEPT !.diff = 0, !.goals[2] = @ + 1]
      [] OTHER        -> [s EXCEPT !.diff = next]

\* The holder's points count twice for the swing.
Boosted(s, p) == [seat \in Seats |-> IF seat = s.holder THEN 2 * p[seat] ELSE p[seat]]

NoStreak(s) == [s EXCEPT !.holder = Nobody, !.candidate = Nobody, !.streak = 0]

\* Mutant: who beats the holder inherits the streak.
StreakInherited(s, p, t) ==
    LET seat == CASE p[1] > p[2] -> 1 [] p[2] > p[1] -> 2 [] OTHER -> Nobody
        count == IF s.holder # Nobody \/ (seat = s.candidate /\ s.streak > 0) THEN 2 ELSE 1
    IN  IF t.goals # s.goals \/ seat = Nobody THEN NoStreak(t)
        ELSE [t EXCEPT !.candidate = seat, !.streak = count, !.holder = IF count = 2 THEN seat ELSE Nobody]

\* resolveSpeedStreak, after a round of base points p that led from s to t: a seat with
\* more points than the other qualifies, a goal or a tie clears.
WithStreak(s, p, t) ==
    LET seat == CASE p[1] > p[2] -> 1 [] p[2] > p[1] -> 2 [] OTHER -> Nobody
        count == IF seat = s.candidate /\ s.streak > 0 THEN 2 ELSE 1
    IN  IF t.goals # s.goals \/ seat = Nobody THEN NoStreak(t)
        ELSE [t EXCEPT !.candidate = seat, !.streak = count,
                       !.holder = IF s.holder = seat \/ count = 2 THEN seat ELSE Nobody]

\* beginSecondHalf
SecondHalf(s) == [NoStreak(s) EXCEPT !.half = 2, !.phase = "normal", !.diff = 0, !.answered = 0]

\* Mutant: the boundary forgets to clear the streak.
StreakOverHalf(s, preset) ==
    CASE s.half = 1 /\ preset -> SecondHalf(s)
      [] s.half = 1 /\ ~preset -> [s EXCEPT !.phase = "halftime"]
      [] s.half = 2 /\ Level(s.goals) -> [NoStreak(s) EXCEPT !.phase = "halftime", !.purpose = "penalty"]
      [] OTHER -> [NoStreak(s) EXCEPT !.phase = "completed"]

\* transitionAfterHalfBoundary; preset: the second half's category is known.
EndOfHalf(s, preset) ==
    CASE s.half = 1 /\ preset -> SecondHalf(s)
      [] s.half = 1 /\ ~preset -> [NoStreak(s) EXCEPT !.phase = "halftime"]
      [] s.half = 2 /\ Level(s.goals) -> [NoStreak(s) EXCEPT !.phase = "halftime", !.purpose = "penalty"]
      [] OTHER -> [NoStreak(s) EXCEPT !.phase = "completed"]

\* Who may attack after the last question of a half: the seat with the ball, if it alone was right.
Attacker(s, correct) ==
    CASE s.diff >= 50 /\ correct[1] /\ ~correct[2] -> 1
      [] s.diff <= -50 /\ correct[2] /\ ~correct[1] -> 2
      [] OTHER -> Nobody

\* applyNormalResolution, and the streak that the resolver carries on within a half.
NormalResult(s, p, correct, preset) ==
    LET t == [Swing(s, Boosted(s, p)) EXCEPT !.answered = @ + 1]
    IN  IF t.answered < QuestionsPerHalf THEN WithStreak(s, p, t)
        ELSE IF Attacker(t, correct) # Nobody
             THEN [NoStreak(t) EXCEPT !.phase = "lastAttack", !.attacker = Attacker(t, correct)]
        ELSE EndOfHalf(t, preset)

\* applyLastAttackResolution
LastAttackResult(s, p, preset) == EndOfHalf([Swing(s, p) EXCEPT !.attacker = Nobody], preset)

\* Mutant: the questions of the first half count on in the second.
CountOn(s) ==
    IF s.purpose = "penalty"
    THEN [s EXCEPT !.phase = "penalty", !.round = 1, !.shooter = 1, !.sudden = FALSE,
                   !.kicks = Zero, !.purpose = "secondHalf"]
    ELSE [s EXCEPT !.half = 2, !.phase = "normal", !.diff = 0, !.attacker = Nobody]

\* Mutant: the first half is played again.
ReplayHalf(s) ==
    IF s.purpose = "penalty"
    THEN [s EXCEPT !.phase = "penalty", !.round = 1, !.shooter = 1, !.sudden = FALSE,
                   !.kicks = Zero, !.purpose = "secondHalf"]
    ELSE [s EXCEPT !.phase = "normal", !.diff = 0, !.attacker = Nobody, !.answered = 0]

\* The end of finalizeHalftime.
AfterHalftime(s) ==
    IF s.purpose = "penalty"
    THEN [s EXCEPT !.phase = "penalty", !.round = 1, !.shooter = 1, !.sudden = FALSE,
                   !.kicks = Zero, !.purpose = "secondHalf"]
    ELSE [s EXCEPT !.half = 2, !.phase = "normal", !.diff = 0, !.attacker = Nobody, !.answered = 0]

-----------------------------------------------------------------------------
(* The shoot-out *)

\* penaltyWinnerSeat
Remaining(s, seat) == IF s.kicks[seat] < Regulation THEN Regulation - s.kicks[seat] ELSE 0

\* Mutant: in sudden death the first goal wins, before the other seat's kick.
WinsEarly(s, seat) ==
    IF s.sudden THEN s.pens[seat] > s.pens[Other(seat)]
    ELSE s.pens[seat] > s.pens[Other(seat)] + Remaining(s, Other(seat))

WinsShootout(s, seat) ==
    IF s.sudden THEN Level(s.kicks) /\ s.pens[seat] > s.pens[Other(seat)]
    ELSE s.pens[seat] > s.pens[Other(seat)] + Remaining(s, Other(seat))

IsGoal(shooter, p, correct) ==
    (correct[shooter] /\ ~correct[Other(shooter)]) \/ p[shooter] > p[Other(shooter)]

Kick(s, goal) ==
    [s EXCEPT !.kicks[s.shooter] = @ + 1, !.pens[s.shooter] = IF goal THEN @ + 1 ELSE @]

\* applyPenaltyResolution
PenaltyResult(s, p, correct) ==
    LET t == Kick(s, IsGoal(s.shooter, p, correct))
        tied == Level(t.pens) /\ \A seat \in Seats : t.kicks[seat] >= Regulation
        drawn == Level(t.kicks) /\ Level(t.pens) /\ t.kicks[1] >= Regulation + MaxSuddenDeath
    IN  IF \E seat \in Seats : WinsShootout(t, seat) THEN [t EXCEPT !.phase = "completed"]
        ELSE [t EXCEPT !.phase = IF drawn THEN "completed" ELSE "penalty",
                       !.round = @ + 1, !.shooter = Other(s.shooter), !.sudden = @ \/ tied]

\* sendPossessionMatchQuestion finds no question for a penalty: the match is completed.
PoolDry(s) == [s EXCEPT !.phase = "completed", !.dry = TRUE]

-----------------------------------------------------------------------------
(* What a process that reads the state makes of it *)

\* parsePossessionState of a stored state: what it does not trust is dropped.
Reload(s) ==
    [s EXCEPT !.holder = IF s.candidate = s.holder /\ s.streak >= 2 THEN @ ELSE Nobody]

-----------------------------------------------------------------------------
(* The match, from its first question on *)

Earned == [Seats -> Points]
Right == [Seats -> BOOLEAN]

Init == play = InitialPlay

NormalRound ==
    /\ play.phase = "normal"
    /\ \E p \in Earned, c \in Right, preset \in BOOLEAN : play' = NormalResult(play, p, c, preset)

LastAttackRound ==
    /\ play.phase = "lastAttack"
    /\ \E p \in Earned, preset \in BOOLEAN : play' = LastAttackResult(play, p, preset)

EndHalftime == play.phase = "halftime" /\ play' = AfterHalftime(play)

PenaltyRound ==
    /\ play.phase = "penalty"
    /\ \E p \in Earned, c \in Right : play' = PenaltyResult(play, p, c)

RunDry == play.phase = "penalty" /\ play' = PoolDry(play)

\* The match is rebuilt from its stored state (a rejoin, a completion without the cache).
Restore == play' = Reload(play)

Next == NormalRound \/ LastAttackRound \/ EndHalftime \/ PenaltyRound \/ RunDry \/ Restore

Spec == Init /\ [][Next]_play

-----------------------------------------------------------------------------
(* Who won *)

\* Mutant: a shoot-out that is over is forgotten.
ShootoutForgotten(s) == s.phase = "penalty"

\* isShootoutDraw
InShootout(s) == s.phase = "penalty" \/ s.round > 0 \/ \E seat \in Seats : s.kicks[seat] > 0

\* completePossessionMatch's decision; "points" stands for decideWinner's chain of fallbacks.
Decision(s) ==
    CASE InShootout(s) /\ Level(s.goals) /\ Level(s.pens) -> "draw"
      [] s.goals[1] > s.goals[2] -> "seat1"
      [] s.goals[2] > s.goals[1] -> "seat2"
      [] Level(s.goals) /\ s.pens[1] > s.pens[2] -> "seat1"
      [] Level(s.goals) /\ s.pens[2] > s.pens[1] -> "seat2"
      [] OTHER -> "points"

-----------------------------------------------------------------------------
(* What is right of a state, and of a step from s to t *)

\* What every phase promises to the next: half-time knows what follows it, an attack
\* belongs to the seat that has the ball, a shoot-out follows level goals.
PhaseRight(s) ==
    /\ s.phase = "normal" => s.answered < QuestionsPerHalf
    /\ s.phase = "lastAttack" => \/ s.attacker = 1 /\ s.diff >= 50
                                 \/ s.attacker = 2 /\ s.diff <= -50
    /\ s.phase # "lastAttack" => s.attacker = Nobody
    /\ s.phase = "halftime" => (s.purpose = "penalty" <=> s.half = 2)
    /\ s.phase # "halftime" => s.purpose = "secondHalf" \/ s.phase = "completed"
    /\ s.phase = "penalty" \/ s.purpose = "penalty" => s.half = 2 /\ Level(s.goals)

\* A streak is held by the seat that earned it twice, in normal play only: this is what
\* parsePossessionState asks of a stored state, and it forgets a holder who has not.
StreakEarned(s) ==
    /\ s.holder # Nobody => s.candidate = s.holder /\ s.streak = 2
    /\ s.phase # "normal" => s.holder = Nobody

\* Nobody takes the streak over who was not earning it in the round before.
StreakTakenOver(s, t) == t.holder \in {Nobody, s.holder} \/ (t.holder = s.candidate /\ s.streak > 0)

\* The penalties a seat may still take before the shoot-out can end.
Due(s, seat) == (IF s.kicks[1] > Regulation THEN s.kicks[1] ELSE Regulation) - s.kicks[seat]

\* Neither seat is out of the other's reach.
Open(s) == \A seat \in Seats : s.pens[seat] <= s.pens[Other(seat)] + Due(s, Other(seat))

Drawn(s) == Level(s.pens) /\ \A seat \in Seats : s.kicks[seat] = Regulation + MaxSuddenDeath

\* The seats shoot in turn, seat 1 first; the shoot-out goes on as long as it is open, and
\* ends as soon as it is not, or level after the last pair it may have.
ShootoutRight(s) ==
    /\ s.phase = "penalty" =>
         /\ s.kicks[1] - s.kicks[2] = IF s.shooter = 1 THEN 0 ELSE 1
         /\ s.round = s.kicks[1] + s.kicks[2] + 1
         /\ Open(s) /\ ~Drawn(s)
         /\ s.kicks[1] <= Regulation + MaxSuddenDeath
    /\ s.phase = "completed" /\ s.round > 0 /\ ~s.dry => ~Open(s) \/ Drawn(s)

\* A match that is completed has a winner by goals or penalties, or is a draw of a
\* shoot-out: the fallback to points is for matches that end otherwise.
Decided(s) == s.phase = "completed" => Decision(s) # "points"

\* The penalties of a shoot-out at most, and the rounds that follow a half.
Penalties == 2 * (Regulation + MaxSuddenDeath)
Ahead(s) == IF s.half = 1 THEN Penalties + QuestionsPerHalf + 2 ELSE Penalties

\* The rounds and half-times a match has left at most.
Rank(s) ==
    CASE s.phase = "completed" -> 0
      [] s.phase = "penalty" -> Penalties - s.kicks[1] - s.kicks[2]
      [] s.phase = "halftime" -> Ahead(s) + 1
      [] s.phase = "lastAttack" -> Ahead(s) + 2
      [] s.phase = "normal" -> Ahead(s) + 2 + QuestionsPerHalf - s.answered

-----------------------------------------------------------------------------
(* Properties *)

\* The state keeps its type; above all the ball stays between the goals, whatever the
\* points and the streak (applyDeltaAndGoalCheck).
TypeOK == play \in PlayStates

\* Whatever ended the phase before, the next one finds what it relies on.
PhaseFollows == PhaseRight(play)

\* The holder of the streak has earned it: a process that reads the state back does not
\* take it from a player who was shown to have it.
StreakKept == StreakEarned(play)

\* The streak passes only to the seat that was earning it.
StreakPasses == [][StreakTakenOver(play, play')]_play

\* No shoot-out is cut short, or goes on after it is decided.
ShootoutFair == ShootoutRight(play)

\* A completed match is won by goals or penalties, or drawn, never on points.  A comment in
\* decideWinner says that its choice by points is "reached by the sudden-death cap", but
\* completePossessionMatch draws a shoot-out that ends level before it comes to that.
WinnerClear == Decided(play)

\* Every round and every half-time brings the end of the match nearer.
EndNears == [][Rank(play') \in Nat /\ Rank(play') < Rank(play)]_play
=============================================================================
