------------------------- MODULE PossessionPlayProofs -------------------------
(***************************************************************************)
(* Proofs about PossessionPlay, for every number of questions, penalties   *)
(* and sudden-death rounds and every answer worth 0 to 100 points.  The    *)
(* properties are not inductive as they stand: PlayInv adds that nothing   *)
(* of a shoot-out has happened before it, that its sudden death is what    *)
(* the kicks say, and why a match is over.  There is a lemma for every     *)
(* function that ends a round or a half-time (...Goes); under the shoot-   *)
(* out's is KickFacts, the arithmetic of who can still win.                *)
(***************************************************************************)
EXTENDS PossessionPlay, TLAPS

\* Before the shoot-out nothing of it has happened.
NoPenalties(s) == s.round = 0 /\ s.pens = Zero /\ s.kicks = Zero /\ ~s.sudden

\* What the properties leave out and their induction needs.
Aux(s) ==
    /\ s.phase \in {"normal", "lastAttack", "halftime"} => NoPenalties(s)
    /\ s.phase = "penalty" =>
         (s.sudden <=> s.kicks[1] >= Regulation /\ s.kicks[2] >= Regulation)
    /\ s.phase = "completed" => s.round > 0 \/ ~Level(s.goals)

PlayInv(s) ==
    /\ s \in PlayStates
    /\ PhaseRight(s) /\ StreakEarned(s) /\ ShootoutRight(s) /\ Decided(s)
    /\ Aux(s)

\* t is s but for the goals, the ball and the streak.
Carries(s, t) ==
    /\ t.phase = s.phase /\ t.half = s.half /\ t.answered = s.answered /\ t.attacker = s.attacker
    /\ t.purpose = s.purpose /\ t.pens = s.pens /\ t.kicks = s.kicks /\ t.round = s.round
    /\ t.shooter = s.shooter /\ t.sudden = s.sudden /\ t.dry = s.dry

SameStreak(s, t) == t.holder = s.holder /\ t.candidate = s.candidate /\ t.streak = s.streak

-----------------------------------------------------------------------------
(* One field of a state at a time *)

\* A state stays one when its phase is set to a value of its set.
LEMMA SetPhase ==
    ASSUME NEW s \in PlayStates,
           NEW v \in {"normal", "lastAttack", "halftime", "penalty", "completed"}
    PROVE  [s EXCEPT !.phase = v] \in PlayStates
BY DEF PlayStates

\* A state stays one when its half is set to a value of its set.
LEMMA SetHalf == ASSUME NEW s \in PlayStates, NEW v \in {1, 2}
    PROVE  [s EXCEPT !.half = v] \in PlayStates
BY DEF PlayStates

\* A state stays one when its diff is set to a value of its set.
LEMMA SetDiff == ASSUME NEW s \in PlayStates, NEW v \in -99..99
    PROVE  [s EXCEPT !.diff = v] \in PlayStates
BY DEF PlayStates

\* A state stays one when its answered is set to a value of its set.
LEMMA SetAnswered == ASSUME NEW s \in PlayStates, NEW v \in Nat
    PROVE  [s EXCEPT !.answered = v] \in PlayStates
BY DEF PlayStates

\* A state stays one when its attacker is set to a value of its set.
LEMMA SetAttacker == ASSUME NEW s \in PlayStates, NEW v \in SomeSeat
    PROVE  [s EXCEPT !.attacker = v] \in PlayStates
BY DEF PlayStates

\* A state stays one when its purpose is set to a value of its set.
LEMMA SetPurpose == ASSUME NEW s \in PlayStates, NEW v \in {"secondHalf", "penalty"}
    PROVE  [s EXCEPT !.purpose = v] \in PlayStates
BY DEF PlayStates

\* A state stays one when its holder is set to a value of its set.
LEMMA SetHolder == ASSUME NEW s \in PlayStates, NEW v \in SomeSeat
    PROVE  [s EXCEPT !.holder = v] \in PlayStates
BY DEF PlayStates

\* A state stays one when its candidate is set to a value of its set.
LEMMA SetCandidate == ASSUME NEW s \in PlayStates, NEW v \in SomeSeat
    PROVE  [s EXCEPT !.candidate = v] \in PlayStates
BY DEF PlayStates

\* A state stays one when its streak is set to a value of its set.
LEMMA SetStreak == ASSUME NEW s \in PlayStates, NEW v \in 0..2
    PROVE  [s EXCEPT !.streak = v] \in PlayStates
BY DEF PlayStates

\* A state stays one when its goals is set to a value of its set.
LEMMA SetGoals == ASSUME NEW s \in PlayStates, NEW v \in [Seats -> Nat]
    PROVE  [s EXCEPT !.goals = v] \in PlayStates
BY DEF PlayStates

\* A state stays one when its pens is set to a value of its set.
LEMMA SetPens == ASSUME NEW s \in PlayStates, NEW v \in [Seats -> Nat]
    PROVE  [s EXCEPT !.pens = v] \in PlayStates
BY DEF PlayStates

\* A state stays one when its kicks is set to a value of its set.
LEMMA SetKicks == ASSUME NEW s \in PlayStates, NEW v \in [Seats -> Nat]
    PROVE  [s EXCEPT !.kicks = v] \in PlayStates
BY DEF PlayStates

\* A state stays one when its round is set to a value of its set.
LEMMA SetRound == ASSUME NEW s \in PlayStates, NEW v \in Nat
    PROVE  [s EXCEPT !.round = v] \in PlayStates
BY DEF PlayStates

\* A state stays one when its shooter is set to a value of its set.
LEMMA SetShooter == ASSUME NEW s \in PlayStates, NEW v \in Seats
    PROVE  [s EXCEPT !.shooter = v] \in PlayStates
BY DEF PlayStates

\* A state stays one when its sudden is set to a value of its set.
LEMMA SetSudden == ASSUME NEW s \in PlayStates, NEW v \in BOOLEAN
    PROVE  [s EXCEPT !.sudden = v] \in PlayStates
BY DEF PlayStates

\* A state stays one when its dry is set to a value of its set.
LEMMA SetDry == ASSUME NEW s \in PlayStates, NEW v \in BOOLEAN
    PROVE  [s EXCEPT !.dry = v] \in PlayStates
BY DEF PlayStates

\* The swing changes the ball and the goals, nothing else.
LEMMA SwingFacts ==
    ASSUME NEW s \in PlayStates, NEW p \in [Seats -> 0..200]
    PROVE  /\ Swing(s, p) \in PlayStates
           /\ Carries(s, Swing(s, p)) /\ SameStreak(s, Swing(s, p))
<1> DEFINE next == s.diff + p[1] - p[2]
<1>1. s.diff \in Int /\ p[1] \in Int /\ p[2] \in Int BY DEF PlayStates, Seats
<1>2. next \in Int BY <1>1
<1>3. s.goals \in [Seats -> Nat] BY DEF PlayStates
<1>4. 0 \in -99..99 OBVIOUS
<1>5. CASE next >= 100
  <2>1. ~(next <= -100) BY <1>2, <1>5
  <2>2. Swing(s, p) = [s EXCEPT !.diff = 0, !.goals[1] = @ + 1] BY <1>5, <2>1 DEF Swing
  <2>3. Swing(s, p) = [[s EXCEPT !.diff = 0] EXCEPT !.goals = [s.goals EXCEPT ![1] = @ + 1]]
    BY <2>2 DEF PlayStates
  <2>4. [s.goals EXCEPT ![1] = @ + 1] \in [Seats -> Nat] BY <1>3 DEF Seats
  <2>a. [s EXCEPT !.diff = 0] \in PlayStates BY <1>4, SetDiff
  <2>5. Swing(s, p) \in PlayStates BY <2>3, <2>4, <2>a, SetGoals
  <2>6. Carries(s, Swing(s, p)) BY <2>3 DEF PlayStates, Carries
  <2>7. SameStreak(s, Swing(s, p)) BY <2>3 DEF PlayStates, SameStreak
  <2> QED BY <2>5, <2>6, <2>7
<1>6. CASE next <= -100
  <2>1. ~(next >= 100) BY <1>2, <1>6
  <2>2. Swing(s, p) = [s EXCEPT !.diff = 0, !.goals[2] = @ + 1] BY <1>6, <2>1 DEF Swing
  <2>3. Swing(s, p) = [[s EXCEPT !.diff = 0] EXCEPT !.goals = [s.goals EXCEPT ![2] = @ + 1]]
    BY <2>2 DEF PlayStates
  <2>4. [s.goals EXCEPT ![2] = @ + 1] \in [Seats -> Nat] BY <1>3 DEF Seats
  <2>a. [s EXCEPT !.diff = 0] \in PlayStates BY <1>4, SetDiff
  <2>5. Swing(s, p) \in PlayStates BY <2>3, <2>4, <2>a, SetGoals
  <2>6. Carries(s, Swing(s, p)) BY <2>3 DEF PlayStates, Carries
  <2>7. SameStreak(s, Swing(s, p)) BY <2>3 DEF PlayStates, SameStreak
  <2> QED BY <2>5, <2>6, <2>7
<1>7. CASE ~(next >= 100) /\ ~(next <= -100)
  <2>1. Swing(s, p) = [s EXCEPT !.diff = next] BY <1>7 DEF Swing
  <2>2. next \in -99..99 BY <1>2, <1>7
  <2>3. Swing(s, p) \in PlayStates BY <2>1, <2>2, SetDiff
  <2>4. Carries(s, Swing(s, p)) BY <2>1 DEF PlayStates, Carries
  <2>5. SameStreak(s, Swing(s, p)) BY <2>1 DEF PlayStates, SameStreak
  <2> QED BY <2>3, <2>4, <2>5
<1> QED BY <1>5, <1>6, <1>7

\* To clear the streak changes the streak, nothing else.
LEMMA NoStreakFacts ==
    ASSUME NEW s \in PlayStates
    PROVE  /\ NoStreak(s) \in PlayStates /\ Carries(s, NoStreak(s))
           /\ NoStreak(s).diff = s.diff /\ NoStreak(s).goals = s.goals
           /\ NoStreak(s).holder = Nobody
<1>1. NoStreak(s) = [[[s EXCEPT !.holder = Nobody] EXCEPT !.candidate = Nobody] EXCEPT !.streak = 0]
  BY DEF NoStreak
<1>2. Nobody \in SomeSeat /\ 0 \in 0..2 BY DEF SomeSeat
<1>3. NoStreak(s) \in PlayStates
  <2>1. [s EXCEPT !.holder = Nobody] \in PlayStates BY <1>2, SetHolder
  <2>2. [[s EXCEPT !.holder = Nobody] EXCEPT !.candidate = Nobody] \in PlayStates BY <1>2, <2>1, SetCandidate
  <2> QED BY <1>1, <1>2, <2>2, SetStreak
<1>4. Carries(s, NoStreak(s)) BY <1>1 DEF PlayStates, Carries
<1>5. NoStreak(s).diff = s.diff /\ NoStreak(s).goals = s.goals /\ NoStreak(s).holder = Nobody
  BY <1>1 DEF PlayStates
<1> QED BY <1>3, <1>4, <1>5

\* Before the shoot-out nothing is claimed of it.
LEMMA ShootoutAhead ==
    ASSUME NEW s \in PlayStates, s.phase \notin {"penalty", "completed"}, NoPenalties(s)
    PROVE  ShootoutRight(s) /\ Decided(s) /\ Aux(s)
BY DEF ShootoutRight, Decided, Aux

\* createInitialPossessionState makes a state that is right.
LEMMA StartsRight == PlayInv(InitialPlay)
<1>1. InitialPlay \in PlayStates BY DEF InitialPlay, PlayStates, Zero, SomeSeat, Seats
<1>2. PhaseRight(InitialPlay) /\ StreakEarned(InitialPlay) /\ NoPenalties(InitialPlay)
  BY RulesAssumption DEF PhaseRight, StreakEarned, InitialPlay, NoPenalties
<1>3. InitialPlay.phase = "normal" BY DEF InitialPlay
<1> QED BY <1>1, <1>2, <1>3, ShootoutAhead DEF PlayInv

\* No match has less than no rounds left.
LEMMA RankIsNatural ==
    ASSUME NEW s, PlayInv(s)
    PROVE  Rank(s) \in Nat
<1>1. s.half \in {1, 2} /\ s.answered \in Nat /\ s.kicks \in [Seats -> Nat] /\ s.shooter \in Seats
      /\ s.phase \in {"normal", "lastAttack", "halftime", "penalty", "completed"}
      /\ s.pens \in [Seats -> Nat]
  BY DEF PlayInv, PlayStates
<1>2. Penalties \in Nat /\ Ahead(s) \in Nat BY RulesAssumption DEF Ahead, Penalties
<1>3. CASE s.phase = "penalty"
  <2>1. s.kicks[1] \in Nat /\ s.kicks[2] \in Nat BY <1>1 DEF Seats
  <2>2. s.kicks[1] <= Regulation + MaxSuddenDeath /\ s.kicks[2] <= s.kicks[1]
    BY <1>1, <1>3, <2>1 DEF PlayInv, ShootoutRight, Seats
  <2> QED BY <1>3, <2>1, <2>2, RulesAssumption DEF Rank, Penalties
<1>4. CASE s.phase = "normal"
  <2>1. s.answered < QuestionsPerHalf BY <1>4 DEF PlayInv, PhaseRight
  <2> QED BY <1>1, <1>2, <1>4, <2>1, RulesAssumption DEF Rank
<1>5. CASE s.phase \in {"lastAttack", "halftime", "completed"} BY <1>2, <1>5 DEF Rank
<1> QED BY <1>1, <1>3, <1>4, <1>5

\* The end of a half leaves a state that is right, with the second half or the shoot-out ahead.
LEMMA HalfEnds ==
    ASSUME NEW s \in PlayStates, NEW preset \in BOOLEAN,
           s.attacker = Nobody, s.purpose = "secondHalf", NoPenalties(s)
    PROVE  LET t == EndOfHalf(s, preset) IN
           /\ PlayInv(t) /\ t.holder = Nobody
           /\ Rank(t) <= Ahead(s) + 1
<1> DEFINE n == NoStreak(s)
           t == EndOfHalf(s, preset)
<1>1. n \in PlayStates /\ Carries(s, n) /\ n.goals = s.goals /\ n.holder = Nobody BY NoStreakFacts
<1>2. NoPenalties(n) /\ n.attacker = Nobody /\ n.purpose = "secondHalf" /\ n.half = s.half
  BY <1>1 DEF Carries, NoPenalties
<1>3. Penalties \in Nat /\ Ahead(s) \in Nat BY RulesAssumption DEF Ahead, Penalties
<1>4. s.half \in {1, 2} BY DEF PlayStates
<1>5. CASE s.half = 1 /\ preset
  <2>1. t = [[[[n EXCEPT !.half = 2] EXCEPT !.phase = "normal"] EXCEPT !.diff = 0] EXCEPT !.answered = 0]
    BY <1>5 DEF EndOfHalf, SecondHalf
  <2>2. t \in PlayStates
    <3> DEFINE a == [n EXCEPT !.half = 2]
               b == [a EXCEPT !.phase = "normal"]
               c == [b EXCEPT !.diff = 0]
    <3>1. a \in PlayStates BY <1>1, SetHalf
    <3> HIDE DEF a
    <3>2. b \in PlayStates BY <3>1, SetPhase
    <3> HIDE DEF b
    <3>3. c \in PlayStates
      <4>1. 0 \in -99..99 OBVIOUS
      <4> QED BY <3>2, <4>1, SetDiff
    <3> HIDE DEF c
    <3>4. [c EXCEPT !.answered = 0] \in PlayStates BY <3>3, SetAnswered
    <3> QED BY <2>1, <3>4 DEF a, b, c
  <2>3. t.phase = "normal" /\ t.half = 2 /\ t.answered = 0 /\ NoPenalties(t) /\ t.holder = Nobody
        /\ t.attacker = Nobody /\ t.purpose = "secondHalf"
    BY <1>1, <1>2, <2>1 DEF PlayStates, NoPenalties
  <2>4. PhaseRight(t) /\ StreakEarned(t) BY <2>3, RulesAssumption DEF PhaseRight, StreakEarned
  <2>5. PlayInv(t) BY <2>2, <2>3, <2>4, ShootoutAhead DEF PlayInv
  <2>6. Rank(t) <= Ahead(s) + 1
    <3>1. Rank(t) = Penalties + 2 + QuestionsPerHalf - 0 BY <2>3 DEF Rank, Ahead
    <3>2. Ahead(s) = Penalties + QuestionsPerHalf + 2 BY <1>5 DEF Ahead
    <3> QED BY <1>3, <3>1, <3>2, RulesAssumption
  <2> QED BY <2>3, <2>5, <2>6
<1>6. CASE s.half = 1 /\ ~preset
  <2>1. t = [n EXCEPT !.phase = "halftime"] BY <1>6 DEF EndOfHalf
  <2>2. t \in PlayStates BY <1>1, <2>1, SetPhase
  <2>3. t.phase = "halftime" /\ t.half = 1 /\ NoPenalties(t) /\ t.holder = Nobody
        /\ t.attacker = Nobody /\ t.purpose = "secondHalf"
    BY <1>1, <1>2, <1>6, <2>1 DEF PlayStates, NoPenalties
  <2>4. PhaseRight(t) /\ StreakEarned(t) BY <2>3 DEF PhaseRight, StreakEarned
  <2>5. PlayInv(t) BY <2>2, <2>3, <2>4, ShootoutAhead DEF PlayInv
  <2>6. Rank(t) <= Ahead(s) + 1 BY <1>3, <1>6, <2>3 DEF Rank, Ahead
  <2> QED BY <2>3, <2>5, <2>6
<1>7. CASE s.half = 2 /\ Level(s.goals)
  <2>1. t = [[n EXCEPT !.phase = "halftime"] EXCEPT !.purpose = "penalty"] BY <1>7 DEF EndOfHalf
  <2>2. t \in PlayStates
    <3>1. [n EXCEPT !.phase = "halftime"] \in PlayStates BY <1>1, SetPhase
    <3> QED BY <2>1, <3>1, SetPurpose
  <2>3. t.phase = "halftime" /\ t.half = 2 /\ NoPenalties(t) /\ t.holder = Nobody
        /\ t.attacker = Nobody /\ t.purpose = "penalty" /\ Level(t.goals)
    BY <1>1, <1>2, <1>7, <2>1 DEF PlayStates, NoPenalties
  <2>4. PhaseRight(t) /\ StreakEarned(t) BY <2>3 DEF PhaseRight, StreakEarned
  <2>5. PlayInv(t) BY <2>2, <2>3, <2>4, ShootoutAhead DEF PlayInv
  <2>6. Rank(t) <= Ahead(s) + 1 BY <1>3, <1>7, <2>3 DEF Rank, Ahead
  <2> QED BY <2>3, <2>5, <2>6
<1>8. CASE s.half = 2 /\ ~Level(s.goals)
  <2>1. t = [n EXCEPT !.phase = "completed"] BY <1>8 DEF EndOfHalf
  <2>2. t \in PlayStates BY <1>1, <2>1, SetPhase
  <2>3. t.phase = "completed" /\ NoPenalties(t) /\ t.holder = Nobody
        /\ t.attacker = Nobody /\ t.purpose = "secondHalf" /\ t.goals = s.goals
    BY <1>1, <1>2, <2>1 DEF PlayStates, NoPenalties
  <2>4. PhaseRight(t) /\ StreakEarned(t) BY <2>3 DEF PhaseRight, StreakEarned
  <2>5. s.goals[1] \in Nat /\ s.goals[2] \in Nat BY DEF PlayStates, Seats
  <2>6. Decided(t) /\ Aux(t) /\ ShootoutRight(t)
    BY <1>8, <2>3, <2>5 DEF Decided, Aux, ShootoutRight, Decision, Level, NoPenalties
  <2>7. PlayInv(t) BY <2>2, <2>4, <2>6 DEF PlayInv
  <2>8. Rank(t) <= Ahead(s) + 1 BY <1>3, <2>3 DEF Rank
  <2> QED BY <2>3, <2>7, <2>8
<1> QED BY <1>4, <1>5, <1>6, <1>7, <1>8

\* The streak after a round of normal play: whoever holds it has earned it twice.
LEMMA StreakFacts ==
    ASSUME NEW s \in PlayStates, NEW p, NEW t \in PlayStates, StreakEarned(s), s.phase = "normal"
    PROVE  LET r == WithStreak(s, p, t) IN
           /\ r \in PlayStates /\ Carries(t, r)
           /\ r.holder # Nobody => r.candidate = r.holder /\ r.streak = 2
           /\ StreakTakenOver(s, r)
<1> DEFINE seat == CASE p[1] > p[2] -> 1 [] p[2] > p[1] -> 2 [] OTHER -> Nobody
           count == IF seat = s.candidate /\ s.streak > 0 THEN 2 ELSE 1
           next == IF s.holder = seat \/ count = 2 THEN seat ELSE Nobody
           r == WithStreak(s, p, t)
<1>1. seat \in SomeSeat /\ count \in 0..2 /\ next \in SomeSeat BY DEF SomeSeat, Seats
<1>2. CASE t.goals # s.goals \/ seat = Nobody
  <2>1. r = NoStreak(t) BY <1>2 DEF WithStreak
  <2> QED BY <2>1, NoStreakFacts DEF StreakTakenOver
<1>3. CASE ~(t.goals # s.goals \/ seat = Nobody)
  <2> HIDE DEF seat, count, next
  <2>1. r = [[[t EXCEPT !.candidate = seat] EXCEPT !.streak = count] EXCEPT !.holder = next]
    BY <1>3 DEF WithStreak, seat, count, next
  <2> DEFINE a == [t EXCEPT !.candidate = seat]
             b == [a EXCEPT !.streak = count]
  <2>2. a \in PlayStates BY <1>1, SetCandidate
  <2>3. b \in PlayStates
    <3> HIDE DEF a
    <3> QED BY <1>1, <2>2, SetStreak
  <2>4. r \in PlayStates
    <3>1. r = [b EXCEPT !.holder = next] BY <2>1
    <3> HIDE DEF b
    <3> QED BY <1>1, <2>3, <3>1, SetHolder
  <2>5. Carries(t, r) BY <2>1 DEF PlayStates, Carries
  <2>6. r.candidate = seat /\ r.streak = count /\ r.holder = next BY <2>1 DEF PlayStates
  <2>7. s.streak \in 0..2 BY DEF PlayStates
  <2>8. s.holder # Nobody => s.candidate = s.holder /\ s.streak = 2 BY DEF StreakEarned
  <2>9. next # Nobody => next = seat /\ count = 2 /\ seat = s.candidate /\ s.streak > 0
    BY <2>7, <2>8 DEF next, count
  <2>10. r.holder # Nobody => r.candidate = r.holder /\ r.streak = 2 BY <2>6, <2>9
  <2>11. StreakTakenOver(s, r) BY <2>6, <2>9 DEF StreakTakenOver
  <2> QED BY <2>4, <2>5, <2>10, <2>11
<1> QED BY <1>2, <1>3

\* A boosted answer swings the ball by 200 at most.
LEMMA BoostedFacts ==
    ASSUME NEW s \in PlayStates, NEW p \in [Seats -> Points]
    PROVE  Boosted(s, p) \in [Seats -> 0..200] /\ p \in [Seats -> 0..200]
<1>1. \A seat \in Seats : p[seat] \in 0..100 BY RulesAssumption
<1>2. \A seat \in Seats : 2 * p[seat] \in 0..200 BY <1>1
<1>3. p \in [Seats -> 0..200] BY <1>1
<1> QED BY <1>1, <1>2, <1>3 DEF Boosted

\* What a round or a half-time does to a match.
Goes(s, t) == PlayInv(t) /\ Rank(t) < Rank(s) /\ StreakTakenOver(s, t)

\* A round of normal play: the half goes on, is attacked or ends.
LEMMA NormalGoes ==
    ASSUME NEW s, PlayInv(s), s.phase = "normal", NEW p \in [Seats -> Points],
           NEW c \in [Seats -> BOOLEAN], NEW preset \in BOOLEAN
    PROVE  Goes(s, NormalResult(s, p, c, preset))
<1> DEFINE w == Swing(s, Boosted(s, p))
           t == [w EXCEPT !.answered = @ + 1]
           u == NormalResult(s, p, c, preset)
<1>1. s \in PlayStates /\ s.answered < QuestionsPerHalf /\ s.attacker = Nobody
      /\ s.purpose = "secondHalf" /\ NoPenalties(s) /\ StreakEarned(s)
  BY DEF PlayInv, PhaseRight, Aux
<1>2. s.answered \in Nat /\ s.half \in {1, 2} BY <1>1 DEF PlayStates
<1>3. Penalties \in Nat /\ Ahead(s) \in Nat BY RulesAssumption DEF Ahead, Penalties
<1>4. Rank(s) = Ahead(s) + 2 + QuestionsPerHalf - s.answered BY DEF Rank
<1>5. w \in PlayStates /\ Carries(s, w) /\ SameStreak(s, w)
  BY <1>1, BoostedFacts, SwingFacts
<1> HIDE DEF w
<1>6. w.answered = s.answered BY <1>5 DEF Carries
<1>7. t \in PlayStates
  <2>1. t = [w EXCEPT !.answered = s.answered + 1] BY <1>6
  <2>2. s.answered + 1 \in Nat BY <1>2
  <2> QED BY <1>5, <2>1, <2>2, SetAnswered
<1>8. t.phase = "normal" /\ t.half = s.half /\ t.answered = s.answered + 1 /\ t.attacker = Nobody
      /\ t.purpose = "secondHalf" /\ NoPenalties(t)
  BY <1>1, <1>5 DEF PlayStates, Carries, NoPenalties
<1>9. Ahead(t) = Ahead(s) BY <1>8 DEF Ahead
<1> HIDE DEF t
<1>10. CASE t.answered < QuestionsPerHalf
  <2>1. u = WithStreak(s, p, t) BY <1>10 DEF NormalResult, t, w
  <2>2. /\ u \in PlayStates /\ Carries(t, u) /\ StreakTakenOver(s, u)
        /\ u.holder # Nobody => u.candidate = u.holder /\ u.streak = 2
    BY <1>1, <1>7, <2>1, StreakFacts
  <2> HIDE DEF u
  <2>3. u.phase = "normal" /\ u.half = s.half /\ u.answered = s.answered + 1 /\ u.attacker = Nobody
        /\ u.purpose = "secondHalf" /\ NoPenalties(u) /\ u.answered < QuestionsPerHalf
    BY <1>8, <1>10, <2>2 DEF Carries, NoPenalties
  <2>4. PhaseRight(u) /\ StreakEarned(u) BY <2>2, <2>3 DEF PhaseRight, StreakEarned
  <2>5. PlayInv(u) BY <2>2, <2>3, <2>4, ShootoutAhead DEF PlayInv
  <2>6. Rank(u) = Ahead(s) + 2 + QuestionsPerHalf - (s.answered + 1) BY <2>3 DEF Rank, Ahead
  <2>7. Rank(u) < Rank(s) BY <1>2, <1>3, <1>4, <2>6, RulesAssumption
  <2> QED BY <2>2, <2>5, <2>7 DEF Goes, u
<1>11. CASE ~(t.answered < QuestionsPerHalf) /\ Attacker(t, c) # Nobody
  <2> DEFINE n == NoStreak(t)
             a == Attacker(t, c)
  <2>1. u = [[n EXCEPT !.phase = "lastAttack"] EXCEPT !.attacker = a]
    BY <1>11 DEF NormalResult, t, w
  <2>2. a \in SomeSeat /\ ((a = 1 /\ t.diff >= 50) \/ (a = 2 /\ t.diff <= -50))
    <3>1. CASE t.diff >= 50 /\ c[1] /\ ~c[2]
      <4>1. ~(t.diff <= -50 /\ c[2] /\ ~c[1]) BY <3>1
      <4>2. a = 1 BY <3>1, <4>1 DEF Attacker
      <4>3. t.diff >= 50 BY <3>1
      <4> HIDE DEF a
      <4> QED BY <4>2, <4>3 DEF SomeSeat, Seats
    <3>2. CASE ~(t.diff >= 50 /\ c[1] /\ ~c[2]) /\ t.diff <= -50 /\ c[2] /\ ~c[1]
      <4>1. a = 2 BY <3>2 DEF Attacker
      <4>2. t.diff <= -50 BY <3>2
      <4> HIDE DEF a
      <4> QED BY <4>1, <4>2 DEF SomeSeat, Seats
    <3>3. CASE ~(t.diff >= 50 /\ c[1] /\ ~c[2]) /\ ~(t.diff <= -50 /\ c[2] /\ ~c[1])
      <4>1. a = Nobody BY <3>3 DEF Attacker
      <4> QED BY <1>11, <4>1
    <3> QED BY <3>1, <3>2, <3>3
  <2>3. n \in PlayStates /\ Carries(t, n) /\ n.diff = t.diff /\ n.holder = Nobody
    BY <1>7, NoStreakFacts
  <2> HIDE DEF n, a
  <2>4. [n EXCEPT !.phase = "lastAttack"] \in PlayStates BY <2>3, SetPhase
  <2>5. u \in PlayStates BY <2>1, <2>2, <2>4, SetAttacker
  <2>6. u.phase = "lastAttack" /\ u.attacker = a /\ u.diff = t.diff /\ u.holder = Nobody
        /\ u.half = s.half /\ u.purpose = "secondHalf" /\ NoPenalties(u)
    BY <1>8, <2>1, <2>3 DEF PlayStates, Carries, NoPenalties
  <2> HIDE DEF u
  <2>7. PhaseRight(u) /\ StreakEarned(u) BY <2>2, <2>6 DEF PhaseRight, StreakEarned
  <2>8. PlayInv(u) BY <2>5, <2>6, <2>7, ShootoutAhead DEF PlayInv
  <2>9. Rank(u) = Ahead(s) + 2 BY <2>6 DEF Rank, Ahead
  <2>10. Rank(u) < Rank(s) BY <1>1, <1>2, <1>3, <1>4, <2>9, RulesAssumption
  <2> QED BY <2>6, <2>8, <2>10 DEF Goes, StreakTakenOver, u
<1>12. CASE ~(t.answered < QuestionsPerHalf) /\ Attacker(t, c) = Nobody
  <2>1. u = EndOfHalf(t, preset) BY <1>12 DEF NormalResult, t, w
  <2>2. PlayInv(u) /\ u.holder = Nobody /\ Rank(u) <= Ahead(s) + 1
    BY <1>7, <1>8, <1>9, <2>1, HalfEnds
  <2> HIDE DEF u
  <2>3. Rank(u) \in Nat BY <2>2, RankIsNatural
  <2>4. Rank(u) < Rank(s) BY <1>1, <1>2, <1>3, <1>4, <2>2, <2>3, RulesAssumption
  <2> QED BY <2>2, <2>4 DEF Goes, StreakTakenOver, u
<1> QED BY <1>10, <1>11, <1>12

\* The last attack: the half ends.
LEMMA LastAttackGoes ==
    ASSUME NEW s, PlayInv(s), s.phase = "lastAttack", NEW p \in [Seats -> Points], NEW preset \in BOOLEAN
    PROVE  Goes(s, LastAttackResult(s, p, preset))
<1> DEFINE w == Swing(s, p)
           t == [w EXCEPT !.attacker = Nobody]
           u == LastAttackResult(s, p, preset)
<1>1. s \in PlayStates /\ s.purpose = "secondHalf" /\ NoPenalties(s)
  BY DEF PlayInv, PhaseRight, Aux
<1>2. s.half \in {1, 2} BY <1>1 DEF PlayStates
<1>3. Penalties \in Nat /\ Ahead(s) \in Nat BY RulesAssumption DEF Ahead, Penalties
<1>4. Rank(s) = Ahead(s) + 2 BY DEF Rank
<1>5. w \in PlayStates /\ Carries(s, w) BY <1>1, BoostedFacts, SwingFacts
<1>6. u = EndOfHalf(t, preset) BY DEF LastAttackResult
<1> HIDE DEF w
<1>7. t \in PlayStates
  <2>1. Nobody \in SomeSeat BY DEF SomeSeat
  <2> QED BY <1>5, <2>1, SetAttacker
<1>8. t.half = s.half /\ t.attacker = Nobody /\ t.purpose = "secondHalf" /\ NoPenalties(t)
  BY <1>1, <1>5 DEF PlayStates, Carries, NoPenalties
<1>9. Ahead(t) = Ahead(s) BY <1>8 DEF Ahead
<1> HIDE DEF t, u
<1>10. PlayInv(u) /\ u.holder = Nobody /\ Rank(u) <= Ahead(s) + 1
  BY <1>6, <1>7, <1>8, <1>9, HalfEnds
<1>11. Rank(u) \in Nat BY <1>10, RankIsNatural
<1>12. Rank(u) < Rank(s) BY <1>3, <1>4, <1>10, <1>11
<1> QED BY <1>10, <1>12 DEF Goes, StreakTakenOver, u

\* The end of half-time: the second half, or the shoot-out.
LEMMA HalftimeGoes ==
    ASSUME NEW s, PlayInv(s), s.phase = "halftime"
    PROVE  Goes(s, AfterHalftime(s))
<1> DEFINE u == AfterHalftime(s)
<1>1. s \in PlayStates /\ NoPenalties(s) /\ s.holder = Nobody /\ s.attacker = Nobody
  BY DEF PlayInv, PhaseRight, Aux, StreakEarned
<1>2. s.half \in {1, 2} /\ s.purpose \in {"secondHalf", "penalty"} BY <1>1 DEF PlayStates
<1>3. Penalties \in Nat /\ Ahead(s) \in Nat BY RulesAssumption DEF Ahead, Penalties
<1>4. Rank(s) = Ahead(s) + 1 BY DEF Rank
<1>5. Zero \in [Seats -> Nat] /\ Zero[1] = 0 /\ Zero[2] = 0 BY DEF Zero, Seats
<1>6. CASE s.purpose = "penalty"
  <2>1. s.half = 2 /\ Level(s.goals) BY <1>6 DEF PlayInv, PhaseRight
  <2> DEFINE a == [s EXCEPT !.phase = "penalty"]
             b == [a EXCEPT !.round = 1]
             c == [b EXCEPT !.shooter = 1]
             d == [c EXCEPT !.sudden = FALSE]
             e == [d EXCEPT !.kicks = Zero]
  <2>2. u = [e EXCEPT !.purpose = "secondHalf"] BY <1>6 DEF AfterHalftime
  <2>3. u \in PlayStates
    <3>1. a \in PlayStates BY <1>1, SetPhase
    <3> HIDE DEF a
    <3>2. b \in PlayStates BY <3>1, SetRound
    <3> HIDE DEF b
    <3>3. c \in PlayStates BY <3>2, SetShooter DEF Seats
    <3> HIDE DEF c
    <3>4. d \in PlayStates BY <3>3, SetSudden
    <3> HIDE DEF d
    <3>5. e \in PlayStates BY <1>5, <3>4, SetKicks
    <3> HIDE DEF e, u
    <3> QED BY <2>2, <3>5, SetPurpose
  <2>4. /\ u.phase = "penalty" /\ u.round = 1 /\ u.shooter = 1 /\ u.sudden = FALSE /\ u.kicks = Zero
        /\ u.purpose = "secondHalf" /\ u.half = 2 /\ u.goals = s.goals /\ u.pens = s.pens
        /\ u.holder = Nobody /\ u.attacker = Nobody
    BY <1>1, <2>1, <2>2 DEF PlayStates
  <2> HIDE DEF u
  <2>5. u.pens[1] = 0 /\ u.pens[2] = 0 /\ u.kicks[1] = 0 /\ u.kicks[2] = 0
    BY <1>1, <1>5, <2>4 DEF NoPenalties
  <2>6. PhaseRight(u) /\ StreakEarned(u) BY <2>1, <2>4 DEF PhaseRight, StreakEarned
  <2>7. ~Drawn(u) /\ Open(u)
    <3>1. Due(u, 1) = Regulation /\ Due(u, 2) = Regulation BY <2>5, RulesAssumption DEF Due
    <3> QED BY <2>5, <3>1, RulesAssumption DEF Drawn, Open, Seats, Other
  <2>8. ShootoutRight(u) BY <2>4, <2>5, <2>7, RulesAssumption DEF ShootoutRight
  <2>9. Aux(u) /\ Decided(u) BY <2>4, <2>5, RulesAssumption DEF Aux, Decided
  <2>10. Rank(u) = Penalties BY <1>3, <2>4, <2>5 DEF Rank
  <2>11. Rank(u) < Rank(s) BY <1>3, <1>4, <2>1, <2>10 DEF Ahead
  <2> QED BY <2>3, <2>4, <2>6, <2>8, <2>9, <2>11 DEF Goes, StreakTakenOver, PlayInv, u
<1>7. CASE s.purpose = "secondHalf"
  <2>1. s.half = 1 BY <1>2, <1>7 DEF PlayInv, PhaseRight
  <2> DEFINE a == [s EXCEPT !.half = 2]
             b == [a EXCEPT !.phase = "normal"]
             c == [b EXCEPT !.diff = 0]
             d == [c EXCEPT !.attacker = Nobody]
  <2>2. u = [d EXCEPT !.answered = 0] BY <1>7 DEF AfterHalftime
  <2>3. u \in PlayStates
    <3>1. 0 \in -99..99 /\ Nobody \in SomeSeat BY DEF SomeSeat
    <3>2. a \in PlayStates BY <1>1, SetHalf
    <3> HIDE DEF a
    <3>3. b \in PlayStates BY <3>2, SetPhase
    <3> HIDE DEF b
    <3>4. c \in PlayStates BY <3>1, <3>3, SetDiff
    <3> HIDE DEF c
    <3>5. d \in PlayStates BY <3>1, <3>4, SetAttacker
    <3> HIDE DEF d, u
    <3> QED BY <2>2, <3>5, SetAnswered
  <2>4. /\ u.phase = "normal" /\ u.half = 2 /\ u.answered = 0 /\ u.purpose = "secondHalf"
        /\ u.holder = Nobody /\ u.attacker = Nobody /\ NoPenalties(u)
    BY <1>1, <1>7, <2>2 DEF PlayStates, NoPenalties
  <2> HIDE DEF u
  <2>5. PhaseRight(u) /\ StreakEarned(u) BY <2>4, RulesAssumption DEF PhaseRight, StreakEarned
  <2>6. PlayInv(u) BY <2>3, <2>4, <2>5, ShootoutAhead DEF PlayInv
  <2>7. Rank(u) = Penalties + 2 + QuestionsPerHalf - 0 BY <2>4 DEF Rank, Ahead
  <2>8. Rank(u) < Rank(s) BY <1>3, <1>4, <2>1, <2>7, RulesAssumption DEF Ahead
  <2> QED BY <2>4, <2>6, <2>8 DEF Goes, StreakTakenOver, u
<1> QED BY <1>2, <1>6, <1>7

\* A shoot-out that goes on has a kick left.
LEMMA ShootoutFacts ==
    ASSUME NEW s, PlayInv(s), s.phase = "penalty"
    PROVE  /\ s.kicks[1] \in Nat /\ s.kicks[2] \in Nat /\ s.pens[1] \in Nat /\ s.pens[2] \in Nat
           /\ s.round \in Nat \ {0} /\ Level(s.goals)
           /\ s.kicks[1] + s.kicks[2] < Penalties
           /\ s.shooter = 1 => s.kicks[1] = s.kicks[2] /\ s.kicks[1] < Regulation + MaxSuddenDeath
           /\ s.shooter = 2 => s.kicks[1] = s.kicks[2] + 1 /\ s.kicks[1] <= Regulation + MaxSuddenDeath
           /\ s.pens[1] <= s.pens[2] + Due(s, 2) /\ s.pens[2] <= s.pens[1] + Due(s, 1)
<1>1. s \in PlayStates /\ ShootoutRight(s) /\ Level(s.goals) BY DEF PlayInv, PhaseRight
<1>2. s.kicks \in [Seats -> Nat] /\ s.pens \in [Seats -> Nat] /\ s.shooter \in {1, 2}
  BY <1>1 DEF PlayStates, Seats
<1>3. s.kicks[1] \in Nat /\ s.kicks[2] \in Nat /\ s.pens[1] \in Nat /\ s.pens[2] \in Nat
  BY <1>2 DEF Seats
<1>4. /\ s.kicks[1] - s.kicks[2] = IF s.shooter = 1 THEN 0 ELSE 1
      /\ s.round = s.kicks[1] + s.kicks[2] + 1
      /\ Open(s) /\ ~Drawn(s) /\ s.kicks[1] <= Regulation + MaxSuddenDeath
  BY <1>1 DEF ShootoutRight
<1>5. s.pens[1] <= s.pens[2] + Due(s, 2) /\ s.pens[2] <= s.pens[1] + Due(s, 1)
  BY <1>4 DEF Open, Seats, Other
<1>6. CASE s.shooter = 1
  <2>1. s.kicks[1] = s.kicks[2] BY <1>3, <1>4, <1>6
  <2>2. s.kicks[1] # Regulation + MaxSuddenDeath
    <3> SUFFICES ASSUME s.kicks[1] = Regulation + MaxSuddenDeath PROVE FALSE OBVIOUS
    <3>1. Due(s, 1) = 0 /\ Due(s, 2) = 0 BY <1>3, <2>1, RulesAssumption DEF Due
    <3>2. s.pens[1] = s.pens[2] BY <1>3, <1>5, <3>1
    <3> QED BY <1>4, <2>1, <3>2 DEF Drawn, Level, Seats
  <2> QED BY <1>1, <1>3, <1>4, <1>5, <1>6, <2>1, <2>2, RulesAssumption DEF Penalties
<1>7. CASE s.shooter = 2
  <2>1. s.kicks[1] = s.kicks[2] + 1 BY <1>3, <1>4, <1>7
  <2> QED BY <1>1, <1>3, <1>4, <1>5, <1>7, <2>1, RulesAssumption DEF Penalties
<1> QED BY <1>2, <1>6, <1>7

\* A shoot-out that runs out of questions ends with what it has.
LEMMA PoolDryGoes ==
    ASSUME NEW s, PlayInv(s), s.phase = "penalty"
    PROVE  Goes(s, PoolDry(s))
<1> DEFINE a == [s EXCEPT !.phase = "completed"]
           u == PoolDry(s)
<1>1. s \in PlayStates /\ s.holder = Nobody /\ s.attacker = Nobody /\ s.purpose = "secondHalf"
      /\ s.half = 2
  BY DEF PlayInv, PhaseRight, StreakEarned
<1>2. u = [a EXCEPT !.dry = TRUE] BY DEF PoolDry
<1>3. u \in PlayStates
  <2>1. a \in PlayStates BY <1>1, SetPhase
  <2> HIDE DEF a, u
  <2> QED BY <1>2, <2>1, SetDry
<1>4. /\ u.phase = "completed" /\ u.dry = TRUE /\ u.round = s.round /\ u.goals = s.goals /\ u.pens = s.pens
      /\ u.holder = Nobody /\ u.attacker = Nobody /\ u.purpose = "secondHalf" /\ u.half = 2
  BY <1>1, <1>2 DEF PlayStates
<1> HIDE DEF u
<1>5. PhaseRight(u) /\ StreakEarned(u) BY <1>4 DEF PhaseRight, StreakEarned
<1>6. ShootoutRight(u) BY <1>4 DEF ShootoutRight
<1>7. u.round > 0 /\ Level(u.goals) /\ u.pens[1] \in Nat /\ u.pens[2] \in Nat
  BY <1>4, ShootoutFacts DEF Level
<1>8. Decided(u) BY <1>7 DEF Decided, Decision, InShootout, Level
<1>9. Aux(u) BY <1>4, <1>7 DEF Aux
<1>10. Rank(u) = 0 BY <1>4 DEF Rank
<1>11. Rank(u) < Rank(s)
  <2>1. Rank(s) = Penalties - s.kicks[1] - s.kicks[2] BY DEF Rank
  <2>2. Penalties \in Nat BY RulesAssumption DEF Penalties
  <2> QED BY <1>10, <2>1, <2>2, ShootoutFacts
<1> QED BY <1>3, <1>4, <1>5, <1>6, <1>8, <1>9, <1>11 DEF Goes, PlayInv, StreakTakenOver, u

\* A kick counts for its shooter; nobody wins a shoot-out that is open, and one of the
\* seats wins a shoot-out that is not.
LEMMA KickFacts ==
    ASSUME NEW s, PlayInv(s), s.phase = "penalty", NEW goal \in BOOLEAN
    PROVE  LET t == Kick(s, goal) IN
           /\ t \in PlayStates
           /\ t.kicks[1] + t.kicks[2] = s.kicks[1] + s.kicks[2] + 1
           /\ t.kicks[1] <= Regulation + MaxSuddenDeath
           /\ t.kicks[1] - t.kicks[2] = IF s.shooter = 1 THEN 1 ELSE 0
           /\ t.phase = "penalty" /\ t.half = 2 /\ t.goals = s.goals /\ t.holder = Nobody
           /\ t.attacker = Nobody /\ t.purpose = "secondHalf" /\ t.round = s.round
           /\ t.shooter = s.shooter /\ t.sudden = s.sudden /\ t.dry = s.dry
           /\ (\E seat \in Seats : WinsShootout(t, seat)) <=> ~Open(t)
           /\ (t.kicks[1] >= Regulation /\ t.kicks[2] >= Regulation /\ Open(t))
                => s.sudden \/ Level(t.pens)
           /\ s.sudden => t.kicks[1] >= Regulation /\ t.kicks[2] >= Regulation
<1> DEFINE n == s.shooter
           ks == [s.kicks EXCEPT ![n] = @ + 1]
           ps == [s.pens EXCEPT ![n] = IF goal THEN @ + 1 ELSE @]
           a == [s EXCEPT !.kicks = ks]
           t == Kick(s, goal)
<1>1. s \in PlayStates /\ s.holder = Nobody /\ s.attacker = Nobody /\ s.purpose = "secondHalf"
      /\ s.half = 2
  BY DEF PlayInv, PhaseRight, StreakEarned
<1>2. s.kicks \in [Seats -> Nat] /\ s.pens \in [Seats -> Nat] /\ n \in Seats /\ s.sudden \in BOOLEAN
  BY <1>1 DEF PlayStates
<1>3. ks \in [Seats -> Nat] /\ ps \in [Seats -> Nat] BY <1>2
<1>4. t = [a EXCEPT !.pens = ps] BY <1>1 DEF Kick, PlayStates
<1>5. t \in PlayStates
  <2> HIDE DEF ks, ps
  <2>1. a \in PlayStates BY <1>1, <1>3, SetKicks
  <2> HIDE DEF a, t
  <2> QED BY <1>3, <1>4, <2>1, SetPens
<1>6. /\ t.kicks = ks /\ t.pens = ps
      /\ t.phase = "penalty" /\ t.half = 2 /\ t.goals = s.goals /\ t.holder = Nobody
      /\ t.attacker = Nobody /\ t.purpose = "secondHalf" /\ t.round = s.round
      /\ t.shooter = s.shooter /\ t.sudden = s.sudden /\ t.dry = s.dry
  <2> HIDE DEF ks, ps
  <2> QED BY <1>1, <1>4 DEF PlayStates
<1> DEFINE k1 == t.kicks[1]
           k2 == t.kicks[2]
           p1 == t.pens[1]
           p2 == t.pens[2]
           R == Regulation
<1> HIDE DEF t
<1>7. k1 \in Nat /\ k2 \in Nat /\ p1 \in Nat /\ p2 \in Nat BY <1>3, <1>6 DEF Seats
<1>8. s.sudden <=> s.kicks[1] >= R /\ s.kicks[2] >= R BY DEF PlayInv, Aux
<1>9. /\ Remaining(t, 1) = IF k1 < R THEN R - k1 ELSE 0
      /\ Remaining(t, 2) = IF k2 < R THEN R - k2 ELSE 0
      /\ Due(t, 1) = (IF k1 > R THEN k1 ELSE R) - k1
      /\ Due(t, 2) = (IF k1 > R THEN k1 ELSE R) - k2
  BY DEF Remaining, Due
<1>10. /\ WinsShootout(t, 1) <=> IF s.sudden THEN k1 = k2 /\ p1 > p2 ELSE p1 > p2 + Remaining(t, 2)
       /\ WinsShootout(t, 2) <=> IF s.sudden THEN k1 = k2 /\ p2 > p1 ELSE p2 > p1 + Remaining(t, 1)
  BY <1>2, <1>6 DEF WinsShootout, Level, Other
<1>11. Open(t) <=> p1 <= p2 + Due(t, 2) /\ p2 <= p1 + Due(t, 1) BY DEF Open, Seats, Other
<1>12. (\E seat \in Seats : WinsShootout(t, seat)) <=> WinsShootout(t, 1) \/ WinsShootout(t, 2)
  BY DEF Seats
<1>13. Level(t.pens) <=> p1 = p2 BY DEF Level
<1> DEFINE Goal == /\ k1 + k2 = s.kicks[1] + s.kicks[2] + 1
                   /\ k1 <= Regulation + MaxSuddenDeath
                   /\ k1 - k2 = IF s.shooter = 1 THEN 1 ELSE 0
                   /\ (WinsShootout(t, 1) \/ WinsShootout(t, 2)) <=> ~Open(t)
                   /\ (k1 >= R /\ k2 >= R /\ Open(t)) => s.sudden \/ p1 = p2
                   /\ s.sudden => k1 >= R /\ k2 >= R
<1>14. ASSUME n = 1 PROVE Goal
  <2>1. k1 = s.kicks[1] + 1 /\ k2 = s.kicks[2] /\ p2 = s.pens[2] /\ p1 \in {s.pens[1], s.pens[1] + 1}
    BY <1>2, <1>6, <1>14 DEF Seats
  <2>2. s.kicks[1] = s.kicks[2] /\ s.kicks[1] < R + MaxSuddenDeath
        /\ s.pens[1] <= s.pens[2] + Due(s, 2) /\ s.pens[2] <= s.pens[1] + Due(s, 1)
        /\ s.pens[1] \in Nat /\ s.pens[2] \in Nat
    BY <1>14, ShootoutFacts
  <2>3. Due(s, 1) = (IF k2 > R THEN k2 ELSE R) - k2 /\ Due(s, 2) = (IF k2 > R THEN k2 ELSE R) - k2
    BY <2>1, <2>2 DEF Due
  <2> HIDE DEF k1, k2, p1, p2
  <2>4. CASE k2 >= R
    <3>1. s.sudden BY <1>8, <2>1, <2>2, <2>4
    <3>2. s.pens[1] = s.pens[2] BY <1>7, <2>2, <2>3, <2>4, RulesAssumption
    <3>3. k1 = k2 + 1 BY <2>1, <2>2
    <3>4. ~WinsShootout(t, 1) /\ ~WinsShootout(t, 2) BY <1>7, <1>10, <3>1, <3>3
    <3>5. Open(t)
      <4>1. Due(t, 1) = 0 /\ Due(t, 2) = 1 BY <1>7, <1>9, <2>4, <3>3, RulesAssumption
      <4> QED BY <1>7, <1>11, <2>1, <3>2, <4>1
    <3>6. Goal BY <1>7, <1>14, <2>1, <2>2, <2>4, <3>1, <3>3, <3>4, <3>5, RulesAssumption
    <3> QED BY <3>6
  <2>5. CASE k2 < R
    <3>1. ~s.sudden BY <1>7, <1>8, <2>1, <2>2, <2>5, RulesAssumption
    <3>2. k1 = k2 + 1 /\ k1 <= R BY <1>7, <2>1, <2>2, <2>5, RulesAssumption
    <3>3. Remaining(t, 1) = Due(t, 1) /\ Remaining(t, 2) = Due(t, 2)
          /\ Due(t, 1) = R - k1 /\ Due(t, 2) = R - k2
      BY <1>7, <1>9, <2>5, <3>2, RulesAssumption
    <3>4. (WinsShootout(t, 1) \/ WinsShootout(t, 2)) <=> ~Open(t)
      BY <1>7, <1>10, <1>11, <3>1, <3>3, RulesAssumption
    <3>5. Goal BY <1>7, <1>14, <2>1, <2>2, <2>5, <3>1, <3>2, <3>4, RulesAssumption
    <3> QED BY <3>5
  <2>6. k2 >= R \/ k2 < R BY <1>7, RulesAssumption
  <2> QED BY <2>4, <2>5, <2>6
<1>15. ASSUME n = 2 PROVE Goal
  <2>1. k2 = s.kicks[2] + 1 /\ k1 = s.kicks[1] /\ p1 = s.pens[1] /\ p2 \in {s.pens[2], s.pens[2] + 1}
    BY <1>2, <1>6, <1>15 DEF Seats
  <2>2. s.kicks[1] = s.kicks[2] + 1 /\ s.kicks[1] <= R + MaxSuddenDeath
        /\ s.pens[1] \in Nat /\ s.pens[2] \in Nat /\ s.kicks[2] \in Nat
    BY <1>15, ShootoutFacts
  <2> HIDE DEF k1, k2, p1, p2
  <2>3. k1 = k2 BY <1>7, <2>1, <2>2
  <2>4. CASE k2 > R
    <3>1. s.sudden BY <1>7, <1>8, <2>1, <2>2, <2>3, <2>4, RulesAssumption
    <3>2. Due(t, 1) = 0 /\ Due(t, 2) = 0 BY <1>7, <1>9, <2>3, <2>4, RulesAssumption
    <3>3. (WinsShootout(t, 1) \/ WinsShootout(t, 2)) <=> ~Open(t)
      BY <1>7, <1>10, <1>11, <2>3, <3>1, <3>2
    <3>4. Goal BY <1>7, <1>15, <2>1, <2>2, <2>3, <2>4, <3>1, <3>3, RulesAssumption
    <3> QED BY <3>4
  <2>5. CASE k2 <= R
    <3>1. ~s.sudden BY <1>7, <1>8, <2>1, <2>2, <2>5, RulesAssumption
    <3>2. Remaining(t, 1) = Due(t, 1) /\ Remaining(t, 2) = Due(t, 2)
          /\ Due(t, 1) = R - k2 /\ Due(t, 2) = R - k2
      BY <1>7, <1>9, <2>3, <2>5, RulesAssumption
    <3>3. (WinsShootout(t, 1) \/ WinsShootout(t, 2)) <=> ~Open(t)
      BY <1>7, <1>10, <1>11, <3>1, <3>2, RulesAssumption
    <3>4. (k1 >= R /\ k2 >= R /\ Open(t)) => p1 = p2
      BY <1>7, <1>11, <2>5, <3>2, RulesAssumption
    <3>5. Goal BY <1>7, <1>15, <2>1, <2>2, <2>3, <3>1, <3>3, <3>4
    <3> QED BY <3>5
  <2>6. k2 > R \/ k2 <= R BY <1>7, RulesAssumption
  <2> QED BY <2>4, <2>5, <2>6
<1>16. Goal BY <1>2, <1>14, <1>15 DEF Seats
<1> QED BY <1>5, <1>6, <1>12, <1>13, <1>16 DEF t

\* A penalty: the shoot-out is won, drawn, or goes on.
LEMMA PenaltyGoes ==
    ASSUME NEW s, PlayInv(s), s.phase = "penalty", NEW p \in [Seats -> Points], NEW c \in [Seats -> BOOLEAN]
    PROVE  Goes(s, PenaltyResult(s, p, c))
<1> DEFINE goal == IF IsGoal(s.shooter, p, c) THEN TRUE ELSE FALSE
           t == Kick(s, goal)
           tied == Level(t.pens) /\ \A seat \in Seats : t.kicks[seat] >= Regulation
           drawn == Level(t.kicks) /\ Level(t.pens) /\ t.kicks[1] >= Regulation + MaxSuddenDeath
           u == PenaltyResult(s, p, c)
<1>1. /\ u = IF \E seat \in Seats : WinsShootout(t, seat) THEN [t EXCEPT !.phase = "completed"]
             ELSE [t EXCEPT !.phase = IF drawn THEN "completed" ELSE "penalty",
                            !.round = @ + 1, !.shooter = Other(s.shooter), !.sudden = @ \/ tied]
  <2>1. Kick(s, IsGoal(s.shooter, p, c)) = t BY DEF Kick
  <2> QED BY <2>1 DEF PenaltyResult
<1>2. s \in PlayStates /\ s.shooter \in {1, 2} /\ s.sudden \in BOOLEAN BY DEF PlayInv, PlayStates, Seats
<1>3. goal \in BOOLEAN OBVIOUS
<1> HIDE DEF goal
<1>4. /\ t \in PlayStates
      /\ t.kicks[1] + t.kicks[2] = s.kicks[1] + s.kicks[2] + 1
      /\ t.kicks[1] <= Regulation + MaxSuddenDeath
      /\ t.kicks[1] - t.kicks[2] = IF s.shooter = 1 THEN 1 ELSE 0
      /\ t.phase = "penalty" /\ t.half = 2 /\ t.goals = s.goals /\ t.holder = Nobody
      /\ t.attacker = Nobody /\ t.purpose = "secondHalf" /\ t.round = s.round
      /\ t.shooter = s.shooter /\ t.sudden = s.sudden /\ t.dry = s.dry
      /\ (\E seat \in Seats : WinsShootout(t, seat)) <=> ~Open(t)
      /\ (t.kicks[1] >= Regulation /\ t.kicks[2] >= Regulation /\ Open(t)) => s.sudden \/ Level(t.pens)
      /\ s.sudden => t.kicks[1] >= Regulation /\ t.kicks[2] >= Regulation
  BY <1>3, KickFacts
<1> HIDE DEF t, u
<1>5. t.kicks \in [Seats -> Nat] /\ t.pens \in [Seats -> Nat] /\ t.round \in Nat BY <1>4 DEF PlayStates
<1>6. t.kicks[1] \in Nat /\ t.kicks[2] \in Nat /\ t.pens[1] \in Nat /\ t.pens[2] \in Nat
  BY <1>5 DEF Seats
<1>7. s.round > 0 /\ Level(s.goals) /\ s.kicks[1] + s.kicks[2] < Penalties
      /\ s.kicks[1] \in Nat /\ s.kicks[2] \in Nat /\ s.round = s.kicks[1] + s.kicks[2] + 1
  BY ShootoutFacts DEF PlayInv, ShootoutRight
<1>8. Penalties \in Nat /\ Rank(s) = Penalties - s.kicks[1] - s.kicks[2]
  BY RulesAssumption DEF Penalties, Rank
<1>9. drawn <=> Drawn(t)
  <2>1. Drawn(t) <=> Level(t.pens) /\ t.kicks[1] = Regulation + MaxSuddenDeath
                     /\ t.kicks[2] = Regulation + MaxSuddenDeath
    BY DEF Drawn, Seats
  <2> QED BY <1>4, <1>6, <2>1, RulesAssumption DEF Level
<1>10. CASE ~Open(t)
  <2>1. u = [t EXCEPT !.phase = "completed"] BY <1>1, <1>4, <1>10
  <2>2. u \in PlayStates BY <1>4, <2>1, SetPhase
  <2>3. /\ u.phase = "completed" /\ u.half = 2 /\ u.goals = s.goals /\ u.holder = Nobody
        /\ u.attacker = Nobody /\ u.purpose = "secondHalf" /\ u.round = s.round
        /\ u.pens = t.pens /\ u.kicks = t.kicks
    BY <1>4, <2>1 DEF PlayStates
  <2>4. ~Open(u) BY <1>10, <2>3 DEF Open, Due
  <2>5. PhaseRight(u) /\ StreakEarned(u) BY <2>3 DEF PhaseRight, StreakEarned
  <2>6. ShootoutRight(u) BY <2>3, <2>4 DEF ShootoutRight
  <2>7. Aux(u) BY <1>7, <2>3 DEF Aux
  <2>8. Decided(u) BY <1>6, <1>7, <2>3 DEF Decided, Decision, InShootout, Level
  <2>9. Rank(u) = 0 BY <2>3 DEF Rank
  <2>10. Rank(u) < Rank(s) BY <1>7, <1>8, <2>9
  <2> QED BY <2>2, <2>3, <2>5, <2>6, <2>7, <2>8, <2>10 DEF Goes, PlayInv, StreakTakenOver, u
<1>11. CASE Open(t)
  <2> DEFINE phase == IF drawn THEN "completed" ELSE "penalty"
             a == [t EXCEPT !.phase = phase]
             b == [a EXCEPT !.round = s.round + 1]
             d == [b EXCEPT !.shooter = Other(s.shooter)]
             sudden == IF t.sudden \/ tied THEN TRUE ELSE FALSE
  <2>1. u = [t EXCEPT !.phase = phase, !.round = @ + 1, !.shooter = Other(s.shooter), !.sudden = @ \/ tied]
    BY <1>1, <1>4, <1>11
  <2>2. (t.sudden \/ tied) = sudden BY <1>2, <1>4
  <2> HIDE DEF phase, sudden, tied, drawn
  <2>3. u = [d EXCEPT !.sudden = sudden] BY <1>4, <2>1, <2>2 DEF PlayStates
  <2>4. phase \in {"completed", "penalty"} /\ sudden \in BOOLEAN /\ Other(s.shooter) \in Seats
    BY <1>2 DEF phase, sudden, Other, Seats
  <2>5. u \in PlayStates
    <3>1. a \in PlayStates BY <1>4, <2>4, SetPhase
    <3> HIDE DEF a
    <3>2. b \in PlayStates BY <1>4, <1>5, <3>1, SetRound
    <3> HIDE DEF b
    <3>3. d \in PlayStates BY <2>4, <3>2, SetShooter
    <3> HIDE DEF d
    <3> QED BY <2>3, <2>4, <3>3, SetSudden
  <2>6. /\ u.phase = phase /\ u.half = 2 /\ u.goals = s.goals /\ u.holder = Nobody
        /\ u.attacker = Nobody /\ u.purpose = "secondHalf" /\ u.round = s.round + 1
        /\ u.shooter = Other(s.shooter) /\ u.sudden = sudden
        /\ u.pens = t.pens /\ u.kicks = t.kicks
    BY <1>4, <2>3 DEF PlayStates
  <2>7. Open(u) /\ (Drawn(u) <=> drawn) BY <1>9, <1>11, <2>6 DEF Open, Drawn, Due
  <2>8. PhaseRight(u) /\ StreakEarned(u) BY <1>7, <2>4, <2>6 DEF PhaseRight, StreakEarned
  <2>9. u.kicks[1] - u.kicks[2] = IF u.shooter = 1 THEN 0 ELSE 1
    BY <1>2, <1>4, <1>6, <2>6 DEF Other
  <2>10. u.round = u.kicks[1] + u.kicks[2] + 1 BY <1>4, <1>6, <1>7, <2>6
  <2>11. ShootoutRight(u)
    <3>1. u.phase = "penalty" => ~Drawn(u) BY <2>6, <2>7 DEF phase
    <3>2. u.phase = "completed" => Drawn(u) BY <2>6, <2>7 DEF phase
    <3> QED BY <1>4, <2>6, <2>7, <2>9, <2>10, <3>1, <3>2 DEF ShootoutRight
  <2>12. sudden <=> t.kicks[1] >= Regulation /\ t.kicks[2] >= Regulation
    <3>1. tied <=> Level(t.pens) /\ t.kicks[1] >= Regulation /\ t.kicks[2] >= Regulation
      BY DEF tied, Seats
    <3> QED BY <1>2, <1>4, <1>11, <3>1 DEF sudden
  <2>13. Aux(u) BY <1>7, <2>4, <2>6, <2>12 DEF Aux
  <2>14. Decided(u) BY <1>6, <1>7, <2>6 DEF Decided, Decision, InShootout, Level
  <2>15. Rank(u) < Rank(s)
    <3>1. Rank(u) = 0 \/ Rank(u) = Penalties - t.kicks[1] - t.kicks[2] BY <2>4, <2>6 DEF Rank
    <3> QED BY <1>4, <1>6, <1>7, <1>8, <3>1
  <2> QED BY <2>5, <2>6, <2>8, <2>11, <2>13, <2>14, <2>15 DEF Goes, PlayInv, StreakTakenOver, u
<1> QED BY <1>10, <1>11

\* Every way a match goes on keeps what is right, gives the streak only to who earned it
\* and brings the end nearer.
THEOREM RoundsKeepRules ==
    ASSUME PlayInv(play), NormalRound \/ LastAttackRound \/ EndHalftime \/ PenaltyRound \/ RunDry
    PROVE  PlayInv(play') /\ Rank(play') \in Nat /\ Rank(play') < Rank(play) /\ StreakTakenOver(play, play')
<1>1. CASE NormalRound
  <2>1. PICK p \in Earned, c \in Right, preset \in BOOLEAN : play' = NormalResult(play, p, c, preset)
    BY <1>1 DEF NormalRound
  <2> QED BY <1>1, <2>1, NormalGoes, RankIsNatural DEF Goes, NormalRound, Earned, Right
<1>2. CASE LastAttackRound
  <2>1. PICK p \in Earned, preset \in BOOLEAN : play' = LastAttackResult(play, p, preset)
    BY <1>2 DEF LastAttackRound
  <2> QED BY <1>2, <2>1, LastAttackGoes, RankIsNatural DEF Goes, LastAttackRound, Earned
<1>3. CASE EndHalftime BY <1>3, HalftimeGoes, RankIsNatural DEF Goes, EndHalftime
<1>4. CASE PenaltyRound
  <2>1. PICK p \in Earned, c \in Right : play' = PenaltyResult(play, p, c)
    BY <1>4 DEF PenaltyRound
  <2> QED BY <1>4, <2>1, PenaltyGoes, RankIsNatural DEF Goes, PenaltyRound, Earned, Right
<1>5. CASE RunDry BY <1>5, PoolDryGoes, RankIsNatural DEF Goes, RunDry
<1> QED BY <1>1, <1>2, <1>3, <1>4, <1>5

\* A process that reads the state back from its blob plays on with the state it was.
THEOREM ReloadIsHarmless ==
    ASSUME NEW s, PlayInv(s)
    PROVE  Reload(s) = s
<1>1. s \in PlayStates /\ StreakEarned(s) BY DEF PlayInv
<1>2. CASE s.holder = Nobody BY <1>1, <1>2 DEF Reload, PlayStates
<1>3. CASE s.holder # Nobody
  <2>1. s.candidate = s.holder /\ s.streak >= 2 BY <1>1, <1>3 DEF StreakEarned
  <2> QED BY <1>1, <2>1 DEF Reload, PlayStates
<1> QED BY <1>2, <1>3

-----------------------------------------------------------------------------
(* The match as a behaviour. *)

\* One step of a match, a process that reads its state back included.
LEMMA StepGoes ==
    ASSUME PlayInv(play), [Next]_play
    PROVE  /\ PlayInv(play')
           /\ play' = play \/ (Rank(play') \in Nat /\ Rank(play') < Rank(play) /\ StreakTakenOver(play, play'))
<1>1. CASE Restore \/ UNCHANGED play
  <2>1. play' = play BY <1>1, ReloadIsHarmless DEF Restore
  <2> QED BY <2>1
<1>2. CASE Next /\ ~Restore BY <1>2, RoundsKeepRules DEF Next
<1> QED BY <1>1, <1>2

\* PlayInv holds throughout.
LEMMA PlayInvariant == Spec => []PlayInv(play)
<1>1. Init => PlayInv(play) BY StartsRight DEF Init
<1>2. PlayInv(play) /\ [Next]_play => PlayInv(play)'
  <2> SUFFICES ASSUME PlayInv(play), [Next]_play PROVE PlayInv(play')
    BY DEF PlayInv, PhaseRight, StreakEarned, ShootoutRight, Decided, Aux
  <2> QED BY StepGoes
<1> QED BY <1>1, <1>2, PTL DEF Spec

\* The ball stays between the goals and every part of the state keeps its type.
THEOREM TypeCorrect == Spec => []TypeOK
<1>1. PlayInv(play) => TypeOK BY DEF PlayInv, TypeOK
<1> QED BY <1>1, PlayInvariant, PTL

\* The phases hand over what the next one needs.
THEOREM PhasesFollow == Spec => []PhaseFollows
<1>1. PlayInv(play) => PhaseFollows BY DEF PlayInv, PhaseFollows
<1> QED BY <1>1, PlayInvariant, PTL

\* The holder of a streak has earned it.
THEOREM StreaksKept == Spec => []StreakKept
<1>1. PlayInv(play) => StreakKept BY DEF PlayInv, StreakKept
<1> QED BY <1>1, PlayInvariant, PTL

\* The shoot-out stops when it must and not before.
THEOREM ShootoutsFair == Spec => []ShootoutFair
<1>1. PlayInv(play) => ShootoutFair BY DEF PlayInv, ShootoutFair
<1> QED BY <1>1, PlayInvariant, PTL

\* Who won is not left to the points.
THEOREM WinnersClear == Spec => []WinnerClear
<1>1. PlayInv(play) => WinnerClear BY DEF PlayInv, WinnerClear
<1> QED BY <1>1, PlayInvariant, PTL

\* The streak passes only to who was earning it.
THEOREM StreaksPass == Spec => StreakPasses
<1>1. PlayInv(play) /\ [Next]_play => [StreakTakenOver(play, play')]_play BY StepGoes
<1> QED BY <1>1, PlayInvariant, PTL DEF Spec, StreakPasses

\* Every round brings the end nearer: a match has at most Rank(InitialPlay) rounds and
\* half-times.
THEOREM EndComesNearer == Spec => EndNears
<1>1. PlayInv(play) /\ [Next]_play => [Rank(play') \in Nat /\ Rank(play') < Rank(play)]_play BY StepGoes
<1> QED BY <1>1, PlayInvariant, PTL DEF Spec, EndNears
=============================================================================
