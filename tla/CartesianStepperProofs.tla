----------------------- MODULE CartesianStepperProofs -----------------------
(***************************************************************************)
(* Proofs about CartesianStepper, for any tolerance, steps and fraction.   *)
(***************************************************************************)
EXTENDS CartesianStepper, TLAPS

Longer == IF Primary < Fallback THEN Fallback ELSE Primary

(***************************************************************************)
(* Where the robot is with respect to the position read at the head of the *)
(* round: still there before the primary step, and at most one primary     *)
(* step ahead before the fallback step.                                    *)
(***************************************************************************)
PrimaryFromHead == pc = "primary" => dist = cur
FallbackInReach == pc = "fallback" => cur - dist <= Primary

IInv ==
    /\ TypeOK
    /\ NeverRetreats
    /\ StaysInStep
    /\ PrimaryFromHead
    /\ FallbackInReach

-----------------------------------------------------------------------------
\* A waypoint is at most a step ahead of the last known position.
LEMMA WaypointBounds ==
    ASSUME TypeOK, NEW step \in Nat
    PROVE  /\ Waypoint(step) \in 0..cur
           /\ cur - Waypoint(step) = Lesser(cur, step)
  BY StepperAssumption DEF TypeOK, Waypoint, Lesser

\* A step, accepted or not, ends between its start and its waypoint.
LEMMA StepEnds ==
    ASSUME NEW wp, StepDone(wp) \/ StepFails(wp), TypeOK
    PROVE  dist' \in 0..MaxDist
           /\ (dist' = dist \/ dist' \in Between(dist, wp))
  BY DEF StepDone, StepFails, Covers, Between, TypeOK

\* Not being behind a point within reach means being within reach.
LEMMA WithinReach ==
    ASSUME NEW from \in Nat, NEW point \in Nat, NEW reach \in Nat, NEW d \in Nat,
           from - point <= reach, point <= d
    PROVE  from - d <= reach
  OBVIOUS

LEMMA WithinLonger ==
    ASSUME NEW x \in Int, x <= Primary \/ x <= Fallback
    PROVE  x <= Longer
  BY StepperAssumption DEF Longer

LEMMA InitIInv == Init => IInv
  BY StepperAssumption
  DEF Init, IInv, TypeOK, NeverRetreats, StaysInStep, PrimaryFromHead, FallbackInReach

LEMMA InvStep == IInv /\ [Next]_vars => IInv'
<1> SUFFICES ASSUME IInv, [Next]_vars PROVE IInv'
  OBVIOUS
<1> USE StepperAssumption
<1>1. CASE CheckTarget
  BY <1>1
  DEF CheckTarget, Return, IInv, TypeOK, NeverRetreats, StaysInStep, PrimaryFromHead,
      FallbackInReach
<1>2. CASE PrimaryStep
  <2> DEFINE wp == Waypoint(Primary)
  <2>0. /\ cur \in Nat /\ dist \in Nat /\ dist' \in Nat
        /\ Primary \in Nat /\ Fallback \in Nat
    BY <1>2, StepEnds DEF PrimaryStep, IInv, TypeOK
  <2>1. TypeOK /\ pc = "primary" /\ dist = cur /\ cur' = cur /\ ok' = ok /\ result' = result
    BY <1>2 DEF IInv, PrimaryFromHead, PrimaryStep
  <2>2. /\ pc' \in {"head", "fallback"}
        /\ StepDone(wp) \/ StepFails(wp)
    BY <1>2 DEF PrimaryStep
  <2>3. wp \in 0..cur /\ cur - wp <= Primary
    BY <2>1, WaypointBounds DEF Lesser, TypeOK
  <2>4. /\ dist' \in 0..MaxDist
        /\ dist' = dist \/ dist' \in Between(dist, wp)
    BY <2>1, <2>2, StepEnds
  <2> HIDE DEF wp
  <2>5. dist' <= cur /\ cur - dist' <= Primary
    <3>1. cur \in Nat /\ dist' \in Nat /\ dist = cur
      BY <2>1, <2>4 DEF TypeOK
    <3>2. wp <= dist' \/ dist' = cur
      BY <2>3, <2>4, <3>1 DEF Between
    <3>3. dist' <= cur
      BY <2>3, <2>4, <3>1 DEF Between
    <3>4. wp \in Nat /\ cur - cur <= Primary
      BY <2>0, <2>3
    <3>5. cur - dist' <= Primary
      BY <2>0, <2>3, <3>1, <3>2, <3>4, WithinReach
    <3> QED  BY <3>3, <3>5
  <2>6. StaysInStep'
    <3>1. cur - dist' \in Int
      BY <2>0
    <3>2. cur - dist' <= Longer
      BY <2>5, <3>1, WithinLonger
    <3> QED  BY <2>1, <3>2 DEF StaysInStep, Longer
  <2>7. NeverRetreats' /\ PrimaryFromHead' /\ FallbackInReach'
    BY <2>1, <2>2, <2>5 DEF NeverRetreats, PrimaryFromHead, FallbackInReach
  <2>8. TypeOK'
    BY <2>1, <2>2, <2>4 DEF TypeOK
  <2> QED  BY <2>6, <2>7, <2>8 DEF IInv
<1>3. CASE FallbackStep
  <2> DEFINE wp == Waypoint(Fallback)
  <2>0. /\ cur \in Nat /\ dist \in Nat /\ dist' \in Nat
        /\ Primary \in Nat /\ Fallback \in Nat
    BY <1>3, StepEnds DEF FallbackStep, IInv, TypeOK
  <2>1. /\ TypeOK /\ pc = "fallback" /\ cur' = cur /\ ok' = ok
        /\ dist <= cur /\ cur - dist <= Primary
    BY <1>3 DEF IInv, NeverRetreats, FallbackInReach, FallbackStep
  <2>2. /\ StepDone(wp) \/ StepFails(wp)
        /\ \/ pc' = "head" /\ result' = result
           \/ pc' = "done" /\ result' = "failed"
    BY <1>3 DEF FallbackStep, Return
  <2>3. wp \in 0..cur /\ cur - wp <= Fallback
    BY <2>1, WaypointBounds DEF Lesser, TypeOK
  <2>4. /\ dist' \in 0..MaxDist
        /\ dist' = dist \/ dist' \in Between(dist, wp)
    BY <2>1, <2>2, StepEnds
  <2> HIDE DEF wp
  <2>5. dist' <= cur /\ (cur - dist' <= Primary \/ cur - dist' <= Fallback)
    <3>1. cur \in Nat /\ dist' \in Nat /\ dist \in Nat
      BY <2>1, <2>4 DEF TypeOK
    <3>2. dist' >= dist \/ dist' >= wp
      BY <2>3, <2>4, <3>1 DEF Between
    <3>3. dist' <= dist \/ dist' <= wp
      BY <2>3, <2>4, <3>1 DEF Between
    <3>4. wp \in Nat /\ wp <= cur
      BY <2>0, <2>3
    <3>5. dist' <= cur
      BY <2>0, <2>1, <3>3, <3>4
    <3>6. cur - dist' <= Primary \/ cur - dist' <= Fallback
      BY <2>0, <2>1, <2>3, <3>2, <3>4, WithinReach
    <3> QED  BY <3>5, <3>6
  <2>6. StaysInStep'
    <3>1. cur - dist' \in Int
      BY <2>0
    <3>2. cur - dist' <= Longer
      BY <2>5, <3>1, WithinLonger
    <3> QED  BY <2>1, <3>2 DEF StaysInStep, Longer
  <2>7. NeverRetreats' /\ PrimaryFromHead' /\ FallbackInReach'
    BY <2>1, <2>2, <2>5 DEF NeverRetreats, PrimaryFromHead, FallbackInReach
  <2>8. TypeOK'
    BY <2>1, <2>2, <2>4 DEF TypeOK
  <2> QED  BY <2>6, <2>7, <2>8 DEF IInv
<1>4. CASE Shutdown
  BY <1>4
  DEF Shutdown, IInv, TypeOK, NeverRetreats, StaysInStep, PrimaryFromHead, FallbackInReach
<1>5. CASE UNCHANGED vars
  BY <1>5
  DEF vars, IInv, TypeOK, NeverRetreats, StaysInStep, PrimaryFromHead, FallbackInReach
<1> QED  BY <1>1, <1>2, <1>3, <1>4, <1>5 DEF Next

THEOREM Invariant == Spec => []IInv
<1> QED  BY InitIInv, InvStep, PTL DEF Spec

\* A round never ends behind the position it started from.
THEOREM RetreatFree == Spec => []NeverRetreats
<1>1. IInv => NeverRetreats
  BY DEF IInv
<1> QED  BY <1>1, Invariant, PTL

\* The robot never moves more than one step without its position being read.
THEOREM StepBounded == Spec => []StaysInStep
<1>1. IInv => StaysInStep
  BY DEF IInv
<1> QED  BY <1>1, Invariant, PTL

-----------------------------------------------------------------------------
\* Multiplying by a percentage is monotonic and at most multiplying by 100.
LEMMA Percentage ==
    ASSUME NEW a \in Nat, NEW b \in Nat, NEW m \in 0..100, a <= b
    PROVE  m * a <= m * b /\ m * a <= 100 * a
<1>1. m * (b - a) >= 0 /\ (100 - m) * a >= 0
  OBVIOUS
<1>2. m * b = m * a + m * (b - a) /\ 100 * a = m * a + (100 - m) * a
  OBVIOUS
<1> QED  BY <1>1, <1>2

\* An accepted step from wherever the round has led to its waypoint
\* advances, measured from the head, by the accepted fraction.
LEMMA AcceptedAdvances ==
    ASSUME TypeOK, NeverRetreats, NEW step \in Nat,
           NEW d \in 0..MaxDist, Covers(dist, Waypoint(step), d)
    PROVE  100 * (cur - d) >= MinFraction * Lesser(cur, step)
<1> DEFINE wp == Waypoint(step)
<1>1. /\ wp \in 0..cur /\ cur - wp = Lesser(cur, step)
      /\ dist \in 0..cur /\ cur \in Nat /\ MinFraction \in 0..100
  BY WaypointBounds, StepperAssumption DEF TypeOK, NeverRetreats
<1>2. d \in Between(dist, wp) /\ 100 * Gap(dist, d) >= MinFraction * Gap(dist, wp)
  BY DEF Covers
<1> HIDE DEF wp
<1>3. CASE wp <= dist
  <2>1. wp <= d /\ d <= dist
    BY <1>1, <1>2, <1>3 DEF Between
  <2>2. Gap(dist, d) = dist - d /\ Gap(dist, wp) = dist - wp
    BY <1>1, <1>3, <2>1 DEF Gap
  <2>3. 100 * (dist - d) >= MinFraction * (dist - wp)
    BY <1>2, <2>2
  <2>4. cur - dist \in Nat /\ MinFraction * (cur - dist) <= 100 * (cur - dist)
    <3>1. cur - dist \in Nat
      BY <1>1
    <3> QED  BY <1>1, <3>1, Percentage
  <2>5. MinFraction * (cur - wp) = MinFraction * (cur - dist) + MinFraction * (dist - wp)
    BY <1>1
  <2>6. 100 * (cur - d) = 100 * (cur - dist) + 100 * (dist - d)
    BY <1>1
  <2> QED  BY <1>1, <2>3, <2>4, <2>5, <2>6
<1>4. CASE ~(wp <= dist)
  <2>1. d <= wp
    BY <1>1, <1>2, <1>4 DEF Between
  <2>2. cur - wp \in Nat /\ MinFraction * (cur - wp) <= 100 * (cur - wp)
    <3>1. cur - wp \in Nat
      BY <1>1
    <3> QED  BY <1>1, <3>1, Percentage
  <2>3. 100 * (cur - wp) <= 100 * (cur - d)
    BY <1>1, <2>1
  <2>4. MinFraction * (cur - wp) <= 100 * (cur - d)
    BY <1>1, <2>2, <2>3
  <2> QED  BY <1>1, <2>4
<1> QED  BY <1>3, <1>4

\* Every round that goes on advances, so the number of rounds is bounded when
\* the steps and the fraction are positive.
THEOREM RoundsAdvance == Spec => RoundAdvances
<1>1. IInv /\ [Next]_vars => [RoundAdvance]_vars
  <2> SUFFICES ASSUME IInv, Next, pc \in {"primary", "fallback"}, pc' = "head"
               PROVE  100 * (cur - dist') >= MinFraction * Lesser(cur, Lesser(Primary, Fallback))
    BY DEF RoundAdvance
  <2>1. TypeOK /\ NeverRetreats /\ cur \in Nat /\ MinFraction \in 0..100
        /\ Primary \in Nat /\ Fallback \in Nat
    BY StepperAssumption DEF IInv, TypeOK
  <2>2. ASSUME NEW step \in {Primary, Fallback}, StepDone(Waypoint(step))
        PROVE  100 * (cur - dist') >= MinFraction * Lesser(cur, Lesser(Primary, Fallback))
    <3>1. dist' \in 0..MaxDist /\ Covers(dist, Waypoint(step), dist')
      BY <2>2 DEF StepDone
    <3>2. 100 * (cur - dist') >= MinFraction * Lesser(cur, step)
      BY <2>1, <3>1, AcceptedAdvances
    <3> DEFINE short == Lesser(cur, Lesser(Primary, Fallback))
               long  == Lesser(cur, step)
    <3>3. short \in Nat /\ long \in Nat /\ short <= long
      BY <2>1 DEF Lesser
    <3> HIDE DEF short, long
    <3>4. MinFraction * short <= MinFraction * long
      BY <2>1, <3>3, Percentage
    <3>5. dist' \in Int /\ cur - dist' \in Int
      BY <2>1, <3>1
    <3> QED  BY <2>1, <3>2, <3>3, <3>4, <3>5 DEF short, long
  <2>3. CASE PrimaryStep
    BY <2>2, <2>3 DEF PrimaryStep
  <2>4. CASE FallbackStep
    BY <2>2, <2>4 DEF FallbackStep, Return
  <2>5. CASE CheckTarget \/ Shutdown
    BY <2>5 DEF CheckTarget, Shutdown
  <2> QED  BY <2>3, <2>4, <2>5 DEF Next
<1> QED  BY <1>1, Invariant, PTL DEF Spec, RoundAdvances

\* Every variable keeps its type, and a result is known exactly when executeLinear has returned.
THEOREM TypeCorrect == Spec => []TypeOK
<1>1. IInv => TypeOK
  BY DEF IInv
<1> QED  BY <1>1, Invariant, PTL
-----------------------------------------------------------------------------
\* What is left to do: three steps for each unit of distance, and those of this round.
Rank ==
    CASE pc = "head"     -> 3 * dist + 3
      [] pc = "primary"  -> 3 * cur + 2
      [] pc = "fallback" -> 3 * cur + 1
      [] pc = "done"     -> 0

\* Another round starts at least one unit closer to the target.
LEMMA NextRoundCloser ==
    ASSUME IInv, MinFraction > 0, Primary > 0, Fallback > 0, RoundAdvance,
           pc \in {"primary", "fallback"}, pc' = "head",
           dist' \in 0..MaxDist, cur > 0
    PROVE  dist' < cur
<1> DEFINE short == Lesser(cur, Lesser(Primary, Fallback))
<1>1. cur \in Nat /\ dist' \in Nat /\ MinFraction \in 1..100
      /\ Primary \in Nat /\ Fallback \in Nat
  BY StepperAssumption DEF IInv, TypeOK
<1>2. short \in Nat /\ short > 0
  BY <1>1 DEF Lesser
<1>3. 100 * (cur - dist') >= MinFraction * short
  BY DEF RoundAdvance
<1> HIDE DEF short
<1> DEFINE gain == MinFraction * short
<1>4. gain \in Int /\ gain > 0
  BY <1>1, <1>2
<1>5. 100 * (cur - dist') >= gain
  BY <1>3
<1> DEFINE ahead == cur - dist'
<1>6. ahead \in Int /\ 100 * ahead >= gain
  BY <1>1, <1>5
<1> HIDE DEF gain, ahead
<1>7. ahead > 0
  BY <1>4, <1>6
<1>8. \A a, b \in Nat : a - b > 0 => b < a
  OBVIOUS
<1> QED  BY <1>1, <1>7, <1>8 DEF ahead

\* executeLinear returns after at most 3 * dist + 3 steps: with positive steps and a
\* positive fraction each of its steps lowers a natural number, and a shutdown does
\* not raise it.
THEOREM RankFalls ==
    ASSUME MinFraction > 0, Primary > 0, Fallback > 0
    PROVE  Spec => /\ [](Rank \in Nat)
                   /\ [][IF ok' = ok THEN Rank' < Rank ELSE Rank' = Rank]_vars
<1> DEFINE Reading == pc \in {"primary", "fallback"} => cur > 0
           Falls == IF ok' = ok THEN Rank' < Rank ELSE Rank' = Rank
<1>1. IInv => Rank \in Nat
  <2> SUFFICES ASSUME IInv PROVE Rank \in Nat
    OBVIOUS
  <2>1. /\ pc \in {"head", "primary", "fallback", "done"}
        /\ dist \in Nat /\ cur \in Nat
    BY StepperAssumption DEF IInv, TypeOK
  <2> QED  BY <2>1 DEF Rank
<1>2. Init => Reading
  BY DEF Init
<1>3. IInv /\ Reading /\ [Next]_vars => Reading'
  <2> SUFFICES ASSUME IInv, Reading, [Next]_vars PROVE Reading'
    OBVIOUS
  <2>1. CASE CheckTarget
    BY <2>1, StepperAssumption DEF CheckTarget, Return, IInv, TypeOK
  <2>2. CASE PrimaryStep \/ FallbackStep \/ Shutdown \/ UNCHANGED vars
    BY <2>2 DEF PrimaryStep, FallbackStep, Shutdown, Return, vars
  <2> QED  BY <2>1, <2>2 DEF Next
<1>4. ASSUME IInv, IInv', Reading, [RoundAdvance]_vars, Next
      PROVE  [Falls]_vars
  <2> SUFFICES ASSUME vars' # vars PROVE Falls
    BY DEF vars
  <2>1. /\ dist \in Nat /\ cur \in Nat /\ dist' \in 0..MaxDist /\ dist' \in Nat
        /\ cur' \in Nat /\ RoundAdvance
    BY <1>4, StepperAssumption DEF IInv, TypeOK, vars
  <2>2. CASE CheckTarget
    <3>1. pc = "head" /\ (pc' = "done" \/ (pc' = "primary" /\ cur' = dist))
      BY <2>2, Zenon DEF CheckTarget, Return
    <3>2. ok' = ok
      BY <2>2 DEF CheckTarget
    <3> QED  BY <2>1, <3>1, <3>2 DEF Rank
  <2>3. CASE PrimaryStep
    <3>1. pc = "primary" /\ ok' = ok /\ cur' = cur /\ pc' \in {"head", "fallback"}
      BY <2>3 DEF PrimaryStep
    <3>2. CASE pc' = "head"
      <4>1. dist' < cur
        BY <1>4, <2>1, <3>1, <3>2, NextRoundCloser
      <4> QED  BY <2>1, <3>1, <3>2, <4>1 DEF Rank
    <3>3. CASE pc' = "fallback"
      BY <2>1, <3>1, <3>3 DEF Rank
    <3> QED  BY <3>1, <3>2, <3>3
  <2>4. CASE FallbackStep
    <3>1. pc = "fallback" /\ ok' = ok /\ cur' = cur /\ pc' \in {"head", "done"}
      BY <2>4 DEF FallbackStep, Return
    <3>2. CASE pc' = "head"
      <4>1. dist' < cur
        BY <1>4, <2>1, <3>1, <3>2, NextRoundCloser
      <4> QED  BY <2>1, <3>1, <3>2, <4>1 DEF Rank
    <3>3. CASE pc' = "done"
      BY <2>1, <3>1, <3>3 DEF Rank
    <3> QED  BY <3>1, <3>2, <3>3
  <2>5. CASE Shutdown
    BY <2>5 DEF Shutdown, Rank
  <2> QED  BY <1>4, <2>2, <2>3, <2>4, <2>5 DEF Next
<1>5. IInv /\ Reading /\ [Next]_vars /\ IInv' /\ [RoundAdvance]_vars => [Falls]_vars
  <2>1. ASSUME UNCHANGED vars PROVE [Falls]_vars
    BY <2>1
  <2> QED  BY <1>4, <2>1
<1> HIDE DEF Reading, Falls
<1>6. Spec => [](Rank \in Nat) /\ [][Falls]_vars
  BY <1>1, <1>2, <1>3, <1>5, Invariant, RoundsAdvance, PTL DEF Spec, RoundAdvances
<1> QED  BY <1>6 DEF Falls
=============================================================================
