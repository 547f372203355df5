-------------------------- MODULE CartesianStepper --------------------------
(***************************************************************************)
(* MoveItCartesianBackend::executeLinear: move the tool centre point along *)
(* a straight line, one short Cartesian path at a time.                    *)
(*                                                                         *)
(* Positions are distances to the target along the line, in a unit chosen  *)
(* by the user of the module; the orientation, which the loop interpolates *)
(* but never looks at, is left out.  A fraction is a percentage.           *)
(* Execution that succeeds ends where its trajectory ends; execution that  *)
(* fails may stop anywhere on it (move_group, outside the package).        *)
(***************************************************************************)
EXTENDS Integers

CONSTANTS
    MaxDist,      \* bound: the longest segment
    Tol,          \* cartesian_final_position_tol
    Primary,      \* cartesian_primary_step_m
    Fallback,     \* cartesian_fallback_step_m
    MinFraction   \* the least accepted fraction of a path, in percent

ASSUME StepperAssumption ==
    /\ MaxDist \in Nat
    /\ Tol \in Nat
    /\ Primary \in Nat
    /\ Fallback \in Nat
    /\ MinFraction \in 0..100

VARIABLES
    pc,       \* where executeLinear is
    dist,     \* distance of the tool to the target
    cur,      \* p_cur: the distance read at the head of the loop
    ok,       \* rclcpp::ok()
    result    \* what executeLinear returned

vars == <<pc, dist, cur, ok, result>>

-----------------------------------------------------------------------------
Lesser(a, b) == IF a < b THEN a ELSE b
Gap(a, b)    == IF a < b THEN b - a ELSE a - b

Between(a, b) == {d \in 0..MaxDist : (a <= d /\ d <= b) \/ (b <= d /\ d <= a)}

\* The waypoint of a step: interpolated from p_cur, not from where the robot
\* stands when the step begins.
\* (mutant WaypointFromHere: the step is taken from the robot's own position,
\* so both steps of a round may be made)
WaypointFromHere(step) == dist - Lesser(dist, step)

\* (mutant WaypointAway: the direction of the line is reversed)
WaypointAway(step) == Lesser(MaxDist, cur + step)

Waypoint(step) == cur - Lesser(cur, step)

\* (mutant CoversAny: any fraction of the path is accepted)
CoversAny(from, wp, d) == d \in Between(from, wp)

\* A step that stops at d is accepted if it covers enough of the way to wp.
Covers(from, wp, d) ==
    d \in Between(from, wp) /\ 100 * Gap(from, d) >= MinFraction * Gap(from, wp)

Init ==
    /\ pc = "head"
    /\ dist \in 0..MaxDist
    /\ cur = dist
    /\ ok = TRUE
    /\ result = "none"

Return(r) == pc' = "done" /\ result' = r

-----------------------------------------------------------------------------
(***************************************************************************)
(* The head of the loop: stop on shutdown, finish within the tolerance,    *)
(* or begin a step.                                                        *)
(***************************************************************************)
CheckTarget ==
    /\ pc = "head"
    /\ \/ ~ok /\ Return("failed") /\ UNCHANGED cur
       \/ ok /\ dist <= Tol /\ Return("ok") /\ cur' = dist
       \/ ok /\ dist > Tol /\ cur' = dist /\ pc' = "primary" /\ UNCHANGED result
    /\ UNCHANGED <<dist, ok>>

(***************************************************************************)
(* stepOnce: plan a path to the waypoint, refuse it if too little of it is *)
(* feasible, execute it otherwise.                                         *)
(***************************************************************************)
StepDone(wp) ==
    \E d \in 0..MaxDist :
        /\ Covers(dist, wp, d)
        /\ dist' = d

StepFails(wp) ==
    \/ UNCHANGED dist                   \* fraction below the minimum
    \/ dist' \in Between(dist, wp)      \* execution stopped on the way

PrimaryStep ==
    /\ pc = "primary"
    /\ \/ StepDone(Waypoint(Primary)) /\ pc' = "head"
       \/ StepFails(Waypoint(Primary)) /\ pc' = "fallback"
    /\ UNCHANGED <<cur, ok, result>>

FallbackStep ==
    /\ pc = "fallback"
    /\ \/ StepDone(Waypoint(Fallback)) /\ pc' = "head" /\ UNCHANGED result
       \/ StepFails(Waypoint(Fallback)) /\ Return("failed")
    /\ UNCHANGED <<cur, ok>>

Shutdown ==
    /\ ok
    /\ ok' = FALSE
    /\ UNCHANGED <<pc, dist, cur, result>>

Next == CheckTarget \/ PrimaryStep \/ FallbackStep \/ Shutdown

Spec == Init /\ [][Next]_vars

\* Every call of the move group interface returns.
FairSpec == Spec /\ WF_vars(CheckTarget \/ PrimaryStep \/ FallbackStep)

-----------------------------------------------------------------------------
TypeOK ==
    /\ pc \in {"head", "primary", "fallback", "done"}
    /\ dist \in 0..MaxDist
    /\ cur \in 0..MaxDist
    /\ ok \in BOOLEAN
    /\ result \in {"none", "ok", "failed"}
    /\ (pc = "done") <=> (result # "none")

\* The fallback waypoint is computed from the position read before the primary
\* step failed part of the way, so the robot may have to move back to it; even
\* so it is never farther from the target than at the head of the round.
NeverRetreats == dist <= cur

\* Between two looks at its position the robot moves no farther than the
\* longer of the two steps.
StaysInStep == cur - dist <= (IF Primary < Fallback THEN Fallback ELSE Primary)

RoundAdvance ==
    (pc \in {"primary", "fallback"} /\ pc' = "head")
        => 100 * (cur - dist') >= MinFraction * Lesser(cur, Lesser(Primary, Fallback))

\* A round that goes on has come closer by the accepted fraction of the shorter
\* step, whichever step succeeded and wherever the failed one stopped.
RoundAdvances == [][RoundAdvance]_vars

\* The loop has no iteration limit, yet executeLinear returns.
Terminates == <>(pc = "done")
=============================================================================
