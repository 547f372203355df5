------------------------- MODULE RobotClientProofs -------------------------
(***************************************************************************)
(* Proofs about RobotClient, for every set of configurations and names,    *)
(* every SRDF and every number of retries.                                 *)
(***************************************************************************)
EXTENDS RobotClient, TLAPS

-----------------------------------------------------------------------------
(***************************************************************************)
(* The inductive invariant: while a call that can be resolved plans and    *)
(* executes, the goal of the move group interface is the one it asked for, *)
(* and the plan in execution leads to that goal.                           *)
(***************************************************************************)
GoalIsRequested ==
    /\ request.kind = "named" => goal.type = "joint" /\ goal.joints = Named[request.arg]
    /\ request.kind = "joint" => goal.type = "joint" /\ goal.joints = request.arg
    /\ request.kind = "pose"  =>
         \/ goal.type = "joint" /\ FK[goal.joints] = request.arg
         \/ goal.type = "pose" /\ goal.pose = request.arg

GoalKept == pc # "idle" /\ Resolvable => GoalIsRequested

Trying ==
    pc # "idle" =>
        /\ request.kind \in {"named", "joint", "pose"}
        /\ attempt \in 1..Retries

PlanKept == pc = "execute" => plan \in Solutions(goal) /\ plan \in Configs

IInv ==
    /\ TypeOK
    /\ GoalKept
    /\ Trying
    /\ PlanKept
    /\ StalePoseForgotten
    /\ SuccessMeansThere
    /\ AllAttemptsMade

-----------------------------------------------------------------------------
(***************************************************************************)
(* What the setters do to a goal.                                          *)
(***************************************************************************)
LEMMA ClearKeepsType ==
    ASSUME NEW g \in Goal
    PROVE  /\ ClearPoseTargets(g) \in Goal
           /\ ClearPoseTargets(g).pose = None
           /\ ClearPoseTargets(g).type = g.type
           /\ ClearPoseTargets(g).joints = g.joints
  BY DEF ClearPoseTargets, Goal

LEMMA JointSetter ==
    ASSUME NEW g \in Goal, NEW c \in Configs \cup {None}
    PROVE  LET h == SetJointValueTarget(g, c)
           IN  /\ h \in Goal
               /\ h.pose = g.pose
               /\ c # None => h.type = "joint" /\ h.joints = c
  BY DEF SetJointValueTarget, Goal

LEMMA PoseSetter ==
    ASSUME NEW g \in Goal, NEW p \in Poses
    PROVE  LET h == SetPoseTarget(g, p)
           IN  h \in Goal /\ h.type = "pose" /\ h.pose = p
  BY DEF SetPoseTarget, Goal

\* A plan to a goal is a configuration the goal admits.
LEMMA SolutionsAreConfigs ==
    ASSUME NEW g \in Goal
    PROVE  Solutions(g) \subseteq Configs
  BY DEF Solutions, Goal

-----------------------------------------------------------------------------
LEMMA InitIInv == Init => IInv
  BY RobotAssumption DEF Init, IInv, TypeOK, GoalKept, Trying, PlanKept, StalePoseForgotten,
     SuccessMeansThere, AllAttemptsMade, NoRequest, Goal

(***************************************************************************)
(* A call that enters the loop with a goal that is the one it asked for,   *)
(* or with one that holds no pose if it cannot be resolved.                *)
(***************************************************************************)
LEMMA EnterPreserves ==
    ASSUME IInv, NEW k \in {"named", "joint", "pose"}, NEW a,
           [kind |-> k, arg |-> a] \in Requests,
           Begin(k, a), EnterLoop, goal' \in Goal,
           (Resolvable => GoalIsRequested)',
           goal'.type = "pose" /\ goal'.pose # None => k = "pose" /\ goal'.pose = a
    PROVE  IInv'
  <1> USE RobotAssumption
  <1>1. request' = [kind |-> k, arg |-> a] /\ request'.kind = k /\ request'.arg = a
    BY DEF Begin
  <1>2. pc' \in {"plan", "idle"} /\ attempt' = 1 /\ plan' = plan /\ robot' = robot
        /\ (pc' = "idle" => result' = "failed" /\ ~(Retries > 0))
        /\ (pc' = "plan" => Retries > 0)
        /\ result' \in {"none", "failed"}
    BY DEF EnterLoop, Return
  <1>3. TypeOK'
    BY <1>1, <1>2 DEF IInv, TypeOK, Begin
  <1>4. GoalKept'
    BY DEF GoalKept
  <1>5. Trying'
    BY <1>1, <1>2 DEF Trying
  <1>6. PlanKept'
    BY <1>2 DEF PlanKept
  <1>7. StalePoseForgotten'
    BY <1>1 DEF StalePoseForgotten
  <1>8. SuccessMeansThere' /\ AllAttemptsMade'
    BY <1>1, <1>2 DEF SuccessMeansThere, AllAttemptsMade
  <1> QED
    BY <1>3, <1>4, <1>5, <1>6, <1>7, <1>8 DEF IInv

LEMMA NamedPreserves ==
    ASSUME IInv, NEW name \in Names, MoveToNamedTarget(name)
    PROVE  IInv'
  <1> DEFINE g == ClearPoseTargets(goal)
             h == SetJointValueTarget(g, Named[name])
  <1>1. g \in Goal /\ g.pose = None
    BY ClearKeepsType DEF IInv, TypeOK
  <1>2. Named[name] \in Configs \cup {None}
    BY RobotAssumption
  <1>3. goal' = h
    BY DEF MoveToNamedTarget, SetNamedTarget
  <1>4. /\ h \in Goal
        /\ h.pose = None
        /\ Named[name] # None => h.type = "joint" /\ h.joints = Named[name]
    BY <1>1, <1>2, JointSetter
  <1> HIDE DEF g, h
  <1>5. request' = [kind |-> "named", arg |-> name]
    BY DEF MoveToNamedTarget, Begin
  <1>6. (Resolvable => GoalIsRequested)'
    BY <1>3, <1>4, <1>5 DEF Resolvable, GoalIsRequested
  <1>7. [kind |-> "named", arg |-> name] \in Requests
    BY DEF Requests
  <1> QED
    BY <1>3, <1>4, <1>6, <1>7, EnterPreserves DEF MoveToNamedTarget

LEMMA JointPreserves ==
    ASSUME IInv, NEW joints \in Configs \cup {None}, MoveToJointTarget(joints)
    PROVE  IInv'
  <1> DEFINE g == ClearPoseTargets(goal)
             h == SetJointValueTarget(g, joints)
  <1>1. g \in Goal /\ g.pose = None
    BY ClearKeepsType DEF IInv, TypeOK
  <1>3. goal' = h
    BY DEF MoveToJointTarget
  <1>4. /\ h \in Goal
        /\ h.pose = None
        /\ joints # None => h.type = "joint" /\ h.joints = joints
    BY <1>1, JointSetter
  <1> HIDE DEF g, h
  <1>5. request' = [kind |-> "joint", arg |-> joints]
    BY DEF MoveToJointTarget, Begin
  <1>6. (Resolvable => GoalIsRequested)'
    BY <1>3, <1>4, <1>5 DEF Resolvable, GoalIsRequested
  <1>7. [kind |-> "joint", arg |-> joints] \in Requests
    BY DEF Requests
  <1> QED
    BY <1>3, <1>4, <1>6, <1>7, EnterPreserves DEF MoveToJointTarget

LEMMA PosePreserves ==
    ASSUME IInv, NEW p \in Poses, MoveToPose(p)
    PROVE  IInv'
  <1> DEFINE g == ClearPoseTargets(goal)
  <1>1. g \in Goal /\ g.pose = None
    BY ClearKeepsType DEF IInv, TypeOK
  <1>2. request' = [kind |-> "pose", arg |-> p]
    BY DEF MoveToPose, Begin
  <1>3. [kind |-> "pose", arg |-> p] \in Requests
    BY DEF Requests
  <1>4. CASE \E c \in Configs : FK[c] = p /\ goal' = SetJointValueTarget(g, c)
    <2>1. PICK c \in Configs : FK[c] = p /\ goal' = SetJointValueTarget(g, c)
      BY <1>4
    <2> DEFINE h == SetJointValueTarget(g, c)
    <2>2. h \in Goal /\ h.pose = None /\ h.type = "joint" /\ h.joints = c
      BY <1>1, JointSetter, RobotAssumption
    <2>3. goal' = h /\ FK[c] = p
      BY <2>1
    <2> HIDE DEF g, h
    <2>4. (Resolvable => GoalIsRequested)'
      BY <1>2, <2>2, <2>3 DEF Resolvable, GoalIsRequested
    <2> QED
      BY <1>3, <2>2, <2>3, <2>4, EnterPreserves DEF MoveToPose
  <1>5. CASE goal' = SetPoseTarget(g, p)
    <2> DEFINE h == SetPoseTarget(g, p)
    <2>1. h \in Goal /\ h.type = "pose" /\ h.pose = p
      BY <1>1, PoseSetter
    <2>2. goal' = h
      BY <1>5
    <2> HIDE DEF g, h
    <2>3. (Resolvable => GoalIsRequested)'
      BY <1>2, <2>1, <2>2 DEF Resolvable, GoalIsRequested
    <2> QED
      BY <1>3, <2>1, <2>2, <2>3, EnterPreserves DEF MoveToPose
  <1> QED
    BY <1>4, <1>5 DEF MoveToPose

LEMMA LinearPreserves ==
    ASSUME IInv, NEW p \in Poses, ExecuteLinear(p)
    PROVE  IInv'
  <1>1. request' = [kind |-> "linear", arg |-> p] /\ request' \in Requests
    BY DEF ExecuteLinear, Begin, Requests
  <1>2. pc' = "idle" /\ goal' = goal /\ attempt' = attempt /\ plan' = plan
    BY DEF ExecuteLinear, Return
  <1>3. /\ robot' \in Configs
        /\ result' \in {"ok", "failed"}
    BY DEF ExecuteLinear, Return, IInv, TypeOK
  <1>4. TypeOK'
    BY <1>1, <1>2, <1>3, RobotAssumption DEF IInv, TypeOK, ExecuteLinear, Begin
  <1>5. GoalKept' /\ Trying' /\ PlanKept' /\ StalePoseForgotten'
    BY <1>2 DEF GoalKept, Trying, PlanKept, StalePoseForgotten
  <1>6. SuccessMeansThere' /\ AllAttemptsMade'
    BY <1>1, <1>2, <1>3 DEF SuccessMeansThere, AllAttemptsMade, AtRequested
  <1> QED
    BY <1>4, <1>5, <1>6 DEF IInv

(***************************************************************************)
(* A failed attempt: another one, or the call fails.                       *)
(***************************************************************************)
LEMMA TryAgainCounts ==
    ASSUME IInv, pc # "idle", TryAgain
    PROVE  /\ pc' \in {"plan", "idle"}
           /\ attempt' \in 1..Retries
           /\ result' \in {"none", "ok", "failed"}
           /\ pc' = "idle" => result' = "failed" /\ attempt' = Retries
  BY RobotAssumption DEF TryAgain, Return, IInv, TypeOK, Trying

LEMMA PlanPreserves == ASSUME IInv, Plan PROVE IInv'
  <1> USE RobotAssumption
  <1>1. UNCHANGED <<request, goal, robot, calls>> /\ pc = "plan"
    BY DEF Plan
  <1>2. request.kind \in {"named", "joint", "pose"}
    BY <1>1 DEF IInv, Trying
  <1>3. CASE TryAgain /\ UNCHANGED plan
    <2>1. /\ pc' \in {"plan", "idle"}
          /\ attempt' \in 1..Retries
          /\ result' \in {"none", "ok", "failed"}
          /\ pc' = "idle" => result' = "failed" /\ attempt' = Retries
      BY <1>1, <1>3, TryAgainCounts
    <2>2. TypeOK'
      BY <1>1, <1>3, <2>1 DEF IInv, TypeOK
    <2>3. GoalKept' /\ Trying' /\ PlanKept' /\ StalePoseForgotten'
      BY <1>1, <1>2, <2>1 DEF IInv, GoalKept, Resolvable, GoalIsRequested, Trying, PlanKept,
         StalePoseForgotten
    <2>4. SuccessMeansThere' /\ AllAttemptsMade'
      BY <2>1 DEF SuccessMeansThere, AllAttemptsMade
    <2> QED
      BY <2>2, <2>3, <2>4 DEF IInv
  <1>4. CASE plan' \in Solutions(goal) /\ pc' = "execute" /\ UNCHANGED <<attempt, result>>
    <2>1. plan' \in Configs
      BY <1>4, SolutionsAreConfigs DEF IInv, TypeOK
    <2>2. TypeOK'
      BY <1>1, <1>4, <2>1 DEF IInv, TypeOK
    <2>3. GoalKept' /\ Trying' /\ StalePoseForgotten'
      BY <1>1, <1>2, <1>4 DEF IInv, GoalKept, Resolvable, GoalIsRequested, Trying,
         StalePoseForgotten
    <2>4. PlanKept'
      BY <1>1, <1>4, <2>1 DEF PlanKept, Solutions
    <2>5. SuccessMeansThere' /\ AllAttemptsMade'
      BY <1>4 DEF SuccessMeansThere, AllAttemptsMade
    <2> QED
      BY <2>2, <2>3, <2>4, <2>5 DEF IInv
  <1> QED
    BY <1>3, <1>4 DEF Plan

LEMMA ExecutePreserves == ASSUME IInv, Execute PROVE IInv'
  <1> USE RobotAssumption
  <1>1. UNCHANGED <<request, goal, plan, calls>> /\ pc = "execute"
    BY DEF Execute
  <1>2. request.kind \in {"named", "joint", "pose"} /\ attempt \in 1..Retries
    BY <1>1 DEF IInv, Trying
  <1>3. CASE Return("ok") /\ robot' = plan /\ UNCHANGED attempt
    <2>1. pc' = "idle" /\ result' = "ok" /\ robot' = plan /\ attempt' = attempt
      BY <1>3 DEF Return
    <2>2. TypeOK'
      BY <1>1, <2>1 DEF IInv, TypeOK, PlanKept
    <2>3. GoalKept' /\ Trying' /\ PlanKept' /\ StalePoseForgotten'
      BY <2>1 DEF GoalKept, Trying, PlanKept, StalePoseForgotten
    <2>4. ASSUME Resolvable PROVE AtRequested'
      <3>1. GoalIsRequested /\ plan \in Solutions(goal)
        BY <1>1, <2>4 DEF IInv, GoalKept, PlanKept
      <3>2. goal.type = "joint" => plan = goal.joints
        BY <3>1 DEF Solutions
      <3>3. goal.type = "pose" => FK[plan] = goal.pose
        BY <3>1 DEF Solutions
      <3>4. CASE request.kind = "named"
        BY <1>1, <2>1, <3>1, <3>2, <3>4 DEF AtRequested, GoalIsRequested
      <3>5. CASE request.kind = "joint"
        BY <1>1, <2>1, <3>1, <3>2, <3>5 DEF AtRequested, GoalIsRequested
      <3>6. CASE request.kind = "pose"
        BY <1>1, <2>1, <3>1, <3>2, <3>3, <3>6 DEF AtRequested, GoalIsRequested
      <3> QED
        BY <1>2, <3>4, <3>5, <3>6
    <2>5. SuccessMeansThere'
      BY <1>1, <2>4 DEF SuccessMeansThere, Resolvable
    <2>6. AllAttemptsMade'
      BY <1>2, <2>1 DEF AllAttemptsMade
    <2> QED
      BY <2>2, <2>3, <2>5, <2>6 DEF IInv
  <1>4. CASE TryAgain /\ robot' \in Configs
    <2>1. /\ pc' \in {"plan", "idle"}
          /\ attempt' \in 1..Retries
          /\ result' \in {"none", "ok", "failed"}
          /\ pc' = "idle" => result' = "failed" /\ attempt' = Retries
      BY <1>1, <1>4, TryAgainCounts
    <2>2. TypeOK'
      BY <1>1, <1>4, <2>1 DEF IInv, TypeOK
    <2>3. GoalKept' /\ Trying' /\ PlanKept' /\ StalePoseForgotten'
      BY <1>1, <1>2, <2>1 DEF IInv, GoalKept, Resolvable, GoalIsRequested, Trying, PlanKept,
         StalePoseForgotten
    <2>4. SuccessMeansThere' /\ AllAttemptsMade'
      BY <2>1 DEF SuccessMeansThere, AllAttemptsMade
    <2> QED
      BY <2>2, <2>3, <2>4 DEF IInv
  <1> QED
    BY <1>3, <1>4 DEF Execute

LEMMA StutterPreserves == ASSUME IInv, UNCHANGED vars PROVE IInv'
  BY DEF vars, IInv, TypeOK, GoalKept, Resolvable, GoalIsRequested, Trying, PlanKept, Solutions,
     StalePoseForgotten, SuccessMeansThere, AtRequested, AllAttemptsMade

THEOREM Invariant == Spec => []IInv
  <1>1. IInv /\ [Next]_vars => IInv'
    BY NamedPreserves, JointPreserves, PosePreserves, LinearPreserves, PlanPreserves,
       ExecutePreserves, StutterPreserves DEF Next
  <1> QED
    BY InitIInv, <1>1, PTL DEF Spec

-----------------------------------------------------------------------------
\* Whatever was asked of the client before, and wherever linear motions left the
\* robot, success of a free-space motion that can be resolved means the robot is
\* where the call asked: configuration for configuration, or with the tool at the
\* whole pose.
THEOREM SuccessIsArrival == Spec => []SuccessMeansThere
  <1>1. IInv => SuccessMeansThere
    BY DEF IInv
  <1> QED
    BY Invariant, <1>1, PTL

\* No call plans to the pose target of an earlier one.
THEOREM NoStalePose == Spec => []StalePoseForgotten
  <1>1. IInv => StalePoseForgotten
    BY DEF IInv
  <1> QED
    BY Invariant, <1>1, PTL

\* A free-space motion fails only after all its attempts.
THEOREM AttemptsCounted == Spec => []AllAttemptsMade
  <1>1. IInv => AllAttemptsMade
    BY DEF IInv
  <1> QED
    BY Invariant, <1>1, PTL

\* Every variable keeps its type, whatever the setters of the move group interface refuse.
THEOREM TypeCorrect == Spec => []TypeOK
<1>1. IInv => TypeOK
  BY DEF IInv
<1> QED  BY <1>1, Invariant, PTL
-----------------------------------------------------------------------------
\* The steps a call may still take: two for each attempt.
Left ==
    CASE pc = "idle"    -> 0
      [] pc = "plan"    -> 2 * (Retries - attempt) + 2
      [] pc = "execute" -> 2 * (Retries - attempt) + 1

\* planAndExecuteWithRetries plans and executes at most Retries times each: every step
\* of a call lowers what is left of it, however plans and executions turn out.
THEOREM AttemptsRunOut ==
    Spec => [](Left \in 0..(2 * Retries)) /\ [][pc # "idle" => Left' < Left]_vars
<1>1. IInv => Left \in 0..(2 * Retries)
  <2> SUFFICES ASSUME IInv PROVE Left \in 0..(2 * Retries)
    OBVIOUS
  <2>1. /\ Retries \in Nat /\ pc \in {"idle", "plan", "execute"}
        /\ pc # "idle" => attempt \in 1..Retries
    BY RobotAssumption DEF IInv, TypeOK, Trying
  <2> QED  BY <2>1 DEF Left
<1>2. ASSUME IInv, [Next]_vars
      PROVE  [pc # "idle" => Left' < Left]_vars
  <2> SUFFICES ASSUME Next, pc # "idle" PROVE Left' < Left
    BY <1>2
  <2>1. Retries \in Nat /\ attempt \in 1..Retries
    BY <1>2, RobotAssumption DEF IInv, Trying
  <2>2. CASE Plan
    <3>1. pc = "plan"
      BY <2>2 DEF Plan
    <3>2. \/ pc' = "idle"
          \/ pc' = "execute" /\ attempt' = attempt
          \/ pc' = "plan" /\ attempt < Retries /\ attempt' = attempt + 1
      BY <2>2 DEF Plan, TryAgain, Return
    <3> QED  BY <2>1, <3>1, <3>2 DEF Left
  <2>3. CASE Execute
    <3>1. pc = "execute"
      BY <2>3 DEF Execute
    <3>2. \/ pc' = "idle"
          \/ pc' = "plan" /\ attempt < Retries /\ attempt' = attempt + 1
      BY <2>3 DEF Execute, TryAgain, Return
    <3> QED  BY <2>1, <3>1, <3>2 DEF Left
  <2> QED
    BY <2>2, <2>3 DEF Next, MoveToNamedTarget, MoveToJointTarget, MoveToPose, ExecuteLinear,
                      Begin
<1>3. IInv /\ [Next]_vars => [pc # "idle" => Left' < Left]_vars
  BY <1>2
<1> QED  BY <1>1, <1>3, Invariant, PTL DEF Spec
=============================================================================
