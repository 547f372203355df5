----------------------------- MODULE RobotClient -----------------------------
(***************************************************************************)
(* RobotClient: free-space motions to a named target, to joint values or   *)
(* to a pose, each planned and executed with retries, and linear motions   *)
(* handed to the Cartesian backend.                                        *)
(*                                                                         *)
(* One MoveGroupInterface lives as long as the client.  It remembers its   *)
(* last goal, and its setters refuse what they cannot resolve without      *)
(* changing that goal; the client ignores what they return.                *)
(***************************************************************************)
EXTENDS Naturals

CONSTANTS
    Configs,     \* joint configurations of the planning group
    ZeroConfig,  \* the goal of a new MoveGroupInterface: default joint values
    Names,       \* target names a behaviour tree may give
    Named,       \* the SRDF: the configuration of a name, None if unknown
    Positions,   \* where the tool may be
    Orientations, \* how it may be turned
    FK,          \* the tool pose in each configuration
    None,        \* no configuration, no pose, a joint vector of the wrong size
    Retries,     \* max_free_space_retries
    HasBackend,  \* a Cartesian backend is configured
    MaxCalls     \* bound: calls in a behaviour

Poses == [at : Positions, q : Orientations]

ASSUME RobotAssumption ==
    /\ ZeroConfig \in Configs
    /\ Named \in [Names -> Configs \cup {None}]
    /\ FK \in [Configs -> Poses]
    /\ None \notin Configs \cup Poses
    /\ Retries \in Nat
    /\ HasBackend \in BOOLEAN
    /\ MaxCalls \in Nat

VARIABLES
    pc,       \* "idle", or where planAndExecuteWithRetries is
    request,  \* the call being served, or the last one
    goal,     \* the goal of the MoveGroupInterface
    attempt,  \* the current attempt
    plan,     \* the configuration the plan leads to
    robot,    \* the configuration of the robot
    result,   \* what the last call returned
    calls     \* calls so far

vars == <<pc, request, goal, attempt, plan, robot, result, calls>>

-----------------------------------------------------------------------------
Goal == [type : {"joint", "pose"}, joints : Configs, pose : Poses \cup {None}]

Requests ==
    [kind : {"named"}, arg : Names] \cup
    [kind : {"joint"}, arg : Configs \cup {None}] \cup
    [kind : {"pose", "linear"}, arg : Poses]

NoRequest == [kind |-> "none", arg |-> None]

\* Where a plan may lead (move_group's planner).
Solutions(g) ==
    IF g.type = "joint" THEN {g.joints} ELSE {c \in Configs : FK[c] = g.pose}

(***************************************************************************)
(* The setters of MoveGroupInterface, as the client uses them.             *)
(***************************************************************************)
ClearPoseTargets(g) == [g EXCEPT !.pose = None]

SetJointValueTarget(g, c) ==
    IF c = None THEN g ELSE [g EXCEPT !.type = "joint", !.joints = c]

SetNamedTarget(g, name) == SetJointValueTarget(g, Named[name])

SetPoseTarget(g, p) == [g EXCEPT !.type = "pose", !.pose = p]

Init ==
    /\ pc = "idle"
    /\ request = NoRequest
    /\ goal = [type |-> "joint", joints |-> ZeroConfig, pose |-> None]
    /\ attempt = 0
    /\ plan = None
    /\ robot \in Configs
    /\ result = "none"
    /\ calls = 0

Return(r) == pc' = "idle" /\ result' = r

-----------------------------------------------------------------------------
(***************************************************************************)
(* A call sets the goal and enters the loop over the attempts.             *)
(***************************************************************************)
Begin(kind, arg) ==
    /\ pc = "idle"
    /\ calls < MaxCalls
    /\ calls' = calls + 1
    /\ request' = [kind |-> kind, arg |-> arg]

\* (mutant EnterLoopZero: the attempts are counted from 0)
EnterLoopZero ==
    /\ attempt' = 0
    /\ IF Retries > 0 THEN pc' = "plan" /\ result' = "none" ELSE Return("failed")
    /\ UNCHANGED <<plan, robot>>

EnterLoop ==
    /\ attempt' = 1
    /\ IF Retries > 0 THEN pc' = "plan" /\ result' = "none" ELSE Return("failed")
    /\ UNCHANGED <<plan, robot>>

\* (mutant MoveToNamedTargetDirty: the pose target of an earlier call is kept)
MoveToNamedTargetDirty(name) ==
    /\ Begin("named", name)
    /\ goal' = SetNamedTarget(goal, name)
    /\ EnterLoop

MoveToNamedTarget(name) ==
    /\ Begin("named", name)
    /\ goal' = SetNamedTarget(ClearPoseTargets(goal), name)
    /\ EnterLoop

MoveToJointTarget(joints) ==
    /\ Begin("joint", joints)
    /\ goal' = SetJointValueTarget(ClearPoseTargets(goal), joints)
    /\ EnterLoop

\* (mutant MoveToPoseNoFallback: without an inverse kinematic solution the goal
\* is left as it is)
MoveToPoseNoFallback(p) ==
    /\ Begin("pose", p)
    /\ \/ \E c \in Configs :
            FK[c] = p /\ goal' = SetJointValueTarget(ClearPoseTargets(goal), c)
       \/ goal' = ClearPoseTargets(goal)
    /\ EnterLoop

\* With the current state and an inverse kinematic solution the pose becomes a
\* joint goal, otherwise it is left to the planner.
MoveToPose(p) ==
    /\ Begin("pose", p)
    /\ \/ \E c \in Configs :
            FK[c] = p /\ goal' = SetJointValueTarget(ClearPoseTargets(goal), c)
       \/ goal' = SetPoseTarget(ClearPoseTargets(goal), p)
    /\ EnterLoop

\* The backend moves the robot and leaves the goal alone (see CartesianStepper
\* for what it does).  It ends on the position alone: with the tool already
\* there it succeeds without a step, whatever orientation is asked for; a
\* success after steps is at the position, a failure anywhere.
ExecuteLinear(p) ==
    /\ Begin("linear", p)
    /\ \/ Return("failed") /\ UNCHANGED robot
       \/ HasBackend /\ Return("failed") /\ robot' \in Configs
       \/ HasBackend /\ FK[robot].at = p.at /\ Return("ok") /\ UNCHANGED robot
       \/ /\ HasBackend /\ FK[robot].at # p.at
          /\ Return("ok")
          /\ robot' \in {c \in Configs : FK[c].at = p.at}
    /\ UNCHANGED <<goal, attempt, plan>>

-----------------------------------------------------------------------------
(***************************************************************************)
(* planAndExecuteWithRetries.                                              *)
(***************************************************************************)
\* (mutant TryAgainForever: the retries are not counted)
TryAgainForever == pc' = "plan" /\ UNCHANGED <<attempt, result>>

TryAgain ==
    IF attempt < Retries
    THEN pc' = "plan" /\ attempt' = attempt + 1 /\ UNCHANGED result
    ELSE Return("failed") /\ UNCHANGED attempt

Plan ==
    /\ pc = "plan"
    /\ \/ TryAgain /\ UNCHANGED plan
       \/ /\ plan' \in Solutions(goal)
          /\ pc' = "execute"
          /\ UNCHANGED <<attempt, result>>
    /\ UNCHANGED <<request, goal, robot, calls>>

\* An execution that fails may leave the robot anywhere.
Execute ==
    /\ pc = "execute"
    /\ \/ Return("ok") /\ robot' = plan /\ UNCHANGED attempt
       \/ TryAgain /\ robot' \in Configs
    /\ UNCHANGED <<request, goal, plan, calls>>

Next ==
    \/ \E name \in Names : MoveToNamedTarget(name)
    \/ \E joints \in Configs \cup {None} : MoveToJointTarget(joints)
    \/ \E p \in Poses : MoveToPose(p) \/ ExecuteLinear(p)
    \/ Plan
    \/ Execute

Spec == Init /\ [][Next]_vars

\* Planning and execution requests of the move group interface return.
FairSpec == Spec /\ WF_vars(Plan \/ Execute)

-----------------------------------------------------------------------------
TypeOK ==
    /\ pc \in {"idle", "plan", "execute"}
    /\ request \in Requests \cup {NoRequest}
    /\ goal \in Goal
    /\ attempt \in Nat
    /\ plan \in Configs \cup {None}
    /\ robot \in Configs
    /\ result \in {"none", "ok", "failed"}
    /\ calls \in 0..MaxCalls

\* A request that names something: a target of the SRDF, a joint vector of the
\* right size, a pose.
Resolvable ==
    /\ request.kind = "named" => Named[request.arg] # None
    /\ request.kind = "joint" => request.arg # None

\* The robot is where a free-space motion asked.
AtRequested ==
    CASE request.kind = "named" -> robot = Named[request.arg]
      [] request.kind = "joint" -> robot = request.arg
      [] request.kind = "pose" -> FK[robot] = request.arg
      [] OTHER -> TRUE

\* Whatever goals the calls before it left in the move group interface, and
\* wherever linear motions left the robot, a free-space motion that can be
\* resolved and returns success has brought the robot where it asked.  (Nothing
\* is said of a linear motion: the backend's success promises the position of
\* its target pose, not the orientation.)
SuccessMeansThere ==
    pc = "idle" /\ result = "ok" /\ Resolvable => AtRequested

\* A pose target of an earlier call is never planned to, not even by a call
\* whose own goal was refused.
StalePoseForgotten ==
    pc \in {"plan", "execute"} /\ goal.type = "pose" /\ goal.pose # None
        => request.kind = "pose" /\ goal.pose = request.arg

\* A free-space motion fails only after all its attempts, and makes no more.
AllAttemptsMade ==
    pc = "idle" /\ request.kind \in {"named", "joint", "pose"} /\ Retries > 0
        => IF result = "failed" THEN attempt = Retries ELSE attempt \in 1..Retries

\* Every call returns.
CallsReturn == (pc # "idle") ~> (pc = "idle")

\* "PTP to a named SRDF target": a call that succeeds has gone to a target the
\* SRDF names.
OnlyNamedTargets ==
    pc = "idle" /\ result = "ok" /\ request.kind = "named"
        => Named[request.arg] # None
=============================================================================
