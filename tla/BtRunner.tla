------------------------------ MODULE BtRunner ------------------------------
(***************************************************************************)
(* bt_runner_node: start up, load the task parameters onto the blackboard, *)
(* tick the behaviour tree, stop the executor and exit.                    *)
(* bt_runner_node_visual is the same program with monitors attached to the *)
(* tree ("extras").                                                        *)
(*                                                                         *)
(* The main thread does all of this; a second thread spins the executor    *)
(* that delivers the responses of services.  The tree is a Sequence of     *)
(* synchronous nodes, so one tickOnce() runs all of it.  A blackboard      *)
(* entry is reduced to what the nodes tell apart: a list of numbers, one   *)
(* number, other text, a pose, or an object of the framework.              *)
(***************************************************************************)
EXTENDS Naturals, Sequences

CONSTANTS
    Keys,       \* blackboard keys the parameters and the tree use
    Framework,  \* keys of the robot client, the motion profiles and the ROS node
    Params,     \* short names of the parameters under task_parameters
    ParamType,  \* the types each may have in the parameter file, see ParamTypes
    None,       \* no key
    Tree        \* the children of the root Sequence, in order

\* "triple": a list of three numbers, "numbers": a list of any other length;
\* "other": a string array, or another type the runner has no case for;
\* "absent": the parameter file does not mention it.
ParamTypes == {"triple", "numbers", "number", "text", "other", "absent"}

RobotNodes   == {"MoveToNamedTarget", "MoveToJointTarget", "MoveToPose",
                 "ExecuteCartesianSegment"}
ServiceNodes == {"ActivateTool", "ReleaseTool", "RemoveSceneObject",
                 "TeleportSceneObject"}
PoseNodes    == {"StoreCurrentPose", "ComputeTCPTarget", "OffsetPose"}
VisionNodes  == {"GetDetectedObjectPose", "ComputeSuctionPickPose"}
UtilityNodes == {"WaitMs", "LogMessage"}
Writers      == PoseNodes \cup VisionNodes
Classes      == RobotNodes \cup ServiceNodes \cup Writers \cup UtilityNodes

\* text: keys of its required string ports; numeric: those it parses as
\* numbers; in and out: keys of the pose it reads and of the pose it writes.
Node == [class : Classes, text : SUBSET Keys, numeric : SUBSET Keys,
         in : Keys \cup {None}, out : Keys \cup {None}]

ASSUME RunnerAssumption ==
    /\ Params \subseteq Keys
    /\ Framework \subseteq Keys
    /\ ParamType \in [Params -> (SUBSET ParamTypes) \ {{}}]
    /\ None \notin Keys
    /\ Tree \in Seq(Node)
    /\ Tree # <<>>
    /\ \A i \in DOMAIN Tree :
         /\ Tree[i].numeric \subseteq Tree[i].text
         /\ Tree[i].out # None <=> Tree[i].class \in Writers

VARIABLES
    stage,      \* where main() is
    unloaded,   \* parameters not yet looked at
    board,      \* the blackboard
    spin,       \* the thread that spins the executor
    cancelled,  \* executor.cancel() has been called
    rosOk,      \* rclcpp::ok()
    results,    \* what each node ticked so far returned
    status,     \* status of the tree
    exit        \* exit code of the process

vars == <<stage, unloaded, board, spin, cancelled, rosOk, results, status, exit>>

-----------------------------------------------------------------------------
TextValues  == {"triple", "numbers", "number", "text"}
BoardValues == TextValues \cup {"pose", "object", "unset"}

Init ==
    /\ stage = "declare"
    /\ unloaded = Params
    /\ board = [k \in Keys |-> "unset"]
    /\ spin = "none"
    /\ cancelled = FALSE
    /\ rosOk = TRUE
    /\ results = <<>>
    /\ status = "RUNNING"
    /\ exit = "none"

Exit(code) == stage' = "exited" /\ exit' = code

\* An exception that main() does not catch.
Crash == Exit("terminate")

-----------------------------------------------------------------------------
(***************************************************************************)
(* Start-up.  main() catches what goes wrong with the motion profiles, the *)
(* backend plugin and the tree, but neither a parameter of another type    *)
(* than it asks for nor the constructors of the clients.                   *)
(***************************************************************************)
DeclareParameters ==
    /\ stage = "declare"
    /\ \/ stage' = "profiles" /\ UNCHANGED exit
       \/ Exit("1")       \* no tree file
       \/ Crash
    /\ UNCHANGED <<unloaded, board, spin, cancelled, rosOk, results, status>>

After == [profiles |-> "backend", backend |-> "clients", tree |-> "extras"]

StartUp ==
    /\ stage \in DOMAIN After
    /\ \/ stage' = After[stage] /\ UNCHANGED exit
       \/ Exit("1")
    /\ UNCHANGED <<unloaded, board, spin, cancelled, rosOk, results, status>>

\* The blackboard begins with the objects of the framework.
BuildClients ==
    /\ stage = "clients"
    /\ \/ /\ stage' = "parameters"
          /\ board' = [k \in Keys |-> IF k \in Framework THEN "object" ELSE "unset"]
          /\ UNCHANGED exit
       \/ Crash /\ UNCHANGED board
    /\ UNCHANGED <<unloaded, spin, cancelled, rosOk, results, status>>

\* The monitors of the visual runner may fail to start: it goes on without them.
AttachMonitors ==
    /\ stage = "extras"
    /\ stage' = "spawn"
    /\ UNCHANGED <<unloaded, board, spin, cancelled, rosOk, results, status, exit>>

\* (mutant LoadOverwrites: an entry of the framework is replaced)
LoadOverwrites(p) ==
    /\ stage = "parameters"
    /\ p \in unloaded
    /\ unloaded' = unloaded \ {p}
    /\ \E type \in ParamType[p] :
         \/ type = "absent" /\ UNCHANGED <<stage, exit, board>>
         \/ type = "other" /\ Crash /\ UNCHANGED board
         \/ type \in TextValues /\ board' = [board EXCEPT ![p] = type] /\ UNCHANGED <<stage, exit>>
    /\ UNCHANGED <<spin, cancelled, rosOk, results, status>>

\* putBlackboardFromParam ignores the types it has no case for; the log line
\* that follows reads the key back, which throws when it is not there.  An
\* entry that holds an object of the framework cannot be set to a text.
LoadTaskParameter(p) ==
    /\ stage = "parameters"
    /\ p \in unloaded
    /\ unloaded' = unloaded \ {p}
    /\ \E type \in ParamType[p] :
         \/ type = "absent" /\ UNCHANGED <<stage, exit, board>>
         \/ type = "other" /\ Crash /\ UNCHANGED board
         \/ type \in TextValues /\ p \in Framework /\ Crash /\ UNCHANGED board
         \/ /\ type \in TextValues /\ p \notin Framework
            /\ board' = [board EXCEPT ![p] = type]
            /\ UNCHANGED <<stage, exit>>
    /\ UNCHANGED <<spin, cancelled, rosOk, results, status>>

ParametersLoaded ==
    /\ stage = "parameters"
    /\ unloaded = {}
    /\ stage' = "tree"
    /\ UNCHANGED <<unloaded, board, spin, cancelled, rosOk, results, status, exit>>

-----------------------------------------------------------------------------
(***************************************************************************)
(* The thread that spins.                                                  *)
(***************************************************************************)
Spawn ==
    /\ stage = "spawn"
    /\ stage' = "settle"
    /\ spin' = "created"
    /\ UNCHANGED <<unloaded, board, cancelled, rosOk, results, status, exit>>

\* spin() sets the flag that cancel() clears: a cancel() before it is lost.
SpinBegins ==
    /\ spin = "created" /\ stage # "exited"
    /\ spin' = "spinning"
    /\ cancelled' = FALSE
    /\ UNCHANGED <<stage, unloaded, board, rosOk, results, status, exit>>

SpinEnds ==
    /\ spin = "spinning" /\ stage # "exited"
    /\ cancelled \/ ~rosOk
    /\ spin' = "finished"
    /\ UNCHANGED <<stage, unloaded, board, cancelled, rosOk, results, status, exit>>

\* (mutant SettleShort: main() does not sleep before the first tick)
SettleShort ==
    /\ stage = "settle"
    /\ stage' = IF rosOk THEN "tick" ELSE "cancel"
    /\ UNCHANGED <<unloaded, board, spin, cancelled, rosOk, results, status, exit>>

\* The three seconds of sleep outlast the start of the thread.
Settle ==
    /\ stage = "settle"
    /\ spin # "created"
    /\ stage' = IF rosOk THEN "tick" ELSE "cancel"
    /\ UNCHANGED <<unloaded, board, spin, cancelled, rosOk, results, status, exit>>

-----------------------------------------------------------------------------
(***************************************************************************)
(* One node of the Sequence is ticked.                                     *)
(***************************************************************************)
Current == Tree[Len(results) + 1]

\* A required port refers to a key that is not there or holds no text.
PortUnresolved(n) == \E k \in n.text : board[k] \notin TextValues

\* blackboard->get<Pose>() throws, which every node that calls it catches.
PoseMissing(n) == n.in # None /\ board[n.in] # "pose"

\* parseXyz3 wants a list of three, std::stod any text that begins with a number.
Unparsable(n) ==
    \E k \in n.numeric :
        IF n.class = "ComputeTCPTarget" THEN board[k] # "triple" ELSE board[k] = "text"

InputsReady(n) == ~PortUnresolved(n) /\ ~PoseMissing(n) /\ ~Unparsable(n)

\* blackboard->set<Pose>() throws on an entry of the framework.
Retypes(n) == n.out \in Framework

\* What no try block of tick() catches: MoveToJointTarget's parsing, and the
\* set() of the nodes below.
Throws(n) ==
    \/ n.class = "MoveToJointTarget" /\ ~PortUnresolved(n) /\ Unparsable(n)
    \/ n.class \in VisionNodes \cup {"StoreCurrentPose"} /\ InputsReady(n) /\ Retypes(n)

\* The Sequence goes on to the next child, or ends.
\* (mutant AdvanceAlways: a child that fails is skipped)
AdvanceAlways(result) ==
    /\ results' = Append(results, result)
    /\ IF Len(results) + 1 = Len(Tree)
       THEN stage' = "cancel" /\ status' = result
       ELSE UNCHANGED <<stage, status>>

Advance(result) ==
    /\ results' = Append(results, result)
    /\ IF result = "FAILURE" \/ Len(results) + 1 = Len(Tree)
       THEN stage' = "cancel" /\ status' = result
       ELSE UNCHANGED <<stage, status>>

Ticked == stage = "tick" /\ Len(results) < Len(Tree)

TickThrows ==
    /\ Ticked
    /\ Throws(Current)
    /\ Crash
    /\ UNCHANGED <<unloaded, board, spin, cancelled, rosOk, results, status>>

\* An input is missing or of the wrong form, or what the node asks for fails;
\* a vision node does not get as far as the set() that would throw.
TickFails ==
    /\ Ticked
    /\ Current.class \notin UtilityNodes
    /\ InputsReady(Current) =>
         Current.class \in RobotNodes \cup ServiceNodes \cup VisionNodes \/ Retypes(Current)
    /\ Throws(Current) => Current.class \in VisionNodes
    /\ Advance("FAILURE")
    /\ UNCHANGED <<unloaded, board, spin, cancelled, rosOk, exit>>

\* The robot is asked, and a service answers only through a spinning executor.
TickActs ==
    /\ Ticked
    /\ Current.class \in RobotNodes \cup ServiceNodes
    /\ InputsReady(Current)
    /\ Current.class \in ServiceNodes => spin = "spinning"
    /\ Advance("SUCCESS")
    /\ UNCHANGED <<unloaded, board, spin, cancelled, rosOk, exit>>

\* (mutant TickComputesInPlace: the result overwrites the input's key)
TickComputesInPlace ==
    /\ Ticked
    /\ Current.class \in Writers
    /\ InputsReady(Current) /\ ~Retypes(Current)
    /\ Current.class = "GetDetectedObjectPose" => rosOk /\ spin = "spinning"
    /\ board' = [board EXCEPT ![IF Current.in = None THEN Current.out ELSE Current.in] = "pose"]
    /\ Advance("SUCCESS")
    /\ UNCHANGED <<unloaded, spin, cancelled, rosOk, exit>>

\* A pose is computed and stored; a detection arrives through the executor,
\* and is awaited only while rclcpp::ok().
TickComputes ==
    /\ Ticked
    /\ Current.class \in Writers
    /\ InputsReady(Current) /\ ~Retypes(Current)
    /\ Current.class = "GetDetectedObjectPose" => rosOk /\ spin = "spinning"
    /\ board' = [board EXCEPT ![Current.out] = "pose"]
    /\ Advance("SUCCESS")
    /\ UNCHANGED <<unloaded, spin, cancelled, rosOk, exit>>

\* Neither looks at its port: a missing key costs a default or a log line.
TickIdles ==
    /\ Ticked
    /\ Current.class \in UtilityNodes
    /\ Advance("SUCCESS")
    /\ UNCHANGED <<unloaded, board, spin, cancelled, rosOk, exit>>

-----------------------------------------------------------------------------
(***************************************************************************)
(* The end of main().                                                      *)
(***************************************************************************)
Cancel ==
    /\ stage = "cancel"
    /\ stage' = "join"
    /\ cancelled' = TRUE
    /\ UNCHANGED <<unloaded, board, spin, rosOk, results, status, exit>>

Join ==
    /\ stage = "join"
    /\ spin = "finished"
    /\ Exit(IF status = "SUCCESS" THEN "0" ELSE "1")
    /\ UNCHANGED <<unloaded, board, spin, cancelled, rosOk, results, status>>

\* SIGINT: nobody looks at ok() before the tree has ended.
Interrupt ==
    /\ rosOk
    /\ stage # "exited"
    /\ rosOk' = FALSE
    /\ UNCHANGED <<stage, unloaded, board, spin, cancelled, results, status, exit>>

Next ==
    \/ DeclareParameters
    \/ StartUp
    \/ BuildClients
    \/ AttachMonitors
    \/ \E p \in Params : LoadTaskParameter(p)
    \/ ParametersLoaded
    \/ Spawn
    \/ SpinBegins
    \/ SpinEnds
    \/ Settle
    \/ TickThrows
    \/ TickFails
    \/ TickActs
    \/ TickComputes
    \/ TickIdles
    \/ Cancel
    \/ Join
    \/ Interrupt

MainStep ==
    \/ DeclareParameters \/ StartUp \/ BuildClients \/ AttachMonitors
    \/ \E p \in Params : LoadTaskParameter(p)
    \/ ParametersLoaded \/ Spawn \/ Settle
    \/ TickThrows \/ TickFails \/ TickActs \/ TickComputes \/ TickIdles
    \/ Cancel \/ Join

Spec == Init /\ [][Next]_vars

\* Both threads run, and the calls of the nodes return: those to services have
\* timeouts, those to move_group return whatever it answers.
FairSpec == Spec /\ WF_vars(MainStep) /\ WF_vars(SpinBegins) /\ WF_vars(SpinEnds)

-----------------------------------------------------------------------------
Stages == {"declare", "profiles", "backend", "clients", "parameters", "tree", "extras",
           "spawn", "settle", "tick", "cancel", "join", "exited"}

TypeOK ==
    /\ stage \in Stages
    /\ unloaded \subseteq Params
    /\ board \in [Keys -> BoardValues]
    /\ spin \in {"none", "created", "spinning", "finished"}
    /\ cancelled \in BOOLEAN
    /\ rosOk \in BOOLEAN
    /\ results \in Seq({"SUCCESS", "FAILURE"})
    /\ Len(results) <= Len(Tree)
    /\ status \in {"RUNNING", "SUCCESS", "FAILURE"}
    /\ exit \in {"none", "0", "1", "terminate"}
    /\ stage = "exited" <=> exit # "none"
    /\ stage = "tick" => Len(results) < Len(Tree)

(***************************************************************************)
(* A node that can be checked by reading the tree and the parameter file:  *)
(* its string ports refer to parameters of the right type that no node     *)
(* overwrites, and the pose it reads is written by an earlier node.        *)
(***************************************************************************)
Outs == {Tree[i].out : i \in DOMAIN Tree}

Fits(n, k) ==
    /\ k \in Params
    /\ "absent" \notin ParamType[k]
    /\ k \in n.numeric =>
         IF n.class = "ComputeTCPTarget" THEN ParamType[k] \subseteq {"triple"}
                                         ELSE "text" \notin ParamType[k]

WellWired(i) ==
    /\ \A k \in Tree[i].text : Fits(Tree[i], k) /\ k \notin Outs
    /\ Tree[i].in # None => \E j \in 1..(i - 1) : Tree[j].out = Tree[i].in

\* A well-wired node finds its inputs on the blackboard when it is ticked: start-up
\* has put the parameters there before the first tick, and the nodes that ran
\* before it have written the pose it reads.
InputsFound == Ticked /\ WellWired(Len(results) + 1) => InputsReady(Current)

\* The exit code is the outcome of the tree: 0 only after every node succeeded,
\* 1 only after a node failed, nothing was ticked at all, or never if it crashed.
ExitTellsOutcome ==
    /\ exit = "0" => Len(results) = Len(Tree) /\ \A i \in DOMAIN Tree : results[i] = "SUCCESS"
    /\ exit = "1" /\ results # <<>> => results[Len(results)] = "FAILURE"

\* main() never returns while the other thread uses the executor on its stack.
NoThreadLeftBehind == exit \in {"0", "1"} => spin \in {"none", "finished"}

\* The process ends: the cancellation of the executor is not lost, with or
\* without an interrupt.
RunnerExits == <>(stage = "exited")

\* Whatever the parameter file and the tree name, the nodes find the robot client,
\* the motion profiles and the ROS node where start-up put them.
FrameworkKept == stage = "tick" => \A k \in Framework : board[k] = "object"
=============================================================================
