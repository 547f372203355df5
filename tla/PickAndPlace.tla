----------------------------- MODULE PickAndPlace -----------------------------
(***************************************************************************)
(* The example task, run by bt_runner_node against the robot, the tool's   *)
(* driver and scene_manager_node.                                          *)
(*                                                                         *)
(* The other modules show what one component does; here their promises are *)
(* put together.  A motion that succeeds arrives, one that fails stops     *)
(* anywhere (RobotClient, CartesianStepper).  A call that returns success  *)
(* was performed, one that times out may be performed later                *)
(* (ServiceClients).  The scene is a ledger (SceneLedger).  The runner may *)
(* be started again; robot, tool, part and scene are then as it left them. *)
(***************************************************************************)
EXTENDS Naturals, Sequences

CONSTANTS
    Part,
    None,      \* no pose: the part is not in the scene
    MaxRuns    \* bound: runs of the task

ASSUME TaskAssumption == MaxRuns \in Nat /\ None \notin {"pick", "place"}

VARIABLES
    robot,      \* the site the robot is at, "between" for none
    tool,       \* "open" or "closed"
    part,       \* the site the part is at, or "gripped"
    toolCalls,  \* calls to the tool's services, in order of sending
    run,        \* runs of the task so far
    step,       \* the node that is ticked, 0 between two runs
    doing,      \* what the node does
    status,     \* status of the tree
    haunted,    \* history: the servers that had a call of an earlier run pending as a run began
    pending, outcome, granted, declared, ledger, unsure    \* see SceneLedger

taskVars  == <<run, step, doing, status, haunted>>
worldVars == <<robot, tool, part>>
sceneVars == <<pending, outcome, granted, declared, ledger, unsure>>
vars      == <<taskVars, worldVars, toolCalls, sceneVars>>

Scene == INSTANCE SceneLedger WITH
    Objects <- {Part}, Poses <- {"pick", "place"}, InitPose <- "pick",
    MaxRequests <- 2 * MaxRuns

-----------------------------------------------------------------------------
Local         == [does |-> "local"]
Move(site)    == [does |-> "move", to |-> site]
Tool(state)   == [does |-> "tool", to |-> state]
Entry(pose)   == [does |-> "scene", to |-> pose]

\* (mutant TaskUnremoved: the part stays in the scene)
TaskUnremoved ==
    << Local, Move("pre_pick"), Local, Local, Move("pick"),
       Tool("closed"), Local, Move("pick_retreat"), Move("pre_place"), Local, Local,
       Move("place"), Tool("open"), Entry("place"), Local, Move("place_retreat"), Local >>

\* (mutant TaskEager: the tool closes before the descent)
TaskEager ==
    << Local, Move("pre_pick"), Local, Entry(None), Local, Tool("closed"),
       Move("pick"), Local, Move("pick_retreat"), Move("pre_place"), Local, Local,
       Move("place"), Tool("open"), Entry("place"), Local, Move("place_retreat"), Local >>

\* (mutant TaskReleasesLast: the scene is updated before the tool has released)
TaskReleasesLast ==
    << Local, Move("pre_pick"), Local, Entry(None), Local, Move("pick"),
       Tool("closed"), Local, Move("pick_retreat"), Move("pre_place"), Local, Local,
       Move("place"), Entry("place"), Tool("open"), Local, Move("place_retreat"), Local >>

\* The children of the root Sequence.  "local" nodes log, read the robot or compute.
Task ==
    << Local, Move("pre_pick"), Local, Entry(None), Local, Move("pick"),
       Tool("closed"), Local, Move("pick_retreat"), Move("pre_place"), Local, Local,
       Move("place"), Tool("open"), Entry("place"), Local, Move("place_retreat"), Local >>

Node == Task[step]

\* The servers that may still act on their own.
Outstanding ==
    {server \in {"tool", "scene"} :
       IF server = "scene" THEN pending # {}
       ELSE \E i \in DOMAIN toolCalls : toolCalls[i].outcome = "pending"}

Init ==
    /\ Scene!Init
    /\ robot = "between" /\ tool = "open" /\ part = "pick"
    /\ toolCalls = <<>>
    /\ run = 0 /\ step = 0 /\ doing = "none"
    /\ status = "RUNNING"
    /\ haunted = {}

-----------------------------------------------------------------------------
\* The launch file starts the runner five seconds after the scene manager: the
\* initial scene is declared by then, confirmed or not.
StartRun ==
    /\ step = 0 /\ run < MaxRuns
    /\ declared
    /\ run' = run + 1
    /\ step' = 1
    /\ status' = "RUNNING"
    /\ haunted' = haunted \cup Outstanding
    /\ UNCHANGED <<doing, worldVars, toolCalls, sceneVars>>

\* (mutant AdvanceAlways: a child that fails is skipped)
AdvanceAlways(result) ==
    /\ doing' = "none"
    /\ IF step = Len(Task)
       THEN step' = 0 /\ status' = result
       ELSE step' = step + 1 /\ UNCHANGED status
    /\ UNCHANGED <<run, haunted>>

\* The Sequence goes on to the next child, or ends, and the runner with it.
Advance(result) ==
    /\ doing' = "none"
    /\ IF result = "FAILURE" \/ step = Len(Task)
       THEN step' = 0 /\ status' = result
       ELSE step' = step + 1 /\ UNCHANGED status
    /\ UNCHANGED <<run, haunted>>

Ticked(kind) == step # 0 /\ Node.does = kind

\* Logs always succeed; the others fail when an input is missing.
TickLocal ==
    /\ Ticked("local")
    /\ \/ Advance("SUCCESS")
       \/ step \notin {1, Len(Task)} /\ Advance("FAILURE")
    /\ UNCHANGED <<worldVars, toolCalls, sceneVars>>

Begin(what) == doing = "none" /\ doing' = what /\ UNCHANGED <<run, step, status, haunted>>

BeginMove ==
    /\ Ticked("move")
    /\ Begin("moving")
    /\ UNCHANGED <<worldVars, toolCalls, sceneVars>>

EndMove ==
    /\ Ticked("move") /\ doing = "moving"
    /\ \/ robot' = Node.to /\ Advance("SUCCESS")
       \/ robot' \in {robot, "between", Node.to} /\ Advance("FAILURE")
    /\ UNCHANGED <<tool, part, toolCalls, sceneVars>>

SendTool ==
    /\ Ticked("tool")
    /\ Begin("calling")
    /\ toolCalls' = Append(toolCalls, [to |-> Node.to, outcome |-> "pending"])
    /\ UNCHANGED <<worldVars, sceneVars>>

SendScene ==
    /\ Ticked("scene")
    /\ Begin("calling")
    /\ Scene!Receive(Part, Node.to)
    /\ UNCHANGED <<worldVars, toolCalls>>

ServiceMissing ==
    /\ Ticked("tool") \/ Ticked("scene")
    /\ doing = "none"
    /\ Advance("FAILURE")
    /\ UNCHANGED <<worldVars, toolCalls, sceneVars>>

\* A node makes one call at a time, so the last one sent is the one it waits for.
Reply == IF Node.does = "tool" THEN toolCalls[Len(toolCalls)].outcome
                               ELSE outcome[Len(outcome)]

TakeResponse ==
    /\ step # 0 /\ doing = "calling"
    /\ Reply # "pending"
    /\ Advance(IF Reply = "ok" THEN "SUCCESS" ELSE "FAILURE")
    /\ UNCHANGED <<worldVars, toolCalls, sceneVars>>

\* (mutant TimeOutPasses: a call that times out counts as done)
TimeOutPasses ==
    /\ step # 0 /\ doing = "calling"
    /\ Advance("SUCCESS")
    /\ UNCHANGED <<worldVars, toolCalls, sceneVars>>

\* The response has not come in time; the request stays with the server.
TimeOut ==
    /\ step # 0 /\ doing = "calling"
    /\ Advance("FAILURE")
    /\ UNCHANGED <<worldVars, toolCalls, sceneVars>>

\* The process is killed; what it has asked for goes on.  A motion is given the place
\* where it will end at once: no call of its run is pending meanwhile, and the next
\* run's first motion replaces it.
RunDies ==
    /\ step # 0
    /\ step' = 0 /\ status' = "FAILURE" /\ doing' = "none"
    /\ robot' \in IF doing = "moving" THEN {robot, "between", Node.to} ELSE {robot}
    /\ UNCHANGED <<run, haunted, tool, part, toolCalls, sceneVars>>

-----------------------------------------------------------------------------
(***************************************************************************)
(* The servers, each in its own time.                                      *)
(***************************************************************************)
ToolActs(i) ==
    /\ toolCalls[i].outcome = "pending"
    /\ \/ /\ toolCalls' = [toolCalls EXCEPT ![i].outcome = "ok"]
          /\ tool' = toolCalls[i].to
          /\ part' = CASE tool' = "closed" /\ part = robot -> "gripped"
                       [] tool' = "open" /\ part = "gripped" -> robot
                       [] OTHER -> part
       \/ /\ toolCalls' = [toolCalls EXCEPT ![i].outcome = "failed"]
          /\ UNCHANGED <<tool, part>>
    /\ UNCHANGED <<robot, taskVars, sceneVars>>

SceneActs ==
    /\ \/ \E r \in pending : Scene!Succeed(r) \/ Scene!Fail(r)
       \/ \E i \in {0} \cup {r.id : r \in pending} : Scene!Grant(i)
       \/ \E i \in granted : Scene!Expire(i)
       \/ Scene!Declare({Part}) \/ Scene!Confirm({Part})
    /\ UNCHANGED <<taskVars, worldVars, toolCalls>>

Next ==
    \/ StartRun
    \/ TickLocal
    \/ BeginMove \/ EndMove
    \/ SendTool \/ SendScene \/ ServiceMissing
    \/ TakeResponse \/ TimeOut
    \/ RunDies
    \/ \E i \in DOMAIN toolCalls : ToolActs(i)
    \/ SceneActs

Spec == Init /\ [][Next]_vars

-----------------------------------------------------------------------------
Sites == {"between", "pre_pick", "pick", "pick_retreat", "pre_place", "place", "place_retreat"}

TypeOK ==
    /\ robot \in Sites
    /\ tool \in {"open", "closed"}
    /\ part \in Sites \cup {"gripped"}
    /\ toolCalls \in Seq([to : {"open", "closed"}, outcome : {"pending", "ok", "failed"}])
    /\ run \in 0..MaxRuns
    /\ step \in 0..Len(Task)
    /\ doing \in {"none", "moving", "calling"}
    /\ status \in {"RUNNING", "SUCCESS", "FAILURE"}
    /\ haunted \subseteq {"tool", "scene"}
    /\ pending \subseteq Scene!Request
    /\ outcome \in Seq({"pending", "ok", "failed"})
    /\ granted \subseteq 0..(2 * MaxRuns)
    /\ declared \in BOOLEAN
    /\ ledger \in [{Part} -> {"pick", "place", None}]
    /\ unsure \subseteq {Part}

\* While the robot moves, no call is under way that could close or open the tool or
\* change the scene; a call may only be left from an earlier run.
MotionIsAlone == doing = "moving" => Outstanding \subseteq haunted

\* The tool closes only at the pick and opens only at the place, with the robot
\* stopped there, unless a call is left from an earlier run.
ToolActsInPlace ==
    [][tool' # tool /\ "tool" \notin haunted =>
         robot = IF tool' = "closed" THEN "pick" ELSE "place"]_vars

\* From the descent to the release the scene is known not to hold the part the
\* robot goes to and carries.
PartIgnoredWhileHandled ==
    doing = "moving" /\ Node.to \in {"pick", "pick_retreat", "pre_place", "place"}
      /\ "scene" \notin haunted
        => ledger[Part] = None /\ Part \notin unsure

\* The ledger never says that the part is where it is not: after any failure, in a
\* second run, and with any request to the scene performed late, but for a call to
\* the tool left from an earlier run.
SceneNeverLies == "tool" \notin haunted => ledger[Part] \in {None, part}

\* Exit code 0: the part is at the place, and the scene is known to hold it there.
SuccessMeansPlaced ==
    step = 0 /\ status = "SUCCESS" /\ haunted = {}
        => part = "place" /\ ledger[Part] = "place" /\ Part \notin unsure
=============================================================================
