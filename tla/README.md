# Verification of industrial_bt_framework

TLA+ models of the robot-agnostic behaviour-tree framework in `src/`, checked with
TLC on small instances and proved with TLAPS for every value of the constants.
Paths below are relative to the repository (`src/…`); `PROJECT.json` lists the
lines each definition stands for.

## 1. Inventory

Two processes carry the logic. `scene_manager_node` owns the planning scene.
`bt_runner_node` ticks a behaviour tree whose nodes call a robot client, a tool
registry, a scene client and a perception client. Both talk to MoveIt's
`move_group`, which is not part of the repository.

```
 bt_runner_node                              scene_manager_node
 ┌─────────────────────────────┐             ┌──────────────────────────┐
 │ main: ticks the tree        │ remove /    │ init timer, force timer, │
 │  nodes ─ blackboard         │ set_pose    │ two services, client     │
 │   ├ SceneClient ────────────┼────────────▶│ response; 2 threads      │
 │   ├ ToolRegistry ──▶ drivers│             └───────┬─────────┬────────┘
 │   ├ RobotClient ─ backend   │        apply service│         │topic, depth 1
 │   └ PerceptionClient ◀ topic│                     ▼         ▼
 │ spin thread: responses      │──plan, execute─▶  move_group (scene, robot)
 └─────────────────────────────┘
```

| Component | State | Operations | What is hard | What makes it correct |
|---|---|---|---|---|
| SceneManagerNode (`src/scene_manager_node.cpp`) | `specs_`, `forced_`, `initial_loaded_`, the publisher's queue, pending apply calls | initial load, remove, set pose, republish, response | blocking callbacks on two threads, an unlocked load, two unordered channels to move_group, a queue of depth 1, time-outs, partial load | no race, no self-made deadlock; the republisher never undoes a change; the scene ends as promised |
| SceneClient, ToolRegistry (`src/scene_client.cpp`, `src/tool_registry.cpp`) | the pending future | removeObject, setObjectPose, activate, release; registration | late answers, lost requests, incomplete tools | true means done; a success supersedes what timed out before it; every call returns |
| RobotClient (`src/robot_client.cpp`) | the goal kept by `MoveGroupInterface` | three free-space motions with retries, linear motion, the geometry helpers | a goal that outlives its call, ignored refusals of setters | success of a free-space motion is arrival; stale goals are not executed |
| MoveItCartesianBackend (`src/backends/moveit_cartesian_backend.cpp`) | pose read at the loop's head | `executeLinear`, `stepOnce` | an unbounded loop, a fallback computed from an old position | never retreats, short steps, terminates |
| bt_runner_node and the nodes (`src/bt_runner_node.cpp`, `src/bt_nodes.cpp`) | blackboard, tree status, spin thread | start-up, parameter loading, tick, cancel and join | uncaught exceptions, a cancellation that can be lost, keys wired by XML only | inputs are found, the exit code tells the outcome, the process ends |
| Motion profiles (`src/motion_profile.cpp`) | a map of profiles | load with inheritance, look-up with default | silence about a misspelt name | a field is the profile's, else the default section's, else the built-in one |
| Pose-computing nodes (`src/bt_nodes.cpp`, helpers in `src/robot_client.cpp`) | poses on the blackboard | store, compute, offset, suction pose | degenerate directions, fallbacks, an unread robot state, the side a rotation is multiplied from | frames stay proper, the cup meets the surface, the wrist turns least |
| PerceptionClient, GetDetectedObjectPose (`src/perception_client.cpp`) | `latest_`, a transform buffer, the cache of clients | `onPoses`, `waitForPose`, `transformToFrame` | a callback against a waiting thread, arbitrarily old detections, lost arrays, late transforms, clocks that disagree | the pose existed, detections never go back, the transform is that of the capture where the code can know |
| `bt_runner_node_visual` (`src/bt_runner_node_visual.cpp`) | two monitors | the runner's, with monitors attached | their failure | it is ignored |
| The example task (`bt_trees/example_pick_place.xml`, `launch/`) | robot, tool, part, scene | the tree, run again after any end | a run that ends while a server still works for it | success means placed; the scene never holds the part where it is not |
| Plugin description, build files, service definitions | — | declarative | — | not modelled |

`PROJECT.json` lists the hazards line by line, with the properties that would
notice each of them going wrong.

## 2. Modules

| Module | Models | MC module | Proofs |
|---|---|---|---|
| `SceneManager` | `scene_manager_node` with move_group's scene and the other writers as environment | `MCSceneManager` | `SceneManagerProofs` |
| `ServiceClients` | `SceneClient` and `ToolRegistry`, any server | `MCServiceClients` | `ServiceClientsProofs` |
| `RobotClient` | `RobotClient` over an external `MoveGroupInterface` | `MCRobotClient` | `RobotClientProofs` |
| `CartesianStepper` | `MoveItCartesianBackend::executeLinear` | (checked directly) | `CartesianStepperProofs` |
| `SceneLedger` | what the two scene services promise their clients (abstract) | through `SceneManager` and `PickAndPlace` | `SceneManagerProofs`, `PickAndPlaceProofs` |
| `BtRunner` | `main()` of both runners, the spin thread, the tick of a Sequence | `MCBtRunner` (the example tree and parameters) | `BtRunnerProofs` |
| `MotionProfiles` | `loadMotionProfiles` and `getProfile`, as operators | `MCBtRunner` | `BtRunnerProofs` |
| `PoseNodes` | the nodes that compute poses, and the geometry they call | `MCPoseNodes` | `PoseNodesProofs` |
| `Perception` | `PerceptionClient`, `GetDetectedObjectPose`, the transform buffer | `MCPerception` | `PerceptionProofs` |
| `PickAndPlace` | the example task over the promises of the others | (checked directly) | `PickAndPlaceProofs` |

`PickAndPlace` composes: it INSTANCEs `SceneLedger`, which `SceneManager` is shown to
implement, and uses of `RobotClient` and `ServiceClients` what their runs and theorems
establish.

### SceneManager

A thread of the executor is a record: what it runs (`cb`), how far it is (`at`),
the request it serves and the reply it has got. `CanTake` is rclcpp's rule for
callback groups: everything but the apply client's response belongs to the node's
default, mutually exclusive group; the client's group is reentrant. Each blocking
call splits its handler: `WipeScene` is `loadInitialScene` up to the first sleep,
`LoadInitialScene` up to the wait for the apply, then `InitialApplyReturns`,
`PublishAcm` and `FinishLoad`; `HandleRemove` and `HandleSetPose` go up to the wait
in `applyDiffMany`, `RequestFails` and `RequestSucceeds` are the rest of both. The
time-outs are choices: a handler may find the service unavailable, or give up
before the reply. `move_group` serves the apply queue (`ApplyRequest`) and the
topic (`DeliverTopic`) in any order relative to each other; `DeliverWipe` is the
removal that `PlanningSceneInterface` publishes, which may reach nobody.
`Interfere` is the stale scene source the node is written to defeat.

Three history variables say what a client knows: `promised` (the last state
declared or acknowledged), `doubt` (objects whose last change failed or timed out,
so that nobody knows) and `overrun` (objects whose last topic message was pushed out
of the publisher's queue). `SettleDrains` names the assumption the code makes with
its sleeps, that each outlasts the latency of the topic: `scene_update_wait_ms` (800 ms,
after the wipe) and the 300 ms after the collision-matrix message
(`scene_manager_node.cpp:302`).

`ImplementsLedger` is the refinement. A request is pending in the ledger while it
waits in a queue or is worked on by a thread (`Unanswered`); a call is granted from
`move_group`'s positive response until the waiting thread uses it (`Granted`; a
response nobody waits for is an `Expire` step); the scene is declared when the load has
filled `specs_` (`SceneDeclared`); `promised` is the ledger and `doubt` what is unsure.
Everything else — queues, threads, locks, the topic, the sleeps — maps to stuttering.

`MCSceneLive` runs `SceneManager` under two parameter files, one of which is cut short
by an exception, and states the fairness of `SceneManager` for both.

### ServiceClients

A call first looks for the service (`find`), sends, then waits (`wait`). A
time-out leaves the request at the server, which may still perform it, refuse it or
lose it. An endpoint acts on a device, so two services of one device (close and
open, remove and set_pose) have a common state but no common order. The requests to one
service are served in the order they were sent: one client sends them, and the scene
manager takes them in a mutually exclusive group; of the drivers it is assumed. An
incomplete tool is not `Registered`, and a call to it fails before anything is sent.

### RobotClient

`goal` is the target kept by the `MoveGroupInterface` that lives as long as the
client. The setters are modelled from how the code uses them: one that cannot
resolve its argument (an unknown name, a vector of the wrong size) leaves the goal
as it is. A plan leads to a configuration of the goal; a failed execution leaves
the robot anywhere. A pose is a position and an orientation (`Positions`,
`Orientations`): a linear motion ends on the position alone
(`moveit_cartesian_backend.cpp:66`), so it succeeds without a step when the tool is
already there, and leaves the orientation open otherwise.

### CartesianStepper

Positions are distances to the target along the line, in a unit of the
instance's choice; a round is one pass through the loop. A path that is executed
with an accepted fraction stops at the fraction's end, one that fails stops anywhere
on it. The model assumes that reading the current pose succeeds (its failure is
modelled in `PoseNodes`).

### BtRunner

The start-up steps in `main()`'s order, with what is caught (exit code 1) and what is
not (`terminate`). `LoadTaskParameter` takes the parameters in any order. The tree
is a sequence of nodes, of all 16 registered classes, with the keys they read and
write; a blackboard entry is a list of three numbers or of another length, a number, text,
a pose or one of the framework's objects (`Framework`). `AttachMonitors` is what `bt_runner_node_visual`
adds. One `tickOnce()` runs the whole Sequence
because every node is synchronous, so each action ticks one node. The spin thread is
created, spins and finishes; `cancelled` is the executor's flag, which `spin()`
resets when it begins.

### MotionProfiles

A file is a function from section names to the fields each section sets. The operators
follow the two loops of `loadMotionProfiles` and the look-up; `Setting` is the
reference, written from the example file's comments.

### PoseNodes

Distances are integers and rotations are the 24 that turn axes onto axes, as the
matrix of their columns, so that products, projections and cross products are exact.
`Null` stands for a quaternion of norm zero, which a detection may carry, and
`Unread` for a robot whose state cannot be read, for which `getCurrentPose` returns the
identity. One action ticks one node, in any order; each may also find a port missing or
unparsable (`Refused`). `OffsetPoseInBaseFrame` copies the orientation it reads, null or
not, from any key to any key; the other nodes write to one key each.

### Perception

Time is a sequence of instants, at each of which the camera, carried by the robot, is
where its moves so far have brought it; a transform is right if it places the camera
where it was at the capture. The buffer covers the instants between the first and the
last transform heard. `BeginTick` looks the client up or creates it; `Look` and `Wake`
are the wait loop; `ExactFound`, `ExactFails`, `LatestFound` and `LatestFails` the two
look-ups. `Take` and `OnPoses` are the callback on one of the executor's threads. After
SIGINT nothing is heard any more, neither detections nor transforms, and the wait inside a
look-up is over at once (`WaitOver`): an answer may then rest on an old transform.
`std::stoul` is modelled with its wrap-around (`SizeT`).

### PickAndPlace

The root Sequence is `Task`, one entry for each child: a local node, a motion, a call
to the tool or to the scene. The runner may fail at any node, be killed anywhere and be
started again; the robot, the tool, the part and the servers are then as it left
them. A killed runner's motion goes on in move_group; `RunDies` gives the robot the place
where it will end, which no property can tell apart: no call of that run is pending during
a motion, and the first motion of the next run replaces it. `haunted` is the set of servers that had a call of an earlier run pending as some
run began: the code has no means to recall such a call, and the properties name the
server whose ghosts could break them.

## 3. Runs

Each passing run lists its properties in its `.cfg`; each property has a mutant of
the modelled code (named in the comment above its definition) that violates it.

| Run | Instance and why it is enough | Shows |
|---|---|---|
| `scene_manager` | 2 threads, 2 objects (one dynamic), 2 poses, `attach_acm_links` set, queue depth 1, 2 requests, 1 stale write. Two requests cover remove after teleport, both about one object or two; the depth is the code's. Threads are symmetric. | No race on `specs_`/`forced_`, a waiting callback can always be answered, the republisher and the last message in flight agree with the last acknowledged state, the scene at rest agrees too, except where a change failed, a message was pushed out or a stale source wrote; the collision-matrix message is never pushed out, because its sender sleeps after publishing it; the clients see a `SceneLedger`. |
| `scene_manager_live` | a tidy file (1 object, 2 requests, `attach_acm_links`) and a faulty one (an object of unknown shape, then a good one declared twice, 1 request), 1 stale write, fairness | Every request is answered; an object that stays forced ends up, and stays, in the scene, also when the load was cut short and nothing was applied. |
| `cartesian_stepper` | segments up to 12 units, steps 5 and 2, tolerance 1, fraction 60 % | Several rounds of both steps with partial executions: never farther, never more than a step, every round advances, the loop ends. |
| `robot_client` | 4 configurations: two with the same tool pose, one with the same position but a turned tool, one elsewhere; an unknown name, 2 attempts, 3 calls | A stale goal needs two calls to matter, three to hide: a free-space motion that succeeds has arrived, also after linear motions that left the tool turned; poses of earlier calls are forgotten, all attempts are made. |
| `bt_runner` | the example tree (18 nodes) followed by the vision nodes, its 11 parameters and one called `robot_client`, in a file where one joint vector may be text or missing, the tool offset may have too few numbers and the tool name may be a list | Well-wired nodes find their inputs, the framework's entries survive any parameter name, the exit code is the outcome, the process ends, with SIGINT at any moment. All uncaught exceptions are reached. The ASSUME of `MCBtRunner` compares the profiles of every file over 3 sections and 2 fields with `Setting`. |
| `service_clients` | gripper, incomplete suction tool, two services of a part, 3 calls | Answers to earlier calls are not taken for later ones; without time-outs the last success stands; with them, a success leaves no earlier request to its service to be performed late; calls return. |
| `perception` | 2 threads, 2 ticks, 2 arrays of one pose, indices 0 and −1, history 1, wait 1, transforms up to 1 instant late, a clock that is 0 or 1 ahead, 4 instants | The pose that is read existed; a later tick never answers with an older detection; the transform is the one of the capture unless the camera moved in the windows `CameraWasThere` names, or SIGINT came before the answer; every tick returns, also then. Two arrays are the least that can be overtaken or lost. |
| `pose_nodes` | all 24 rotations and a null one as the detection, a null or no entry as the reference, 5 attitudes and an unread one, 2 distances, 2 TCP offsets, 2 nodes in a row, refused ports | Frames stay right-handed, and only the base-frame offset passes on a null orientation, the cup meets the surface, the wrist turns least (nothing is said of a robot whose state cannot be read, see below), the suction node that can read its ports fails only as `SuctionFailsSideways` says, TCP offsets are undone exactly. Two nodes are what it takes for one to use the other's pose. |
| `pick_and_place` | the 17 nodes of the example, 3 runs | No motion beside a pending call of the same run, the tool acts in place, the scene is known not to hold the part from descent to release, never holds it where it is not, and exit code 0 means placed. Three runs: one to leave a call behind, one to be disturbed, one after it. |

`CHECK_DEADLOCK FALSE` is used where the system stops: a bounded number of calls, ticks
or runs is used up, `executeLinear` has returned, or the process has exited. The
scene manager and the perception client never stop, and deadlock is checked there.

Bounds that are not the code's: `MaxRequests`, `MaxInterference`, `MaxCalls`, `MaxDist`,
`MaxInstant`, `MaxArrays`, `MaxTicks` and `MaxRuns`. The theorems hold for every value of
those their modules have.

### Disagreements

Three runs end in a violation, each of something a comment or document says:

| Run | What happens |
|---|---|
| `scene_manager_lost_reassert` | A dynamic object whose removal failed is no longer republished. |
| `scene_manager_removed_back` | A removal is acknowledged while a late republication has put the object back. |
| `robot_unknown_name` | A name the SRDF does not know runs the previous goal and succeeds. |

Others were met on the way and have no run of their own:

* With a publisher of depth 1 an acknowledged change can be undone by an older
  republication and its repair pushed out (`overrun` in `RestingSceneAgrees`).
* "ready" is logged although the initial apply failed (`scene_manager_node.cpp:291`).
* A string-array task parameter ends the process (`bt_runner_node.cpp:150`); an
  `out_key` naming an entry of the framework throws out of the tick
  (`bt_nodes.cpp:204`). `BtRunner` takes both steps.
* `doc/CUSTOMIZATION.md:52` names `task_parameters.scene_update_wait_ms` as the settle
  time after scene operations, while the node reads its own parameter
  (`scene_manager_node.cpp:262`).
* `executeLinear` looks at positions only (`moveit_cartesian_backend.cpp:66`): a pure
  rotation succeeds without moving, although
  `include/industrial_bt_framework/cartesian_backend.hpp:31` speaks of the target pose.
  `SuccessMeansThere` therefore leaves linear motions out.
* After SIGINT `transform()` no longer waits, and the transform at the latest time may be
  from before the capture (`perception_client.cpp:65-79`); `tick()` succeeds all the same.
  `CameraWasThere` says nothing of such an answer.
* A removal in the second before the scene is loaded is undone by the load
  (`scene_manager_node.cpp:77`).
* A robot state that cannot be read gives the identity (`robot_client.cpp:218`), which
  `ComputeTCPTarget` takes for the current orientation (`bt_nodes.cpp:268`). Its norm is
  one, so `ComputeSuctionPickPose` never reaches its documented fallbacks (2) and (3)
  in this case (`bt_nodes.cpp:700-709`). `WristTurnsLeast` therefore says nothing of it.
* `ComputeSuctionPickPose` fails when the surface normal and the reference are both
  along world Y, although world X would do: the error at `bt_nodes.cpp:769` speaks of
  "world X and Y", but X is never tried (`SuctionFailsSideways`).
* `example_pick_place.xml:39` says "Lift in tool frame"; a positive `dz` in the tool
  frame moves towards what the tool faces.
* A misspelt profile name gets the default profile without a word (`bt_nodes.cpp:54`).

## 4. Fairness

* `SceneManager`: weak fairness of each thread's callback, since every blocking call
  in one has a time-out; strong fairness of taking each timer and each service,
  since the default group is free again and again and the executor serves what is
  ready. The latter holds while callbacks are shorter than the timers' periods; a
  `force_republish_hz` above 1000 gives a period of 0 ms and breaks it. Nothing is
  assumed of the apply service; the topic is read.
* `ServiceClients`: only the caller's own steps, which have time-outs.
* `RobotClient`, `CartesianStepper`: calls of the move group interface return. The
  comment in `bt_runner_node.cpp:304-307` tells of a hang before the action channels
  are established; the 3 s sleep is the code's answer and the model's assumption.
* `BtRunner`: both threads run, node calls return, and the 3 s sleep outlasts the
  start of the spin thread (`Settle` waits for it). Without that a `cancel()` before
  `spin()` would be lost: the mutant `SettleShort` shows that `join()` then hangs.
* `Perception`: the main thread is scheduled, time passes, and transforms, once they
  arrive, keep arriving until the process is interrupted. Nothing is asked of the camera or of the executor.

## 5. Proofs

Every theorem is checked by TLAPS to the last leaf, from the named assumptions on the
constants only, except that `TopicCorrect`, `RestingCorrect` and `AcmArrives` also
assume `SettleDrains`. Every invariant and every action property of the runs is proved.
The type invariants of `SceneManager`, `CartesianStepper`, `RobotClient`, `BtRunner`,
`ServiceClients`, `PickAndPlace` and `Perception` are all proved (`TypeCorrect`); only the
first is also checked by a run, as the others would say nothing more.

* **SceneManager.** `TypeCorrect` is inductive by itself. `RaceFree` and
  `ForcedMatchesPromised` are not: the invariant `IInv` adds that at most one callback
  of the default group runs (`OneCallback`), which gives the mutual exclusion the
  unlocked load relies on, that a thread removing an object has already forgotten
  it (`RemovalForgets`), so that acknowledging the removal cannot contradict
  `forced_`, and that only dynamic objects are forced (`ForcedIsDynamic`), so that a
  static object's teleport changes nothing there. From it follow `LoadIsRaceFree`,
  `ForcedCorrect` and `WaitIsServed` (with two threads and one busy at most, another
  can take the response). `TopicCorrect` then needs `ForcedCorrect` for what the
  republisher appends and `SettleDrains` for the load, which changes what is promised
  while older messages could still be in flight.
* **The scene at rest.** `RestingCorrect` says what the scene holds when nothing is in
  flight; it assumes `SettleDrains`, since a wipe or a republication that arrived during
  the load could undo what the load declares. Its invariant
  `RestInv` follows an object nobody doubts: it is as promised, or the topic will still say
  so, or a handler waits for move_group to change it (`SceneFollows`). To keep
  that, a call that is waited for is the last in the queue and the others change
  objects in doubt only (`CallIsLast`, `CallsInDoubt`); the wipe is over before the load
  is sent, and nothing is published during it (`WipeBeforeLoad`); nothing is promised
  before the load (`LoadComesFirst`); and its positive answer finds the objects where they
  were declared (`LoadTakesEffect`). `TopicCorrect` then gives what the last message about
  an object says. The proof exposed an error of the model: `Publish` counted objects as
  overrun that a message left in the queue still mentions, so that `RestingSceneAgrees`
  said less than it meant; it now counts only those no message mentions.
  `AcmArrives` needs `AcmWaits`, that the thread which published the message is asleep
  while it is in flight, and hence alone in the default group.
* **SceneLedger.** `Implements` is the refinement `Spec => ImplementsLedger`, with the
  mapping of section 2. Its invariant `LInv` adds to `IInv` what makes a message
  attributable: no request is in two places (`QueuesApart`, `RequestsApart`), no call or
  response has another's number (`CallsApart`), an answer never precedes its question
  nor outlives its use (`NotYetSent`), and while the load waits the declared poses stand
  (`LoadShape`). So a positive response reaches only the thread that asked, an acknowledged
  request leaves the pending ones for good, and a response nobody waits for grants
  nothing. `ArriveRefines`, `TakeRequestRefines`, `ApplyRefines`, `DeliverRefines`,
  `LoadRefines`, `ConfirmRefines`, `ReplyRefines` and `QuietRefines` map the steps.
* **CartesianStepper.** The invariant ties the position to the one read at the head
  of the round (`PrimaryFromHead`, `FallbackInReach`). `RoundsAdvance` multiplies out
  the accepted fraction (`AcceptedAdvances`); it is the step of a termination
  argument. `RankFalls` concludes what of it is no liveness: with positive steps and
  fraction `executeLinear` takes at most `3 * dist + 3` steps. Distances are integers here;
  in the code's reals a round advances by the fraction of the shorter step or of the
  tolerance, and the count is finite as long as the tolerance is positive.
* **RobotClient.** `GoalKept` says that the goal stays the one requested during the
  attempts if the request can be resolved, `PlanKept` that a plan leads to it.
  `SuccessIsArrival` speaks of the free-space motions only, for the reason given above.
  `AttemptsRunOut` bounds a call by two steps for each attempt.
* **BtRunner.** `WiringSuffices` holds, in every tree, for every node whose ports refer
  to parameters of the right type that no node overwrites and whose pose is written
  by an earlier node (`WellWired`, a check on the XML and the YAML). It needs that
  parameters are on the board after loading (`ParametersThere`), that each node
  ticked has written its pose (`PosesThere`), and that all earlier nodes succeeded.
  `ObjectsKept` says that neither a parameter nor an output key replaces an entry of
  the framework, and `ThreadJoined` that `main()` returns only after the other thread has
  left the executor. `CancelReaches` is the safety half of `RunnerExits`: while `main()`
  joins, the other thread has finished or is spinning with the flag set, because it has
  begun to spin before the first tick (`SpinBeforeTick`); and by `MainGoesForward` each
  step of `main()` leads to a later stage, loads one more parameter or ticks one more
  node. `ProfilesResolve` is the inheritance of motion profiles for every
  file, name and field; it concerns operators, not behaviours.
* **ServiceClients.** Response identifiers are fresh and truthful (`IdsFresh`,
  `AnswersTrue`), hence `TrueIsTrue`. For `SuccessStands` the only request in flight
  to a device without time-outs is that of the current call (`OnlyCurrentInFlight`),
  and a positive answer to it means the device is as it asked (`AnswerMeansDevice`).
  `SuccessClears` rests on the order of a service's queue: the current call is the last in
  it (`LatestLast`), so its answer is there only once the queue is empty (`AnswerClears`).
* **PickAndPlace.** The invariant follows the run through the tree: which calls of this
  run may be pending at a step and that nothing else is (`TreeShape`, `LedgerShape`,
  `Calm`), where the part is at each step unless the tool is haunted (`PartFollowed`),
  and what the ledger says at each step unless the scene is (`SceneFollowed`,
  `Finished`). From it follow the five properties of the run, for any number of runs.
  By `RequestsFit`
  the bound of two requests a run never keeps a node from sending one.
* **Perception.** For any numbers of arrays, instants and threads, and any skew and
  depth: arrays keep the order of publication from the history through the one thread that
  may take them to the cache (`InOrder`), a tick works with an array that was in the
  cache and has the pose (`Looked`), and so `MovesForward` and `IndexAlwaysExists`. For
  `CameraStood`, while `rclcpp::ok()` the exact lookup fails only `TfTimeout` after the
  capture (`Timed`), by when the newest transform is from after it (`TfRecent`): an answer used the transform of the
  stamp or, with a clock too far ahead or a buffer that did not reach back, one from after
  the capture (`Placed`). `IndexAlwaysExists` needs the indices to be farther than an
  array's size from the width of `std::size_t`, which `PerceptionAssumption` states:
  "-18446744073709551615" parses, and wraps to 1.

* **PoseNodes.** For any attitudes, offsets, target and number of ticks, from
  `PoseAssumption`: an attitude is a rotation and is told from `Unset` and `Unread`, the null
  orientation is no matrix, and vectors are integral. The 24 rotations are not
  enumerated: they lie in the right-handed frames along the axes (`RpyFrames`,
  `RotationsAreFrames`), which composition keeps (`ComposeFrames`) and never confuses
  (`ComposeCancels`). The invariant `PInv` says that every pose on the board has such a
  frame or none (`BoardHolds`), and what the last node claims of what it wrote.
  `ToolXTurnsLeast` and `ToolXVanishes` are the facts about the projection that
  `WristLeast` and `FailsSideways` rest on; `CupTouches` and `TargetIsRecovered` are vector
  algebra (`VectorTypes`) for all distances.

Only model-checked: the liveness properties (`RequestsAnswered`, `ForcedConverges`,
`Terminates`, both `CallsReturn`, `RunnerExits`, `TickReturns`), since liveness under
fairness and ENABLED are out of the prover's reach. For `Terminates`, `RobotClient`'s
`CallsReturn` and `RunnerExits` the bounds their arguments need are proved (`RankFalls`,
`AttemptsRunOut`, `CancelReaches` and `MainGoesForward`); for `RequestsAnswered` and
`ForcedConverges` they are `WaitIsServed` and `Implements` (no request is answered twice)
only.

## 6. Not modelled

Shapes and meshes beyond whether an object can be built, angles other than quarter
turns and floating-point error, what a profile's fields mean to the planner, wording
and logging, the Groot2 publisher, the launch file but for its order of starting.
Control nodes of BehaviorTree.CPP other than Sequence. Real time: time-outs are choices,
sleeps are either choices or one of the named assumptions above; `Perception` counts
instants. `move_group`, `MoveGroupInterface`, tf2, rclcpp's executor and the drivers are
modelled as external from how the code uses them. The requests that time out and stay
in an rclcpp client's table (`scene_client.cpp:29`) are memory and no behaviour.

## 7. Plan

1. The bounds behind the remaining liveness properties: how many callbacks a request
   waits for (`RequestsAnswered`), how many instants a tick may wait (`TickReturns`).
2. `CartesianStepper` with a pose that cannot be read in a round
   (`moveit_cartesian_backend.cpp:61`): the segment is then computed from the identity.
3. A task with a `Fallback`, once the repository has one.
