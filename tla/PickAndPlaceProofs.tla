------------------------- MODULE PickAndPlaceProofs -------------------------
(***************************************************************************)
(* Proofs about PickAndPlace, for any number of runs of the task.          *)
(***************************************************************************)
EXTENDS PickAndPlace, TLAPS, SequenceTheorems

\* The site where the tool is to reach a state.
Site(state) == IF state = "closed" THEN "pick" ELSE "place"

ToolPending(i) == toolCalls[i].outcome = "pending"

LastTool == toolCalls[Len(toolCalls)]

LastEntry == outcome[Len(outcome)]

Removed == ledger[Part] = None /\ Part \notin unsure
Placed  == ledger[Part] = "place" /\ Part \notin unsure

\* What the tree does agrees with the node it is at.
TreeShape ==
    /\ step = 0 => doing = "none"
    /\ step # 0 => declared /\ status = "RUNNING"
    /\ doing = "moving" => Node.does = "move"
    /\ doing = "calling" => \/ /\ Node.does = "tool"
                               /\ toolCalls # <<>> /\ LastTool.to = Node.to
                            \/ Node.does = "scene" /\ outcome # <<>>
    /\ step = 7 => robot = "pick"
    /\ step = 14 => robot = "place"

\* The ledger agrees with the requests that made it.
LedgerShape ==
    /\ \A r \in pending : /\ r.id \in 1..Len(outcome) /\ outcome[r.id] = "pending"
                          /\ r.pose \in {None, "place"}
    /\ \A r, s \in pending : r.id = s.id => r = s
    /\ ~declared => /\ outcome = <<>> /\ toolCalls = <<>>
                    /\ part = "pick" /\ status # "SUCCESS"
    /\ \A i \in 1..Len(outcome) : outcome[i] = "ok" => ledger[Part] # "pick"
    /\ toolCalls # <<>> => ledger[Part] # "pick"
    /\ step >= 5 => ledger[Part] # "pick"

\* Beside the call the tree waits for, no call is under way but those of a server
\* that was late before.
Calm ==
    step # 0 =>
        /\ "tool" \notin haunted =>
             \A i \in 1..Len(toolCalls) : ToolPending(i) =>
                 doing = "calling" /\ Node.does = "tool" /\ i = Len(toolCalls)
        /\ "scene" \notin haunted =>
             \A r \in pending :
                 /\ doing = "calling" /\ Node.does = "scene"
                 /\ r.id = Len(outcome) /\ r.pose = Node.to

\* Where the part is, if the tool was never late.
PartFollowed ==
    "tool" \notin haunted =>
        /\ part \in {"pick", "gripped", "place"}
        /\ \A i \in 1..Len(toolCalls) : ToolPending(i) => robot = Site(toolCalls[i].to)
        /\ step = 7 /\ doing = "calling" /\ LastTool.outcome = "ok" => part # "pick"
        /\ step = 14 /\ doing = "calling" /\ LastTool.outcome = "ok" => part = "place"
        /\ step >= 8 => part # "pick"
        /\ step >= 15 => part = "place"
        /\ \A r \in pending : r.pose = "place" => part = "place"
        /\ ledger[Part] \in {None, part}

\* What the scene is known to hold, if it was never late.
SceneFollowed ==
    "scene" \notin haunted =>
        /\ step = 4 /\ doing = "calling" /\ LastEntry = "ok" => Removed
        /\ step \in 5..14 => Removed
        /\ step = 15 /\ doing = "calling" /\ LastEntry = "ok" => Placed
        /\ step >= 16 => Placed

\* A task that has succeeded leaves nothing under way.
Finished ==
    step = 0 /\ status = "SUCCESS" =>
        /\ "tool" \notin haunted =>
             part = "place" /\ \A i \in 1..Len(toolCalls) : ~ToolPending(i)
        /\ "scene" \notin haunted => Placed /\ pending = {}

IInv ==
    /\ TypeOK
    /\ TreeShape
    /\ LedgerShape
    /\ Calm
    /\ PartFollowed
    /\ SceneFollowed
    /\ Finished

-----------------------------------------------------------------------------
\* The nodes of the example task, by their place in it.
LEMMA Nodes ==
    /\ Len(Task) = 18
    /\ \A k \in 1..18 :
         /\ Task[k].does = "move"  <=> k \in {2, 6, 9, 10, 13, 17}
         /\ Task[k].does = "tool"  <=> k \in {7, 14}
         /\ Task[k].does = "scene" <=> k \in {4, 15}
         /\ Task[k].does = "local" <=> k \in {1, 3, 5, 8, 11, 12, 16, 18}
    /\ Task[2].to = "pre_pick" /\ Task[6].to = "pick" /\ Task[9].to = "pick_retreat"
    /\ Task[10].to = "pre_place" /\ Task[13].to = "place" /\ Task[17].to = "place_retreat"
    /\ Task[7].to = "closed" /\ Task[14].to = "open"
    /\ Task[4].to = None /\ Task[15].to = "place"
<1>1. Len(Task) = 18
  BY DEF Task
<1>2. /\ Task[1] = Local /\ Task[2] = Move("pre_pick") /\ Task[3] = Local
      /\ Task[4] = Entry(None) /\ Task[5] = Local /\ Task[6] = Move("pick")
      /\ Task[7] = Tool("closed") /\ Task[8] = Local /\ Task[9] = Move("pick_retreat")
  BY DEF Task
<1>3. /\ Task[10] = Move("pre_place") /\ Task[11] = Local /\ Task[12] = Local
      /\ Task[13] = Move("place") /\ Task[14] = Tool("open") /\ Task[15] = Entry("place")
      /\ Task[16] = Local /\ Task[17] = Move("place_retreat") /\ Task[18] = Local
  BY DEF Task
<1>4. /\ Local.does = "local"
      /\ \A x : /\ Move(x).does = "move" /\ Move(x).to = x
                /\ Tool(x).does = "tool" /\ Tool(x).to = x
                /\ Entry(x).does = "scene" /\ Entry(x).to = x
  BY DEF Local, Move, Tool, Entry
<1>5. ASSUME NEW k \in 1..18
      PROVE  /\ Task[k].does = "move"  <=> k \in {2, 6, 9, 10, 13, 17}
             /\ Task[k].does = "tool"  <=> k \in {7, 14}
             /\ Task[k].does = "scene" <=> k \in {4, 15}
             /\ Task[k].does = "local" <=> k \in {1, 3, 5, 8, 11, 12, 16, 18}
  <2>1. k \in {1, 2, 3, 4, 5, 6, 7, 8, 9} \/ k \in {10, 11, 12, 13, 14, 15, 16, 17, 18}
    OBVIOUS
  <2>2. CASE k \in {1, 2, 3, 4, 5, 6, 7, 8, 9}
    BY <2>2, <1>2, <1>4
  <2>3. CASE k \in {10, 11, 12, 13, 14, 15, 16, 17, 18}
    BY <2>3, <1>3, <1>4
  <2> QED  BY <2>1, <2>2, <2>3
<1> QED  BY <1>1, <1>2, <1>3, <1>4, <1>5

\* How the Sequence goes on after a child.
LEMMA AdvanceEffect ==
    ASSUME TypeOK, step # 0, NEW result, Advance(result)
    PROVE  /\ doing' = "none" /\ haunted' = haunted /\ run' = run
           /\ \/ step' = 0 /\ status' = result /\ (result = "FAILURE" \/ step = 18)
              \/ step < 18 /\ step' = step + 1 /\ status' = status /\ result # "FAILURE"
<1>1. Len(Task) = 18 /\ step \in 1..18
  BY Nodes DEF TypeOK
<1> QED  BY <1>1 DEF Advance

\* A child returns and nothing but the tree moves.
LEMMA AdvanceKeeps ==
    ASSUME IInv, step # 0, NEW result \in {"SUCCESS", "FAILURE"}, Advance(result),
           UNCHANGED <<worldVars, toolCalls, sceneVars>>,
           result = "SUCCESS" => Node.does = "local" \/ (doing = "calling" /\ Reply = "ok")
    PROVE  IInv'
<1>1. /\ TypeOK /\ TreeShape /\ LedgerShape /\ Calm /\ PartFollowed
      /\ SceneFollowed /\ Finished
  BY DEF IInv
<1>2. /\ UNCHANGED <<robot, tool, part, toolCalls, haunted, run>>
      /\ UNCHANGED <<pending, outcome, granted, declared, ledger, unsure>>
      /\ doing' = "none"
      /\ \/ step' = 0 /\ status' = result /\ (result = "FAILURE" \/ step = 18)
         \/ /\ step < 18 /\ step' = step + 1 /\ status' = status
            /\ result = "SUCCESS"
  BY <1>1, AdvanceEffect DEF worldVars, sceneVars, Advance
<1>3. step \in 1..18
  BY <1>1, Nodes DEF TypeOK
<1>4. /\ Node.does = "local" <=> step \in {1, 3, 5, 8, 11, 12, 16, 18}
      /\ Node.does = "tool" <=> step \in {7, 14}
      /\ Node.does = "scene" <=> step \in {4, 15}
      /\ Node.does = "move" <=> step \in {2, 6, 9, 10, 13, 17}
  BY <1>3, Nodes DEF Node
<1>5. /\ doing = "calling" => step \in {4, 7, 14, 15}
      /\ result = "SUCCESS" => step \notin {2, 6, 9, 10, 13, 17}
      /\ result = "SUCCESS" /\ step \in {7, 14} =>
           doing = "calling" /\ LastTool.outcome = "ok" /\ toolCalls # <<>>
      /\ result = "SUCCESS" /\ step \in {4, 15} =>
           doing = "calling" /\ LastEntry = "ok" /\ outcome # <<>>
  BY <1>1, <1>3, <1>4 DEF TreeShape, Reply, LastTool, LastEntry
<1>6. TypeOK'
  <2>1. step' \in 0..Len(Task) /\ status' \in {"RUNNING", "SUCCESS", "FAILURE"}
    BY <1>1, <1>2, <1>3, Nodes DEF TypeOK
  <2> QED  BY <1>1, <1>2, <2>1 DEF TypeOK
<1>7. TreeShape'
  BY <1>1, <1>2, <1>3, <1>5 DEF TreeShape
<1>8. LedgerShape'
  <2>1. step' >= 5 => ledger[Part] # "pick"
    <3>1. CASE step = 4 /\ step' = 5
      <4>1. outcome \in Seq({"pending", "ok", "failed"}) /\ outcome # <<>>
        BY <1>1, <1>2, <1>5, <3>1 DEF TypeOK
      <4>2. Len(outcome) \in 1..Len(outcome)
        BY <4>1
      <4> QED  BY <1>1, <1>2, <1>5, <3>1, <4>2 DEF LedgerShape, LastEntry
    <3> QED  BY <1>1, <1>2, <1>3, <3>1 DEF LedgerShape
  <2>2. declared
    BY <1>1 DEF TreeShape
  <2> QED  BY <1>1, <1>2, <2>1, <2>2 DEF LedgerShape
<1>9. Calm'
  <2>1. CASE step' = step + 1
    <3>1. "tool" \notin haunted => \A i \in 1..Len(toolCalls) : ~ToolPending(i)
      BY <1>1, <1>2, <1>3, <1>4, <1>5, <2>1 DEF Calm, ToolPending, LastTool
    <3>2. "scene" \notin haunted => pending = {}
      BY <1>1, <1>2, <1>3, <1>4, <1>5, <2>1 DEF Calm, LastEntry, LedgerShape
    <3> QED  BY <1>2, <3>1, <3>2 DEF Calm, ToolPending
  <2> QED  BY <1>2, <2>1 DEF Calm
<1>10. PartFollowed'
  BY <1>1, <1>2, <1>3, <1>5 DEF PartFollowed, ToolPending, LastTool
<1>11. SceneFollowed'
  BY <1>1, <1>2, <1>3, <1>5 DEF SceneFollowed, LastEntry, Removed, Placed
<1>12. Finished'
  BY <1>1, <1>2, <1>3, <1>4, <1>5
     DEF Finished, TreeShape, PartFollowed, SceneFollowed, Calm, ToolPending, Placed
<1> QED  BY <1>6, <1>7, <1>8, <1>9, <1>10, <1>11, <1>12 DEF IInv

LEMMA TickKeeps ==
    ASSUME IInv, TickLocal \/ ServiceMissing \/ TakeResponse \/ TimeOut
    PROVE  IInv'
<1>1. CASE TickLocal
  <2>1. step # 0 /\ Node.does = "local" /\ UNCHANGED <<worldVars, toolCalls, sceneVars>>
    BY <1>1 DEF TickLocal, Ticked
  <2>2. Advance("SUCCESS") \/ Advance("FAILURE")
    BY <1>1 DEF TickLocal
  <2>3. CASE Advance("SUCCESS")
    BY <2>1, <2>3, AdvanceKeeps
  <2>4. CASE Advance("FAILURE")
    BY <2>1, <2>4, AdvanceKeeps
  <2> QED  BY <2>2, <2>3, <2>4
<1>2. CASE ServiceMissing
  BY <1>2, AdvanceKeeps DEF ServiceMissing, Ticked
<1>3. CASE TakeResponse
  BY <1>3, AdvanceKeeps DEF TakeResponse
<1>4. CASE TimeOut
  BY <1>4, AdvanceKeeps DEF TimeOut
<1> QED  BY <1>1, <1>2, <1>3, <1>4

\* A new run counts the calls it finds as those of late servers.
LEMMA StartRunKeeps ==
    ASSUME IInv, StartRun
    PROVE  IInv'
<1>1. /\ TypeOK /\ TreeShape /\ LedgerShape /\ Calm /\ PartFollowed
      /\ SceneFollowed /\ Finished
  BY DEF IInv
<1>2. /\ UNCHANGED <<robot, tool, part, toolCalls, doing>>
      /\ UNCHANGED <<pending, outcome, granted, declared, ledger, unsure>>
      /\ step = 0 /\ step' = 1 /\ status' = "RUNNING" /\ declared
      /\ run < MaxRuns /\ run' = run + 1
      /\ haunted' = haunted \cup Outstanding
  BY DEF StartRun, worldVars, sceneVars
<1>3. TypeOK'
  <2>1. Outstanding \subseteq {"tool", "scene"}
    BY DEF Outstanding
  <2>2. step' \in 0..Len(Task) /\ run' \in 0..MaxRuns
    BY <1>1, <1>2, Nodes, TaskAssumption DEF TypeOK
  <2> QED  BY <1>1, <1>2, <2>1, <2>2 DEF TypeOK
<1>4. /\ "tool" \notin haunted' => \A i \in 1..Len(toolCalls) : ~ToolPending(i)
      /\ "scene" \notin haunted' => pending = {}
  BY <1>1, <1>2 DEF Outstanding, ToolPending, TypeOK
<1>5. TreeShape' /\ LedgerShape'
  BY <1>1, <1>2 DEF TreeShape, LedgerShape
<1>6. Calm'
  BY <1>2, <1>4 DEF Calm, ToolPending
<1>7. PartFollowed' /\ SceneFollowed' /\ Finished'
  BY <1>1, <1>2, <1>4 DEF PartFollowed, SceneFollowed, Finished, ToolPending
<1> QED  BY <1>3, <1>5, <1>6, <1>7 DEF IInv

\* A motion starts, goes on or is cut short: the tool and the scene are left alone.
LEMMA MotionKeeps ==
    ASSUME IInv, BeginMove \/ EndMove \/ RunDies
    PROVE  IInv'
<1>1. /\ TypeOK /\ TreeShape /\ LedgerShape /\ Calm /\ PartFollowed
      /\ SceneFollowed /\ Finished
  BY DEF IInv
<1>2. step \in 1..18
  BY <1>1, Nodes DEF BeginMove, EndMove, RunDies, Ticked, TypeOK
<1>3. /\ Node.does = "tool" <=> step \in {7, 14}
      /\ Node.does = "scene" <=> step \in {4, 15}
      /\ Node.does = "move" <=> step \in {2, 6, 9, 10, 13, 17}
      /\ step = 6 => Node.to = "pick"
      /\ step = 13 => Node.to = "place"
      /\ Node.does = "move" => Node.to \in Sites
  BY <1>2, Nodes DEF Node, Sites
<1>4. /\ UNCHANGED <<tool, part, toolCalls, haunted, run>>
      /\ UNCHANGED <<pending, outcome, granted, declared, ledger, unsure>>
  BY DEF BeginMove, EndMove, RunDies, Begin, Advance, worldVars, sceneVars
<1>5. \/ /\ Node.does = "move" /\ step' = step /\ doing' = "moving" /\ status' = status
         /\ doing = "none" /\ robot' = robot
      \/ /\ step' = 0 /\ doing' = "none" /\ status' = "FAILURE"
         /\ robot' \in {robot, "between", Node.to}
         /\ doing # "moving" => robot' = robot
      \/ /\ doing = "moving" /\ step < 18 /\ step' = step + 1 /\ status' = status
         /\ doing' = "none" /\ robot' = Node.to
  <2>1. CASE BeginMove
    BY <2>1 DEF BeginMove, Ticked, Begin, worldVars
  <2>2. CASE EndMove
    BY <2>2, <1>1, <1>2, <1>3, AdvanceEffect DEF EndMove, Ticked
  <2>3. CASE RunDies
    BY <2>3 DEF RunDies
  <2> QED  BY <2>1, <2>2, <2>3
<1>6. /\ doing = "moving" => Node.does = "move"
      /\ doing = "calling" => step \in {4, 7, 14, 15}
      /\ status # "SUCCESS"
  BY <1>1, <1>2, <1>3 DEF TreeShape
<1>7. robot' \in Sites
  BY <1>1, <1>3, <1>5, <1>6 DEF TypeOK, Sites
<1>8. doing = "moving" => /\ "tool" \notin haunted => \A i \in 1..Len(toolCalls) : ~ToolPending(i)
                          /\ "scene" \notin haunted => pending = {}
  BY <1>1, <1>2 DEF Calm
<1>9. TypeOK'
  <2>1. step' \in 0..Len(Task)
    <3>1. step' \in 0..18
      BY <1>2, <1>5
    <3> QED  BY <3>1, Nodes
  <2>2. /\ doing' \in {"none", "moving", "calling"}
        /\ status' \in {"RUNNING", "SUCCESS", "FAILURE"}
    BY <1>1, <1>5 DEF TypeOK
  <2> QED  BY <2>1, <2>2, <1>1, <1>4, <1>7 DEF TypeOK
<1>10. TreeShape'
  BY <1>1, <1>2, <1>3, <1>4, <1>5, <1>6 DEF TreeShape, Node
<1>11. LedgerShape'
  BY <1>1, <1>2, <1>3, <1>4, <1>5, <1>6 DEF LedgerShape
<1>12. Calm'
  BY <1>1, <1>2, <1>4, <1>5, <1>6, <1>8 DEF Calm, ToolPending
<1>13. PartFollowed'
  BY <1>1, <1>2, <1>3, <1>4, <1>5, <1>6, <1>8 DEF PartFollowed, ToolPending, LastTool
<1>14. SceneFollowed'
  BY <1>1, <1>2, <1>3, <1>4, <1>5, <1>6 DEF SceneFollowed, LastEntry, Removed, Placed
<1>15. Finished'
  BY <1>4, <1>5, <1>2, <1>6 DEF Finished
<1> QED  BY <1>9, <1>10, <1>11, <1>12, <1>13, <1>14, <1>15 DEF IInv

LEMMA SendToolKeeps ==
    ASSUME IInv, SendTool
    PROVE  IInv'
<1>1. /\ TypeOK /\ TreeShape /\ LedgerShape /\ Calm /\ PartFollowed
      /\ SceneFollowed /\ Finished
  BY DEF IInv
<1> DEFINE n == Len(toolCalls)
           call == [to |-> Node.to, outcome |-> "pending"]
<1>2. step \in {7, 14}
  <2>1. step \in 0..18 /\ step # 0 /\ Task[step].does = "tool"
    BY <1>1, Nodes DEF SendTool, Ticked, TypeOK, Node
  <2> QED  BY <2>1, Nodes
<1>3. /\ step = 7 => Node.to = "closed"
      /\ step = 14 => Node.to = "open"
      /\ Node.does = "tool"
  BY <1>2, Nodes DEF Node
<1>4. /\ UNCHANGED <<robot, tool, part, haunted, run, step, status>>
      /\ UNCHANGED <<pending, outcome, granted, declared, ledger, unsure>>
      /\ doing = "none" /\ doing' = "calling"
      /\ toolCalls' = Append(toolCalls, call)
  BY DEF SendTool, Begin, worldVars, sceneVars
<1>5. /\ toolCalls \in Seq([to : {"open", "closed"}, outcome : {"pending", "ok", "failed"}])
      /\ n \in Nat
      /\ call \in [to : {"open", "closed"}, outcome : {"pending", "ok", "failed"}]
  BY <1>1, <1>2, <1>3 DEF TypeOK
<1>6. /\ toolCalls' \in Seq([to : {"open", "closed"}, outcome : {"pending", "ok", "failed"}])
      /\ Len(toolCalls') = n + 1
      /\ toolCalls'[n + 1] = call
      /\ \A i \in 1..n : toolCalls'[i] = toolCalls[i]
      /\ toolCalls' # <<>>
  BY <1>4, <1>5
<1>7. LastTool' = call /\ Node' = Node
  BY <1>4, <1>6 DEF LastTool, Node
<1>8. TypeOK'
  BY <1>1, <1>4, <1>6 DEF TypeOK
<1>9. TreeShape'
  BY <1>1, <1>2, <1>3, <1>4, <1>6, <1>7 DEF TreeShape
<1>10. LedgerShape'
  BY <1>1, <1>2, <1>4, <1>6 DEF LedgerShape, TreeShape
<1>11. Calm'
  <2>1. "tool" \notin haunted => \A i \in 1..n : ~ToolPending(i)
    BY <1>1, <1>2, <1>4 DEF Calm
  <2>2. "scene" \notin haunted => pending = {}
    BY <1>1, <1>2, <1>4 DEF Calm
  <2> QED  BY <2>1, <2>2, <1>3, <1>4, <1>5, <1>6, <1>7 DEF Calm, ToolPending
<1>12. PartFollowed'
  <2>1. robot = Site(call.to)
    BY <1>1, <1>2, <1>3 DEF TreeShape, Site
  <2>2. "tool" \notin haunted =>
          \A i \in 1..(n + 1) : ToolPending(i)' => robot' = Site(toolCalls'[i].to)
    BY <2>1, <1>1, <1>4, <1>5, <1>6 DEF PartFollowed, ToolPending
  <2> QED  BY <2>2, <1>1, <1>2, <1>4, <1>6, <1>7 DEF PartFollowed
<1>13. SceneFollowed' /\ Finished'
  BY <1>1, <1>2, <1>4 DEF SceneFollowed, Finished, Removed, Placed
<1> QED  BY <1>8, <1>9, <1>10, <1>11, <1>12, <1>13 DEF IInv

LEMMA SendSceneKeeps ==
    ASSUME IInv, SendScene
    PROVE  IInv'
<1>1. /\ TypeOK /\ TreeShape /\ LedgerShape /\ Calm /\ PartFollowed
      /\ SceneFollowed /\ Finished
  BY DEF IInv
<1> DEFINE n == Len(outcome)
           request == [id |-> n + 1, obj |-> Part, pose |-> Node.to]
<1>2. step \in {4, 15}
  <2>1. step \in 0..18 /\ step # 0 /\ Task[step].does = "scene"
    BY <1>1, Nodes DEF SendScene, Ticked, TypeOK, Node
  <2> QED  BY <2>1, Nodes
<1>3. /\ step = 4 => Node.to = None
      /\ step = 15 => Node.to = "place"
      /\ Node.does = "scene"
  BY <1>2, Nodes DEF Node
<1>4. /\ UNCHANGED <<robot, tool, part, toolCalls, haunted, run, step, status>>
      /\ UNCHANGED <<granted, declared, ledger, unsure>>
      /\ doing = "none" /\ doing' = "calling"
      /\ n < 2 * MaxRuns
      /\ outcome' = Append(outcome, "pending")
      /\ pending' = pending \cup {request}
  BY DEF SendScene, Begin, worldVars, Scene!Receive
<1>5. /\ outcome \in Seq({"pending", "ok", "failed"})
      /\ n \in Nat /\ n + 1 \in 1..(2 * MaxRuns)
      /\ MaxRuns \in Nat
  BY <1>1, <1>4, TaskAssumption DEF TypeOK
<1>6. /\ outcome' \in Seq({"pending", "ok", "failed"})
      /\ Len(outcome') = n + 1
      /\ outcome'[n + 1] = "pending"
      /\ \A i \in 1..n : outcome'[i] = outcome[i]
      /\ outcome' # <<>>
  BY <1>4, <1>5
<1>7. LastEntry' = "pending" /\ Node' = Node
  BY <1>4, <1>6 DEF LastEntry, Node
<1>8. TypeOK'
  <2>1. request \in Scene!Request
    BY <1>2, <1>3, <1>5 DEF Scene!Request, Scene!Presence
  <2> QED  BY <2>1, <1>1, <1>4, <1>6 DEF TypeOK
<1>9. TreeShape'
  BY <1>1, <1>2, <1>3, <1>4, <1>6, <1>7 DEF TreeShape
<1>10. LedgerShape'
  <2>1. \A r \in pending : r.id \in 1..n
    BY <1>1 DEF LedgerShape
  <2> QED  BY <2>1, <1>1, <1>2, <1>3, <1>4, <1>5, <1>6 DEF LedgerShape, TreeShape
<1>11. Calm'
  <2>1. "tool" \notin haunted => \A i \in 1..Len(toolCalls) : ~ToolPending(i)
    BY <1>1, <1>2, <1>4 DEF Calm
  <2>2. "scene" \notin haunted => pending = {}
    BY <1>1, <1>2, <1>4 DEF Calm
  <2> QED  BY <2>1, <2>2, <1>3, <1>4, <1>6, <1>7 DEF Calm, ToolPending
<1>12. PartFollowed'
  <2>1. "tool" \notin haunted /\ step = 15 => part = "place"
    BY <1>1, <1>2 DEF PartFollowed
  <2> QED  BY <2>1, <1>1, <1>2, <1>3, <1>4, TaskAssumption DEF PartFollowed, ToolPending, LastTool
<1>13. SceneFollowed' /\ Finished'
  BY <1>1, <1>2, <1>4, <1>7 DEF SceneFollowed, Finished, Removed, Placed
<1> QED  BY <1>8, <1>9, <1>10, <1>11, <1>12, <1>13 DEF IInv

\* The tool acts on a call; on an earlier one only if it was late before.
LEMMA ToolActsKeeps ==
    ASSUME IInv, NEW i \in DOMAIN toolCalls, ToolActs(i)
    PROVE  IInv'
<1>1. /\ TypeOK /\ TreeShape /\ LedgerShape /\ Calm /\ PartFollowed
      /\ SceneFollowed /\ Finished
  BY DEF IInv
<1> DEFINE n == Len(toolCalls)
           Calls == [to : {"open", "closed"}, outcome : {"pending", "ok", "failed"}]
<1>2. /\ toolCalls \in Seq(Calls) /\ n \in Nat /\ i \in 1..n /\ toolCalls # <<>>
      /\ toolCalls[i] \in Calls /\ ToolPending(i)
  <2>1. toolCalls \in Seq(Calls)
    BY <1>1 DEF TypeOK
  <2>2. ToolPending(i)
    BY DEF ToolActs, ToolPending
  <2>3. n \in Nat /\ i \in 1..n
    BY <2>1
  <2>4. toolCalls[i] \in Calls
    BY <2>1, <2>3, ElementOfSeq
  <2>5. toolCalls # <<>>
    BY <2>3
  <2> QED  BY <2>1, <2>2, <2>3, <2>4, <2>5
<1>3. /\ UNCHANGED <<robot, haunted, run, step, status, doing>>
      /\ UNCHANGED <<pending, outcome, granted, declared, ledger, unsure>>
  BY DEF ToolActs, taskVars, sceneVars
<1>4. PICK reply \in {"ok", "failed"} :
        /\ toolCalls' = [toolCalls EXCEPT ![i].outcome = reply]
        /\ reply = "failed" => UNCHANGED <<tool, part>>
        /\ reply = "ok" =>
             /\ tool' = toolCalls[i].to
             /\ part' = CASE tool' = "closed" /\ part = robot -> "gripped"
                          [] tool' = "open" /\ part = "gripped" -> robot
                          [] OTHER -> part
  BY DEF ToolActs
<1>5. /\ toolCalls' \in Seq(Calls) /\ Len(toolCalls') = n
      /\ toolCalls'[i].to = toolCalls[i].to /\ toolCalls'[i].outcome = reply
      /\ \A j \in 1..n : j # i => toolCalls'[j] = toolCalls[j]
      /\ toolCalls' # <<>>
  BY <1>2, <1>4
<1>6. /\ tool' \in {"open", "closed"}
      /\ part' \in {part, robot, "gripped"}
      /\ part \in Sites \cup {"gripped"} /\ robot \in Sites /\ "gripped" \notin Sites
  BY <1>1, <1>2, <1>4 DEF TypeOK, Sites
<1>7. TypeOK'
  BY <1>1, <1>3, <1>5, <1>6 DEF TypeOK
<1>8. TreeShape'
  BY <1>1, <1>2, <1>3, <1>5 DEF TreeShape, LastTool, Node
<1>9. LedgerShape'
  BY <1>1, <1>2, <1>3, <1>5 DEF LedgerShape
<1>10. Calm'
  BY <1>1, <1>2, <1>3, <1>5 DEF Calm, ToolPending, Node
<1>11. ASSUME "tool" \notin haunted
       PROVE  /\ robot = Site(toolCalls[i].to)
              /\ part \in {"pick", "gripped", "place"}
              /\ part' \in {part} \cup IF reply = "failed" THEN {}
                                        ELSE IF toolCalls[i].to = "closed"
                                        THEN {"gripped"} ELSE {"place"}
              /\ reply = "ok" /\ toolCalls[i].to = "closed" => part' # "pick"
              /\ reply = "ok" /\ toolCalls[i].to = "closed" /\ part = "place" => part' = part
              /\ reply = "ok" /\ toolCalls[i].to = "open" /\ part # "pick" => part' = "place"
              /\ part # "pick" => part' # "pick"
              /\ part = "place" => part' = "place"
  BY <1>1, <1>2, <1>4, <1>6, <1>11 DEF PartFollowed, Site
<1>12. PartFollowed'
  <2> SUFFICES ASSUME "tool" \notin haunted
               PROVE  PartFollowed'
    BY <1>3 DEF PartFollowed
  <2>1. \A j \in 1..n : ToolPending(j)' => robot' = Site(toolCalls'[j].to)
    BY <1>1, <1>3, <1>4, <1>5 DEF PartFollowed, ToolPending
  <2>2. step # 0 => doing = "calling" /\ step \in {7, 14} /\ i = n
    <3>1. step # 0 => step \in 1..18 /\ doing = "calling" /\ Task[step].does = "tool" /\ i = n
      BY <1>1, <1>2, Nodes DEF Calm, Node, TypeOK
    <3> QED  BY <3>1, Nodes
  <2>3. /\ step = 7 => toolCalls[i].to = "closed"
        /\ step = 14 => toolCalls[i].to = "open" /\ part # "pick"
    BY <2>2, <1>1, Nodes DEF TreeShape, Node, LastTool, PartFollowed
  <2>4. /\ step = 7 /\ LastTool'.outcome = "ok" => part' # "pick"
        /\ step = 14 /\ LastTool'.outcome = "ok" => part' = "place"
    BY <2>2, <2>3, <1>2, <1>5, <1>11 DEF LastTool
  <2>5. ledger[Part] \in {None, part'}
    <3>1. ledger[Part] \in {None, part} /\ ledger[Part] \in {"pick", "place", None}
      BY <1>1 DEF PartFollowed, TypeOK
    <3>2. ledger[Part] # "pick"
      BY <1>1, <1>2 DEF LedgerShape
    <3> QED  BY <3>1, <3>2, <1>11
  <2>6. /\ step >= 8 => part' # "pick"
        /\ step >= 15 => part' = "place"
        /\ \A r \in pending : r.pose = "place" => part' = "place"
        /\ part' \in {"pick", "gripped", "place"}
    BY <1>1, <1>11 DEF PartFollowed
  <2> QED  BY <2>1, <2>4, <2>5, <2>6, <1>3, <1>5 DEF PartFollowed
<1>13. SceneFollowed'
  BY <1>1, <1>3 DEF SceneFollowed, LastEntry, Removed, Placed
<1>14. Finished'
  BY <1>1, <1>2, <1>3, <1>5 DEF Finished, ToolPending, Placed
<1> QED  BY <1>7, <1>8, <1>9, <1>10, <1>12, <1>13, <1>14 DEF IInv

\* What the scene does without an answer to a request.
LEMMA SceneQuietKeeps ==
    ASSUME IInv, UNCHANGED <<taskVars, worldVars, toolCalls, pending, outcome>>,
           granted' \subseteq 0..(2 * MaxRuns),
           \/ UNCHANGED <<declared, ledger, unsure>>
           \/ Scene!Declare({Part})
           \/ Scene!Confirm({Part})
    PROVE  IInv'
<1>1. /\ TypeOK /\ TreeShape /\ LedgerShape /\ Calm /\ PartFollowed
      /\ SceneFollowed /\ Finished
  BY DEF IInv
<1>2. /\ UNCHANGED <<robot, tool, part, toolCalls, haunted, run, step, status, doing>>
      /\ UNCHANGED <<pending, outcome>>
  BY DEF taskVars, worldVars
<1>3. \/ UNCHANGED <<declared, ledger>> /\ unsure' \subseteq unsure
      \/ /\ ~declared /\ declared' = TRUE /\ ledger' = [o \in {Part} |-> "pick"]
         /\ unsure' = {Part}
  BY <1>1 DEF Scene!Declare, Scene!Confirm, TypeOK
<1>4. ~declared => /\ step = 0 /\ part = "pick" /\ outcome = <<>> /\ toolCalls = <<>>
                   /\ pending = {} /\ status # "SUCCESS"
  BY <1>1 DEF TreeShape, LedgerShape
<1>5. TypeOK' /\ TreeShape' /\ Calm'
  BY <1>1, <1>2, <1>3, <1>4 DEF TypeOK, TreeShape, Calm, Node, LastTool, ToolPending
<1>6. LedgerShape' /\ PartFollowed'
  BY <1>1, <1>2, <1>3, <1>4 DEF LedgerShape, PartFollowed, ToolPending, LastTool
<1>7. SceneFollowed' /\ Finished'
  BY <1>1, <1>2, <1>3, <1>4 DEF SceneFollowed, Finished, LastEntry, Removed, Placed, ToolPending
<1> QED  BY <1>5, <1>6, <1>7 DEF IInv

\* The scene answers a request.
LEMMA SceneAnswersKeeps ==
    ASSUME IInv, UNCHANGED <<taskVars, worldVars, toolCalls>>,
           NEW r \in pending, Scene!Succeed(r) \/ Scene!Fail(r)
    PROVE  IInv'
<1>1. /\ TypeOK /\ TreeShape /\ LedgerShape /\ Calm /\ PartFollowed
      /\ SceneFollowed /\ Finished
  BY DEF IInv
<1> DEFINE n == Len(outcome)
           Outcomes == {"pending", "ok", "failed"}
<1>2. /\ UNCHANGED <<robot, tool, part, toolCalls, haunted, run, step, status, doing>>
  BY DEF taskVars, worldVars
<1>3. /\ outcome \in Seq(Outcomes) /\ n \in Nat
      /\ r.id \in 1..n /\ r.obj = Part /\ r.pose \in {None, "place"} /\ outcome[r.id] = "pending"
  BY <1>1 DEF TypeOK, LedgerShape, Scene!Request
<1>4. PICK reply \in {"ok", "failed"} :
        /\ outcome' = [outcome EXCEPT ![r.id] = reply]
        /\ pending' = pending \ {r}
        /\ declared' = declared
        /\ reply = "ok" => /\ ledger' = [ledger EXCEPT ![Part] = r.pose]
                           /\ unsure' = unsure \ {Part} /\ granted' \subseteq granted
        /\ reply = "failed" => /\ ledger' = ledger /\ granted' = granted
                               /\ unsure' \in {unsure, unsure \cup {Part}}
  BY <1>3 DEF Scene!Succeed, Scene!Fail, Scene!Answer
<1>5. /\ outcome' \in Seq(Outcomes) /\ Len(outcome') = n
      /\ outcome'[r.id] = reply /\ outcome' # <<>>
      /\ \A j \in 1..n : j # r.id => outcome'[j] = outcome[j]
  BY <1>3, <1>4
<1>6. /\ ledger \in [{Part} -> {"pick", "place", None}]
      /\ ledger' \in [{Part} -> {"pick", "place", None}]
      /\ ledger'[Part] = IF reply = "ok" THEN r.pose ELSE ledger[Part]
  BY <1>1, <1>3, <1>4 DEF TypeOK
<1>7. TypeOK'
  BY <1>1, <1>2, <1>4, <1>5, <1>6 DEF TypeOK
<1>8. TreeShape'
  BY <1>1, <1>2, <1>4, <1>5 DEF TreeShape, Node, LastTool
<1>9. LedgerShape'
  <2>1. \A s \in pending' : s \in pending /\ s.id # r.id
    BY <1>1, <1>4 DEF LedgerShape
  <2>2. \A s \in pending' : /\ s.id \in 1..n /\ outcome'[s.id] = "pending"
                            /\ s.pose \in {None, "place"}
    BY <2>1, <1>1, <1>5 DEF LedgerShape
  <2>3. reply = "ok" => ledger'[Part] # "pick"
    BY <1>3, <1>6, TaskAssumption
  <2>4. \A j \in 1..n : outcome'[j] = "ok" => ledger'[Part] # "pick"
    BY <2>3, <1>1, <1>3, <1>5, <1>6 DEF LedgerShape
  <2>5. declared
    BY <1>1, <1>3 DEF LedgerShape
  <2> QED  BY <2>1, <2>2, <2>3, <2>4, <2>5, <1>1, <1>2, <1>4, <1>5, <1>6 DEF LedgerShape
<1>10. Calm'
  BY <1>1, <1>2, <1>4, <1>5 DEF Calm, ToolPending, Node
<1>11. PartFollowed'
  <2>1. "tool" \notin haunted => ledger'[Part] \in {None, part}
    BY <1>1, <1>3, <1>6 DEF PartFollowed
  <2> QED  BY <2>1, <1>1, <1>2, <1>4 DEF PartFollowed, ToolPending, LastTool
<1>12. ASSUME "scene" \notin haunted
       PROVE  /\ step # 0 => step \in {4, 15} /\ r.id = n /\ doing = "calling"
              /\ step = 4 => r.pose = None
              /\ step = 15 => r.pose = "place"
              /\ step = 0 => status # "SUCCESS"
  <2>1. step # 0 => /\ doing = "calling" /\ Node.does = "scene"
                    /\ r.id = n /\ r.pose = Node.to
    BY <1>1, <1>12 DEF Calm
  <2>2. step # 0 => step \in 1..18
    BY <1>1, Nodes DEF TypeOK
  <2>3. step = 0 => status # "SUCCESS"
    BY <1>1, <1>12 DEF Finished
  <2> QED  BY <2>1, <2>2, <2>3, Nodes DEF Node
<1>13. SceneFollowed'
  <2> SUFFICES ASSUME "scene" \notin haunted
               PROVE  SceneFollowed'
    BY <1>2 DEF SceneFollowed
  <2>1. LastEntry' = "ok" /\ step # 0 => reply = "ok"
    BY <1>3, <1>5, <1>12 DEF LastEntry
  <2>2. reply = "ok" => ledger'[Part] = r.pose /\ Part \notin unsure'
    BY <1>4, <1>6
  <2>3. step \in 5..14 => FALSE
    BY <1>12
  <2>4. step >= 16 => FALSE
    BY <1>12
  <2> QED  BY <2>1, <2>2, <2>3, <2>4, <1>2, <1>12 DEF SceneFollowed, Removed, Placed
<1>14. Finished'
  BY <1>1, <1>2, <1>4, <1>12 DEF Finished, ToolPending, Placed
<1> QED  BY <1>7, <1>8, <1>9, <1>10, <1>11, <1>13, <1>14 DEF IInv

LEMMA SceneActsKeeps ==
    ASSUME IInv, SceneActs
    PROVE  IInv'
<1>1. TypeOK /\ UNCHANGED <<taskVars, worldVars, toolCalls>>
  BY DEF IInv, SceneActs
<1>2. ASSUME NEW r \in pending, Scene!Succeed(r) \/ Scene!Fail(r) PROVE IInv'
  BY <1>1, <1>2, SceneAnswersKeeps
<1>3. ASSUME NEW i \in {0} \cup {r.id : r \in pending}, Scene!Grant(i) PROVE IInv'
  <2>1. i \in 0..(2 * MaxRuns)
    BY <1>1, TaskAssumption DEF TypeOK, Scene!Request
  <2>2. granted' \subseteq 0..(2 * MaxRuns)
    BY <1>1, <1>3, <2>1 DEF TypeOK, Scene!Grant
  <2> QED  BY <1>1, <1>3, <2>2, SceneQuietKeeps DEF Scene!Grant
<1>4. ASSUME NEW i \in granted, Scene!Expire(i) PROVE IInv'
  <2>1. granted' \subseteq 0..(2 * MaxRuns)
    BY <1>1, <1>4 DEF TypeOK, Scene!Expire
  <2> QED  BY <1>1, <1>4, <2>1, SceneQuietKeeps DEF Scene!Expire
<1>5. CASE Scene!Declare({Part})
  <2>1. granted' \subseteq 0..(2 * MaxRuns) /\ UNCHANGED <<pending, outcome>>
    BY <1>1, <1>5 DEF TypeOK, Scene!Declare
  <2> QED  BY <1>1, <1>5, <2>1, SceneQuietKeeps
<1>6. CASE Scene!Confirm({Part})
  <2>1. granted' \subseteq 0..(2 * MaxRuns) /\ UNCHANGED <<pending, outcome>>
    BY <1>1, <1>6 DEF TypeOK, Scene!Confirm
  <2> QED  BY <1>1, <1>6, <2>1, SceneQuietKeeps
<1> QED  BY <1>2, <1>3, <1>4, <1>5, <1>6 DEF SceneActs

-----------------------------------------------------------------------------
LEMMA InitHolds == Init => IInv
<1> SUFFICES ASSUME Init
             PROVE  IInv
  OBVIOUS
<1>1. /\ robot = "between" /\ tool = "open" /\ part = "pick" /\ toolCalls = <<>>
      /\ run = 0 /\ step = 0 /\ doing = "none" /\ status = "RUNNING" /\ haunted = {}
      /\ pending = {} /\ outcome = <<>> /\ granted = {} /\ declared = FALSE
      /\ ledger = [o \in {Part} |-> None] /\ unsure = {Part}
  BY DEF Init, Scene!Init
<1>2. TypeOK
  <2>1. 0 \in 0..Len(Task) /\ 0 \in 0..MaxRuns
    BY Nodes, TaskAssumption
  <2>2. robot \in Sites /\ part \in Sites
    BY <1>1 DEF Sites
  <2>3. /\ toolCalls \in Seq([to : {"open", "closed"}, outcome : {"pending", "ok", "failed"}])
        /\ outcome \in Seq({"pending", "ok", "failed"})
    BY <1>1
  <2>4. /\ ledger \in [{Part} -> {"pick", "place", None}] /\ pending \subseteq Scene!Request
        /\ granted \subseteq 0..(2 * MaxRuns) /\ unsure \subseteq {Part}
    BY <1>1
  <2> QED  BY <1>1, <2>1, <2>2, <2>3, <2>4 DEF TypeOK
<1>3. TreeShape /\ LedgerShape /\ Calm
  BY <1>1, TaskAssumption DEF TreeShape, LedgerShape, Calm
<1>4. PartFollowed /\ SceneFollowed /\ Finished
  BY <1>1 DEF PartFollowed, SceneFollowed, Finished
<1> QED  BY <1>2, <1>3, <1>4 DEF IInv

LEMMA StepKeeps == IInv /\ [Next]_vars => IInv'
<1> SUFFICES ASSUME IInv, [Next]_vars
             PROVE  IInv'
  OBVIOUS
<1>1. CASE UNCHANGED vars
  <2>1. /\ UNCHANGED <<taskVars, worldVars, toolCalls>>
        /\ UNCHANGED <<pending, outcome, granted, declared, ledger, unsure>>
    BY <1>1 DEF vars, sceneVars
  <2>2. granted' \subseteq 0..(2 * MaxRuns)
    BY <2>1 DEF IInv, TypeOK
  <2> QED  BY <2>1, <2>2, SceneQuietKeeps
<1>2. CASE StartRun
  BY <1>2, StartRunKeeps
<1>3. CASE TickLocal \/ ServiceMissing \/ TakeResponse \/ TimeOut
  BY <1>3, TickKeeps
<1>4. CASE BeginMove \/ EndMove \/ RunDies
  BY <1>4, MotionKeeps
<1>5. CASE SendTool
  BY <1>5, SendToolKeeps
<1>6. CASE SendScene
  BY <1>6, SendSceneKeeps
<1>7. ASSUME NEW i \in DOMAIN toolCalls, ToolActs(i)
      PROVE  IInv'
  BY <1>7, ToolActsKeeps
<1>8. CASE SceneActs
  BY <1>8, SceneActsKeeps
<1> QED  BY <1>1, <1>2, <1>3, <1>4, <1>5, <1>6, <1>7, <1>8 DEF Next

LEMMA Inductive == Spec => []IInv
<1> QED  BY InitHolds, StepKeeps, PTL DEF Spec

\* Every variable of the task, the world and the servers keeps its type, for any
\* number of runs.
THEOREM TypeCorrect == Spec => []TypeOK
<1>1. IInv => TypeOK
  BY DEF IInv
<1> QED  BY <1>1, Inductive, PTL

\* While the robot moves no call of the same run is under way.
THEOREM MotionAlone == Spec => []MotionIsAlone
<1>1. IInv => MotionIsAlone
  <2> SUFFICES ASSUME IInv, doing = "moving"
               PROVE  Outstanding \subseteq haunted
    BY DEF MotionIsAlone
  <2>1. /\ step # 0 /\ Calm
        /\ toolCalls \in Seq([to : {"open", "closed"}, outcome : {"pending", "ok", "failed"}])
    BY DEF IInv, TreeShape, TypeOK
  <2> QED  BY <2>1 DEF Calm, Outstanding, ToolPending
<1> QED  BY <1>1, Inductive, PTL

\* From the descent to the release the scene is known not to hold the part.
THEOREM PartIgnored == Spec => []PartIgnoredWhileHandled
<1>1. IInv => PartIgnoredWhileHandled
  <2> SUFFICES ASSUME IInv, doing = "moving", "scene" \notin haunted,
                      Node.to \in {"pick", "pick_retreat", "pre_place", "place"}
               PROVE  Removed
    BY DEF PartIgnoredWhileHandled, Removed
  <2>1. step \in 1..18 /\ Task[step].does = "move" /\ SceneFollowed
    BY Nodes DEF IInv, TreeShape, TypeOK, Node
  <2>2. step \in {2, 6, 9, 10, 13, 17}
    BY <2>1, Nodes
  <2>3. step \in {6, 9, 10, 13}
    BY <2>2, Nodes DEF Node
  <2> QED  BY <2>1, <2>3 DEF SceneFollowed
<1> QED  BY <1>1, Inductive, PTL

\* The ledger never says that the part is where it is not, unless the tool has
\* acted a run late.
THEOREM SceneTruthful == Spec => []SceneNeverLies
<1>1. IInv => SceneNeverLies
  BY DEF IInv, PartFollowed, SceneNeverLies
<1> QED  BY <1>1, Inductive, PTL

\* A run that succeeds has placed the part, and the scene holds it there.
THEOREM SuccessPlaces == Spec => []SuccessMeansPlaced
<1>1. IInv => SuccessMeansPlaced
  BY DEF IInv, Finished, Placed, SuccessMeansPlaced
<1> QED  BY <1>1, Inductive, PTL

\* The tool closes at the pick and opens at the place, unless it acts a run late.
THEOREM ToolInPlace == Spec => ToolActsInPlace
<1>1. ASSUME IInv, [Next]_vars
      PROVE  [tool' # tool /\ "tool" \notin haunted =>
                robot = IF tool' = "closed" THEN "pick" ELSE "place"]_vars
  <2> SUFFICES ASSUME Next, tool' # tool, "tool" \notin haunted
               PROVE  robot = Site(tool')
    BY <1>1 DEF Site, vars, worldVars
  <2>1. PICK i \in DOMAIN toolCalls : ToolActs(i)
    BY DEF Next, StartRun, TickLocal, BeginMove, EndMove, SendTool, SendScene, ServiceMissing,
           TakeResponse, TimeOut, RunDies, SceneActs, worldVars
  <2>2. ToolPending(i) /\ tool' = toolCalls[i].to
    BY <2>1 DEF ToolActs, ToolPending
  <2>3. i \in 1..Len(toolCalls)
    BY <1>1 DEF IInv, TypeOK
  <2> QED  BY <1>1, <2>2, <2>3 DEF IInv, PartFollowed
<1> QED  BY <1>1, Inductive, PTL DEF Spec, ToolActsInPlace
-----------------------------------------------------------------------------
\* The requests that a run may have sent when it is at a node.
Sent ==
    (IF step > 4 \/ (step = 4 /\ doing = "calling") THEN 1 ELSE 0)
      + (IF step > 15 \/ (step = 15 /\ doing = "calling") THEN 1 ELSE 0)

RequestsCounted ==
    /\ step = 0 => Len(outcome) <= 2 * run
    /\ step # 0 => run > 0 /\ Len(outcome) <= 2 * (run - 1) + Sent

\* A child returns, a run ends or a node begins: what may have been sent stays counted.
LEMMA CountKept ==
    ASSUME IInv, RequestsCounted, Len(outcome') = Len(outcome), run' = run,
           \/ step' = step /\ (doing' = doing \/ doing = "none")
           \/ step' = 0
           \/ step # 0 /\ step' = step + 1
    PROVE  RequestsCounted'
<1>1. step \in Nat /\ run \in Nat /\ Len(outcome) \in Nat
  <2>1. step \in 0..18 /\ run \in 0..MaxRuns /\ MaxRuns \in Nat
    BY TaskAssumption, Nodes DEF IInv, TypeOK
  <2>2. outcome \in Seq({"pending", "ok", "failed"})
    BY DEF IInv, TypeOK
  <2> QED  BY <2>1, <2>2
<1>2. Sent \in 0..2 /\ Sent' \in 0..2
  BY <1>1 DEF Sent
<1>3. CASE step' = 0
  BY <1>1, <1>2, <1>3 DEF RequestsCounted
<1>4. CASE step' # 0
  <2>1. step # 0 /\ step' \in Nat /\ Sent <= Sent'
    BY <1>1, <1>4 DEF Sent, IInv, TreeShape
  <2> QED  BY <1>1, <1>2, <1>4, <2>1 DEF RequestsCounted
<1> QED  BY <1>3, <1>4

\* Two requests to the scene in each run: the bound on the ledger's requests never
\* keeps a node from sending one.
THEOREM RequestsFit ==
    Spec => [](Ticked("scene") /\ doing = "none" => Len(outcome) < 2 * MaxRuns)
<1>1. Init => RequestsCounted
  BY DEF Init, Scene!Init, RequestsCounted
<1>2. ASSUME IInv, RequestsCounted, [Next]_vars
      PROVE  RequestsCounted'
  <2>1. /\ step \in 0..18 /\ run \in Nat /\ Len(outcome) \in Nat
        /\ outcome \in Seq({"pending", "ok", "failed"})
    BY <1>2, TaskAssumption, Nodes DEF IInv, TypeOK
  <2>2. CASE StartRun
    <3>1. step = 0 /\ step' = 1 /\ run' = run + 1 /\ outcome' = outcome
      BY <2>2 DEF StartRun, sceneVars
    <3> QED  BY <1>2, <2>1, <3>1 DEF RequestsCounted, Sent
  <2>3. CASE SendScene
    <3>1. /\ step' = step /\ run' = run /\ doing = "none" /\ doing' = "calling"
          /\ step # 0 /\ Node.does = "scene" /\ outcome' = Append(outcome, "pending")
      BY <2>3 DEF SendScene, Ticked, Begin, Scene!Receive
    <3>2. step \in {4, 15}
      <4>1. step \in 1..18
        BY <2>1, <3>1
      <4> QED  BY <3>1, <4>1, Nodes DEF Node
    <3>3. Len(outcome') = Len(outcome) + 1
      BY <2>1, <3>1
    <3>4. Sent' = Sent + 1
      BY <3>1, <3>2 DEF Sent
    <3>5. Sent \in Int
      BY DEF Sent
    <3> QED  BY <1>2, <2>1, <3>1, <3>3, <3>4, <3>5 DEF RequestsCounted
  <2>4. CASE SceneActs
    <3>1. \/ outcome' = outcome
          \/ \E i, reply : outcome' = [outcome EXCEPT ![i] = reply]
      BY <2>4 DEF SceneActs, Scene!Succeed, Scene!Fail, Scene!Answer, Scene!Grant,
                  Scene!Expire, Scene!Declare, Scene!Confirm
    <3>2. Len(outcome') = Len(outcome)
      BY <2>1, <3>1
    <3>3. UNCHANGED <<run, step, doing>>
      BY <2>4 DEF SceneActs, taskVars
    <3> QED  BY <1>2, <3>2, <3>3, CountKept
  <2>5. CASE TickLocal \/ EndMove \/ ServiceMissing \/ TakeResponse \/ TimeOut
    <3>1. /\ outcome' = outcome /\ step # 0
          /\ \E result : Advance(result)
      BY <2>5 DEF TickLocal, EndMove, ServiceMissing, TakeResponse, TimeOut, Ticked, sceneVars
    <3>2. run' = run /\ (step' = 0 \/ step' = step + 1)
      BY <3>1 DEF Advance
    <3> QED  BY <1>2, <3>1, <3>2, CountKept
  <2>6. CASE BeginMove \/ SendTool
    <3>1. outcome' = outcome /\ run' = run /\ step' = step /\ doing = "none"
      BY <2>6 DEF BeginMove, SendTool, Begin, sceneVars
    <3> QED  BY <1>2, <3>1, CountKept
  <2>7. CASE RunDies \/ (\E i \in DOMAIN toolCalls : ToolActs(i)) \/ UNCHANGED vars
    <3>1. /\ outcome' = outcome /\ run' = run
          /\ step' = 0 \/ (step' = step /\ doing' = doing)
      BY <2>7 DEF RunDies, ToolActs, vars, taskVars, sceneVars
    <3> QED  BY <1>2, <3>1, CountKept
  <2> QED  BY <1>2, <2>2, <2>3, <2>4, <2>5, <2>6, <2>7 DEF Next
<1>3. ASSUME IInv, RequestsCounted, Ticked("scene"), doing = "none"
      PROVE  Len(outcome) < 2 * MaxRuns
  <2>1. step \in 1..18 /\ run \in 0..MaxRuns /\ Len(outcome) \in Nat /\ MaxRuns \in Nat
    BY <1>3, TaskAssumption, Nodes DEF IInv, TypeOK, Ticked
  <2>2. step \in {4, 15}
    BY <1>3, <2>1, Nodes DEF Ticked, Node
  <2>3. Sent \in 0..1
    BY <1>3, <2>2 DEF Sent
  <2>4. run > 0 /\ Len(outcome) <= 2 * (run - 1) + Sent
    BY <1>3, <2>1 DEF RequestsCounted
  <2> QED  BY <2>1, <2>3, <2>4
<1>4. IInv /\ RequestsCounted /\ [Next]_vars => RequestsCounted'
  BY <1>2
<1>5. IInv /\ RequestsCounted =>
        (Ticked("scene") /\ doing = "none" => Len(outcome) < 2 * MaxRuns)
  BY <1>3
<1> QED  BY <1>1, <1>4, <1>5, Inductive, PTL DEF Spec
=============================================================================
