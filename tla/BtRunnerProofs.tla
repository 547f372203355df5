--------------------------- MODULE BtRunnerProofs ---------------------------
(***************************************************************************)
(* Proofs about BtRunner, for every set of parameters and every tree.      *)
(***************************************************************************)
EXTENDS BtRunner, MotionProfiles, TLAPS

-----------------------------------------------------------------------------
(***************************************************************************)
(* The inductive invariant.  Before the first tick nothing has been run;   *)
(* the parameters looked at are on the blackboard and stay there unless a  *)
(* node writes their key, and so do the objects of the framework; the      *)
(* poses of the nodes that succeeded are there;                            *)
(* while the tree is ticked every node so far has succeeded.               *)
(***************************************************************************)
BeforeSpawn == {"declare", "profiles", "backend", "clients", "parameters", "tree", "extras",
                "spawn"}
BeforeTicks == BeforeSpawn \cup {"settle"}
AfterLoad   == {"tree", "extras", "spawn", "settle", "tick"}
Loading     == AfterLoad \cup {"parameters"}

NothingTicked == stage \in BeforeTicks => results = <<>> /\ status = "RUNNING"

AllLoaded == stage \in AfterLoad => unloaded = {}

Unloaded == {"declare", "profiles", "backend", "clients"}

NothingLoaded == stage \in Unloaded => unloaded = Params

ParametersThere ==
    stage # "exited" =>
        \A p \in Params \ unloaded :
            p \notin Outs /\ "absent" \notin ParamType[p]
                => board[p] \in ParamType[p] \ {"other"}

ObjectsThere == stage \in Loading => \A k \in Framework : board[k] = "object"

PosesThere ==
    stage = "tick" =>
        \A i \in 1..Len(results) : Tree[i].out # None => board[Tree[i].out] = "pose"

AllSucceeded == stage = "tick" => \A i \in 1..Len(results) : results[i] = "SUCCESS"

StopsAtFailure ==
    \A i \in 1..Len(results) : results[i] = "FAILURE" => i = Len(results)

StatusTells ==
    stage \in {"cancel", "join"} =>
        /\ status = "SUCCESS" => /\ Len(results) = Len(Tree)
                                 /\ \A i \in 1..Len(results) : results[i] = "SUCCESS"
        /\ status # "SUCCESS" /\ results # <<>> => results[Len(results)] = "FAILURE"

SpinTells ==
    /\ stage \in BeforeSpawn => spin = "none"
    /\ NoThreadLeftBehind

IInv ==
    /\ TypeOK
    /\ NothingTicked
    /\ NothingLoaded
    /\ AllLoaded
    /\ ParametersThere
    /\ ObjectsThere
    /\ PosesThere
    /\ AllSucceeded
    /\ StatusTells
    /\ SpinTells
    /\ StopsAtFailure
    /\ ExitTellsOutcome

-----------------------------------------------------------------------------
LEMMA TreeNodes ==
    /\ Len(Tree) \in Nat \ {0}
    /\ DOMAIN Tree = 1..Len(Tree)
    /\ \A i \in 1..Len(Tree) : Tree[i] \in Node
  BY RunnerAssumption

LEMMA CurrentIsNode ==
    ASSUME TypeOK, Ticked
    PROVE  /\ Current \in Node
           /\ Len(results) + 1 \in 1..Len(Tree)
           /\ Current = Tree[Len(results) + 1]
           /\ Current.out # None <=> Current.class \in Writers
           /\ Current.out \in Outs
  BY TreeNodes, RunnerAssumption DEF TypeOK, Ticked, Current, Outs

LEMMA InitIInv == Init => IInv
  <1> SUFFICES ASSUME Init PROVE IInv
    OBVIOUS
  <1>1. results = <<>> /\ Len(results) = 0 /\ results \in Seq({"SUCCESS", "FAILURE"})
    BY DEF Init
  <1>2. TypeOK
    <2>1. Len(results) <= Len(Tree)
      BY <1>1, TreeNodes
    <2>2. board \in [Keys -> BoardValues]
      BY DEF Init, BoardValues
    <2> QED
      BY <1>1, <2>1, <2>2 DEF Init, TypeOK, Stages
  <1>3. NothingTicked /\ NothingLoaded /\ AllLoaded /\ ParametersThere /\ ObjectsThere /\ PosesThere /\ AllSucceeded
    BY <1>1 DEF Init, NothingTicked, NothingLoaded, AllLoaded, ParametersThere, ObjectsThere,
       PosesThere,
       AllSucceeded, AfterLoad, Loading, Unloaded
  <1>4. StatusTells /\ SpinTells /\ StopsAtFailure /\ ExitTellsOutcome
    BY <1>1 DEF Init, StatusTells, SpinTells, NoThreadLeftBehind, StopsAtFailure,
       ExitTellsOutcome
  <1> QED
    BY <1>2, <1>3, <1>4 DEF IInv

(***************************************************************************)
(* Start-up.                                                               *)
(***************************************************************************)
LEMMA StartUpPreserves ==
    ASSUME IInv, DeclareParameters \/ StartUp \/ AttachMonitors
    PROVE  IInv'
  <1> USE DEF IInv, TypeOK, NothingTicked, NothingLoaded, AllLoaded, ParametersThere,
     ObjectsThere, PosesThere, AllSucceeded, StatusTells, SpinTells, NoThreadLeftBehind,
     StopsAtFailure, ExitTellsOutcome, Stages, BeforeTicks, BeforeSpawn, AfterLoad, Loading,
       Unloaded
  <1>1. CASE DeclareParameters
    BY <1>1 DEF DeclareParameters, Crash, Exit
  <1>2. CASE StartUp
    BY <1>2 DEF StartUp, After, Exit
  <1>3. CASE AttachMonitors
    BY <1>3 DEF AttachMonitors
  <1> QED
    BY <1>1, <1>2, <1>3

LEMMA BuildClientsPreserves == ASSUME IInv, BuildClients PROVE IInv'
  <1>1. stage = "clients" /\ unloaded' = unloaded
    BY DEF BuildClients
  <1>2. CASE Crash /\ UNCHANGED board
    BY <1>2 DEF BuildClients, Crash, Exit, IInv, TypeOK, NothingTicked, NothingLoaded,
       AllLoaded, ParametersThere,
     ObjectsThere, PosesThere, AllSucceeded, StatusTells, SpinTells, NoThreadLeftBehind,
     StopsAtFailure, ExitTellsOutcome, Stages, BeforeTicks, BeforeSpawn, AfterLoad, Loading,
       Unloaded
  <1>3. CASE board' = [k \in Keys |-> IF k \in Framework THEN "object" ELSE "unset"]
             /\ stage' = "parameters" /\ UNCHANGED exit
    <2>1. board' \in [Keys -> BoardValues] /\ \A k \in Framework : board'[k] = "object"
      BY <1>3, RunnerAssumption DEF BoardValues
    <2>2. unloaded = Params
      BY <1>1 DEF IInv, NothingLoaded, Unloaded
    <2> QED
      BY <1>1, <1>3, <2>1, <2>2 DEF BuildClients, IInv, TypeOK, NothingTicked, NothingLoaded,
       AllLoaded, ParametersThere,
     ObjectsThere, PosesThere, AllSucceeded, StatusTells, SpinTells, NoThreadLeftBehind,
     StopsAtFailure, ExitTellsOutcome, Stages, BeforeTicks, BeforeSpawn, AfterLoad, Loading,
       Unloaded
  <1> QED
    BY <1>2, <1>3 DEF BuildClients

LEMMA LoadPreserves ==
    ASSUME IInv, NEW p \in Params, LoadTaskParameter(p)
    PROVE  IInv'
  <1>1. p \in Keys /\ ParamType[p] \subseteq ParamTypes
    BY RunnerAssumption
  <1>2. board \in [Keys -> BoardValues]
    BY DEF IInv, TypeOK
  <1>3. CASE stage' = "exited"
    BY <1>3 DEF LoadTaskParameter, Crash, Exit, IInv, TypeOK, NothingTicked, NothingLoaded,
       AllLoaded, ParametersThere,
     ObjectsThere, PosesThere, AllSucceeded, StatusTells, SpinTells, NoThreadLeftBehind,
     StopsAtFailure, ExitTellsOutcome, Stages, BeforeTicks, BeforeSpawn, AfterLoad, Loading,
       Unloaded
  <1>4. CASE stage' # "exited"
    <2>1. /\ stage = "parameters" /\ stage' = stage /\ exit' = exit
          /\ unloaded' = unloaded \ {p}
          /\ UNCHANGED <<spin, cancelled, rosOk, results, status>>
      BY <1>4 DEF LoadTaskParameter, Crash, Exit
    <2>2. PICK type \in ParamType[p] \ {"other"} :
             \/ type = "absent" /\ board' = board
             \/ p \notin Framework /\ type \in TextValues /\ board' = [board EXCEPT ![p] = type]
      BY <1>1, <1>4 DEF LoadTaskParameter, Crash, Exit, ParamTypes, TextValues
    <2>3. board' \in [Keys -> BoardValues]
      BY <1>2, <2>2 DEF BoardValues
    <2>4. TypeOK'
      BY <2>1, <2>3 DEF IInv, TypeOK
    <2>5. ParametersThere'
      <3> SUFFICES ASSUME NEW q \in Params \ unloaded', q \notin Outs,
       "absent" \notin ParamType[q]
                   PROVE  board'[q] \in ParamType[q] \ {"other"}
        BY DEF ParametersThere
      <3>1. q \in Keys
        BY RunnerAssumption
      <3>2. CASE q = p
        BY <1>1, <1>2, <2>2, <3>2
      <3>3. CASE q # p
        BY <1>1, <1>2, <2>1, <2>2, <3>1, <3>3 DEF IInv, ParametersThere
      <3> QED
        BY <3>2, <3>3
    <2>6. ObjectsThere'
      BY <1>1, <1>2, <2>1, <2>2, RunnerAssumption DEF IInv, ObjectsThere, Loading
    <2>7. /\ NothingTicked' /\ NothingLoaded' /\ AllLoaded' /\ PosesThere' /\ AllSucceeded'
          /\ StatusTells' /\ SpinTells' /\ StopsAtFailure' /\ ExitTellsOutcome'
      BY <2>1 DEF IInv, NothingTicked, NothingLoaded, AllLoaded, PosesThere, AllSucceeded,
         StatusTells, SpinTells, NoThreadLeftBehind, StopsAtFailure, ExitTellsOutcome,
         BeforeTicks, BeforeSpawn, AfterLoad, Unloaded
    <2> QED
      BY <2>4, <2>5, <2>6, <2>7 DEF IInv
  <1> QED
    BY <1>3, <1>4

LEMMA LoadedPreserves == ASSUME IInv, ParametersLoaded PROVE IInv'
  BY DEF ParametersLoaded, IInv, TypeOK, NothingTicked, NothingLoaded, AllLoaded,
       ParametersThere, ObjectsThere, PosesThere,
     AllSucceeded, StatusTells, SpinTells, NoThreadLeftBehind, StopsAtFailure, ExitTellsOutcome,
     Stages, BeforeTicks, BeforeSpawn, AfterLoad, Loading, Unloaded

LEMMA SpawnPreserves == ASSUME IInv, Spawn PROVE IInv'
  BY DEF Spawn, IInv, TypeOK, NothingTicked, NothingLoaded, AllLoaded, ParametersThere,
       ObjectsThere, PosesThere,
     AllSucceeded, StatusTells, SpinTells, NoThreadLeftBehind, StopsAtFailure, ExitTellsOutcome,
     Stages, BeforeTicks, BeforeSpawn, AfterLoad, Loading, Unloaded

LEMMA SettlePreserves == ASSUME IInv, Settle PROVE IInv'
  <1>1. results = <<>> /\ status = "RUNNING" /\ exit = "none"
    BY DEF Settle, IInv, NothingTicked, BeforeTicks, TypeOK
  <1>2. Len(results) < Len(Tree)
    BY <1>1, TreeNodes
  <1> QED
    BY <1>1, <1>2 DEF Settle, IInv, TypeOK, NothingTicked, NothingLoaded, AllLoaded,
       ParametersThere, ObjectsThere, PosesThere,
     AllSucceeded, StatusTells, SpinTells, NoThreadLeftBehind, StopsAtFailure, ExitTellsOutcome,
     Stages, BeforeTicks, BeforeSpawn, AfterLoad, Loading, Unloaded

(***************************************************************************)
(* The spinning thread, the end of main() and the interrupt.               *)
(***************************************************************************)
\* What no other thread and no signal can disturb.
LEMMA MainUntouched ==
    ASSUME IInv, UNCHANGED <<stage, unloaded, board, results, status, exit>>,
           TypeOK', SpinTells'
    PROVE  IInv'
  <1>1. NothingTicked' /\ NothingLoaded' /\ AllLoaded' /\ ParametersThere' /\ ObjectsThere'
    BY DEF IInv, NothingTicked, NothingLoaded, AllLoaded, ParametersThere, ObjectsThere
  <1>2. PosesThere' /\ AllSucceeded' /\ StatusTells' /\ StopsAtFailure' /\ ExitTellsOutcome'
    BY DEF IInv, PosesThere, AllSucceeded, StatusTells, StopsAtFailure, ExitTellsOutcome
  <1> QED
    BY <1>1, <1>2 DEF IInv

LEMMA OthersPreserve ==
    ASSUME IInv, SpinBegins \/ SpinEnds \/ Interrupt \/ UNCHANGED vars
    PROVE  IInv'
  <1>1. UNCHANGED <<stage, unloaded, board, results, status, exit>>
    BY DEF SpinBegins, SpinEnds, Interrupt, vars
  <1>2. TypeOK /\ SpinTells
    BY DEF IInv
  <1>3. /\ spin' \in {"none", "created", "spinning", "finished"}
        /\ cancelled' \in BOOLEAN /\ rosOk' \in BOOLEAN
    BY <1>2 DEF TypeOK, SpinBegins, SpinEnds, Interrupt, vars
  <1>4. TypeOK'
    BY <1>1, <1>2, <1>3 DEF TypeOK
  <1>5. SpinTells'
    <2>1. spin' # spin => spin # "none" /\ exit = "none"
      BY <1>2 DEF TypeOK, SpinBegins, SpinEnds, Interrupt, vars
    <2> QED
      BY <1>1, <1>2, <2>1 DEF SpinTells, NoThreadLeftBehind
  <1> QED
    BY <1>1, <1>4, <1>5, MainUntouched

LEMMA EndPreserves ==
    ASSUME IInv, Cancel \/ Join
    PROVE  IInv'
  <1>1. /\ UNCHANGED <<unloaded, board, spin, rosOk, results, status>>
        /\ \/ stage = "cancel" /\ stage' = "join" /\ exit' = exit /\ cancelled' = TRUE
           \/ /\ stage = "join" /\ stage' = "exited" /\ cancelled' = cancelled
              /\ exit' = IF status = "SUCCESS" THEN "0" ELSE "1"
              /\ spin = "finished"
    BY DEF Cancel, Join, Exit
  <1>2. TypeOK /\ StatusTells /\ SpinTells /\ StopsAtFailure /\ ParametersThere
    BY DEF IInv
  <1>3. TypeOK'
    BY <1>1, <1>2 DEF TypeOK, Stages
  <1>4. NothingTicked' /\ NothingLoaded' /\ AllLoaded' /\ ObjectsThere' /\ PosesThere' /\ AllSucceeded'
    BY <1>1 DEF NothingTicked, NothingLoaded, AllLoaded, ObjectsThere, PosesThere, AllSucceeded,
       BeforeTicks, BeforeSpawn, AfterLoad, Loading, Unloaded
  <1>5. ParametersThere' /\ StatusTells' /\ StopsAtFailure'
    BY <1>1, <1>2 DEF ParametersThere, StatusTells, StopsAtFailure
  <1>6. SpinTells'
    BY <1>1, <1>2 DEF SpinTells, NoThreadLeftBehind, BeforeSpawn
  <1>7. ExitTellsOutcome'
    BY <1>1, <1>2, TreeNodes DEF IInv, ExitTellsOutcome, StatusTells, TypeOK
  <1> QED
    BY <1>3, <1>4, <1>5, <1>6, <1>7 DEF IInv

(***************************************************************************)
(* A node is ticked.                                                       *)
(***************************************************************************)
LEMMA ThrowPreserves == ASSUME IInv, TickThrows PROVE IInv'
  BY DEF TickThrows, Ticked, Crash, Exit, IInv, TypeOK, NothingTicked, NothingLoaded,
       AllLoaded, ParametersThere,
     ObjectsThere, PosesThere, AllSucceeded, StatusTells, SpinTells, NoThreadLeftBehind,
       StopsAtFailure,
     ExitTellsOutcome, Stages, BeforeTicks, BeforeSpawn, AfterLoad, Loading, Unloaded

\* A node returns and the blackboard keeps its types, its parameters and its poses.
LEMMA AdvancePreserves ==
    ASSUME IInv, Ticked, NEW r \in {"SUCCESS", "FAILURE"}, Advance(r),
           UNCHANGED <<unloaded, spin, cancelled, rosOk, exit>>,
           board' \in [Keys -> BoardValues],
           \A k \in Keys : k \notin Outs => board'[k] = board[k],
           \A k \in Framework : board'[k] = board[k],
           \A k \in Keys : board[k] = "pose" => board'[k] = "pose",
           r = "SUCCESS" /\ Current.out # None => board'[Current.out] = "pose"
    PROVE  IInv'
  <1> DEFINE n == Len(results)
             m == Len(Tree)
  <1>1. results \in Seq({"SUCCESS", "FAILURE"}) /\ n \in Nat /\ m \in Nat /\ n < m
    BY TreeNodes DEF IInv, TypeOK, Ticked
  <1>2. /\ results' \in Seq({"SUCCESS", "FAILURE"})
        /\ Len(results') = n + 1
        /\ results'[n + 1] = r
        /\ \A i \in 1..n : results'[i] = results[i]
    BY <1>1 DEF Advance
  <1>3. results' # <<>>
    BY <1>1, <1>2
  <1>4. stage = "tick" /\ stage' \in {"tick", "cancel"} /\ exit = "none"
        /\ (stage' = "tick" => r = "SUCCESS" /\ n + 1 # m /\ status' = status)
        /\ (stage' = "cancel" => status' = r /\ (r = "FAILURE" \/ n + 1 = m))
    BY DEF Advance, Ticked, IInv, TypeOK
  <1>5. \A i \in 1..n : results[i] = "SUCCESS"
    BY <1>4 DEF IInv, AllSucceeded
  <1> HIDE DEF n, m
  <1>6. TypeOK'
    BY <1>1, <1>2, <1>4 DEF IInv, TypeOK, Stages, m
  <1>7. NothingTicked' /\ NothingLoaded' /\ AllLoaded' /\ SpinTells'
    BY <1>4 DEF IInv, NothingTicked, NothingLoaded, AllLoaded, SpinTells, NoThreadLeftBehind,
       BeforeTicks, BeforeSpawn, AfterLoad, Unloaded
  <1>8. ParametersThere' /\ ObjectsThere'
    BY <1>4, RunnerAssumption DEF IInv, ParametersThere, ObjectsThere, Loading, AfterLoad
  <1>9. PosesThere'
    <2> SUFFICES ASSUME stage' = "tick", NEW i \in 1..(n + 1), Tree[i].out # None
                 PROVE  board'[Tree[i].out] = "pose"
      BY <1>2 DEF PosesThere
    <2>1. CASE i \in 1..n
      <3>1. board[Tree[i].out] = "pose"
        BY <2>1, <1>4 DEF IInv, PosesThere, n
      <3>2. Tree[i].out \in Keys
        BY <1>1, <2>1, TreeNodes DEF Node, m
      <3> QED
        BY <3>1, <3>2
    <2>2. CASE i = n + 1
      BY <1>4, <2>2 DEF Current, n
    <2> QED
      BY <1>1, <2>1, <2>2
  <1>10. AllSucceeded'
    BY <1>1, <1>2, <1>4, <1>5 DEF AllSucceeded
  <1>11. StatusTells'
    BY <1>1, <1>2, <1>4, <1>5 DEF StatusTells, m
  <1>12. StopsAtFailure'
    BY <1>1, <1>2, <1>5 DEF StopsAtFailure
  <1>13. ExitTellsOutcome'
    BY <1>4 DEF ExitTellsOutcome
  <1> QED
    BY <1>6, <1>7, <1>8, <1>9, <1>10, <1>11, <1>12, <1>13 DEF IInv

LEMMA TickPreserves ==
    ASSUME IInv, TickFails \/ TickActs \/ TickIdles
    PROVE  IInv'
  <1>1. /\ Ticked /\ board' = board
        /\ UNCHANGED <<unloaded, spin, cancelled, rosOk, exit>>
    BY DEF TickFails, TickActs, TickIdles
  <1>2. board' \in [Keys -> BoardValues]
    BY <1>1 DEF IInv, TypeOK
  <1>3. CASE TickFails
    BY <1>1, <1>2, <1>3, AdvancePreserves DEF TickFails
  <1>4. Current.out # None <=> Current.class \in Writers
    BY <1>1, CurrentIsNode DEF IInv
  <1>5. CASE TickActs \/ TickIdles
    <2>1. Current.out = None
      BY <1>4, <1>5 DEF TickActs, TickIdles, RobotNodes, ServiceNodes, UtilityNodes, Writers,
         PoseNodes, VisionNodes
    <2>2. Advance("SUCCESS")
      BY <1>5 DEF TickActs, TickIdles
    <2> QED
      BY <1>1, <1>2, <2>1, <2>2, AdvancePreserves
  <1> QED
    BY <1>3, <1>5

LEMMA ComputePreserves == ASSUME IInv, TickComputes PROVE IInv'
  <1>1. /\ Ticked /\ Advance("SUCCESS") /\ Current.class \in Writers /\ ~Retypes(Current)
        /\ UNCHANGED <<unloaded, spin, cancelled, rosOk, exit>>
        /\ board' = [board EXCEPT ![Current.out] = "pose"]
    BY DEF TickComputes
  <1>2. Current.out \in Keys /\ Current.out \in Outs /\ Current.out \notin Framework
    BY <1>1, CurrentIsNode DEF IInv, Node, Retypes
  <1>3. board \in [Keys -> BoardValues] /\ "pose" \in BoardValues
    BY DEF IInv, TypeOK, BoardValues
  <1>4. /\ board' \in [Keys -> BoardValues]
        /\ board'[Current.out] = "pose"
        /\ \A k \in Keys : k \notin Outs => board'[k] = board[k]
        /\ \A k \in Framework : board'[k] = board[k]
        /\ \A k \in Keys : board[k] = "pose" => board'[k] = "pose"
    BY <1>1, <1>2, <1>3, RunnerAssumption
  <1> QED
    BY <1>1, <1>4, AdvancePreserves

THEOREM Invariant == Spec => []IInv
  <1>1. IInv /\ [Next]_vars => IInv'
    BY StartUpPreserves, BuildClientsPreserves, LoadPreserves, LoadedPreserves, SpawnPreserves,
       SettlePreserves, OthersPreserve, EndPreserves, ThrowPreserves, TickPreserves,
       ComputePreserves DEF Next
  <1> QED
    BY InitIInv, <1>1, PTL DEF Spec

-----------------------------------------------------------------------------
LEMMA WiredInputs ==
    ASSUME IInv, Ticked, WellWired(Len(results) + 1)
    PROVE  InputsReady(Current)
  <1> DEFINE n == Len(results) + 1
  <1>1. n \in 1..Len(Tree) /\ n \in DOMAIN Tree /\ Current = Tree[n] /\ stage = "tick"
    BY CurrentIsNode, TreeNodes DEF IInv, Ticked
  <1>2. /\ \A k \in Tree[n].text : Fits(Tree[n], k) /\ k \notin Outs
        /\ Tree[n].in # None => \E j \in 1..(n - 1) : Tree[j].out = Tree[n].in
    BY <1>1 DEF WellWired
  <1>3. n - 1 = Len(results) /\ Len(results) \in Nat
    BY DEF IInv, TypeOK
  <1> HIDE DEF n
  <1>4. ASSUME NEW k \in Tree[n].text
        PROVE  board[k] \in ParamType[k] /\ board[k] \in TextValues
    <2>1. k \in Params /\ k \notin Outs /\ "absent" \notin ParamType[k]
      BY <1>2, <1>4 DEF Fits
    <2>2. unloaded = {}
      BY <1>1 DEF IInv, AllLoaded, AfterLoad
    <2>3. board[k] \in ParamType[k] \ {"other"}
      BY <1>1, <2>1, <2>2 DEF IInv, ParametersThere
    <2> QED
      BY <2>1, <2>3, RunnerAssumption DEF ParamTypes, TextValues
  <1>5. ~PortUnresolved(Current)
    BY <1>1, <1>4 DEF PortUnresolved
  <1>6. ~PoseMissing(Current)
    <2> SUFFICES ASSUME Tree[n].in # None PROVE board[Tree[n].in] = "pose"
      BY <1>1 DEF PoseMissing
    <2>1. PICK j \in 1..(n - 1) : Tree[j].out = Tree[n].in
      BY <1>2
    <2>2. j \in 1..Len(results) /\ Tree[j].out # None
      BY <1>3, <2>1
    <2> QED
      BY <1>1, <2>1, <2>2 DEF IInv, PosesThere
  <1>7. Tree[n].numeric \subseteq Tree[n].text
    BY <1>1, RunnerAssumption
  <1>8. ~Unparsable(Current)
    BY <1>1, <1>2, <1>4, <1>7 DEF Unparsable, Fits
  <1> QED
    BY <1>5, <1>6, <1>8 DEF InputsReady

\* A tree that reads well runs well: no well-wired node ever lacks an input,
\* whatever fails and whenever the runner is interrupted.
THEOREM WiringSuffices == Spec => []InputsFound
  <1>1. IInv => InputsFound
    BY WiredInputs DEF InputsFound
  <1> QED
    BY Invariant, <1>1, PTL

\* The exit code tells the outcome of the tree.
THEOREM ExitCodeCorrect == Spec => []ExitTellsOutcome
  <1>1. IInv => ExitTellsOutcome
    BY DEF IInv
  <1> QED
    BY Invariant, <1>1, PTL

\* The nodes find the objects of the framework, whatever the parameters and the
\* tree are named.
THEOREM ObjectsKept == Spec => []FrameworkKept
  <1>1. IInv => FrameworkKept
    BY DEF IInv, ObjectsThere, Loading, AfterLoad, FrameworkKept
  <1> QED
    BY Invariant, <1>1, PTL

\* main() returns only when no thread uses the executor.
THEOREM ThreadJoined == Spec => []NoThreadLeftBehind
  <1>1. IInv => NoThreadLeftBehind
    BY DEF IInv, SpinTells
  <1> QED
    BY Invariant, <1>1, PTL

\* Every variable keeps its type, and a tick always finds a node that has not been ticked.
THEOREM TypeCorrect == Spec => []TypeOK
<1>1. IInv => TypeOK
  BY DEF IInv
<1> QED  BY <1>1, Invariant, PTL

-----------------------------------------------------------------------------
\* What a motion node gets for a profile name: the fields of that section, then of
\* the default section, then the built-in ones; of any file and any name.
THEOREM ProfilesResolve ==
    ASSUME NEW file, NEW name, NEW f \in Fields
    PROVE  GetProfile(LoadMotionProfiles(file), name)[f] = Setting(file, name, f)
<1> DEFINE registry == LoadMotionProfiles(file)
           base == ProfileFromNode(Section(file, "default"), BuiltIn)
<1>1. /\ DOMAIN registry = DOMAIN file \cup {"default"}
      /\ registry["default"] = base
      /\ \A n \in DOMAIN file : n # "default" => registry[n] = ProfileFromNode(file[n], base)
  BY DEF LoadMotionProfiles
<1>2. \A section, b : ProfileFromNode(section, b)[f] =
                        IF f \in DOMAIN section THEN section[f] ELSE b[f]
  BY DEF ProfileFromNode
<1>3. CASE name \in DOMAIN file /\ name # "default"
  BY <1>1, <1>2, <1>3 DEF GetProfile, Setting, Section
<1>4. CASE name = "default"
  BY <1>1, <1>2, <1>4 DEF GetProfile, Setting
<1>5. CASE name \notin DOMAIN file /\ name # "default"
  <2>1. GetProfile(registry, name) = base
    BY <1>1, <1>5 DEF GetProfile
  <2>2. DOMAIN Section(file, name) = {}
    BY <1>5 DEF Section
  <2> QED
    BY <1>2, <2>1, <2>2 DEF Setting
<1> QED
  BY <1>3, <1>4, <1>5
-----------------------------------------------------------------------------
\* While main() joins, the other thread has left the executor or is told to.
JoinReturns == stage = "join" => spin = "finished" \/ (spin = "spinning" /\ cancelled)

\* The thread has begun to spin before the first tick, and is cancelled after it.
SpinBeforeTick ==
    /\ stage = "settle" => spin # "none"
    /\ stage \in {"tick", "cancel", "join"} => spin \in {"spinning", "finished"}
    /\ stage = "join" => cancelled

\* The cancellation is never lost: join() waits for a thread that has finished or
\* whose guard for leaving the executor holds.
THEOREM CancelReaches == Spec => []JoinReturns
<1>1. Init => SpinBeforeTick
  BY DEF Init, SpinBeforeTick
<1>2. ASSUME IInv, SpinBeforeTick, [Next]_vars
      PROVE  SpinBeforeTick'
  <2>1. spin \in {"none", "created", "spinning", "finished"}
    BY <1>2 DEF IInv, TypeOK
  <2>2. CASE DeclareParameters \/ StartUp \/ BuildClients \/ AttachMonitors
    <3>1. stage' \notin {"settle", "tick", "cancel", "join"}
      BY <2>2 DEF DeclareParameters, StartUp, BuildClients, AttachMonitors, Crash, Exit, After
    <3> QED  BY <3>1 DEF SpinBeforeTick
  <2>3. CASE ParametersLoaded \/ \E p \in Params : LoadTaskParameter(p)
    <3>1. stage' \notin {"settle", "tick", "cancel", "join"}
      BY <2>3 DEF ParametersLoaded, LoadTaskParameter, Crash, Exit
    <3> QED  BY <3>1 DEF SpinBeforeTick
  <2>4. CASE Spawn
    BY <2>4 DEF Spawn, SpinBeforeTick
  <2>5. CASE SpinBegins
    <3>1. stage' = stage /\ spin = "created" /\ spin' = "spinning"
      BY <2>5 DEF SpinBegins
    <3>2. stage \notin {"tick", "cancel", "join"}
      BY <1>2, <3>1 DEF SpinBeforeTick
    <3> QED  BY <3>1, <3>2 DEF SpinBeforeTick
  <2>6. CASE SpinEnds
    BY <1>2, <2>6 DEF SpinEnds, SpinBeforeTick
  <2>7. CASE Settle
    <3>1. stage = "settle" /\ spin' = spin /\ spin # "created" /\ stage' \in {"tick", "cancel"}
      BY <2>7 DEF Settle
    <3>2. spin \in {"spinning", "finished"}
      BY <1>2, <2>1, <3>1 DEF SpinBeforeTick
    <3> QED  BY <3>1, <3>2 DEF SpinBeforeTick
  <2>8. CASE TickThrows \/ TickFails \/ TickActs \/ TickComputes \/ TickIdles
    <3>1. stage = "tick" /\ spin' = spin /\ stage' \in {"tick", "cancel", "exited"}
      BY <2>8 DEF TickThrows, TickFails, TickActs, TickComputes, TickIdles, Ticked, Advance,
                  Crash, Exit
    <3> QED  BY <1>2, <3>1 DEF SpinBeforeTick
  <2>9. CASE Cancel
    BY <1>2, <2>9 DEF Cancel, SpinBeforeTick
  <2>10. CASE Join
    BY <2>10 DEF Join, Exit, SpinBeforeTick
  <2>11. CASE Interrupt \/ UNCHANGED vars
    BY <1>2, <2>11 DEF Interrupt, vars, SpinBeforeTick
  <2> QED
    BY <1>2, <2>2, <2>3, <2>4, <2>5, <2>6, <2>7, <2>8, <2>9, <2>10, <2>11 DEF Next
<1>3. SpinBeforeTick => JoinReturns
  BY DEF SpinBeforeTick, JoinReturns
<1>4. IInv /\ SpinBeforeTick /\ [Next]_vars => SpinBeforeTick'
  BY <1>2
<1> QED  BY <1>1, <1>3, <1>4, Invariant, PTL DEF Spec

\* The stages in main()'s order.
Place ==
    [declare |-> 0, profiles |-> 1, backend |-> 2, clients |-> 3, parameters |-> 4, tree |-> 5,
     extras |-> 6, spawn |-> 7, settle |-> 8, tick |-> 9, cancel |-> 10, join |-> 11,
     exited |-> 12]

\* A later stage, one parameter less to load, or one node more that has been ticked.
Forward ==
    \/ Place[stage'] > Place[stage]
    \/ /\ stage' = stage /\ unloaded' = unloaded
       /\ Len(results') = Len(results) + 1 /\ Len(results') <= Len(Tree)
    \/ /\ stage' = stage /\ results' = results
       /\ unloaded' \subseteq unloaded /\ unloaded' # unloaded

\* main() never goes back: no node is ticked twice, no parameter is loaded twice, and
\* nothing the other thread or a signal does puts it back.
THEOREM MainGoesForward ==
    Spec => [][IF MainStep THEN Forward ELSE UNCHANGED <<stage, unloaded, results>>]_vars
<1>1. ASSUME IInv, Next
      PROVE  IF MainStep THEN Forward ELSE UNCHANGED <<stage, unloaded, results>>
  <2>1. /\ results \in Seq({"SUCCESS", "FAILURE"}) /\ Len(results) \in Nat
        /\ Len(Tree) \in Nat /\ unloaded \subseteq Params
    BY <1>1, TreeNodes DEF IInv, TypeOK
  <2>2. CASE DeclareParameters \/ StartUp \/ BuildClients \/ AttachMonitors
    BY <2>2 DEF DeclareParameters, StartUp, BuildClients, AttachMonitors, Crash, Exit, After,
                Forward, Place, MainStep
  <2>3. CASE \E p \in Params : LoadTaskParameter(p)
    <3>1. PICK p \in Params : LoadTaskParameter(p)
      BY <2>3
    <3>2. /\ stage = "parameters" /\ (stage' = stage \/ stage' = "exited")
          /\ p \in unloaded /\ unloaded' = unloaded \ {p} /\ results' = results
      BY <3>1 DEF LoadTaskParameter, Crash, Exit
    <3>3. unloaded' \subseteq unloaded /\ unloaded' # unloaded
      BY <3>2
    <3> QED  BY <2>3, <3>2, <3>3 DEF Forward, Place, MainStep
  <2>4. CASE ParametersLoaded \/ Spawn \/ Settle \/ Cancel \/ Join
    BY <2>4 DEF ParametersLoaded, Spawn, Settle, Cancel, Join, Exit, Forward, Place, MainStep
  <2>5. CASE TickThrows
    BY <2>5 DEF TickThrows, Ticked, Crash, Exit, Forward, Place, MainStep
  <2>6. CASE TickFails \/ TickActs \/ TickComputes \/ TickIdles
    <3>1. /\ stage = "tick" /\ Len(results) < Len(Tree) /\ unloaded' = unloaded
          /\ \E r \in {"SUCCESS", "FAILURE"} : Advance(r)
      BY <2>6 DEF TickFails, TickActs, TickComputes, TickIdles, Ticked
    <3>2. PICK r \in {"SUCCESS", "FAILURE"} : Advance(r)
      BY <3>1
    <3>3. results' = Append(results, r) /\ (stage' = stage \/ stage' = "cancel")
      BY <3>2 DEF Advance
    <3>4. Len(results') = Len(results) + 1 /\ Len(results') <= Len(Tree)
      BY <2>1, <3>1, <3>3
    <3> QED  BY <2>6, <3>1, <3>3, <3>4 DEF Forward, Place, MainStep
  <2>7. CASE SpinBegins \/ SpinEnds \/ Interrupt
    <3>1. UNCHANGED <<stage, unloaded, results>>
      BY <2>7 DEF SpinBegins, SpinEnds, Interrupt
    <3>2. ~MainStep \/ Forward
      BY <1>1, <2>2, <2>3, <2>4, <2>5, <2>6 DEF MainStep
    <3> QED  BY <3>1, <3>2
  <2> QED  BY <1>1, <2>2, <2>3, <2>4, <2>5, <2>6, <2>7 DEF Next
<1> DEFINE Goes == IF MainStep THEN Forward ELSE UNCHANGED <<stage, unloaded, results>>
<1>2. IInv /\ [Next]_vars => [Goes]_vars
  <2> SUFFICES ASSUME IInv, [Next]_vars PROVE [Goes]_vars
    OBVIOUS
  <2>1. CASE Next
    BY <1>1, <2>1
  <2> QED  BY <2>1
<1> HIDE DEF Goes
<1>3. Spec => [][Goes]_vars
  BY <1>2, Invariant, PTL DEF Spec
<1> QED  BY <1>3 DEF Goes
=============================================================================
