----------------------------- MODULE MCSceneLive -----------------------------
(***************************************************************************)
(* Liveness of SceneManager under two parameter files.  In the "tidy" one  *)
(* everything loads.  In the "faulty" one the cup has an unknown shape and *)
(* the list names the part twice, which ends the load before "ready".      *)
(***************************************************************************)
EXTENDS Naturals, Sequences

CONSTANTS t1, t2, part, cup, home, place, None, Keep

VARIABLES
    file,    \* the parameter file the node was started with
    queue, outcome, thread, initialLoaded, ready, specs, forced, applyQ,
    responses, topic, wipe, scene, interfered, promised, doubt, overrun

vars == <<file, queue, outcome, thread, initialLoaded, ready, specs, forced, applyQ,
          responses, topic, wipe, scene, interfered, promised, doubt, overrun>>

Threads == {t1, t2}

Tidy == INSTANCE SceneManager WITH
    Objects <- {part}, ObjectIds <- <<part>>, Kind <- [o \in {part} |-> "good"],
    Dynamic <- {part}, Poses <- {home, place}, InitPose <- home, TopicDepth <- 1,
    AcmLinks <- TRUE, SettleDrains <- TRUE, MaxRequests <- 2, MaxInterference <- 1

Faulty == INSTANCE SceneManager WITH
    Objects <- {cup, part}, ObjectIds <- <<cup, part, part>>,
    Kind <- [o \in {cup, part} |-> IF o = cup THEN "unbuildable" ELSE "good"],
    Dynamic <- {cup, part}, Poses <- {home, place}, InitPose <- home, TopicDepth <- 1,
    AcmLinks <- FALSE, SettleDrains <- TRUE, MaxRequests <- 1, MaxInterference <- 1

Started(inTidy, inFaulty) ==
    /\ \/ file = "tidy" /\ inTidy
       \/ file = "faulty" /\ inFaulty
    /\ UNCHANGED file

Init ==
    \/ file = "tidy" /\ Tidy!Init
    \/ file = "faulty" /\ Faulty!Init

Next == Started(Tidy!Next, Faulty!Next)

\* Fairness of SceneManager, under the file in use.
Fairness ==
    /\ \A t \in Threads : WF_vars(Started(Tidy!Step(t), Faulty!Step(t)))
    /\ SF_vars(Started(\E t \in Threads : Tidy!WipeScene(t),
                       \E t \in Threads : Faulty!WipeScene(t)))
    /\ SF_vars(Started(\E t \in Threads : Tidy!TakeForce(t),
                       \E t \in Threads : Faulty!TakeForce(t)))
    /\ \A op \in Tidy!Ops : SF_vars(Started(\E t \in Threads : Tidy!TakeRequest(t, op),
                                            \E t \in Threads : Faulty!TakeRequest(t, op)))
    /\ WF_vars(Started(\E t \in Threads : Tidy!DeliverResponse(t),
                       \E t \in Threads : Faulty!DeliverResponse(t)))
    /\ WF_vars(Started(Tidy!DeliverTopic, Faulty!DeliverTopic))
    /\ WF_vars(Started(Tidy!DeliverWipe, Faulty!DeliverWipe))

FairSpec == Init /\ [][Next]_vars /\ Fairness

\* Every request to a scene service is answered, under either file.
RequestsAnswered == Tidy!RequestsAnswered

\* While the part stays forced at a pose the scene ends up holding that pose for
\* good, under either file: also when the load was cut short.
ForcedConverges == Tidy!ForcedConverges
=============================================================================
