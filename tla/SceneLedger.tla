----------------------------- MODULE SceneLedger -----------------------------
(***************************************************************************)
(* What scene_manager_node promises the clients of its two services: a     *)
(* ledger of the pose of each object.  A request is answered once, success *)
(* only after move_group has granted it, and only a success changes the    *)
(* ledger; the one other entry is the declaration of the initial scene.    *)
(* The threads, locks, queues, topics and sleeps of the node are absent.   *)
(***************************************************************************)
EXTENDS Naturals, Sequences

CONSTANTS
    Objects,      \* ids of collision objects
    Poses,
    None,         \* no pose: the object is absent
    InitPose,     \* the declared pose
    MaxRequests   \* bound: service requests in a behaviour

VARIABLES
    pending,      \* requests not answered
    outcome,      \* reply to each request, in order of arrival
    granted,      \* calls move_group has accepted, 0 for the initial scene
    declared,     \* the initial scene has been declared
    ledger,       \* last pose declared or acknowledged
    unsure        \* objects whose last change is not confirmed

vars == <<pending, outcome, granted, declared, ledger, unsure>>

Presence == Poses \cup {None}
Request  == [id : 1..MaxRequests, obj : Objects, pose : Presence]

Init ==
    /\ pending = {}
    /\ outcome = <<>>
    /\ granted = {}
    /\ declared = FALSE
    /\ ledger = [o \in Objects |-> None]
    /\ unsure = Objects

Receive(o, p) ==
    /\ Len(outcome) < MaxRequests
    /\ outcome' = Append(outcome, "pending")
    /\ pending' = pending \cup {[id |-> Len(outcome) + 1, obj |-> o, pose |-> p]}
    /\ UNCHANGED <<granted, declared, ledger, unsure>>

Grant(i) ==
    /\ granted' = granted \cup {i}
    /\ UNCHANGED <<pending, outcome, declared, ledger, unsure>>

\* The answer of move_group comes after the wait for it has ended.
Expire(i) ==
    /\ granted' = granted \ {i}
    /\ \A r \in pending : r.id # i
    /\ UNCHANGED <<pending, outcome, declared, ledger, unsure>>

Answer(r, result) ==
    /\ r \in pending
    /\ pending' = pending \ {r}
    /\ outcome' = [outcome EXCEPT ![r.id] = result]

Succeed(r) ==
    /\ r.id \in granted
    /\ Answer(r, "ok")
    /\ granted' = granted \ {r.id}
    /\ ledger' = [ledger EXCEPT ![r.obj] = r.pose]
    /\ unsure' = unsure \ {r.obj}
    /\ UNCHANGED declared

\* Refused by the node, or by move_group, or not granted in time.
Fail(r) ==
    /\ Answer(r, "failed")
    /\ unsure' \in {unsure, unsure \cup {r.obj}}
    /\ UNCHANGED <<granted, declared, ledger>>

Declare(built) ==
    /\ ~declared
    /\ declared' = TRUE
    /\ ledger' = [o \in Objects |-> IF o \in built THEN InitPose ELSE ledger[o]]
    /\ unsure' = unsure \cup built
    /\ UNCHANGED <<pending, outcome, granted>>

\* Confirms the whole declaration: no request is served in between.
Confirm(built) ==
    /\ 0 \in granted
    /\ granted' = granted \ {0}
    /\ unsure' = unsure \ built
    /\ \A o \in built : ledger[o] = InitPose
    /\ UNCHANGED <<pending, outcome, declared, ledger>>

Next ==
    \/ \E o \in Objects, p \in Presence : Receive(o, p)
    \/ \E i \in 0..MaxRequests : Grant(i) \/ Expire(i)
    \/ \E r \in pending : Succeed(r) \/ Fail(r)
    \/ \E built \in SUBSET Objects : Declare(built) \/ Confirm(built)

Spec == Init /\ [][Next]_vars
=============================================================================
