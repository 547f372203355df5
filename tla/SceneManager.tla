---------------------------- MODULE SceneManager ----------------------------
(***************************************************************************)
(* scene_manager_node: the node that owns the planning scene.              *)
(*                                                                         *)
(* A MultiThreadedExecutor runs the callbacks of one node: a one-shot      *)
(* timer that loads the initial scene, a periodic timer that republishes   *)
(* the dynamic objects, two services, and the response of the             *)
(* /apply_planning_scene client.  All but the last belong to the node's    *)
(* default callback group, and each of them blocks its executor thread     *)
(* while it waits for move_group.  move_group changes the scene on two     *)
(* unordered channels: the ApplyPlanningScene service (applyQ) and the     *)
(* planning_scene topic (topic).                                           *)
(*                                                                         *)
(* A collision object is abstracted to its id, the kind of its declaration *)
(* and its pose; geometry never changes after loading.                     *)
(***************************************************************************)
EXTENDS Naturals, Sequences, FiniteSets

CONSTANTS
    Threads,         \* executor threads
    Objects,         \* ids of collision objects
    ObjectIds,       \* the object_ids parameter, a sequence of ids
    Kind,            \* how each object is declared, see Kinds
    Dynamic,         \* the objects declared with dynamic: true
    Poses,
    InitPose,        \* the declared pose
    None,            \* no pose: the object is absent
    Keep,            \* a diff that does not mention the object
    TopicDepth,      \* history depth of the planning_scene publisher
    AcmLinks,        \* TRUE when attach_acm_links is not empty
    SettleDrains,    \* TRUE: a settle sleep outlasts the topic's latency
    MaxRequests,     \* bound: service requests in a behaviour
    MaxInterference  \* bound: writes of a stale scene source

\* "mistyped": declare_parameter or as_...() throws; "untyped": no type is
\* given; "unbuildable": type or shape is refused by buildCollisionObject.
Kinds == {"good", "untyped", "mistyped", "unbuildable"}

ASSUME SceneAssumption ==
    /\ ObjectIds \in Seq(Objects)
    /\ Kind \in [Objects -> Kinds]
    /\ Dynamic \subseteq Objects
    /\ InitPose \in Poses
    /\ None \notin Poses
    /\ Keep \notin Poses \cup {None}
    /\ TopicDepth \in Nat \ {0}
    /\ AcmLinks \in BOOLEAN
    /\ SettleDrains \in BOOLEAN
    /\ MaxRequests \in Nat
    /\ MaxInterference \in Nat

\* main() gives the executor two threads.
ASSUME TwoThreads == \E t, u \in Threads : t # u

VARIABLES
    queue,          \* requests waiting in each service
    outcome,        \* reply to each request, in order of arrival
    thread,         \* what each executor thread is doing
    initialLoaded,  \* initial_loaded_
    ready,          \* "scene_manager: ready." has been logged
    specs,          \* ids in specs_
    forced,         \* forced_: the pose to reassert, None when absent
    applyQ,         \* ApplyPlanningScene requests not yet handled
    responses,      \* their responses, not yet taken by the executor
    topic,          \* planning_scene messages not yet delivered
    wipe,           \* the removal of stale objects is in flight
    scene,          \* move_group's world
    interfered,     \* writes of a stale source so far
    promised,       \* history: last state declared or acknowledged
    doubt,          \* history: objects whose last change is not confirmed
    overrun         \* history: objects whose last message was pushed out

vars == <<queue, outcome, thread, initialLoaded, ready, specs, forced, applyQ,
          responses, topic, wipe, scene, interfered, promised, doubt, overrun>>

external == <<applyQ, responses, topic, wipe, scene, interfered>>
history  == <<promised, doubt, overrun>>

-----------------------------------------------------------------------------
Presence == Poses \cup {None}
Diff     == [Objects -> Presence \cup {Keep}]
Message  == [world : Diff, acm : BOOLEAN]
Ops      == {"remove", "setPose"}
Request  == [id : 1..MaxRequests, obj : Objects, pose : Presence]
Declared == {ObjectIds[i] : i \in DOMAIN ObjectIds}

\* The message that says v about o and nothing about the others.
Only(o, v) == [x \in Objects |-> IF x = o THEN v ELSE Keep]

Overlay(world, diff) ==
    [o \in Objects |-> IF diff[o] = Keep THEN world[o] ELSE diff[o]]

Mentions(m) == {o \in Objects : m.world[o] # Keep}

\* KEEP_LAST history: a full queue loses its oldest message.
\* (mutant PushedUnbounded: the queue keeps everything)
PushedUnbounded(q, m) == Append(q, m)

Pushed(q, m) ==
    IF Len(q) < TopicDepth THEN Append(q, m) ELSE Append(Tail(q), m)

Publish(m) ==
    LET kept == UNION {Mentions(Pushed(topic, m)[i]) : i \in 1..Len(Pushed(topic, m))}
        lost == (UNION {Mentions(topic[i]) : i \in 1..Len(topic)}) \ kept
    IN  /\ topic' = Pushed(topic, m)
        /\ overrun' = (overrun \ kept) \cup lost

(***************************************************************************)
(* loadObjectSpec and buildCollisionObject.  Declaring a parameter twice   *)
(* or with another type throws, which ends the loop over the ids: only     *)
(* the ids before it are loaded.                                           *)
(***************************************************************************)
Throws(i) ==
    \/ Kind[ObjectIds[i]] = "mistyped"
    \/ \E j \in 1..(i - 1) : ObjectIds[j] = ObjectIds[i]

LoadThrows == \E i \in DOMAIN ObjectIds : Throws(i)

Reached == {ObjectIds[i] : i \in {k \in DOMAIN ObjectIds :
                                    \A j \in 1..k : ~Throws(j)}}
Loaded  == {o \in Reached : Kind[o] # "untyped"}
Built   == {o \in Reached : Kind[o] = "good"}

InitialDiff == [o \in Objects |-> IF o \in Built THEN InitPose ELSE Keep]

-----------------------------------------------------------------------------
(***************************************************************************)
(* The executor.  A thread is idle, has taken a callback, waits in         *)
(* applyDiffMany, or is in the last part of the initial load ("applied",   *)
(* then "acm").                                                            *)
(***************************************************************************)
Idle == [at |-> "idle", cb |-> "none", req |-> None, reply |-> "none"]

Taken(cb, req) == [at |-> "taken", cb |-> cb, req |-> req, reply |-> "none"]

Busy(t) == thread[t].at # "idle"

\* (mutant GroupShared: the client is created without its own group)
GroupShared(cb) == "default"

\* Only apply_client_ is created with client_cb_group_; every other callback
\* is in the node's default group.
Group(cb) == IF cb = "response" THEN "client_cb_group_" ELSE "default"

\* (mutant ReentrantDefault: the default group is made Reentrant too)
ReentrantDefault == {"client_cb_group_", "default"}

Reentrant == {"client_cb_group_"}

CanTake(t, cb) ==
    /\ ~Busy(t)
    /\ \/ Group(cb) \in Reentrant
       \/ \A u \in Threads : Busy(u) => Group(thread[u].cb) # Group(cb)

\* The services and the republisher lock scene_mutex_ for their whole body.
Locks(t) == thread[t].cb # "init"

MutexFree(t) ==
    \A u \in Threads \ {t} : ~(thread[u].at = "applying" /\ Locks(u))

\* The call a thread waits for: 0 for the initial scene.
CallOf(t) == IF thread[t].cb = "init" THEN 0 ELSE thread[t].req.id

\* A settle sleep ends; under SettleDrains nothing is left in flight then.
Settled == SettleDrains => (topic = <<>> /\ ~wipe)

Init ==
    /\ queue = [op \in Ops |-> <<>>]
    /\ outcome = <<>>
    /\ thread = [t \in Threads |-> Idle]
    /\ initialLoaded = FALSE
    /\ ready = FALSE
    /\ specs = {}
    /\ forced = [o \in Objects |-> None]
    /\ applyQ = <<>>
    /\ responses = {}
    /\ topic = <<>>
    /\ wipe = FALSE
    /\ scene \in [Objects -> Presence]
    /\ interfered = 0
    /\ promised = [o \in Objects |-> None]
    /\ doubt = Objects
    /\ overrun = {}

-----------------------------------------------------------------------------
(***************************************************************************)
(* Requests arrive and callbacks are taken.                                *)
(***************************************************************************)
Arrive(op, o, p) ==
    /\ Len(outcome) < MaxRequests
    /\ (op = "remove") <=> (p = None)
    /\ outcome' = Append(outcome, "pending")
    /\ queue' = [queue EXCEPT ![op] =
                   Append(@, [id |-> Len(outcome) + 1, obj |-> o, pose |-> p])]
    /\ UNCHANGED <<thread, initialLoaded, ready, specs, forced>>
    /\ UNCHANGED <<external, history>>

TakeRequest(t, op) ==
    /\ CanTake(t, op)
    /\ queue[op] # <<>>
    /\ thread' = [thread EXCEPT ![t] = Taken(op, Head(queue[op]))]
    /\ queue' = [queue EXCEPT ![op] = Tail(@)]
    /\ UNCHANGED <<outcome, initialLoaded, ready, specs, forced>>
    /\ UNCHANGED <<external, history>>

TakeForce(t) ==
    /\ CanTake(t, "force")
    /\ thread' = [thread EXCEPT ![t] = Taken("force", None)]
    /\ UNCHANGED <<queue, outcome, initialLoaded, ready, specs, forced>>
    /\ UNCHANGED <<external, history>>

(***************************************************************************)
(* loadInitialScene, without scene_mutex_: cancel the timer and publish    *)
(* the removal of stale objects, then (after a sleep) fill specs_ and      *)
(* forced_ and apply, then publish the ACM and log "ready".                *)
(***************************************************************************)
WipeScene(t) ==
    /\ CanTake(t, "init")
    /\ ~initialLoaded
    /\ initialLoaded' = TRUE
    /\ wipe' = (ObjectIds # <<>>)
    /\ thread' = [thread EXCEPT ![t] = Taken("init", None)]
    /\ UNCHANGED <<queue, outcome, ready, specs, forced, applyQ, responses,
                   topic, scene, interfered, history>>

SendApply(t, diff) ==
    /\ applyQ' = Append(applyQ, [id |-> CallOf(t), diff |-> diff])
    /\ thread' = [thread EXCEPT ![t].at = "applying", ![t].reply = "pending"]

LoadInitialScene(t) ==
    /\ thread[t].at = "taken" /\ thread[t].cb = "init"
    /\ Settled
    /\ specs' = specs \cup Loaded
    /\ forced' = [o \in Objects |->
                    IF o \in Built \cap Dynamic THEN InitPose ELSE forced[o]]
    /\ promised' = [o \in Objects |->
                      IF o \in Built THEN InitPose ELSE promised[o]]
    /\ doubt' = doubt \cup Built
    /\ \/ /\ LoadThrows
          /\ thread' = [thread EXCEPT ![t] = Idle]
          /\ UNCHANGED applyQ
       \/ /\ ~LoadThrows    \* nothing to apply, or the service is unavailable
          /\ thread' = [thread EXCEPT ![t].at = "applied"]
          /\ UNCHANGED applyQ
       \/ /\ ~LoadThrows
          /\ Built # {}
          /\ SendApply(t, InitialDiff)
    /\ UNCHANGED <<queue, outcome, initialLoaded, ready, responses, topic, wipe,
                   scene, interfered, overrun>>

\* The result of the initial applyDiffMany is ignored.
InitialApplyReturns(t) ==
    /\ thread[t].at = "applying" /\ thread[t].cb = "init"
    /\ thread[t].reply = "ok" => Settled
    /\ thread' = [thread EXCEPT ![t].at = "applied"]
    /\ doubt' = IF thread[t].reply = "ok" THEN doubt \ Built ELSE doubt
    /\ UNCHANGED <<queue, outcome, initialLoaded, ready, specs, forced, external,
                   promised, overrun>>

PublishAcm(t) ==
    /\ thread[t].at = "applied"
    /\ AcmLinks
    /\ Publish([world |-> [o \in Objects |-> Keep], acm |-> TRUE])
    /\ thread' = [thread EXCEPT ![t].at = "acm"]
    /\ UNCHANGED <<queue, outcome, initialLoaded, ready, specs, forced, applyQ,
                   responses, wipe, scene, interfered, promised, doubt>>

\* (mutant FinishLoadNow: no sleep after publishing the ACM)
FinishLoadNow(t) ==
    /\ thread[t].at = IF AcmLinks THEN "acm" ELSE "applied"
    /\ ready' = TRUE
    /\ thread' = [thread EXCEPT ![t] = Idle]
    /\ UNCHANGED <<queue, outcome, initialLoaded, specs, forced>>
    /\ UNCHANGED <<external, history>>

FinishLoad(t) ==
    /\ \/ thread[t].at = "applied" /\ ~AcmLinks
       \/ thread[t].at = "acm" /\ Settled
    /\ ready' = TRUE
    /\ thread' = [thread EXCEPT ![t] = Idle]
    /\ UNCHANGED <<queue, outcome, initialLoaded, specs, forced>>
    /\ UNCHANGED <<external, history>>

(***************************************************************************)
(* reassertDynamic: publish every forced object.                           *)
(***************************************************************************)
\* (mutant ReassertDeclared: the declared pose is republished, not the last one)
ReassertDeclared(t) ==
    /\ thread[t].at = "taken" /\ thread[t].cb = "force"
    /\ MutexFree(t)
    /\ thread' = [thread EXCEPT ![t] = Idle]
    /\ IF \A o \in Objects : forced[o] = None
       THEN UNCHANGED <<topic, overrun>>
       ELSE Publish([world |-> [o \in Objects |-> IF forced[o] = None THEN Keep
                                                  ELSE InitPose],
                     acm |-> FALSE])
    /\ UNCHANGED <<queue, outcome, initialLoaded, ready, specs, forced, applyQ,
                   responses, wipe, scene, interfered, promised, doubt>>

\* (mutant ReassertWhenReady: nothing is republished before "ready")
ReassertWhenReady(t) ==
    /\ thread[t].at = "taken" /\ thread[t].cb = "force"
    /\ MutexFree(t)
    /\ thread' = [thread EXCEPT ![t] = Idle]
    /\ IF ~ready \/ \A o \in Objects : forced[o] = None
       THEN UNCHANGED <<topic, overrun>>
       ELSE Publish([world |-> [o \in Objects |-> IF forced[o] = None THEN Keep
                                                  ELSE forced[o]],
                     acm |-> FALSE])
    /\ UNCHANGED <<queue, outcome, initialLoaded, ready, specs, forced, applyQ,
                   responses, wipe, scene, interfered, promised, doubt>>

ReassertDynamic(t) ==
    /\ thread[t].at = "taken" /\ thread[t].cb = "force"
    /\ MutexFree(t)
    /\ thread' = [thread EXCEPT ![t] = Idle]
    /\ IF \A o \in Objects : forced[o] = None
       THEN UNCHANGED <<topic, overrun>>
       ELSE Publish([world |-> [o \in Objects |-> IF forced[o] = None THEN Keep
                                                  ELSE forced[o]],
                     acm |-> FALSE])
    /\ UNCHANGED <<queue, outcome, initialLoaded, ready, specs, forced, applyQ,
                   responses, wipe, scene, interfered, promised, doubt>>

-----------------------------------------------------------------------------
(***************************************************************************)
(* handleRemove and handleSetPose, up to the wait in applyDiffMany.        *)
(***************************************************************************)
Reply(t, result) ==
    /\ thread' = [thread EXCEPT ![t] = Idle]
    /\ outcome' = [outcome EXCEPT ![thread[t].req.id] = result]

\* (mutant HandleRemoveKeepsForced: forced_.erase is forgotten)
HandleRemoveKeepsForced(t) ==
    LET o == thread[t].req.obj
    IN  /\ thread[t].at = "taken" /\ thread[t].cb = "remove"
        /\ MutexFree(t)
        /\ \/ SendApply(t, Only(o, None)) /\ UNCHANGED outcome
           \/ Reply(t, "failed") /\ UNCHANGED applyQ
        /\ UNCHANGED <<queue, initialLoaded, ready, specs, forced, responses, topic,
                       wipe, scene, interfered, history>>

\* handleRemove forgets the object before the scene is known to have changed.
HandleRemove(t) ==
    LET o == thread[t].req.obj
    IN  /\ thread[t].at = "taken" /\ thread[t].cb = "remove"
        /\ MutexFree(t)
        /\ forced' = [forced EXCEPT ![o] = None]
        /\ \/ SendApply(t, Only(o, None)) /\ UNCHANGED outcome
           \/ Reply(t, "failed") /\ UNCHANGED applyQ   \* service unavailable
        /\ UNCHANGED <<queue, initialLoaded, ready, specs, responses, topic, wipe,
                       scene, interfered, history>>

\* An unknown object, one that cannot be built and an unavailable service are
\* answered at once.
HandleSetPose(t) ==
    LET o == thread[t].req.obj
    IN  /\ thread[t].at = "taken" /\ thread[t].cb = "setPose"
        /\ MutexFree(t)
        /\ \/ /\ o \in specs
              /\ Kind[o] = "good"
              /\ SendApply(t, Only(o, thread[t].req.pose))
              /\ UNCHANGED outcome
           \/ Reply(t, "failed") /\ UNCHANGED applyQ
        /\ UNCHANGED <<queue, initialLoaded, ready, specs, forced, responses, topic,
                       wipe, scene, interfered, history>>

(***************************************************************************)
(* The rest of the two handlers, after applyDiffMany returns: a timeout or *)
(* a refusal is answered as a failure; on success and after the settle     *)
(* sleep, the diff is also published and forced_ follows the new pose.     *)
(***************************************************************************)
\* (mutant RequestFailsOnRefusal: the wait has no timeout)
RequestFailsOnRefusal(t) ==
    /\ thread[t].at = "applying" /\ thread[t].cb \in Ops
    /\ thread[t].reply = "failed"
    /\ Reply(t, "failed")
    /\ doubt' = doubt \cup {thread[t].req.obj}
    /\ UNCHANGED <<queue, initialLoaded, ready, specs, forced, external, promised,
                   overrun>>

RequestFails(t) ==
    /\ thread[t].at = "applying" /\ thread[t].cb \in Ops
    /\ thread[t].reply # "ok"
    /\ Reply(t, "failed")
    /\ doubt' = doubt \cup {thread[t].req.obj}
    /\ UNCHANGED <<queue, initialLoaded, ready, specs, forced, external, promised,
                   overrun>>

\* (mutant RequestSucceedsSilently: the diff is not published on the topic)
RequestSucceedsSilently(t) ==
    LET o == thread[t].req.obj
        p == thread[t].req.pose
    IN  /\ thread[t].at = "applying" /\ thread[t].cb \in Ops
        /\ thread[t].reply = "ok"
        /\ Settled
        /\ forced' = IF thread[t].cb = "setPose" /\ o \in Dynamic
                     THEN [forced EXCEPT ![o] = p]
                     ELSE forced
        /\ Reply(t, "ok")
        /\ promised' = [promised EXCEPT ![o] = p]
        /\ doubt' = doubt \ {o}
        /\ UNCHANGED <<queue, initialLoaded, ready, specs, external, overrun>>

\* (mutant RequestSucceedsStatic: forced_ does not follow the new pose)
RequestSucceedsStatic(t) ==
    LET o == thread[t].req.obj
        p == thread[t].req.pose
    IN  /\ thread[t].at = "applying" /\ thread[t].cb \in Ops
        /\ thread[t].reply = "ok"
        /\ Settled
        /\ Publish([world |-> Only(o, p), acm |-> FALSE])
        /\ Reply(t, "ok")
        /\ promised' = [promised EXCEPT ![o] = p]
        /\ doubt' = doubt \ {o}
        /\ UNCHANGED <<queue, initialLoaded, ready, specs, forced, applyQ, responses,
                       wipe, scene, interfered>>

\* (mutant RequestSucceedsUnasked: the wait for the future is not checked)
RequestSucceedsUnasked(t) ==
    LET o == thread[t].req.obj
        p == thread[t].req.pose
    IN  /\ thread[t].at = "applying" /\ thread[t].cb \in Ops
        /\ thread[t].reply # "failed"
        /\ Settled
        /\ Publish([world |-> Only(o, p), acm |-> FALSE])
        /\ forced' = IF thread[t].cb = "setPose" /\ o \in Dynamic
                     THEN [forced EXCEPT ![o] = p]
                     ELSE forced
        /\ Reply(t, "ok")
        /\ promised' = [promised EXCEPT ![o] = p]
        /\ doubt' = doubt \ {o}
        /\ UNCHANGED <<queue, initialLoaded, ready, specs, applyQ, responses, wipe,
                       scene, interfered>>

RequestSucceeds(t) ==
    LET o == thread[t].req.obj
        p == thread[t].req.pose
    IN  /\ thread[t].at = "applying" /\ thread[t].cb \in Ops
        /\ thread[t].reply = "ok"
        /\ Settled
        /\ Publish([world |-> Only(o, p), acm |-> FALSE])
        /\ forced' = IF thread[t].cb = "setPose" /\ o \in Dynamic
                     THEN [forced EXCEPT ![o] = p]
                     ELSE forced
        /\ Reply(t, "ok")
        /\ promised' = [promised EXCEPT ![o] = p]
        /\ doubt' = doubt \ {o}
        /\ UNCHANGED <<queue, initialLoaded, ready, specs, applyQ, responses, wipe,
                       scene, interfered>>

\* A free thread runs the client's response callback, which makes the future
\* ready; the response of a call that has timed out finds nobody waiting.
DeliverResponse(t) ==
    /\ CanTake(t, "response")
    /\ \E r \in responses :
         /\ responses' = responses \ {r}
         /\ thread' = [u \in Threads |->
                         IF thread[u].at = "applying" /\ CallOf(u) = r.id
                         THEN [thread[u] EXCEPT !.reply = r.result]
                         ELSE thread[u]]
    /\ UNCHANGED <<queue, outcome, initialLoaded, ready, specs, forced, applyQ,
                   topic, wipe, scene, interfered, history>>

-----------------------------------------------------------------------------
(***************************************************************************)
(* move_group and the other writers of the scene (outside the package).    *)
(***************************************************************************)
internal == <<queue, outcome, thread, initialLoaded, ready, specs, forced, promised,
              overrun>>

ApplyRequest ==
    /\ applyQ # <<>>
    /\ applyQ' = Tail(applyQ)
    /\ \E result \in {"ok", "failed"} :
         /\ responses' = responses \cup {[id |-> Head(applyQ).id, result |-> result]}
         /\ scene' = IF result = "ok" THEN Overlay(scene, Head(applyQ).diff) ELSE scene
    /\ UNCHANGED <<internal, topic, wipe, interfered, doubt>>

DeliverTopic ==
    /\ topic # <<>>
    /\ topic' = Tail(topic)
    /\ scene' = Overlay(scene, Head(topic).world)
    /\ UNCHANGED <<internal, applyQ, responses, wipe, interfered, doubt>>

\* Published by a publisher created a moment before: it may reach nobody.
DeliverWipe ==
    /\ wipe
    /\ wipe' = FALSE
    /\ \/ scene' = [o \in Objects |-> IF o \in Declared THEN None ELSE scene[o]]
       \/ UNCHANGED scene
    /\ UNCHANGED <<internal, applyQ, responses, topic, interfered, doubt>>

Interfere ==
    /\ interfered < MaxInterference
    /\ interfered' = interfered + 1
    /\ \E o \in Objects, v \in Presence : scene' = [scene EXCEPT ![o] = v]
    /\ UNCHANGED <<internal, applyQ, responses, topic, wipe, doubt>>

-----------------------------------------------------------------------------
\* One thread goes on with the callback it runs.
Step(t) ==
    \/ LoadInitialScene(t)
    \/ InitialApplyReturns(t)
    \/ PublishAcm(t)
    \/ FinishLoad(t)
    \/ ReassertDynamic(t)
    \/ HandleRemove(t)
    \/ HandleSetPose(t)
    \/ RequestFails(t)
    \/ RequestSucceeds(t)

Next ==
    \/ \E op \in Ops, o \in Objects, p \in Presence : Arrive(op, o, p)
    \/ \E t \in Threads : WipeScene(t)
    \/ \E t \in Threads, op \in Ops : TakeRequest(t, op)
    \/ \E t \in Threads : TakeForce(t)
    \/ \E t \in Threads : Step(t)
    \/ \E t \in Threads : DeliverResponse(t)
    \/ ApplyRequest
    \/ DeliverTopic
    \/ DeliverWipe
    \/ Interfere

(***************************************************************************)
(* Every blocking call in a callback has a timeout, so a callback that has *)
(* begun goes on.  The default group runs one callback at a time, so a     *)
(* waiting one is ready again and again: strong fairness says the executor *)
(* does not starve it, which holds while the callbacks are shorter than    *)
(* the timers' periods.  move_group reads its topic; it may stop answering *)
(* the service, which the handlers' timeouts allow for.                    *)
(***************************************************************************)
Fairness ==
    /\ \A t \in Threads : WF_vars(Step(t))
    /\ SF_vars(\E t \in Threads : WipeScene(t))
    /\ SF_vars(\E t \in Threads : TakeForce(t))
    /\ \A op \in Ops : SF_vars(\E t \in Threads : TakeRequest(t, op))
    /\ WF_vars(\E t \in Threads : DeliverResponse(t))
    /\ WF_vars(DeliverTopic)
    /\ WF_vars(DeliverWipe)

Spec == Init /\ [][Next]_vars

FairSpec == Spec /\ Fairness

-----------------------------------------------------------------------------
(***************************************************************************)
(* Properties.                                                             *)
(***************************************************************************)
Results == {"ok", "failed"}

Thread ==
    [at    : {"idle", "taken", "applying", "applied", "acm"},
     cb    : {"none", "init", "force"} \cup Ops,
     req   : Request \cup {None},
     reply : {"none", "pending"} \cup Results]

\* Every variable has its type: in particular a running service callback has
\* a request to work on.
TypeOK ==
    /\ queue \in [Ops -> Seq(Request)]
    /\ outcome \in Seq({"pending"} \cup Results)
    /\ Len(outcome) <= MaxRequests
    /\ thread \in [Threads -> Thread]
    /\ \A t \in Threads : thread[t].cb \in Ops => thread[t].req \in Request
    /\ initialLoaded \in BOOLEAN
    /\ ready \in BOOLEAN
    /\ specs \subseteq Objects
    /\ forced \in [Objects -> Presence]
    /\ applyQ \in Seq([id : 0..MaxRequests, diff : Diff])
    /\ responses \subseteq [id : 0..MaxRequests, result : Results]
    /\ topic \in Seq(Message)
    /\ Len(topic) <= TopicDepth
    /\ wipe \in BOOLEAN
    /\ scene \in [Objects -> Presence]
    /\ interfered \in 0..MaxInterference
    /\ promised \in [Objects -> Presence]
    /\ doubt \subseteq Objects
    /\ overrun \subseteq Objects

\* loadInitialScene fills specs_ and forced_ without scene_mutex_ while the
\* services and the republisher use them under it: two threads never access
\* them at once unless both take the lock.
RaceFree ==
    \A t, u \in Threads :
        t # u /\ Busy(t) /\ Busy(u) => Locks(t) /\ Locks(u)

\* A callback that waits in applyDiffMany blocks its executor thread: there
\* is always another thread that may run the response it waits for, so the
\* wait never depends on itself.
ResponderAvailable ==
    \A t \in Threads :
        thread[t].at = "applying" => \E u \in Threads : CanTake(u, "response")

\* What reassertDynamic would republish about an object is the last state
\* declared for it or acknowledged to a client: it never brings back a removed
\* object or an earlier pose.
ForcedMatchesPromised ==
    \A o \in Objects : forced[o] # None => forced[o] = promised[o]

\* The last message in flight about an object carries its promised state, so
\* delivering the rest of the topic never ends with a stale pose.
TopicTailAgrees ==
    \A o \in Objects, i \in 1..Len(topic) :
        /\ topic[i].world[o] # Keep
        /\ \A j \in (i + 1)..Len(topic) : topic[j].world[o] = Keep
        => topic[i].world[o] = promised[o]

\* Nothing runs and nothing is in flight.
AtRest ==
    /\ initialLoaded
    /\ \A t \in Threads : ~Busy(t)
    /\ \A op \in Ops : queue[op] = <<>>
    /\ applyQ = <<>> /\ topic = <<>> /\ ~wipe

\* At rest, the scene holds each object as it was last declared or
\* acknowledged, except the objects whose last change failed or timed out
\* and those whose last message was pushed out, if no stale source has written.
RestingSceneAgrees ==
    AtRest /\ interfered = 0 =>
        \A o \in Objects \ (doubt \cup overrun) : scene[o] = promised[o]

\* The message that allows the collisions of attach_acm_links shares the
\* short queue of the republisher: no later message pushes it out before it
\* is delivered, because the load callback sleeps after publishing it.
AcmInFlight == \E i \in 1..Len(topic) : topic[i].acm

AcmIsDelivered ==
    [][AcmInFlight /\ ~AcmInFlight' => topic' = Tail(topic)]_vars

\* Every request to a scene service is answered, even when move_group refuses
\* or answers after the timeout.
RequestsAnswered ==
    \A i \in 1..MaxRequests :
        (i \in DOMAIN outcome /\ outcome[i] = "pending")
            ~> (i \in DOMAIN outcome /\ outcome[i] # "pending")

\* While an object stays forced at a pose, the republisher defeats the stale
\* sources: in the end the scene holds that pose for good.
ForcedConverges ==
    \A o \in Objects, p \in Poses :
        <>[](forced[o] = p) => <>[](scene[o] = p)

(***************************************************************************)
(* The node implements the ledger its services promise: a request is       *)
(* pending until it is answered, wherever it waits, and a call is granted  *)
(* while the positive response is on its way to the thread that waits.     *)
(***************************************************************************)
Queued == UNION {{queue[op][i] : i \in 1..Len(queue[op])} : op \in Ops}

Serving == {t \in Threads : thread[t].cb \in Ops}

Unanswered == Queued \cup {thread[t].req : t \in Serving}

Granted ==
    {r.id : r \in {x \in responses : x.result = "ok"}}
        \cup {CallOf(t) : t \in {u \in Threads :
                 thread[u].at = "applying" /\ thread[u].reply = "ok"}}

SceneDeclared ==
    initialLoaded /\ ~\E t \in Threads : thread[t].at = "taken" /\ thread[t].cb = "init"

Ledger == INSTANCE SceneLedger WITH
    pending <- Unanswered, granted <- Granted, declared <- SceneDeclared,
    ledger <- promised, unsure <- doubt

\* Whatever the threads, the queues and move_group do, the clients see a ledger:
\* each request is answered once, success only for what move_group has accepted,
\* and the initial scene is declared once.
ImplementsLedger == Ledger!Spec

(***************************************************************************)
(* What the comments promise and the code does not keep.                   *)
(***************************************************************************)
\* "Dynamic objects are republished on /planning_scene at a configurable rate
\* to defeat any stale scene source": a dynamic object that was declared and
\* never successfully removed is in forced_ while nothing runs.
DynamicStaysReasserted ==
    AtRest => \A o \in Dynamic : promised[o] # None => forced[o] = promised[o]

\* When a removal is acknowledged the object is out of the scene, as long as
\* the object has had no other trouble.
AcknowledgedRemovalIsDone ==
    [][\A t \in Threads :
         RequestSucceeds(t) /\ thread[t].cb = "remove" /\ thread[t].req.obj \notin doubt
            => scene[thread[t].req.obj] = None]_vars

=============================================================================
