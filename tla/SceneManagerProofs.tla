------------------------- MODULE SceneManagerProofs -------------------------
(***************************************************************************)
(* Proofs about SceneManager, for any number of threads, objects, poses    *)
(* and requests, any declarations and any queue depth: its safety, that it *)
(* implements SceneLedger, and what its scene is at rest.                  *)
(***************************************************************************)
EXTENDS SceneManager, TLAPS, SequenceTheorems

\* The default callback group runs at most one callback.
OneCallback ==
    \A t, u \in Threads : Busy(t) /\ Busy(u) => t = u

\* While a removal waits for move_group its object is not reasserted.
RemovalForgets ==
    \A t \in Threads :
        Busy(t) /\ thread[t].cb = "remove" /\ thread[t].at = "applying"
            => forced[thread[t].req.obj] = None

\* Only the objects declared dynamic are reasserted.
ForcedIsDynamic == \A o \in Objects : forced[o] # None => o \in Dynamic

IInv ==
    /\ TypeOK
    /\ OneCallback
    /\ RemovalForgets
    /\ ForcedIsDynamic
    /\ ForcedMatchesPromised

-----------------------------------------------------------------------------
\* A full queue gives up its oldest message, so it never exceeds its depth.
LEMMA PushedType ==
    ASSUME NEW q \in Seq(Message), Len(q) <= TopicDepth, NEW m \in Message
    PROVE  /\ Pushed(q, m) \in Seq(Message)
           /\ Len(Pushed(q, m)) <= TopicDepth
<1>1. Len(q) \in Nat /\ TopicDepth \in Nat \ {0}
  BY SceneAssumption
<1>2. CASE Len(q) < TopicDepth
  <2>1. Pushed(q, m) = Append(q, m)
    BY <1>2 DEF Pushed
  <2>2. Append(q, m) \in Seq(Message) /\ Len(Append(q, m)) = Len(q) + 1
    OBVIOUS
  <2> QED  BY <2>1, <2>2, <1>1, <1>2
<1>3. CASE ~(Len(q) < TopicDepth)
  <2>1. Pushed(q, m) = Append(Tail(q), m)
    BY <1>3 DEF Pushed
  <2>2. q # <<>>
    BY <1>1, <1>3
  <2>3. Tail(q) \in Seq(Message) /\ Len(Tail(q)) = Len(q) - 1
    BY <2>2, HeadTailProperties
  <2>4. Append(Tail(q), m) \in Seq(Message) /\ Len(Append(Tail(q), m)) = Len(Tail(q)) + 1
    BY <2>3
  <2> QED  BY <2>1, <2>3, <2>4, <1>1
<1> QED  BY <1>2, <1>3

LEMMA PublishType ==
    ASSUME TypeOK, NEW m \in Message, Publish(m)
    PROVE  /\ topic' \in Seq(Message)
           /\ Len(topic') <= TopicDepth
           /\ overrun' \subseteq Objects
<1>1. topic \in Seq(Message) /\ Len(topic) <= TopicDepth /\ overrun \subseteq Objects
  BY DEF TypeOK
<1>2. topic' = Pushed(topic, m)
  BY DEF Publish
<1>3. Pushed(topic, m) \in Seq(Message) /\ Len(Pushed(topic, m)) <= TopicDepth
  BY <1>1, PushedType
<1>4. overrun' \subseteq Objects
  <2>1. \A x : Mentions(x) \subseteq Objects
    BY DEF Mentions
  <2> QED  BY <2>1, <1>1 DEF Publish
<1> QED  BY <1>2, <1>3, <1>4

LEMMA DiffTypes ==
    /\ \A o \in Objects : \A v \in Presence : Only(o, v) \in Diff
    /\ InitialDiff \in Diff
    /\ \A w \in [Objects -> Presence], d \in Diff : Overlay(w, d) \in [Objects -> Presence]
    /\ None \in Presence /\ InitPose \in Presence
<1>1. None \in Presence /\ InitPose \in Presence
  BY SceneAssumption DEF Presence
<1>2. InitialDiff \in Diff
  BY <1>1 DEF InitialDiff, Diff
<1>3. ASSUME NEW o \in Objects, NEW v \in Presence
      PROVE  Only(o, v) \in Diff
  BY DEF Only, Diff
<1>4. ASSUME NEW w \in [Objects -> Presence], NEW d \in Diff
      PROVE  Overlay(w, d) \in [Objects -> Presence]
  <2>1. \A x \in Objects : d[x] # Keep => d[x] \in Presence
    BY DEF Diff
  <2> QED  BY <2>1 DEF Overlay
<1> QED  BY <1>1, <1>2, <1>3, <1>4

LEMMA LoadedTypes == Built \subseteq Objects /\ Loaded \subseteq Objects
<1>1. Reached \subseteq Objects
  BY SceneAssumption, LenProperties DEF Reached
<1> QED  BY <1>1 DEF Built, Loaded

\* Changing one element of a sequence changes neither its length nor its type.
LEMMA ExceptAnywhere ==
    ASSUME NEW S, NEW s \in Seq(S), NEW i, NEW e \in S
    PROVE  [s EXCEPT ![i] = e] \in Seq(S) /\ Len([s EXCEPT ![i] = e]) = Len(s)
<1>1. s \in [1..Len(s) -> S] /\ Len(s) \in Nat /\ DOMAIN s = 1..Len(s)
  BY LenProperties
<1>2. CASE i \in 1..Len(s)
  BY <1>2, ExceptSeq
<1>3. CASE i \notin 1..Len(s)
  BY <1>1, <1>3, [s EXCEPT ![i] = e] = s
<1> QED  BY <1>2, <1>3

-----------------------------------------------------------------------------
\* The typing of what the actions write into a thread.
LEMMA ThreadTypes ==
    /\ Idle \in Thread
    /\ \A q \in Request, op \in Ops : Taken(op, q) \in Thread
    /\ Taken("force", None) \in Thread /\ Taken("init", None) \in Thread
    /\ Idle.at = "idle" /\ Idle.cb = "none"
  BY DEF Idle, Taken, Thread, Results

LEMMA TakenType ==
    ASSUME TypeOK, NEW t \in Threads, NEW cb, NEW q, Taken(cb, q) \in Thread,
           cb \in Ops => q \in Request,
           thread' = [thread EXCEPT ![t] = Taken(cb, q)]
    PROVE  /\ thread' \in [Threads -> Thread]
           /\ \A u \in Threads : thread'[u].cb \in Ops => thread'[u].req \in Request
<1>1. thread \in [Threads -> Thread]
  BY DEF TypeOK
<1>2. thread' \in [Threads -> Thread]
  BY <1>1
<1>3. ASSUME NEW u \in Threads, thread'[u].cb \in Ops
      PROVE  thread'[u].req \in Request
  <2>1. CASE u = t
    <3>1. thread'[u] = Taken(cb, q)
      BY <1>1, <2>1
    <3>2. Taken(cb, q).cb = cb /\ Taken(cb, q).req = q
      BY DEF Taken
    <3> QED  BY <3>1, <3>2, <1>3
  <2>2. CASE u # t
    <3>1. thread'[u] = thread[u]
      BY <1>1, <2>2
    <3> QED  BY <3>1, <1>3 DEF TypeOK
  <2> QED  BY <2>1, <2>2
<1> QED  BY <1>2, <1>3

LEMMA ReplyType ==
    ASSUME TypeOK, NEW t \in Threads, NEW result \in Results, Reply(t, result),
           thread[t].cb \in Ops
    PROVE  /\ thread' \in [Threads -> Thread]
           /\ \A u \in Threads : thread'[u].cb \in Ops => thread'[u].req \in Request
           /\ outcome' \in Seq({"pending"} \cup Results)
           /\ Len(outcome') <= MaxRequests
<1>1. thread \in [Threads -> Thread] /\ thread' = [thread EXCEPT ![t] = Idle]
  BY DEF TypeOK, Reply
<1>2. thread' \in [Threads -> Thread]
  BY <1>1, ThreadTypes
<1>3. \A u \in Threads : thread'[u] = IF u = t THEN Idle ELSE thread[u]
  BY <1>1
<1>4. \A u \in Threads : thread'[u].cb \in Ops => thread'[u].req \in Request
  BY <1>3, ThreadTypes DEF TypeOK, Ops
<1>5. outcome' = [outcome EXCEPT ![thread[t].req.id] = result]
  BY DEF Reply
<1>6. /\ outcome \in Seq({"pending"} \cup Results)
      /\ Len(outcome) <= MaxRequests
      /\ result \in {"pending"} \cup Results
  BY DEF TypeOK
<1>7. outcome' \in Seq({"pending"} \cup Results) /\ Len(outcome') = Len(outcome)
  <2> DEFINE S == {"pending"} \cup Results
             i == thread[t].req.id
  <2>1. outcome \in Seq(S) /\ result \in S
    BY <1>6
  <2> HIDE DEF S, i
  <2>2. /\ [outcome EXCEPT ![i] = result] \in Seq(S)
        /\ Len([outcome EXCEPT ![i] = result]) = Len(outcome)
    BY <2>1, ExceptAnywhere
  <2> QED  BY <2>2, <1>5 DEF S, i
<1> QED  BY <1>2, <1>4, <1>6, <1>7

LEMMA SendType ==
    ASSUME TypeOK, NEW t \in Threads, NEW d \in Diff, SendApply(t, d),
           thread[t].cb \in {"init"} \cup Ops
    PROVE  /\ thread' \in [Threads -> Thread]
           /\ \A u \in Threads : thread'[u].cb \in Ops => thread'[u].req \in Request
           /\ applyQ' \in Seq([id : 0..MaxRequests, diff : Diff])
<1>1. thread \in [Threads -> Thread] /\ thread[t] \in Thread
  BY DEF TypeOK
<1>2. \A u \in Threads :
        thread'[u] = IF u = t THEN [thread[t] EXCEPT !.at = "applying", !.reply = "pending"]
                     ELSE thread[u]
  BY <1>1 DEF SendApply
<1>3. [thread[t] EXCEPT !.at = "applying", !.reply = "pending"] \in Thread
  BY <1>1 DEF Thread
<1>4. thread' \in [Threads -> Thread]
  BY <1>1, <1>3 DEF SendApply
<1>5. \A u \in Threads : thread'[u].req = thread[u].req /\ thread'[u].cb = thread[u].cb
  BY <1>1, <1>2 DEF Thread
<1>6. \A u \in Threads : thread'[u].cb \in Ops => thread'[u].req \in Request
  BY <1>5 DEF TypeOK
<1>7. CallOf(t) \in 0..MaxRequests
  <2>1. CASE thread[t].cb = "init"
    BY <2>1, SceneAssumption DEF CallOf
  <2>2. CASE thread[t].cb \in Ops
    <3>1. thread[t].req \in Request
      BY <2>2, <1>1 DEF TypeOK, Thread
    <3>2. thread[t].req.id \in 0..MaxRequests
      BY <3>1, SceneAssumption DEF Request
    <3> QED  BY <3>2, <2>2 DEF CallOf, Ops
  <2> QED  BY <2>1, <2>2
<1>8. applyQ' \in Seq([id : 0..MaxRequests, diff : Diff])
  BY <1>7 DEF SendApply, TypeOK
<1> QED  BY <1>4, <1>6, <1>8

-----------------------------------------------------------------------------
LEMMA InitTypeOK == Init => TypeOK
<1> SUFFICES ASSUME Init PROVE TypeOK
  OBVIOUS
<1>1. thread \in [Threads -> Thread] /\ \A t \in Threads : thread[t].cb \notin Ops
  BY ThreadTypes DEF Init, Ops
<1>2. /\ queue \in [Ops -> Seq(Request)]
      /\ outcome \in Seq({"pending"} \cup Results)
      /\ Len(outcome) <= MaxRequests
  BY SceneAssumption DEF Init
<1>3. /\ applyQ \in Seq([id : 0..MaxRequests, diff : Diff])
      /\ topic \in Seq(Message)
      /\ Len(topic) <= TopicDepth
  BY SceneAssumption DEF Init
<1>4. /\ forced \in [Objects -> Presence]
      /\ promised \in [Objects -> Presence]
      /\ scene \in [Objects -> Presence]
  BY DiffTypes DEF Init
<1>5. interfered \in 0..MaxInterference
  BY SceneAssumption DEF Init
<1> QED  BY <1>1, <1>2, <1>3, <1>4, <1>5 DEF Init, TypeOK

\* Every action keeps the types.
LEMMA TypeStep == TypeOK /\ [Next]_vars => TypeOK'
<1> SUFFICES ASSUME TypeOK, [Next]_vars PROVE TypeOK'
  OBVIOUS
<1> USE SceneAssumption
<1>0. /\ queue \in [Ops -> Seq(Request)]
      /\ outcome \in Seq({"pending"} \cup Results)
      /\ Len(outcome) <= MaxRequests
      /\ thread \in [Threads -> Thread]
      /\ \A t \in Threads : thread[t].cb \in Ops => thread[t].req \in Request
      /\ initialLoaded \in BOOLEAN
      /\ ready \in BOOLEAN
      /\ specs \subseteq Objects
      /\ forced \in [Objects -> Presence]
      /\ applyQ \in Seq([id : 0..MaxRequests, diff : Diff])
      /\ responses \subseteq [id : 0..MaxRequests, result : Results]
      /\ topic \in Seq(Message)
      /\ Len(topic) <= TopicDepth
      /\ wipe \in BOOLEAN
      /\ scene \in [Objects -> Presence]
      /\ interfered \in 0..MaxInterference
      /\ promised \in [Objects -> Presence]
      /\ doubt \subseteq Objects
      /\ overrun \subseteq Objects
  BY DEF TypeOK
<1>1. ASSUME NEW op \in Ops, NEW o \in Objects, NEW p \in Presence, Arrive(op, o, p)
      PROVE  TypeOK'
  <2>1. Len(outcome) \in Nat /\ Len(outcome) < MaxRequests
    BY <1>0, <1>1 DEF Arrive
  <2>2. [id |-> Len(outcome) + 1, obj |-> o, pose |-> p] \in Request
    BY <2>1 DEF Request
  <2>3. queue' \in [Ops -> Seq(Request)]
    BY <1>0, <1>1, <2>2 DEF Arrive
  <2>4. /\ outcome' \in Seq({"pending"} \cup Results)
        /\ Len(outcome') <= MaxRequests
    BY <1>0, <1>1, <2>1 DEF Arrive
  <2> QED  BY <1>0, <1>1, <2>3, <2>4 DEF Arrive, TypeOK, external, history
<1>2. ASSUME NEW t \in Threads, WipeScene(t)
      PROVE  TypeOK'
  <2>1. thread' = [thread EXCEPT ![t] = Taken("init", None)]
    BY <1>2 DEF WipeScene
  <2>2. "init" \notin Ops
    BY DEF Ops
  <2>3. /\ thread' \in [Threads -> Thread]
        /\ \A u \in Threads : thread'[u].cb \in Ops => thread'[u].req \in Request
    BY <2>1, <2>2, TakenType, ThreadTypes
  <2> QED  BY <1>0, <1>2, <2>3 DEF WipeScene, TypeOK, history
<1>3. ASSUME NEW t \in Threads, NEW op \in Ops, TakeRequest(t, op)
      PROVE  TypeOK'
  <2>1. queue[op] \in Seq(Request) /\ queue[op] # <<>>
    BY <1>0, <1>3 DEF TakeRequest
  <2>2. Head(queue[op]) \in Request /\ Tail(queue[op]) \in Seq(Request)
    BY <2>1, HeadTailProperties
  <2>3. thread' = [thread EXCEPT ![t] = Taken(op, Head(queue[op]))]
    BY <1>3 DEF TakeRequest
  <2>4. Taken(op, Head(queue[op])) \in Thread
    BY <2>2, ThreadTypes
  <2>5. /\ thread' \in [Threads -> Thread]
        /\ \A u \in Threads : thread'[u].cb \in Ops => thread'[u].req \in Request
    BY <2>2, <2>3, <2>4, TakenType
  <2>6. queue' \in [Ops -> Seq(Request)]
    BY <1>0, <1>3, <2>2 DEF TakeRequest
  <2> QED  BY <1>0, <1>3, <2>5, <2>6 DEF TakeRequest, TypeOK, external, history
<1>4. ASSUME NEW t \in Threads, TakeForce(t)
      PROVE  TypeOK'
  <2>1. thread' = [thread EXCEPT ![t] = Taken("force", None)]
    BY <1>4 DEF TakeForce
  <2>2. "force" \notin Ops
    BY DEF Ops
  <2>3. /\ thread' \in [Threads -> Thread]
        /\ \A u \in Threads : thread'[u].cb \in Ops => thread'[u].req \in Request
    BY <2>1, <2>2, TakenType, ThreadTypes
  <2> QED  BY <1>0, <1>4, <2>3 DEF TakeForce, TypeOK, external, history

<1>6. ASSUME NEW t \in Threads, NEW a \in {"applied", "acm"},
             thread' = [thread EXCEPT ![t].at = a]
      PROVE  /\ thread' \in [Threads -> Thread]
             /\ \A u \in Threads : thread'[u].cb \in Ops => thread'[u].req \in Request
  <2>1. [thread[t] EXCEPT !.at = a] \in Thread
    BY <1>0 DEF Thread
  <2>2. \A u \in Threads :
          thread'[u] = IF u = t THEN [thread[t] EXCEPT !.at = a] ELSE thread[u]
    BY <1>0, <1>6
  <2>3. \A u \in Threads : thread'[u].req = thread[u].req /\ thread'[u].cb = thread[u].cb
    BY <1>0, <2>2 DEF Thread
  <2> QED  BY <1>0, <1>6, <2>1, <2>3
<1>5. ASSUME NEW t \in Threads, LoadInitialScene(t)
      PROVE  TypeOK'
  <2>1. thread[t].cb = "init"
    BY <1>5 DEF LoadInitialScene
  <2>2. specs' \subseteq Objects /\ forced' \in [Objects -> Presence]
        /\ promised' \in [Objects -> Presence] /\ doubt' \subseteq Objects
    BY <1>0, <1>5, LoadedTypes, DiffTypes DEF LoadInitialScene
  <2>3. /\ thread' \in [Threads -> Thread]
        /\ \A u \in Threads : thread'[u].cb \in Ops => thread'[u].req \in Request
        /\ applyQ' \in Seq([id : 0..MaxRequests, diff : Diff])
    <3>1. CASE thread' = [thread EXCEPT ![t] = Idle] /\ UNCHANGED applyQ
      <4>1. \A u \in Threads : thread'[u] = IF u = t THEN Idle ELSE thread[u]
        BY <1>0, <3>1
      <4> QED  BY <1>0, <3>1, <4>1, ThreadTypes DEF Ops
    <3>2. CASE thread' = [thread EXCEPT ![t].at = "applied"] /\ UNCHANGED applyQ
      BY <1>0, <1>6, <3>2
    <3>3. CASE SendApply(t, InitialDiff)
      BY <2>1, <3>3, SendType, DiffTypes
    <3> QED  BY <1>5, <3>1, <3>2, <3>3 DEF LoadInitialScene
  <2> QED  BY <1>0, <1>5, <2>2, <2>3 DEF LoadInitialScene, TypeOK
<1>7. ASSUME NEW t \in Threads, InitialApplyReturns(t)
      PROVE  TypeOK'
  BY <1>0, <1>6, <1>7 DEF InitialApplyReturns, TypeOK, external
<1>8. ASSUME NEW t \in Threads, PublishAcm(t)
      PROVE  TypeOK'
  <2>1. [world |-> [o \in Objects |-> Keep], acm |-> TRUE] \in Message
    BY DEF Message, Diff
  <2>2. topic' \in Seq(Message) /\ Len(topic') <= TopicDepth /\ overrun' \subseteq Objects
    BY <1>8, <2>1, PublishType DEF PublishAcm
  <2> QED  BY <1>0, <1>6, <1>8, <2>2 DEF PublishAcm, TypeOK
<1>9. ASSUME NEW t \in Threads, thread' = [thread EXCEPT ![t] = Idle]
      PROVE  /\ thread' \in [Threads -> Thread]
             /\ \A u \in Threads : thread'[u].cb \in Ops => thread'[u].req \in Request
  <2>1. \A u \in Threads : thread'[u] = IF u = t THEN Idle ELSE thread[u]
    BY <1>0, <1>9
  <2> QED  BY <1>0, <1>9, <2>1, ThreadTypes DEF Ops
<1>10. ASSUME NEW t \in Threads, FinishLoad(t)
       PROVE  TypeOK'
  BY <1>0, <1>9, <1>10 DEF FinishLoad, TypeOK, external, history
<1>11. ASSUME NEW t \in Threads, ReassertDynamic(t)
       PROVE  TypeOK'
  <2>1. /\ topic' \in Seq(Message) /\ Len(topic') <= TopicDepth
        /\ overrun' \subseteq Objects
    <3> DEFINE m == [world |-> [o \in Objects |-> IF forced[o] = None THEN Keep
                                                  ELSE forced[o]],
                     acm |-> FALSE]
    <3>1. m \in Message
      BY <1>0 DEF Message, Diff
    <3>2. CASE UNCHANGED <<topic, overrun>>
      BY <1>0, <3>2
    <3>3. CASE Publish(m)
      BY <3>1, <3>3, PublishType
    <3> QED  BY <1>11, <3>2, <3>3 DEF ReassertDynamic
  <2> QED  BY <1>0, <1>9, <1>11, <2>1 DEF ReassertDynamic, TypeOK
<1>12. ASSUME NEW t \in Threads, HandleRemove(t)
       PROVE  TypeOK'
  <2>1. thread[t].cb \in Ops /\ thread[t].req \in Request
    BY <1>0, <1>12 DEF HandleRemove, Ops
  <2>2. Only(thread[t].req.obj, None) \in Diff
    BY <2>1, DiffTypes DEF Request
  <2>3. forced' \in [Objects -> Presence]
    BY <1>0, <1>12, DiffTypes DEF HandleRemove
  <2>4. CASE SendApply(t, Only(thread[t].req.obj, None)) /\ UNCHANGED outcome
    <3>1. /\ thread' \in [Threads -> Thread]
          /\ \A u \in Threads : thread'[u].cb \in Ops => thread'[u].req \in Request
          /\ applyQ' \in Seq([id : 0..MaxRequests, diff : Diff])
      BY <2>1, <2>2, <2>4, SendType
    <3> QED  BY <1>0, <1>12, <2>3, <2>4, <3>1 DEF HandleRemove, TypeOK, history
  <2>5. CASE Reply(t, "failed") /\ UNCHANGED applyQ
    <3>1. /\ thread' \in [Threads -> Thread]
          /\ \A u \in Threads : thread'[u].cb \in Ops => thread'[u].req \in Request
          /\ outcome' \in Seq({"pending"} \cup Results)
          /\ Len(outcome') <= MaxRequests
      BY <2>1, <2>5, ReplyType DEF Results
    <3> QED  BY <1>0, <1>12, <2>3, <2>5, <3>1 DEF HandleRemove, TypeOK, history
  <2> QED  BY <1>12, <2>4, <2>5 DEF HandleRemove
<1>13. ASSUME NEW t \in Threads, HandleSetPose(t)
       PROVE  TypeOK'
  <2>1. thread[t].cb \in Ops /\ thread[t].req \in Request
    BY <1>0, <1>13 DEF HandleSetPose, Ops
  <2>2. Only(thread[t].req.obj, thread[t].req.pose) \in Diff
    BY <2>1, DiffTypes DEF Request
  <2>4. CASE SendApply(t, Only(thread[t].req.obj, thread[t].req.pose)) /\ UNCHANGED outcome
    <3>1. /\ thread' \in [Threads -> Thread]
          /\ \A u \in Threads : thread'[u].cb \in Ops => thread'[u].req \in Request
          /\ applyQ' \in Seq([id : 0..MaxRequests, diff : Diff])
      BY <2>1, <2>2, <2>4, SendType
    <3> QED  BY <1>0, <1>13, <2>4, <3>1 DEF HandleSetPose, TypeOK, history
  <2>5. CASE Reply(t, "failed") /\ UNCHANGED applyQ
    <3>1. /\ thread' \in [Threads -> Thread]
          /\ \A u \in Threads : thread'[u].cb \in Ops => thread'[u].req \in Request
          /\ outcome' \in Seq({"pending"} \cup Results)
          /\ Len(outcome') <= MaxRequests
      BY <2>1, <2>5, ReplyType DEF Results
    <3> QED  BY <1>0, <1>13, <2>5, <3>1 DEF HandleSetPose, TypeOK, history
  <2> QED  BY <1>13, <2>4, <2>5 DEF HandleSetPose
<1>14. ASSUME NEW t \in Threads, RequestFails(t)
       PROVE  TypeOK'
  <2>1. thread[t].cb \in Ops /\ thread[t].req \in Request /\ Reply(t, "failed")
    BY <1>0, <1>14 DEF RequestFails
  <2>2. /\ thread' \in [Threads -> Thread]
        /\ \A u \in Threads : thread'[u].cb \in Ops => thread'[u].req \in Request
        /\ outcome' \in Seq({"pending"} \cup Results)
        /\ Len(outcome') <= MaxRequests
    BY <2>1, ReplyType DEF Results
  <2>3. doubt' \subseteq Objects
    BY <1>0, <1>14, <2>1 DEF RequestFails, Request
  <2> QED  BY <1>0, <1>14, <2>2, <2>3 DEF RequestFails, TypeOK, external
<1>15. ASSUME NEW t \in Threads, RequestSucceeds(t)
       PROVE  TypeOK'
  <2>1. thread[t].cb \in Ops /\ thread[t].req \in Request /\ Reply(t, "ok")
    BY <1>0, <1>15 DEF RequestSucceeds
  <2>2. /\ thread' \in [Threads -> Thread]
        /\ \A u \in Threads : thread'[u].cb \in Ops => thread'[u].req \in Request
        /\ outcome' \in Seq({"pending"} \cup Results)
        /\ Len(outcome') <= MaxRequests
    BY <2>1, ReplyType DEF Results
  <2>3. thread[t].req.obj \in Objects /\ thread[t].req.pose \in Presence
    BY <2>1 DEF Request
  <2>4. /\ topic' \in Seq(Message) /\ Len(topic') <= TopicDepth
        /\ overrun' \subseteq Objects
    <3>1. [world |-> Only(thread[t].req.obj, thread[t].req.pose), acm |-> FALSE] \in Message
      BY <2>3, DiffTypes DEF Message
    <3> QED  BY <1>15, <3>1, PublishType DEF RequestSucceeds
  <2>5. forced' \in [Objects -> Presence] /\ promised' \in [Objects -> Presence]
        /\ doubt' \subseteq Objects
    BY <1>0, <1>15, <2>3 DEF RequestSucceeds
  <2> QED  BY <1>0, <1>15, <2>2, <2>4, <2>5 DEF RequestSucceeds, TypeOK
<1>16. ASSUME NEW t \in Threads, DeliverResponse(t)
       PROVE  TypeOK'
  <2>1. PICK r \in responses :
          /\ responses' = responses \ {r}
          /\ thread' = [u \in Threads |->
                          IF thread[u].at = "applying" /\ CallOf(u) = r.id
                          THEN [thread[u] EXCEPT !.reply = r.result]
                          ELSE thread[u]]
    BY <1>16 DEF DeliverResponse
  <2>2. r.result \in Results
    BY <1>0
  <2>3. \A u \in Threads : [thread[u] EXCEPT !.reply = r.result] \in Thread
    BY <1>0, <2>2 DEF Thread
  <2>4. thread' \in [Threads -> Thread]
    BY <1>0, <2>1, <2>3
  <2>5. \A u \in Threads : thread'[u].req = thread[u].req /\ thread'[u].cb = thread[u].cb
    BY <1>0, <2>1 DEF Thread
  <2>6. \A u \in Threads : thread'[u].cb \in Ops => thread'[u].req \in Request
    BY <1>0, <2>5
  <2> QED  BY <1>0, <1>16, <2>1, <2>4, <2>6 DEF DeliverResponse, TypeOK, history
<1>17. CASE ApplyRequest
  <2>1. /\ applyQ' \in Seq([id : 0..MaxRequests, diff : Diff])
        /\ Head(applyQ).id \in 0..MaxRequests /\ Head(applyQ).diff \in Diff
    <3>1. applyQ # <<>> /\ applyQ' = Tail(applyQ)
      BY <1>17 DEF ApplyRequest
    <3>2. /\ Head(applyQ) \in [id : 0..MaxRequests, diff : Diff]
          /\ Tail(applyQ) \in Seq([id : 0..MaxRequests, diff : Diff])
      BY <1>0, <3>1, HeadTailProperties
    <3> QED  BY <3>1, <3>2
  <2>2. PICK result \in {"ok", "failed"} :
          /\ responses' = responses \cup {[id |-> Head(applyQ).id, result |-> result]}
          /\ scene' = IF result = "ok" THEN Overlay(scene, Head(applyQ).diff) ELSE scene
    BY <1>17 DEF ApplyRequest
  <2>3. responses' \subseteq [id : 0..MaxRequests, result : Results]
    BY <1>0, <2>1, <2>2 DEF Results
  <2>4. scene' \in [Objects -> Presence]
    BY <1>0, <2>1, <2>2, DiffTypes
  <2> QED  BY <1>0, <1>17, <2>1, <2>3, <2>4 DEF ApplyRequest, TypeOK, internal
<1>18. CASE DeliverTopic
  <2>1. topic # <<>> /\ topic' = Tail(topic)
    BY <1>18 DEF DeliverTopic
  <2>2. /\ topic' \in Seq(Message) /\ Len(topic') = Len(topic) - 1 /\ Len(topic) \in Nat
        /\ Head(topic) \in Message
    BY <1>0, <2>1, HeadTailProperties
  <2>3. Len(topic') <= TopicDepth
    BY <1>0, <2>2
  <2>4. scene' \in [Objects -> Presence]
    BY <1>0, <1>18, <2>2, DiffTypes DEF DeliverTopic, Message
  <2> QED  BY <1>0, <1>18, <2>2, <2>3, <2>4 DEF DeliverTopic, TypeOK, internal
<1>19. CASE DeliverWipe
  <2>1. scene' \in [Objects -> Presence]
    BY <1>0, <1>19, DiffTypes DEF DeliverWipe
  <2> QED  BY <1>0, <1>19, <2>1 DEF DeliverWipe, TypeOK, internal
<1>20. CASE Interfere
  <2>1. scene' \in [Objects -> Presence] /\ interfered' \in 0..MaxInterference
    BY <1>0, <1>20 DEF Interfere
  <2> QED  BY <1>0, <1>20, <2>1 DEF Interfere, TypeOK, internal
<1>21. CASE UNCHANGED vars
  BY <1>0, <1>21 DEF vars, TypeOK
<1> QED
  BY <1>1, <1>2, <1>3, <1>4, <1>5, <1>7, <1>8, <1>10, <1>11, <1>12, <1>13, <1>14,
     <1>15, <1>16, <1>17, <1>18, <1>19, <1>20, <1>21 DEF Next, Step

\* Type correctness of the scene manager.
THEOREM TypeCorrect == Spec => []TypeOK
<1> QED  BY InitTypeOK, TypeStep, PTL DEF Spec

-----------------------------------------------------------------------------
(***************************************************************************)
(* The inductive invariant.  What is forced matches what was promised      *)
(* because the default group runs one callback at a time (OneCallback), so *)
(* nothing fills forced_ between handleRemove's erase and its reply        *)
(* (RemovalForgets), and because the initial load overwrites every entry   *)
(* whose promise it changes (ForcedIsDynamic).                             *)
(***************************************************************************)
LEMMA TakesAlone ==
    ASSUME TypeOK, NEW t \in Threads, NEW cb, cb # "response", CanTake(t, cb)
    PROVE  \A u \in Threads : ~Busy(u)
<1> SUFFICES ASSUME NEW u \in Threads, Busy(u) PROVE FALSE
  OBVIOUS
<1>1. thread[u].cb # "response"
  BY DEF TypeOK, Thread, Ops
<1>2. Group(cb) = "default" /\ Group(thread[u].cb) = "default"
  BY <1>1 DEF Group
<1> QED  BY <1>2 DEF CanTake, Reentrant

LEMMA InitIInv == Init => IInv
<1> SUFFICES ASSUME Init PROVE IInv
  OBVIOUS
<1>1. TypeOK
  BY InitTypeOK
<1>2. \A t \in Threads : ~Busy(t)
  BY ThreadTypes DEF Init, Busy
<1> QED
  BY <1>1, <1>2
  DEF Init, IInv, OneCallback, RemovalForgets, ForcedIsDynamic, ForcedMatchesPromised

\* A step that makes no idle thread busy and starts no removal keeps the
\* invariant if it changes neither forced_ nor the promises.
LEMMA QuietStep ==
    ASSUME IInv, TypeOK', UNCHANGED <<forced, promised>>,
           \A u \in Threads :
               /\ thread'[u].at # "idle" => thread[u].at # "idle"
               /\ thread'[u].at = "applying" /\ thread'[u].cb = "remove"
                    => /\ thread[u].at = "applying" /\ thread[u].cb = "remove"
                       /\ thread'[u].req = thread[u].req
    PROVE  IInv'
<1>1. OneCallback'
  BY DEF IInv, OneCallback, Busy
<1>2. RemovalForgets'
  BY DEF IInv, RemovalForgets, Busy
<1> QED  BY <1>1, <1>2 DEF IInv, ForcedIsDynamic, ForcedMatchesPromised

\* A callback that starts is the only one.
LEMMA TakeStep ==
    ASSUME IInv, TypeOK', UNCHANGED <<forced, promised>>,
           NEW t \in Threads, NEW cb, cb # "response", CanTake(t, cb), NEW q,
           thread' = [thread EXCEPT ![t] = Taken(cb, q)]
    PROVE  IInv'
<1>1. \A u \in Threads : thread[u].at = "idle"
  BY TakesAlone DEF IInv, Busy
<1>2. thread \in [Threads -> Thread]
  BY DEF IInv, TypeOK
<1>3. \A u \in Threads : u # t => thread'[u].at = "idle"
  BY <1>1, <1>2
<1>4. thread'[t].at = "taken"
  BY <1>2 DEF Taken
<1>5. OneCallback'
  BY <1>3 DEF OneCallback, Busy
<1>6. RemovalForgets'
  <2> SUFFICES ASSUME NEW u \in Threads, thread'[u].at = "applying" PROVE FALSE
    BY DEF RemovalForgets
  <2> QED  BY <1>3, <1>4
<1> QED  BY <1>5, <1>6 DEF IInv, ForcedIsDynamic, ForcedMatchesPromised

\* The thread that finishes its callback leaves all the threads idle.
LEMMA FinishStep ==
    ASSUME IInv, TypeOK', NEW t \in Threads, Busy(t),
           thread' = [thread EXCEPT ![t] = Idle]
    PROVE  OneCallback' /\ RemovalForgets'
<1>1. thread \in [Threads -> Thread]
  BY DEF IInv, TypeOK
<1>2. \A u \in Threads : u # t => thread'[u].at = "idle"
  <2> SUFFICES ASSUME NEW u \in Threads, u # t PROVE thread'[u].at = "idle"
    OBVIOUS
  <2>1. thread'[u] = thread[u]
    BY <1>1
  <2> QED  BY <2>1 DEF IInv, OneCallback, Busy
<1>3. thread'[t].at = "idle"
  BY <1>1 DEF Idle
<1> QED  BY <1>2, <1>3 DEF OneCallback, RemovalForgets, Busy

\* Sending an apply request leaves the sender the only busy thread.
LEMMA SendStep ==
    ASSUME IInv, TypeOK', NEW t \in Threads, Busy(t), NEW d, SendApply(t, d),
           thread[t].cb = "remove" => forced'[thread[t].req.obj] = None
    PROVE  OneCallback' /\ RemovalForgets'
<1>1. thread \in [Threads -> Thread]
  BY DEF IInv, TypeOK
<1>2. ASSUME NEW u \in Threads, u # t
      PROVE  thread'[u].at = "idle"
  <2>1. thread'[u] = thread[u]
    BY <1>1, <1>2 DEF SendApply
  <2> QED  BY <2>1, <1>2 DEF IInv, OneCallback, Busy
<1>3. thread'[t].cb = thread[t].cb /\ thread'[t].req = thread[t].req
  BY <1>1 DEF SendApply, Thread
<1>4. OneCallback'
  BY <1>2 DEF OneCallback, Busy
<1>5. RemovalForgets'
  BY <1>2, <1>3 DEF RemovalForgets, Busy
<1> QED  BY <1>4, <1>5

\* The steps of one callback.
LEMMA CallbackStep ==
    ASSUME IInv, TypeOK', NEW t \in Threads, Step(t)
    PROVE  IInv'
<1>0. thread \in [Threads -> Thread] /\ TypeOK /\ forced \in [Objects -> Presence]
      /\ promised \in [Objects -> Presence]
  BY DEF IInv, TypeOK
<1>1. ASSUME NEW a \in {"applied", "acm"}, Busy(t), UNCHANGED <<forced, promised>>,
             thread' = [thread EXCEPT ![t].at = a]
      PROVE  IInv'
  <2>1. thread'[t].at = a
    BY <1>0, <1>1 DEF Thread
  <2>2. \A u \in Threads : u # t => thread'[u] = thread[u]
    BY <1>0, <1>1
  <2> QED  BY <1>1, <2>1, <2>2, QuietStep DEF Busy
<1>2. ASSUME Busy(t), UNCHANGED <<forced, promised>>,
             thread' = [thread EXCEPT ![t] = Idle]
      PROVE  IInv'
  BY <1>2, FinishStep DEF IInv, ForcedIsDynamic, ForcedMatchesPromised
<1>3. CASE LoadInitialScene(t)
  <2>1. /\ Busy(t) /\ thread[t].cb = "init"
        /\ forced' = [o \in Objects |->
                        IF o \in Built \cap Dynamic THEN InitPose ELSE forced[o]]
        /\ promised' = [o \in Objects |->
                          IF o \in Built THEN InitPose ELSE promised[o]]
    BY <1>3 DEF LoadInitialScene, Busy
  <2>2. ForcedIsDynamic'
    BY <2>1 DEF IInv, ForcedIsDynamic
  <2>3. ForcedMatchesPromised'
    BY <2>1 DEF IInv, ForcedIsDynamic, ForcedMatchesPromised
  <2>4. OneCallback' /\ RemovalForgets'
    <3>1. CASE thread' = [thread EXCEPT ![t] = Idle]
      BY <2>1, <3>1, FinishStep
    <3>2. CASE thread' = [thread EXCEPT ![t].at = "applied"]
      <4>1. ASSUME NEW u \in Threads, u # t
            PROVE  thread'[u].at = "idle"
        <5>1. thread'[u] = thread[u]
          BY <1>0, <3>2, <4>1
        <5> QED  BY <5>1, <2>1, <4>1 DEF IInv, OneCallback, Busy
      <4>2. thread'[t].at = "applied"
        BY <1>0, <3>2 DEF Thread
      <4> QED  BY <4>1, <4>2 DEF OneCallback, RemovalForgets, Busy
    <3>3. CASE SendApply(t, InitialDiff)
      BY <2>1, <3>3, SendStep
    <3> QED  BY <1>3, <3>1, <3>2, <3>3 DEF LoadInitialScene
  <2> QED  BY <2>2, <2>3, <2>4 DEF IInv
<1>4. CASE InitialApplyReturns(t)
  BY <1>1, <1>4 DEF InitialApplyReturns, Busy
<1>5. CASE PublishAcm(t)
  BY <1>1, <1>5 DEF PublishAcm, Busy
<1>6. CASE FinishLoad(t)
  BY <1>2, <1>6 DEF FinishLoad, Busy, history
<1>7. CASE ReassertDynamic(t)
  BY <1>2, <1>7 DEF ReassertDynamic, Busy
<1>8. CASE HandleRemove(t)
  <2>1. /\ Busy(t) /\ thread[t].cb = "remove" /\ UNCHANGED promised
        /\ forced' = [forced EXCEPT ![thread[t].req.obj] = None]
    BY <1>8 DEF HandleRemove, Busy, history
  <2>2. thread[t].req.obj \in Objects
    BY <1>0, <2>1 DEF TypeOK, Ops, Request
  <2>3. ForcedIsDynamic' /\ ForcedMatchesPromised'
    BY <1>0, <2>1 DEF IInv, ForcedIsDynamic, ForcedMatchesPromised
  <2>4. forced'[thread[t].req.obj] = None
    BY <1>0, <2>1, <2>2
  <2>5. OneCallback' /\ RemovalForgets'
    BY <1>8, <2>1, <2>4, SendStep, FinishStep DEF HandleRemove, Reply
  <2> QED  BY <2>3, <2>5 DEF IInv
<1>9. CASE HandleSetPose(t)
  <2>1. Busy(t) /\ thread[t].cb # "remove" /\ UNCHANGED <<forced, promised>>
    BY <1>9 DEF HandleSetPose, Busy, history
  <2>2. OneCallback' /\ RemovalForgets'
    BY <1>9, <2>1, SendStep, FinishStep DEF HandleSetPose, Reply
  <2> QED  BY <2>1, <2>2 DEF IInv, ForcedIsDynamic, ForcedMatchesPromised
<1>10. CASE RequestFails(t)
  BY <1>2, <1>10 DEF RequestFails, Reply, Busy
<1>11. CASE RequestSucceeds(t)
  <2> DEFINE o == thread[t].req.obj
             p == thread[t].req.pose
  <2>1. /\ Busy(t) /\ thread[t].at = "applying" /\ thread[t].cb \in Ops
        /\ thread' = [thread EXCEPT ![t] = Idle]
        /\ forced' = IF thread[t].cb = "setPose" /\ o \in Dynamic
                     THEN [forced EXCEPT ![o] = p] ELSE forced
        /\ promised' = [promised EXCEPT ![o] = p]
    BY <1>11 DEF RequestSucceeds, Reply, Busy
  <2>2. o \in Objects
    BY <1>0, <2>1 DEF TypeOK, Request
  <2>3. ForcedIsDynamic'
    BY <1>0, <2>1, <2>2 DEF IInv, ForcedIsDynamic
  <2>4. ForcedMatchesPromised'
    <3>1. CASE thread[t].cb = "setPose" /\ o \in Dynamic
      BY <1>0, <2>1, <2>2, <3>1 DEF IInv, ForcedMatchesPromised
    <3>2. CASE ~(thread[t].cb = "setPose" /\ o \in Dynamic)
      <4>1. forced' = forced
        BY <2>1, <3>2
      <4>2. forced[o] = None
        <5>1. CASE thread[t].cb = "remove"
          BY <2>1, <5>1 DEF IInv, RemovalForgets
        <5>2. CASE o \notin Dynamic
          BY <2>2, <5>2 DEF IInv, ForcedIsDynamic
        <5> QED  BY <2>1, <3>2, <5>1, <5>2 DEF Ops
      <4> QED  BY <1>0, <2>1, <4>1, <4>2 DEF IInv, ForcedMatchesPromised
    <3> QED  BY <3>1, <3>2
  <2>5. OneCallback' /\ RemovalForgets'
    BY <2>1, FinishStep
  <2> QED  BY <2>3, <2>4, <2>5 DEF IInv
<1> QED
  BY <1>3, <1>4, <1>5, <1>6, <1>7, <1>8, <1>9, <1>10, <1>11 DEF Step

LEMMA InvStep == IInv /\ [Next]_vars => IInv'
<1> SUFFICES ASSUME IInv, [Next]_vars PROVE IInv'
  OBVIOUS
<1>1. TypeOK'
  BY TypeStep DEF IInv
<1>2. ASSUME UNCHANGED <<thread, forced, promised>>
      PROVE  IInv'
  BY <1>1, <1>2, QuietStep
<1>3. ASSUME NEW op \in Ops, NEW o \in Objects, NEW p \in Presence, Arrive(op, o, p)
      PROVE  IInv'
  BY <1>2, <1>3 DEF Arrive, history
<1>4. ASSUME NEW t \in Threads, WipeScene(t)
      PROVE  IInv'
  BY <1>1, <1>4, TakeStep DEF WipeScene, history
<1>5. ASSUME NEW t \in Threads, NEW op \in Ops, TakeRequest(t, op)
      PROVE  IInv'
  <2>1. op # "response"
    BY DEF Ops
  <2> QED  BY <1>1, <1>5, <2>1, TakeStep DEF TakeRequest, history
<1>6. ASSUME NEW t \in Threads, TakeForce(t)
      PROVE  IInv'
  BY <1>1, <1>6, TakeStep DEF TakeForce, history
<1>7. ASSUME NEW t \in Threads, Step(t)
      PROVE  IInv'
  BY <1>1, <1>7, CallbackStep
<1>8. ASSUME NEW t \in Threads, DeliverResponse(t)
      PROVE  IInv'
  <2>1. thread \in [Threads -> Thread]
    BY DEF IInv, TypeOK
  <2>2. PICK r \in responses :
          thread' = [u \in Threads |->
                       IF thread[u].at = "applying" /\ CallOf(u) = r.id
                       THEN [thread[u] EXCEPT !.reply = r.result]
                       ELSE thread[u]]
    BY <1>8 DEF DeliverResponse
  <2>3. ASSUME NEW u \in Threads
        PROVE  /\ thread'[u].at = thread[u].at
               /\ thread'[u].cb = thread[u].cb
               /\ thread'[u].req = thread[u].req
    <3>1. thread[u] \in Thread
      BY <2>1
    <3>2. thread'[u] = thread[u] \/ thread'[u] = [thread[u] EXCEPT !.reply = r.result]
      BY <2>2
    <3> QED  BY <3>1, <3>2 DEF Thread
  <2>4. UNCHANGED <<forced, promised>>
    BY <1>8 DEF DeliverResponse, history
  <2> QED  BY <1>1, <2>3, <2>4, QuietStep
<1>9. CASE ApplyRequest
  BY <1>2, <1>9 DEF ApplyRequest, internal
<1>10. CASE DeliverTopic
  BY <1>2, <1>10 DEF DeliverTopic, internal
<1>11. CASE DeliverWipe
  BY <1>2, <1>11 DEF DeliverWipe, internal
<1>12. CASE Interfere
  BY <1>2, <1>12 DEF Interfere, internal
<1>13. CASE UNCHANGED vars
  BY <1>2, <1>13 DEF vars
<1> QED
  BY <1>3, <1>4, <1>5, <1>6, <1>7, <1>8, <1>9, <1>10, <1>11, <1>12, <1>13 DEF Next

\* The types and the exclusion of the default group are kept for ever.
THEOREM Invariant == Spec => []IInv
<1> QED  BY InitIInv, InvStep, PTL DEF Spec

\* What the republisher reasserts is what was last declared or acknowledged.
THEOREM ForcedCorrect == Spec => []ForcedMatchesPromised
<1>1. IInv => ForcedMatchesPromised
  BY DEF IInv
<1> QED  BY <1>1, Invariant, PTL

\* The initial load, which takes no lock, races with no other callback.
THEOREM LoadIsRaceFree == Spec => []RaceFree
<1>1. IInv => RaceFree
  BY DEF IInv, OneCallback, RaceFree
<1> QED  BY <1>1, Invariant, PTL

\* With two executor threads or more, a callback that waits for move_group
\* never holds the last thread: another one may deliver the response.
THEOREM WaitIsServed == Spec => []ResponderAvailable
<1>1. IInv => ResponderAvailable
  <2> SUFFICES ASSUME IInv, NEW t \in Threads, thread[t].at = "applying"
               PROVE  \E u \in Threads : CanTake(u, "response")
    BY DEF ResponderAvailable
  <2>1. PICK u \in Threads : u # t
    BY TwoThreads
  <2>2. ~Busy(u)
    BY <2>1 DEF IInv, OneCallback, Busy
  <2>3. CanTake(u, "response")
    BY <2>2 DEF CanTake, Group, Reentrant
  <2> QED  BY <2>3
<1> QED  BY <1>1, Invariant, PTL

-----------------------------------------------------------------------------
(***************************************************************************)
(* The topic.  Appending keeps TopicTailAgrees when the new message says   *)
(* what is promised and no other promise changes; a queue that overruns or *)
(* delivers only loses old messages.  The promises of the initial load     *)
(* change while the topic is empty, because a settle sleep came before.    *)
(***************************************************************************)

\* A suffix of the topic with one more message, or none.
LEMMA SuffixAgrees ==
    ASSUME NEW n \in Nat, NEW k \in Nat,
           topic \in Seq(Message), topic' \in Seq(Message),
           Len(topic') = n, Len(topic) = n + k,
           \A i \in 1..n : topic'[i] = topic[i + k],
           UNCHANGED promised, TopicTailAgrees
    PROVE  TopicTailAgrees'
<1> SUFFICES ASSUME NEW o \in Objects, NEW i \in 1..n,
                    topic'[i].world[o] # Keep,
                    \A j \in (i + 1)..n : topic'[j].world[o] = Keep
             PROVE  topic'[i].world[o] = promised'[o]
  BY DEF TopicTailAgrees
<1>1. i + k \in 1..Len(topic) /\ topic[i + k].world[o] # Keep
  OBVIOUS
<1>2. ASSUME NEW j \in (i + k + 1)..Len(topic)
      PROVE  topic[j].world[o] = Keep
  <2>1. j - k \in (i + 1)..n /\ topic'[j - k] = topic[(j - k) + k]
    OBVIOUS
  <2>2. (j - k) + k = j
    OBVIOUS
  <2> QED  BY <2>1, <2>2
<1>3. topic[i + k].world[o] = promised[o]
  BY <1>1, <1>2 DEF TopicTailAgrees
<1> QED  BY <1>3

LEMMA AppendAgrees ==
    ASSUME NEW n \in Nat, NEW k \in Nat, NEW m,
           topic \in Seq(Message), topic' \in Seq(Message),
           Len(topic') = n + 1, Len(topic) = n + k,
           \A i \in 1..n : topic'[i] = topic[i + k],
           topic'[n + 1] = m,
           \A o \in Objects : IF m.world[o] = Keep THEN promised'[o] = promised[o]
                              ELSE promised'[o] = m.world[o],
           TopicTailAgrees
    PROVE  TopicTailAgrees'
<1> SUFFICES ASSUME NEW o \in Objects, NEW i \in 1..(n + 1),
                    topic'[i].world[o] # Keep,
                    \A j \in (i + 1)..(n + 1) : topic'[j].world[o] = Keep
             PROVE  topic'[i].world[o] = promised'[o]
  BY DEF TopicTailAgrees
<1>1. CASE i = n + 1
  BY <1>1
<1>2. CASE i # n + 1
  <2>1. i \in 1..n /\ n + 1 \in (i + 1)..(n + 1)
    BY <1>2
  <2>2. promised'[o] = promised[o]
    BY <2>1
  <2>3. i + k \in 1..Len(topic) /\ topic'[i] = topic[i + k]
    BY <2>1
  <2>4. ASSUME NEW j \in (i + k + 1)..Len(topic)
        PROVE  topic[j].world[o] = Keep
    <3>1. j - k \in (i + 1)..n
      BY <2>4, <2>1
    <3>2. topic'[j - k] = topic[(j - k) + k] /\ topic'[j - k].world[o] = Keep
      BY <3>1, <2>1
    <3>3. (j - k) + k = j
      OBVIOUS
    <3> QED  BY <3>2, <3>3
  <2>5. topic[i + k].world[o] = promised[o]
    BY <2>3, <2>4 DEF TopicTailAgrees
  <2> QED  BY <2>2, <2>3, <2>5
<1> QED  BY <1>1, <1>2

LEMMA PublishAgrees ==
    ASSUME TypeOK, TopicTailAgrees, NEW m \in Message, Publish(m),
           \A o \in Objects : IF m.world[o] = Keep THEN promised'[o] = promised[o]
                              ELSE promised'[o] = m.world[o]
    PROVE  TopicTailAgrees'
<1>1. topic \in Seq(Message) /\ Len(topic) <= TopicDepth /\ Len(topic) \in Nat
      /\ TopicDepth \in Nat \ {0}
  BY SceneAssumption DEF TypeOK
<1>2. topic' \in Seq(Message)
  BY PublishType
<1>3. CASE Len(topic) < TopicDepth
  <2>1. topic' = Append(topic, m)
    BY <1>3 DEF Publish, Pushed
  <2> DEFINE n == Len(topic)
             k == 0
  <2>2. n \in Nat /\ k \in Nat /\ Len(topic) = n + k
    BY <1>1
  <2>3. /\ Len(topic') = n + 1
        /\ \A i \in 1..n : topic'[i] = topic[i + k]
        /\ topic'[n + 1] = m
    BY <1>1, <2>1
  <2> HIDE DEF n, k
  <2> QED  BY <1>1, <1>2, <2>2, <2>3, AppendAgrees
<1>4. CASE ~(Len(topic) < TopicDepth)
  <2>1. topic' = Append(Tail(topic), m)
    BY <1>4 DEF Publish, Pushed
  <2>2. topic # <<>>
    BY <1>1, <1>4
  <2>3. /\ Tail(topic) \in Seq(Message) /\ Len(Tail(topic)) = Len(topic) - 1
        /\ \A i \in 1..Len(Tail(topic)) : Tail(topic)[i] = topic[i + 1]
    BY <1>1, <2>2, HeadTailProperties
  <2> DEFINE n == Len(topic) - 1
             k == 1
  <2>4. n \in Nat /\ k \in Nat /\ Len(topic) = n + k
    BY <1>1, <1>4
  <2>5. /\ Len(topic') = n + 1
        /\ \A i \in 1..n : topic'[i] = topic[i + k]
        /\ topic'[n + 1] = m
    BY <2>1, <2>3, <2>4
  <2> HIDE DEF n, k
  <2> QED  BY <1>1, <1>2, <2>4, <2>5, AppendAgrees
<1> QED  BY <1>3, <1>4

LEMMA TopicStep ==
    ASSUME SettleDrains, IInv, TopicTailAgrees, [Next]_vars
    PROVE  TopicTailAgrees'
<1>0. /\ TypeOK /\ topic \in Seq(Message) /\ forced \in [Objects -> Presence]
      /\ promised \in [Objects -> Presence] /\ thread \in [Threads -> Thread]
      /\ TypeOK'
  BY TypeStep DEF IInv, TypeOK
<1>1. ASSUME UNCHANGED <<topic, promised>>
      PROVE  TopicTailAgrees'
  BY <1>1 DEF TopicTailAgrees
<1>2. ASSUME NEW t \in Threads, LoadInitialScene(t)
      PROVE  TopicTailAgrees'
  <2>1. topic' = <<>>
    BY <1>2 DEF LoadInitialScene, Settled
  <2> QED  BY <2>1 DEF TopicTailAgrees
<1>3. ASSUME NEW t \in Threads, PublishAcm(t)
      PROVE  TopicTailAgrees'
  <2> DEFINE m == [world |-> [o \in Objects |-> Keep], acm |-> TRUE]
  <2>1. m \in Message
    BY DEF Message, Diff
  <2>2. Publish(m) /\ UNCHANGED promised
    BY <1>3 DEF PublishAcm
  <2>3. \A o \in Objects : m.world[o] = Keep
    OBVIOUS
  <2> HIDE DEF m
  <2> QED  BY <1>0, <2>1, <2>2, <2>3, PublishAgrees
<1>4. ASSUME NEW t \in Threads, ReassertDynamic(t)
      PROVE  TopicTailAgrees'
  <2> DEFINE m == [world |-> [o \in Objects |-> IF forced[o] = None THEN Keep
                                                ELSE forced[o]],
                   acm |-> FALSE]
  <2>1. m \in Message
    BY <1>0 DEF Message, Diff
  <2>2. CASE UNCHANGED topic
    BY <1>1, <1>4, <2>2 DEF ReassertDynamic
  <2>3. CASE Publish(m)
    <3>1. UNCHANGED promised
      BY <1>4 DEF ReassertDynamic
    <3>2. \A o \in Objects : m.world[o] # Keep => m.world[o] = promised[o]
      BY DEF IInv, ForcedMatchesPromised
    <3> HIDE DEF m
    <3> QED  BY <1>0, <2>1, <2>3, <3>1, <3>2, PublishAgrees
  <2> QED  BY <1>4, <2>2, <2>3 DEF ReassertDynamic
<1>5. ASSUME NEW t \in Threads, RequestSucceeds(t)
      PROVE  TopicTailAgrees'
  <2> DEFINE o == thread[t].req.obj
             p == thread[t].req.pose
             m == [world |-> Only(o, p), acm |-> FALSE]
  <2>1. o \in Objects /\ p \in Presence
    BY <1>0, <1>5 DEF RequestSucceeds, TypeOK, Request
  <2>2. m \in Message
    BY <2>1, DiffTypes DEF Message
  <2>3. Publish(m) /\ promised' = [promised EXCEPT ![o] = p]
    BY <1>5 DEF RequestSucceeds
  <2>4. p # Keep
    BY <2>1, SceneAssumption DEF Presence
  <2>5. \A x \in Objects : m.world[x] = IF x = o THEN p ELSE Keep
    BY DEF Only
  <2>6. \A x \in Objects : IF m.world[x] = Keep THEN promised'[x] = promised[x]
                           ELSE promised'[x] = m.world[x]
    BY <1>0, <2>1, <2>3, <2>4, <2>5
  <2> HIDE DEF m
  <2> QED  BY <1>0, <2>2, <2>3, <2>6, PublishAgrees
<1>6. ASSUME NEW t \in Threads, Step(t)
      PROVE  TopicTailAgrees'
  <2>1. CASE InitialApplyReturns(t)
    BY <1>1, <2>1 DEF InitialApplyReturns, external
  <2>2. CASE FinishLoad(t)
    BY <1>1, <2>2 DEF FinishLoad, external, history
  <2>3. CASE HandleRemove(t)
    BY <1>1, <2>3 DEF HandleRemove, history
  <2>4. CASE HandleSetPose(t)
    BY <1>1, <2>4 DEF HandleSetPose, history
  <2>5. CASE RequestFails(t)
    BY <1>1, <2>5 DEF RequestFails, external
  <2> QED
    BY <1>2, <1>3, <1>4, <1>5, <1>6, <2>1, <2>2, <2>3, <2>4, <2>5 DEF Step
<1>7. CASE DeliverTopic
  <2>1. topic # <<>> /\ topic' = Tail(topic) /\ UNCHANGED promised
    BY <1>7 DEF DeliverTopic, internal
  <2> DEFINE n == Len(topic) - 1
  <2>2. n \in Nat /\ 1 \in Nat /\ Len(topic) = n + 1
    BY <1>0, <2>1, EmptySeq
  <2>3. /\ topic' \in Seq(Message) /\ Len(topic') = n
        /\ \A i \in 1..n : topic'[i] = topic[i + 1]
    BY <1>0, <2>1, HeadTailProperties
  <2> HIDE DEF n
  <2> QED  BY <1>0, <2>1, <2>2, <2>3, SuffixAgrees
<1>8. ASSUME NEW t \in Threads, WipeScene(t)
      PROVE  TopicTailAgrees'
  BY <1>1, <1>8 DEF WipeScene, history
<1>9. ASSUME NEW t \in Threads,
             (\E op \in Ops : TakeRequest(t, op)) \/ TakeForce(t) \/ DeliverResponse(t)
      PROVE  TopicTailAgrees'
  BY <1>1, <1>9 DEF TakeRequest, TakeForce, DeliverResponse, external, history
<1>10. ASSUME NEW op \in Ops, NEW o \in Objects, NEW p \in Presence, Arrive(op, o, p)
       PROVE  TopicTailAgrees'
  BY <1>1, <1>10 DEF Arrive, external, history
<1>11. CASE ApplyRequest \/ DeliverWipe \/ Interfere
  BY <1>1, <1>11 DEF ApplyRequest, DeliverWipe, Interfere, internal
<1>12. CASE UNCHANGED vars
  BY <1>1, <1>12 DEF vars
<1> QED
  BY <1>6, <1>7, <1>8, <1>9, <1>10, <1>11, <1>12 DEF Next

\* If a settle sleep outlasts the topic's latency, the last message in flight
\* about an object says what was last declared or acknowledged.
THEOREM TopicCorrect ==
    ASSUME SettleDrains
    PROVE  Spec => []TopicTailAgrees
<1>1. Init => TopicTailAgrees
  BY DEF Init, TopicTailAgrees
<1>2. IInv /\ TopicTailAgrees /\ [Next]_vars => TopicTailAgrees'
  BY TopicStep
<1> QED  BY <1>1, <1>2, Invariant, PTL DEF Spec

-----------------------------------------------------------------------------
(***************************************************************************)
(* SceneManager implements SceneLedger.                                    *)
(***************************************************************************)

\* The calls to move_group that are not yet used or dropped.
Sent == {applyQ[i].id : i \in 1..Len(applyQ)} \cup {r.id : r \in responses}

\* A thread that has not sent its call yet, or has its answer.
Unsent(t) ==
    \/ thread[t].at = "taken"
    \/ thread[t].at = "applying" /\ thread[t].reply \in Results

ThreadShape ==
    \A t \in Threads :
        /\ thread[t].at = "idle" <=> thread[t].cb = "none"
        /\ thread[t].at = "applying" => thread[t].cb \in Ops \cup {"init"}
        /\ thread[t].at \in {"applied", "acm"} => thread[t].cb = "init"

\* The load runs once; until its answer is used no promise changes.
LoadShape ==
    \A t \in Threads : thread[t].cb = "init" =>
        /\ initialLoaded
        /\ thread[t].at = "applying" => \A o \in Built : promised[o] = InitPose

\* No two places of the queues hold the same request.
QueuesApart ==
    \A op1, op2 \in Ops : \A i \in 1..Len(queue[op1]), j \in 1..Len(queue[op2]) :
        queue[op1][i].id = queue[op2][j].id => op1 = op2 /\ i = j

RequestsApart ==
    /\ \A r \in Queued : r.id <= Len(outcome)
    /\ \A t \in Serving : thread[t].req.id <= Len(outcome)
    /\ \A t \in Serving, r \in Queued : thread[t].req.id # r.id

\* A call is in one place between its sending and the use of its answer.
CallsApart ==
    /\ \A n \in Sent : n <= Len(outcome)
    /\ \A i, j \in 1..Len(applyQ) : applyQ[i].id = applyQ[j].id => i = j
    /\ \A i \in 1..Len(applyQ), r \in responses : applyQ[i].id # r.id
    /\ \A r, s \in responses : r.id = s.id => r = s

\* No answer is there before its question, nor after its use.
NotYetSent ==
    /\ \A r \in Queued : r.id \notin Sent
    /\ \A t \in Threads : Unsent(t) /\ thread[t].cb \in Ops \cup {"init"}
                            => CallOf(t) \notin Sent
    /\ ~initialLoaded => 0 \notin Sent

LInv ==
    /\ IInv
    /\ ThreadShape
    /\ LoadShape
    /\ QueuesApart
    /\ RequestsApart
    /\ CallsApart
    /\ NotYetSent

-----------------------------------------------------------------------------
\* What the types say of the sets above.
LEMMA LedgerTypes ==
    ASSUME TypeOK
    PROVE  /\ Queued \subseteq Request
           /\ \A t \in Serving : thread[t].req \in Request /\ t \in Threads
           /\ \A r \in Request :
                r.id \in Nat /\ r.id >= 1 /\ r.obj \in Objects /\ r.pose \in Presence
           /\ \A n \in Sent : n \in Nat
           /\ Len(outcome) \in Nat
           /\ Unanswered = Queued \cup {thread[t].req : t \in Serving}
<1>1. queue \in [Ops -> Seq(Request)]
  BY DEF TypeOK
<1>2. ASSUME NEW op \in Ops, NEW i \in 1..Len(queue[op])
      PROVE  queue[op][i] \in Request
  <2>1. queue[op] \in Seq(Request)
    BY <1>1
  <2> QED  BY <2>1, ElementOfSeq
<1>3. Queued \subseteq Request
  BY <1>2 DEF Queued
<1>4. \A t \in Serving : thread[t].req \in Request /\ t \in Threads
  BY DEF TypeOK, Serving
<1>5. \A r \in Request : r.id \in Nat /\ r.id >= 1 /\ r.obj \in Objects /\ r.pose \in Presence
  BY SceneAssumption DEF Request
<1>6. ASSUME NEW i \in 1..Len(applyQ)
      PROVE  applyQ[i].id \in Nat
  <2>1. applyQ[i] \in [id : 0..MaxRequests, diff : Diff]
    BY ElementOfSeq DEF TypeOK
  <2> QED  BY <2>1, SceneAssumption
<1>7. \A r \in responses : r.id \in Nat
  BY SceneAssumption DEF TypeOK
<1>8. \A n \in Sent : n \in Nat
  BY <1>6, <1>7 DEF Sent
<1>9. Len(outcome) \in Nat
  BY LenProperties DEF TypeOK
<1>10. Unanswered = Queued \cup {thread[t].req : t \in Serving}
  BY DEF Unanswered
<1> QED  BY <1>3, <1>4, <1>5, <1>8, <1>9, <1>10

\* A request enters one queue behind the others, under a new number.
LEMMA QueueArrives ==
    ASSUME TypeOK, QueuesApart, RequestsApart,
           NEW op \in Ops, NEW o \in Objects, NEW p \in Presence, Arrive(op, o, p),
           NEW r, r = [id |-> Len(outcome) + 1, obj |-> o, pose |-> p]
    PROVE  /\ Queued' = Queued \cup {r}
           /\ QueuesApart'
<1>1. queue \in [Ops -> Seq(Request)] /\ queue[op] \in Seq(Request) /\ Len(queue[op]) \in Nat
  BY DEF TypeOK
<1>2. Len(outcome) \in Nat /\ Len(outcome) < MaxRequests
  BY LedgerTypes DEF Arrive
<1>3. r \in Request
  BY <1>2, SceneAssumption DEF Request
<1>4. queue'[op] = Append(queue[op], r) /\ \A x \in Ops : x # op => queue'[x] = queue[x]
  BY <1>1 DEF Arrive
<1>5. /\ Len(queue'[op]) = Len(queue[op]) + 1
      /\ \A i \in 1..Len(queue[op]) : queue'[op][i] = queue[op][i]
      /\ queue'[op][Len(queue[op]) + 1] = r
  BY <1>1, <1>3, <1>4
<1>6. \A x \in Ops : \A i \in 1..Len(queue[x]) : queue[x][i] \in Queued
  BY DEF Queued
<1>7. \A x \in Ops : \A i \in 1..Len(queue[x]) : queue[x][i].id # r.id
  <2> SUFFICES ASSUME NEW x \in Ops, NEW i \in 1..Len(queue[x]) PROVE queue[x][i].id # r.id
    OBVIOUS
  <2>1. queue[x][i].id \in Nat /\ queue[x][i].id <= Len(outcome)
    BY <1>6, LedgerTypes DEF RequestsApart
  <2> QED  BY <2>1, <1>2
<1>8. Queued' = Queued \cup {r}
  <2>1. ASSUME NEW q \in Queued'
        PROVE  q \in Queued \cup {r}
    <3>0. PICK x \in Ops : \E i \in 1..Len(queue'[x]) : q = queue'[x][i]
      BY DEF Queued
    <3>1. PICK i \in 1..Len(queue'[x]) : q = queue'[x][i]
      BY <3>0
    <3>2. CASE x = op /\ i = Len(queue[op]) + 1
      BY <3>1, <3>2, <1>5
    <3>3. CASE x = op /\ i # Len(queue[op]) + 1
      <4>1. i \in 1..Len(queue[op])
        BY <1>1, <1>5, <3>3
      <4> QED  BY <3>1, <3>3, <4>1, <1>5, <1>6
    <3>4. CASE x # op
      BY <3>1, <3>4, <1>4, <1>6
    <3> QED  BY <3>2, <3>3, <3>4
  <2>2. ASSUME NEW q \in Queued
        PROVE  q \in Queued'
    <3>0. PICK x \in Ops : \E i \in 1..Len(queue[x]) : q = queue[x][i]
      BY DEF Queued
    <3>1. PICK i \in 1..Len(queue[x]) : q = queue[x][i]
      BY <3>0
    <3>2. i \in 1..Len(queue'[x]) /\ queue'[x][i] = q
      <4>1. CASE x = op
        BY <1>1, <1>5, <3>1, <4>1
      <4>2. CASE x # op
        BY <1>4, <3>1, <4>2
      <4> QED  BY <4>1, <4>2
    <3> QED  BY <3>2 DEF Queued
  <2>3. r \in Queued'
    <3>1. Len(queue[op]) + 1 \in 1..Len(queue'[op])
      BY <1>1, <1>5
    <3> QED  BY <3>1, <1>5 DEF Queued
  <2> QED  BY <2>1, <2>2, <2>3
<1>9. QueuesApart'
  <2> SUFFICES ASSUME NEW x \in Ops, NEW y \in Ops,
                      NEW i \in 1..Len(queue'[x]), NEW j \in 1..Len(queue'[y]),
                      queue'[x][i].id = queue'[y][j].id
               PROVE  x = y /\ i = j
    BY DEF QueuesApart
  <2>1. ASSUME NEW z \in Ops, NEW k \in 1..Len(queue'[z])
        PROVE  \/ z = op /\ k = Len(queue[op]) + 1 /\ queue'[z][k].id = r.id
               \/ k \in 1..Len(queue[z]) /\ queue'[z][k] = queue[z][k]
    <3>1. CASE z = op
      BY <1>1, <1>5, <3>1
    <3>2. CASE z # op
      BY <1>4, <3>2
    <3> QED  BY <3>1, <3>2
  <2>2. CASE i \in 1..Len(queue[x]) /\ queue'[x][i] = queue[x][i]
    <3>1. CASE j \in 1..Len(queue[y]) /\ queue'[y][j] = queue[y][j]
      BY <2>2, <3>1 DEF QueuesApart
    <3>2. CASE y = op /\ j = Len(queue[op]) + 1 /\ queue'[y][j].id = r.id
      BY <2>2, <3>2, <1>7
    <3> QED  BY <2>1, <3>1, <3>2
  <2>3. CASE x = op /\ i = Len(queue[op]) + 1 /\ queue'[x][i].id = r.id
    BY <2>1, <2>3, <1>7
  <2> QED  BY <2>1, <2>2, <2>3
<1> QED  BY <1>8, <1>9

\* The request at the head of a queue leaves the queues.
LEMMA QueueTaken ==
    ASSUME TypeOK, QueuesApart, NEW t \in Threads, NEW op \in Ops, TakeRequest(t, op),
           NEW r, r = Head(queue[op])
    PROVE  /\ r \in Queued
           /\ Queued' = Queued \ {r}
           /\ \A q \in Queued' : q.id # r.id
           /\ QueuesApart'
<1>1. queue \in [Ops -> Seq(Request)] /\ queue[op] \in Seq(Request) /\ queue[op] # <<>>
  BY DEF TypeOK, TakeRequest
<1>2. queue'[op] = Tail(queue[op]) /\ \A x \in Ops : x # op => queue'[x] = queue[x]
  BY <1>1 DEF TakeRequest
<1>3. /\ Len(queue[op]) \in Nat \ {0}
      /\ Len(queue'[op]) = Len(queue[op]) - 1
      /\ \A i \in 1..Len(queue'[op]) : queue'[op][i] = queue[op][i + 1]
      /\ r = queue[op][1]
  BY <1>1, <1>2, HeadTailProperties, EmptySeq
<1>4. r \in Queued
  <2>1. 1 \in 1..Len(queue[op])
    BY <1>3
  <2> QED  BY <2>1, <1>3 DEF Queued
<1>5. ASSUME NEW x \in Ops, NEW i \in 1..Len(queue'[x])
      PROVE  \E j \in 1..Len(queue[x]) :
                /\ queue'[x][i] = queue[x][j]
                /\ x = op => j = i + 1
                /\ x # op => j = i
  <2>1. CASE x = op
    <3>1. i + 1 \in 1..Len(queue[x]) /\ queue'[x][i] = queue[x][i + 1]
      BY <1>3, <2>1
    <3> QED  BY <2>1, <3>1
  <2>2. CASE x # op
    BY <1>2, <2>2
  <2> QED  BY <2>1, <2>2
<1>6. QueuesApart'
  <2> SUFFICES ASSUME NEW x \in Ops, NEW y \in Ops,
                      NEW i \in 1..Len(queue'[x]), NEW j \in 1..Len(queue'[y]),
                      queue'[x][i].id = queue'[y][j].id
               PROVE  x = y /\ i = j
    BY DEF QueuesApart
  <2>1. PICK k \in 1..Len(queue[x]) :
          queue'[x][i] = queue[x][k] /\ (x = op => k = i + 1) /\ (x # op => k = i)
    BY <1>5
  <2>2. PICK l \in 1..Len(queue[y]) :
          queue'[y][j] = queue[y][l] /\ (y = op => l = j + 1) /\ (y # op => l = j)
    BY <1>5
  <2>3. x = y /\ k = l
    BY <2>1, <2>2 DEF QueuesApart
  <2> QED  BY <2>1, <2>2, <2>3
<1>7. ASSUME NEW q \in Queued'
      PROVE  q \in Queued /\ q.id # r.id
  <2>0. PICK x \in Ops : \E i \in 1..Len(queue'[x]) : q = queue'[x][i]
    BY DEF Queued
  <2>1. PICK i \in 1..Len(queue'[x]) : q = queue'[x][i]
    BY <2>0
  <2>2. PICK k \in 1..Len(queue[x]) :
          queue'[x][i] = queue[x][k] /\ (x = op => k = i + 1) /\ (x # op => k = i)
    BY <1>5
  <2>3. q \in Queued
    BY <2>1, <2>2 DEF Queued
  <2>4. 1 \in 1..Len(queue[op]) /\ ~(x = op /\ k = 1)
    BY <1>3, <2>2
  <2>5. queue[x][k].id # queue[op][1].id
    BY <2>4 DEF QueuesApart
  <2> QED  BY <2>1, <2>2, <2>3, <2>5, <1>3
<1>8. ASSUME NEW q \in Queued, q # r
      PROVE  q \in Queued'
  <2>0. PICK x \in Ops : \E k \in 1..Len(queue[x]) : q = queue[x][k]
    BY DEF Queued
  <2>1. PICK k \in 1..Len(queue[x]) : q = queue[x][k]
    BY <2>0
  <2>2. CASE x # op
    BY <2>1, <2>2, <1>2 DEF Queued
  <2>3. CASE x = op
    <3>1. k - 1 \in 1..Len(queue'[op]) /\ queue'[op][k - 1] = queue[op][(k - 1) + 1]
      BY <1>3, <1>8, <2>1, <2>3
    <3>2. queue'[op][k - 1] = q
      BY <2>1, <2>3, <3>1
    <3> QED  BY <3>1, <3>2 DEF Queued
  <2> QED  BY <2>2, <2>3
<1>9. Queued' = Queued \ {r}
  BY <1>7, <1>8
<1> QED  BY <1>4, <1>6, <1>7, <1>9

-----------------------------------------------------------------------------
\* A call is sent under a number that is nowhere on the way.
LEMMA CallSent ==
    ASSUME TypeOK, CallsApart, NEW t \in Threads, NEW d, SendApply(t, d),
           CallOf(t) \in Nat, CallOf(t) <= Len(outcome), CallOf(t) \notin Sent,
           UNCHANGED <<outcome, responses>>
    PROVE  /\ Sent' = Sent \cup {CallOf(t)}
           /\ CallsApart'
<1> DEFINE n == Len(applyQ)
           c == [id |-> CallOf(t), diff |-> d]
<1>1. applyQ \in Seq([id : 0..MaxRequests, diff : Diff]) /\ n \in Nat
  BY DEF TypeOK
<1>2. applyQ' = Append(applyQ, c)
  BY DEF SendApply
<1>3. /\ Len(applyQ') = n + 1
      /\ \A i \in 1..n : applyQ'[i] = applyQ[i]
      /\ applyQ'[n + 1] = c
  BY <1>1, <1>2
<1>4. \A i \in 1..n : applyQ[i].id # CallOf(t)
  BY DEF Sent
<1>5. \A r \in responses : r.id # CallOf(t)
  BY DEF Sent
<1>6. c.id = CallOf(t)
  OBVIOUS
<1> HIDE DEF n, c
<1>7. \A i \in 1..Len(applyQ') :
        \/ i = n + 1 /\ applyQ'[i].id = CallOf(t)
        \/ i \in 1..n /\ applyQ'[i] = applyQ[i]
  BY <1>1, <1>3, <1>6
<1>8. n + 1 \in 1..Len(applyQ') /\ \A i \in 1..n : i \in 1..Len(applyQ')
  BY <1>1, <1>3
<1>9. Sent' = Sent \cup {CallOf(t)}
  <2>1. ASSUME NEW x \in Sent'
        PROVE  x \in Sent \cup {CallOf(t)}
    BY <1>7 DEF Sent, n
  <2>2. ASSUME NEW x \in Sent
        PROVE  x \in Sent'
    <3>1. CASE \E i \in 1..n : x = applyQ[i].id
      BY <3>1, <1>3, <1>8 DEF Sent
    <3>2. CASE \E r \in responses : x = r.id
      BY <3>2 DEF Sent
    <3> QED  BY <3>1, <3>2 DEF Sent, n
  <2>3. CallOf(t) \in Sent'
    BY <1>3, <1>6, <1>8 DEF Sent
  <2> QED  BY <2>1, <2>2, <2>3
<1>10. \A x \in Sent' : x <= Len(outcome')
  BY <1>9 DEF CallsApart
<1>11. \A i, j \in 1..Len(applyQ') : applyQ'[i].id = applyQ'[j].id => i = j
  BY <1>4, <1>7 DEF CallsApart, n
<1>12. \A i \in 1..Len(applyQ'), r \in responses' : applyQ'[i].id # r.id
  BY <1>5, <1>7 DEF CallsApart, n
<1>13. \A r, s \in responses' : r.id = s.id => r = s
  BY DEF CallsApart
<1>14. CallsApart'
  BY <1>10, <1>11, <1>12, <1>13 DEF CallsApart
<1> QED  BY <1>9, <1>14

\* move_group turns a call into its response.
LEMMA CallApplied ==
    ASSUME TypeOK, CallsApart, ApplyRequest
    PROVE  /\ Sent' = Sent
           /\ CallsApart'
<1>1. applyQ \in Seq([id : 0..MaxRequests, diff : Diff]) /\ applyQ # <<>>
  BY DEF TypeOK, ApplyRequest
<1>2. PICK result \in {"ok", "failed"} :
        responses' = responses \cup {[id |-> Head(applyQ).id, result |-> result]}
  BY DEF ApplyRequest
<1> DEFINE h == Head(applyQ).id
           c == [id |-> h, result |-> result]
<1>3. /\ Len(applyQ) \in Nat \ {0}
      /\ Len(applyQ') = Len(applyQ) - 1
      /\ \A i \in 1..Len(applyQ') : applyQ'[i] = applyQ[i + 1]
      /\ h = applyQ[1].id
  BY <1>1, HeadTailProperties, EmptySeq DEF ApplyRequest
<1>4. responses' = responses \cup {c} /\ c.id = h
  BY <1>2
<1>5. outcome' = outcome
  BY DEF ApplyRequest, internal
<1> HIDE DEF h, c
<1>6. ASSUME NEW i \in 1..Len(applyQ')
      PROVE  i + 1 \in 1..Len(applyQ) /\ applyQ'[i] = applyQ[i + 1] /\ applyQ'[i].id # h
  <2>1. i + 1 \in 1..Len(applyQ) /\ 1 \in 1..Len(applyQ) /\ i + 1 # 1
    BY <1>3
  <2>2. applyQ[i + 1].id # applyQ[1].id
    BY <2>1 DEF CallsApart
  <2> QED  BY <2>1, <2>2, <1>3
<1>7. 1 \in 1..Len(applyQ)
  BY <1>3
<1>8. Sent' = Sent
  <2>1. ASSUME NEW x \in Sent'
        PROVE  x \in Sent
    <3>1. CASE \E i \in 1..Len(applyQ') : x = applyQ'[i].id
      BY <3>1, <1>6 DEF Sent
    <3>2. CASE \E r \in responses' : x = r.id
      BY <3>2, <1>3, <1>4, <1>7 DEF Sent
    <3> QED  BY <3>1, <3>2 DEF Sent
  <2>2. ASSUME NEW x \in Sent
        PROVE  x \in Sent'
    <3>1. CASE \E i \in 1..Len(applyQ) : x = applyQ[i].id
      <4>1. PICK i \in 1..Len(applyQ) : x = applyQ[i].id
        BY <3>1
      <4>2. CASE i = 1
        BY <4>1, <4>2, <1>3, <1>4 DEF Sent
      <4>3. CASE i # 1
        <5>1. i - 1 \in 1..Len(applyQ') /\ (i - 1) + 1 = i
          BY <1>3, <4>3
        <5>2. applyQ'[i - 1] = applyQ[i]
          BY <5>1, <1>3
        <5> QED  BY <4>1, <5>1, <5>2 DEF Sent
      <4> QED  BY <4>2, <4>3
    <3>2. CASE \E r \in responses : x = r.id
      BY <3>2, <1>4 DEF Sent
    <3> QED  BY <3>1, <3>2 DEF Sent
  <2> QED  BY <2>1, <2>2
<1>9. \A i, j \in 1..Len(applyQ') : applyQ'[i].id = applyQ'[j].id => i = j
  <2> SUFFICES ASSUME NEW i \in 1..Len(applyQ'), NEW j \in 1..Len(applyQ'),
                      applyQ'[i].id = applyQ'[j].id
               PROVE  i = j
    OBVIOUS
  <2>1. i + 1 = j + 1
    BY <1>6 DEF CallsApart
  <2> QED  BY <2>1
<1>10. \A i \in 1..Len(applyQ'), r \in responses' : applyQ'[i].id # r.id
  BY <1>4, <1>6 DEF CallsApart
<1>11. \A r, s \in responses' : r.id = s.id => r = s
  <2>1. \A r \in responses : r.id # h
    BY <1>3, <1>7 DEF CallsApart
  <2> QED  BY <2>1, <1>4 DEF CallsApart
<1>12. \A x \in Sent' : x <= Len(outcome')
  BY <1>5, <1>8 DEF CallsApart
<1> QED  BY <1>8, <1>9, <1>10, <1>11, <1>12 DEF CallsApart

\* A response that is taken leaves no other with its number.
LEMMA CallReturned ==
    ASSUME CallsApart, NEW r \in responses, responses' = responses \ {r},
           UNCHANGED <<outcome, applyQ>>
    PROVE  /\ Sent' = Sent \ {r.id}
           /\ CallsApart'
<1>1. Sent' = Sent \ {r.id}
  <2>1. ASSUME NEW x \in Sent'
        PROVE  x \in Sent /\ x # r.id
    <3>1. CASE \E i \in 1..Len(applyQ) : x = applyQ[i].id
      BY <3>1 DEF Sent, CallsApart
    <3>2. CASE \E s \in responses' : x = s.id
      BY <3>2 DEF Sent, CallsApart
    <3> QED  BY <3>1, <3>2 DEF Sent
  <2>2. ASSUME NEW x \in Sent, x # r.id
        PROVE  x \in Sent'
    BY <2>2 DEF Sent
  <2> QED  BY <2>1, <2>2
<1>2. \A x \in Sent' : x <= Len(outcome')
  BY <1>1 DEF CallsApart
<1>3. \A i, j \in 1..Len(applyQ') : applyQ'[i].id = applyQ'[j].id => i = j
  BY DEF CallsApart
<1>4. \A i \in 1..Len(applyQ'), s \in responses' : applyQ'[i].id # s.id
  BY DEF CallsApart
<1>5. \A s1, s2 \in responses' : s1.id = s2.id => s1 = s2
  BY DEF CallsApart
<1>6. CallsApart'
  BY <1>2, <1>3, <1>4, <1>5 DEF CallsApart
<1> QED  BY <1>1, <1>6

-----------------------------------------------------------------------------
LEMMA InitLInv == Init => LInv
<1> SUFFICES ASSUME Init PROVE LInv
  OBVIOUS
<1>1. IInv
  BY InitIInv
<1>2. \A t \in Threads : thread[t].at = "idle" /\ thread[t].cb = "none"
  BY DEF Init, Idle
<1>3. Serving = {}
  BY <1>2 DEF Serving, Ops
<1>4. Queued = {} /\ Sent = {}
  BY DEF Init, Queued, Sent
<1>5. ThreadShape /\ LoadShape
  BY <1>2 DEF ThreadShape, LoadShape
<1>6. QueuesApart
  BY DEF Init, QueuesApart
<1>7. RequestsApart /\ NotYetSent
  BY <1>2, <1>3, <1>4 DEF RequestsApart, NotYetSent, Unsent, Ops
<1>8. CallsApart
  BY <1>4 DEF Init, CallsApart
<1> QED  BY <1>1, <1>5, <1>6, <1>7, <1>8 DEF LInv

\* What only depends on the queues, and on the calls, stays when they do.
LEMMA QueuesKept ==
    ASSUME UNCHANGED queue
    PROVE  Queued' = Queued /\ (QueuesApart => QueuesApart')
  BY DEF Queued, QueuesApart

LEMMA CallsKept ==
    ASSUME UNCHANGED <<applyQ, responses>>, Len(outcome') = Len(outcome)
    PROVE  Sent' = Sent /\ (CallsApart => CallsApart')
<1>1. Sent' = Sent
  BY DEF Sent
<1> QED  BY <1>1 DEF CallsApart

\* One thread takes, goes on with or ends a callback, without sending a call.
LEMMA ThreadMoves ==
    ASSUME LInv, IInv', NEW t \in Threads, NEW x \in Thread,
           thread' = [thread EXCEPT ![t] = x],
           UNCHANGED <<queue, applyQ, responses>>,
           Len(outcome') = Len(outcome),
           initialLoaded => initialLoaded',
           x.cb \notin Ops,
           x.at = "idle" <=> x.cb = "none",
           x.at # "applying",
           x.at \in {"applied", "acm"} => x.cb = "init",
           x.cb = "init" => initialLoaded' /\ (x.at = "taken" => 0 \notin Sent),
           \/ UNCHANGED promised
           \/ \A u \in Threads \ {t} : thread[u].cb # "init"
    PROVE  LInv'
<1>1. /\ TypeOK /\ thread \in [Threads -> Thread]
      /\ \A u \in Threads : thread'[u] = IF u = t THEN x ELSE thread[u]
  BY DEF LInv, IInv, TypeOK
<1>2. Queued' = Queued /\ Sent' = Sent /\ QueuesApart' /\ CallsApart'
  BY QueuesKept, CallsKept DEF LInv
<1>3. ThreadShape'
  BY <1>1 DEF LInv, ThreadShape
<1>4. LoadShape'
  BY <1>1 DEF LInv, LoadShape
<1>5. Serving' \subseteq Serving /\ \A u \in Serving' : thread'[u] = thread[u]
  BY <1>1 DEF Serving
<1>6. RequestsApart'
  BY <1>2, <1>5 DEF LInv, RequestsApart
<1>7. ASSUME NEW u \in Threads, Unsent(u)', thread'[u].cb \in Ops \cup {"init"}
      PROVE  CallOf(u)' \notin Sent'
  <2>1. CASE u = t
    BY <1>1, <1>2, <1>7, <2>1 DEF Unsent, CallOf
  <2>2. CASE u # t
    BY <1>1, <1>2, <1>7, <2>2 DEF Unsent, CallOf, LInv, NotYetSent
  <2> QED  BY <2>1, <2>2
<1>8. NotYetSent'
  BY <1>2, <1>7 DEF LInv, NotYetSent
<1> QED  BY <1>2, <1>3, <1>4, <1>6, <1>8 DEF LInv

\* One thread sends its call.
LEMMA ThreadSends ==
    ASSUME LInv, IInv', NEW t \in Threads, NEW d \in Diff, SendApply(t, d),
           thread[t].at = "taken", thread[t].cb \in Ops \cup {"init"},
           UNCHANGED <<queue, outcome, responses, initialLoaded>>,
           UNCHANGED promised \/ \A u \in Threads \ {t} : thread[u].cb # "init",
           thread[t].cb = "init" => \A o \in Built : promised'[o] = InitPose
    PROVE  LInv'
<1>1. TypeOK /\ thread \in [Threads -> Thread] /\ "init" \notin Ops
  BY DEF LInv, IInv, TypeOK, Ops
<1>2. \A u \in Threads : u # t => thread'[u] = thread[u]
  BY <1>1 DEF SendApply
<1>3. /\ thread'[t].at = "applying" /\ thread'[t].reply = "pending"
      /\ thread'[t].cb = thread[t].cb /\ thread'[t].req = thread[t].req
  BY <1>1 DEF SendApply, Thread
<1>4. CallOf(t) \notin Sent
  BY DEF LInv, NotYetSent, Unsent
<1>5. thread[t].cb \in Ops => t \in Serving /\ CallOf(t) = thread[t].req.id
  BY <1>1 DEF Serving, CallOf
<1>6. thread[t].cb = "init" => CallOf(t) = 0
  BY DEF CallOf
<1>7. CallOf(t) \in Nat /\ CallOf(t) <= Len(outcome)
  BY <1>1, <1>5, <1>6, LedgerTypes DEF LInv, RequestsApart
<1>8. Sent' = Sent \cup {CallOf(t)} /\ CallsApart'
  BY <1>1, <1>4, <1>7, CallSent DEF LInv
<1>9. Queued' = Queued /\ QueuesApart'
  BY QueuesKept DEF LInv
<1>10. ThreadShape'
  BY <1>2, <1>3 DEF LInv, ThreadShape, Ops
<1>11. LoadShape'
  BY <1>2, <1>3 DEF LInv, LoadShape
<1>12. Serving' = Serving /\ \A u \in Serving : thread'[u].req = thread[u].req
  BY <1>2, <1>3 DEF Serving
<1>13. RequestsApart'
  BY <1>9, <1>12 DEF LInv, RequestsApart
<1>14. NotYetSent'
  <2>1. ASSUME NEW r \in Queued'
        PROVE  r.id \notin Sent'
    <3>1. r \in Queued /\ r.id \notin Sent /\ r.id >= 1
      BY <1>1, <1>9, LedgerTypes DEF LInv, NotYetSent
    <3>2. r.id # CallOf(t)
      BY <1>5, <1>6, <3>1 DEF LInv, RequestsApart
    <3> QED  BY <1>8, <3>1, <3>2
  <2>2. ASSUME NEW u \in Threads, Unsent(u)', thread'[u].cb \in Ops \cup {"init"}
        PROVE  FALSE
    <3>1. CASE u = t
      BY <1>3, <2>2, <3>1 DEF Unsent, Results
    <3>2. CASE u # t
      <4>1. Busy(u) /\ Busy(t)
        BY <1>2, <2>2, <3>2 DEF Unsent, Busy
      <4> QED  BY <3>2, <4>1 DEF LInv, IInv, OneCallback
    <3> QED  BY <3>1, <3>2
  <2>3. ~initialLoaded' => 0 \notin Sent'
    <3>1. ~initialLoaded => thread[t].cb # "init" /\ 0 \notin Sent
      BY DEF LInv, LoadShape, NotYetSent
    <3>2. thread[t].cb # "init" => CallOf(t) >= 1
      BY <1>1, <1>5, LedgerTypes
    <3> QED  BY <1>8, <3>1, <3>2
  <2> QED  BY <2>1, <2>2, <2>3 DEF NotYetSent
<1> QED  BY <1>8, <1>9, <1>10, <1>11, <1>13, <1>14 DEF LInv

-----------------------------------------------------------------------------
\* Each action keeps the invariant.
LEMMA ArriveKeeps ==
    ASSUME LInv, IInv', NEW op \in Ops, NEW o \in Objects, NEW p \in Presence,
           Arrive(op, o, p)
    PROVE  LInv'
<1> DEFINE r == [id |-> Len(outcome) + 1, obj |-> o, pose |-> p]
<1>1. /\ TypeOK /\ Len(outcome) \in Nat
      /\ UNCHANGED <<thread, initialLoaded, applyQ, responses, promised>>
  BY LedgerTypes DEF LInv, IInv, Arrive, external, history
<1>2. Len(outcome') = Len(outcome) + 1
  BY <1>1 DEF Arrive, TypeOK
<1>3. Queued' = Queued \cup {r} /\ QueuesApart'
  BY <1>1, QueueArrives DEF LInv
<1>4. r.id = Len(outcome) + 1
  OBVIOUS
<1> HIDE DEF r
<1>5. Sent' = Sent /\ \A n \in Sent : n \in Nat /\ n <= Len(outcome)
  BY <1>1, LedgerTypes DEF LInv, CallsApart, Sent
<1>6. Serving' = Serving /\ \A t \in Serving : thread[t].req.id \in Nat
  BY <1>1, LedgerTypes DEF Serving
<1>7. \A q \in Queued : q.id \in Nat
  BY <1>1, LedgerTypes
<1>8. ThreadShape' /\ LoadShape'
  BY <1>1 DEF LInv, ThreadShape, LoadShape
<1>9. RequestsApart'
  BY <1>1, <1>2, <1>3, <1>4, <1>6, <1>7 DEF LInv, RequestsApart
<1>10. CallsApart'
  <2>1. \A n \in Sent' : n <= Len(outcome')
    BY <1>1, <1>2, <1>5
  <2> QED  BY <1>1, <2>1 DEF LInv, CallsApart
<1>11. NotYetSent'
  <2>1. r.id \notin Sent
    BY <1>1, <1>4, <1>5
  <2> QED  BY <1>1, <1>3, <1>5, <2>1 DEF LInv, NotYetSent, Unsent, CallOf
<1> QED  BY <1>3, <1>8, <1>9, <1>10, <1>11 DEF LInv

LEMMA TakeRequestKeeps ==
    ASSUME LInv, IInv', NEW t \in Threads, NEW op \in Ops, TakeRequest(t, op)
    PROVE  LInv'
<1> DEFINE r == Head(queue[op])
<1>1. /\ TypeOK /\ thread \in [Threads -> Thread]
      /\ UNCHANGED <<outcome, initialLoaded, applyQ, responses, promised>>
      /\ thread' = [thread EXCEPT ![t] = Taken(op, r)]
      /\ ~Busy(t)
  BY DEF LInv, IInv, TypeOK, TakeRequest, CanTake, external, history
<1>2. r \in Queued /\ Queued' = Queued \ {r} /\ QueuesApart' /\ \A q \in Queued' : q.id # r.id
  BY <1>1, QueueTaken DEF LInv
<1> HIDE DEF r
<1>3. \A u \in Threads : thread'[u] = IF u = t THEN Taken(op, r) ELSE thread[u]
  BY <1>1
<1>4. thread'[t].at = "taken" /\ thread'[t].cb = op /\ thread'[t].req = r
  BY <1>3 DEF Taken
<1>5. Serving' \subseteq Serving \cup {t}
  BY <1>3 DEF Serving
<1>6. \A u \in Threads : u # t => ~Unsent(u)' \/ thread'[u] = thread[u]
  BY <1>3
<1>7. Sent' = Sent /\ CallsApart'
  BY <1>1, CallsKept DEF LInv
<1>8. ThreadShape'
  BY <1>3, <1>4 DEF LInv, ThreadShape, Ops
<1>9. LoadShape'
  BY <1>1, <1>3, <1>4 DEF LInv, LoadShape, Ops
<1>10. RequestsApart'
  <2>1. \A q \in Queued' : q.id <= Len(outcome')
    BY <1>1, <1>2 DEF LInv, RequestsApart
  <2>2. ASSUME NEW u \in Serving'
        PROVE  /\ thread'[u].req.id <= Len(outcome')
               /\ \A q \in Queued' : thread'[u].req.id # q.id
    <3>1. CASE u = t
      BY <1>1, <1>2, <1>4, <3>1 DEF LInv, RequestsApart
    <3>2. CASE u # t
      BY <1>1, <1>2, <1>3, <1>5, <3>2 DEF LInv, RequestsApart, Serving
    <3> QED  BY <3>1, <3>2
  <2> QED  BY <2>1, <2>2 DEF RequestsApart
<1>11. NotYetSent'
  <2>1. ASSUME NEW u \in Threads, Unsent(u)', thread'[u].cb \in Ops \cup {"init"}
        PROVE  CallOf(u)' \notin Sent'
    <3>1. CASE u = t
      BY <1>2, <1>4, <1>7, <3>1 DEF LInv, NotYetSent, CallOf, Ops
    <3>2. CASE u # t
      BY <1>3, <1>7, <2>1, <3>2 DEF LInv, NotYetSent, CallOf, Unsent
    <3> QED  BY <3>1, <3>2
  <2> QED  BY <1>1, <1>2, <1>7, <2>1 DEF LInv, NotYetSent
<1> QED  BY <1>2, <1>7, <1>8, <1>9, <1>10, <1>11 DEF LInv

LEMMA ApplyKeeps ==
    ASSUME LInv, IInv', ApplyRequest
    PROVE  LInv'
<1>1. TypeOK /\ UNCHANGED <<queue, outcome, thread, initialLoaded, promised>>
  BY DEF LInv, IInv, ApplyRequest, internal
<1>2. Sent' = Sent /\ CallsApart'
  BY <1>1, CallApplied DEF LInv
<1>3. Queued' = Queued /\ QueuesApart'
  BY <1>1, QueuesKept DEF LInv
<1>4. ThreadShape' /\ LoadShape'
  BY <1>1 DEF LInv, ThreadShape, LoadShape
<1>5. RequestsApart'
  BY <1>1, <1>3 DEF LInv, RequestsApart, Serving
<1>6. NotYetSent'
  BY <1>1, <1>2, <1>3 DEF LInv, NotYetSent, Unsent, CallOf
<1> QED  BY <1>2, <1>3, <1>4, <1>5, <1>6 DEF LInv

\* What the response callback writes into the threads.
LEMMA ResponseWakes ==
    ASSUME LInv, NEW r \in responses,
           thread' = [u \in Threads |->
                        IF thread[u].at = "applying" /\ CallOf(u) = r.id
                        THEN [thread[u] EXCEPT !.reply = r.result]
                        ELSE thread[u]]
    PROVE  \A u \in Threads :
             /\ thread'[u].at = thread[u].at
             /\ thread'[u].cb = thread[u].cb
             /\ thread'[u].req = thread[u].req
             /\ CallOf(u)' = CallOf(u)
             /\ thread'[u].reply = IF thread[u].at = "applying" /\ CallOf(u) = r.id
                                   THEN r.result ELSE thread[u].reply
<1> SUFFICES ASSUME NEW u \in Threads
             PROVE  /\ thread'[u].at = thread[u].at
                    /\ thread'[u].cb = thread[u].cb
                    /\ thread'[u].req = thread[u].req
                    /\ CallOf(u)' = CallOf(u)
                    /\ thread'[u].reply = IF thread[u].at = "applying" /\ CallOf(u) = r.id
                                          THEN r.result ELSE thread[u].reply
  OBVIOUS
<1>1. thread[u] \in Thread
  BY DEF LInv, IInv, TypeOK
<1>2. thread'[u] = IF thread[u].at = "applying" /\ CallOf(u) = r.id
                   THEN [thread[u] EXCEPT !.reply = r.result] ELSE thread[u]
  OBVIOUS
<1>3. /\ thread'[u].at = thread[u].at
      /\ thread'[u].cb = thread[u].cb
      /\ thread'[u].req = thread[u].req
      /\ thread'[u].reply = IF thread[u].at = "applying" /\ CallOf(u) = r.id
                            THEN r.result ELSE thread[u].reply
  BY <1>1, <1>2 DEF Thread
<1> QED  BY <1>3 DEF CallOf

LEMMA DeliverKeeps ==
    ASSUME LInv, IInv', NEW t \in Threads, DeliverResponse(t)
    PROVE  LInv'
<1>1. UNCHANGED <<queue, outcome, initialLoaded, promised, applyQ>>
  BY DEF DeliverResponse, history
<1>2. PICK r \in responses :
        /\ responses' = responses \ {r}
        /\ thread' = [u \in Threads |->
                        IF thread[u].at = "applying" /\ CallOf(u) = r.id
                        THEN [thread[u] EXCEPT !.reply = r.result]
                        ELSE thread[u]]
  BY DEF DeliverResponse
<1>3. \A u \in Threads :
        /\ thread'[u].at = thread[u].at
        /\ thread'[u].cb = thread[u].cb
        /\ thread'[u].req = thread[u].req
        /\ CallOf(u)' = CallOf(u)
        /\ thread'[u].reply = IF thread[u].at = "applying" /\ CallOf(u) = r.id
                              THEN r.result ELSE thread[u].reply
  BY <1>2, ResponseWakes
<1>4. Sent' = Sent \ {r.id} /\ CallsApart'
  BY <1>1, <1>2, CallReturned DEF LInv
<1>5. Queued' = Queued /\ QueuesApart'
  BY <1>1, QueuesKept DEF LInv
<1>6. ThreadShape' /\ LoadShape'
  BY <1>1, <1>3 DEF LInv, ThreadShape, LoadShape
<1>7. Serving' = Serving
  BY <1>3 DEF Serving
<1>8. RequestsApart'
  BY <1>1, <1>3, <1>5, <1>7 DEF LInv, RequestsApart, Serving
<1>9. ASSUME NEW u \in Threads, Unsent(u)', thread'[u].cb \in Ops \cup {"init"}
      PROVE  CallOf(u)' \notin Sent'
  <2>1. CASE Unsent(u)
    BY <1>3, <1>4, <1>9, <2>1 DEF LInv, NotYetSent
  <2>2. CASE ~Unsent(u)
    BY <1>3, <1>4, <1>9, <2>2 DEF Unsent
  <2> QED  BY <2>1, <2>2
<1>10. NotYetSent'
  BY <1>1, <1>4, <1>5, <1>9 DEF LInv, NotYetSent
<1> QED  BY <1>4, <1>5, <1>6, <1>8, <1>10 DEF LInv

\* The handlers reply once, and the load goes through its parts.
LEMMA ReplyKeeps ==
    ASSUME LInv, IInv', NEW t \in Threads, thread[t].cb \in Ops,
           NEW result \in Results, Reply(t, result),
           UNCHANGED <<queue, applyQ, responses, initialLoaded>>
    PROVE  LInv'
<1>1. TypeOK /\ outcome' = [outcome EXCEPT ![thread[t].req.id] = result]
  BY DEF LInv, IInv, Reply
<1>2. outcome \in Seq({"pending"} \cup Results) /\ result \in {"pending"} \cup Results
  BY <1>1 DEF TypeOK
<1>3. Len(outcome') = Len(outcome)
  BY <1>1, <1>2, ExceptAnywhere
<1>4. Busy(t)
  BY DEF LInv, ThreadShape, Busy, Ops
<1>5. \A u \in Threads \ {t} : thread[u].cb # "init"
  BY <1>4 DEF LInv, IInv, OneCallback, ThreadShape, Busy
<1>6. Idle \in Thread /\ Idle.at = "idle" /\ Idle.cb = "none" /\ "none" \notin Ops
  BY ThreadTypes DEF Ops
<1>7. thread' = [thread EXCEPT ![t] = Idle]
  BY DEF Reply
<1> QED  BY <1>3, <1>5, <1>6, <1>7, ThreadMoves

\* A load callback goes on to its next part, or ends.
LEMMA LoadKeeps ==
    ASSUME LInv, IInv', NEW t \in Threads, thread[t].cb = "init",
           NEW x, \/ x = Idle
                  \/ x = [thread[t] EXCEPT !.at = "applied"]
                  \/ x = [thread[t] EXCEPT !.at = "acm"],
           thread' = [thread EXCEPT ![t] = x],
           UNCHANGED <<queue, outcome, applyQ, responses, initialLoaded>>
    PROVE  LInv'
<1>1. thread[t] \in Thread /\ "init" \notin Ops /\ "none" \notin Ops
  BY DEF LInv, IInv, TypeOK, Ops
<1>2. x \in Thread /\ x.at # "applying" /\ x.at # "taken"
  BY <1>1, ThreadTypes DEF Thread, Idle
<1>3. \/ x.at = "idle" /\ x.cb = "none"
      \/ x.at \in {"applied", "acm"} /\ x.cb = "init"
  BY <1>1, ThreadTypes DEF Thread
<1>4. initialLoaded
  BY DEF LInv, LoadShape
<1>5. \A u \in Threads \ {t} : thread[u].cb # "init"
  BY DEF LInv, IInv, OneCallback, ThreadShape, Busy
<1> QED  BY <1>1, <1>2, <1>3, <1>4, <1>5, ThreadMoves

LEMMA StepKeeps ==
    ASSUME LInv, IInv', NEW t \in Threads, Step(t)
    PROVE  LInv'
<1>1. /\ TypeOK /\ thread \in [Threads -> Thread] /\ thread[t] \in Thread
      /\ Idle \in Thread /\ Idle.at = "idle" /\ Idle.cb = "none"
      /\ "none" \notin Ops /\ "init" \notin Ops
  BY ThreadTypes DEF LInv, IInv, TypeOK, Ops
<1>2. thread[t].cb # "none" => \A u \in Threads \ {t} : thread[u].cb # "init"
  BY DEF LInv, IInv, OneCallback, ThreadShape, Busy
<1>3. CASE LoadInitialScene(t)
  <2>1. CASE SendApply(t, InitialDiff)
    <3>1. promised' = [o \in Objects |-> IF o \in Built THEN InitPose ELSE promised[o]]
      BY <1>3 DEF LoadInitialScene
    <3>2. \A o \in Built : promised'[o] = InitPose
      BY <3>1, LoadedTypes
    <3>3. thread[t].cb = "init" /\ thread[t].at = "taken" /\ InitialDiff \in Diff
          /\ UNCHANGED <<queue, outcome, responses, initialLoaded>>
      BY <1>3, DiffTypes DEF LoadInitialScene
    <3> QED  BY <1>2, <2>1, <3>2, <3>3, ThreadSends
  <2>2. CASE ~SendApply(t, InitialDiff)
    <3>1. /\ thread[t].cb = "init"
          /\ UNCHANGED <<queue, outcome, applyQ, responses, initialLoaded>>
          /\ \/ thread' = [thread EXCEPT ![t] = Idle]
             \/ thread' = [thread EXCEPT ![t] = [thread[t] EXCEPT !.at = "applied"]]
      BY <1>3, <2>2 DEF LoadInitialScene
    <3> QED  BY <3>1, LoadKeeps
  <2> QED  BY <2>1, <2>2
<1>4. CASE InitialApplyReturns(t)
  <2>1. /\ thread[t].cb = "init"
        /\ UNCHANGED <<queue, outcome, applyQ, responses, initialLoaded>>
        /\ thread' = [thread EXCEPT ![t] = [thread[t] EXCEPT !.at = "applied"]]
    BY <1>4 DEF InitialApplyReturns, external
  <2> QED  BY <2>1, LoadKeeps
<1>5. CASE PublishAcm(t)
  <2>1. /\ thread[t].cb = "init"
        /\ UNCHANGED <<queue, outcome, applyQ, responses, initialLoaded>>
        /\ thread' = [thread EXCEPT ![t] = [thread[t] EXCEPT !.at = "acm"]]
    BY <1>5 DEF PublishAcm, LInv, ThreadShape
  <2> QED  BY <2>1, LoadKeeps
<1>6. CASE FinishLoad(t)
  <2>1. /\ thread[t].cb = "init"
        /\ UNCHANGED <<queue, outcome, applyQ, responses, initialLoaded>>
        /\ thread' = [thread EXCEPT ![t] = Idle]
    BY <1>6 DEF FinishLoad, LInv, ThreadShape, external
  <2> QED  BY <2>1, LoadKeeps
<1>7. CASE ReassertDynamic(t)
  <2>1. /\ UNCHANGED <<queue, outcome, applyQ, responses, initialLoaded, promised>>
        /\ thread' = [thread EXCEPT ![t] = Idle]
    BY <1>7 DEF ReassertDynamic
  <2> QED  BY <1>1, <2>1, ThreadMoves
<1>8. CASE HandleRemove(t) \/ HandleSetPose(t)
  <2>1. /\ thread[t].at = "taken" /\ thread[t].cb \in Ops
        /\ UNCHANGED <<queue, responses, initialLoaded, promised>>
        /\ \/ /\ \E d \in {Only(thread[t].req.obj, None),
                           Only(thread[t].req.obj, thread[t].req.pose)} : SendApply(t, d)
              /\ UNCHANGED outcome
           \/ Reply(t, "failed") /\ UNCHANGED applyQ
    BY <1>8 DEF HandleRemove, HandleSetPose, Ops, history
  <2>2. CASE \E d \in {Only(thread[t].req.obj, None),
                       Only(thread[t].req.obj, thread[t].req.pose)} :
                SendApply(t, d) /\ UNCHANGED outcome
    <3>1. thread[t].req.obj \in Objects /\ thread[t].req.pose \in Presence
      BY <1>1, <2>1 DEF TypeOK, Request
    <3>2. PICK d \in Diff : SendApply(t, d) /\ UNCHANGED outcome
      BY <2>2, <3>1, DiffTypes
    <3> QED  BY <1>1, <2>1, <3>2, ThreadSends
  <2>3. CASE Reply(t, "failed") /\ UNCHANGED applyQ
    BY <2>1, <2>3, ReplyKeeps DEF Results
  <2> QED  BY <2>1, <2>2, <2>3
<1>9. CASE RequestFails(t)
  BY <1>9, ReplyKeeps DEF RequestFails, external, Results
<1>10. CASE RequestSucceeds(t)
  BY <1>10, ReplyKeeps DEF RequestSucceeds, Results
<1> QED
  BY <1>3, <1>4, <1>5, <1>6, <1>7, <1>8, <1>9, <1>10 DEF Step

LEMMA LInvStep == LInv /\ [Next]_vars => LInv'
<1> SUFFICES ASSUME LInv, [Next]_vars PROVE LInv'
  OBVIOUS
<1>1. IInv'
  BY InvStep DEF LInv
<1>2. ASSUME NEW op \in Ops, NEW o \in Objects, NEW p \in Presence, Arrive(op, o, p)
      PROVE  LInv'
  BY <1>1, <1>2, ArriveKeeps
<1>3. ASSUME NEW t \in Threads, WipeScene(t)
      PROVE  LInv'
  <2>1. /\ ~initialLoaded /\ initialLoaded'
        /\ thread' = [thread EXCEPT ![t] = Taken("init", None)]
        /\ UNCHANGED <<queue, outcome, applyQ, responses, promised>>
    BY <1>3 DEF WipeScene, history
  <2>2. 0 \notin Sent
    BY <2>1 DEF LInv, NotYetSent
  <2>3. /\ Taken("init", None) \in Thread
        /\ Taken("init", None).at = "taken" /\ Taken("init", None).cb = "init"
        /\ "init" \notin Ops
    BY ThreadTypes DEF Taken, Ops
  <2> QED  BY <1>1, <2>1, <2>2, <2>3, ThreadMoves
<1>4. ASSUME NEW t \in Threads, NEW op \in Ops, TakeRequest(t, op)
      PROVE  LInv'
  BY <1>1, <1>4, TakeRequestKeeps
<1>5. ASSUME NEW t \in Threads, TakeForce(t)
      PROVE  LInv'
  <2>1. /\ thread' = [thread EXCEPT ![t] = Taken("force", None)]
        /\ UNCHANGED <<queue, outcome, applyQ, responses, initialLoaded, promised>>
    BY <1>5 DEF TakeForce, external, history
  <2>2. /\ Taken("force", None) \in Thread
        /\ Taken("force", None).at = "taken" /\ Taken("force", None).cb = "force"
        /\ "force" \notin Ops
    BY ThreadTypes DEF Taken, Ops
  <2> QED  BY <1>1, <2>1, <2>2, ThreadMoves
<1>6. ASSUME NEW t \in Threads, Step(t)
      PROVE  LInv'
  BY <1>1, <1>6, StepKeeps
<1>7. ASSUME NEW t \in Threads, DeliverResponse(t)
      PROVE  LInv'
  BY <1>1, <1>7, DeliverKeeps
<1>8. CASE ApplyRequest
  BY <1>1, <1>8, ApplyKeeps
<1>9. CASE DeliverTopic \/ DeliverWipe \/ Interfere \/ UNCHANGED vars
  <2>1. UNCHANGED <<queue, outcome, thread, initialLoaded, promised, applyQ, responses>>
    BY <1>9 DEF DeliverTopic, DeliverWipe, Interfere, vars, internal
  <2>2. Queued' = Queued /\ QueuesApart' /\ Sent' = Sent /\ CallsApart'
    BY <2>1, QueuesKept, CallsKept DEF LInv
  <2>3. ThreadShape' /\ LoadShape'
    BY <2>1 DEF LInv, ThreadShape, LoadShape
  <2>4. RequestsApart'
    BY <2>1, <2>2 DEF LInv, RequestsApart, Serving
  <2>5. NotYetSent'
    BY <2>1, <2>2 DEF LInv, NotYetSent, Unsent, CallOf
  <2> QED  BY <1>1, <2>2, <2>3, <2>4, <2>5 DEF LInv
<1> QED
  BY <1>2, <1>3, <1>4, <1>5, <1>6, <1>7, <1>8, <1>9 DEF Next

-----------------------------------------------------------------------------
(***************************************************************************)
(* The steps of the node are steps of the ledger.                          *)
(***************************************************************************)
Granting(t) == thread[t].at = "applying" /\ thread[t].reply = "ok"

Declaring(t) == thread[t].at = "taken" /\ thread[t].cb = "init"

\* A thread that neither serves, nor carries a grant, nor declares, is not seen.
LEMMA ThreadUnseen ==
    ASSUME LInv, NEW t \in Threads, NEW x \in Thread,
           thread' = [thread EXCEPT ![t] = x],
           UNCHANGED <<queue, responses>>
    PROVE  /\ \/ x.cb = thread[t].cb /\ x.req = thread[t].req
              \/ x.cb \notin Ops /\ thread[t].cb \notin Ops
              => Unanswered' = Unanswered
           /\ ~Granting(t) /\ ~(x.at = "applying" /\ x.reply = "ok")
              => Granted' = Granted
           /\ ~Declaring(t) /\ ~(x.at = "taken" /\ x.cb = "init") /\ UNCHANGED initialLoaded
              => SceneDeclared' = SceneDeclared
<1>1. \A u \in Threads : thread'[u] = IF u = t THEN x ELSE thread[u]
  BY DEF LInv, IInv, TypeOK
<1>2. Queued' = Queued
  BY QueuesKept
<1>3. ASSUME \/ x.cb = thread[t].cb /\ x.req = thread[t].req
             \/ x.cb \notin Ops /\ thread[t].cb \notin Ops
      PROVE  Unanswered' = Unanswered
  <2>1. Serving' = Serving
    BY <1>1, <1>3 DEF Serving
  <2>2. \A u \in Serving : thread'[u].req = thread[u].req
    BY <1>1, <1>3 DEF Serving
  <2> QED  BY <1>2, <2>1, <2>2 DEF Unanswered
<1>4. ASSUME ~Granting(t), ~(x.at = "applying" /\ x.reply = "ok")
      PROVE  Granted' = Granted
  <2>1. ASSUME NEW u \in Threads
        PROVE  /\ Granting(u)' <=> Granting(u)
               /\ Granting(u) => CallOf(u)' = CallOf(u)
    BY <1>1, <1>4 DEF Granting, CallOf
  <2>2. {u \in Threads : Granting(u)}' = {u \in Threads : Granting(u)}
    BY <2>1
  <2> QED  BY <2>1, <2>2 DEF Granted, Granting
<1>5. ASSUME ~Declaring(t), ~(x.at = "taken" /\ x.cb = "init"), UNCHANGED initialLoaded
      PROVE  SceneDeclared' = SceneDeclared
  BY <1>1, <1>5 DEF Declaring, SceneDeclared
<1> QED  BY <1>3, <1>4, <1>5

\* A thread that ends its wait with a positive answer takes the grant away.
LEMMA GrantUsed ==
    ASSUME LInv, NEW t \in Threads, Granting(t), NEW x \in Thread, x.at # "applying",
           thread' = [thread EXCEPT ![t] = x],
           UNCHANGED responses
    PROVE  /\ CallOf(t) \in Granted
           /\ Granted' = Granted \ {CallOf(t)}
<1>1. \A u \in Threads : thread'[u] = IF u = t THEN x ELSE thread[u]
  BY DEF LInv, IInv, TypeOK
<1>2. \A u \in Threads : Granting(u) => u = t
  BY DEF Granting, LInv, IInv, OneCallback, Busy
<1>3. \A u \in Threads : ~Granting(u)'
  BY <1>1, <1>2 DEF Granting
<1>4. CallOf(t) \notin Sent
  BY DEF Granting, LInv, NotYetSent, ThreadShape, Unsent, Results
<1>5. \A r \in responses : r.id # CallOf(t)
  BY <1>4 DEF Sent
<1>6. \A y : y \in Granted <=> \/ \E r \in responses : r.result = "ok" /\ y = r.id
                               \/ \E u \in Threads : Granting(u) /\ y = CallOf(u)
  BY DEF Granted, Granting
<1>7. \A y : y \in Granted' <=> \/ \E r \in responses' : r.result = "ok" /\ y = r.id
                                \/ \E u \in Threads : Granting(u)' /\ y = CallOf(u)'
  BY DEF Granted, Granting
<1>8. \A y : y \in Granted' <=> y \in Granted /\ y # CallOf(t)
  BY <1>2, <1>3, <1>5, <1>6, <1>7
<1> QED  BY <1>6, <1>8

\* A reply takes its request out of the pending ones.
LEMMA ReplySeen ==
    ASSUME LInv, NEW t \in Threads, thread[t].cb \in Ops,
           NEW result \in Results, Reply(t, result),
           UNCHANGED <<queue, initialLoaded>>
    PROVE  /\ thread[t].req \in Unanswered
           /\ Ledger!Answer(thread[t].req, result)
           /\ SceneDeclared' = SceneDeclared
<1>1. \A u \in Threads : thread'[u] = IF u = t THEN Idle ELSE thread[u]
  BY DEF LInv, IInv, TypeOK, Reply
<1>2. Idle.at = "idle" /\ Idle.cb = "none" /\ "none" \notin Ops /\ "init" \notin Ops
  BY ThreadTypes DEF Ops
<1>3. Serving = {t}
  <2>1. \A u \in Threads : thread[u].cb \in Ops => Busy(u)
    BY <1>2 DEF LInv, ThreadShape, Busy
  <2> QED  BY <2>1 DEF LInv, IInv, OneCallback, Serving
<1>4. Serving' = {}
  BY <1>1, <1>2, <1>3 DEF Serving
<1>5. Queued' = Queued /\ thread[t].req \notin Queued
  BY <1>3, QueuesKept DEF LInv, RequestsApart
<1>6. Unanswered = Queued \cup {thread[t].req} /\ Unanswered' = Queued
  BY <1>3, <1>4, <1>5 DEF Unanswered
<1>7. outcome' = [outcome EXCEPT ![thread[t].req.id] = result]
  BY DEF Reply
<1>8. Ledger!Answer(thread[t].req, result)
  BY <1>5, <1>6, <1>7 DEF Ledger!Answer
<1>9. SceneDeclared' = SceneDeclared
  BY <1>1, <1>2 DEF SceneDeclared
<1> QED  BY <1>6, <1>8, <1>9

LEMMA InitRefines == Init => Ledger!Init
<1> SUFFICES ASSUME Init PROVE Ledger!Init
  OBVIOUS
<1>1. \A t \in Threads : thread[t].at = "idle" /\ thread[t].cb = "none"
  BY DEF Init, Idle
<1>2. Unanswered = {}
  BY <1>1 DEF Init, Unanswered, Queued, Serving, Ops
<1>3. Granted = {}
  BY <1>1 DEF Init, Granted
<1>4. SceneDeclared = FALSE
  BY DEF Init, SceneDeclared
<1> QED  BY <1>2, <1>3, <1>4 DEF Init, Ledger!Init

\* A request that arrives is received.
LEMMA ArriveRefines ==
    ASSUME LInv, NEW op \in Ops, NEW o \in Objects, NEW p \in Presence, Arrive(op, o, p)
    PROVE  Ledger!Receive(o, p)
<1> DEFINE r == [id |-> Len(outcome) + 1, obj |-> o, pose |-> p]
<1>1. UNCHANGED <<thread, initialLoaded, responses, promised, doubt>>
  BY DEF Arrive, external, history
<1>2. Queued' = Queued \cup {r}
  BY QueueArrives DEF LInv, IInv
<1>3. Serving' = Serving
  BY <1>1 DEF Serving
<1>4. Unanswered' = Unanswered \cup {r}
  <2> HIDE DEF r
  <2> QED  BY <1>1, <1>2, <1>3 DEF Unanswered
<1>5. Granted' = Granted /\ SceneDeclared' = SceneDeclared
  BY <1>1 DEF Granted, SceneDeclared, CallOf
<1>6. Len(outcome) < MaxRequests /\ outcome' = Append(outcome, "pending")
  BY DEF Arrive
<1> QED  BY <1>1, <1>4, <1>5, <1>6 DEF Ledger!Receive

\* A request that is taken stays pending.
LEMMA TakeRequestRefines ==
    ASSUME LInv, NEW t \in Threads, NEW op \in Ops, TakeRequest(t, op)
    PROVE  UNCHANGED Ledger!vars
<1> DEFINE r == Head(queue[op])
<1>1. /\ TypeOK /\ thread \in [Threads -> Thread]
      /\ UNCHANGED <<outcome, initialLoaded, responses, promised, doubt>>
      /\ thread' = [thread EXCEPT ![t] = Taken(op, r)]
      /\ ~Busy(t)
  BY DEF LInv, IInv, TypeOK, TakeRequest, CanTake, external, history
<1>2. r \in Queued /\ Queued' = Queued \ {r}
  BY <1>1, QueueTaken DEF LInv
<1> HIDE DEF r
<1>3. \A u \in Threads : thread'[u] = IF u = t THEN Taken(op, r) ELSE thread[u]
  BY <1>1
<1>4. /\ thread'[t].at = "taken" /\ thread'[t].cb = op /\ thread'[t].req = r
      /\ thread[t].at = "idle" /\ thread[t].cb = "none"
      /\ "none" \notin Ops /\ "init" \notin Ops
  BY <1>1, <1>3 DEF Taken, Busy, LInv, ThreadShape, Ops
<1>5. Serving' = Serving \cup {t} /\ t \notin Serving
  BY <1>3, <1>4 DEF Serving
<1>6. \A u \in Serving : thread'[u].req = thread[u].req
  BY <1>3, <1>5 DEF Serving
<1>7. Unanswered' = Unanswered
  <2>1. {thread[u].req : u \in Serving}' = {thread[u].req : u \in Serving} \cup {r}
    BY <1>4, <1>5, <1>6
  <2> QED  BY <1>2, <2>1 DEF Unanswered
<1>8. Granted' = Granted
  <2>1. \A u \in Threads : /\ Granting(u)' <=> Granting(u)
                           /\ Granting(u) => CallOf(u)' = CallOf(u)
    BY <1>3, <1>4 DEF Granting, CallOf
  <2>2. {u \in Threads : Granting(u)}' = {u \in Threads : Granting(u)}
    BY <2>1
  <2> QED  BY <1>1, <2>1, <2>2 DEF Granted, Granting
<1>9. SceneDeclared' = SceneDeclared
  BY <1>1, <1>3, <1>4 DEF SceneDeclared
<1> QED  BY <1>1, <1>7, <1>8, <1>9 DEF Ledger!vars

\* An accepted call is granted; its grant goes from the response to the thread that
\* waits for it, or expires.
LEMMA ApplyRefines ==
    ASSUME LInv, ApplyRequest
    PROVE  [Ledger!Next]_(Ledger!vars)
<1>1. UNCHANGED <<queue, outcome, thread, initialLoaded, promised, doubt>>
  BY DEF ApplyRequest, internal
<1>2. applyQ \in Seq([id : 0..MaxRequests, diff : Diff]) /\ applyQ # <<>>
  BY DEF LInv, IInv, TypeOK, ApplyRequest
<1>3. Head(applyQ) \in [id : 0..MaxRequests, diff : Diff]
  BY <1>2, HeadTailProperties
<1> DEFINE h == Head(applyQ).id
<1>4. h \in 0..MaxRequests
  BY <1>3
<1>5. PICK result \in {"ok", "failed"} :
        responses' = responses \cup {[id |-> h, result |-> result]}
  BY DEF ApplyRequest
<1> HIDE DEF h
<1>6. Unanswered' = Unanswered /\ SceneDeclared' = SceneDeclared
  BY <1>1 DEF Unanswered, Queued, Serving, SceneDeclared
<1>7. \A t \in Threads : CallOf(t)' = CallOf(t)
  BY <1>1 DEF CallOf
<1>8. CASE result = "ok"
  <2>1. {r.id : r \in {x \in responses' : x.result = "ok"}}
          = {r.id : r \in {x \in responses : x.result = "ok"}} \cup {h}
    <3> DEFINE c == [id |-> h, result |-> result]
    <3>1. c.id = h /\ c.result = "ok" /\ responses' = responses \cup {c}
      BY <1>5, <1>8
    <3> HIDE DEF c
    <3>2. {x \in responses' : x.result = "ok"} = {x \in responses : x.result = "ok"} \cup {c}
      BY <3>1
    <3> QED  BY <3>1, <3>2
  <2>2. Granted' = Granted \cup {h}
    BY <1>1, <1>7, <2>1 DEF Granted
  <2>3. Ledger!Grant(h)
    BY <1>1, <1>6, <2>2 DEF Ledger!Grant
  <2> QED  BY <1>4, <2>3 DEF Ledger!Next
<1>9. CASE result = "failed"
  <2>1. {x \in responses' : x.result = "ok"} = {x \in responses : x.result = "ok"}
    BY <1>5, <1>9
  <2>2. Granted' = Granted
    BY <1>1, <1>7, <2>1 DEF Granted
  <2> QED  BY <1>1, <1>6, <2>2 DEF Ledger!vars
<1> QED  BY <1>5, <1>8, <1>9

LEMMA DeliverRefines ==
    ASSUME LInv, NEW t \in Threads, DeliverResponse(t)
    PROVE  [Ledger!Next]_(Ledger!vars)
<1>1. UNCHANGED <<queue, outcome, initialLoaded, promised, doubt>>
  BY DEF DeliverResponse, history
<1>2. PICK r \in responses :
        /\ responses' = responses \ {r}
        /\ thread' = [u \in Threads |->
                        IF thread[u].at = "applying" /\ CallOf(u) = r.id
                        THEN [thread[u] EXCEPT !.reply = r.result]
                        ELSE thread[u]]
  BY DEF DeliverResponse
<1>3. \A u \in Threads :
        /\ thread'[u].at = thread[u].at
        /\ thread'[u].cb = thread[u].cb
        /\ thread'[u].req = thread[u].req
        /\ CallOf(u)' = CallOf(u)
        /\ thread'[u].reply = IF thread[u].at = "applying" /\ CallOf(u) = r.id
                              THEN r.result ELSE thread[u].reply
  BY <1>2, ResponseWakes
<1>4. r.id \in 0..MaxRequests /\ r.result \in Results /\ r.id \in Sent
  BY DEF LInv, IInv, TypeOK, Sent
<1>5. Unanswered' = Unanswered
  <2>1. Queued' = Queued
    BY <1>1, QueuesKept
  <2>2. Serving' = Serving /\ \A u \in Serving : thread'[u].req = thread[u].req
    BY <1>3 DEF Serving
  <2> QED  BY <2>1, <2>2 DEF Unanswered
<1>6. SceneDeclared' = SceneDeclared
  BY <1>1, <1>3 DEF SceneDeclared
<1>7. \A s \in responses : s # r => s.id # r.id
  BY DEF LInv, CallsApart
<1>8. \A u \in Threads : Granting(u) => CallOf(u) # r.id
  <2> SUFFICES ASSUME NEW u \in Threads, Granting(u) PROVE CallOf(u) \notin Sent
    BY <1>4
  <2> QED  BY DEF Granting, LInv, NotYetSent, ThreadShape, Unsent, Results
<1>9. \A x : x \in Granted <=> \/ \E s \in responses : s.result = "ok" /\ x = s.id
                               \/ \E u \in Threads : Granting(u) /\ x = CallOf(u)
  BY DEF Granted, Granting
<1>10. \A x : x \in Granted' <=> \/ \E s \in responses' : s.result = "ok" /\ x = s.id
                                 \/ \E u \in Threads : Granting(u)' /\ x = CallOf(u)'
  BY DEF Granted, Granting
<1>11. \A u \in Threads :
         Granting(u)' <=> \/ Granting(u)
                          \/ thread[u].at = "applying" /\ CallOf(u) = r.id /\ r.result = "ok"
  BY <1>3, <1>8 DEF Granting
<1>12. CASE r.result = "ok" /\ ~\E u \in Threads : thread[u].at = "applying" /\ CallOf(u) = r.id
  <2>1. Granted' = Granted \ {r.id}
    BY <1>2, <1>3, <1>7, <1>8, <1>9, <1>10, <1>11, <1>12
  <2>2. ASSUME NEW q \in Unanswered
        PROVE  q.id # r.id
    <3>1. CASE q \in Queued
      BY <1>4, <3>1 DEF LInv, NotYetSent
    <3>2. CASE q \notin Queued
      <4>1. PICK u \in Serving : q = thread[u].req
        BY <2>2, <3>2 DEF Unanswered
      <4>2. CallOf(u) = q.id /\ u \in Threads /\ thread[u].cb \in Ops
        BY <4>1 DEF Serving, CallOf, Ops
      <4>3. CASE thread[u].at = "applying"
        BY <1>12, <4>2, <4>3
      <4>4. CASE thread[u].at # "applying"
        <5>1. thread[u].at = "taken"
          BY <4>2, <4>4 DEF LInv, IInv, TypeOK, Thread, ThreadShape, Ops
        <5> QED  BY <1>4, <4>2, <5>1 DEF LInv, NotYetSent, Unsent
      <4> QED  BY <4>3, <4>4
    <3> QED  BY <3>1, <3>2
  <2>3. Ledger!Expire(r.id)
    BY <1>1, <1>5, <1>6, <2>1, <2>2 DEF Ledger!Expire
  <2> QED  BY <1>4, <2>3 DEF Ledger!Next
<1>13. CASE r.result # "ok" \/ \E u \in Threads : thread[u].at = "applying" /\ CallOf(u) = r.id
  <2>1. Granted' = Granted
    <3>1. ASSUME NEW x \in Granted
          PROVE  x \in Granted'
      <4>1. CASE \E s \in responses : s.result = "ok" /\ x = s.id
        BY <4>1, <1>2, <1>3, <1>10, <1>11, <1>13
      <4>2. CASE \E u \in Threads : Granting(u) /\ x = CallOf(u)
        BY <4>2, <1>3, <1>10, <1>11
      <4> QED  BY <3>1, <4>1, <4>2, <1>9
    <3>2. ASSUME NEW x \in Granted'
          PROVE  x \in Granted
      <4>1. CASE \E s \in responses' : s.result = "ok" /\ x = s.id
        BY <4>1, <1>2, <1>9
      <4>2. CASE \E u \in Threads : Granting(u)' /\ x = CallOf(u)'
        BY <4>2, <1>3, <1>9, <1>11
      <4> QED  BY <3>2, <4>1, <4>2, <1>10
    <3> QED  BY <3>1, <3>2
  <2> QED  BY <1>1, <1>5, <1>6, <2>1 DEF Ledger!vars
<1> QED  BY <1>12, <1>13

\* The parts of the load declare the scene and confirm it; the rest is unseen.
LEMMA LoadRefines ==
    ASSUME LInv, NEW t \in Threads, LoadInitialScene(t)
    PROVE  Ledger!Declare(Built)
<1>1. /\ thread[t].at = "taken" /\ thread[t].cb = "init"
      /\ UNCHANGED <<queue, outcome, initialLoaded, responses>>
      /\ promised' = [o \in Objects |-> IF o \in Built THEN InitPose ELSE promised[o]]
      /\ doubt' = doubt \cup Built
  BY DEF LoadInitialScene
<1>2. /\ thread \in [Threads -> Thread] /\ thread[t] \in Thread
      /\ "init" \notin Ops /\ "none" \notin Ops
      /\ Idle \in Thread /\ Idle.at = "idle" /\ Idle.cb = "none"
  BY ThreadTypes DEF LInv, IInv, TypeOK, Ops
<1>3. PICK x \in Thread :
        /\ thread' = [thread EXCEPT ![t] = x]
        /\ x.cb \notin Ops
        /\ ~(x.at = "applying" /\ x.reply = "ok")
        /\ ~(x.at = "taken" /\ x.cb = "init")
  <2>1. CASE thread' = [thread EXCEPT ![t] = Idle]
    BY <1>2, <2>1
  <2>2. CASE thread' = [thread EXCEPT ![t] = [thread[t] EXCEPT !.at = "applied"]]
    <3> DEFINE x == [thread[t] EXCEPT !.at = "applied"]
    <3>1. x \in Thread /\ x.at = "applied" /\ x.cb = "init"
      BY <1>1, <1>2 DEF Thread
    <3> QED  BY <1>2, <2>2, <3>1
  <2>3. CASE thread' = [thread EXCEPT ![t] = [thread[t] EXCEPT !.at = "applying",
                                                               !.reply = "pending"]]
    <3> DEFINE x == [thread[t] EXCEPT !.at = "applying", !.reply = "pending"]
    <3>1. x \in Thread /\ x.at = "applying" /\ x.cb = "init" /\ x.reply = "pending"
      BY <1>1, <1>2 DEF Thread
    <3> QED  BY <1>2, <2>3, <3>1
  <2> QED  BY <2>1, <2>2, <2>3 DEF LoadInitialScene, SendApply
<1>4. Unanswered' = Unanswered /\ Granted' = Granted
  BY <1>1, <1>2, <1>3, ThreadUnseen DEF Granting
<1>5. initialLoaded = TRUE
  BY <1>1 DEF LInv, IInv, TypeOK, LoadShape
<1>6. ~SceneDeclared
  BY <1>1 DEF SceneDeclared
<1>7. SceneDeclared' = TRUE
  <2>1. \A u \in Threads : thread'[u] = IF u = t THEN x ELSE thread[u]
    BY <1>2, <1>3
  <2>2. \A u \in Threads : u # t => thread[u].at # "taken"
    BY <1>1 DEF LInv, IInv, OneCallback, Busy
  <2> QED  BY <1>1, <1>3, <1>5, <2>1, <2>2 DEF SceneDeclared
<1> QED  BY <1>1, <1>4, <1>6, <1>7 DEF Ledger!Declare

LEMMA ConfirmRefines ==
    ASSUME LInv, NEW t \in Threads, InitialApplyReturns(t)
    PROVE  Ledger!Confirm(Built) \/ UNCHANGED Ledger!vars
<1> DEFINE x == [thread[t] EXCEPT !.at = "applied"]
<1>1. /\ thread[t].at = "applying" /\ thread[t].cb = "init" /\ thread' = [thread EXCEPT ![t] = x]
      /\ UNCHANGED <<queue, outcome, initialLoaded, responses, promised>>
      /\ doubt' = IF thread[t].reply = "ok" THEN doubt \ Built ELSE doubt
  BY DEF InitialApplyReturns, external
<1>2. thread[t] \in Thread /\ thread \in [Threads -> Thread] /\ "init" \notin Ops
  BY DEF LInv, IInv, TypeOK, Ops
<1>3. x \in Thread /\ x.at = "applied" /\ x.cb = thread[t].cb /\ x.req = thread[t].req
  BY <1>2 DEF Thread
<1> HIDE DEF x
<1>4. Unanswered' = Unanswered
  BY <1>1, <1>3, ThreadUnseen
<1>5. SceneDeclared' = SceneDeclared
  BY <1>1, <1>3, ThreadUnseen DEF Declaring
<1>6. CASE thread[t].reply # "ok"
  <2>1. Granted' = Granted
    BY <1>1, <1>3, <1>6, ThreadUnseen DEF Granting
  <2> QED  BY <1>1, <1>4, <1>5, <1>6, <2>1 DEF Ledger!vars
<1>7. CASE thread[t].reply = "ok"
  <2>1. CallOf(t) = 0
    BY <1>1 DEF CallOf
  <2>2. 0 \in Granted /\ Granted' = Granted \ {0}
    BY <1>1, <1>2, <1>3, <1>7, <2>1, GrantUsed DEF Granting
  <2>3. \A o \in Built : promised[o] = InitPose
    BY <1>1 DEF LInv, LoadShape
  <2>4. Ledger!Confirm(Built)
    BY <1>1, <1>4, <1>5, <1>7, <2>2, <2>3 DEF Ledger!Confirm
  <2> QED  BY <2>4
<1> QED  BY <1>6, <1>7

\* Taking the wipe, the timers and the end of the load are not seen.
LEMMA QuietRefines ==
    ASSUME LInv, NEW t \in Threads, NEW x \in Thread,
           thread' = [thread EXCEPT ![t] = x],
           UNCHANGED <<queue, outcome, responses, promised, doubt, initialLoaded>>,
           \/ x.cb = thread[t].cb /\ x.req = thread[t].req
           \/ x.cb \notin Ops /\ thread[t].cb \notin Ops,
           ~Granting(t), ~Declaring(t),
           ~(x.at = "applying" /\ x.reply = "ok"), ~(x.at = "taken" /\ x.cb = "init")
    PROVE  UNCHANGED Ledger!vars
  BY ThreadUnseen DEF Ledger!vars

LEMMA ReplyRefines ==
    ASSUME LInv, NEW t \in Threads,
           \/ (HandleRemove(t) \/ HandleSetPose(t)) /\ Reply(t, "failed")
           \/ RequestFails(t)
           \/ RequestSucceeds(t)
    PROVE  \E r \in Unanswered : Ledger!Succeed(r) \/ Ledger!Fail(r)
<1> DEFINE r == thread[t].req
<1>1. Idle \in Thread /\ Idle.at = "idle" /\ thread \in [Threads -> Thread] /\ "init" \notin Ops
  BY ThreadTypes DEF LInv, IInv, TypeOK, Ops
<1>2. CASE ~RequestSucceeds(t)
  <2>1. /\ Reply(t, "failed") /\ thread[t].cb \in Ops
        /\ UNCHANGED <<queue, initialLoaded, responses, promised>>
        /\ ~Granting(t)
        /\ doubt' \in {doubt, doubt \cup {r.obj}}
    BY <1>2 DEF HandleRemove, HandleSetPose, RequestFails, Ops, history, external, Granting
  <2>2. r \in Unanswered /\ Ledger!Answer(r, "failed") /\ SceneDeclared' = SceneDeclared
    BY <2>1, ReplySeen DEF Results
  <2>3. Granted' = Granted
    BY <1>1, <2>1, ThreadUnseen DEF Reply
  <2>4. Ledger!Fail(r)
    BY <2>1, <2>2, <2>3 DEF Ledger!Fail
  <2> QED  BY <2>2, <2>4
<1>3. CASE RequestSucceeds(t)
  <2>1. /\ Reply(t, "ok") /\ thread[t].cb \in Ops
        /\ UNCHANGED <<queue, initialLoaded, responses>>
        /\ Granting(t)
        /\ promised' = [promised EXCEPT ![r.obj] = r.pose]
        /\ doubt' = doubt \ {r.obj}
    BY <1>3 DEF RequestSucceeds, Granting
  <2>2. r \in Unanswered /\ Ledger!Answer(r, "ok") /\ SceneDeclared' = SceneDeclared
    BY <2>1, ReplySeen DEF Results
  <2>3. CallOf(t) = r.id
    BY <1>1, <2>1 DEF CallOf
  <2>4. r.id \in Granted /\ Granted' = Granted \ {r.id}
    BY <1>1, <2>1, <2>3, GrantUsed DEF Reply
  <2>5. Ledger!Succeed(r)
    BY <2>1, <2>2, <2>4 DEF Ledger!Succeed
  <2> QED  BY <2>2, <2>5
<1> QED  BY <1>2, <1>3

LEMMA StepRefines ==
    ASSUME LInv, NEW t \in Threads, Step(t)
    PROVE  [Ledger!Next]_(Ledger!vars)
<1>1. /\ thread \in [Threads -> Thread] /\ thread[t] \in Thread
      /\ Idle \in Thread /\ Idle.at = "idle" /\ Idle.cb = "none"
      /\ "none" \notin Ops /\ "init" \notin Ops /\ "force" \notin Ops
      /\ Built \in SUBSET Objects
  BY ThreadTypes, LoadedTypes DEF LInv, IInv, TypeOK, Ops
<1>2. CASE LoadInitialScene(t)
  BY <1>1, <1>2, LoadRefines DEF Ledger!Next
<1>3. CASE InitialApplyReturns(t)
  BY <1>1, <1>3, ConfirmRefines DEF Ledger!Next
<1>4. CASE PublishAcm(t)
  <2> DEFINE x == [thread[t] EXCEPT !.at = "acm"]
  <2>1. /\ thread[t].at = "applied" /\ thread' = [thread EXCEPT ![t] = x]
        /\ UNCHANGED <<queue, outcome, responses, promised, doubt, initialLoaded>>
    BY <1>4 DEF PublishAcm
  <2>2. x \in Thread /\ x.at = "acm" /\ x.cb = thread[t].cb /\ x.req = thread[t].req
    BY <1>1 DEF Thread
  <2> HIDE DEF x
  <2> QED  BY <2>1, <2>2, QuietRefines DEF Granting, Declaring
<1>5. CASE FinishLoad(t)
  <2>1. /\ thread[t].at \in {"applied", "acm"} /\ thread' = [thread EXCEPT ![t] = Idle]
        /\ UNCHANGED <<queue, outcome, responses, promised, doubt, initialLoaded>>
    BY <1>5 DEF FinishLoad, external, history
  <2>2. thread[t].cb = "init"
    BY <2>1 DEF LInv, ThreadShape
  <2> QED  BY <1>1, <2>1, <2>2, QuietRefines DEF Granting, Declaring
<1>6. CASE ReassertDynamic(t)
  <2>1. /\ thread[t].at = "taken" /\ thread[t].cb = "force"
        /\ thread' = [thread EXCEPT ![t] = Idle]
        /\ UNCHANGED <<queue, outcome, responses, promised, doubt, initialLoaded>>
    BY <1>6 DEF ReassertDynamic
  <2> QED  BY <1>1, <2>1, QuietRefines DEF Granting, Declaring
<1>7. CASE (HandleRemove(t) \/ HandleSetPose(t)) /\ ~Reply(t, "failed")
  <2> DEFINE x == [thread[t] EXCEPT !.at = "applying", !.reply = "pending"]
  <2>1. /\ thread[t].at = "taken" /\ thread[t].cb \in Ops
        /\ thread' = [thread EXCEPT ![t] = x]
        /\ UNCHANGED <<queue, outcome, responses, promised, doubt, initialLoaded>>
    BY <1>7 DEF HandleRemove, HandleSetPose, SendApply, Ops, history
  <2>2. /\ x \in Thread /\ x.at = "applying" /\ x.reply = "pending"
        /\ x.cb = thread[t].cb /\ x.req = thread[t].req
    BY <1>1 DEF Thread
  <2> HIDE DEF x
  <2> QED  BY <1>1, <2>1, <2>2, QuietRefines DEF Granting, Declaring
<1>8. CASE \/ (HandleRemove(t) \/ HandleSetPose(t)) /\ Reply(t, "failed")
           \/ RequestFails(t)
           \/ RequestSucceeds(t)
  BY <1>8, ReplyRefines DEF Ledger!Next
<1> QED  BY <1>2, <1>3, <1>4, <1>5, <1>6, <1>7, <1>8 DEF Step

LEMMA NextRefines == LInv /\ [Next]_vars => [Ledger!Next]_(Ledger!vars)
<1> SUFFICES ASSUME LInv, [Next]_vars PROVE [Ledger!Next]_(Ledger!vars)
  OBVIOUS
<1>1. ASSUME NEW op \in Ops, NEW o \in Objects, NEW p \in Presence, Arrive(op, o, p)
      PROVE  Ledger!Next
  <2>1. Ledger!Receive(o, p)
    BY <1>1, ArriveRefines
  <2> QED  BY <2>1 DEF Ledger!Next, Ledger!Presence, Presence
<1>2. ASSUME NEW t \in Threads, WipeScene(t)
      PROVE  UNCHANGED Ledger!vars
  <2>1. /\ ~Busy(t) /\ ~initialLoaded
        /\ thread' = [thread EXCEPT ![t] = Taken("init", None)]
        /\ UNCHANGED <<queue, outcome, responses, promised, doubt>>
    BY <1>2 DEF WipeScene, CanTake, history
  <2>2. /\ thread[t].at = "idle" /\ thread[t].cb = "none" /\ "none" \notin Ops
        /\ thread \in [Threads -> Thread]
    BY <2>1 DEF Busy, LInv, IInv, TypeOK, ThreadShape, Ops
  <2>3. /\ Taken("init", None) \in Thread
        /\ Taken("init", None).at = "taken" /\ Taken("init", None).cb = "init"
        /\ "init" \notin Ops
    BY ThreadTypes DEF Taken, Ops
  <2>4. Unanswered' = Unanswered /\ Granted' = Granted
    BY <2>1, <2>2, <2>3, ThreadUnseen DEF Granting
  <2>5. thread'[t] = Taken("init", None)
    BY <2>1, <2>2
  <2>6. SceneDeclared' = SceneDeclared
    BY <2>1, <2>3, <2>5 DEF SceneDeclared
  <2> QED  BY <2>1, <2>4, <2>6 DEF Ledger!vars
<1>3. ASSUME NEW t \in Threads, NEW op \in Ops, TakeRequest(t, op)
      PROVE  UNCHANGED Ledger!vars
  BY <1>3, TakeRequestRefines
<1>4. ASSUME NEW t \in Threads, TakeForce(t)
      PROVE  UNCHANGED Ledger!vars
  <2>1. /\ ~Busy(t)
        /\ thread' = [thread EXCEPT ![t] = Taken("force", None)]
        /\ UNCHANGED <<queue, outcome, responses, promised, doubt, initialLoaded>>
    BY <1>4 DEF TakeForce, CanTake, external, history
  <2>2. thread[t].at = "idle" /\ thread[t].cb = "none" /\ "none" \notin Ops
    BY <2>1 DEF Busy, LInv, ThreadShape, Ops
  <2>3. /\ Taken("force", None) \in Thread
        /\ Taken("force", None).at = "taken" /\ Taken("force", None).cb = "force"
        /\ "force" \notin Ops
    BY ThreadTypes DEF Taken, Ops
  <2> QED  BY <2>1, <2>2, <2>3, QuietRefines DEF Granting, Declaring
<1>5. ASSUME NEW t \in Threads, Step(t)
      PROVE  [Ledger!Next]_(Ledger!vars)
  BY <1>5, StepRefines
<1>6. ASSUME NEW t \in Threads, DeliverResponse(t)
      PROVE  [Ledger!Next]_(Ledger!vars)
  BY <1>6, DeliverRefines
<1>7. CASE ApplyRequest
  BY <1>7, ApplyRefines
<1>8. CASE DeliverTopic \/ DeliverWipe \/ Interfere \/ UNCHANGED vars
  <2>1. UNCHANGED <<queue, outcome, thread, initialLoaded, promised, responses, doubt>>
    BY <1>8 DEF DeliverTopic, DeliverWipe, Interfere, vars, internal
  <2>2. Unanswered' = Unanswered
    BY <2>1 DEF Unanswered, Queued, Serving
  <2>3. Granted' = Granted
    BY <2>1 DEF Granted, CallOf
  <2>4. SceneDeclared' = SceneDeclared
    BY <2>1 DEF SceneDeclared
  <2> QED  BY <2>1, <2>2, <2>3, <2>4 DEF Ledger!vars
<1> QED
  BY <1>1, <1>2, <1>3, <1>4, <1>5, <1>6, <1>7, <1>8 DEF Next

\* Whatever the threads, the queues and move_group do, the clients of the two
\* services see a ledger.
THEOREM Implements == Spec => ImplementsLedger
<1>1. Init /\ [][Next]_vars => []LInv
  BY InitLInv, LInvStep, PTL
<1> QED
  BY <1>1, InitRefines, NextRefines, PTL DEF Spec, ImplementsLedger, Ledger!Spec

-----------------------------------------------------------------------------
(***************************************************************************)
(* The scene at rest, and the message that allows the tool to collide.     *)
(***************************************************************************)

\* A handler waits for move_group to change this object.
Underway(o) ==
    \E t \in Serving : thread[t].at = "applying" /\ thread[t].req.obj = o

\* The topic will still say something about this object.
Announced(o) == \E i \in 1..Len(topic) : topic[i].world[o] # Keep

\* Nothing can be placed before the load: there is nothing but removals.
LoadComesFirst ==
    /\ ~SceneDeclared => specs = {} /\ \A o \in Objects : promised[o] = None
    /\ \A t \in Threads : thread[t].at = "applying" /\ thread[t].cb = "setPose"
                            => thread[t].req.obj \in specs
    /\ \A i \in 1..Len(queue["remove"]) : queue["remove"][i].pose = None
    /\ \A t \in Threads : thread[t].cb = "remove" => thread[t].req.pose = None

\* The wipe is over when the load goes on, and nothing is published during its call.
WipeBeforeLoad ==
    /\ wipe => \E t \in Threads : thread[t].cb = "init" /\ thread[t].at = "taken"
    /\ \A t \in Threads : thread[t].cb = "init" /\ thread[t].at = "applying" => topic = <<>>

\* The call that is waited for is the last in the queue, and the queue is empty once it
\* is answered.
CallIsLast ==
    \A t \in Threads : thread[t].at = "applying" =>
        \/ /\ thread[t].reply = "pending" /\ applyQ # <<>>
           /\ applyQ[Len(applyQ)].id = CallOf(t)
        \/ /\ applyQ = <<>>
           /\ thread[t].reply = "pending" => \E r \in responses : r.id = CallOf(t)

\* What waits for move_group changes only objects in doubt or underway.
CallsInDoubt ==
    /\ \A i \in 1..Len(applyQ), o \in Objects :
         applyQ[i].diff[o] # Keep => o \in doubt \/ Underway(o)
    /\ \A i \in 1..Len(applyQ) : applyQ[i].id = 0 => applyQ[i].diff = InitialDiff

\* A positive answer to the load means that the objects are where they were declared.
LoadTakesEffect ==
    \A t \in Threads :
        /\ interfered = 0 /\ thread[t].cb = "init" /\ thread[t].at = "applying"
        /\ thread[t].reply = "ok" \/ [id |-> 0, result |-> "ok"] \in responses
        => \A o \in Built : scene[o] = InitPose

\* An object nobody doubts is as promised, or will be.
SceneFollows ==
    interfered = 0 =>
        \A o \in Objects \ (doubt \cup overrun) :
            Underway(o) \/ Announced(o) \/ scene[o] = promised[o]

\* While the ACM is in flight the load sleeps, and nothing else is published.
AcmWaits ==
    AcmInFlight => \E t \in Threads : thread[t].at = "acm"

RestInv ==
    /\ LoadComesFirst
    /\ WipeBeforeLoad
    /\ CallIsLast
    /\ CallsInDoubt
    /\ LoadTakesEffect
    /\ SceneFollows

-----------------------------------------------------------------------------
\* While a callback of the default group runs, every other thread is idle.
LEMMA OthersIdle ==
    ASSUME LInv, NEW t \in Threads, thread[t].cb # "none"
    PROVE  \A u \in Threads : u # t => thread[u].at = "idle" /\ thread[u].cb = "none"
  BY DEF LInv, IInv, OneCallback, ThreadShape, Busy

\* When a callback of the default group is taken, every thread is idle.
LEMMA AllIdle ==
    ASSUME LInv, NEW t \in Threads, NEW cb, cb # "response", CanTake(t, cb)
    PROVE  \A u \in Threads : thread[u].at = "idle" /\ thread[u].cb = "none"
<1>1. \A u \in Threads : ~Busy(u)
  BY TakesAlone DEF LInv, IInv
<1> QED  BY <1>1 DEF LInv, ThreadShape, Busy

\* The threads that wait for move_group stay as they are, and so does what they see.
LEMMA WaitersKept ==
    ASSUME RestInv,
           \A u \in Threads : thread[u].at = "applying" \/ thread'[u].at = "applying"
                                => thread'[u] = thread[u],
           UNCHANGED <<applyQ, responses, scene, interfered, doubt>>
    PROVE  /\ CallIsLast' /\ CallsInDoubt' /\ LoadTakesEffect'
           /\ \A o \in Objects : Underway(o)' <=> Underway(o)
<1>1. \A o \in Objects : Underway(o)' <=> Underway(o)
  BY DEF Underway, Serving
<1>2. CallIsLast'
  BY DEF RestInv, CallIsLast, CallOf
<1>3. CallsInDoubt'
  BY <1>1 DEF RestInv, CallsInDoubt
<1>4. LoadTakesEffect'
  BY DEF RestInv, LoadTakesEffect
<1> QED  BY <1>1, <1>2, <1>3, <1>4

\* No promise is made and nothing is known of an object that was not before.
LEMMA LoadFirstKept ==
    ASSUME LoadComesFirst, UNCHANGED <<queue, specs, promised>>,
           SceneDeclared => SceneDeclared',
           \A u \in Threads :
             /\ thread'[u].cb = "remove" => thread[u].cb = "remove" /\ thread'[u].req = thread[u].req
             /\ thread'[u].at = "applying" /\ thread'[u].cb = "setPose"
                  => \/ thread'[u].req.obj \in specs
                     \/ /\ thread[u].at = "applying" /\ thread[u].cb = "setPose"
                        /\ thread'[u].req = thread[u].req
    PROVE  LoadComesFirst'
  BY DEF LoadComesFirst

\* The scene and the promises stay, and what is announced or underway too.
LEMMA FollowsKept ==
    ASSUME SceneFollows, UNCHANGED <<scene, interfered, promised, topic, overrun>>,
           doubt \subseteq doubt',
           \A o \in Objects : Underway(o) => Underway(o)' \/ o \in doubt'
    PROVE  SceneFollows'
<1>1. \A o \in Objects : Announced(o)' <=> Announced(o)
  BY DEF Announced
<1> QED  BY <1>1 DEF SceneFollows

\* What is published is announced, and what it pushes out of the queue is overrun.
LEMMA PublishAnnounces ==
    ASSUME TypeOK, NEW m \in Message, Publish(m)
    PROVE  /\ \A o \in Objects : m.world[o] # Keep => Announced(o)' /\ o \notin overrun'
           /\ \A o \in Objects : o \notin overrun' /\ ~Announced(o)'
                                   => o \notin overrun /\ ~Announced(o)
<1> DEFINE q == Pushed(topic, m)
           kept == UNION {Mentions(q[i]) : i \in 1..Len(q)}
           old == UNION {Mentions(topic[i]) : i \in 1..Len(topic)}
<1>1. topic' = q /\ topic' \in Seq(Message)
  BY PublishType DEF Publish
<1>2. overrun' = (overrun \ kept) \cup (old \ kept)
  BY DEF Publish
<1>3. \A o \in Objects : (o \in kept <=> Announced(o)') /\ (o \in old <=> Announced(o))
  BY <1>1 DEF Mentions, Announced
<1>4. Len(topic') \in 1..Len(topic') /\ topic'[Len(topic')] = m
  <2>1. topic \in Seq(Message) /\ Len(topic) \in Nat /\ TopicDepth \in Nat \ {0}
    BY SceneAssumption DEF TypeOK
  <2>2. CASE Len(topic) < TopicDepth
    <3>1. topic' = Append(topic, m)
      BY <1>1, <2>2 DEF Pushed
    <3> QED  BY <2>1, <3>1
  <2>3. CASE ~(Len(topic) < TopicDepth)
    <3>1. topic' = Append(Tail(topic), m) /\ topic # <<>>
      BY <1>1, <2>1, <2>3 DEF Pushed
    <3>2. Tail(topic) \in Seq(Message) /\ Len(Tail(topic)) \in Nat
      BY <2>1, <3>1, HeadTailProperties
    <3> QED  BY <3>1, <3>2
  <2> QED  BY <2>2, <2>3
<1>5. \A o \in Objects : m.world[o] # Keep => Announced(o)'
  BY <1>4 DEF Announced
<1> HIDE DEF q, kept, old
<1> QED  BY <1>2, <1>3, <1>5

\* A message about objects in doubt, underway or as promised leaves the scene to
\* follow.
LEMMA PublishFollows ==
    ASSUME TypeOK, SceneFollows, NEW m \in Message, Publish(m), UNCHANGED <<scene, interfered>>,
           \A o \in Objects :
             \/ m.world[o] # Keep
             \/ /\ promised'[o] = promised[o]
                /\ o \in doubt => o \in doubt'
                /\ Underway(o) => Underway(o)'
    PROVE  SceneFollows'
<1> SUFFICES ASSUME interfered = 0, NEW o \in Objects, o \notin doubt', o \notin overrun',
                    ~Announced(o)'
             PROVE  Underway(o)' \/ scene'[o] = promised'[o]
  BY DEF SceneFollows
<1>1. m.world[o] = Keep /\ o \notin overrun /\ ~Announced(o)
  BY PublishAnnounces
<1>2. promised'[o] = promised[o] /\ o \notin doubt /\ (Underway(o) => Underway(o)')
  BY <1>1
<1> QED  BY <1>1, <1>2 DEF SceneFollows

-----------------------------------------------------------------------------
\* A callback that is neither the load before its call nor waiting comes to its end, or
\* the load to its next part.
LEMMA QuietMove ==
    ASSUME LInv, RestInv, NEW t \in Threads, thread[t].cb # "none",
           ~(thread[t].cb = "init" /\ thread[t].at = "taken"), thread[t].at # "applying",
           NEW x, x.at \notin {"taken", "applying"}, x.cb \notin Ops,
           thread' = [thread EXCEPT ![t] = x],
           UNCHANGED <<queue, specs, promised, initialLoaded, applyQ, responses, wipe, scene,
                       interfered, doubt>>
    PROVE  /\ LoadComesFirst' /\ WipeBeforeLoad'
           /\ CallIsLast' /\ CallsInDoubt' /\ LoadTakesEffect'
           /\ \A o \in Objects : Underway(o)' <=> Underway(o)
<1>1. thread \in [Threads -> Thread] /\ "remove" \in Ops /\ "setPose" \in Ops
  BY DEF LInv, IInv, TypeOK, Ops
<1>2. \A u \in Threads : thread'[u] = IF u = t THEN x ELSE thread[u]
  BY <1>1
<1>3. \A u \in Threads : u # t => thread[u].at = "idle" /\ thread[u].cb = "none"
  BY OthersIdle
<1>4. /\ CallIsLast' /\ CallsInDoubt' /\ LoadTakesEffect'
      /\ \A o \in Objects : Underway(o)' <=> Underway(o)
  BY <1>2, WaitersKept
<1>5. WipeBeforeLoad'
  BY <1>2, <1>3 DEF RestInv, WipeBeforeLoad
<1>6. SceneDeclared' <=> SceneDeclared
  BY <1>2, <1>3 DEF SceneDeclared
<1>7. LoadComesFirst'
  BY <1>1, <1>2, <1>3, <1>6, LoadFirstKept DEF RestInv
<1> QED  BY <1>4, <1>5, <1>7

\* A callback of the default group is taken.
LEMMA QuietTake ==
    ASSUME LInv, RestInv, NEW t \in Threads, NEW cb, cb # "response", CanTake(t, cb),
           NEW x, x.at = "taken", thread' = [thread EXCEPT ![t] = x],
           UNCHANGED <<promised, topic, overrun, applyQ, responses, scene, interfered, doubt>>,
           wipe' => wipe \/ x.cb = "init"
    PROVE  WipeBeforeLoad' /\ CallIsLast' /\ CallsInDoubt' /\ LoadTakesEffect' /\ SceneFollows'
<1>1. thread \in [Threads -> Thread]
  BY DEF LInv, IInv, TypeOK
<1>2. \A u \in Threads : thread'[u] = IF u = t THEN x ELSE thread[u]
  BY <1>1
<1>3. \A u \in Threads : thread[u].at = "idle" /\ thread[u].cb = "none"
  BY AllIdle
<1>4. /\ CallIsLast' /\ CallsInDoubt' /\ LoadTakesEffect'
      /\ \A o \in Objects : Underway(o)' <=> Underway(o)
  BY <1>2, <1>3, WaitersKept
<1>5. WipeBeforeLoad'
  BY <1>2, <1>3 DEF RestInv, WipeBeforeLoad
<1>6. SceneFollows'
  BY <1>4, FollowsKept DEF RestInv
<1> QED  BY <1>4, <1>5, <1>6

\* A request waits for its turn; a removal asks for no pose.
LEMMA ArriveRests ==
    ASSUME LInv, RestInv, NEW op \in Ops, NEW o \in Objects, NEW p \in Presence,
           Arrive(op, o, p)
    PROVE  RestInv'
<1> DEFINE r == [id |-> Len(outcome) + 1, obj |-> o, pose |-> p]
<1>1. /\ UNCHANGED <<thread, initialLoaded, specs, applyQ, responses, topic, wipe, scene,
                     interfered, promised, doubt, overrun>>
      /\ queue \in [Ops -> Seq(Request)] /\ "remove" \in Ops
  BY DEF Arrive, external, history, LInv, IInv, TypeOK, Ops
<1>2. /\ CallIsLast' /\ CallsInDoubt' /\ LoadTakesEffect'
      /\ \A x \in Objects : Underway(x)' <=> Underway(x)
  BY <1>1, WaitersKept
<1>3. WipeBeforeLoad'
  BY <1>1 DEF RestInv, WipeBeforeLoad
<1>4. SceneFollows'
  BY <1>1, <1>2, FollowsKept DEF RestInv
<1>5. \A i \in 1..Len(queue'["remove"]) : queue'["remove"][i].pose = None
  <2>1. CASE op = "remove"
    <3>1. p = None /\ queue'["remove"] = Append(queue["remove"], r)
      BY <1>1, <2>1 DEF Arrive
    <3>2. queue["remove"] \in Seq(Request) /\ Len(queue["remove"]) \in Nat
      BY <1>1
    <3>3. r.pose = p
      OBVIOUS
    <3> HIDE DEF r
    <3>4. /\ Len(queue'["remove"]) = Len(queue["remove"]) + 1
          /\ \A i \in 1..Len(queue["remove"]) : queue'["remove"][i] = queue["remove"][i]
          /\ queue'["remove"][Len(queue["remove"]) + 1] = r
      BY <3>1, <3>2
    <3>5. \A i \in 1..Len(queue["remove"]) : queue["remove"][i].pose = None
      BY DEF RestInv, LoadComesFirst
    <3> QED  BY <3>1, <3>2, <3>3, <3>4, <3>5
  <2>2. CASE op # "remove"
    <3>1. queue'["remove"] = queue["remove"]
      BY <1>1, <2>2 DEF Arrive
    <3> QED  BY <3>1 DEF RestInv, LoadComesFirst
  <2> QED  BY <2>1, <2>2
<1>6. LoadComesFirst'
  BY <1>1, <1>5 DEF RestInv, LoadComesFirst, SceneDeclared
<1> QED  BY <1>2, <1>3, <1>4, <1>6 DEF RestInv

\* An idle thread takes the load, the republication or a request.
LEMMA TakesRest ==
    ASSUME LInv, RestInv, NEW t \in Threads,
           WipeScene(t) \/ TakeForce(t) \/ \E op \in Ops : TakeRequest(t, op)
    PROVE  RestInv'
<1>1. thread \in [Threads -> Thread] /\ queue \in [Ops -> Seq(Request)] /\ "remove" \in Ops
  BY DEF LInv, IInv, TypeOK, Ops
<1>2. CASE WipeScene(t)
  <2>1. Taken("init", None).at = "taken" /\ Taken("init", None).cb = "init"
    BY DEF Taken
  <2>2. /\ CanTake(t, "init") /\ thread' = [thread EXCEPT ![t] = Taken("init", None)]
        /\ UNCHANGED <<promised, topic, overrun, applyQ, responses, scene, interfered, doubt>>
    BY <1>2 DEF WipeScene, history
  <2>3. WipeBeforeLoad' /\ CallIsLast' /\ CallsInDoubt' /\ LoadTakesEffect' /\ SceneFollows'
    BY <2>1, <2>2, QuietTake
  <2>4. ~SceneDeclared /\ UNCHANGED <<queue, specs, promised>>
    BY <1>2 DEF WipeScene, SceneDeclared, history
  <2>5. \A u \in Threads : thread'[u] = IF u = t THEN Taken("init", None) ELSE thread[u]
    BY <1>1, <2>2
  <2>6. LoadComesFirst'
    BY <2>1, <2>4, <2>5, LoadFirstKept DEF RestInv
  <2> QED  BY <2>3, <2>6 DEF RestInv
<1>3. CASE TakeForce(t)
  <2>1. Taken("force", None).at = "taken" /\ Taken("force", None).cb = "force"
    BY DEF Taken
  <2>2. /\ CanTake(t, "force") /\ thread' = [thread EXCEPT ![t] = Taken("force", None)]
        /\ UNCHANGED <<promised, topic, overrun, applyQ, responses, scene, interfered, doubt,
                       wipe, queue, specs, initialLoaded>>
    BY <1>3 DEF TakeForce, external, history
  <2>3. WipeBeforeLoad' /\ CallIsLast' /\ CallsInDoubt' /\ LoadTakesEffect' /\ SceneFollows'
    BY <2>1, <2>2, QuietTake
  <2>4. \A u \in Threads : thread'[u] = IF u = t THEN Taken("force", None) ELSE thread[u]
    BY <1>1, <2>2
  <2>5. SceneDeclared => SceneDeclared'
    BY <2>1, <2>2, <2>4 DEF SceneDeclared
  <2>6. LoadComesFirst'
    BY <2>1, <2>2, <2>4, <2>5, LoadFirstKept DEF RestInv
  <2> QED  BY <2>3, <2>6 DEF RestInv
<1>4. ASSUME NEW op \in Ops, TakeRequest(t, op)
      PROVE  RestInv'
  <2> DEFINE h == Head(queue[op])
  <2>1. Taken(op, h).at = "taken" /\ Taken(op, h).cb = op /\ Taken(op, h).req = h
    BY DEF Taken
  <2>2. /\ CanTake(t, op) /\ thread' = [thread EXCEPT ![t] = Taken(op, h)]
        /\ queue' = [queue EXCEPT ![op] = Tail(@)] /\ queue[op] # <<>>
        /\ UNCHANGED <<promised, topic, overrun, applyQ, responses, scene, interfered, doubt,
                       wipe, specs, initialLoaded>>
        /\ op \notin {"response", "init"}
    BY <1>4 DEF TakeRequest, external, history, Ops
  <2>3. WipeBeforeLoad' /\ CallIsLast' /\ CallsInDoubt' /\ LoadTakesEffect' /\ SceneFollows'
    BY <2>1, <2>2, QuietTake
  <2>4. \A u \in Threads : thread'[u] = IF u = t THEN Taken(op, h) ELSE thread[u]
    BY <1>1, <2>2
  <2>5. SceneDeclared' <=> SceneDeclared
    <3>1. \A u \in Threads : thread[u].at = "idle"
      BY <2>2, AllIdle
    <3> QED  BY <2>1, <2>2, <2>4, <3>1 DEF SceneDeclared
  <2>6. queue[op] \in Seq(Request) /\ queue'[op] = Tail(queue[op])
        /\ \A y \in Ops : y # op => queue'[y] = queue[y]
    BY <1>1, <2>2
  <2>7. /\ \A i \in 1..Len(queue'[op]) :
             i + 1 \in 1..Len(queue[op]) /\ queue'[op][i] = queue[op][i + 1]
        /\ 1 \in 1..Len(queue[op]) /\ h = queue[op][1]
    <3> DEFINE q == queue[op]
    <3>1. q \in Seq(Request) /\ q # <<>> /\ queue'[op] = Tail(q) /\ h = Head(q)
      BY <2>2, <2>6
    <3>2. /\ Len(q) \in Nat \ {0} /\ Len(Tail(q)) = Len(q) - 1
          /\ \A i \in 1..Len(Tail(q)) : Tail(q)[i] = q[i + 1]
          /\ Head(q) = q[1]
      <4> HIDE DEF q
      <4> QED  BY <3>1, HeadTailProperties, EmptySeq
    <3> HIDE DEF q, h
    <3>3. /\ \A i \in 1..Len(Tail(q)) : i + 1 \in 1..Len(q) /\ Tail(q)[i] = q[i + 1]
          /\ 1 \in 1..Len(q) /\ h = q[1]
      BY <3>1, <3>2
    <3> QED  BY <3>1, <3>3 DEF q
  <2>8. \A i \in 1..Len(queue["remove"]) : queue["remove"][i].pose = None
    BY DEF RestInv, LoadComesFirst
  <2>9. \A i \in 1..Len(queue'["remove"]) : queue'["remove"][i].pose = None
    <3>1. CASE op = "remove"
      BY <2>7, <2>8, <3>1
    <3>2. CASE op # "remove"
      BY <1>1, <2>6, <2>8, <3>2
    <3> QED  BY <3>1, <3>2
  <2>10. op = "remove" => h.pose = None
    BY <2>7, <2>8
  <2> HIDE DEF h
  <2>11. LoadComesFirst'
    BY <2>1, <2>2, <2>4, <2>5, <2>9, <2>10 DEF RestInv, LoadComesFirst
  <2> QED  BY <2>3, <2>11 DEF RestInv
<1> QED  BY <1>2, <1>3, <1>4

\* The load declares its objects on an empty topic.
LEMMA LoadRests ==
    ASSUME SettleDrains, LInv, RestInv, NEW t \in Threads, LoadInitialScene(t)
    PROVE  RestInv'
<1>1. /\ thread \in [Threads -> Thread] /\ thread[t].at = "taken" /\ thread[t].cb = "init"
      /\ topic = <<>> /\ ~wipe
      /\ UNCHANGED <<queue, initialLoaded, responses, topic, wipe, scene, interfered, overrun>>
      /\ promised' = [o \in Objects |-> IF o \in Built THEN InitPose ELSE promised[o]]
      /\ doubt' = doubt \cup Built
      /\ "init" \notin Ops /\ "remove" \in Ops /\ "setPose" \in Ops
  BY DEF LInv, IInv, TypeOK, LoadInitialScene, Settled, Ops
<1>2. \A u \in Threads : u # t => thread[u].at = "idle" /\ thread[u].cb = "none"
  BY <1>1, OthersIdle
<1>3. \E x : /\ thread' = [thread EXCEPT ![t] = x]
             /\ x.cb \in {"none", "init"} /\ x.at \in {"idle", "applied", "applying"}
             /\ \/ UNCHANGED applyQ /\ x.at # "applying"
                \/ /\ SendApply(t, InitialDiff) /\ x.cb = "init"
                   /\ x.at = "applying" /\ x.reply = "pending"
  <2>1. CASE thread' = [thread EXCEPT ![t] = Idle] /\ UNCHANGED applyQ
    <3>1. Idle.cb = "none" /\ Idle.at = "idle"
      BY DEF Idle
    <3> QED  BY <2>1, <3>1
  <2>2. CASE thread' = [thread EXCEPT ![t].at = "applied"] /\ UNCHANGED applyQ
    <3> DEFINE x == [thread[t] EXCEPT !.at = "applied"]
    <3>1. thread' = [thread EXCEPT ![t] = x] /\ x.cb = "init" /\ x.at = "applied"
      BY <1>1, <2>2 DEF Thread
    <3> QED  BY <2>2, <3>1
  <2>3. CASE SendApply(t, InitialDiff)
    <3> DEFINE x == [thread[t] EXCEPT !.at = "applying", !.reply = "pending"]
    <3>1. thread' = [thread EXCEPT ![t] = x] /\ x.cb = "init" /\ x.at = "applying"
          /\ x.reply = "pending"
      BY <1>1, <2>3 DEF Thread, SendApply
    <3> QED  BY <2>3, <3>1
  <2> QED  BY <2>1, <2>2, <2>3 DEF LoadInitialScene
<1>4. PICK x : /\ thread' = [thread EXCEPT ![t] = x]
               /\ x.cb \in {"none", "init"} /\ x.at \in {"idle", "applied", "applying"}
               /\ \/ UNCHANGED applyQ /\ x.at # "applying"
                  \/ /\ SendApply(t, InitialDiff) /\ x.cb = "init"
                     /\ x.at = "applying" /\ x.reply = "pending"
  BY <1>3
<1>5. \A u \in Threads : thread'[u] = IF u = t THEN x ELSE thread[u]
  BY <1>1, <1>4
<1>6. initialLoaded /\ ~SceneDeclared /\ 0 \notin Sent
  BY <1>1 DEF LInv, LoadShape, SceneDeclared, NotYetSent, Unsent, CallOf
<1>7. SceneDeclared'
  BY <1>1, <1>2, <1>4, <1>5, <1>6 DEF SceneDeclared
<1>8. \A o \in Objects : ~Underway(o)
  BY <1>1, <1>2 DEF Underway, Serving
<1>9. LoadComesFirst'
  BY <1>1, <1>2, <1>4, <1>5, <1>7 DEF RestInv, LoadComesFirst
<1>10. WipeBeforeLoad'
  BY <1>1 DEF WipeBeforeLoad
<1>11. CallIsLast' /\ CallsInDoubt'
  <2>1. CASE UNCHANGED applyQ /\ x.at # "applying"
    <3>1. CallIsLast'
      BY <1>2, <1>5, <2>1 DEF CallIsLast
    <3>2. CallsInDoubt'
      BY <1>1, <1>8, <2>1 DEF RestInv, CallsInDoubt
    <3> QED  BY <3>1, <3>2
  <2>2. CASE SendApply(t, InitialDiff) /\ x.cb = "init" /\ x.at = "applying"
             /\ x.reply = "pending"
    <3> DEFINE c == [id |-> CallOf(t), diff |-> InitialDiff]
               n == Len(applyQ)
    <3>1. applyQ \in Seq([id : 0..MaxRequests, diff : Diff]) /\ n \in Nat
      BY DEF LInv, IInv, TypeOK
    <3>2. applyQ' = Append(applyQ, c) /\ c.id = 0 /\ c.diff = InitialDiff
      BY <1>1, <2>2 DEF SendApply, CallOf
    <3> HIDE DEF c
    <3>3. /\ Len(applyQ') = n + 1 /\ applyQ'[n + 1] = c /\ applyQ' # <<>>
          /\ \A i \in 1..n : applyQ'[i] = applyQ[i]
      BY <3>1, <3>2
    <3> HIDE DEF n
    <3>4. ASSUME NEW i \in 1..Len(applyQ')
          PROVE  (i \in 1..n /\ applyQ'[i] = applyQ[i]) \/ applyQ'[i] = c
      BY <3>1, <3>3
    <3>5. CallIsLast'
      <4>1. CallOf(t)' = 0
        BY <1>5, <2>2 DEF CallOf
      <4> QED  BY <1>2, <1>5, <2>2, <3>2, <3>3, <4>1 DEF CallIsLast
    <3>6. \A o \in Objects : InitialDiff[o] # Keep => o \in doubt'
      BY <1>1 DEF InitialDiff
    <3>7. CallsInDoubt'
      <4>1. ASSUME NEW i \in 1..Len(applyQ'), NEW o \in Objects, applyQ'[i].diff[o] # Keep
            PROVE  o \in doubt'
        BY <1>1, <1>8, <3>2, <3>4, <3>6, <4>1 DEF RestInv, CallsInDoubt, n
      <4>2. \A i \in 1..Len(applyQ') : applyQ'[i].id = 0 => applyQ'[i].diff = InitialDiff
        BY <3>2, <3>4 DEF RestInv, CallsInDoubt, n
      <4> QED  BY <4>1, <4>2 DEF CallsInDoubt
    <3> QED  BY <3>5, <3>7
  <2> QED  BY <1>4, <2>1, <2>2
<1>12. LoadTakesEffect'
  <2>1. [id |-> 0, result |-> "ok"] \notin responses
    BY <1>6 DEF Sent
  <2> QED  BY <1>1, <1>2, <1>4, <1>5, <2>1 DEF LoadTakesEffect
<1>13. SceneFollows'
  <2> SUFFICES ASSUME interfered = 0, NEW o \in Objects, o \notin doubt', o \notin overrun
               PROVE  scene[o] = promised'[o]
    BY <1>1 DEF SceneFollows
  <2>1. o \notin doubt /\ promised'[o] = promised[o]
    BY <1>1
  <2>2. ~Announced(o)
    BY <1>1 DEF Announced
  <2> QED  BY <1>8, <2>1, <2>2 DEF RestInv, SceneFollows
<1> QED  BY <1>9, <1>10, <1>11, <1>12, <1>13 DEF RestInv

\* When the load believes its answer, the objects are where it declared them.
LEMMA LoadReturnRests ==
    ASSUME LInv, RestInv, NEW t \in Threads, InitialApplyReturns(t)
    PROVE  RestInv'
<1>1. /\ thread \in [Threads -> Thread] /\ thread[t].at = "applying" /\ thread[t].cb = "init"
      /\ thread' = [thread EXCEPT ![t].at = "applied"]
      /\ UNCHANGED <<queue, initialLoaded, specs, promised, overrun, topic>>
      /\ UNCHANGED <<applyQ, responses, wipe, scene, interfered>>
      /\ doubt' = IF thread[t].reply = "ok" THEN doubt \ Built ELSE doubt
      /\ "init" \notin Ops /\ "remove" \in Ops /\ "setPose" \in Ops
  BY DEF LInv, IInv, TypeOK, InitialApplyReturns, external, Ops
<1>2. \A u \in Threads : u # t => thread[u].at = "idle" /\ thread[u].cb = "none"
  BY <1>1, OthersIdle
<1>3. /\ \A u \in Threads : u # t => thread'[u] = thread[u]
      /\ thread'[t].at = "applied" /\ thread'[t].cb = "init"
  BY <1>1 DEF Thread
<1>4. \A o \in Objects : ~Underway(o) /\ (Announced(o)' <=> Announced(o))
  BY <1>1, <1>2 DEF Underway, Serving, Announced
<1>5. SceneDeclared' <=> SceneDeclared
  BY <1>1, <1>2, <1>3 DEF SceneDeclared
<1>6. LoadComesFirst'
  BY <1>1, <1>2, <1>3, <1>5 DEF RestInv, LoadComesFirst
<1>7. WipeBeforeLoad'
  BY <1>1, <1>2, <1>3 DEF RestInv, WipeBeforeLoad
<1>8. CallIsLast' /\ LoadTakesEffect'
  BY <1>2, <1>3 DEF CallIsLast, LoadTakesEffect
<1>9. CallsInDoubt'
  <2>1. CASE thread[t].reply = "ok"
    <3>1. applyQ = <<>>
      BY <1>1, <2>1 DEF RestInv, CallIsLast
    <3> QED  BY <1>1, <3>1 DEF CallsInDoubt
  <2>2. CASE thread[t].reply # "ok"
    BY <1>1, <1>4, <2>2 DEF RestInv, CallsInDoubt
  <2> QED  BY <2>1, <2>2
<1>10. SceneFollows'
  <2> SUFFICES ASSUME interfered = 0, NEW o \in Objects, o \notin doubt', o \notin overrun,
                      ~Announced(o)
               PROVE  scene[o] = promised[o]
    BY <1>1, <1>4 DEF SceneFollows
  <2>1. CASE o \in doubt
    <3>1. thread[t].reply = "ok" /\ o \in Built
      BY <1>1, <2>1
    <3>2. scene[o] = InitPose
      BY <1>1, <3>1 DEF RestInv, LoadTakesEffect
    <3>3. promised[o] = InitPose
      BY <1>1, <3>1 DEF LInv, LoadShape
    <3> QED  BY <3>2, <3>3
  <2>2. CASE o \notin doubt
    BY <1>4, <2>2 DEF RestInv, SceneFollows
  <2> QED  BY <2>1, <2>2
<1> QED  BY <1>6, <1>7, <1>8, <1>9, <1>10 DEF RestInv

\* The ACM says nothing of the objects.
LEMMA AcmRests ==
    ASSUME LInv, RestInv, NEW t \in Threads, PublishAcm(t)
    PROVE  RestInv'
<1> DEFINE m == [world |-> [o \in Objects |-> Keep], acm |-> TRUE]
           x == [thread[t] EXCEPT !.at = "acm"]
<1>1. TypeOK /\ thread \in [Threads -> Thread] /\ "init" \notin Ops
  BY DEF LInv, IInv, TypeOK, Ops
<1>2. /\ thread[t].at = "applied" /\ thread[t].cb = "init" /\ Publish(m)
      /\ thread' = [thread EXCEPT ![t] = x]
      /\ UNCHANGED <<queue, specs, promised, initialLoaded, applyQ, responses, wipe, scene,
                     interfered, doubt>>
  BY <1>1 DEF PublishAcm, LInv, ThreadShape
<1>3. x.at = "acm" /\ x.cb = "init"
  BY <1>1, <1>2 DEF Thread
<1>4. m \in Message
  BY DEF Message, Diff
<1> HIDE DEF m, x
<1>5. /\ LoadComesFirst' /\ WipeBeforeLoad' /\ CallIsLast' /\ CallsInDoubt'
      /\ LoadTakesEffect' /\ \A o \in Objects : Underway(o)' <=> Underway(o)
  BY <1>1, <1>2, <1>3, QuietMove
<1>6. SceneFollows'
  BY <1>1, <1>2, <1>4, <1>5, PublishFollows DEF RestInv
<1> QED  BY <1>5, <1>6 DEF RestInv

\* The end of the load touches nothing but its thread.
LEMMA FinishRests ==
    ASSUME LInv, RestInv, NEW t \in Threads, FinishLoad(t)
    PROVE  RestInv'
<1>1. Idle.at = "idle" /\ Idle.cb = "none"
  BY DEF Idle
<1>2. /\ thread[t].at \in {"applied", "acm"} /\ thread[t].cb = "init"
      /\ thread' = [thread EXCEPT ![t] = Idle]
      /\ UNCHANGED <<queue, specs, promised, initialLoaded, applyQ, responses, wipe, scene,
                     interfered, doubt, topic, overrun>>
  BY DEF FinishLoad, external, history, LInv, ThreadShape
<1>3. /\ LoadComesFirst' /\ WipeBeforeLoad' /\ CallIsLast' /\ CallsInDoubt'
      /\ LoadTakesEffect' /\ \A o \in Objects : Underway(o)' <=> Underway(o)
  BY <1>1, <1>2, QuietMove DEF Ops
<1>4. SceneFollows'
  BY <1>2, <1>3, FollowsKept DEF RestInv
<1> QED  BY <1>3, <1>4 DEF RestInv

\* The republisher says again what is promised.
LEMMA ReassertRests ==
    ASSUME LInv, RestInv, NEW t \in Threads, ReassertDynamic(t)
    PROVE  RestInv'
<1> DEFINE m == [world |-> [o \in Objects |-> IF forced[o] = None THEN Keep ELSE forced[o]],
                 acm |-> FALSE]
<1>1. Idle.at = "idle" /\ Idle.cb = "none"
  BY DEF Idle
<1>2. /\ thread[t].at = "taken" /\ thread[t].cb = "force"
      /\ thread' = [thread EXCEPT ![t] = Idle]
      /\ UNCHANGED <<queue, specs, promised, initialLoaded, applyQ, responses, wipe, scene,
                     interfered, doubt>>
      /\ UNCHANGED <<topic, overrun>> \/ Publish(m)
  BY DEF ReassertDynamic
<1>3. m \in Message /\ TypeOK
  BY DEF Message, Diff, LInv, IInv, TypeOK
<1> HIDE DEF m
<1>4. /\ LoadComesFirst' /\ WipeBeforeLoad' /\ CallIsLast' /\ CallsInDoubt'
      /\ LoadTakesEffect' /\ \A o \in Objects : Underway(o)' <=> Underway(o)
  BY <1>1, <1>2, QuietMove DEF Ops
<1>5. CASE UNCHANGED <<topic, overrun>>
  BY <1>2, <1>4, <1>5, FollowsKept DEF RestInv
<1>6. CASE Publish(m)
  BY <1>2, <1>3, <1>4, <1>6, PublishFollows DEF RestInv
<1> QED  BY <1>2, <1>4, <1>5, <1>6 DEF RestInv

\* A handler that cannot send its call ends as it began.
LEMMA RefusalRests ==
    ASSUME LInv, RestInv, NEW t \in Threads, thread[t].at = "taken", thread[t].cb \in Ops,
           Reply(t, "failed"),
           UNCHANGED <<queue, specs, promised, initialLoaded, applyQ, responses, wipe, scene,
                       interfered, doubt, topic, overrun>>
    PROVE  RestInv'
<1>1. Idle.at = "idle" /\ Idle.cb = "none"
  BY DEF Idle
<1>2. thread[t].cb \notin {"none", "init"} /\ thread' = [thread EXCEPT ![t] = Idle]
  BY DEF Reply, Ops
<1>3. /\ LoadComesFirst' /\ WipeBeforeLoad' /\ CallIsLast' /\ CallsInDoubt'
      /\ LoadTakesEffect' /\ \A o \in Objects : Underway(o)' <=> Underway(o)
  BY <1>1, <1>2, QuietMove DEF Ops
<1>4. SceneFollows'
  BY <1>3, FollowsKept DEF RestInv
<1> QED  BY <1>3, <1>4 DEF RestInv

\* A handler sends its call behind the others; it changes one object, which is underway
\* from now on.
LEMMA SendRests ==
    ASSUME LInv, RestInv, NEW t \in Threads, thread[t].at = "taken", thread[t].cb \in Ops,
           NEW o \in Objects, o = thread[t].req.obj, NEW v, SendApply(t, Only(o, v)),
           thread[t].cb = "setPose" => o \in specs,
           UNCHANGED <<queue, specs, promised, initialLoaded, responses, wipe, scene,
                       interfered, doubt, topic, overrun>>
    PROVE  RestInv'
<1> DEFINE c == [id |-> CallOf(t), diff |-> Only(o, v)]
           n == Len(applyQ)
<1>1. /\ TypeOK /\ thread \in [Threads -> Thread]
      /\ "init" \notin Ops /\ "none" \notin Ops /\ "remove" \in Ops /\ "setPose" \in Ops
      /\ applyQ \in Seq([id : 0..MaxRequests, diff : Diff]) /\ n \in Nat
  BY DEF LInv, IInv, TypeOK, Ops
<1>2. \A u \in Threads : u # t => thread[u].at = "idle" /\ thread[u].cb = "none"
  BY <1>1, OthersIdle
<1>3. /\ \A u \in Threads : u # t => thread'[u] = thread[u]
      /\ thread'[t].at = "applying" /\ thread'[t].reply = "pending"
      /\ thread'[t].cb = thread[t].cb /\ thread'[t].req = thread[t].req
  BY <1>1 DEF SendApply, Thread
<1>4. CallOf(t) = thread[t].req.id /\ CallOf(t)' = CallOf(t) /\ CallOf(t) # 0
  <2>1. thread[t].cb # "init" /\ t \in Serving
    BY <1>1 DEF Serving
  <2>2. thread[t].req.id >= 1 /\ thread[t].req.id \in Nat
    BY <1>1, <2>1, LedgerTypes
  <2> QED  BY <1>3, <2>1, <2>2 DEF CallOf
<1>5. (\A x \in Objects : ~Underway(x)) /\ Underway(o)'
  BY <1>1, <1>2, <1>3 DEF Underway, Serving
<1>6. applyQ' = Append(applyQ, c) /\ c.id = CallOf(t) /\ c.diff = Only(o, v)
  BY DEF SendApply
<1> HIDE DEF c
<1>7. /\ Len(applyQ') = n + 1 /\ applyQ'[n + 1] = c /\ applyQ' # <<>>
      /\ \A i \in 1..n : applyQ'[i] = applyQ[i]
  BY <1>1, <1>6
<1> HIDE DEF n
<1>8. ASSUME NEW i \in 1..Len(applyQ')
      PROVE  (i \in 1..n /\ applyQ'[i] = applyQ[i]) \/ applyQ'[i] = c
  BY <1>1, <1>7
<1>9. SceneDeclared' <=> SceneDeclared
  BY <1>1, <1>2, <1>3 DEF SceneDeclared
<1>10. LoadComesFirst'
  BY <1>1, <1>2, <1>3, <1>9 DEF RestInv, LoadComesFirst
<1>11. WipeBeforeLoad'
  BY <1>1, <1>2, <1>3 DEF RestInv, WipeBeforeLoad
<1>12. CallIsLast'
  BY <1>2, <1>3, <1>4, <1>6, <1>7 DEF CallIsLast
<1>13. CallsInDoubt'
  <2>1. ASSUME NEW i \in 1..Len(applyQ'), NEW x \in Objects, applyQ'[i].diff[x] # Keep
        PROVE  x \in doubt \/ Underway(x)'
    <3>1. CASE i \in 1..n /\ applyQ'[i] = applyQ[i]
      BY <1>5, <2>1, <3>1 DEF RestInv, CallsInDoubt, n
    <3>2. CASE applyQ'[i] = c
      <4>1. x = o
        BY <1>6, <2>1, <3>2 DEF Only
      <4> QED  BY <1>5, <4>1
    <3> QED  BY <1>8, <3>1, <3>2
  <2>2. \A i \in 1..Len(applyQ') : applyQ'[i].id = 0 => applyQ'[i].diff = InitialDiff
    BY <1>4, <1>6, <1>8 DEF RestInv, CallsInDoubt, n
  <2> QED  BY <2>1, <2>2 DEF CallsInDoubt
<1>14. LoadTakesEffect'
  BY <1>1, <1>2, <1>3 DEF LoadTakesEffect
<1>15. SceneFollows'
  BY <1>5, FollowsKept DEF RestInv
<1> QED  BY <1>10, <1>11, <1>12, <1>13, <1>14, <1>15 DEF RestInv

\* A handler of a request sends its call or gives up at once.
LEMMA HandlersRest ==
    ASSUME LInv, RestInv, NEW t \in Threads, HandleRemove(t) \/ HandleSetPose(t)
    PROVE  RestInv'
<1> DEFINE o == thread[t].req.obj
<1>1. thread[t].at = "taken" /\ thread[t].cb \in Ops
      /\ UNCHANGED <<queue, specs, promised, initialLoaded, responses, wipe, scene, interfered,
                     doubt, topic, overrun>>
  BY DEF HandleRemove, HandleSetPose, history, Ops
<1>2. o \in Objects
  BY <1>1 DEF LInv, IInv, TypeOK, Request
<1>3. CASE Reply(t, "failed") /\ UNCHANGED applyQ
  BY <1>1, <1>3, RefusalRests
<1>4. CASE SendApply(t, Only(o, None)) /\ thread[t].cb = "remove"
  <2> HIDE DEF o
  <2>1. thread[t].cb # "setPose" /\ o = thread[t].req.obj
    BY <1>4 DEF o
  <2> QED  BY <1>1, <1>2, <1>4, <2>1, SendRests
<1>5. CASE SendApply(t, Only(o, thread[t].req.pose)) /\ o \in specs
  <2> HIDE DEF o
  <2>1. o = thread[t].req.obj
    BY DEF o
  <2> QED  BY <1>1, <1>2, <1>5, <2>1, SendRests
<1> QED  BY <1>3, <1>4, <1>5 DEF HandleRemove, HandleSetPose

\* What a handler did is in doubt when it gives up.
LEMMA GivingUpRests ==
    ASSUME LInv, RestInv, NEW t \in Threads, RequestFails(t)
    PROVE  RestInv'
<1>1. /\ thread \in [Threads -> Thread] /\ thread[t].at = "applying" /\ thread[t].cb \in Ops
      /\ thread' = [thread EXCEPT ![t] = Idle]
      /\ doubt' = doubt \cup {thread[t].req.obj}
      /\ UNCHANGED <<queue, specs, promised, initialLoaded, applyQ, responses, wipe, scene,
                     interfered, topic, overrun>>
      /\ Idle.at = "idle" /\ Idle.cb = "none"
      /\ "init" \notin Ops /\ "none" \notin Ops
  BY DEF LInv, IInv, TypeOK, RequestFails, Reply, external, Idle, Ops
<1>2. \A u \in Threads : u # t => thread[u].at = "idle" /\ thread[u].cb = "none"
  BY <1>1, OthersIdle
<1>3. \A u \in Threads : thread'[u] = IF u = t THEN Idle ELSE thread[u]
  BY <1>1
<1>4. \A o \in Objects : Underway(o) => o \in doubt'
  BY <1>1, <1>2 DEF Underway, Serving
<1>5. SceneDeclared' <=> SceneDeclared
  BY <1>1, <1>2, <1>3 DEF SceneDeclared
<1>6. LoadComesFirst'
  BY <1>1, <1>2, <1>3, <1>5 DEF RestInv, LoadComesFirst
<1>7. WipeBeforeLoad'
  BY <1>1, <1>2, <1>3 DEF RestInv, WipeBeforeLoad
<1>8. CallIsLast' /\ LoadTakesEffect'
  BY <1>1, <1>2, <1>3 DEF CallIsLast, LoadTakesEffect
<1>9. CallsInDoubt'
  BY <1>1, <1>4 DEF RestInv, CallsInDoubt
<1>10. SceneFollows'
  BY <1>1, <1>4, FollowsKept DEF RestInv
<1> QED  BY <1>6, <1>7, <1>8, <1>9, <1>10 DEF RestInv

\* What a handler did is promised and published when it succeeds.
LEMMA SuccessRests ==
    ASSUME LInv, RestInv, NEW t \in Threads, RequestSucceeds(t)
    PROVE  RestInv'
<1> DEFINE o == thread[t].req.obj
           p == thread[t].req.pose
           m == [world |-> Only(o, p), acm |-> FALSE]
<1>1. /\ TypeOK /\ thread \in [Threads -> Thread] /\ promised \in [Objects -> Presence]
      /\ thread[t].at = "applying" /\ thread[t].cb \in Ops /\ thread[t].reply = "ok"
      /\ thread' = [thread EXCEPT ![t] = Idle] /\ Publish(m)
      /\ promised' = [promised EXCEPT ![o] = p]
      /\ doubt' = doubt \ {o}
      /\ UNCHANGED <<queue, specs, initialLoaded, applyQ, responses, wipe, scene, interfered>>
      /\ Idle.at = "idle" /\ Idle.cb = "none"
      /\ Ops = {"remove", "setPose"}
  BY DEF LInv, IInv, TypeOK, RequestSucceeds, Reply, Idle, Ops
<1>2. \A u \in Threads : u # t => thread[u].at = "idle" /\ thread[u].cb = "none"
  BY <1>1, OthersIdle
<1>3. \A u \in Threads : thread'[u] = IF u = t THEN Idle ELSE thread[u]
  BY <1>1
<1>4. o \in Objects /\ p \in Presence
  BY <1>1 DEF TypeOK, Request
<1>5. m \in Message /\ p # Keep
  BY <1>4, DiffTypes, SceneAssumption DEF Message, Presence
<1>6. \A x \in Objects : Underway(x) => x = o
  BY <1>1, <1>2 DEF Underway, Serving
<1>7. \A x \in Objects : m.world[x] = IF x = o THEN p ELSE Keep
  BY DEF Only
<1> HIDE DEF m
<1>8. SceneDeclared' <=> SceneDeclared
  BY <1>1, <1>2, <1>3 DEF SceneDeclared
<1>9. LoadComesFirst'
  <2>1. ~SceneDeclared => p = None
    BY <1>1 DEF RestInv, LoadComesFirst
  <2>2. ~SceneDeclared => \A x \in Objects : promised'[x] = None
    BY <1>1, <1>4, <2>1 DEF RestInv, LoadComesFirst
  <2> QED  BY <1>1, <1>2, <1>3, <1>8, <2>2 DEF RestInv, LoadComesFirst
<1>10. WipeBeforeLoad'
  BY <1>1, <1>2, <1>3 DEF RestInv, WipeBeforeLoad
<1>11. CallIsLast' /\ LoadTakesEffect'
  BY <1>1, <1>2, <1>3 DEF CallIsLast, LoadTakesEffect
<1>12. CallsInDoubt'
  <2>1. applyQ = <<>>
    BY <1>1 DEF RestInv, CallIsLast
  <2> QED  BY <1>1, <2>1 DEF CallsInDoubt
<1>13. SceneFollows'
  <2>1. \A x \in Objects :
          \/ m.world[x] # Keep
          \/ /\ promised'[x] = promised[x]
             /\ x \in doubt => x \in doubt'
             /\ Underway(x) => Underway(x)'
    BY <1>1, <1>5, <1>6, <1>7
  <2> QED  BY <1>1, <1>5, <2>1, PublishFollows DEF RestInv
<1> QED  BY <1>9, <1>10, <1>11, <1>12, <1>13 DEF RestInv

-----------------------------------------------------------------------------
\* The answer reaches the thread that waits for it.
LEMMA AnswerRests ==
    ASSUME LInv, RestInv, NEW t \in Threads, DeliverResponse(t)
    PROVE  RestInv'
<1>1. /\ UNCHANGED <<queue, initialLoaded, specs, applyQ, topic, wipe, scene, interfered,
                     promised, doubt, overrun>>
      /\ responses \subseteq [id : 0..MaxRequests, result : Results]
      /\ "pending" \notin Results
  BY DEF DeliverResponse, history, LInv, IInv, TypeOK, Results
<1>2. PICK r \in responses :
        /\ responses' = responses \ {r}
        /\ thread' = [u \in Threads |->
                        IF thread[u].at = "applying" /\ CallOf(u) = r.id
                        THEN [thread[u] EXCEPT !.reply = r.result]
                        ELSE thread[u]]
  BY DEF DeliverResponse
<1>3. \A u \in Threads :
        /\ thread'[u].at = thread[u].at
        /\ thread'[u].cb = thread[u].cb
        /\ thread'[u].req = thread[u].req
        /\ CallOf(u)' = CallOf(u)
        /\ thread'[u].reply = IF thread[u].at = "applying" /\ CallOf(u) = r.id
                              THEN r.result ELSE thread[u].reply
  BY <1>2, ResponseWakes
<1>4. \A o \in Objects : Underway(o)' <=> Underway(o)
  BY <1>3 DEF Underway, Serving
<1>5. SceneDeclared' <=> SceneDeclared
  BY <1>1, <1>3 DEF SceneDeclared
<1>6. LoadComesFirst'
  BY <1>1, <1>3, <1>5 DEF RestInv, LoadComesFirst
<1>7. WipeBeforeLoad'
  BY <1>1, <1>3 DEF RestInv, WipeBeforeLoad
<1>8. CallIsLast'
  <2> SUFFICES ASSUME NEW u \in Threads, thread'[u].at = "applying"
               PROVE  \/ /\ thread'[u].reply = "pending" /\ applyQ # <<>>
                         /\ applyQ[Len(applyQ)].id = CallOf(u)
                      \/ /\ applyQ = <<>>
                         /\ thread'[u].reply = "pending" =>
                              \E s \in responses' : s.id = CallOf(u)
    BY <1>1, <1>3 DEF CallIsLast
  <2>1. CASE CallOf(u) = r.id
    <3>1. thread'[u].reply = r.result /\ r.result # "pending"
      BY <1>1, <1>3, <2>1
    <3>2. applyQ = <<>>
      <4>1. applyQ \in Seq([id : 0..MaxRequests, diff : Diff])
        BY DEF LInv, IInv, TypeOK
      <4>2. applyQ # <<>> => Len(applyQ) \in 1..Len(applyQ)
        BY <4>1, EmptySeq, LenProperties
      <4>3. applyQ # <<>> => applyQ[Len(applyQ)].id # r.id
        BY <4>2 DEF LInv, CallsApart
      <4> QED  BY <1>3, <2>1, <4>3 DEF RestInv, CallIsLast
    <3> QED  BY <3>1, <3>2
  <2>2. CASE CallOf(u) # r.id
    <3>1. thread'[u].reply = thread[u].reply /\ thread[u].at = "applying"
      BY <1>3, <2>2
    <3>2. \A s \in responses : s.id = CallOf(u) => s \in responses'
      BY <1>2, <2>2
    <3> QED  BY <3>1, <3>2 DEF RestInv, CallIsLast
  <2> QED  BY <2>1, <2>2
<1>9. CallsInDoubt'
  BY <1>1, <1>4 DEF RestInv, CallsInDoubt
<1>10. LoadTakesEffect'
  <2> SUFFICES ASSUME NEW u \in Threads, interfered = 0, thread[u].cb = "init",
                      thread[u].at = "applying",
                      thread'[u].reply = "ok" \/ [id |-> 0, result |-> "ok"] \in responses'
               PROVE  \A o \in Built : scene[o] = InitPose
    BY <1>1, <1>3 DEF LoadTakesEffect
  <2>1. CASE [id |-> 0, result |-> "ok"] \in responses'
    BY <1>2, <2>1 DEF RestInv, LoadTakesEffect
  <2>2. CASE thread'[u].reply = "ok" /\ CallOf(u) = r.id
    <3>1. r.id = 0 /\ r.result = "ok"
      BY <1>3, <2>2 DEF CallOf
    <3>2. r = [id |-> 0, result |-> "ok"]
      BY <1>1, <3>1
    <3> QED  BY <3>2 DEF RestInv, LoadTakesEffect
  <2>3. CASE thread'[u].reply = "ok" /\ CallOf(u) # r.id
    BY <1>3, <2>3 DEF RestInv, LoadTakesEffect
  <2> QED  BY <2>1, <2>2, <2>3
<1>11. SceneFollows'
  BY <1>1, <1>4, FollowsKept DEF RestInv
<1> QED  BY <1>6, <1>7, <1>8, <1>9, <1>10, <1>11 DEF RestInv

\* move_group handles the oldest call: it changes only what is in doubt or underway.
LEMMA ApplyRests ==
    ASSUME LInv, RestInv, ApplyRequest
    PROVE  RestInv'
<1> DEFINE h == Head(applyQ)
           n == Len(applyQ)
<1>1. /\ applyQ \in Seq([id : 0..MaxRequests, diff : Diff]) /\ applyQ # <<>>
      /\ scene \in [Objects -> Presence]
      /\ UNCHANGED <<queue, thread, initialLoaded, specs, promised, overrun, topic, wipe,
                     interfered, doubt>>
  BY DEF LInv, IInv, TypeOK, ApplyRequest, internal
<1>2. PICK result \in {"ok", "failed"} :
        /\ responses' = responses \cup {[id |-> h.id, result |-> result]}
        /\ scene' = IF result = "ok" THEN Overlay(scene, h.diff) ELSE scene
  BY DEF ApplyRequest
<1>3. /\ n \in Nat \ {0} /\ h = applyQ[1]
      /\ Len(applyQ') = n - 1
      /\ \A i \in 1..(n - 1) : applyQ'[i] = applyQ[i + 1]
      /\ applyQ' \in Seq([id : 0..MaxRequests, diff : Diff])
  BY <1>1, HeadTailProperties, EmptySeq DEF ApplyRequest
<1>4. h \in [id : 0..MaxRequests, diff : Diff]
  BY <1>1, HeadTailProperties
<1> HIDE DEF h, n
<1>5. 1 \in 1..n /\ n \in 1..n /\ n = Len(applyQ)
  BY <1>3 DEF n
<1>6. \A o \in Objects : (Underway(o)' <=> Underway(o)) /\ (Announced(o)' <=> Announced(o))
  BY <1>1 DEF Underway, Serving, Announced
<1>7. LoadComesFirst' /\ WipeBeforeLoad'
  BY <1>1 DEF RestInv, LoadComesFirst, WipeBeforeLoad, SceneDeclared
<1>8. ASSUME NEW u \in Threads, thread[u].at = "applying"
      PROVE  thread[u].reply = "pending" /\ applyQ[n].id = CallOf(u)
  BY <1>1, <1>5, <1>8 DEF RestInv, CallIsLast
<1>9. CallIsLast'
  <2> SUFFICES ASSUME NEW u \in Threads, thread[u].at = "applying"
               PROVE  \/ /\ thread[u].reply = "pending" /\ applyQ' # <<>>
                         /\ applyQ'[Len(applyQ')].id = CallOf(u)
                      \/ /\ applyQ' = <<>>
                         /\ \E s \in responses' : s.id = CallOf(u)
    BY <1>1 DEF CallIsLast, CallOf
  <2>1. thread[u].reply = "pending" /\ applyQ[n].id = CallOf(u)
    BY <1>8
  <2>2. CASE n = 1
    <3>1. applyQ' = <<>>
      BY <1>3, <2>2, EmptySeq
    <3>2. [id |-> h.id, result |-> result].id = CallOf(u)
      BY <1>3, <2>1, <2>2
    <3> QED  BY <1>2, <3>1, <3>2
  <2>3. CASE n # 1
    <3>1. n - 1 \in 1..(n - 1) /\ (n - 1) + 1 = n
      BY <1>3, <2>3
    <3>2. applyQ'[n - 1] = applyQ[n]
      BY <1>3, <3>1
    <3>3. applyQ' # <<>>
      BY <1>3, <2>3, EmptySeq
    <3> QED  BY <1>3, <2>1, <3>2, <3>3
  <2> QED  BY <2>2, <2>3
<1>10. CallsInDoubt'
  <2>1. \A i \in 1..Len(applyQ') : i + 1 \in 1..n /\ applyQ'[i] = applyQ[i + 1]
    BY <1>3
  <2> QED  BY <1>1, <1>5, <1>6, <2>1 DEF RestInv, CallsInDoubt
<1>11. LoadTakesEffect'
  <2> SUFFICES ASSUME NEW u \in Threads, interfered = 0, thread[u].cb = "init",
                      thread[u].at = "applying",
                      thread[u].reply = "ok" \/ [id |-> 0, result |-> "ok"] \in responses'
               PROVE  \A o \in Built : scene'[o] = InitPose
    BY <1>1 DEF LoadTakesEffect
  <2>1. thread[u].reply = "pending" /\ applyQ[n].id = 0
    BY <1>8 DEF CallOf
  <2>2. [id |-> 0, result |-> "ok"] \notin responses
    <3>1. [id |-> 0, result |-> "ok"].id = 0
      OBVIOUS
    <3> QED  BY <1>5, <2>1, <3>1 DEF LInv, CallsApart
  <2>3. [id |-> 0, result |-> "ok"] = [id |-> h.id, result |-> result]
    BY <1>2, <2>1, <2>2
  <2>4. h.id = 0 /\ result = "ok"
    BY <2>3
  <2>5. h.diff = InitialDiff
    BY <1>3, <1>5, <2>4 DEF RestInv, CallsInDoubt
  <2>6. scene' = Overlay(scene, InitialDiff)
    BY <1>2, <2>4, <2>5
  <2>7. ASSUME NEW o \in Built
        PROVE  scene'[o] = InitPose
    <3>1. o \in Objects /\ InitialDiff[o] = InitPose
      BY LoadedTypes DEF InitialDiff
    <3> QED  BY <2>6, <3>1, SceneAssumption DEF Overlay
  <2> QED  BY <2>7
<1>12. SceneFollows'
  <2> SUFFICES ASSUME interfered = 0, NEW o \in Objects, o \notin doubt, o \notin overrun,
                      ~Underway(o), ~Announced(o)
               PROVE  scene'[o] = promised[o]
    BY <1>1, <1>6 DEF SceneFollows
  <2>1. h.diff[o] = Keep
    BY <1>3, <1>5 DEF RestInv, CallsInDoubt
  <2>2. scene'[o] = scene[o]
    BY <1>2, <2>1 DEF Overlay
  <2> QED  BY <2>2 DEF RestInv, SceneFollows
<1> QED  BY <1>7, <1>9, <1>10, <1>11, <1>12 DEF RestInv

\* The last message about an object leaves it as promised.
LEMMA TopicRests ==
    ASSUME LInv, TopicTailAgrees, RestInv, DeliverTopic
    PROVE  RestInv'
<1> DEFINE h == Head(topic)
           n == Len(topic)
<1>1. /\ topic \in Seq(Message) /\ topic # <<>> /\ topic' = Tail(topic)
      /\ scene' = Overlay(scene, h.world)
      /\ UNCHANGED <<queue, thread, initialLoaded, specs, promised, overrun, applyQ, responses,
                     wipe, interfered, doubt>>
  BY DEF LInv, IInv, TypeOK, DeliverTopic, internal
<1>2. /\ n \in Nat \ {0} /\ h = topic[1]
      /\ Len(topic') = n - 1
      /\ \A i \in 1..(n - 1) : topic'[i] = topic[i + 1]
  BY <1>1, HeadTailProperties, EmptySeq
<1> HIDE DEF h, n
<1>3. n = Len(topic) /\ 1 \in 1..n
  BY <1>2 DEF n
<1>4. \A o \in Objects : Underway(o)' <=> Underway(o)
  BY <1>1 DEF Underway, Serving
<1>5. LoadComesFirst' /\ CallIsLast' /\ CallsInDoubt'
  BY <1>1, <1>4 DEF RestInv, LoadComesFirst, CallIsLast, CallsInDoubt, SceneDeclared, CallOf
<1>6. \A u \in Threads : ~(thread[u].cb = "init" /\ thread[u].at = "applying")
  BY <1>1 DEF RestInv, WipeBeforeLoad
<1>7. WipeBeforeLoad' /\ LoadTakesEffect'
  BY <1>1, <1>6 DEF RestInv, WipeBeforeLoad, LoadTakesEffect
<1>8. SceneFollows'
  <2> SUFFICES ASSUME interfered = 0, NEW o \in Objects, o \notin doubt, o \notin overrun,
                      ~Underway(o), ~Announced(o)'
               PROVE  scene'[o] = promised[o]
    BY <1>1, <1>4 DEF SceneFollows
  <2>1. ASSUME NEW j \in 2..n
        PROVE  topic[j].world[o] = Keep
    <3>1. j - 1 \in 1..(n - 1) /\ (j - 1) + 1 = j
      BY <1>2
    <3>2. topic'[j - 1] = topic[j] /\ j - 1 \in 1..Len(topic')
      BY <1>2, <3>1
    <3> QED  BY <3>2 DEF Announced
  <2>2. CASE h.world[o] # Keep
    <3>1. h.world[o] = promised[o]
      BY <1>2, <1>3, <2>1, <2>2 DEF TopicTailAgrees
    <3> QED  BY <1>1, <2>2, <3>1 DEF Overlay
  <2>3. CASE h.world[o] = Keep
    <3>1. scene'[o] = scene[o]
      BY <1>1, <2>3 DEF Overlay
    <3>2. ASSUME NEW j \in 1..n
          PROVE  topic[j].world[o] = Keep
      <4>1. j = 1 \/ j \in 2..n
        BY <1>2
      <4> QED  BY <1>2, <2>1, <2>3, <4>1
    <3>3. ~Announced(o)
      BY <1>3, <3>2 DEF Announced
    <3> QED  BY <3>1, <3>3 DEF RestInv, SceneFollows
  <2> QED  BY <2>2, <2>3
<1> QED  BY <1>5, <1>7, <1>8 DEF RestInv

\* The wipe comes while nothing is promised.
LEMMA WipeRests ==
    ASSUME LInv, RestInv, DeliverWipe
    PROVE  RestInv'
<1>1. /\ wipe /\ ~wipe'
      /\ UNCHANGED <<queue, thread, initialLoaded, specs, promised, overrun, applyQ, responses,
                     topic, interfered, doubt>>
      /\ \A o \in Objects : scene'[o] = None \/ scene'[o] = scene[o]
  BY DEF DeliverWipe, internal
<1>2. PICK t \in Threads : thread[t].cb = "init" /\ thread[t].at = "taken"
  BY <1>1 DEF RestInv, WipeBeforeLoad
<1>3. \A u \in Threads : u # t => thread[u].at = "idle" /\ thread[u].cb = "none"
  BY <1>2, OthersIdle
<1>4. \A o \in Objects : promised[o] = None
  BY <1>2 DEF SceneDeclared, RestInv, LoadComesFirst
<1>5. \A o \in Objects : (Underway(o)' <=> Underway(o)) /\ (Announced(o)' <=> Announced(o))
  BY <1>1 DEF Underway, Serving, Announced
<1>6. LoadComesFirst' /\ CallIsLast' /\ CallsInDoubt'
  BY <1>1, <1>5 DEF RestInv, LoadComesFirst, CallIsLast, CallsInDoubt, SceneDeclared, CallOf
<1>7. WipeBeforeLoad' /\ LoadTakesEffect'
  BY <1>1, <1>2, <1>3 DEF RestInv, WipeBeforeLoad, LoadTakesEffect
<1>8. SceneFollows'
  BY <1>1, <1>4, <1>5 DEF RestInv, SceneFollows
<1> QED  BY <1>6, <1>7, <1>8 DEF RestInv

\* Once a stale source has written nothing is claimed of the scene.
LEMMA InterfereRests ==
    ASSUME LInv, RestInv, Interfere
    PROVE  RestInv'
<1>1. /\ UNCHANGED <<queue, thread, initialLoaded, specs, promised, overrun, applyQ, responses,
                     topic, wipe, doubt>>
      /\ interfered' # 0
  BY SceneAssumption DEF Interfere, internal, LInv, IInv, TypeOK
<1>2. \A o \in Objects : Underway(o)' <=> Underway(o)
  BY <1>1 DEF Underway, Serving
<1>3. LoadComesFirst' /\ CallIsLast' /\ CallsInDoubt' /\ WipeBeforeLoad'
  BY <1>1, <1>2 DEF RestInv, LoadComesFirst, CallIsLast, CallsInDoubt, WipeBeforeLoad,
                    SceneDeclared, CallOf
<1>4. LoadTakesEffect' /\ SceneFollows'
  BY <1>1 DEF LoadTakesEffect, SceneFollows
<1> QED  BY <1>3, <1>4 DEF RestInv

-----------------------------------------------------------------------------
\* At the start nothing is promised and all is in doubt.
LEMMA RestInit == Init => RestInv
<1> SUFFICES ASSUME Init PROVE RestInv
  OBVIOUS
<1>1. /\ \A t \in Threads : thread[t].at = "idle" /\ thread[t].cb = "none"
      /\ specs = {} /\ applyQ = <<>> /\ ~wipe /\ doubt = Objects
      /\ queue["remove"] = <<>> /\ \A o \in Objects : promised[o] = None
  BY DEF Init, Idle, Ops
<1> QED
  BY <1>1 DEF RestInv, LoadComesFirst, WipeBeforeLoad, CallIsLast, CallsInDoubt,
              LoadTakesEffect, SceneFollows

\* Every step keeps what the scene at rest follows from.
LEMMA RestStep ==
    ASSUME SettleDrains, LInv, TopicTailAgrees, RestInv, [Next]_vars
    PROVE  RestInv'
<1>1. ASSUME NEW t \in Threads, Step(t)
      PROVE  RestInv'
  BY <1>1, LoadRests, LoadReturnRests, AcmRests, FinishRests, ReassertRests, HandlersRest,
     GivingUpRests, SuccessRests DEF Step
<1>2. CASE UNCHANGED vars
  <2>1. \A o \in Objects : (Underway(o)' <=> Underway(o)) /\ (Announced(o)' <=> Announced(o))
    BY <1>2 DEF vars, Underway, Serving, Announced
  <2> QED
    BY <1>2, <2>1 DEF vars, RestInv, LoadComesFirst, WipeBeforeLoad, CallIsLast, CallsInDoubt,
                      LoadTakesEffect, SceneFollows, SceneDeclared, CallOf
<1> QED
  BY <1>1, <1>2, ArriveRests, TakesRest, AnswerRests, ApplyRests, TopicRests, WipeRests,
     InterfereRests DEF Next

\* If a settle sleep outlasts the topic's latency, the scene at rest holds each object
\* as it was last declared or acknowledged, whatever the schedule, unless its last
\* change is in doubt, its last message was pushed out or a stale source has written.
THEOREM RestingCorrect ==
    ASSUME SettleDrains
    PROVE  Spec => []RestingSceneAgrees
<1>1. LInv /\ RestInv => RestingSceneAgrees
  <2> SUFFICES ASSUME LInv, RestInv, AtRest, interfered = 0, NEW o \in Objects,
                      o \notin doubt, o \notin overrun
               PROVE  scene[o] = promised[o]
    BY DEF RestingSceneAgrees
  <2>1. ~Underway(o) /\ ~Announced(o)
    BY DEF AtRest, Busy, Underway, Serving, Announced
  <2> QED  BY <2>1 DEF RestInv, SceneFollows
<1>2. Init => LInv /\ TopicTailAgrees /\ RestInv
  BY InitLInv, RestInit DEF Init, TopicTailAgrees
<1>3. LInv /\ TopicTailAgrees /\ RestInv /\ [Next]_vars
        => (LInv /\ TopicTailAgrees /\ RestInv)'
  <2>1. LInv => IInv
    BY DEF LInv
  <2> QED  BY <2>1, LInvStep, TopicStep, RestStep
<1> QED  BY <1>1, <1>2, <1>3, PTL DEF Spec

-----------------------------------------------------------------------------
\* The callback that publishes the ACM stays alone until the ACM is delivered.
AInv == LInv /\ AcmWaits

\* The queue holds no ACM message but the one published, or an old one.
LEMMA PushedAcm ==
    ASSUME TypeOK, NEW m \in Message, Publish(m), ~m.acm, ~AcmInFlight
    PROVE  ~AcmInFlight'
<1>1. /\ topic \in Seq(Message) /\ Len(topic) \in Nat /\ TopicDepth \in Nat \ {0}
      /\ topic' = Pushed(topic, m)
      /\ \A i \in 1..Len(topic) : ~topic[i].acm
  BY SceneAssumption DEF TypeOK, Publish, AcmInFlight
<1>2. CASE Len(topic) < TopicDepth
  <2>1. topic' = Append(topic, m)
    BY <1>1, <1>2 DEF Pushed
  <2>2. /\ Len(topic') = Len(topic) + 1 /\ topic'[Len(topic) + 1] = m
        /\ \A i \in 1..Len(topic) : topic'[i] = topic[i]
    BY <1>1, <2>1
  <2>3. \A i \in 1..Len(topic') : i = Len(topic) + 1 \/ i \in 1..Len(topic)
    BY <1>1, <2>2
  <2> QED  BY <1>1, <2>2, <2>3 DEF AcmInFlight
<1>3. CASE ~(Len(topic) < TopicDepth)
  <2>1. topic' = Append(Tail(topic), m) /\ topic # <<>>
    BY <1>1, <1>3 DEF Pushed
  <2>2. /\ Tail(topic) \in Seq(Message) /\ Len(Tail(topic)) = Len(topic) - 1
        /\ \A i \in 1..Len(Tail(topic)) : Tail(topic)[i] = topic[i + 1]
    BY <1>1, <2>1, HeadTailProperties
  <2>3. /\ Len(topic') = Len(topic) /\ topic'[Len(topic)] = m
        /\ \A i \in 1..(Len(topic) - 1) : topic'[i] = topic[i + 1]
    BY <1>1, <2>1, <2>2
  <2>4. \A i \in 1..Len(topic') : i = Len(topic) \/ i \in 1..(Len(topic) - 1)
    BY <1>1, <2>3
  <2>5. \A i \in 1..(Len(topic) - 1) : i + 1 \in 1..Len(topic)
    BY <1>1
  <2> QED  BY <1>1, <2>3, <2>4, <2>5 DEF AcmInFlight
<1> QED  BY <1>2, <1>3

\* While the ACM is in flight the load sleeps and the topic only delivers.
LEMMA AcmFlies ==
    ASSUME SettleDrains, AInv, [Next]_vars
    PROVE  /\ AcmWaits'
           /\ AcmInFlight /\ ~AcmInFlight' => topic' = Tail(topic)
<1>1. thread \in [Threads -> Thread] /\ LInv /\ AcmWaits
  BY DEF AInv, LInv, IInv, TypeOK
<1>2. ASSUME UNCHANGED topic, \A u \in Threads : thread[u].at = "acm" => thread'[u].at = "acm"
      PROVE  AcmWaits' /\ (AcmInFlight' <=> AcmInFlight)
  BY <1>1, <1>2 DEF AcmWaits, AcmInFlight
<1>3. CASE ~AcmInFlight
  <2>1. ASSUME UNCHANGED topic
        PROVE  AcmWaits'
    BY <1>3, <2>1 DEF AcmWaits, AcmInFlight
  <2>2. ASSUME NEW m \in Message, Publish(m), ~m.acm
        PROVE  ~AcmInFlight'
    BY <1>1, <1>3, <2>2, PushedAcm DEF LInv, IInv
  <2>3. ASSUME NEW t \in Threads, PublishAcm(t)
        PROVE  AcmWaits'
    <3>1. thread'[t].at = "acm"
      BY <1>1, <2>3 DEF PublishAcm, Thread
    <3> QED  BY <3>1 DEF AcmWaits
  <2>4. ASSUME NEW t \in Threads, ReassertDynamic(t)
        PROVE  AcmWaits'
    <3> DEFINE m == [world |-> [o \in Objects |-> IF forced[o] = None THEN Keep
                                                  ELSE forced[o]],
                     acm |-> FALSE]
    <3>1. m \in Message /\ ~m.acm
      BY DEF Message, Diff, LInv, IInv, TypeOK, AInv
    <3>2. UNCHANGED topic \/ Publish(m)
      BY <2>4 DEF ReassertDynamic
    <3> HIDE DEF m
    <3> QED  BY <2>1, <2>2, <3>1, <3>2 DEF AcmWaits
  <2>5. ASSUME NEW t \in Threads, RequestSucceeds(t)
        PROVE  AcmWaits'
    <3> DEFINE o == thread[t].req.obj
               p == thread[t].req.pose
               m == [world |-> Only(o, p), acm |-> FALSE]
    <3>1. o \in Objects /\ p \in Presence
      BY <1>1, <2>5 DEF RequestSucceeds, LInv, IInv, TypeOK, Request
    <3>2. m \in Message /\ ~m.acm
      BY <3>1, DiffTypes DEF Message
    <3>3. Publish(m)
      BY <2>5 DEF RequestSucceeds
    <3> HIDE DEF m
    <3> QED  BY <2>2, <3>2, <3>3 DEF AcmWaits
  <2>6. ASSUME NEW t \in Threads, Step(t)
        PROVE  AcmWaits'
    BY <2>1, <2>3, <2>4, <2>5, <2>6
       DEF Step, LoadInitialScene, InitialApplyReturns, FinishLoad, HandleRemove, HandleSetPose,
           RequestFails, external, history
  <2>7. CASE DeliverTopic
    <3>1. topic \in Seq(Message) /\ topic # <<>> /\ topic' = Tail(topic)
      BY <2>7 DEF DeliverTopic, AInv, LInv, IInv, TypeOK
    <3>2. Len(topic') = Len(topic) - 1 /\ Len(topic) \in Nat
          /\ \A i \in 1..Len(topic') : topic'[i] = topic[i + 1]
      BY <3>1, HeadTailProperties
    <3>3. \A i \in 1..Len(topic') : i + 1 \in 1..Len(topic)
      BY <3>2
    <3>4. ~AcmInFlight'
      BY <1>3, <3>2, <3>3 DEF AcmInFlight
    <3> QED  BY <1>3, <3>4 DEF AcmWaits
  <2>8. UNCHANGED topic \/ DeliverTopic \/ \E t \in Threads : Step(t)
    BY DEF Next, vars, Arrive, WipeScene, TakeRequest, TakeForce, DeliverResponse, ApplyRequest,
           DeliverWipe, Interfere, external, history
  <2> QED  BY <1>3, <2>1, <2>6, <2>7, <2>8
<1>4. CASE AcmInFlight
  <2>1. PICK w \in Threads : thread[w].at = "acm"
    BY <1>1, <1>4 DEF AcmWaits
  <2>2. thread[w].cb = "init" /\ topic # <<>>
    BY <1>1, <1>4, <2>1 DEF LInv, ThreadShape, AcmInFlight
  <2>3. \A u \in Threads : u # w => thread[u].at = "idle" /\ thread[u].cb = "none"
    BY <1>1, <2>2, OthersIdle
  <2>4. \A t \in Threads : ~Step(t)
    BY <2>1, <2>2, <2>3
       DEF Step, LoadInitialScene, InitialApplyReturns, PublishAcm, FinishLoad, Settled,
           ReassertDynamic, HandleRemove, HandleSetPose, RequestFails, RequestSucceeds
  <2>5. ASSUME NEW t \in Threads, NEW cb, cb # "response"
        PROVE  ~CanTake(t, cb)
    BY <1>1, <2>1, <2>5, AllIdle
  <2>6. \A t \in Threads : ~WipeScene(t) /\ ~TakeForce(t) /\ \A op \in Ops : ~TakeRequest(t, op)
    <3>1. "init" # "response" /\ "force" # "response" /\ \A op \in Ops : op # "response"
      BY DEF Ops
    <3> QED  BY <2>5, <3>1 DEF WipeScene, TakeForce, TakeRequest
  <2>7. ASSUME NEW t \in Threads, DeliverResponse(t)
        PROVE  UNCHANGED topic /\ \A u \in Threads : thread'[u].at = thread[u].at
    <3>1. PICK r \in responses :
            thread' = [u \in Threads |->
                         IF thread[u].at = "applying" /\ CallOf(u) = r.id
                         THEN [thread[u] EXCEPT !.reply = r.result]
                         ELSE thread[u]]
      BY <2>7 DEF DeliverResponse
    <3>2. \A u \in Threads : thread'[u].at = thread[u].at
      BY <1>1, <3>1, ResponseWakes
    <3> QED  BY <2>7, <3>2 DEF DeliverResponse
  <2>8. CASE DeliverTopic
    <3>1. topic' = Tail(topic) /\ thread'[w].at = "acm"
      BY <2>1, <2>8 DEF DeliverTopic, internal
    <3> QED  BY <3>1 DEF AcmWaits
  <2>9. \/ UNCHANGED <<topic, thread>>
        \/ \E t \in Threads : DeliverResponse(t)
        \/ DeliverTopic
    BY <2>4, <2>6 DEF Next, vars, Arrive, ApplyRequest, DeliverWipe, Interfere, internal,
                      external, history
  <2> QED  BY <1>2, <2>7, <2>8, <2>9
<1> QED  BY <1>3, <1>4

\* If a settle sleep outlasts the topic's latency, the message that allows the
\* collisions of the tool leaves the short queue only by being delivered.
THEOREM AcmArrives ==
    ASSUME SettleDrains
    PROVE  Spec => AcmIsDelivered
<1>1. Init => AInv
  BY InitLInv DEF Init, AInv, AcmWaits, AcmInFlight
<1>2. AInv /\ [Next]_vars => AInv'
  BY LInvStep, AcmFlies DEF AInv
<1>3. AInv /\ [Next]_vars => [AcmInFlight /\ ~AcmInFlight' => topic' = Tail(topic)]_vars
  BY AcmFlies
<1> QED  BY <1>1, <1>2, <1>3, PTL DEF Spec, AcmIsDelivered

=============================================================================
