------------------------ MODULE ServiceClientsProofs ------------------------
(***************************************************************************)
(* Proofs about ServiceClients, for every set of endpoints and devices and *)
(* any number of calls.                                                    *)
(***************************************************************************)
EXTENDS ServiceClients, SequenceTheorems, TLAPS

-----------------------------------------------------------------------------
(***************************************************************************)
(* The inductive invariant.                                                *)
(***************************************************************************)
\* Ids are never reused: the id of a call that is about to be sent is nowhere.
IdsFresh ==
    /\ call.id = calls
    /\ pc # "idle" => calls # 0
    /\ \A e \in Endpoints : \A i \in 1..Len(queue[e]) :
         queue[e][i] = calls => e = call.to /\ pc # "find"
    /\ \A r \in responses : pc = "find" => r.id # calls
    /\ \A e \in Endpoints : \A i \in 1..Len(queue[e]) : queue[e][i] <= calls
    /\ \A r \in responses : r.id <= calls

\* Good answers are true, on their way and when they have come.
AnswersTrue ==
    /\ \A r \in responses : r.result = "ok" => r.id \in done
    /\ pc = "wait" /\ ready = "ok" => call.id \in done

\* A device no call to which has timed out has at most the request of the call
\* being made, and as long as it is there nothing has answered it.
OnlyCurrentInFlight ==
    \A e \in Endpoints : DeviceOf[e] \notin late /\ queue[e] # <<>> =>
        /\ pc = "wait" /\ call.to = e /\ ready = "none"
        /\ Len(queue[e]) = 1
        /\ \A r \in responses : r.id # calls

\* A good answer to the call being made means the device is as it asked.
AnswerMeansDevice ==
    pc = "wait" /\ DeviceOf[call.to] \notin late =>
        /\ ready = "ok" => device[DeviceOf[call.to]] = call.to
        /\ \A r \in responses :
             r.id = calls /\ r.result = "ok" => device[DeviceOf[call.to]] = call.to

OthersStand ==
    \A d \in Devices \ late :
        (pc = "idle" \/ DeviceOf[call.to] # d) /\ lastOk[d] # None => device[d] = lastOk[d]

IInv ==
    /\ TypeOK
    /\ IdsFresh
    /\ AnswersTrue
    /\ OnlyCurrentInFlight
    /\ AnswerMeansDevice
    /\ OthersStand
    /\ TrueMeansDone

-----------------------------------------------------------------------------
LEMMA InitIInv == Init => IInv
  <1> SUFFICES ASSUME Init PROVE IInv
    OBVIOUS
  <1>1. /\ \A e \in Endpoints : queue[e] = <<>> /\ Len(queue[e]) = 0
        /\ queue \in [Endpoints -> Seq(1..MaxCalls)]
    BY DEF Init
  <1>2. /\ device \in [Devices -> Endpoints \cup {None}]
        /\ lastOk \in [Devices -> Endpoints \cup {None}]
        /\ \A d \in Devices : lastOk[d] = None
    BY DEF Init
  <1>3. TypeOK
    <2>1. calls \in 0..MaxCalls /\ call \in [id : 0..MaxCalls, to : Endpoints \cup {None}]
      BY ClientAssumption DEF Init
    <2>2. pc = "idle" /\ ready = "none" /\ result = FALSE /\ responses = {} /\ done = {}
          /\ late = {}
      BY DEF Init
    <2> QED
      BY <1>1, <1>2, <2>1, <2>2 DEF TypeOK
  <1>4. IdsFresh /\ AnswersTrue /\ OnlyCurrentInFlight /\ AnswerMeansDevice /\ TrueMeansDone
    BY <1>1 DEF Init, IdsFresh, AnswersTrue, OnlyCurrentInFlight, AnswerMeansDevice, TrueMeansDone
  <1>5. OthersStand
    BY <1>2 DEF OthersStand
  <1> QED
    BY <1>3, <1>4, <1>5 DEF IInv

LEMMA CallPreserves ==
    ASSUME IInv, NEW e \in Endpoints, Call(e)
    PROVE  IInv'
  <1> USE ClientAssumption DEF Call, Return, server
  <1>1. TypeOK'
    <2>1. /\ calls \in 0..MaxCalls /\ calls < MaxCalls /\ calls' = calls + 1
          /\ call' = [id |-> calls + 1, to |-> e]
          /\ ready' = "none"
      BY DEF IInv, TypeOK
    <2>2. calls' \in 0..MaxCalls /\ call' \in [id : 0..MaxCalls, to : Endpoints \cup {None}]
      BY <2>1
    <2>3. pc' \in {"find", "idle"} /\ result' \in BOOLEAN /\ call'.to = e
      <3>1. CASE Known(e)
        BY <2>1, <3>1 DEF IInv, TypeOK
      <3>2. CASE ~Known(e)
        <4>1. pc' = "idle" /\ result' = FALSE
          BY <3>2, Zenon
        <4>2. call'.to = e
          BY <2>1
        <4> QED
          BY <4>1, <4>2
      <3> QED
        BY <3>1, <3>2
    <2>4. lastOk' \in [Devices -> Endpoints \cup {None}]
      BY DEF IInv, TypeOK
    <2> QED
      BY <2>1, <2>2, <2>3, <2>4 DEF IInv, TypeOK
  <1>2. calls' = calls + 1 /\ call'.id = calls' /\ call'.to = e /\ calls \in Nat
        /\ pc = "idle" /\ ready' = "none"
        /\ queue' = queue /\ responses' = responses /\ device' = device /\ done' = done
        /\ late' = late
    BY DEF IInv, TypeOK
  <1>3. IdsFresh'
    <2>1. \A x \in Endpoints : \A i \in 1..Len(queue[x]) : queue[x][i] \in Nat
      BY DEF IInv, TypeOK
    <2>2. \A r \in responses : r.id \in Nat
      BY DEF IInv, TypeOK
    <2> QED
      BY <1>2, <2>1, <2>2 DEF IInv, IdsFresh
  <1>4. AnswersTrue'
    BY <1>2 DEF IInv, AnswersTrue
  <1>5. OnlyCurrentInFlight'
    BY <1>2 DEF IInv, OnlyCurrentInFlight
  <1>6. AnswerMeansDevice'
    BY <1>2 DEF AnswerMeansDevice
  <1>7. OthersStand'
    <2>1. \A d \in Devices : lastOk'[d] # None => lastOk'[d] = lastOk[d]
      BY DEF IInv, TypeOK
    <2> QED
      BY <1>2, <2>1 DEF IInv, OthersStand
  <1>8. TrueMeansDone'
    BY <1>2 DEF TrueMeansDone
  <1> QED
    BY <1>1, <1>3, <1>4, <1>5, <1>6, <1>7, <1>8 DEF IInv

\* A call returns: true only when its future holds "ok", and its device becomes
\* late when the future holds nothing though the request was sent.
LEMMA ReturnPreserves ==
    ASSUME IInv, pc # "idle", NEW r \in BOOLEAN, Return(call.to, r),
           UNCHANGED <<call, ready, server, calls>>,
           r => pc = "wait" /\ ready = "ok",
           \/ late' = late /\ (pc = "wait" => ready # "none")
           \/ late' = late \cup {DeviceOf[call.to]}
    PROVE  IInv'
  <1> DEFINE d == DeviceOf[call.to]
  <1>1. call.to \in Endpoints /\ d \in Devices
    BY ClientAssumption DEF IInv, TypeOK
  <1>2. pc' = "idle" /\ result' = r
        /\ lastOk' = [lastOk EXCEPT ![d] = IF r THEN call.to ELSE None]
    BY DEF Return
  <1>3. TypeOK'
    BY <1>1, <1>2 DEF IInv, TypeOK, server
  <1>4. IdsFresh' /\ AnswersTrue'
    BY <1>2 DEF IInv, IdsFresh, AnswersTrue, server
  <1>5. OnlyCurrentInFlight'
    BY <1>2 DEF IInv, OnlyCurrentInFlight, server
  <1>6. AnswerMeansDevice'
    BY <1>2 DEF AnswerMeansDevice
  <1>7. OthersStand'
    <2> SUFFICES ASSUME NEW x \in Devices \ late', lastOk'[x] # None
                 PROVE  device[x] = lastOk'[x]
      BY DEF OthersStand, server
    <2>1. x \notin late
      OBVIOUS
    <2>2. CASE x = d
      BY <1>1, <1>2, <2>1, <2>2 DEF IInv, TypeOK, AnswerMeansDevice
    <2>3. CASE x # d
      BY <1>2, <2>1, <2>3 DEF IInv, TypeOK, OthersStand
    <2> QED
      BY <2>2, <2>3
  <1>8. TrueMeansDone'
    BY <1>2 DEF IInv, AnswersTrue, TrueMeansDone, server
  <1> QED
    BY <1>3, <1>4, <1>5, <1>6, <1>7, <1>8 DEF IInv

LEMMA SendPreserves == ASSUME IInv, SendRequest PROVE IInv'
  <1> DEFINE t == call.to
  <1>1. /\ pc = "find" /\ pc' = "wait" /\ t \in Endpoints /\ ready = "none"
        /\ call.id = calls /\ calls \in 1..MaxCalls
        /\ UNCHANGED <<call, ready, result, responses, device, calls, done, late, lastOk>>
    <2>1. calls # 0 /\ calls \in 0..MaxCalls
      BY DEF SendRequest, IInv, TypeOK, IdsFresh
    <2>2. calls \in 1..MaxCalls
      BY <2>1, ClientAssumption
    <2> QED
      BY <2>2 DEF SendRequest, IInv, TypeOK, IdsFresh
  <1>2. queue' = [queue EXCEPT ![t] = Append(queue[t], calls)]
    BY <1>1 DEF SendRequest
  <1>3. queue \in [Endpoints -> Seq(1..MaxCalls)]
    BY DEF IInv, TypeOK
  <1>4. queue' \in [Endpoints -> Seq(1..MaxCalls)]
    BY <1>1, <1>2, <1>3
  <1>5. TypeOK'
    BY <1>1, <1>4 DEF IInv, TypeOK
  <1>6. \A e \in Endpoints : e # t => queue'[e] = queue[e]
    BY <1>2, <1>3
  <1>7. /\ queue'[t] = Append(queue[t], calls) /\ queue[t] \in Seq(1..MaxCalls)
        /\ Len(queue'[t]) = Len(queue[t]) + 1
        /\ \A i \in 1..Len(queue'[t]) : queue'[t][i] = calls \/
             (i \in 1..Len(queue[t]) /\ queue'[t][i] = queue[t][i])
    BY <1>1, <1>2, <1>3
  <1> HIDE DEF t
  <1>8. IdsFresh'
    <2>1. \A e \in Endpoints : \A i \in 1..Len(queue'[e]) :
            queue'[e][i] <= calls /\ (queue'[e][i] = calls => e = t)
      <3> SUFFICES ASSUME NEW e \in Endpoints, NEW i \in 1..Len(queue'[e])
                   PROVE  queue'[e][i] <= calls /\ (queue'[e][i] = calls => e = t)
        OBVIOUS
      <3>1. CASE e = t
        <4>1. i \in 1..Len(queue[t]) => queue[t][i] <= calls
          BY <1>1 DEF IInv, IdsFresh
        <4>2. queue'[t][i] <= calls
          BY <1>1, <1>7, <3>1, <4>1
        <4> QED
          BY <3>1, <4>2
      <3>2. CASE e # t
        BY <1>6, <3>2 DEF IInv, IdsFresh, t
      <3> QED
        BY <3>1, <3>2
    <2> QED
      BY <1>1, <2>1 DEF IInv, IdsFresh, t
  <1>9. AnswersTrue' /\ TrueMeansDone'
    BY <1>1 DEF IInv, AnswersTrue, TrueMeansDone
  <1>10. OnlyCurrentInFlight'
    <2> SUFFICES ASSUME NEW e \in Endpoints, DeviceOf[e] \notin late, queue'[e] # <<>>
                 PROVE  e = t /\ Len(queue'[e]) = 1
      BY <1>1 DEF OnlyCurrentInFlight, IInv, IdsFresh, t
    <2>1. queue[e] = <<>>
      BY <1>1 DEF IInv, OnlyCurrentInFlight
    <2>2. e = t
      BY <1>6, <2>1
    <2>3. queue[t] = <<>> /\ Len(queue[t]) = 0
      BY <2>1, <2>2
    <2>4. Len(queue'[t]) = 1
      BY <1>7, <2>3
    <2> QED
      BY <2>2, <2>4
  <1>11. AnswerMeansDevice'
    BY <1>1 DEF IInv, AnswerMeansDevice, IdsFresh
  <1>12. OthersStand'
    BY <1>1 DEF IInv, OthersStand
  <1> QED
    BY <1>5, <1>8, <1>9, <1>10, <1>11, <1>12 DEF IInv

LEMMA DeliverPreserves ==
    ASSUME IInv, NEW r \in responses, Deliver(r)
    PROVE  IInv'
  <1>1. /\ UNCHANGED <<pc, call, result, queue, device, calls, done, late, lastOk>>
        /\ responses' = responses \ {r}
        /\ ready' = IF pc = "wait" /\ call.id = r.id THEN r.result ELSE ready
        /\ r.result \in Replies
    BY DEF Deliver, IInv, TypeOK
  <1>2. TypeOK'
    BY <1>1 DEF IInv, TypeOK
  <1>3. IdsFresh'
    BY <1>1 DEF IInv, IdsFresh
  <1>4. AnswersTrue' /\ TrueMeansDone'
    BY <1>1 DEF IInv, AnswersTrue, TrueMeansDone
  <1>5. OnlyCurrentInFlight'
    BY <1>1 DEF IInv, OnlyCurrentInFlight, IdsFresh
  <1>6. AnswerMeansDevice'
    BY <1>1 DEF IInv, AnswerMeansDevice, IdsFresh
  <1>7. OthersStand'
    BY <1>1 DEF IInv, OthersStand
  <1> QED
    BY <1>2, <1>3, <1>4, <1>5, <1>6, <1>7 DEF IInv

(***************************************************************************)
(* The server takes requests away and adds one answer, at most.            *)
(***************************************************************************)
LEMMA ServePreserves ==
    ASSUME IInv, NEW e \in Endpoints, Serve(e)
    PROVE  IInv'
  <1> DEFINE h == Head(queue[e])
  <1>1. /\ UNCHANGED <<pc, call, ready, result, calls, late, lastOk>>
        /\ queue[e] # <<>> /\ queue' = [queue EXCEPT ![e] = Tail(queue[e])]
    BY DEF Serve
  <1>2. queue \in [Endpoints -> Seq(1..MaxCalls)] /\ queue[e] \in Seq(1..MaxCalls)
    BY DEF IInv, TypeOK
  <1>3. /\ h \in 1..MaxCalls /\ h = queue[e][1] /\ 1 \in 1..Len(queue[e])
        /\ Tail(queue[e]) \in Seq(1..MaxCalls)
        /\ Len(Tail(queue[e])) = Len(queue[e]) - 1
        /\ \A i \in 1..Len(Tail(queue[e])) :
             i + 1 \in 1..Len(queue[e]) /\ Tail(queue[e])[i] = queue[e][i + 1]
    <2>1. Len(queue[e]) \in Nat /\ Len(queue[e]) # 0
      BY <1>1, <1>2, EmptySeq
    <2>2. h = queue[e][1] /\ 1 \in 1..Len(queue[e]) /\ h \in 1..MaxCalls
      <3>1. 1 \in 1..Len(queue[e])
        BY <2>1
      <3>2. h = queue[e][1]
        BY <1>1, <1>2
      <3>3. h \in 1..MaxCalls
        BY <1>1, <1>2, HeadTailProperties
      <3> QED
        BY <3>1, <3>2, <3>3
    <2>3. /\ Tail(queue[e]) \in Seq(1..MaxCalls)
          /\ Len(Tail(queue[e])) = Len(queue[e]) - 1
      BY <1>1, <1>2, HeadTailProperties
    <2>4. \A i \in 1..(Len(queue[e]) - 1) : Tail(queue[e])[i] = queue[e][i + 1]
      BY <1>1, <1>2, HeadTailProperties
    <2> QED
      BY <2>1, <2>2, <2>3, <2>4
  <1>4. h <= calls /\ (h = calls => e = call.to /\ pc # "find")
    BY <1>3 DEF IInv, IdsFresh
  <1> HIDE DEF h
  <1>5. PICK v \in Replies :
          /\ responses' = responses \cup {[id |-> h, result |-> v]}
          /\ v = "ok" => device' = [device EXCEPT ![DeviceOf[e]] = e] /\ done' = done \cup {h}
          /\ v # "ok" => device' = device /\ done' = done
    BY DEF Serve, Replies, h
  <1>6. DeviceOf[e] \in Devices /\ device \in [Devices -> Endpoints \cup {None}]
    BY ClientAssumption DEF IInv, TypeOK
  <1>7. queue' \in [Endpoints -> Seq(1..MaxCalls)]
        /\ queue'[e] = Tail(queue[e])
        /\ \A x \in Endpoints : x # e => queue'[x] = queue[x]
    BY <1>1, <1>2, <1>3
  <1>8. TypeOK'
    <2>1. responses' \subseteq [id : 1..MaxCalls, result : Replies]
      BY <1>3, <1>5 DEF IInv, TypeOK
    <2>2. device' \in [Devices -> Endpoints \cup {None}] /\ done' \subseteq 1..MaxCalls
      BY <1>3, <1>5, <1>6 DEF IInv, TypeOK
    <2> QED
      BY <1>1, <1>7, <2>1, <2>2 DEF IInv, TypeOK
  <1>9. IdsFresh'
    <2>1. \A x \in Endpoints : \A i \in 1..Len(queue'[x]) :
            queue'[x][i] <= calls /\ (queue'[x][i] = calls => x = call.to /\ pc # "find")
      <3> SUFFICES ASSUME NEW x \in Endpoints, NEW i \in 1..Len(queue'[x])
                   PROVE  queue'[x][i] <= calls
                          /\ (queue'[x][i] = calls => x = call.to /\ pc # "find")
        OBVIOUS
      <3>1. CASE x = e
        BY <1>3, <1>7, <3>1 DEF IInv, IdsFresh
      <3>2. CASE x # e
        BY <1>7, <3>2 DEF IInv, IdsFresh
      <3> QED
        BY <3>1, <3>2
    <2> QED
      BY <1>1, <1>4, <1>5, <2>1 DEF IInv, IdsFresh
  <1>10. done \subseteq done'
    BY <1>5
  <1>11. AnswersTrue' /\ TrueMeansDone'
    BY <1>1, <1>5, <1>10 DEF IInv, AnswersTrue, TrueMeansDone
  <1>12. OnlyCurrentInFlight'
    <2> SUFFICES ASSUME NEW x \in Endpoints, DeviceOf[x] \notin late, queue'[x] # <<>>
                 PROVE  /\ pc = "wait" /\ call.to = x /\ ready = "none"
                        /\ Len(queue'[x]) = 1
                        /\ \A r \in responses' : r.id # calls
      BY <1>1 DEF OnlyCurrentInFlight
    <2>1. x # e
      <3> SUFFICES ASSUME x = e PROVE FALSE
        OBVIOUS
      <3>1. Len(queue[e]) = 1
        BY <1>1 DEF IInv, OnlyCurrentInFlight
      <3>2. Tail(queue[e]) = <<>>
        BY <1>3, <3>1, EmptySeq
      <3> QED
        BY <1>7, <3>2
    <2>2. queue'[x] = queue[x] /\ call.to = x
      BY <1>7, <2>1 DEF IInv, OnlyCurrentInFlight
    <2>3. h # calls
      BY <1>4, <2>1, <2>2
    <2> QED
      BY <1>5, <2>2, <2>3 DEF IInv, OnlyCurrentInFlight
  <1>13. AnswerMeansDevice'
    <2> SUFFICES ASSUME pc = "wait", DeviceOf[call.to] \notin late
                 PROVE  /\ ready = "ok" => device'[DeviceOf[call.to]] = call.to
                        /\ \A r \in responses' : r.id = calls /\ r.result = "ok"
                                => device'[DeviceOf[call.to]] = call.to
      BY <1>1 DEF AnswerMeansDevice
    <2>1. CASE e = call.to
      <3>1. ready = "none" /\ \A r \in responses : r.id # calls
        BY <1>1, <2>1 DEF IInv, OnlyCurrentInFlight
      <3> QED
        BY <1>5, <1>6, <2>1, <3>1
    <2>2. CASE e # call.to
      <3>1. DeviceOf[e] # DeviceOf[call.to]
        BY <1>1, <2>2 DEF IInv, OnlyCurrentInFlight
      <3>2. device'[DeviceOf[call.to]] = device[DeviceOf[call.to]]
        BY <1>5, <1>6, <3>1, ClientAssumption DEF IInv, TypeOK
      <3>3. h # calls
        BY <1>4, <2>2
      <3> QED
        BY <1>5, <3>2, <3>3 DEF IInv, AnswerMeansDevice
    <2> QED
      BY <2>1, <2>2
  <1>14. OthersStand'
    <2> SUFFICES ASSUME NEW d \in Devices \ late, pc = "idle" \/ DeviceOf[call.to] # d,
                        lastOk[d] # None
                 PROVE  device'[d] = lastOk[d]
      BY <1>1 DEF OthersStand
    <2>1. d # DeviceOf[e]
      BY <1>1 DEF IInv, OnlyCurrentInFlight
    <2>2. device'[d] = device[d]
      BY <1>5, <1>6, <2>1
    <2> QED
      BY <2>2 DEF IInv, OthersStand
  <1> QED
    BY <1>8, <1>9, <1>11, <1>12, <1>13, <1>14 DEF IInv

LEMMA LosePreserves ==
    ASSUME IInv, NEW e \in Endpoints, LoseRequests(e)
    PROVE  IInv'
  <1>1. /\ UNCHANGED <<pc, call, ready, result, responses, device, calls, done, late, lastOk>>
        /\ queue' = [queue EXCEPT ![e] = <<>>]
    BY DEF LoseRequests
  <1>2. /\ queue' \in [Endpoints -> Seq(1..MaxCalls)]
        /\ queue'[e] = <<>> /\ Len(queue'[e]) = 0
        /\ \A x \in Endpoints : x # e => queue'[x] = queue[x]
    BY <1>1 DEF IInv, TypeOK
  <1>3. TypeOK'
    BY <1>1, <1>2 DEF IInv, TypeOK
  <1>4. IdsFresh'
    <2>1. \A x \in Endpoints : \A i \in 1..Len(queue'[x]) :
            queue'[x][i] <= calls /\ (queue'[x][i] = calls => x = call.to /\ pc # "find")
      <3> SUFFICES ASSUME NEW x \in Endpoints, NEW i \in 1..Len(queue'[x])
                   PROVE  queue'[x][i] <= calls
                          /\ (queue'[x][i] = calls => x = call.to /\ pc # "find")
        OBVIOUS
      <3>1. x # e
        BY <1>2
      <3> QED
        BY <1>2, <3>1 DEF IInv, IdsFresh
    <2> QED
      BY <1>1, <2>1 DEF IInv, IdsFresh
  <1>5. AnswersTrue' /\ AnswerMeansDevice' /\ OthersStand' /\ TrueMeansDone'
    BY <1>1 DEF IInv, AnswersTrue, AnswerMeansDevice, OthersStand, TrueMeansDone
  <1>6. OnlyCurrentInFlight'
    BY <1>1, <1>2 DEF IInv, OnlyCurrentInFlight
  <1> QED
    BY <1>3, <1>4, <1>5, <1>6 DEF IInv

LEMMA StutterPreserves == ASSUME IInv, UNCHANGED vars PROVE IInv'
  BY DEF vars, IInv, TypeOK, IdsFresh, AnswersTrue, OnlyCurrentInFlight, AnswerMeansDevice,
     OthersStand, TrueMeansDone

THEOREM Invariant == Spec => []IInv
  <1>1. ASSUME IInv, ServiceMissing PROVE IInv'
    BY <1>1, ReturnPreserves DEF ServiceMissing
  <1>2. ASSUME IInv, TakeResponse PROVE IInv'
    BY <1>2, ReturnPreserves DEF TakeResponse
  <1>3. ASSUME IInv, TimeOut PROVE IInv'
    BY <1>3, ReturnPreserves DEF TimeOut
  <1>4. IInv /\ [Next]_vars => IInv'
    BY CallPreserves, <1>1, <1>2, <1>3, SendPreserves, DeliverPreserves, ServePreserves,
       LosePreserves, StutterPreserves DEF Next
  <1> QED
    BY InitIInv, <1>4, PTL DEF Spec

-----------------------------------------------------------------------------
\* A call that returns true has been performed by the server, however many calls
\* before it timed out and answer late.
THEOREM TrueIsTrue == Spec => []TrueMeansDone
  <1>1. IInv => TrueMeansDone
    BY DEF IInv
  <1> QED
    BY Invariant, <1>1, PTL

\* A device no call to which has timed out is as its last successful call left it.
THEOREM SuccessStands == Spec => []LastSuccessStands
  <1>1. IInv => LastSuccessStands
    BY DEF IInv, OthersStand, LastSuccessStands
  <1> QED
    BY Invariant, <1>1, PTL

\* Every variable keeps its type, and a new call never starts with the answer of an earlier one.
THEOREM TypeCorrect == Spec => []TypeOK
<1>1. IInv => TypeOK
  BY DEF IInv
<1> QED  BY <1>1, Invariant, PTL

-----------------------------------------------------------------------------
(***************************************************************************)
(* A service answers in order of arrival, and the call being made is the   *)
(* last of its queue: once it is answered, its queue is empty.             *)
(***************************************************************************)
LatestLast ==
    \A e \in Endpoints : \A i \in 1..Len(queue[e]) : queue[e][i] = calls => i = Len(queue[e])

AnswerClears ==
    pc = "wait" /\ queue[call.to] # <<>> => ready = "none" /\ \A r \in responses : r.id # calls

QInv == LatestLast /\ AnswerClears /\ SuccessSupersedes

LEMMA CallClears ==
    ASSUME IInv, QInv, NEW e \in Endpoints, Call(e)
    PROVE  QInv'
<1>1. calls' = calls + 1 /\ calls \in Nat /\ queue' = queue /\ pc' # "wait"
      /\ ~(pc' = "idle" /\ result')
  BY DEF Call, Return, server, IInv, TypeOK
<1>2. \A x \in Endpoints : \A i \in 1..Len(queue[x]) : queue[x][i] # calls + 1
  BY <1>1 DEF IInv, IdsFresh, TypeOK
<1> QED
  BY <1>1, <1>2 DEF QInv, LatestLast, AnswerClears, SuccessSupersedes

LEMMA SendClears == ASSUME IInv, QInv, SendRequest PROVE QInv'
<1> DEFINE t == call.to
<1>1. /\ pc = "find" /\ pc' = "wait" /\ t \in Endpoints /\ call.id = calls /\ ready = "none"
      /\ UNCHANGED <<call, ready, responses, calls>>
      /\ queue \in [Endpoints -> Seq(1..MaxCalls)]
  BY DEF SendRequest, IInv, TypeOK, IdsFresh
<1>2. /\ \A e \in Endpoints : e # t => queue'[e] = queue[e]
      /\ queue'[t] = Append(queue[t], calls)
  BY <1>1 DEF SendRequest
<1>3. /\ Len(queue'[t]) = Len(queue[t]) + 1
      /\ \A i \in 1..Len(queue[t]) : queue'[t][i] = queue[t][i]
  BY <1>1, <1>2
<1>4. \A i \in 1..Len(queue[t]) : queue[t][i] # calls
  BY <1>1 DEF IInv, IdsFresh
<1>5. Len(queue[t]) \in Nat
  BY <1>1
<1> HIDE DEF t
<1>6. \A i \in 1..Len(queue'[t]) : queue'[t][i] = calls => i = Len(queue'[t])
  BY <1>3, <1>4, <1>5
<1>7. LatestLast'
  BY <1>1, <1>2, <1>6 DEF QInv, LatestLast
<1>8. AnswerClears' /\ SuccessSupersedes'
  BY <1>1 DEF AnswerClears, SuccessSupersedes, IInv, IdsFresh
<1> QED
  BY <1>7, <1>8 DEF QInv

LEMMA ServeClears ==
    ASSUME IInv, QInv, NEW e \in Endpoints, Serve(e)
    PROVE  QInv'
<1> DEFINE q == queue[e]
           h == Head(q)
<1>1. /\ UNCHANGED <<pc, call, ready, result, calls>> /\ q # <<>>
      /\ q \in Seq(1..MaxCalls)
      /\ queue'[e] = Tail(q)
      /\ \A x \in Endpoints : x # e => queue'[x] = queue[x]
      /\ pc = "wait" => call.to \in Endpoints
      /\ \A r \in responses' : r \in responses \/ r.id = h
  BY DEF Serve, IInv, TypeOK
<1>2. Len(q) \in Nat /\ Len(q) # 0
  BY <1>1, EmptySeq
<1>3. /\ h = q[1] /\ Len(Tail(q)) = Len(q) - 1
      /\ \A i \in 1..(Len(q) - 1) : Tail(q)[i] = q[i + 1]
      /\ Tail(q) \in Seq(1..MaxCalls)
  <2>1. h = q[1]
    BY <1>1
  <2>2. Tail(q) \in Seq(1..MaxCalls) /\ Len(Tail(q)) = Len(q) - 1
    BY <1>1, HeadTailProperties
  <2>3. \A i \in 1..(Len(q) - 1) : Tail(q)[i] = q[i + 1]
    BY <1>1, HeadTailProperties
  <2> QED  BY <2>1, <2>2, <2>3
<1>4. \A i \in 1..Len(q) : q[i] = calls => i = Len(q) /\ e = call.to
  BY DEF QInv, LatestLast, IInv, IdsFresh
<1>5. h = calls => e = call.to /\ Tail(q) = <<>>
  <2> SUFFICES ASSUME h = calls PROVE e = call.to /\ Tail(q) = <<>>
    OBVIOUS
  <2>1. 1 \in 1..Len(q)
    BY <1>2
  <2>2. e = call.to /\ Len(q) = 1
    BY <1>3, <1>4, <2>1
  <2>3. Len(Tail(q)) = 0 /\ Tail(q) \in Seq(1..MaxCalls)
    BY <1>3, <2>2
  <2>4. Tail(q) = <<>>
    BY <2>3, EmptySeq
  <2> QED  BY <2>2, <2>4
<1>6. \A i \in 1..Len(Tail(q)) : Tail(q)[i] = calls => i = Len(Tail(q))
  BY <1>2, <1>3, <1>4
<1> HIDE DEF q, h
<1>7. LatestLast'
  BY <1>1, <1>6 DEF QInv, LatestLast
<1>8. AnswerClears'
  <2> SUFFICES ASSUME pc = "wait", queue'[call.to] # <<>>
               PROVE  ready = "none" /\ \A r \in responses' : r.id # calls
    BY <1>1 DEF AnswerClears
  <2>1. queue[call.to] # <<>>
    BY <1>1 DEF q
  <2>2. ready = "none" /\ \A r \in responses : r.id # calls
    BY <2>1 DEF QInv, AnswerClears
  <2>3. h # calls
    BY <1>1, <1>5
  <2> QED  BY <1>1, <2>2, <2>3
<1>9. SuccessSupersedes'
  <2> SUFFICES ASSUME pc = "idle", result PROVE queue'[call.to] = <<>>
    BY <1>1 DEF SuccessSupersedes
  <2>1. queue[call.to] = <<>> /\ call.to # e
    BY <1>1 DEF QInv, SuccessSupersedes, q
  <2> QED
    BY <2>1 DEF Serve, IInv, TypeOK
<1> QED
  BY <1>7, <1>8, <1>9 DEF QInv

LEMMA LoseClears ==
    ASSUME IInv, QInv, NEW e \in Endpoints, LoseRequests(e)
    PROVE  QInv'
<1>1. UNCHANGED <<pc, call, ready, result, responses, calls>>
  BY DEF LoseRequests
<1>2. \A x \in Endpoints : queue'[x] = queue[x] \/ (queue'[x] = <<>> /\ Len(queue'[x]) = 0)
  BY DEF LoseRequests, IInv, TypeOK
<1>3. queue[call.to] = <<>> => queue'[call.to] = <<>>
  BY DEF LoseRequests, IInv, TypeOK
<1>4. LatestLast'
  BY <1>1, <1>2 DEF QInv, LatestLast
<1> QED
  BY <1>1, <1>3, <1>4 DEF QInv, AnswerClears, SuccessSupersedes

LEMMA QStep == IInv /\ QInv /\ [Next]_vars => QInv'
<1> SUFFICES ASSUME IInv, QInv, [Next]_vars PROVE QInv'
  OBVIOUS
<1>1. CASE ServiceMissing \/ TakeResponse \/ TimeOut
  <2>1. /\ UNCHANGED <<call, calls, queue>> /\ pc' = "idle"
        /\ result' => pc = "wait" /\ ready # "none"
    BY <1>1 DEF ServiceMissing, TakeResponse, TimeOut, Return, server
  <2> QED
    BY <2>1 DEF QInv, LatestLast, AnswerClears, SuccessSupersedes
<1>2. ASSUME NEW r \in responses, Deliver(r) PROVE QInv'
  <2>1. /\ UNCHANGED <<pc, call, result, queue, calls>> /\ responses' \subseteq responses
        /\ pc = "wait" /\ call.id # r.id => ready' = ready
        /\ call.id = calls
    BY <1>2 DEF Deliver, IInv, IdsFresh
  <2> QED
    BY <2>1 DEF QInv, LatestLast, AnswerClears, SuccessSupersedes
<1>3. CASE UNCHANGED vars
  BY <1>3 DEF vars, QInv, LatestLast, AnswerClears, SuccessSupersedes
<1> QED
  BY CallClears, SendClears, ServeClears, LoseClears, <1>1, <1>2, <1>3 DEF Next

\* Whatever timed out before, a call that returns true leaves no request to its
\* service with the server: nothing of it can be performed late.
THEOREM SuccessClears == Spec => []SuccessSupersedes
<1>1. Init => QInv
  <2>1. ASSUME Init PROVE \A e \in Endpoints : Len(queue[e]) = 0
    BY <2>1 DEF Init
  <2> QED
    BY <2>1 DEF Init, QInv, LatestLast, AnswerClears, SuccessSupersedes
<1>2. QInv => SuccessSupersedes
  BY DEF QInv
<1> QED
  BY <1>1, <1>2, QStep, Invariant, PTL DEF Spec
=============================================================================
