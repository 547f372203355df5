--------------------------- MODULE ServiceClients ---------------------------
(***************************************************************************)
(* SceneClient and ToolRegistry: the blocking service calls of the         *)
(* behaviour tree.                                                         *)
(*                                                                         *)
(* One thread calls.  A call waits for its service, sends its request and  *)
(* waits for the response, each time no longer than the timeout.  A call   *)
(* that times out leaves its request with the server, which serves every   *)
(* service in order of arrival and knows no order between two services.    *)
(*                                                                         *)
(* An endpoint is one service of a device: "close" of a gripper,           *)
(* /scene/remove_object for a part.                                        *)
(***************************************************************************)
EXTENDS Naturals, Sequences

CONSTANTS
    Endpoints,
    Devices,     \* the tools and the objects of the scene
    DeviceOf,    \* the device an endpoint acts on
    Tools,       \* names under the tools parameter
    Fields,      \* the services each of them gives
    Roles,       \* a tool's endpoint as <<tool, field>>, None for a scene service
    None,        \* no endpoint
    MaxCalls     \* bound: calls in a behaviour

ToolFields == {"activate_service", "release_service"}

ASSUME ClientAssumption ==
    /\ DeviceOf \in [Endpoints -> Devices]
    /\ Fields \in [Tools -> SUBSET ToolFields]
    /\ Roles \in [Endpoints -> (Tools \X ToolFields) \cup {None}]
    /\ None \notin Endpoints \cup (Tools \X ToolFields)
    /\ MaxCalls \in Nat

VARIABLES
    pc,         \* where the caller is
    call,       \* the call it makes, or the last one
    ready,      \* the response its future holds
    result,     \* what the last call returned
    queue,      \* requests waiting at each endpoint
    responses,  \* responses not yet delivered to the client
    device,     \* the endpoint that acted on each device last
    calls,      \* calls so far
    done,       \* history: the calls the server has performed
    late,       \* history: devices of the calls that have timed out
    lastOk      \* history: endpoint of a device's last call if it succeeded

vars == <<pc, call, ready, result, queue, responses, device, calls, done, late, lastOk>>

server  == <<queue, responses, device, done>>

-----------------------------------------------------------------------------
\* A tool is registered if both of its services are given.
Registered == {t \in Tools : Fields[t] = ToolFields}

Known(e) == Roles[e] # None => Roles[e][1] \in Registered

Init ==
    /\ pc = "idle"
    /\ call = [id |-> 0, to |-> None]
    /\ ready = "none"
    /\ result = FALSE
    /\ queue = [e \in Endpoints |-> <<>>]
    /\ responses = {}
    /\ device = [d \in Devices |-> None]
    /\ calls = 0
    /\ done = {}
    /\ late = {}
    /\ lastOk = [d \in Devices |-> None]

Return(e, r) ==
    /\ pc' = "idle"
    /\ result' = r
    /\ lastOk' = [lastOk EXCEPT ![DeviceOf[e]] = IF r THEN e ELSE None]

-----------------------------------------------------------------------------
\* (mutant CallStale: the future of the previous call is kept)
CallStale(e) ==
    /\ pc = "idle"
    /\ calls < MaxCalls
    /\ calls' = calls + 1
    /\ call' = [id |-> calls + 1, to |-> e]
    /\ IF Known(e) THEN pc' = "find" /\ UNCHANGED <<result, lastOk>>
                   ELSE Return(e, FALSE)
    /\ UNCHANGED <<ready, server, late>>

\* removeObject, setObjectPose, activate or release.
Call(e) ==
    /\ pc = "idle"
    /\ calls < MaxCalls
    /\ calls' = calls + 1
    /\ call' = [id |-> calls + 1, to |-> e]
    /\ ready' = "none"
    /\ IF Known(e) THEN pc' = "find" /\ UNCHANGED <<result, lastOk>>
                   ELSE Return(e, FALSE)
    /\ UNCHANGED <<server, late>>

\* wait_for_service: found in time, or not.
ServiceMissing ==
    /\ pc = "find"
    /\ Return(call.to, FALSE)
    /\ UNCHANGED <<call, ready, server, calls, late>>

\* (mutant SendAndForget: the response is not waited for)
SendAndForget ==
    /\ pc = "find"
    /\ queue' = [queue EXCEPT ![call.to] = Append(@, call.id)]
    /\ Return(call.to, TRUE)
    /\ UNCHANGED <<call, ready, responses, device, calls, done, late>>

SendRequest ==
    /\ pc = "find"
    /\ pc' = "wait"
    /\ queue' = [queue EXCEPT ![call.to] = Append(@, call.id)]
    /\ UNCHANGED <<call, ready, result, responses, device, calls, done, late, lastOk>>

TakeResponse ==
    /\ pc = "wait"
    /\ ready # "none"
    /\ Return(call.to, ready = "ok")
    /\ UNCHANGED <<call, ready, server, calls, late>>

\* (mutant TimeOutNever: the future is waited for without a timeout)
TimeOutNever ==
    /\ FALSE
    /\ UNCHANGED vars

\* The future is not ready in time.  The request stays with the server.
TimeOut ==
    /\ pc = "wait"
    /\ ready = "none"
    /\ Return(call.to, FALSE)
    /\ late' = late \cup {DeviceOf[call.to]}
    /\ UNCHANGED <<call, ready, server, calls>>

\* The executor completes the future of the request the response answers.
Deliver(r) ==
    /\ responses' = responses \ {r}
    /\ ready' = IF pc = "wait" /\ call.id = r.id THEN r.result ELSE ready
    /\ UNCHANGED <<pc, call, result, queue, device, calls, done, late, lastOk>>

-----------------------------------------------------------------------------
(***************************************************************************)
(* The servers (scene_manager_node, gripper drivers).                      *)
(***************************************************************************)
Serve(e) ==
    /\ queue[e] # <<>>
    /\ queue' = [queue EXCEPT ![e] = Tail(@)]
    /\ \/ /\ responses' = responses \cup {[id |-> Head(queue[e]), result |-> "ok"]}
          /\ device' = [device EXCEPT ![DeviceOf[e]] = e]
          /\ done' = done \cup {Head(queue[e])}
       \/ /\ responses' = responses \cup {[id |-> Head(queue[e]), result |-> "refused"]}
          /\ UNCHANGED <<device, done>>
    /\ UNCHANGED <<pc, call, ready, result, calls, late, lastOk>>

\* A server that stops loses the requests it has not served.
LoseRequests(e) ==
    /\ queue[e] # <<>>
    /\ queue' = [queue EXCEPT ![e] = <<>>]
    /\ UNCHANGED <<pc, call, ready, result, responses, device, calls, done, late, lastOk>>

Next ==
    \/ \E e \in Endpoints : Call(e)
    \/ ServiceMissing
    \/ SendRequest
    \/ TakeResponse
    \/ TimeOut
    \/ \E r \in responses : Deliver(r)
    \/ \E e \in Endpoints : Serve(e) \/ LoseRequests(e)

Spec == Init /\ [][Next]_vars

\* Nothing is asked of the server or of the executor: the waits have timeouts.
FairSpec == Spec /\ WF_vars(ServiceMissing \/ SendRequest \/ TakeResponse \/ TimeOut)

-----------------------------------------------------------------------------
Replies == {"ok", "refused"}

TypeOK ==
    /\ pc \in {"idle", "find", "wait"}
    /\ call \in [id : 0..MaxCalls, to : Endpoints \cup {None}]
    /\ pc # "idle" => call.to \in Endpoints
    /\ ready \in Replies \cup {"none"}
    /\ pc = "find" => ready = "none"
    /\ result \in BOOLEAN
    /\ queue \in [Endpoints -> Seq(1..MaxCalls)]
    /\ responses \subseteq [id : 1..MaxCalls, result : Replies]
    /\ device \in [Devices -> Endpoints \cup {None}]
    /\ calls \in 0..MaxCalls
    /\ done \subseteq 1..MaxCalls
    /\ late \subseteq Devices
    /\ lastOk \in [Devices -> Endpoints \cup {None}]

\* A call returns true only if the server has performed that very call: the late
\* answer to an earlier call that timed out is not taken for its own.
TrueMeansDone == pc = "idle" /\ result => call.id \in done

\* As long as no call to a device has timed out, the device is as the last call
\* that succeeded left it: nothing sent before can still act on it.
LastSuccessStands ==
    \A d \in Devices \ late : pc = "idle" /\ lastOk[d] # None => device[d] = lastOk[d]

\* Calling the same service again until it succeeds supersedes the calls that
\* timed out: after a call that returns true no earlier request to its service is
\* still with the server, to be performed late.  (Requests to the other services
\* of the device may be.)
SuccessSupersedes == pc = "idle" /\ result => queue[call.to] = <<>>

\* Every call returns, whether or not its server answers or exists.
CallsReturn == (pc # "idle") ~> (pc = "idle")
=============================================================================
