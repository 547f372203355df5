------------------------------ MODULE Perception ------------------------------
(***************************************************************************)
(* PerceptionClient and the node GetDetectedObjectPose that ticks it.      *)
(*                                                                         *)
(* The main thread waits until the cached PoseArray has the pose it wants, *)
(* then transforms that pose with tf2: at the stamp of the array or, when  *)
(* this fails, at the latest time.  Meanwhile the executor's threads fill  *)
(* the cache, and the listener's own thread the transform buffer.  The     *)
(* camera is carried by the robot: a transform is reduced to where the     *)
(* camera was at an instant, as the number of its moves.  A pose array is  *)
(* reduced to its number, the instant of its capture and its size.         *)
(***************************************************************************)
EXTENDS Integers, Sequences

CONSTANTS
    Threads,      \* threads of the runner's executor
    None,         \* no pose array, no pose
    Indices,      \* values of the object_index port that std::stoul accepts
    SizeT,        \* number of values of std::size_t
    Sizes,        \* sizes a pose array may have
    WaitTimeout,  \* wait_timeout_sec
    TfTimeout,    \* tf_timeout_sec
    TfLag,        \* transforms arrive at most this late once they arrive
    Skews,        \* stamp of an array minus the instant of its capture
    Depth,        \* history depth of SensorDataQoS
    MaxInstant,   \* bound: instants told apart
    MaxArrays,    \* bound: pose arrays published
    MaxTicks      \* bound: ticks

\* A negative index is far from the width of std::size_t: near it, it would wrap to
\* a small one.  std::stoul refuses what does not fit.
ASSUME PerceptionAssumption ==
    /\ Sizes \subseteq Nat /\ SizeT \in Nat \ {0}
    /\ \A n \in Sizes : n < SizeT
    /\ Indices \subseteq Int
    /\ \A i \in Indices : i < SizeT
    /\ \A i \in Indices : i < 0 => \A n \in Sizes : i + SizeT >= n
    /\ {WaitTimeout, TfTimeout, TfLag, MaxArrays, MaxTicks} \subseteq Nat
    /\ {Depth, MaxInstant} \subseteq Nat \ {0}
    /\ Skews \subseteq Int
    /\ TfLag <= TfTimeout

VARIABLES
    camera,     \* where the camera was at each instant so far: moves made
    skew,       \* what the camera's clock is ahead of the robot's
    arrays,     \* pose arrays published
    channel,    \* arrays in the subscription's history
    taken,      \* the array each executor thread runs onPoses with
    latest,     \* latest_
    client,     \* the cache of clients has one for the topic
    tf,         \* the instants the transform buffer covers, 0 for none
    job,        \* what the tick does
    board,      \* the pose under out_key, with how it was obtained
    ticks,      \* ticks begun
    rosOk       \* rclcpp::ok()

vars == <<camera, skew, arrays, channel, taken, latest, client, tf, job, board, ticks, rosOk>>

environment == <<camera, skew, arrays>>
executor    == <<channel, taken>>

-----------------------------------------------------------------------------
Now == Len(camera)

Array == [seq : 1..MaxArrays, at : 1..MaxInstant, size : Sizes]

Stamp(a) == a.at + skew

\* covered: when the transform was asked for, the buffer reached back to the stamp.
Rest == [at |-> "idle", index |-> 0, left |-> 0, array |-> None, covered |-> FALSE]

\* std::stoul takes a minus sign and wraps; size_t is as wide as unsigned long.
Wrap(i) == i % SizeT

Later(n) == IF n > 0 THEN n - 1 ELSE 0

Init ==
    /\ camera = <<0>>
    /\ skew \in Skews
    /\ arrays = 0
    /\ channel = <<>>
    /\ taken = [t \in Threads |-> None]
    /\ latest = None
    /\ client = FALSE
    /\ tf = [first |-> 0, last |-> 0]
    /\ job = Rest
    /\ board = None
    /\ ticks = 0
    /\ rosOk = TRUE

-----------------------------------------------------------------------------
(***************************************************************************)
(* Outside: time, the camera and its driver, the transforms of the robot.  *)
(***************************************************************************)
\* A deadline comes one instant nearer.  At the bound the camera stands still.
\* Transforms keep up with time as long as somebody listens to them.
Advance(moves) ==
    /\ rosOk /\ tf.first # 0 /\ Now < MaxInstant => Now + 1 - tf.last <= TfLag
    /\ camera' = IF Now < MaxInstant THEN Append(camera, camera[Now] + moves) ELSE camera
    /\ job' = [job EXCEPT !.left = Later(@)]
    /\ UNCHANGED <<skew, arrays, executor, latest, client, tf, board, ticks, rosOk>>

\* Published early enough for its transform to arrive before the last instant.  Best
\* effort, KEEP_LAST: an array may be lost, and a full history loses its oldest.
Publish(size) ==
    LET a == [seq |-> arrays + 1, at |-> Now, size |-> size]
    IN  /\ arrays < MaxArrays /\ Now + TfTimeout <= MaxInstant
        /\ arrays' = arrays + 1
        /\ \/ /\ client
              /\ channel' = IF Len(channel) < Depth THEN Append(channel, a)
                            ELSE Append(Tail(channel), a)
           \/ UNCHANGED channel
        /\ UNCHANGED <<camera, skew, taken, latest, client, tf, job, board, ticks, rosOk>>

\* The listener's thread spins until the context is shut down.
HearTransforms(last) ==
    /\ client /\ rosOk
    /\ tf.last < last /\ Now - last <= TfLag
    /\ tf' = [first |-> IF tf.first = 0 THEN last ELSE tf.first, last |-> last]
    /\ UNCHANGED <<environment, executor, latest, client, job, board, ticks, rosOk>>

-----------------------------------------------------------------------------
(***************************************************************************)
(* The executor.  The subscription is in the node's default group, which   *)
(* runs one callback at a time.                                            *)
(***************************************************************************)
\* (mutant TakeReentrant: the subscription is in a Reentrant group)
TakeReentrant(t) ==
    /\ rosOk
    /\ channel # <<>>
    /\ taken[t] = None
    /\ taken' = [taken EXCEPT ![t] = Head(channel)]
    /\ channel' = Tail(channel)
    /\ UNCHANGED <<environment, latest, client, tf, job, board, ticks, rosOk>>

Take(t) ==
    /\ rosOk
    /\ channel # <<>>
    /\ \A u \in Threads : taken[u] = None
    /\ taken' = [taken EXCEPT ![t] = Head(channel)]
    /\ channel' = Tail(channel)
    /\ UNCHANGED <<environment, latest, client, tf, job, board, ticks, rosOk>>

OnPoses(t) ==
    /\ taken[t] # None
    /\ latest' = taken[t]
    /\ taken' = [taken EXCEPT ![t] = None]
    /\ UNCHANGED <<environment, channel, client, tf, job, board, ticks, rosOk>>

-----------------------------------------------------------------------------
(***************************************************************************)
(* GetDetectedObjectPose::tick, on the main thread.                        *)
(***************************************************************************)
\* A port is missing, a number does not parse, or there is no ros_node.
RefuseTick ==
    /\ job = Rest /\ ticks < MaxTicks
    /\ ticks' = ticks + 1
    /\ UNCHANGED <<environment, executor, latest, client, tf, job, board, rosOk>>

\* The first tick creates the client: its subscription and its transform buffer.
BeginTick(i) ==
    /\ job = Rest /\ ticks < MaxTicks
    /\ ticks' = ticks + 1
    /\ client' = TRUE
    /\ job' = [Rest EXCEPT !.at = "look", !.index = i, !.left = WaitTimeout]
    /\ UNCHANGED <<environment, executor, latest, tf, board, rosOk>>

\* (mutant HasIndexSigned: sizes are compared as signed numbers)
HasIndexSigned(a, i) == a # None /\ a.size > i

HasIndex(a, i) == a # None /\ a.size > Wrap(i)

\* transform() waits for its instant up to the timeout.
\* (mutant AskNow: transform() is called without a timeout)
AskNow(state, a) ==
    [state EXCEPT !.at = "exact", !.left = 0, !.array = a,
                  !.covered = tf.first # 0 /\ tf.first <= Stamp(a)]

Ask(state, a) ==
    [state EXCEPT !.at = "exact", !.left = TfTimeout, !.array = a,
                  !.covered = tf.first # 0 /\ tf.first <= Stamp(a)]

\* (mutant LookForever: the deadline is not looked at)
LookForever ==
    /\ job.at = "look"
    /\ job' = IF ~rosOk THEN Rest
              ELSE IF HasIndex(latest, job.index) THEN Ask(job, latest)
              ELSE [job EXCEPT !.at = "sleep"]
    /\ UNCHANGED <<environment, executor, latest, client, tf, board, ticks, rosOk>>

\* One turn of the loop of waitForPose; without a pose the tick fails.
Look ==
    /\ job.at = "look"
    /\ job' = IF ~rosOk THEN Rest
              ELSE IF HasIndex(latest, job.index) THEN Ask(job, latest)
              ELSE IF job.left = 0 THEN Rest
              ELSE [job EXCEPT !.at = "sleep"]
    /\ UNCHANGED <<environment, executor, latest, client, tf, board, ticks, rosOk>>

Wake ==
    /\ job.at = "sleep"
    /\ job' = [job EXCEPT !.at = "look"]
    /\ UNCHANGED <<environment, executor, latest, client, tf, board, ticks, rosOk>>

\* The pose, transformed with the camera where it was at instant used.
Found(used) ==
    /\ board' = [array |-> job.array, index |-> job.index, used |-> used,
                 covered |-> job.covered, now |-> Now, ok |-> rosOk]
    /\ job' = Rest
    /\ UNCHANGED <<environment, executor, latest, client, tf, ticks, rosOk>>

ExactFound ==
    /\ job.at = "exact"
    /\ tf.first # 0 /\ Stamp(job.array) \in tf.first..tf.last
    /\ Found(Stamp(job.array))

\* The wait inside transform() is over: at its timeout, or at a shutdown.
WaitOver == job.left = 0 \/ ~rosOk

ExactFails ==
    /\ job.at = "exact" /\ WaitOver
    /\ ~(tf.first # 0 /\ Stamp(job.array) \in tf.first..tf.last)
    /\ job' = [job EXCEPT !.at = "latest", !.left = TfTimeout]
    /\ UNCHANGED <<environment, executor, latest, client, tf, board, ticks, rosOk>>

LatestFound ==
    /\ job.at = "latest"
    /\ tf.first # 0
    /\ Found(tf.last)

LatestFails ==
    /\ job.at = "latest" /\ WaitOver
    /\ tf.first = 0
    /\ job' = Rest
    /\ UNCHANGED <<environment, executor, latest, client, tf, board, ticks, rosOk>>

Interrupt ==
    /\ rosOk
    /\ rosOk' = FALSE
    /\ UNCHANGED <<environment, executor, latest, client, tf, job, board, ticks>>

-----------------------------------------------------------------------------
Tick == Look \/ Wake \/ ExactFound \/ ExactFails \/ LatestFound \/ LatestFails

Next ==
    \/ \E moves \in {0, 1} : Advance(moves)
    \/ \E n \in Sizes : Publish(n)
    \/ \E last \in 1..Now : HearTransforms(last)
    \/ \E t \in Threads : Take(t) \/ OnPoses(t)
    \/ RefuseTick
    \/ \E i \in Indices : BeginTick(i)
    \/ Tick
    \/ Interrupt

Spec == Init /\ [][Next]_vars

\* The main thread is scheduled and time passes; the robot's transforms, once
\* they arrive, keep arriving.  Nothing is asked of the camera.
FairSpec ==
    /\ Spec
    /\ WF_vars(Tick)
    /\ WF_vars(\E moves \in {0, 1} : Advance(moves))
    /\ WF_vars(\E last \in 1..Now : HearTransforms(last))

-----------------------------------------------------------------------------
Job == [at : {"idle", "look", "sleep", "exact", "latest"}, index : Indices \cup {0},
        left : Nat, array : Array \cup {None}, covered : BOOLEAN]

Answer == [array : Array, index : Indices, used : 1..MaxInstant, covered : BOOLEAN,
           now : 1..MaxInstant, ok : BOOLEAN]

TypeOK ==
    /\ camera \in Seq(Nat) /\ Now \in 1..MaxInstant
    /\ skew \in Skews
    /\ arrays \in 0..MaxArrays
    /\ channel \in Seq(Array) /\ Len(channel) <= Depth
    /\ taken \in [Threads -> Array \cup {None}]
    /\ latest \in Array \cup {None}
    /\ client \in BOOLEAN
    /\ tf \in [first : Nat, last : Nat]
    /\ tf.first <= tf.last /\ tf.last <= Now
    /\ job \in Job
    /\ board \in Answer \cup {None}
    /\ ticks \in 0..MaxTicks
    /\ rosOk \in BOOLEAN

\* A later tick never answers with an older detection than an earlier tick did:
\* the executor's threads fill the cache in the order of publication.
DetectionsMoveForward ==
    [][board # None => board'.array.seq >= board.array.seq]_board

\* The pose that is read was in the array: an index written as a negative number,
\* which wraps, never selects one.
IndexExists == board # None => board.index \in 0..(board.array.size - 1)

Earlier(i, j) == IF i < j THEN i ELSE j

\* Before the first instant the camera is taken to have moved.
Still(i, j) == i >= 1 /\ \A a, b \in i..j : camera[a] = camera[b]

\* The transform that is used places the camera where it was at the capture: if
\* the camera stood still from the capture, and from the stamp, until now; and,
\* when the buffer reached back to the stamp and waits long enough for a clock that
\* is ahead, if it stood still between the capture and the stamp, however it moves
\* before and after.  Of an answer after SIGINT nothing is said: neither lookup
\* waits any more, and the latest transform may be from before the capture.
CameraWasThere ==
    board # None /\ board.ok =>
        LET at == board.array.at
            stamp == Stamp(board.array)
        IN  \/ Still(Earlier(at, stamp), board.now)
            \/ board.covered /\ skew <= TfTimeout - TfLag
                 /\ Still(Earlier(at, stamp), IF at < stamp THEN stamp ELSE at)
            => camera[board.used] = camera[at]

\* Every tick returns, with or without detections and transforms, and even when
\* the executor has stopped.
TickReturns == (job.at # "idle") ~> (job.at = "idle")
=============================================================================
