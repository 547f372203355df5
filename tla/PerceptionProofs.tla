--------------------------- MODULE PerceptionProofs ---------------------------
(***************************************************************************)
(* Proofs about Perception, for any number of arrays and instants, any     *)
(* timeouts, lag, skew and history depth.                                  *)
(***************************************************************************)
EXTENDS Perception, TLAPS, SequenceTheorems

\* An array was captured in the past, early enough, and numbered in turn.
Sound(a) == a.at <= Now /\ a.at + TfTimeout <= MaxInstant /\ a.seq <= arrays

SoundArrays ==
    /\ \A i \in 1..Len(channel) : Sound(channel[i])
    /\ \A t \in Threads : taken[t] # None => Sound(taken[t])
    /\ latest # None => Sound(latest)

\* Arrays are in the order of publication: cached, taken, waiting.
InOrder ==
    /\ \A i, j \in 1..Len(channel) : i < j => channel[i].seq < channel[j].seq
    /\ \A t \in Threads, i \in 1..Len(channel) :
         taken[t] # None => taken[t].seq < channel[i].seq
    /\ latest # None => \A i \in 1..Len(channel) : latest.seq < channel[i].seq
    /\ \A t \in Threads : latest # None /\ taken[t] # None => latest.seq < taken[t].seq
    /\ \A t, u \in Threads : taken[t] # None /\ taken[u] # None => t = u

Asking == job.at \in {"exact", "latest"}

IndexGiven == job.at # "idle" => job.index \in Indices

\* The array a tick works with has the pose, and was in the cache.
Looked ==
    Asking => /\ latest # None
              /\ HasIndex(job.array, job.index)
              /\ Sound(job.array)
              /\ job.array.seq <= latest.seq

\* So has the array of the last answer, which is not newer than either.
Answered ==
    board # None => /\ latest # None
                    /\ HasIndex(board.array, board.index)
                    /\ board.array.seq <= latest.seq
                    /\ Asking => board.array.seq <= job.array.seq

\* Until a shutdown, transforms, once they arrive, are recent; the first lookup waits for them, and
\* when it fails with a buffer that reaches back, the clock was too far ahead.
TfRecent == rosOk /\ tf.first # 0 => Now - tf.last <= TfLag

Reached(a) == a.at + TfTimeout <= Now

Timed ==
    /\ job.at = "exact" => job.array.at + TfTimeout <= Now + job.left
    /\ Asking /\ job.covered => tf.first # 0 /\ tf.first <= Stamp(job.array)
    /\ rosOk /\ job.at = "latest" => Reached(job.array)
    /\ rosOk /\ job.at = "latest" /\ job.covered => skew > TfTimeout - TfLag

\* An answer before a shutdown used the transform of the stamp, or, with a clock too far ahead or a
\* buffer that did not reach back, one from after the capture.
Placed ==
    board # None =>
        /\ board.array.at <= board.now /\ board.now <= Now
        /\ board.used <= board.now
        /\ \/ board.used = Stamp(board.array)
           \/ ~board.ok
           \/ /\ board.array.at <= board.used
              /\ board.covered => skew > TfTimeout - TfLag

IInv ==
    /\ TypeOK
    /\ SoundArrays
    /\ InOrder
    /\ IndexGiven
    /\ Looked
    /\ Answered
    /\ TfRecent
    /\ Timed
    /\ Placed

-----------------------------------------------------------------------------
\* What the types say, in the form the steps use.
LEMMA Types ==
    ASSUME TypeOK
    PROVE  /\ camera \in Seq(Nat) /\ Now \in Nat /\ 1 <= Now /\ Now <= MaxInstant
           /\ skew \in Int /\ arrays \in Nat /\ MaxArrays \in Nat /\ MaxInstant \in Nat
           /\ TfTimeout \in Nat /\ TfLag \in Nat /\ TfLag <= TfTimeout
           /\ channel \in Seq(Array) /\ Len(channel) \in Nat
           /\ \A i \in 1..Len(channel) : channel[i] \in Array
           /\ \A a \in Array : a.seq \in Nat /\ a.at \in Nat /\ a.size \in Nat
           /\ \A t \in Threads : taken[t] # None => taken[t] \in Array
           /\ latest # None => latest \in Array
           /\ tf.first \in Nat /\ tf.last \in Nat /\ tf.first <= tf.last /\ tf.last <= Now
           /\ job.left \in Nat /\ job.array \in Array \cup {None}
           /\ board # None => board \in Answer
<1>1. camera \in Seq(Nat) /\ Now \in 1..MaxInstant /\ MaxInstant \in Nat /\ MaxArrays \in Nat
  BY PerceptionAssumption DEF TypeOK
<1>2. \A a \in Array : a.seq \in Nat /\ a.at \in Nat /\ a.size \in Nat
  <2> SUFFICES ASSUME NEW a \in Array PROVE a.seq \in Nat /\ a.at \in Nat /\ a.size \in Nat
    OBVIOUS
  <2>1. a.seq \in 1..MaxArrays /\ a.at \in 1..MaxInstant /\ a.size \in Sizes
    BY DEF Array
  <2>2. Sizes \subseteq Nat
    BY PerceptionAssumption
  <2>3. MaxArrays \in Int /\ MaxInstant \in Int
    BY <1>1
  <2>4. \A n \in Int : \A k \in 1..n : k \in Nat
    OBVIOUS
  <2>5. a.seq \in Nat /\ a.at \in Nat
    BY <2>1, <2>3, <2>4
  <2>6. a.size \in Nat
    BY <2>1, <2>2
  <2> QED  BY <2>5, <2>6
<1>3. /\ channel \in Seq(Array) /\ Len(channel) \in Nat
      /\ \A i \in 1..Len(channel) : channel[i] \in Array
  BY ElementOfSeq, LenProperties DEF TypeOK
<1>4. /\ skew \in Int /\ arrays \in Nat
      /\ TfTimeout \in Nat /\ TfLag \in Nat /\ TfLag <= TfTimeout
  BY PerceptionAssumption DEF TypeOK
<1>5. /\ \A t \in Threads : taken[t] # None => taken[t] \in Array
      /\ latest # None => latest \in Array
      /\ board # None => board \in Answer
  BY DEF TypeOK
<1>6. /\ tf.first \in Nat /\ tf.last \in Nat /\ tf.first <= tf.last /\ tf.last <= Now
      /\ job.left \in Nat /\ job.array \in Array \cup {None}
  BY DEF TypeOK, Job
<1> QED  BY <1>1, <1>2, <1>3, <1>4, <1>5, <1>6

\* The invariant holds before the first instant's events.
LEMMA InitIInv == Init => IInv
<1> SUFFICES ASSUME Init PROVE IInv
  OBVIOUS
<1> USE PerceptionAssumption
<1>1. Now = 1 /\ camera \in Seq(Nat)
  BY DEF Init, Now
<1>2. Rest \in Job /\ Rest.at = "idle"
  BY DEF Rest, Job
<1>3. channel \in Seq(Array) /\ Len(channel) = 0
  BY DEF Init
<1>4. TypeOK
  <2>1. Now \in 1..MaxInstant /\ arrays \in 0..MaxArrays /\ ticks \in 0..MaxTicks
    BY <1>1 DEF Init
  <2>2. channel \in Seq(Array) /\ Len(channel) <= Depth
    BY <1>3
  <2>3. tf \in [first : Nat, last : Nat] /\ tf.first <= tf.last /\ tf.last <= Now
    BY <1>1 DEF Init
  <2>4. taken \in [Threads -> Array \cup {None}] /\ job \in Job
    BY <1>2 DEF Init
  <2> QED  BY <1>1, <2>1, <2>2, <2>3, <2>4 DEF Init, TypeOK
<1>5. SoundArrays /\ InOrder
  BY <1>3 DEF Init, SoundArrays, InOrder
<1>6. IndexGiven /\ Looked /\ Answered /\ TfRecent /\ Timed /\ Placed
  BY <1>2 DEF Init, IndexGiven, Looked, Answered, TfRecent, Timed, Placed, Asking
<1> QED  BY <1>4, <1>5, <1>6 DEF IInv

\* Time passes: an array stays sound, and no lookup gives up before its time.
LEMMA AdvanceKeeps ==
    ASSUME IInv, NEW moves \in {0, 1}, Advance(moves)
    PROVE  IInv'
<1>0. /\ TypeOK
      /\ UNCHANGED <<skew, arrays, channel, taken, latest, client, tf, board, ticks, rosOk>>
      /\ job' = [job EXCEPT !.left = Later(@)]
  BY DEF IInv, Advance, executor
<1>1. /\ camera \in Seq(Nat) /\ Now \in Nat /\ 1 <= Now /\ Now <= MaxInstant
      /\ MaxInstant \in Nat /\ TfTimeout \in Nat /\ TfLag \in Nat
      /\ tf.first \in Nat /\ tf.last \in Nat /\ tf.last <= Now
      /\ job \in Job /\ job.left \in Nat
  BY <1>0, Types DEF TypeOK
<1>2. /\ camera' \in Seq(Nat)
      /\ \/ Now < MaxInstant /\ Now' = Now + 1
         \/ Now = MaxInstant /\ Now' = Now
  <2>1. CASE Now < MaxInstant
    <3>1. camera' = Append(camera, camera[Now] + moves)
      BY <2>1 DEF Advance
    <3>2. camera[Now] \in Nat
      BY <1>1, ElementOfSeq DEF Now
    <3> QED  BY <1>1, <2>1, <3>1, <3>2 DEF Now
  <2>2. CASE ~(Now < MaxInstant)
    BY <1>1, <2>2 DEF Advance, Now
  <2> QED  BY <2>1, <2>2
<1>3. Now' \in Nat /\ Now <= Now' /\ Now' <= MaxInstant
  BY <1>1, <1>2
<1>4. /\ job' \in Job /\ job'.at = job.at /\ job'.array = job.array
      /\ job'.covered = job.covered /\ job'.index = job.index
      /\ job'.left \in Nat /\ job.left <= job'.left + 1
  <2>1. Later(job.left) \in Nat /\ job.left <= Later(job.left) + 1
    BY <1>1 DEF Later
  <2> QED  BY <1>0, <1>1, <2>1 DEF Job
<1>5. \A a \in Array : a.at \in Nat /\ (Sound(a) => Sound(a)')
  BY <1>0, <1>1, <1>3, Types DEF Sound
<1>6. TypeOK'
  BY <1>0, <1>1, <1>2, <1>3, <1>4 DEF TypeOK
<1>7. SoundArrays' /\ InOrder'
  BY <1>0, <1>5, Types DEF IInv, SoundArrays, InOrder
<1>8. Asking' <=> Asking
  BY <1>4 DEF Asking
<1>9. Asking => job.array \in Array
  BY <1>0, Types DEF IInv, Looked, HasIndex
<1>10. IndexGiven' /\ Looked' /\ Answered'
  BY <1>0, <1>4, <1>5, <1>8, <1>9 DEF IInv, IndexGiven, Looked, Answered, HasIndex, Wrap
<1>11. TfRecent'
  BY <1>0, <1>1, <1>2 DEF IInv, TfRecent, Advance
<1>12. Timed'
  <2>1. ASSUME job.at = "exact"
        PROVE  job.array.at + TfTimeout <= Now' + job'.left
    <3>1. /\ job.array.at + TfTimeout <= Now + job.left
          /\ job.array.at + TfTimeout <= MaxInstant
          /\ job.array.at \in Nat
      BY <1>5, <1>9, <2>1 DEF IInv, Timed, Looked, Asking, Sound
    <3>2. CASE Now < MaxInstant /\ Now' = Now + 1
      <4>1. Now \in Nat /\ Now' = Now + 1 /\ TfTimeout \in Nat
        BY <1>1, <3>2
      <4>2. job.left \in Nat /\ job'.left \in Nat /\ job.left <= job'.left + 1
        BY <1>1, <1>4
      <4> HIDE DEF Now
      <4>3. \A n, m, p, q, at, to \in Nat :
              at + to <= n + p /\ m = n + 1 /\ p <= q + 1 => at + to <= m + q
        OBVIOUS
      <4>4. Now' \in Nat
        BY <1>3
      <4> QED  BY <4>1, <4>2, <4>3, <4>4, <3>1
    <3>3. CASE Now = MaxInstant /\ Now' = Now
      BY <1>1, <1>4, <3>1, <3>3
    <3> QED  BY <1>2, <3>2, <3>3
  <2>2. ASSUME rosOk, job.at = "latest"
        PROVE  Reached(job.array)'
    <3>1. Reached(job.array) /\ job.array.at \in Nat
      BY <1>5, <1>9, <2>2 DEF IInv, Timed, Asking
    <3> QED  BY <1>1, <1>3, <1>4, <3>1 DEF Reached
  <2> QED  BY <1>0, <1>4, <1>8, <2>1, <2>2 DEF IInv, Timed, Stamp
<1>13. Placed'
  <2>1. board # None => board.now \in Nat
    BY <1>0, Types DEF Answer
  <2> QED  BY <1>0, <1>1, <1>3, <2>1 DEF IInv, Placed, Stamp
<1> QED  BY <1>6, <1>7, <1>10, <1>11, <1>12, <1>13 DEF IInv


\* A step that leaves the arrays and the lookups' inputs alone, and begins none.
LEMMA QuietKeeps ==
    ASSUME IInv, job' \in Job, Asking' => Asking /\ job' = job, rosOk' => rosOk,
           UNCHANGED <<camera, skew, arrays, channel, taken, latest, tf, board>>
    PROVE  SoundArrays' /\ InOrder' /\ Looked' /\ Answered' /\ TfRecent' /\ Timed' /\ Placed'
<1>1. Now' = Now
  BY DEF Now
<1>2. SoundArrays' /\ InOrder'
  BY <1>1 DEF IInv, SoundArrays, InOrder, Sound
<1>3. Looked' /\ Answered'
  BY <1>1 DEF IInv, Looked, Answered, HasIndex, Wrap, Sound
<1>4. TfRecent' /\ Placed'
  BY <1>1 DEF IInv, TfRecent, Placed, Stamp
<1>5. Timed'
  BY <1>1 DEF IInv, Timed, Asking, Stamp, Reached
<1> QED  BY <1>2, <1>3, <1>4, <1>5

\* Between ticks nothing is looked up.
LEMMA RestIsIdle == Rest \in Job /\ Rest.at = "idle"
  BY DEF Rest, Job

\* The steps that leave the node's cache and the board alone and look nothing up.
LEMMA IdleStepsKeep ==
    ASSUME IInv, RefuseTick \/ (\E i \in Indices : BeginTick(i)) \/ Wake \/ LatestFails
                            \/ Interrupt
    PROVE  IInv'
<1> USE PerceptionAssumption
<1>0. TypeOK
  BY DEF IInv
<1>1. UNCHANGED <<camera, skew, arrays, channel, taken, latest, tf, board>>
  BY DEF RefuseTick, BeginTick, Wake, LatestFails, Interrupt, environment, executor
<1>7. rosOk' => rosOk
  BY DEF RefuseTick, BeginTick, Wake, LatestFails, Interrupt
<1>2. job' \in Job /\ (Asking' => Asking /\ job' = job)
  <2>1. CASE RefuseTick \/ Interrupt
    BY <1>0, <2>1 DEF TypeOK, RefuseTick, Interrupt, Asking
  <2>2. ASSUME NEW i \in Indices, BeginTick(i)
        PROVE  job' \in Job /\ ~Asking'
    BY <2>2 DEF BeginTick, Rest, Job, Asking
  <2>3. CASE Wake
    BY <1>0, <2>3 DEF TypeOK, Wake, Job, Asking
  <2>4. CASE LatestFails
    BY <2>4, RestIsIdle DEF LatestFails, Asking
  <2> QED  BY <2>1, <2>2, <2>3, <2>4
<1>3. ticks' \in 0..MaxTicks
  <2>1. ticks \in 0..MaxTicks /\ MaxTicks \in Nat
    BY <1>0 DEF TypeOK
  <2>2. ticks' = ticks \/ (ticks < MaxTicks /\ ticks' = ticks + 1)
    BY DEF RefuseTick, BeginTick, Wake, LatestFails, Interrupt
  <2> QED  BY <2>1, <2>2
<1>4. client' \in BOOLEAN /\ rosOk' \in BOOLEAN
  <2>1. client \in BOOLEAN /\ rosOk \in BOOLEAN
    BY <1>0 DEF TypeOK
  <2>2. (client' = client \/ client' = TRUE) /\ (rosOk' = rosOk \/ rosOk' = FALSE)
    BY DEF RefuseTick, BeginTick, Wake, LatestFails, Interrupt
  <2> QED  BY <2>1, <2>2
<1>5. IndexGiven'
  <2>1. CASE RefuseTick \/ Interrupt
    BY <2>1 DEF IInv, IndexGiven, RefuseTick, Interrupt
  <2>2. ASSUME NEW i \in Indices, BeginTick(i)
        PROVE  IndexGiven'
    BY <2>2 DEF IndexGiven, BeginTick, Rest
  <2>3. CASE Wake
    <3>1. job.index \in Indices
      BY <2>3 DEF IInv, IndexGiven, Wake
    <3>2. job'.index = job.index
      BY <1>0, <2>3 DEF TypeOK, Job, Wake
    <3> QED  BY <3>1, <3>2 DEF IndexGiven
  <2>4. CASE LatestFails
    BY <2>4, RestIsIdle DEF IndexGiven, LatestFails
  <2> QED  BY <2>1, <2>2, <2>3, <2>4
<1>6. TypeOK'
  BY <1>0, <1>1, <1>2, <1>3, <1>4 DEF TypeOK, Now
<1> QED  BY <1>1, <1>2, <1>5, <1>6, <1>7, QuietKeeps DEF IInv

\* The transforms that arrive are not older than the lag.
LEMMA HearTransformsKeeps ==
    ASSUME IInv, NEW last \in 1..Now, HearTransforms(last)
    PROVE  IInv'
<1>0. /\ TypeOK
      /\ UNCHANGED <<camera, skew, arrays, channel, taken, latest, client, job, board, ticks,
                     rosOk>>
      /\ tf' = [first |-> IF tf.first = 0 THEN last ELSE tf.first, last |-> last]
      /\ tf.last < last /\ Now - last <= TfLag
  BY DEF IInv, HearTransforms, environment, executor
<1>1. /\ Now' = Now /\ Now \in Nat
      /\ last \in Nat /\ 1 <= last /\ last <= Now
      /\ tf.first \in Nat /\ tf.last \in Nat /\ tf.first <= tf.last
  BY <1>0, Types DEF Now
<1>2. /\ tf' \in [first : Nat, last : Nat]
      /\ tf'.first <= tf'.last /\ tf'.last <= Now /\ tf'.last = last
      /\ tf.first # 0 => tf'.first = tf.first /\ tf'.first # 0
  BY <1>0, <1>1
<1>3. TypeOK'
  BY <1>0, <1>1, <1>2 DEF TypeOK
<1>4. SoundArrays' /\ InOrder' /\ IndexGiven' /\ Looked' /\ Answered' /\ Placed'
  BY <1>0, <1>1
     DEF IInv, IndexGiven, SoundArrays, InOrder, Looked, Answered, Placed, Asking, HasIndex,
         Wrap, Sound, Stamp
<1>5. TfRecent'
  BY <1>0, <1>1, <1>2 DEF TfRecent
<1>6. Timed'
  BY <1>0, <1>1, <1>2 DEF IInv, Timed, Asking, Stamp, Reached
<1> QED  BY <1>3, <1>4, <1>5, <1>6 DEF IInv

\* A new array is the newest; a full history has lost its first.
LEMMA PublishKeeps ==
    ASSUME IInv, NEW size \in Sizes, Publish(size)
    PROVE  IInv'
<1> USE PerceptionAssumption
<1> PICK a : a = [seq |-> arrays + 1, at |-> Now, size |-> size]
  OBVIOUS
<1> DEFINE Shift(d) ==
      \A i \in 1..Len(channel') : \/ channel'[i] = a /\ i = Len(channel')
                                  \/ i + d \in 1..Len(channel) /\ channel'[i] = channel[i + d]
<1> DEFINE Lasts(b) == b.at <= Now' /\ b.at + TfTimeout <= MaxInstant /\ b.seq <= arrays'
<1>0. /\ TypeOK
      /\ UNCHANGED <<camera, skew, taken, latest, client, tf, job, board, ticks, rosOk>>
      /\ arrays < MaxArrays /\ Now + TfTimeout <= MaxInstant /\ arrays' = arrays + 1
  BY DEF IInv, Publish
<1>1. /\ channel \in Seq(Array) /\ Len(channel) \in Nat /\ Len(channel) <= Depth
      /\ \A i \in 1..Len(channel) : channel[i] \in Array
  BY <1>0, Types DEF TypeOK
<1>2. Now' = Now /\ Now \in 1..MaxInstant /\ Now \in Nat
  BY <1>0, Types DEF TypeOK, Now
<1>3. arrays \in Nat /\ arrays' \in 0..MaxArrays
  BY <1>0, Types DEF TypeOK
<1>4. a \in Array /\ a.seq = arrays + 1 /\ a.at = Now
  BY <1>0, <1>2, <1>3 DEF Array
<1>5. /\ channel' \in Seq(Array) /\ Len(channel') \in Nat /\ Len(channel') <= Depth
      /\ Shift(0) \/ Shift(1)
  <2>1. CASE UNCHANGED channel
    <3>1. Shift(0)
      BY <1>1, <2>1
    <3> QED  BY <1>1, <2>1, <3>1
  <2>2. CASE Len(channel) < Depth /\ channel' = Append(channel, a)
    <3>1. /\ channel' \in Seq(Array) /\ Len(channel') = Len(channel) + 1
          /\ \A i \in 1..Len(channel) : channel'[i] = channel[i]
          /\ channel'[Len(channel) + 1] = a
      BY <1>1, <1>4, <2>2, AppendProperties
    <3>2. Shift(0)
      BY <1>1, <3>1
    <3>3. Len(channel') \in Nat /\ Len(channel') <= Depth
      BY <1>1, <2>2, <3>1
    <3> HIDE DEF Shift
    <3> QED  BY <3>1, <3>2, <3>3
  <2>3. CASE ~(Len(channel) < Depth) /\ channel' = Append(Tail(channel), a)
    <3>1. channel # <<>> /\ Len(channel) = Depth
      BY <1>1, <2>3
    <3>2. /\ Tail(channel) \in Seq(Array) /\ Len(Tail(channel)) = Len(channel) - 1
          /\ \A i \in 1..Len(Tail(channel)) : Tail(channel)[i] = channel[i + 1]
      BY <1>1, <3>1, HeadTailProperties
    <3>3. /\ channel' \in Seq(Array) /\ Len(channel') = Len(Tail(channel)) + 1
          /\ \A i \in 1..Len(Tail(channel)) : channel'[i] = Tail(channel)[i]
          /\ channel'[Len(Tail(channel)) + 1] = a
      BY <1>4, <2>3, <3>2, AppendProperties
    <3>4. Len(channel') = Len(channel)
      BY <1>1, <3>2, <3>3
    <3>5. Shift(1)
      <4> SUFFICES ASSUME NEW i \in 1..Len(channel'), i # Len(channel')
                   PROVE  i + 1 \in 1..Len(channel) /\ channel'[i] = channel[i + 1]
        BY <1>1, <3>2, <3>3, <3>4
      <4>1. i \in 1..Len(Tail(channel)) /\ i + 1 \in 1..Len(channel)
        <5>1. Len(channel) \in Nat /\ i \in 1..Len(channel) /\ i # Len(channel)
          BY <1>1, <3>4
        <5>2. Len(Tail(channel)) = Len(channel) - 1
          BY <3>2
        <5> HIDE DEF Shift
        <5> QED  BY <5>1, <5>2
      <4> QED  BY <3>2, <3>3, <4>1
    <3> HIDE DEF Shift
    <3> QED  BY <1>1, <3>3, <3>4, <3>5
  <2> QED  BY <2>1, <2>2, <2>3 DEF Publish
<1>6. TypeOK'
  BY <1>0, <1>2, <1>3, <1>5 DEF TypeOK
<1>7. \A b \in Array : Sound(b) => Lasts(b) /\ b.seq \in Nat /\ b.seq < a.seq
  <2> SUFFICES ASSUME NEW b \in Array, Sound(b)
               PROVE  Lasts(b) /\ b.seq \in Nat /\ b.seq < a.seq
    OBVIOUS
  <2>1. b.seq \in Nat /\ b.at \in Nat
    BY <1>0, Types
  <2>2. b.at <= Now /\ b.at + TfTimeout <= MaxInstant /\ b.seq <= arrays
    BY DEF Sound
  <2>3. b.seq <= arrays' /\ b.seq < a.seq
    BY <1>0, <1>3, <1>4, <2>1, <2>2
  <2> QED  BY <1>2, <2>1, <2>2, <2>3
<1>8. Lasts(a)
  BY <1>0, <1>2, <1>3, <1>4
<1>9. \A i \in 1..Len(channel') :
         \/ channel'[i] = a
         \/ channel'[i] \in Array /\ Sound(channel'[i])
  BY <1>1, <1>5 DEF IInv, SoundArrays
<1>10. /\ \A t \in Threads : taken[t] # None => taken[t] \in Array /\ Sound(taken[t])
       /\ latest # None => latest \in Array /\ Sound(latest)
  BY <1>0, Types DEF IInv, SoundArrays
<1>11. SoundArrays'
  <2> HIDE DEF Shift, Lasts
  <2>1. /\ \A i \in 1..Len(channel') : Lasts(channel'[i])
        /\ \A t \in Threads : taken[t] # None => Lasts(taken[t])
        /\ latest # None => Lasts(latest)
    BY <1>7, <1>8, <1>9, <1>10
  <2> QED  BY <1>0, <2>1 DEF SoundArrays, Sound, Lasts
<1>12. InOrder'
  <2> PICK d \in {0, 1} : Shift(d)
    BY <1>5
  <2>1. ASSUME NEW i \in 1..Len(channel'), NEW j \in 1..Len(channel'), i < j
        PROVE  channel'[i].seq < channel'[j].seq
    <3>1. i # Len(channel')
      BY <1>5, <2>1
    <3>2. i + d \in 1..Len(channel) /\ channel'[i] = channel[i + d]
      BY <3>1
    <3>3. CASE channel'[j] = a
      <4>1. channel[i + d] \in Array /\ Sound(channel[i + d])
        BY <1>1, <3>2 DEF IInv, SoundArrays
      <4> QED  BY <1>7, <3>2, <3>3, <4>1
    <3>4. CASE j + d \in 1..Len(channel) /\ channel'[j] = channel[j + d]
      <4>1. i + d < j + d
        BY <1>5, <2>1
      <4> HIDE DEF Shift
      <4> QED  BY <3>2, <3>4, <4>1 DEF IInv, InOrder
    <3> QED  BY <3>3, <3>4
  <2>2. ASSUME NEW t \in Threads, taken[t] # None, NEW i \in 1..Len(channel')
        PROVE  taken[t].seq < channel'[i].seq
    <3>1. taken[t].seq < a.seq
      BY <1>7, <1>10, <2>2
    <3> QED  BY <2>2, <3>1 DEF IInv, InOrder
  <2>3. ASSUME latest # None, NEW i \in 1..Len(channel')
        PROVE  latest.seq < channel'[i].seq
    <3>1. latest.seq < a.seq
      BY <1>7, <1>10, <2>3
    <3> QED  BY <2>3, <3>1 DEF IInv, InOrder
  <2> HIDE DEF Shift
  <2> QED  BY <1>0, <2>1, <2>2, <2>3 DEF IInv, InOrder
<1>13. Looked' /\ Answered'
  <2>1. Asking => job.array \in Array
    BY <1>0, Types DEF IInv, Looked, HasIndex
  <2>2. Asking => Lasts(job.array)
    BY <1>7, <2>1 DEF IInv, Looked
  <2> QED  BY <1>0, <2>2 DEF IInv, Looked, Answered, Asking, HasIndex, Wrap, Sound
<1>14. IndexGiven' /\ TfRecent' /\ Timed' /\ Placed'
  BY <1>0, <1>2 DEF IInv, IndexGiven, TfRecent, Timed, Placed, Asking, Stamp, Reached
<1> QED  BY <1>6, <1>11, <1>12, <1>13, <1>14 DEF IInv


\* The oldest array of the history is taken, by the one thread that may.
LEMMA TakeKeeps ==
    ASSUME IInv, NEW t \in Threads, Take(t)
    PROVE  IInv'
<1>0. /\ TypeOK
      /\ UNCHANGED <<camera, skew, arrays, latest, client, tf, job, board, ticks, rosOk>>
      /\ \A u \in Threads : taken[u] = None
      /\ taken' = [taken EXCEPT ![t] = Head(channel)]
      /\ channel # <<>> /\ channel' = Tail(channel)
  BY DEF IInv, Take, environment
<1>1. /\ channel \in Seq(Array) /\ Len(channel) \in Nat /\ Len(channel) <= Depth /\ Depth \in Nat
      /\ taken \in [Threads -> Array \cup {None}]
  BY <1>0, Types, PerceptionAssumption DEF TypeOK
<1>2. /\ channel' \in Seq(Array) /\ Len(channel') = Len(channel) - 1
      /\ \A i \in 1..Len(channel') : channel'[i] = channel[i + 1]
      /\ Head(channel) \in Array /\ Head(channel) = channel[1]
      /\ Len(channel) # 0
  BY <1>0, <1>1, HeadTailProperties, EmptySeq
<1>3. /\ Len(channel') \in Nat /\ Len(channel') <= Depth
      /\ 1 \in 1..Len(channel)
      /\ \A i \in 1..Len(channel') : i + 1 \in 1..Len(channel) /\ 1 < i + 1
  <2>1. Len(channel) \in Nat /\ Len(channel) # 0 /\ Len(channel') = Len(channel) - 1
        /\ Len(channel) <= Depth /\ Depth \in Nat
    BY <1>1, <1>2
  <2> QED  BY <2>1
<1>4. /\ taken' \in [Threads -> Array \cup {None}]
      /\ taken'[t] = channel[1]
      /\ \A u \in Threads : u # t => taken'[u] = None
  BY <1>0, <1>1, <1>2
<1>5. TypeOK' /\ Now' = Now
  BY <1>0, <1>2, <1>3, <1>4 DEF TypeOK, Now
<1>6. SoundArrays'
  BY <1>0, <1>2, <1>3, <1>4, <1>5 DEF IInv, SoundArrays, Sound
<1>7. InOrder'
  <2>1. ASSUME NEW i \in 1..Len(channel'), NEW j \in 1..Len(channel'), i < j
        PROVE  channel'[i].seq < channel'[j].seq
    <3>1. i + 1 \in 1..Len(channel) /\ j + 1 \in 1..Len(channel) /\ i + 1 < j + 1
      BY <1>3, <2>1
    <3> QED  BY <1>2, <3>1 DEF IInv, InOrder
  <2>2. ASSUME NEW u \in Threads, taken'[u] # None, NEW i \in 1..Len(channel')
        PROVE  taken'[u].seq < channel'[i].seq
    BY <1>2, <1>3, <1>4, <2>2 DEF IInv, InOrder
  <2>3. ASSUME latest # None, NEW i \in 1..Len(channel')
        PROVE  latest.seq < channel'[i].seq
    BY <1>2, <1>3, <2>3 DEF IInv, InOrder
  <2>4. ASSUME NEW u \in Threads, latest # None, taken'[u] # None
        PROVE  latest.seq < taken'[u].seq
    BY <1>3, <1>4, <2>4 DEF IInv, InOrder
  <2>5. \A u, v \in Threads : taken'[u] # None /\ taken'[v] # None => u = v
    BY <1>4
  <2> QED  BY <1>0, <2>1, <2>2, <2>3, <2>4, <2>5 DEF InOrder
<1>8. IndexGiven' /\ Looked' /\ Answered' /\ TfRecent' /\ Timed' /\ Placed'
  BY <1>0, <1>5
     DEF IInv, IndexGiven, Looked, Answered, TfRecent, Timed, Placed, Asking, HasIndex,
         Wrap, Sound, Stamp, Reached
<1> QED  BY <1>5, <1>6, <1>7, <1>8 DEF IInv

\* What is cached is newer than what was.
LEMMA OnPosesKeeps ==
    ASSUME IInv, NEW t \in Threads, OnPoses(t)
    PROVE  IInv'
<1>0. /\ TypeOK
      /\ UNCHANGED <<camera, skew, arrays, channel, client, tf, job, board, ticks, rosOk>>
      /\ taken[t] # None /\ latest' = taken[t]
      /\ taken' = [taken EXCEPT ![t] = None]
  BY DEF IInv, OnPoses, environment
<1>1. /\ taken \in [Threads -> Array \cup {None}] /\ latest' \in Array /\ latest' # None
      /\ latest # None => latest \in Array
  BY <1>0 DEF TypeOK
<1>2. /\ taken' \in [Threads -> Array \cup {None}]
      /\ \A u \in Threads : taken'[u] = None
  BY <1>0, <1>1 DEF IInv, InOrder
<1>3. TypeOK' /\ Now' = Now
  BY <1>0, <1>1, <1>2 DEF TypeOK, Now
<1>4. SoundArrays' /\ InOrder'
  BY <1>0, <1>1, <1>2, <1>3 DEF IInv, SoundArrays, InOrder, Sound
<1>5. \A a \in Array : latest # None /\ a.seq <= latest.seq => a.seq <= latest'.seq
  <2>1. latest # None => latest.seq < latest'.seq
    BY <1>0 DEF IInv, InOrder
  <2>2. /\ \A a \in Array : a.seq \in Nat
        /\ latest'.seq \in Nat /\ (latest # None => latest.seq \in Nat)
    BY <1>0, <1>1, Types
  <2> QED  BY <2>1, <2>2
<1>6. /\ Asking => job.array \in Array
      /\ board # None => board.array \in Array
  BY <1>0, Types DEF IInv, Looked, HasIndex, Answer
<1>7. Looked' /\ Answered'
  BY <1>0, <1>1, <1>3, <1>5, <1>6 DEF IInv, Looked, Answered, Asking, HasIndex, Wrap, Sound
<1>8. IndexGiven' /\ TfRecent' /\ Timed' /\ Placed'
  BY <1>0, <1>3 DEF IInv, IndexGiven, TfRecent, Timed, Placed, Asking, Stamp, Reached
<1> QED  BY <1>3, <1>4, <1>7, <1>8 DEF IInv

\* A tick finds its pose in the cache, fails or sleeps.
LEMMA LookKeeps == ASSUME IInv, Look PROVE IInv'
<1> USE PerceptionAssumption
<1>0. /\ TypeOK /\ job.at = "look" /\ ~Asking
      /\ UNCHANGED <<camera, skew, arrays, channel, taken, latest, client, tf, board, ticks, rosOk>>
  BY DEF IInv, Look, Asking, environment, executor
<1>1. job \in Job
  BY <1>0 DEF TypeOK
<1>2. CASE HasIndex(latest, job.index) /\ job' = Ask(job, latest)
  <2>1. latest # None /\ latest \in Array /\ TfTimeout \in Nat
    BY <1>0, <1>2 DEF TypeOK, HasIndex
  <2>2. /\ job' \in Job /\ job'.at = "exact" /\ job'.left = TfTimeout /\ job'.array = latest
        /\ job'.index = job.index
        /\ job'.covered => tf.first # 0 /\ tf.first <= Stamp(latest)
    BY <1>1, <1>2, <2>1 DEF Ask, Job
  <2>3. TypeOK' /\ Now' = Now
    BY <1>0, <2>2 DEF TypeOK, Now
  <2>4. SoundArrays' /\ InOrder' /\ TfRecent' /\ Placed'
    BY <1>0, <2>3 DEF IInv, SoundArrays, InOrder, TfRecent, Placed, Sound, Stamp
  <2>5. IndexGiven' /\ Looked'
    <3>1. job.index \in Indices
      BY <1>0 DEF IInv, IndexGiven
    <3>2. Sound(latest) /\ latest.seq \in Nat
      BY <1>0, <2>1, Types DEF IInv, SoundArrays
    <3> QED  BY <1>0, <1>2, <2>1, <2>2, <2>3, <3>1, <3>2
           DEF IndexGiven, Looked, Asking, HasIndex, Wrap, Sound
  <2>6. Answered'
    BY <1>0, <2>1, <2>2 DEF IInv, Answered, HasIndex, Wrap
  <2>7. Timed'
    <3>1. latest.at + TfTimeout <= Now + TfTimeout
      <4>1. latest.at \in Nat /\ Now \in Nat /\ latest.at <= Now
        BY <1>0, <2>1, Types DEF IInv, SoundArrays, Sound
      <4> QED  BY <2>1, <4>1
    <3> QED  BY <1>0, <2>2, <2>3, <3>1 DEF Timed, Stamp
  <2> QED  BY <2>3, <2>4, <2>5, <2>6, <2>7 DEF IInv
<1>3. CASE job' = Rest \/ job' = [job EXCEPT !.at = "sleep"]
  <2>1. job' \in Job /\ ~Asking'
    BY <1>1, <1>3, RestIsIdle DEF Job, Asking
  <2>2. TypeOK'
    BY <1>0, <2>1 DEF TypeOK, Now
  <2>3. IndexGiven'
    BY <1>0, <1>1, <1>3 DEF IInv, IndexGiven, Rest, Job
  <2> QED  BY <1>0, <2>1, <2>2, <2>3, QuietKeeps DEF IInv
<1> QED  BY <1>2, <1>3 DEF Look


\* The exact lookup fails only once its timeout is over, or at a shutdown.
LEMMA ExactFailsKeeps == ASSUME IInv, ExactFails PROVE IInv'
<1>0. /\ TypeOK /\ Asking /\ job.at = "exact" /\ (rosOk => job.left = 0)
      /\ ~(tf.first # 0 /\ Stamp(job.array) \in tf.first..tf.last)
      /\ UNCHANGED <<camera, skew, arrays, channel, taken, latest, client, tf, board, ticks, rosOk>>
      /\ job' = [job EXCEPT !.at = "latest", !.left = TfTimeout]
  BY DEF IInv, ExactFails, WaitOver, Asking, environment, executor
<1>1. /\ Now \in Nat /\ tf.first \in Nat /\ tf.last \in Nat /\ skew \in Int
      /\ TfTimeout \in Nat /\ TfLag \in Nat /\ job.array \in Array /\ job.array.at \in Nat
  <2>1. job.array \in Array
    BY <1>0, Types DEF IInv, Looked, HasIndex
  <2> QED  BY <1>0, <2>1, Types
<1>2. /\ job' \in Job /\ job'.at = "latest" /\ job'.array = job.array
      /\ job'.index = job.index /\ job'.covered = job.covered
  BY <1>0, <1>1 DEF TypeOK, Job
<1>3. TypeOK' /\ Now' = Now /\ Asking'
  BY <1>0, <1>2 DEF TypeOK, Now, Asking
<1>4. SoundArrays' /\ InOrder' /\ IndexGiven' /\ Looked' /\ Answered' /\ TfRecent' /\ Placed'
  BY <1>0, <1>2, <1>3
     DEF IInv, IndexGiven, SoundArrays, InOrder, Looked, Answered, TfRecent, Placed, HasIndex,
         Wrap, Sound, Stamp
<1>5. rosOk => job.array.at + TfTimeout <= Now
  BY <1>0, <1>1 DEF IInv, Timed
<1>6. job.covered => tf.first # 0 /\ tf.first <= Stamp(job.array)
  BY <1>0 DEF IInv, Timed
<1>7. ASSUME rosOk, job.covered PROVE skew > TfTimeout - TfLag
  <2>1. Stamp(job.array) = job.array.at + skew
    BY DEF Stamp
  <2>2. Stamp(job.array) > tf.last
    BY <1>0, <1>1, <1>6, <1>7, <2>1
  <2>3. Now - tf.last <= TfLag
    BY <1>6, <1>7 DEF IInv, TfRecent
  <2>4. job.array.at + TfTimeout <= Now
    BY <1>5, <1>7
  <2> QED  BY <1>1, <2>1, <2>2, <2>3, <2>4
<1>8. Timed'
  BY <1>0, <1>2, <1>3, <1>5, <1>6, <1>7 DEF Timed, Stamp, Reached
<1> QED  BY <1>3, <1>4, <1>8 DEF IInv

\* An answer: the stamp's transform, or the newest one, which came after the capture
\* unless the listener has stopped.
LEMMA FoundKeeps ==
    ASSUME IInv, ExactFound \/ LatestFound
    PROVE  /\ IInv'
           /\ board # None => board'.array.seq >= board.array.seq
<1>0. /\ TypeOK /\ Asking /\ tf.first # 0
      /\ UNCHANGED <<camera, skew, arrays, channel, taken, latest, client, tf, ticks, rosOk>>
      /\ job' = Rest
  BY DEF IInv, ExactFound, LatestFound, Found, Asking, environment, executor
<1>1. /\ Now \in Nat /\ Now <= MaxInstant /\ MaxInstant \in Nat
      /\ tf.first \in Nat /\ tf.last \in Nat /\ tf.first <= tf.last /\ tf.last <= Now
      /\ skew \in Int /\ TfTimeout \in Nat /\ TfLag \in Nat /\ TfLag <= TfTimeout
      /\ job \in Job /\ job.array \in Array /\ job.array.at \in Nat
      /\ job.index \in Indices /\ job.array.at <= Now
  <2>1. job.array \in Array /\ job.index \in Indices /\ Sound(job.array)
    BY <1>0, Types DEF IInv, IndexGiven, Looked, HasIndex, Asking
  <2> QED  BY <1>0, <2>1, Types DEF TypeOK, Sound
<1>2. PICK used \in 1..Now :
        /\ board' = [array |-> job.array, index |-> job.index, used |-> used,
                     covered |-> job.covered, now |-> Now, ok |-> rosOk]
        /\ \/ used = Stamp(job.array)
           \/ ~rosOk
           \/ /\ job.array.at <= used
              /\ job.covered => skew > TfTimeout - TfLag
  <2>1. CASE ExactFound
    <3>1. Stamp(job.array) \in 1..Now
      BY <1>0, <1>1, <2>1 DEF ExactFound, Stamp
    <3> QED  BY <2>1, <3>1 DEF ExactFound, Found
  <2>2. CASE LatestFound
    <3>1. tf.last \in 1..Now
      BY <1>0, <1>1
    <3>2. rosOk => job.array.at + TfTimeout <= Now /\ Now - tf.last <= TfLag
      BY <1>0, <2>2 DEF IInv, Timed, TfRecent, LatestFound, Reached
    <3>3. rosOk => job.array.at <= tf.last
      BY <1>1, <3>2
    <3>4. rosOk /\ job.covered => skew > TfTimeout - TfLag
      BY <2>2 DEF IInv, Timed, LatestFound
    <3> QED  BY <2>2, <3>1, <3>3, <3>4 DEF LatestFound, Found
  <2> QED  BY <2>1, <2>2
<1>3. /\ board'.array = job.array /\ board'.index = job.index /\ board'.used = used
      /\ board'.covered = job.covered /\ board'.now = Now /\ board'.ok = rosOk
  BY <1>2
<1>4. board' \in Answer
  <2>1. used \in 1..MaxInstant /\ Now \in 1..MaxInstant
    BY <1>1
  <2>2. job.covered \in BOOLEAN /\ rosOk \in BOOLEAN
    BY <1>0, <1>1 DEF Job, TypeOK
  <2> QED  BY <1>1, <1>2, <2>1, <2>2 DEF Answer
<1>5. job' \in Job /\ job'.at = "idle" /\ ~Asking' /\ Now' = Now
  BY <1>0, RestIsIdle DEF Asking, Now
<1>6. TypeOK'
  BY <1>0, <1>4, <1>5 DEF TypeOK
<1>7. SoundArrays' /\ InOrder' /\ IndexGiven' /\ Looked' /\ TfRecent' /\ Timed'
  BY <1>0, <1>5
     DEF IInv, IndexGiven, SoundArrays, InOrder, Looked, TfRecent, Timed, Sound, Stamp, Asking
<1>8. Answered'
  BY <1>0, <1>3, <1>5 DEF IInv, Looked, Answered, HasIndex, Wrap
<1>9. Placed'
  BY <1>0, <1>1, <1>2, <1>3, <1>5 DEF Placed, Stamp
<1>10. board # None => board'.array.seq >= board.array.seq
  <2>1. board # None => board.array.seq <= job.array.seq
    BY <1>0 DEF IInv, Answered
  <2>2. job.array.seq \in Nat /\ (board # None => board.array.seq \in Nat)
    BY <1>0, <1>1, Types DEF Answer
  <2> QED  BY <1>3, <2>1, <2>2
<1> QED  BY <1>6, <1>7, <1>8, <1>9, <1>10 DEF IInv

\* Nothing changes, so nothing is lost.
LEMMA StutterKeeps == ASSUME IInv, UNCHANGED vars PROVE IInv'
  BY DEF IInv, vars, TypeOK, SoundArrays, InOrder, IndexGiven, Looked, Answered, TfRecent, Timed,
         Placed, Asking, HasIndex, Wrap, Sound, Stamp, Reached, Now

\* Only an answer writes the board.
LEMMA OthersLeaveBoard ==
    ASSUME Next, ~ExactFound, ~LatestFound
    PROVE  board' = board
  BY DEF Next, Tick, Advance, Publish, HearTransforms, Take, OnPoses, RefuseTick, BeginTick, Look,
         Wake, ExactFails, LatestFails, Interrupt

\* One case per action.
LEMMA NextKeeps == IInv /\ [Next]_vars => IInv'
<1> SUFFICES ASSUME IInv, [Next]_vars PROVE IInv'
  OBVIOUS
<1>1. ASSUME NEW moves \in {0, 1}, Advance(moves) PROVE IInv'
  BY <1>1, AdvanceKeeps
<1>2. ASSUME NEW n \in Sizes, Publish(n) PROVE IInv'
  BY <1>2, PublishKeeps
<1>3. ASSUME NEW last \in 1..Now, HearTransforms(last) PROVE IInv'
  BY <1>3, HearTransformsKeeps
<1>4. ASSUME NEW t \in Threads, Take(t) PROVE IInv'
  BY <1>4, TakeKeeps
<1>5. ASSUME NEW t \in Threads, OnPoses(t) PROVE IInv'
  BY <1>5, OnPosesKeeps
<1>6. CASE RefuseTick \/ (\E i \in Indices : BeginTick(i)) \/ Wake \/ LatestFails \/ Interrupt
  BY <1>6, IdleStepsKeep
<1>7. CASE Look
  BY <1>7, LookKeeps
<1>8. CASE ExactFails
  BY <1>8, ExactFailsKeeps
<1>9. CASE ExactFound \/ LatestFound
  BY <1>9, FoundKeeps
<1>10. CASE UNCHANGED vars
  BY <1>10, StutterKeeps
<1> QED
  BY <1>1, <1>2, <1>3, <1>4, <1>5, <1>6, <1>7, <1>8, <1>9, <1>10 DEF Next, Tick

\* The invariant is inductive, so it always holds.
LEMMA IInvHolds == Spec => []IInv
  BY InitIInv, NextKeeps, PTL DEF Spec

-----------------------------------------------------------------------------
\* Every reachable state is well typed: the history never exceeds its depth, and no
\* answer uses an instant outside those told apart.
THEOREM TypeCorrect == Spec => []TypeOK
<1>1. IInv => TypeOK
  BY DEF IInv
<1> QED  BY <1>1, IInvHolds, PTL

\* DetectionsMoveForward: a tick never answers with an older detection than an
\* earlier tick did.
THEOREM MovesForward == Spec => DetectionsMoveForward
<1>1. IInv /\ [Next]_vars => [board # None => board'.array.seq >= board.array.seq]_board
  <2> SUFFICES ASSUME IInv, [Next]_vars, board' # board
               PROVE  board # None => board'.array.seq >= board.array.seq
    OBVIOUS
  <2>1. ExactFound \/ LatestFound
    BY OthersLeaveBoard DEF vars
  <2> QED  BY <2>1, FoundKeeps
<1> QED  BY <1>1, IInvHolds, PTL DEF Spec, DetectionsMoveForward

\* A wrapped index selects no pose of an array.
LEMMA WrapSelects ==
    ASSUME NEW i \in Indices, NEW n \in Sizes, n > Wrap(i)
    PROVE  i \in 0..(n - 1)
<1>1. /\ i \in Int /\ n \in Nat /\ n < SizeT /\ SizeT \in Nat /\ SizeT > 0
      /\ i < SizeT /\ (i < 0 => i + SizeT >= n)
  <2>1. i \in Int /\ n \in Nat /\ n < SizeT /\ SizeT \in Nat /\ SizeT # 0
    BY PerceptionAssumption
  <2>2. i < SizeT /\ (i < 0 => i + SizeT >= n)
    BY PerceptionAssumption
  <2>3. SizeT > 0
    BY <2>1
  <2> QED  BY <2>1, <2>2, <2>3
<1>2. CASE 0 <= i
  <2>1. i % SizeT = i
    BY <1>1, <1>2
  <2> QED  BY <1>1, <1>2, <2>1 DEF Wrap
<1>3. CASE i < 0
  <2>1. 0 <= i + SizeT /\ i + SizeT < SizeT /\ n <= i + SizeT
    BY <1>1, <1>3
  <2>2. i % SizeT = i + SizeT
    BY <1>1, <1>3, <2>1
  <2> QED  BY <1>1, <2>1, <2>2 DEF Wrap
<1> QED  BY <1>1, <1>2, <1>3

\* IndexExists: the pose that is read was in the array, whatever object_index is.
THEOREM IndexAlwaysExists == Spec => []IndexExists
<1>1. IInv => IndexExists
  <2> SUFFICES ASSUME IInv, board # None PROVE board.index \in 0..(board.array.size - 1)
    BY DEF IndexExists
  <2>1. board.index \in Indices /\ board.array \in Array /\ HasIndex(board.array, board.index)
    BY Types DEF IInv, Answered, Answer
  <2>2. board.array.size \in Sizes
    BY <2>1 DEF Array
  <2>3. board.array.size > Wrap(board.index)
    BY <2>1 DEF HasIndex
  <2> QED  BY <2>1, <2>2, <2>3, WrapSelects
<1> QED  BY <1>1, IInvHolds, PTL

\* CameraWasThere: the transform used before a shutdown puts the camera where it was
\* at the capture, if the camera stood still for as long as the property asks.
THEOREM CameraStood == Spec => []CameraWasThere
<1>1. IInv => CameraWasThere
  <2> SUFFICES ASSUME IInv, board # None, board.ok PROVE CameraWasThere
    BY DEF CameraWasThere
  <2> DEFINE at == board.array.at
             stamp == Stamp(board.array)
             low == Earlier(at, stamp)
             high == IF at < stamp THEN stamp ELSE at
  <2>1. /\ at \in Int /\ board.used \in Int /\ board.now \in Int /\ stamp = at + skew
        /\ skew \in Int /\ TfTimeout \in Int /\ TfLag \in Int
    <3>1. board \in Answer /\ board.array \in Array
      BY Types DEF IInv, Answer
    <3>2. at \in Nat /\ skew \in Int /\ TfTimeout \in Int /\ TfLag \in Int /\ MaxInstant \in Nat
      BY <3>1, Types DEF IInv
    <3> QED  BY <3>1, <3>2 DEF Answer, Stamp
  <2>2. /\ at <= board.now /\ board.used <= board.now
        /\ \/ board.used = stamp
           \/ /\ at <= board.used
              /\ board.covered => skew > TfTimeout - TfLag
    BY DEF IInv, Placed
  <2>3. low \in Int /\ high \in Int /\ low <= at /\ low <= stamp /\ at <= high /\ stamp <= high
        /\ stamp \in Int
    BY <2>1 DEF Earlier
  <2> HIDE DEF low, high, stamp, at
  <2>4. ASSUME Still(low, board.now) PROVE camera[board.used] = camera[at]
    <3>1. at \in low..board.now /\ board.used \in low..board.now
      BY <2>1, <2>2, <2>3
    <3> QED  BY <2>4, <3>1 DEF Still
  <2>5. ASSUME board.covered, skew <= TfTimeout - TfLag, Still(low, high)
        PROVE  camera[board.used] = camera[at]
    <3>1. board.used = stamp
      BY <2>1, <2>2, <2>5
    <3>2. at \in low..high /\ board.used \in low..high
      BY <2>1, <2>3, <3>1
    <3> QED  BY <2>5, <3>2 DEF Still
  <2> QED  BY <2>4, <2>5 DEF CameraWasThere, at, stamp, low, high
<1> QED  BY <1>1, IInvHolds, PTL

=============================================================================
