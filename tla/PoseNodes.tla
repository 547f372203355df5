------------------------------ MODULE PoseNodes ------------------------------
(***************************************************************************)
(* The nodes that compute poses: StoreCurrentPose, ComputeTCPTarget, the   *)
(* two offsets and ComputeSuctionPickPose, with the geometry of            *)
(* RobotClient they use.                                                   *)
(*                                                                         *)
(* Distances are integers and rotations turn the axes onto the axes, so    *)
(* every rotation is the matrix of its columns, and a vector that is       *)
(* normalised has length one or zero.  A quaternion of norm zero is Null.  *)
(***************************************************************************)
EXTENDS Integers

CONSTANTS
    Null,       \* an orientation of norm zero
    Unset,      \* no pose under the key, or no robot client to ask
    Unread,     \* the robot has an attitude, but its state cannot be read
    Distances,  \* values of the offsets
    Attitudes,  \* orientations the robot may have when it is asked
    Target,     \* target_xyz
    FixedRpy,   \* values of fixed_rpy_deg, in quarter turns
    Offsets,    \* values of tcp_offset_xyz and tcp_offset_rpy_deg, as pairs
    MaxTicks    \* bound: nodes ticked

VARIABLES
    board,    \* the poses on the blackboard
    last,     \* the last node ticked and what it worked with
    ticks     \* nodes ticked

vars == <<board, last, ticks>>

-----------------------------------------------------------------------------
Vec(x, y, z) == <<x, y, z>>
Zero == Vec(0, 0, 0)

Plus(u, v)  == Vec(u[1] + v[1], u[2] + v[2], u[3] + v[3])
Times(k, v) == Vec(k * v[1], k * v[2], k * v[3])
Dot(u, v)   == u[1] * v[1] + u[2] * v[2] + u[3] * v[3]

Cross(u, v) ==
    Vec(u[2] * v[3] - u[3] * v[2], u[3] * v[1] - u[1] * v[3], u[1] * v[2] - u[2] * v[1])

Identity == [x |-> Vec(1, 0, 0), y |-> Vec(0, 1, 0), z |-> Vec(0, 0, 1)]

Apply(m, v) == Plus(Times(v[1], m.x), Plus(Times(v[2], m.y), Times(v[3], m.z)))

Compose(m, n) == [x |-> Apply(m, n.x), y |-> Apply(m, n.y), z |-> Apply(m, n.z)]

\* toRotationMatrix gives the identity for a quaternion that is not normalised
\* because its norm is zero.
Matrix(q) == IF q = Null THEN Identity ELSE q

\* A quarter turn about each axis, n times.
Cosine(n) == CASE n % 4 = 0 -> 1 [] n % 4 = 2 -> -1 [] OTHER -> 0
Sine(n)   == Cosine(n - 1)
AboutX(n) == [Identity EXCEPT !.y = Vec(0, Cosine(n), Sine(n)), !.z = Vec(0, -Sine(n), Cosine(n))]
AboutY(n) == [Identity EXCEPT !.z = Vec(Sine(n), 0, Cosine(n)), !.x = Vec(Cosine(n), 0, -Sine(n))]
AboutZ(n) == [Identity EXCEPT !.x = Vec(Cosine(n), Sine(n), 0), !.y = Vec(-Sine(n), Cosine(n), 0)]

QuatFromRpy(rpy) == Compose(AboutZ(rpy[3]), Compose(AboutY(rpy[2]), AboutX(rpy[1])))

Rotations == {QuatFromRpy(<<r, p, y>>) : r, p, y \in 0..3}

Vectors == Int \X Int \X Int

ASSUME PoseAssumption ==
    /\ Null \notin [x : Vectors, y : Vectors, z : Vectors]
    /\ Unset # Unread
    /\ Attitudes \subseteq Rotations \ {Unset, Unread}
    /\ Distances \subseteq Int
    /\ Target \in Vectors
    /\ FixedRpy \subseteq Vectors
    /\ Offsets \subseteq Vectors \X Vectors
    /\ MaxTicks \in Nat

-----------------------------------------------------------------------------
Pose(at, q) == [at |-> at, q |-> q]

OffsetInToolFrame(pose, delta) ==
    Pose(Plus(pose.at, Apply(Matrix(pose.q), delta)), Matrix(pose.q))

\* (mutant OffsetFirst: the offset is multiplied from the left)
OffsetFirst(pose, xyz, rpy) ==
    Pose(Plus(xyz, Apply(QuatFromRpy(rpy), pose.at)), Compose(QuatFromRpy(rpy), Matrix(pose.q)))

ApplyTCPOffset(pose, xyz, rpy) ==
    Pose(Plus(pose.at, Apply(Matrix(pose.q), xyz)), Compose(Matrix(pose.q), QuatFromRpy(rpy)))

\* What getCurrentPose() returns: the identity when the state cannot be read.
Reading(robot) == IF robot = Unread THEN Identity ELSE robot

\* The X axis that tool X is to follow: of the robot, else of the board's entry,
\* else of the world.
\* (mutant ReferenceBoardFirst: the blackboard is asked before the robot)
ReferenceBoardFirst(robot, entry) ==
    IF entry # Unset /\ entry.q # Null THEN entry.q.x
    ELSE IF robot # Unset THEN Reading(robot).x ELSE Identity.x

ReferenceX(robot, entry) ==
    CASE robot # Unset -> Reading(robot).x
      [] robot = Unset /\ entry # Unset /\ entry.q # Null -> entry.q.x
      [] OTHER -> Identity.x

Project(v, z) == Plus(v, Times(-Dot(v, z), z))

\* Tool X: the projection of the reference, or of world Y; Zero if both vanish.
\* (mutant ToolXWorld: a reference along tool Z is replaced by world X)
ToolXWorld(ref, z) == IF Project(ref, z) # Zero THEN Project(ref, z) ELSE Project(Identity.x, z)

ToolX(ref, z) == IF Project(ref, z) # Zero THEN Project(ref, z) ELSE Project(Identity.y, z)

\* (mutant ToolZKept: flip_z is not looked at)
ToolZKept(q, flip) == q.z

ToolZ(q, flip) == IF flip THEN Times(-1, q.z) ELSE q.z

\* (mutant SuctionMirrored: the operands of the cross product are swapped)
SuctionMirrored(det, offset, flip, ref) ==
    LET z == ToolZ(det.q, flip)
        x == ToolX(ref, z)
    IN  Pose(Plus(det.at, Times(-offset, z)), [x |-> x, y |-> Cross(x, z), z |-> z])

SuctionPose(det, offset, flip, ref) ==
    LET z == ToolZ(det.q, flip)
        x == ToolX(ref, z)
    IN  Pose(Plus(det.at, Times(-offset, z)), [x |-> x, y |-> Cross(z, x), z |-> z])

-----------------------------------------------------------------------------
Keys == {"detected", "reference", "pick", "retreat"}

\* "detected" may hold any pose, whatever the estimator published, and a detection
\* without an orientation may be under the key of the reference too.
Init ==
    /\ board \in [Keys -> {Unset} \cup {Pose(Zero, q) : q \in Rotations \cup {Null}}]
    /\ board["reference"] \in {Unset, Pose(Zero, Null)}
    /\ board["pick"] = Unset /\ board["retreat"] = Unset
    /\ last = [node |-> "none", done |-> FALSE]
    /\ ticks = 0

Ticked == ticks < MaxTicks /\ ticks' = ticks + 1

\* A node sets its output key and succeeds, or fails and sets nothing.
Done(what, key, pose) ==
    /\ board' = [board EXCEPT ![key] = pose]
    /\ last' = what

Failed(what) ==
    /\ last' = what
    /\ UNCHANGED board

\* A port is missing or does not parse.
Refused(node) == Failed([node |-> node, done |-> FALSE, ports |-> FALSE])

StoreCurrentPose ==
    /\ Ticked
    /\ \/ \E robot \in Attitudes \cup {Unread} :
             Done([node |-> "StoreCurrentPose", done |-> TRUE], "reference",
                  Pose(Zero, Reading(robot)))
       \/ Refused("StoreCurrentPose")

\* The orientation is the robot's, or the fixed one.
ComputeTCPTarget ==
    /\ Ticked
    /\ \/ \E base \in {Reading(robot) : robot \in Attitudes \cup {Unread}}
                      \cup {QuatFromRpy(rpy) : rpy \in FixedRpy}, offset \in Offsets :
             Done([node |-> "ComputeTCPTarget", done |-> TRUE, base |-> base, offset |-> offset],
                  "pick", ApplyTCPOffset(Pose(Target, base), offset[1], offset[2]))
       \/ Refused("ComputeTCPTarget")

\* An example tree offsets the pick to the retreat.
OffsetPoseInToolFrame ==
    /\ Ticked
    /\ \/ /\ board["pick"] = Unset
          /\ Failed([node |-> "OffsetPoseInToolFrame", done |-> FALSE])
       \/ \E dx, dz \in Distances :
             /\ board["pick"] # Unset
             /\ Done([node |-> "OffsetPoseInToolFrame", done |-> TRUE],
                     "retreat", OffsetInToolFrame(board["pick"], Vec(dx, 0, dz)))
       \/ Refused("OffsetPoseInToolFrame")

\* From any key to any key, the same one too.  The orientation is copied as it is.
OffsetPoseInBaseFrame ==
    /\ Ticked
    /\ \/ \E in \in Keys :
             /\ board[in] = Unset
             /\ Failed([node |-> "OffsetPoseInBaseFrame", done |-> FALSE])
       \/ \E in, out \in Keys, dx, dz \in Distances :
             /\ board[in] # Unset
             /\ Done([node |-> "OffsetPoseInBaseFrame", done |-> TRUE], out,
                     Pose(Plus(board[in].at, Vec(dx, 0, dz)), board[in].q))
       \/ Refused("OffsetPoseInBaseFrame")

Buildable(det, flip, ref) ==
    det # Unset /\ det.q # Null /\ ToolX(ref, ToolZ(det.q, flip)) # Zero

ComputeSuctionPickPose ==
    /\ Ticked
    /\ \/ \E robot \in Attitudes \cup {Unread, Unset}, offset \in Distances, flip \in BOOLEAN :
             LET det == board["detected"]
                 ref == ReferenceX(robot, board["reference"])
                 what == [node |-> "ComputeSuctionPickPose", robot |-> robot, offset |-> offset,
                          flip |-> flip, done |-> Buildable(det, flip, ref), ports |-> TRUE]
             IN  IF Buildable(det, flip, ref)
                 THEN Done(what, "pick", SuctionPose(det, offset, flip, ref))
                 ELSE Failed(what)
       \/ Refused("ComputeSuctionPickPose")

Next ==
    \/ StoreCurrentPose
    \/ ComputeTCPTarget
    \/ OffsetPoseInToolFrame
    \/ OffsetPoseInBaseFrame
    \/ ComputeSuctionPickPose

Spec == Init /\ [][Next]_vars

-----------------------------------------------------------------------------
Proper(m) ==
    /\ \A u \in {m.x, m.y, m.z} : Dot(u, u) = 1
    /\ Dot(m.x, m.y) = 0 /\ Dot(m.y, m.z) = 0 /\ Dot(m.z, m.x) = 0
    /\ Cross(m.x, m.y) = m.z

\* The entry a node writes has an orientation, whatever it was computed from.
\* OffsetPoseInBaseFrame is the exception: it copies the one it reads.
WritesRotation ==
    /\ last.done /\ last.node = "StoreCurrentPose" => board["reference"].q # Null
    /\ last.done /\ last.node \in {"ComputeTCPTarget", "ComputeSuctionPickPose"}
          => board["pick"].q # Null
    /\ last.done /\ last.node = "OffsetPoseInToolFrame" => board["retreat"].q # Null

\* No entry of the blackboard is mirrored or skewed: an orientation is of norm zero,
\* as the estimator may publish it, or a rotation, right-handed and orthonormal; and
\* one of norm zero is only ever copied, by OffsetPoseInBaseFrame to any key it is
\* given, never written by a node that computes an orientation.
BoardProper ==
    /\ \A k \in Keys : board[k] # Unset /\ board[k].q # Null => Proper(board[k].q)
    /\ WritesRotation

Suction == last.node = "ComputeSuctionPickPose"

\* The suction cup, tool_offset_z ahead of the wrist along tool Z, touches the
\* detected point, and tool Z points into the surface: whatever the robot's state,
\* even one that could not be read.
CupTouchesSurface ==
    Suction /\ last.done =>
        LET out == board["pick"]
            det == board["detected"]
        IN  /\ Apply(out.q, Vec(0, 0, last.offset)) = Plus(det.at, Times(-1, out.at))
            /\ Dot(out.q.z, det.q.z) = IF last.flip THEN -1 ELSE 1

\* Of all the rotations with that tool Z the node takes the one whose X axis turns
\* the wrist least: away from the robot's X axis, from that of the stored pose
\* when there is no robot to ask, from world X when there is neither.  Nothing is
\* said of a robot whose state cannot be read: getCurrentPose() answers with the
\* identity, and the node takes world X although it has a fallback.
WristTurnsLeast ==
    Suction /\ last.done /\ last.robot # Unread =>
        LET entry == board["reference"]
            wanted == IF last.robot \in Attitudes THEN last.robot.x
                      ELSE IF entry # Unset /\ entry.q # Null THEN entry.q.x
                      ELSE Identity.x
        IN  \A m \in Rotations :
              m.z = board["pick"].q.z => Dot(m.x, wanted) <= Dot(board["pick"].q.x, wanted)

\* With ports it can read and a usable detection the node fails only when both the
\* surface normal and the reference are along world Y: world X is then not tried,
\* although the error speaks of world X and Y.
SuctionFailsSideways ==
    Suction /\ ~last.done /\ last.ports =>
        LET det == board["detected"]
        IN  det # Unset /\ det.q # Null =>
              \A v \in {det.q.z, ReferenceX(last.robot, board["reference"])} :
                  v \in {Identity.y, Times(-1, Identity.y)}

\* The offset moves the TCP, not the target: seen from the computed pose, undoing
\* the offset gives back the target position with the orientation asked for.
TargetRecovered ==
    last.node = "ComputeTCPTarget" /\ last.done =>
        LET pick == board["pick"]
            turn == CHOOSE m \in Rotations : Compose(m, QuatFromRpy(last.offset[2])) = pick.q
        IN  /\ turn = last.base
            /\ Plus(pick.at, Times(-1, Apply(turn, last.offset[1]))) = Target
=============================================================================
