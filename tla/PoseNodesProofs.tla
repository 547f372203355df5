---------------------------- MODULE PoseNodesProofs ----------------------------
(***************************************************************************)
(* Proofs about PoseNodes, for any attitudes of the robot, any offsets and *)
(* any target, and for any number of ticks.                                *)
(***************************************************************************)
EXTENDS PoseNodes, TLAPS

X == Vec(1, 0, 0)
Y == Vec(0, 1, 0)
Z == Vec(0, 0, 1)

Neg(v) == Times(-1, v)

\* The directions of the axes.
Axes == {X, Y, Z, Neg(X), Neg(Y), Neg(Z)}

\* The right-handed frames along the axes.
Frames ==
    {m \in [x : Axes, y : Axes, z : Axes] : Dot(m.x, m.y) = 0 /\ Cross(m.x, m.y) = m.z}

-----------------------------------------------------------------------------
LEMMA NegAxes ==
    /\ Neg(X) = Vec(-1, 0, 0) /\ Neg(Y) = Vec(0, -1, 0) /\ Neg(Z) = Vec(0, 0, -1)
    /\ \A a \in Axes : a \in Vectors /\ Neg(a) \in Axes /\ Neg(Neg(a)) = a
<1>1. /\ Neg(X) = Vec(-1, 0, 0) /\ Neg(Y) = Vec(0, -1, 0) /\ Neg(Z) = Vec(0, 0, -1)
      /\ Neg(Neg(X)) = X /\ Neg(Neg(Y)) = Y /\ Neg(Neg(Z)) = Z
  BY DEF Neg, Times, X, Y, Z, Vec
<1>2. \A a \in Axes : a \in Vectors
  BY <1>1 DEF Axes, Vectors, X, Y, Z, Vec
<1> QED  BY <1>1, <1>2 DEF Axes

\* Two directions are orthogonal or along the same line.
LEMMA DotAxes ==
    ASSUME NEW a \in Axes, NEW b \in Axes
    PROVE  /\ Dot(a, b) \in {-1, 0, 1}
           /\ Dot(a, a) = 1
           /\ Dot(a, b) # 0 <=> b \in {a, Neg(a)}
  BY NegAxes DEF Axes, Dot, X, Y, Z, Vec

LEMMA CrossAxes ==
    ASSUME NEW a \in Axes, NEW b \in Axes, Dot(a, b) = 0
    PROVE  /\ Cross(a, b) \in Axes
           /\ Dot(b, Cross(a, b)) = 0 /\ Dot(Cross(a, b), a) = 0
           /\ Cross(b, Cross(a, b)) = a /\ Cross(Cross(a, b), a) = b
  BY NegAxes DEF Axes, Dot, Cross, X, Y, Z, Vec
\* What the columns of a frame have in common.
LEMMA FrameFacts ==
    ASSUME NEW m \in Frames
    PROVE  /\ m.x \in Axes /\ m.y \in Axes /\ m.z \in Axes
           /\ Dot(m.x, m.y) = 0 /\ Dot(m.y, m.z) = 0 /\ Dot(m.z, m.x) = 0
           /\ Cross(m.x, m.y) = m.z /\ Cross(m.y, m.z) = m.x /\ Cross(m.z, m.x) = m.y
<1>1. /\ m.x \in Axes /\ m.y \in Axes /\ m.z \in Axes
      /\ Dot(m.x, m.y) = 0 /\ Cross(m.x, m.y) = m.z
  BY DEF Frames
<1> QED  BY <1>1, CrossAxes

\* A frame in a list of columns.
LEMMA FrameOf ==
    ASSUME NEW a \in Axes, NEW b \in Axes, Dot(a, b) = 0, NEW c, c = Cross(a, b)
    PROVE  [x |-> a, y |-> b, z |-> c] \in Frames
  BY CrossAxes DEF Frames

LEMMA FramesAreProper ==
    ASSUME NEW m \in Frames
    PROVE  Proper(m)
  BY FrameFacts, DotAxes DEF Proper

\* A matrix takes the directions to its columns, along or against them.
LEMMA ApplyAxes ==
    ASSUME NEW m \in Frames
    PROVE  /\ Apply(m, X) = m.x /\ Apply(m, Y) = m.y /\ Apply(m, Z) = m.z
           /\ Apply(m, Neg(X)) = Neg(m.x) /\ Apply(m, Neg(Y)) = Neg(m.y)
           /\ Apply(m, Neg(Z)) = Neg(m.z)
<1>1. m.x \in Vectors /\ m.y \in Vectors /\ m.z \in Vectors
  BY FrameFacts, NegAxes
<1>2. /\ \A v \in Vectors :
           /\ v = Vec(v[1], v[2], v[3]) /\ v[1] \in Int /\ v[2] \in Int /\ v[3] \in Int
           /\ Times(0, v) = Zero /\ Times(1, v) = v
           /\ Plus(v, Zero) = v /\ Plus(Zero, v) = v
           /\ Times(-1, v) \in Vectors
      /\ Zero \in Vectors
  BY DEF Vectors, Vec, Times, Plus, Zero
<1>3. /\ X[1] = 1 /\ X[2] = 0 /\ X[3] = 0 /\ Y[1] = 0 /\ Y[2] = 1 /\ Y[3] = 0
      /\ Z[1] = 0 /\ Z[2] = 0 /\ Z[3] = 1
      /\ Neg(X)[1] = -1 /\ Neg(X)[2] = 0 /\ Neg(X)[3] = 0
      /\ Neg(Y)[1] = 0 /\ Neg(Y)[2] = -1 /\ Neg(Y)[3] = 0
      /\ Neg(Z)[1] = 0 /\ Neg(Z)[2] = 0 /\ Neg(Z)[3] = -1
  BY NegAxes DEF X, Y, Z, Vec
<1> QED  BY <1>1, <1>2, <1>3 DEF Apply, Neg

\* Changing the sense of a direction changes the sense of the cross product.
LEMMA NegCross ==
    ASSUME NEW a \in Axes, NEW b \in Axes
    PROVE  /\ Cross(Neg(a), b) = Neg(Cross(a, b)) /\ Cross(a, Neg(b)) = Neg(Cross(a, b))
           /\ Dot(Neg(a), b) = -Dot(a, b) /\ Dot(a, Neg(b)) = -Dot(a, b)
           /\ Cross(b, a) = Neg(Cross(a, b)) /\ Dot(b, a) = Dot(a, b)
           /\ Cross(a, a) = Zero
  BY NegAxes DEF Axes, X, Y, Z, Vec, Cross, Dot, Neg, Times, Zero
\* A frame keeps angles and the sense of rotation.
LEMMA ApplyKeeps ==
    ASSUME NEW m \in Frames, NEW u \in Axes
    PROVE  /\ Apply(m, u) \in Axes
           /\ \A v \in Axes : Dot(u, v) = 0 =>
                /\ Dot(Apply(m, u), Apply(m, v)) = 0
                /\ Cross(Apply(m, u), Apply(m, v)) = Apply(m, Cross(u, v))
<1>1. /\ m.x \in Axes /\ m.y \in Axes /\ m.z \in Axes
      /\ Dot(m.x, m.y) = 0 /\ Dot(m.y, m.z) = 0 /\ Dot(m.z, m.x) = 0
      /\ Dot(m.y, m.x) = 0 /\ Dot(m.z, m.y) = 0 /\ Dot(m.x, m.z) = 0
      /\ Cross(m.x, m.y) = m.z /\ Cross(m.y, m.z) = m.x /\ Cross(m.z, m.x) = m.y
      /\ Cross(m.y, m.x) = Neg(m.z) /\ Cross(m.z, m.y) = Neg(m.x) /\ Cross(m.x, m.z) = Neg(m.y)
  BY FrameFacts, NegCross
<1>2. /\ Apply(m, X) = m.x /\ Apply(m, Y) = m.y /\ Apply(m, Z) = m.z
      /\ Apply(m, Neg(X)) = Neg(m.x) /\ Apply(m, Neg(Y)) = Neg(m.y)
      /\ Apply(m, Neg(Z)) = Neg(m.z)
  BY ApplyAxes
<1>3. Apply(m, u) \in Axes
  BY <1>1, <1>2, NegAxes DEF Axes
<1>4. /\ Cross(X, Y) = Z /\ Cross(Y, Z) = X /\ Cross(Z, X) = Y
      /\ Cross(Y, X) = Neg(Z) /\ Cross(Z, Y) = Neg(X) /\ Cross(X, Z) = Neg(Y)
      /\ Dot(X, X) = 1 /\ Dot(Y, Y) = 1 /\ Dot(Z, Z) = 1
      /\ X \in Axes /\ Y \in Axes /\ Z \in Axes
  BY DEF Cross, Dot, X, Y, Z, Vec, Neg, Times, Axes
<1>5. \A a \in {X, Y, Z}, b \in {X, Y, Z} : Dot(a, b) = 0 =>
        /\ Dot(Apply(m, a), Apply(m, b)) = 0
        /\ Cross(Apply(m, a), Apply(m, b)) = Apply(m, Cross(a, b))
  BY <1>1, <1>2, <1>4
<1>6. \A a \in Axes : Apply(m, Neg(a)) = Neg(Apply(m, a))
  BY <1>1, <1>2, NegAxes DEF Axes
<1>7. \A a \in {X, Y, Z} : a \in Axes /\ Apply(m, a) \in Axes
  BY <1>1, <1>2, <1>4
<1>8. \A w \in Axes : \E a \in {X, Y, Z} : w = a \/ w = Neg(a)
  BY DEF Axes
<1>9. ASSUME NEW v \in Axes, Dot(u, v) = 0
      PROVE  /\ Dot(Apply(m, u), Apply(m, v)) = 0
             /\ Cross(Apply(m, u), Apply(m, v)) = Apply(m, Cross(u, v))
  <2>1. PICK a \in {X, Y, Z} : u = a \/ u = Neg(a)
    BY <1>8
  <2>2. PICK b \in {X, Y, Z} : v = b \/ v = Neg(b)
    BY <1>8
  <2>3. a \in Axes /\ b \in Axes /\ Dot(a, b) \in Int
    BY <1>7, DotAxes
  <2>4. Dot(a, b) = 0
    BY <1>9, <2>1, <2>2, <2>3, NegCross, NegAxes
  <2>5. /\ Dot(Apply(m, a), Apply(m, b)) = 0
        /\ Cross(Apply(m, a), Apply(m, b)) = Apply(m, Cross(a, b))
        /\ Apply(m, a) \in Axes /\ Apply(m, b) \in Axes
        /\ Cross(a, b) \in Axes /\ Cross(Apply(m, a), Apply(m, b)) \in Axes
    BY <1>5, <1>7, <2>3, <2>4, CrossAxes
  <2>6. CASE u = a
    BY <1>6, <2>2, <2>3, <2>5, <2>6, NegCross, NegAxes
  <2>7. CASE u = Neg(a)
    BY <1>6, <2>2, <2>3, <2>5, <2>7, NegCross, NegAxes
  <2> QED  BY <2>1, <2>6, <2>7
<1> QED  BY <1>3, <1>9

\* The product of two frames is one.
LEMMA ComposeFrames ==
    ASSUME NEW m \in Frames, NEW n \in Frames
    PROVE  Compose(m, n) \in Frames
<1>1. /\ n.x \in Axes /\ n.y \in Axes /\ n.z \in Axes
      /\ Dot(n.x, n.y) = 0 /\ Cross(n.x, n.y) = n.z
  BY FrameFacts
<1>2. /\ Apply(m, n.x) \in Axes /\ Apply(m, n.y) \in Axes
      /\ Dot(Apply(m, n.x), Apply(m, n.y)) = 0
      /\ Cross(Apply(m, n.x), Apply(m, n.y)) = Apply(m, n.z)
  BY <1>1, ApplyKeeps
<1> QED  BY <1>2, FrameOf DEF Compose

\* A frame is undone: what it takes the directions to determines what came before.
LEMMA ComposeCancels ==
    ASSUME NEW m \in Frames, NEW l \in Frames, NEW n \in Frames,
           Compose(m, n) = Compose(l, n)
    PROVE  m = l
<1>1. \A w \in {n.x, n.y, n.z} : Apply(m, w) = Apply(l, w)
  BY DEF Compose
<1>2. \A e \in {X, Y, Z} : e \in {n.x, n.y, n.z} \/ Neg(e) \in {n.x, n.y, n.z}
  <2>1. n.x \in Axes /\ n.y \in Axes /\ Dot(n.x, n.y) = 0 /\ Cross(n.x, n.y) = n.z
    BY FrameFacts
  <2>2. ASSUME NEW a \in Axes, NEW b \in Axes, Dot(a, b) = 0
        PROVE  \A e \in {X, Y, Z} :
                 e \in {a, b, Cross(a, b)} \/ Neg(e) \in {a, b, Cross(a, b)}
    BY <2>2, NegAxes DEF Axes, Dot, Cross, X, Y, Z, Vec
  <2> QED  BY <2>1, <2>2
<1>3. \A e \in {X, Y, Z} : Apply(m, e) = Apply(l, e) \/ Apply(m, Neg(e)) = Apply(l, Neg(e))
  BY <1>1, <1>2
<1>4. m.x = l.x /\ m.y = l.y /\ m.z = l.z
  <2>1. \A a, b \in Axes : Neg(a) = Neg(b) => a = b
    BY NegAxes
  <2> QED  BY <1>3, <2>1, ApplyAxes, FrameFacts
<1> QED  BY <1>4 DEF Frames

-----------------------------------------------------------------------------
\* A number of quarter turns counts modulo four.
LEMMA QuarterTurns ==
    ASSUME NEW n \in Int
    PROVE  /\ n % 4 \in 0..3
           /\ Cosine(n) = Cosine(n % 4) /\ Sine(n) = Sine(n % 4)
           /\ \/ Cosine(n) = 1 /\ Sine(n) = 0
              \/ Cosine(n) = 0 /\ Sine(n) = 1
              \/ Cosine(n) = -1 /\ Sine(n) = 0
              \/ Cosine(n) = 0 /\ Sine(n) = -1
<1>1. ASSUME NEW k \in Int
      PROVE  \/ k % 4 = 0 /\ Cosine(k) = 1 /\ Sine(k) = 0
             \/ k % 4 = 1 /\ Cosine(k) = 0 /\ Sine(k) = 1
             \/ k % 4 = 2 /\ Cosine(k) = -1 /\ Sine(k) = 0
             \/ k % 4 = 3 /\ Cosine(k) = 0 /\ Sine(k) = -1
  <2>1. /\ k % 4 = 0 => (k - 1) % 4 = 3
        /\ k % 4 # 0 => (k - 1) % 4 = (k % 4) - 1
        /\ k % 4 \in {0, 1, 2, 3}
    OBVIOUS
  <2>2. \A l \in Int : /\ l % 4 = 0 => Cosine(l) = 1
                       /\ l % 4 = 2 => Cosine(l) = -1
                       /\ l % 4 = 1 \/ l % 4 = 3 => Cosine(l) = 0
    BY DEF Cosine
  <2>3. Sine(k) = Cosine(k - 1) /\ k - 1 \in Int
    BY DEF Sine
  <2> QED  BY <2>1, <2>2, <2>3
<1>2. n % 4 \in 0..3 /\ (n % 4) % 4 = n % 4 /\ n % 4 \in Int
  OBVIOUS
<1> QED  BY <1>1, <1>2

LEMMA TurnFrames ==
    ASSUME NEW n \in Int
    PROVE  \A m \in {AboutX(n), AboutY(n), AboutZ(n)} :
             /\ m \in Frames
             /\ Cosine(n) = 1 /\ Sine(n) = 0 => m.x = X /\ m.y = Y /\ m.z = Z
<1>1. /\ X \in Axes /\ Y \in Axes /\ Z \in Axes
      /\ Vec(-1, 0, 0) \in Axes /\ Vec(0, -1, 0) \in Axes /\ Vec(0, 0, -1) \in Axes
      /\ Identity.x = X /\ Identity.y = Y /\ Identity.z = Z
  BY NegAxes DEF Axes, Identity, X, Y, Z
<1> DEFINE c == Cosine(n)
           s == Sine(n)
<1>2. \/ c = 1 /\ s = 0
      \/ c = 0 /\ s = 1
      \/ c = -1 /\ s = 0
      \/ c = 0 /\ s = -1
  BY QuarterTurns
<1>3. /\ Vec(0, c, s) \in Axes /\ Vec(0, -s, c) \in Axes
      /\ Vec(c, 0, -s) \in Axes /\ Vec(s, 0, c) \in Axes
      /\ Vec(c, s, 0) \in Axes /\ Vec(-s, c, 0) \in Axes
  BY <1>1, <1>2 DEF X, Y, Z
<1>4. /\ Dot(X, Vec(0, c, s)) = 0 /\ Cross(X, Vec(0, c, s)) = Vec(0, -s, c)
      /\ Dot(Vec(c, 0, -s), Y) = 0 /\ Cross(Vec(c, 0, -s), Y) = Vec(s, 0, c)
      /\ Dot(Vec(c, s, 0), Vec(-s, c, 0)) = 0 /\ Cross(Vec(c, s, 0), Vec(-s, c, 0)) = Z
  BY <1>2 DEF Dot, Cross, X, Y, Z, Vec
<1>5. /\ AboutX(n).x = X /\ AboutX(n).y = Vec(0, c, s) /\ AboutX(n).z = Vec(0, -s, c)
      /\ AboutX(n) \in [x : Axes, y : Axes, z : Axes]
  <2>1. AboutX(n) = [Identity EXCEPT !.y = Vec(0, c, s), !.z = Vec(0, -s, c)]
    BY DEF AboutX
  <2> HIDE DEF c, s
  <2> QED  BY <1>1, <1>3, <2>1 DEF Identity
<1>6. /\ AboutY(n).x = Vec(c, 0, -s) /\ AboutY(n).y = Y /\ AboutY(n).z = Vec(s, 0, c)
      /\ AboutY(n) \in [x : Axes, y : Axes, z : Axes]
  <2>1. AboutY(n) = [Identity EXCEPT !.z = Vec(s, 0, c), !.x = Vec(c, 0, -s)]
    BY DEF AboutY
  <2> HIDE DEF c, s
  <2> QED  BY <1>1, <1>3, <2>1 DEF Identity
<1>7. /\ AboutZ(n).x = Vec(c, s, 0) /\ AboutZ(n).y = Vec(-s, c, 0) /\ AboutZ(n).z = Z
      /\ AboutZ(n) \in [x : Axes, y : Axes, z : Axes]
  <2>1. AboutZ(n) = [Identity EXCEPT !.x = Vec(c, s, 0), !.y = Vec(-s, c, 0)]
    BY DEF AboutZ
  <2> HIDE DEF c, s
  <2> QED  BY <1>1, <1>3, <2>1 DEF Identity
<1> HIDE DEF c, s
<1>8. AboutX(n) \in Frames /\ AboutY(n) \in Frames /\ AboutZ(n) \in Frames
  BY <1>4, <1>5, <1>6, <1>7 DEF Frames
<1>9. ASSUME c = 1, s = 0
      PROVE  /\ Vec(0, c, s) = Y /\ Vec(0, -s, c) = Z /\ Vec(c, 0, -s) = X
             /\ Vec(s, 0, c) = Z /\ Vec(c, s, 0) = X /\ Vec(-s, c, 0) = Y
  BY <1>9 DEF X, Y, Z
<1> QED  BY <1>5, <1>6, <1>7, <1>8, <1>9 DEF c, s

\* Every orientation built from angles is a frame, and is built from less than a turn.
LEMMA RpyFrames ==
    ASSUME NEW rpy \in Vectors
    PROVE  QuatFromRpy(rpy) \in Frames /\ QuatFromRpy(rpy) \in Rotations
<1>1. rpy[1] \in Int /\ rpy[2] \in Int /\ rpy[3] \in Int
  BY DEF Vectors
<1>2. QuatFromRpy(rpy) \in Frames
  BY <1>1, TurnFrames, ComposeFrames DEF QuatFromRpy
<1> DEFINE angles == <<rpy[1] % 4, rpy[2] % 4, rpy[3] % 4>>
<1>3. rpy[1] % 4 \in 0..3 /\ rpy[2] % 4 \in 0..3 /\ rpy[3] % 4 \in 0..3
  BY <1>1, QuarterTurns
<1>4. /\ AboutX(rpy[1]) = AboutX(rpy[1] % 4) /\ AboutY(rpy[2]) = AboutY(rpy[2] % 4)
      /\ AboutZ(rpy[3]) = AboutZ(rpy[3] % 4)
  BY <1>1, QuarterTurns DEF AboutX, AboutY, AboutZ
<1>5. QuatFromRpy(rpy) = QuatFromRpy(angles)
  BY <1>4 DEF QuatFromRpy
<1>6. QuatFromRpy(angles) \in Rotations
  <2> DEFINE S == 0..3
  <2>1. rpy[1] % 4 \in S /\ rpy[2] % 4 \in S /\ rpy[3] % 4 \in S
    BY <1>3
  <2> HIDE DEF S
  <2>2. QuatFromRpy(angles) \in {QuatFromRpy(<<r, p, y>>) : r, p, y \in S}
    BY <2>1
  <2> QED  BY <2>2 DEF Rotations, S
<1> QED  BY <1>2, <1>5, <1>6

LEMMA NullIsNoFrame == Null \notin Frames
<1>1. Axes \subseteq Vectors
  BY NegAxes
<1> QED  BY <1>1, PoseAssumption DEF Frames

LEMMA RotationsAreFrames ==
    /\ Rotations \subseteq Frames
    /\ Identity \in Rotations
    /\ \A m \in Rotations : Matrix(m) = m
<1>1. \A r, p, y \in 0..3 : <<r, p, y>> \in Vectors
  BY DEF Vectors
<1>2. Rotations \subseteq Frames
  BY <1>1, RpyFrames DEF Rotations
<1>3. Identity \in Rotations
  <2>1. 0 % 4 = 0
    OBVIOUS
  <2>2. Cosine(0) = 1 /\ Sine(0) = 0
    BY <2>1, QuarterTurns DEF Cosine
  <2>3. Vec(1, 0, 0) = X /\ Vec(0, 1, 0) = Y /\ Vec(0, 0, 1) = Z
    BY DEF X, Y, Z
  <2>4. \A m \in {AboutX(0), AboutY(0), AboutZ(0)} : m.x = X /\ m.y = Y /\ m.z = Z
    BY <2>2, TurnFrames
  <2>5. /\ Identity.x = X /\ Identity.y = Y /\ Identity.z = Z
        /\ Identity \in [x : Axes, y : Axes, z : Axes]
    BY <2>3 DEF Identity, Axes
  <2>6. \A m, l \in [x : Axes, y : Axes, z : Axes] :
          m.x = l.x /\ m.y = l.y /\ m.z = l.z => m = l
    OBVIOUS
  <2>7. AboutX(0) = Identity /\ AboutY(0) = Identity /\ AboutZ(0) = Identity
    BY <2>4, <2>5, <2>6, TurnFrames DEF Frames
  <2>8. Compose(Identity, Identity) = Identity
    <3>1. Identity \in Frames
      BY <2>7, TurnFrames
    <3>2. Compose(Identity, Identity) = [x |-> X, y |-> Y, z |-> Z]
      BY <2>5, <3>1, ApplyAxes DEF Compose
    <3> QED  BY <2>3, <3>2 DEF Identity
  <2>9. QuatFromRpy(<<0, 0, 0>>) = Identity
    BY <2>7, <2>8 DEF QuatFromRpy
  <2>10. <<0, 0, 0>> \in Vectors
    BY DEF Vectors
  <2> QED  BY <2>9, <2>10, RpyFrames
<1>4. \A m \in Rotations : Matrix(m) = m
  BY <1>2, NullIsNoFrame DEF Matrix
<1> QED  BY <1>2, <1>3, <1>4
-----------------------------------------------------------------------------
LEMMA VectorTypes ==
    ASSUME NEW u \in Vectors, NEW v \in Vectors, NEW k \in Int, NEW m \in Frames
    PROVE  /\ Plus(u, v) \in Vectors /\ Times(k, v) \in Vectors /\ Apply(m, v) \in Vectors
           /\ Plus(Plus(u, v), Times(-1, v)) = u
           /\ Plus(u, Times(-1, Plus(u, Times(-k, v)))) = Times(k, v)
           /\ Apply(m, Vec(0, 0, k)) = Times(k, m.z)
<1>1. \A a, b \in Vectors : Plus(a, b) \in Vectors
  BY DEF Vectors, Plus, Vec
<1>2. \A l \in Int, a \in Vectors : Times(l, a) \in Vectors
  BY DEF Vectors, Times, Vec
<1>3. m.x \in Vectors /\ m.y \in Vectors /\ m.z \in Vectors
  BY FrameFacts, NegAxes
<1>4. v[1] \in Int /\ v[2] \in Int /\ v[3] \in Int
  BY DEF Vectors
<1>5. Apply(m, v) \in Vectors
  BY <1>1, <1>2, <1>3, <1>4 DEF Apply
<1>6. Plus(Plus(u, v), Times(-1, v)) = u
  BY DEF Vectors, Plus, Times, Vec
<1>7. Plus(u, Times(-1, Plus(u, Times(-k, v)))) = Times(k, v)
  BY DEF Vectors, Plus, Times, Vec
<1>8. Apply(m, Vec(0, 0, k)) = Times(k, m.z)
  <2>1. \A a \in Vectors : Times(0, a) = Zero /\ Plus(Zero, a) = a
    BY DEF Vectors, Plus, Times, Vec, Zero
  <2>2. Vec(0, 0, k)[1] = 0 /\ Vec(0, 0, k)[2] = 0 /\ Vec(0, 0, k)[3] = k
    BY DEF Vec
  <2> QED  BY <1>2, <1>3, <2>1, <2>2 DEF Apply
<1> QED  BY <1>1, <1>2, <1>5, <1>6, <1>7, <1>8

\* The projection of a direction on a plane across a direction.
LEMMA ProjectAxes ==
    ASSUME NEW v \in Axes, NEW z \in Axes
    PROVE  Project(v, z) = IF Dot(v, z) = 0 THEN v ELSE Zero
  BY NegAxes DEF Axes, Dot, Project, Plus, Times, Zero, X, Y, Z, Vec

\* Tool X is a direction across tool Z, as close to the reference as one can be.
LEMMA ToolXTurnsLeast ==
    ASSUME NEW ref \in Axes, NEW z \in Axes, ToolX(ref, z) # Zero
    PROVE  /\ ToolX(ref, z) \in Axes
           /\ Dot(z, ToolX(ref, z)) = 0
           /\ \A a \in Axes : Dot(z, a) = 0 => Dot(a, ref) <= Dot(ToolX(ref, z), ref)
<1>1. Zero \notin Axes /\ Y \in Axes
  BY NegAxes DEF Axes, Zero, X, Y, Z, Vec
<1>2. Identity.y = Y
  BY DEF Identity, Y
<1>3. CASE Dot(ref, z) = 0
  <2>1. ToolX(ref, z) = ref
    BY <1>1, <1>3, ProjectAxes DEF ToolX
  <2>2. Dot(z, ref) = 0
    BY <1>3, NegCross
  <2>3. \A a \in Axes : Dot(a, ref) <= Dot(ref, ref)
    BY DotAxes
  <2> QED  BY <2>1, <2>2, <2>3
<1>4. CASE Dot(ref, z) # 0
  <2>1. ToolX(ref, z) = Project(Y, z) /\ Dot(Y, z) = 0 /\ ToolX(ref, z) = Y
    BY <1>1, <1>2, <1>4, ProjectAxes DEF ToolX
  <2>2. z = ref \/ z = Neg(ref)
    BY <1>4, DotAxes
  <2>3. \A a \in Axes : Dot(z, a) = 0 => Dot(a, ref) = 0
    BY <2>2, DotAxes, NegCross
  <2>4. Dot(z, Y) = 0
    BY <1>1, <2>1, NegCross
  <2> QED  BY <1>1, <2>1, <2>3, <2>4
<1> QED  BY <1>3, <1>4

\* Both projections vanish only along world Y.
LEMMA ToolXVanishes ==
    ASSUME NEW ref \in Axes, NEW z \in Axes, ToolX(ref, z) = Zero
    PROVE  z \in {Y, Neg(Y)} /\ ref \in {Y, Neg(Y)}
<1>1. Zero \notin Axes /\ Y \in Axes /\ Identity.y = Y
  BY NegAxes DEF Axes, Zero, X, Y, Z, Vec, Identity
<1>2. Dot(ref, z) # 0 /\ Dot(Y, z) # 0
  BY <1>1, ProjectAxes DEF ToolX
<1> QED  BY <1>1, <1>2, DotAxes, NegAxes
-----------------------------------------------------------------------------
Stored == [at : Vectors, q : Frames \cup {Null}]

\* Any entry may come without an orientation.
BoardHolds == board \in [Keys -> {Unset} \cup Stored]

PInv ==
    /\ BoardHolds
    /\ WritesRotation
    /\ CupTouchesSurface
    /\ WristTurnsLeast
    /\ SuctionFailsSideways
    /\ TargetRecovered

LEMMA BoardFacts ==
    ASSUME BoardHolds
    PROVE  \A k \in Keys : board[k] # Unset =>
             /\ board[k].at \in Vectors /\ board[k].q \in Frames \cup {Null}
             /\ Matrix(board[k].q) \in Frames
<1>1. Identity \in Frames
  BY RotationsAreFrames
<1> QED  BY <1>1 DEF BoardHolds, Stored, Matrix

\* Whatever the robot says of itself is an attitude.
LEMMA ReadingFacts ==
    ASSUME NEW robot \in Attitudes \cup {Unread}
    PROVE  /\ Reading(robot) \in Rotations /\ Reading(robot) \in Frames
           /\ robot # Unset
           /\ Reading(robot) = IF robot \in Attitudes THEN robot ELSE Identity
  BY RotationsAreFrames, PoseAssumption DEF Reading

LEMMA ReferenceFacts ==
    ASSUME BoardHolds, NEW robot \in Attitudes \cup {Unread, Unset},
           NEW entry, entry = board["reference"]
    PROVE  /\ ReferenceX(robot, entry) \in Axes
           /\ ReferenceX(robot, entry) =
                IF robot \in Attitudes THEN robot.x
                ELSE IF robot = Unset /\ entry # Unset /\ entry.q # Null THEN entry.q.x
                ELSE Identity.x
<1>1. Identity \in Frames /\ "reference" \in Keys
  BY RotationsAreFrames DEF Keys
<1>2. entry # Unset /\ entry.q # Null => entry.q \in Frames
  BY <1>1, BoardFacts
<1>3. CASE robot = Unset
  <2>1. robot \notin Attitudes
    BY <1>3, PoseAssumption
  <2> QED  BY <1>1, <1>2, <1>3, <2>1, FrameFacts DEF ReferenceX
<1>4. CASE robot # Unset
  <2>1. robot \in Attitudes \cup {Unread}
    BY <1>4
  <2>2. ReferenceX(robot, entry) = Reading(robot).x
    BY <1>4 DEF ReferenceX
  <2> QED  BY <1>1, <1>4, <2>1, <2>2, ReadingFacts, FrameFacts
<1> QED  BY <1>3, <1>4

LEMMA PoseFields ==
    ASSUME NEW at, NEW q
    PROVE  /\ Pose(at, q).at = at /\ Pose(at, q).q = q
           /\ at \in Vectors /\ q \in Frames \cup {Null} => Pose(at, q) \in Stored
  BY DEF Pose, Stored

\* A node that sets its output key leaves the others.
LEMMA DoneHolds ==
    ASSUME BoardHolds, NEW what, NEW key \in Keys, NEW pose \in Stored,
           Done(what, key, pose)
    PROVE  /\ BoardHolds' /\ last' = what /\ board'[key] = pose
           /\ \A k \in Keys \ {key} : board'[k] = board[k]
<1>1. board' = [board EXCEPT ![key] = pose] /\ last' = what
  BY DEF Done
<1>2. \A k \in Keys : board'[k] = IF k = key THEN pose ELSE board[k]
  BY <1>1 DEF BoardHolds
<1>3. BoardHolds'
  BY <1>1, <1>2 DEF BoardHolds
<1> QED  BY <1>1, <1>2, <1>3

\* After any other node the claims about the last one are void.
LEMMA OtherNode ==
    ASSUME last'.node \notin {"ComputeSuctionPickPose", "ComputeTCPTarget"}
    PROVE  CupTouchesSurface' /\ WristTurnsLeast' /\ SuctionFailsSideways' /\ TargetRecovered'
  BY DEF CupTouchesSurface, WristTurnsLeast, SuctionFailsSideways, TargetRecovered, Suction

LEMMA FailedHolds ==
    ASSUME BoardHolds, NEW what, Failed(what)
    PROVE  BoardHolds' /\ last' = what /\ board' = board
  BY DEF Failed, BoardHolds

\* A node whose ports do not read claims nothing.
LEMMA RefusedHolds ==
    ASSUME BoardHolds, NEW node, Refused(node)
    PROVE  PInv'
<1> DEFINE what == [node |-> node, done |-> FALSE, ports |-> FALSE]
<1>1. what.done = FALSE /\ what.ports = FALSE
  OBVIOUS
<1>2. Failed(what)
  BY DEF Refused
<1> HIDE DEF what
<1>3. BoardHolds' /\ last' = what
  BY <1>2, FailedHolds
<1> QED
  BY <1>1, <1>3 DEF PInv, WritesRotation, CupTouchesSurface, WristTurnsLeast,
                    SuctionFailsSideways, TargetRecovered

\* The offset is taken back by the one frame that it was added to.
LEMMA TargetHolds ==
    ASSUME BoardHolds, ComputeTCPTarget
    PROVE  PInv'
<1>1. CASE Refused("ComputeTCPTarget")
  BY <1>1, RefusedHolds
<1>2. ASSUME NEW base \in {Reading(robot) : robot \in Attitudes \cup {Unread}}
                          \cup {QuatFromRpy(rpy) : rpy \in FixedRpy},
             NEW offset \in Offsets,
             Done([node |-> "ComputeTCPTarget", done |-> TRUE, base |-> base,
                   offset |-> offset],
                  "pick", ApplyTCPOffset(Pose(Target, base), offset[1], offset[2]))
      PROVE  PInv'
  <2> DEFINE n == QuatFromRpy(offset[2])
             what == [node |-> "ComputeTCPTarget", done |-> TRUE, base |-> base,
                      offset |-> offset]
             at == Plus(Target, Apply(base, offset[1]))
             q == Compose(base, n)
  <2>1. base \in Rotations /\ base \in Frames /\ Matrix(base) = base
    BY ReadingFacts, RpyFrames, RotationsAreFrames, PoseAssumption
  <2>2. offset[1] \in Vectors /\ offset[2] \in Vectors /\ Target \in Vectors
    BY PoseAssumption
  <2>3. n \in Frames
    BY <2>2, RpyFrames
  <2>4. at \in Vectors /\ Apply(base, offset[1]) \in Vectors
    BY <2>1, <2>2, VectorTypes
  <2>5. q \in Frames
    BY <2>1, <2>3, ComposeFrames
  <2>6. ApplyTCPOffset(Pose(Target, base), offset[1], offset[2]) = Pose(at, q)
    BY <2>1 DEF ApplyTCPOffset, Pose
  <2>7. what.node = "ComputeTCPTarget" /\ what.done /\ what.base = base
        /\ what.offset = offset
    OBVIOUS
  <2> HIDE DEF at, q
  <2>8. /\ BoardHolds' /\ last' = what
        /\ board'["pick"].at = at /\ board'["pick"].q = q
    <3>1. Done(what, "pick", ApplyTCPOffset(Pose(Target, base), offset[1], offset[2]))
      BY <1>2
    <3> HIDE DEF what
    <3>2. Done(what, "pick", Pose(at, q)) /\ "pick" \in Keys
      BY <2>6, <3>1 DEF Keys
    <3> DEFINE pose == Pose(at, q)
    <3>3. pose \in Stored /\ pose.at = at /\ pose.q = q
      BY <2>4, <2>5, PoseFields
    <3>4. Done(what, "pick", pose)
      BY <3>2
    <3> HIDE DEF pose
    <3>5. BoardHolds' /\ last' = what /\ board'["pick"] = pose
      BY <2>5, <3>2, <3>3, <3>4, DoneHolds
    <3> QED  BY <3>3, <3>5
  <2> HIDE DEF what
  <2>9. TargetRecovered'
    <3> DEFINE turn == CHOOSE m \in Rotations : Compose(m, n) = q
    <3>1. turn \in Rotations /\ Compose(turn, n) = q
      BY <2>1 DEF q
    <3>2. turn = base
      <4> HIDE DEF turn, n
      <4> QED  BY <2>1, <2>3, <3>1, RotationsAreFrames, ComposeCancels DEF q
    <3>3. Plus(at, Times(-1, Apply(base, offset[1]))) = Target
      BY <2>1, <2>2, <2>4, VectorTypes DEF at
    <3>4. TargetRecovered' <=>
            /\ turn = base
            /\ Plus(at, Times(-1, Apply(turn, offset[1]))) = Target
      BY <2>7, <2>8 DEF TargetRecovered
    <3> HIDE DEF turn
    <3> QED  BY <3>2, <3>3, <3>4
  <2>10. WritesRotation'
    BY <2>5, <2>7, <2>8, NullIsNoFrame DEF WritesRotation
  <2> QED
    BY <2>7, <2>8, <2>9, <2>10 DEF PInv, CupTouchesSurface, WristTurnsLeast,
                                   SuctionFailsSideways, Suction
<1> QED  BY <1>1, <1>2 DEF ComputeTCPTarget

\* The suction pose: tool Z along the normal, tool X across it.
LEMMA SuctionHolds ==
    ASSUME BoardHolds, ComputeSuctionPickPose
    PROVE  PInv'
<1>12. CASE Refused("ComputeSuctionPickPose")
  BY <1>12, RefusedHolds
<1> SUFFICES ASSUME ~Refused("ComputeSuctionPickPose") PROVE PInv'
  BY <1>12
<1>1. PICK robot \in Attitudes \cup {Unread, Unset}, offset \in Distances, flip \in BOOLEAN :
        LET det == board["detected"]
            ref == ReferenceX(robot, board["reference"])
            what == [node |-> "ComputeSuctionPickPose", robot |-> robot, offset |-> offset,
                     flip |-> flip, done |-> Buildable(det, flip, ref), ports |-> TRUE]
        IN  IF Buildable(det, flip, ref)
            THEN Done(what, "pick", SuctionPose(det, offset, flip, ref))
            ELSE Failed(what)
  BY DEF ComputeSuctionPickPose
<1> DEFINE det == board["detected"]
           entry == board["reference"]
           ref == ReferenceX(robot, entry)
           z == ToolZ(det.q, flip)
           x == ToolX(ref, z)
           what == [node |-> "ComputeSuctionPickPose", robot |-> robot, offset |-> offset,
                    flip |-> flip, done |-> Buildable(det, flip, ref), ports |-> TRUE]
           wanted == IF robot \in Attitudes THEN robot.x
                     ELSE IF entry # Unset /\ entry.q # Null THEN entry.q.x
                     ELSE Identity.x
<1>2. /\ what.node = "ComputeSuctionPickPose" /\ what.robot = robot
      /\ what.offset = offset /\ what.flip = flip /\ what.done = Buildable(det, flip, ref)
  OBVIOUS
<1>3. IF Buildable(det, flip, ref) THEN Done(what, "pick", SuctionPose(det, offset, flip, ref))
      ELSE Failed(what)
  BY <1>1
<1>4. ref \in Axes /\ (robot # Unread => ref = wanted)
  BY ReferenceFacts
<1>5. det # Unset /\ det.q # Null => det.q \in Frames /\ det.at \in Vectors
  BY BoardFacts DEF Keys
<1>6. ASSUME det # Unset, det.q # Null
      PROVE  /\ det.q.z \in Axes /\ z \in Axes
             /\ z = IF flip THEN Neg(det.q.z) ELSE det.q.z
  BY <1>5, <1>6, FrameFacts, NegAxes DEF ToolZ, Neg
<1>7. offset \in Int
  BY PoseAssumption
<1>8. "pick" \in Keys /\ "detected" \in Keys /\ "reference" \in Keys
  BY DEF Keys
<1>9. Identity.y = Y
  BY DEF Identity, Y
<1>10. CASE Buildable(det, flip, ref)
  <2> DEFINE y == Cross(z, x)
             at == Plus(det.at, Times(-offset, z))
             q == [x |-> x, y |-> y, z |-> z]
  <2>1. det # Unset /\ det.q # Null /\ x # Zero
    BY <1>10 DEF Buildable
  <2>2. z \in Axes /\ x \in Axes /\ Dot(z, x) = 0
        /\ \A a \in Axes : Dot(z, a) = 0 => Dot(a, ref) <= Dot(x, ref)
    <3>1. z \in Axes
      BY <1>6, <2>1
    <3> HIDE DEF z, ref
    <3> QED  BY <1>4, <2>1, <3>1, ToolXTurnsLeast
  <2>3. SuctionPose(det, offset, flip, ref) = Pose(at, q)
    BY DEF SuctionPose
  <2>4. q.x = x /\ q.y = y /\ q.z = z
    OBVIOUS
  <2> HIDE DEF z, x, ref
  <2>5. q \in Frames
    BY <2>2, CrossAxes, FrameOf
  <2>6. at \in Vectors /\ det.at \in Vectors /\ z \in Vectors
    <3>1. det.at \in Vectors /\ z \in Vectors /\ -offset \in Int
      BY <1>5, <1>7, <2>1, <2>2, NegAxes
    <3> DEFINE back == -offset
               shift == Times(back, z)
    <3>2. back \in Int
      BY <3>1
    <3> HIDE DEF back
    <3> HIDE DEF q
    <3>3. shift \in Vectors
      BY <2>5, <3>1, <3>2, VectorTypes
    <3> HIDE DEF shift
    <3>4. Plus(det.at, shift) \in Vectors
      BY <2>5, <1>7, <3>1, <3>3, VectorTypes
    <3> QED  BY <3>1, <3>4 DEF shift, back, at
  <2> HIDE DEF what, at, q
  <2>7. Done(what, "pick", Pose(at, q))
    BY <1>3, <1>10, <2>3
  <2>8. /\ BoardHolds' /\ last' = what
        /\ board'["pick"].at = at /\ board'["pick"].q = q
        /\ board'["detected"] = det /\ board'["reference"] = entry
    <3> DEFINE pose == Pose(at, q)
    <3>1. pose \in Stored /\ pose.at = at /\ pose.q = q
      BY <2>5, <2>6, PoseFields
    <3>2. Done(what, "pick", pose)
      BY <2>7
    <3> HIDE DEF pose
    <3>3. /\ BoardHolds' /\ last' = what /\ board'["pick"] = pose
          /\ \A k \in Keys \ {"pick"} : board'[k] = board[k]
      BY <1>8, <2>5, <3>1, <3>2, DoneHolds
    <3> QED  BY <1>8, <3>1, <3>3
  <2>9. CupTouchesSurface'
    <3>1. Apply(q, Vec(0, 0, offset)) = Times(offset, z)
      BY <1>7, <2>4, <2>5, <2>6, VectorTypes
    <3>2. Plus(det.at, Times(-1, at)) = Times(offset, z)
      BY <1>7, <2>5, <2>6, VectorTypes DEF at
    <3>3. Dot(z, det.q.z) = IF flip THEN -1 ELSE 1
      BY <1>6, <2>1, DotAxes, NegCross
    <3> QED  BY <1>2, <2>4, <2>8, <3>1, <3>2, <3>3 DEF CupTouchesSurface
  <2>10. WristTurnsLeast'
    <3>1. ASSUME NEW m \in Rotations, m.z = z, robot # Unread
          PROVE  Dot(m.x, wanted) <= Dot(x, wanted)
      <4>1. m.x \in Axes /\ Dot(m.z, m.x) = 0
        BY RotationsAreFrames, FrameFacts
      <4> QED  BY <1>4, <2>2, <3>1, <4>1
    <3> HIDE DEF wanted
    <3>2. WristTurnsLeast' <=>
            (robot # Unread =>
               \A m \in Rotations : m.z = z => Dot(m.x, wanted) <= Dot(x, wanted))
      BY <1>2, <1>10, <2>4, <2>8 DEF WristTurnsLeast, Suction, wanted
    <3> QED  BY <3>1, <3>2
  <2>11. WritesRotation'
    BY <1>2, <2>5, <2>8, NullIsNoFrame DEF WritesRotation
  <2> QED
    BY <1>2, <1>10, <2>8, <2>9, <2>10, <2>11
       DEF PInv, SuctionFailsSideways, TargetRecovered, Suction
<1>11. CASE ~Buildable(det, flip, ref)
  <2>1. BoardHolds' /\ last' = what /\ board' = board
    <3> HIDE DEF what
    <3> QED  BY <1>3, <1>11, FailedHolds
  <2>2. ASSUME det # Unset, det.q # Null, NEW v \in {det.q.z, ref}
        PROVE  v \in {Y, Neg(Y)}
    <3>1. x = Zero
      BY <1>11, <2>2 DEF Buildable
    <3>2. z \in Axes /\ det.q.z \in Axes
          /\ z = IF flip THEN Neg(det.q.z) ELSE det.q.z
      BY <1>6, <2>2
    <3> HIDE DEF z, ref
    <3>3. z \in {Y, Neg(Y)} /\ ref \in {Y, Neg(Y)}
      BY <1>4, <3>1, <3>2, ToolXVanishes
    <3>4. Y \in Axes
      BY DEF Axes
    <3> QED  BY <2>2, <3>2, <3>3, <3>4, NegAxes
  <2> HIDE DEF what, ref
  <2>3. SuctionFailsSideways'
    BY <1>2, <1>9, <2>1, <2>2 DEF SuctionFailsSideways, Suction, ref, Neg
  <2> QED
    BY <1>2, <1>11, <2>1, <2>3 DEF PInv, WritesRotation, CupTouchesSurface, WristTurnsLeast,
                                   TargetRecovered, Suction
<1> QED  BY <1>10, <1>11

-----------------------------------------------------------------------------
LEMMA StoreHolds ==
    ASSUME BoardHolds, StoreCurrentPose
    PROVE  PInv'
<1> DEFINE what == [node |-> "StoreCurrentPose", done |-> TRUE]
<1>6. CASE Refused("StoreCurrentPose")
  BY <1>6, RefusedHolds
<1> SUFFICES ASSUME ~Refused("StoreCurrentPose") PROVE PInv'
  BY <1>6
<1>1. PICK robot \in Attitudes \cup {Unread} :
        Done(what, "reference", Pose(Zero, Reading(robot)))
  BY DEF StoreCurrentPose
<1>2. what.node = "StoreCurrentPose"
  OBVIOUS
<1> HIDE DEF what
<1> DEFINE pose == Pose(Zero, Reading(robot))
<1>3. Zero \in Vectors /\ "reference" \in Keys
  BY DEF Keys, Vectors, Zero, Vec
<1>4. pose \in Stored /\ pose.q \in Frames
  BY <1>3, ReadingFacts, PoseFields
<1> HIDE DEF pose
<1>5. BoardHolds' /\ last' = what /\ board'["reference"].q \in Frames
  BY <1>1, <1>3, <1>4, DoneHolds DEF pose
<1>7. WritesRotation'
  BY <1>2, <1>5, NullIsNoFrame DEF WritesRotation
<1> QED  BY <1>2, <1>5, <1>7, OtherNode DEF PInv

\* The retreat takes the rotation the pick's orientation stands for.
LEMMA ToolOffsetHolds ==
    ASSUME BoardHolds, OffsetPoseInToolFrame
    PROVE  PInv'
<1> DEFINE failed == [node |-> "OffsetPoseInToolFrame", done |-> FALSE]
           what == [node |-> "OffsetPoseInToolFrame", done |-> TRUE]
           pick == board["pick"]
<1>1. \/ Refused("OffsetPoseInToolFrame")
      \/ Failed(failed)
      \/ pick # Unset /\ \E dx \in Distances, dz \in Distances :
                           Done(what, "retreat", OffsetInToolFrame(pick, Vec(dx, 0, dz)))
  BY DEF OffsetPoseInToolFrame
<1>2. failed.node = "OffsetPoseInToolFrame" /\ what.node = "OffsetPoseInToolFrame"
      /\ failed.done = FALSE
  OBVIOUS
<1>4. "pick" \in Keys /\ "retreat" \in Keys
  BY DEF Keys
<1> HIDE DEF failed, what
<1>5. CASE Refused("OffsetPoseInToolFrame")
  BY <1>5, RefusedHolds
<1>6. CASE Failed(failed)
  <2>2. BoardHolds' /\ last' = failed
    BY <1>6, FailedHolds
  <2> QED  BY <1>2, <2>2, OtherNode DEF PInv, WritesRotation
<1>7. ASSUME pick # Unset, NEW dx \in Distances, NEW dz \in Distances,
             Done(what, "retreat", OffsetInToolFrame(pick, Vec(dx, 0, dz)))
      PROVE  PInv'
  <2> DEFINE delta == Vec(dx, 0, dz)
             at == Plus(pick.at, Apply(Matrix(pick.q), delta))
  <2>7. delta \in Vectors
    BY PoseAssumption DEF Vectors, Vec
  <2>8. OffsetInToolFrame(pick, delta) = Pose(at, Matrix(pick.q))
    BY DEF OffsetInToolFrame
  <2> HIDE DEF delta
  <2>1. pick.at \in Vectors /\ Matrix(pick.q) \in Frames
    BY <1>4, <1>7, BoardFacts
  <2>2. Apply(Matrix(pick.q), delta) \in Vectors
    BY <2>1, <2>7, VectorTypes DEF Vectors
  <2>3. at \in Vectors
    BY <2>1, <2>2, VectorTypes DEF Vectors
  <2> DEFINE pose == Pose(at, Matrix(pick.q))
  <2>4. Done(what, "retreat", pose)
    BY <1>7, <2>8 DEF delta
  <2> HIDE DEF at, pick
  <2>5. pose \in Stored /\ pose.q \in Frames
    BY <2>1, <2>3, PoseFields
  <2> HIDE DEF pose
  <2>6. BoardHolds' /\ last' = what /\ board'["retreat"] = pose
    BY <1>4, <2>4, <2>5, DoneHolds
  <2>9. WritesRotation'
    BY <1>2, <2>5, <2>6, NullIsNoFrame DEF WritesRotation
  <2> QED  BY <1>2, <2>6, <2>9, OtherNode DEF PInv
<1> QED  BY <1>1, <1>5, <1>6, <1>7

\* The entry keeps the orientation of the one it is computed from, whatever it is.
LEMMA BaseOffsetHolds ==
    ASSUME BoardHolds, OffsetPoseInBaseFrame
    PROVE  PInv'
<1> DEFINE failed == [node |-> "OffsetPoseInBaseFrame", done |-> FALSE]
           what == [node |-> "OffsetPoseInBaseFrame", done |-> TRUE]
<1>1. \/ Refused("OffsetPoseInBaseFrame")
      \/ Failed(failed)
      \/ \E in \in Keys, out \in Keys, dx \in Distances, dz \in Distances :
           /\ board[in] # Unset
           /\ Done(what, out, Pose(Plus(board[in].at, Vec(dx, 0, dz)), board[in].q))
  BY DEF OffsetPoseInBaseFrame
<1>2. failed.node = "OffsetPoseInBaseFrame" /\ what.node = "OffsetPoseInBaseFrame"
  OBVIOUS
<1> HIDE DEF failed, what
<1>5. CASE Refused("OffsetPoseInBaseFrame")
  BY <1>5, RefusedHolds
<1>6. CASE Failed(failed)
  <2>2. BoardHolds' /\ last' = failed
    BY <1>6, FailedHolds
  <2> QED  BY <1>2, <2>2, OtherNode DEF PInv, WritesRotation
<1>7. ASSUME NEW in \in Keys, NEW out \in Keys, NEW dx \in Distances, NEW dz \in Distances,
             board[in] # Unset,
             Done(what, out, Pose(Plus(board[in].at, Vec(dx, 0, dz)), board[in].q))
      PROVE  PInv'
  <2> DEFINE src == board[in]
             delta == Vec(dx, 0, dz)
             at == Plus(src.at, delta)
             pose == Pose(at, src.q)
  <2>1. Done(what, out, pose)
    BY <1>7
  <2>6. delta \in Vectors
    BY PoseAssumption DEF Vectors, Vec
  <2>2. src.at \in Vectors /\ src.q \in Frames \cup {Null}
    BY <1>7, BoardFacts
  <2> HIDE DEF src, delta
  <2>3. at \in Vectors
    BY <2>2, <2>6 DEF Vectors, Plus, Vec
  <2> HIDE DEF at
  <2>4. pose \in Stored
    BY <2>2, <2>3, PoseFields
  <2> HIDE DEF pose
  <2>5. BoardHolds' /\ last' = what
    BY <2>1, <2>4, DoneHolds
  <2> QED  BY <1>2, <2>5, OtherNode DEF PInv, WritesRotation
<1> QED  BY <1>1, <1>5, <1>6, <1>7

LEMMA PoseInit == Init => PInv
<1> SUFFICES ASSUME Init PROVE PInv
  OBVIOUS
<1>1. Zero \in Vectors
  BY DEF Vectors, Zero, Vec
<1>2. ASSUME NEW q \in Rotations \cup {Null}
      PROVE  Pose(Zero, q) \in Stored
  BY <1>1, RotationsAreFrames DEF Pose, Stored
<1>3. BoardHolds
  BY <1>2 DEF Init, BoardHolds
<1>4. last.node = "none" /\ last.done = FALSE
  BY DEF Init
<1> QED
  BY <1>3, <1>4 DEF PInv, WritesRotation, CupTouchesSurface, WristTurnsLeast, SuctionFailsSideways,
                    TargetRecovered, Suction

LEMMA PoseStep == PInv /\ [Next]_vars => PInv'
<1> SUFFICES ASSUME PInv, [Next]_vars PROVE PInv'
  OBVIOUS
<1>0. BoardHolds
  BY DEF PInv
<1>1. CASE StoreCurrentPose
  BY <1>0, <1>1, StoreHolds
<1>2. CASE ComputeTCPTarget
  BY <1>0, <1>2, TargetHolds
<1>3. CASE OffsetPoseInToolFrame
  BY <1>0, <1>3, ToolOffsetHolds
<1>4. CASE OffsetPoseInBaseFrame
  BY <1>0, <1>4, BaseOffsetHolds
<1>5. CASE ComputeSuctionPickPose
  BY <1>0, <1>5, SuctionHolds
<1>6. CASE UNCHANGED vars
  BY <1>6 DEF vars, PInv, BoardHolds, WritesRotation, CupTouchesSurface, WristTurnsLeast,
              SuctionFailsSideways, TargetRecovered, Suction
<1> QED  BY <1>1, <1>2, <1>3, <1>4, <1>5, <1>6 DEF Next

-----------------------------------------------------------------------------
\* The board holds poses, and what the last node claims is so: the invariant of the
\* nodes that compute poses.
THEOREM PosesHold == Spec => []PInv
  BY PoseInit, PoseStep, PTL DEF Spec

\* No blackboard entry is mirrored or skewed, whichever keys a base offset reads and
\* writes, and the nodes that compute an orientation never write one of norm zero.
THEOREM PosesAreProper == Spec => []BoardProper
<1>1. ASSUME PInv PROVE BoardProper
  <2>1. BoardHolds
    BY <1>1 DEF PInv
  <2>2. WritesRotation
    BY <1>1 DEF PInv
  <2> QED  BY <2>1, <2>2, BoardFacts, FramesAreProper DEF BoardProper
<1> QED  BY <1>1, PosesHold, PTL

\* The cup of ComputeSuctionPickPose touches the detected point along the normal,
\* for every attitude of the robot and every tool offset.
THEOREM CupTouches == Spec => []CupTouchesSurface
<1>1. PInv => CupTouchesSurface
  BY DEF PInv
<1> QED  BY <1>1, PosesHold, PTL

\* The node chooses, of all tool X axes across tool Z, the one nearest to the
\* reference, with a robot whose state is read or with none.
THEOREM WristLeast == Spec => []WristTurnsLeast
<1>1. PInv => WristTurnsLeast
  BY DEF PInv
<1> QED  BY <1>1, PosesHold, PTL

\* With ports that read and a usable detection the node fails only when the normal and the reference
\* are both along world Y.
THEOREM FailsSideways == Spec => []SuctionFailsSideways
<1>1. PInv => SuctionFailsSideways
  BY DEF PInv
<1> QED  BY <1>1, PosesHold, PTL

\* Undoing the TCP offset from the pose of ComputeTCPTarget gives the target with
\* the orientation asked for, and no other rotation does.
THEOREM TargetIsRecovered == Spec => []TargetRecovered
<1>1. PInv => TargetRecovered
  BY DEF PInv
<1> QED  BY <1>1, PosesHold, PTL

=============================================================================
