----------------------------- MODULE MCPoseNodes -----------------------------
(***************************************************************************)
(* Values for checking PoseNodes with TLC.                                 *)
(***************************************************************************)
EXTENDS PoseNodes

TwoDistances == {-1, 2}
Above        == Vec(1, 0, 2)
FacingY      == {<<3, 0, 0>>}
TwoOffsets   == {<<Vec(0, 1, 2), <<0, 0, 0>>>>, <<Vec(1, 0, 2), <<1, 2, 1>>>>}

\* The tool down, tilted onto each side, and with its X axis along each world axis.
SomeAttitudes == {QuatFromRpy(<<2, 0, y>>) : y \in 0..3} \cup {QuatFromRpy(<<1, 1, 0>>)}
=============================================================================
