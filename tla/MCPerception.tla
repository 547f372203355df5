----------------------------- MODULE MCPerception -----------------------------
(***************************************************************************)
(* Values for checking Perception with TLC.                                *)
(***************************************************************************)
EXTENDS Perception

ZeroOrMinusOne == {0, -1}
Clocks         == {0, 1}
=============================================================================
