--------------------------- MODULE MCSceneManager ---------------------------
(***************************************************************************)
(* Values for checking SceneManager with TLC.                              *)
(***************************************************************************)
EXTENDS SceneManager, TLC

CONSTANTS t1, t2, part, box, home, place

AllGood == [o \in Objects |-> "good"]

PartOnly    == <<part>>
PartThenBox == <<part, box>>

ThreadSymmetry == Permutations(Threads)
=============================================================================
