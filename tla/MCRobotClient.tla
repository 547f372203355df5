--------------------------- MODULE MCRobotClient ---------------------------
(***************************************************************************)
(* A robot with four configurations: two of them (an elbow-up and an       *)
(* elbow-down solution) give the same tool pose, and in a third the tool   *)
(* is at the same position, turned away.                                   *)
(***************************************************************************)
EXTENDS RobotClient, TLC

CONSTANTS zero, up, down, turned, rest, pick, flat, tilted, homeName, typo

Srdf  == [n \in Names |-> IF n = homeName THEN zero ELSE None]
Tool  == [c \in Configs |->
            [at |-> IF c = zero THEN rest ELSE pick,
             q  |-> IF c = turned THEN tilted ELSE flat]]
=============================================================================
