-------------------------- MODULE MCServiceClients --------------------------
(***************************************************************************)
(* A gripper, a suction cup without a release service, and a part.         *)
(***************************************************************************)
EXTENDS ServiceClients

CONSTANTS close, open, suck, remove, setPose, gripper, suction, part

Target ==
    [e \in Endpoints |-> CASE e \in {close, open}     -> gripper
                           [] e = suck                -> suction
                           [] e \in {remove, setPose} -> part]

ToolRole ==
    [e \in Endpoints |-> CASE e = close -> <<gripper, "activate_service">>
                           [] e = open  -> <<gripper, "release_service">>
                           [] e = suck  -> <<suction, "activate_service">>
                           [] OTHER     -> None]

Given == [t \in Tools |-> IF t = suction THEN {"activate_service"} ELSE ToolFields]
=============================================================================
