----------------------------- MODULE MCBtRunner -----------------------------
(***************************************************************************)
(* The example tree, followed by a look for an object and a way to it, and *)
(* the task parameters of the example.  In a parameter file edited by hand *)
(* a joint vector may be text or be missing, an offset may have too few    *)
(* numbers, a name may be a list, and a parameter may have the name of an  *)
(* entry of the framework.                                                 *)
(***************************************************************************)
EXTENDS BtRunner, MotionProfiles

FrameworkKeys == {"robot_client", "motion_profiles", "ros_node"}

JointParams  == {"pre_pick_joints_deg", "pre_place_joints_deg"}
TripleParams == {"pick_xyz", "place_xyz", "tool_offset_xyz", "tool_offset_rpy_deg"}
NumberParams == {"pick_retreat_m", "place_retreat_m", "scene_update_wait_ms"}
TextParams   == {"part_id", "tool_name"}

ExampleType ==
    [p \in Params |-> CASE p \in JointParams  -> {"numbers"}
                        [] p \in TripleParams -> {"triple"}
                        [] p \in NumberParams -> {"number"}
                        [] p \in TextParams   -> {"text"}
                        [] p \in FrameworkKeys -> {"absent", "text"}]

EditedType == [ExampleType EXCEPT !["pre_place_joints_deg"] = {"numbers", "text", "absent"},
                                  !["tool_offset_xyz"] = {"triple", "numbers"},
                                  !["tool_name"] = {"text", "other"}]

LogNode == [class |-> "LogMessage", text |-> {}, numeric |-> {}, in |-> None, out |-> None]

Joints(key) == [LogNode EXCEPT !.class = "MoveToJointTarget", !.text = {key}, !.numeric = {key}]
Store(key)  == [LogNode EXCEPT !.class = "StoreCurrentPose", !.out = key]
Linear(key) == [LogNode EXCEPT !.class = "ExecuteCartesianSegment", !.in = key]
Service(class, key) == [LogNode EXCEPT !.class = class, !.text = {key}]
Teleport(key, pose) == [LogNode EXCEPT !.class = "TeleportSceneObject", !.text = {key}, !.in = pose]

Compute(xyz, key) ==
    LET ports == {xyz, "tool_offset_xyz", "tool_offset_rpy_deg"}
    IN  [LogNode EXCEPT !.class = "ComputeTCPTarget", !.text = ports, !.numeric = ports,
                        !.out = key]

Offset(from, dz, key) ==
    [LogNode EXCEPT !.class = "OffsetPose", !.text = {dz}, !.numeric = {dz},
                    !.in = from, !.out = key]

PickAndPlace ==
    << LogNode,
       Joints("pre_pick_joints_deg"),
       Store("approach_pick"),
       Service("RemoveSceneObject", "part_id"),
       Compute("pick_xyz", "pick_tcp"),
       Linear("pick_tcp"),
       Service("ActivateTool", "tool_name"),
       Offset("pick_tcp", "pick_retreat_m", "pick_retreat_tcp"),
       Linear("pick_retreat_tcp"),
       Joints("pre_place_joints_deg"),
       Store("approach_place"),
       Compute("place_xyz", "place_tcp"),
       Linear("place_tcp"),
       Service("ReleaseTool", "tool_name"),
       Teleport("part_id", "place_tcp"),
       Offset("place_tcp", "place_retreat_m", "place_retreat_tcp"),
       Linear("place_retreat_tcp"),
       LogNode >>

Detect(key) == [LogNode EXCEPT !.class = "GetDetectedObjectPose", !.out = key]
Suction(from, key) == [LogNode EXCEPT !.class = "ComputeSuctionPickPose", !.in = from, !.out = key]
WaitNode == [LogNode EXCEPT !.class = "WaitMs"]

LookAndReach ==
    << Detect("detected"),
       Suction("detected", "suction_pose"),
       [LogNode EXCEPT !.class = "MoveToPose", !.in = "suction_pose"],
       WaitNode >>

ExampleTree   == PickAndPlace \o LookAndReach
ExampleParams == JointParams \cup TripleParams \cup NumberParams \cup TextParams \cup {"robot_client"}
ExampleKeys ==
    ExampleParams \cup FrameworkKeys
        \cup {"approach_pick", "pick_tcp", "pick_retreat_tcp", "approach_place",
              "place_tcp", "place_retreat_tcp", "detected", "suction_pose"}

-----------------------------------------------------------------------------
(***************************************************************************)
(* Every profile file with the sections default, pick and place, each of   *)
(* which may set either of two fields, read for those and another name.    *)
(***************************************************************************)
TwoFields   == {"velocity_scaling", "retry_sleep_ms"}
TwoBuiltIns == [f \in TwoFields |-> "built in"]
Sections    == UNION {[fields -> {"set", "also set"}] : fields \in SUBSET TwoFields}
Files       == UNION {[names -> Sections] : names \in SUBSET {"default", "pick", "place"}}

ASSUME ProfilesInherit ==
    \A file \in Files, name \in {"default", "pick", "place", "slow"}, f \in TwoFields :
        GetProfile(LoadMotionProfiles(file), name)[f] = Setting(file, name, f)
=============================================================================
