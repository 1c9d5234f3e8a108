------------------------- MODULE XArmServiceTable --------------------------
(***************************************************************************)
(* The services of the driver, as the C++ client and the driver see them.  *)
(*                                                                         *)
(* XArmROSClient has one wrapper per service.  It holds ONE request object *)
(* per type of request, which all wrappers of that type fill and send, so  *)
(* a field a wrapper does not assign keeps what another one left there.    *)
(* A field is a pair of type and name.  Gives[w] is what the wrapper w     *)
(* assigns, Reads[s] what the driver's handler of s hands to the SDK.      *)
(* Values, overloads that only fill in defaults, and texts are left out.   *)
(***************************************************************************)
EXTENDS TLC

Of(type, fields) == {type} \X fields

Profile == {"speed", "acc", "mvtime"}
Waiting == {"wait", "timeout"}

\* ---------------------------------------------------------------- the client
CallGives ==
    [w \in {"clean_error", "clean_warn", "clean_conf", "save_conf",
            "reload_dynamics", "set_counter_reset", "set_counter_increase",
            "clean_gripper_error", "clean_bio_gripper_error",
            "start_record_trajectory", "stop_record_trajectory"} |-> {}]

GetGives ==
    [w \in {"get_state", "get_cmdnum", "get_vacuum_gripper",
            "get_gripper_err_code", "get_bio_gripper_status",
            "get_bio_gripper_error", "get_err_warn_code",
            "get_tgpio_modbus_baudrate", "get_gripper_position",
            "get_position", "get_servo_angle", "get_position_aa",
            "get_tgpio_digital", "get_cgpio_digital"} |-> {}]

SetInt16Gives ==
    [w \in {"set_mode", "set_state", "set_collision_sensitivity",
            "set_teach_sensitivity", "set_gripper_mode", "set_gripper_enable",
            "set_tgpio_modbus_timeout", "set_bio_gripper_speed",
            "set_collision_rebound", "set_fence_mode", "set_reduced_mode",
            "set_self_collision_detection", "set_simulation_robot",
            "set_baud_checkset_enable"} |-> Of("SetInt16", {"data"})]

ByIdGives ==
    "motion_enable" :> Of("SetInt16ById", {"id", "data"})
    @@ [w \in {"set_servo_attach", "set_servo_detach"} |-> Of("SetInt16ById", {"id"})]
    @@ "set_checkset_default_baud" :> Of("SetInt32ByType", {"type", "data"})
    @@ "set_reduced_tcp_boundary" :> Of("SetInt16List", {"datas"})
    @@ "get_checkset_default_baud" :> Of("GetInt32ByType", {"type"})
    @@ "set_tgpio_modbus_baudrate" :> Of("SetInt32", {"data"})

SetFloatGives ==
    [w \in {"set_pause_time", "set_tcp_jerk", "set_tcp_maxacc",
            "set_joint_jerk", "set_joint_maxacc", "set_gripper_speed",
            "set_reduced_max_tcp_speed", "set_reduced_max_joint_speed"}
        |-> Of("SetFloat32", {"data"})]
    @@ [w \in {"set_gravity_direction", "set_tcp_offset", "set_world_offset",
               "set_reduced_joint_range"} |-> Of("SetFloat32List", {"datas"})]
    @@ "set_tcp_load" :> Of("SetTcpLoad", {"weight", "center_of_gravity"})

\* The short overload of set_servo_cartesian_aa() is a wrapper of its own: it
\* calls set_servo_cartesian(), which takes its two flags for mvtime and
\* is_tool_coord.
CartesianGives ==
    LET Move(fields) == Of("MoveCartesian", {"pose", "speed", "acc"} \cup fields)
    IN  "set_position"              :> Move({"mvtime", "radius"} \cup Waiting)
        @@ "set_tool_position"      :> Move({"mvtime"} \cup Waiting)
        @@ "set_position_aa"        :> Move({"mvtime", "is_tool_coord", "relative"} \cup Waiting)
        @@ "set_servo_cartesian"    :> Move({"mvtime", "is_tool_coord"})
        @@ "set_servo_cartesian_aa" :> Move({"is_tool_coord", "relative"})
        @@ "set_servo_cartesian_aa_short" :> Move({"mvtime", "is_tool_coord"})

JointGives ==
    "set_servo_angle" :> Of("MoveJoint", {"angles", "radius"} \cup Profile \cup Waiting)
    @@ "set_servo_angle_j" :> Of("MoveJoint", {"angles"} \cup Profile)
    @@ "move_circle" :> Of("MoveCircle", {"pose1", "pose2", "percent"} \cup Profile \cup Waiting)
    @@ "move_gohome" :> Of("MoveHome", Profile \cup Waiting)
    @@ "vc_set_joint_velocity" :> Of("MoveVelocity", {"speeds", "is_sync", "duration"})
    @@ "vc_set_cartesian_velocity" :> Of("MoveVelocity", {"speeds", "is_tool_coord", "duration"})

IOGives ==
    [w \in {"get_tgpio_analog", "get_cgpio_analog"} |-> Of("GetAnalogIO", {"ionum"})]
    @@ [w \in {"set_tgpio_digital", "set_cgpio_digital"}
          |-> Of("SetDigitalIO", {"ionum", "value", "delay_sec"})]
    @@ [w \in {"set_tgpio_digital_with_xyz", "set_cgpio_digital_with_xyz"}
          |-> Of("SetDigitalIO", {"ionum", "value", "xyz", "tol_r"})]
    @@ "set_cgpio_analog" :> Of("SetAnalogIO", {"ionum", "value"})
    @@ "set_cgpio_analog_with_xyz" :> Of("SetAnalogIO", {"ionum", "value", "xyz", "tol_r"})

ToolGives ==
    "set_vacuum_gripper" :> Of("VacuumGripperCtrl", {"on", "delay_sec"} \cup Waiting)
    @@ "set_gripper_position" :> Of("GripperMove", {"pos"} \cup Waiting)
    @@ "set_bio_gripper_enable" :> Of("BioGripperEnable", {"enable"} \cup Waiting)
    @@ [w \in {"open_bio_gripper", "close_bio_gripper"}
          |-> Of("BioGripperCtrl", {"speed"} \cup Waiting)]
    @@ "robotiq_reset" :> {}
    @@ "robotiq_set_activate" :> Of("RobotiqActivate", Waiting)
    @@ [w \in {"robotiq_set_position", "robotiq_open", "robotiq_close"}
          |-> Of("RobotiqMove", {"pos", "speed", "force"} \cup Waiting)]
    @@ "robotiq_get_status" :> Of("RobotiqGetStatus", {"number_of_registers"})
    @@ "getset_tgpio_modbus_data" :> Of("GetSetModbusData",
                                        {"modbus_data", "modbus_length", "ret_length"})

TrajectoryGives ==
    [w \in {"save_record_trajectory", "load_trajectory"}
        |-> Of("TrajCtrl", {"filename", "timeout"})]
    @@ "playback_trajectory" :> Of("TrajPlay", {"filename", "times", "wait", "double_speed"})

Gives == CallGives @@ GetGives @@ SetInt16Gives @@ ByIdGives @@ SetFloatGives
         @@ CartesianGives @@ JointGives @@ IOGives @@ ToolGives @@ TrajectoryGives

\* The service a wrapper calls: the one of its name, but for three.
Service(w) ==
    CASE w = "set_servo_cartesian_aa_short"       -> "set_servo_cartesian"
      [] w \in {"robotiq_open", "robotiq_close"} -> "robotiq_set_position"
      [] OTHER                                    -> w

\* ---------------------------------------------------------------- the driver
\* Most handlers pass on exactly what the wrapper of the same name assigns.
\* These differ.
SetTimeoutReads ==
    "set_tgpio_modbus_timeout"
        :> Of("SetModbusTimeout", {"timeout", "is_transparent_transmission"})

CartesianReads ==
    LET Move(fields) == Of("MoveCartesian", {"pose", "speed", "acc"} \cup fields)
    IN  "set_position" :> Move({"mvtime", "radius", "relative", "motion_type"} \cup Waiting)
        @@ "set_tool_position" :> Move({"mvtime", "radius", "motion_type"} \cup Waiting)
        @@ "set_position_aa" :> Move({"mvtime", "is_tool_coord", "relative", "radius",
                                      "motion_type"} \cup Waiting)
        @@ "set_servo_cartesian" :> Move({"mvtime", "is_tool_coord"})
        @@ "set_servo_cartesian_aa" :> Move({"is_tool_coord", "relative"})

JointReads ==
    "set_servo_angle" :> Of("MoveJoint", {"angles", "radius", "relative"} \cup Profile \cup Waiting)
    @@ "set_servo_angle_j" :> Of("MoveJoint", {"angles"} \cup Profile)
    @@ "move_circle" :> Of("MoveCircle", {"pose1", "pose2", "percent", "is_tool_coord",
                                          "is_axis_angle"} \cup Profile \cup Waiting)
    @@ "move_gohome" :> Of("MoveHome", Profile \cup Waiting)
    @@ "vc_set_joint_velocity" :> Of("MoveVelocity", {"speeds", "is_sync", "duration"})
    @@ "vc_set_cartesian_velocity" :> Of("MoveVelocity", {"speeds", "is_tool_coord", "duration"})

ToolReads ==
    "set_vacuum_gripper" :> Of("VacuumGripperCtrl", {"on", "delay_sec", "sync",
                                                     "hardware_version"} \cup Waiting)
    @@ "getset_tgpio_modbus_data" :> Of("GetSetModbusData",
           {"modbus_data", "modbus_length", "ret_length", "host_id",
            "is_transparent_transmission", "use_503_port"})

Reads == SetTimeoutReads @@ CartesianReads @@ JointReads @@ ToolReads @@ Gives

\* Handlers that look at the length of a list or a name first, and answer
\* PARAM_ERROR without a call to the SDK if it does not fit.
ChecksListLength ==
    {"set_reduced_tcp_boundary", "set_gravity_direction", "set_tcp_offset",
     "set_world_offset", "set_reduced_joint_range", "set_tcp_load"}

ChecksPose ==
    {"set_position", "set_tool_position", "set_position_aa", "set_servo_cartesian",
     "set_servo_cartesian_aa", "set_servo_angle", "set_servo_angle_j",
     "move_circle", "vc_set_joint_velocity", "vc_set_cartesian_velocity"}

ChecksFileName ==
    {"save_record_trajectory", "load_trajectory", "playback_trajectory"}

Checked == ChecksListLength \cup ChecksPose \cup ChecksFileName

\* A client finds a service only under the type it was made for.
SameType(w) == \A g \in Gives[w], r \in Reads[Service(w)] : g[1] = r[1]

\* What a handler reads though its wrapper does not assign it, and another
\* wrapper of the client does.
LeftByOthers(w) ==
    (Reads[Service(w)] \ Gives[w]) \cap UNION {Gives[v] : v \in DOMAIN Gives}

\* Of all the wrappers only three can send what another one left behind, and
\* only one is made for a type the driver does not offer.
ASSUME OnlyCartesianIsStale ==
    \A w \in DOMAIN Gives :
        /\ SameType(w) <=> w # "set_tgpio_modbus_timeout"
        /\ LeftByOthers(w) = CASE w = "set_position" -> Of("MoveCartesian", {"relative"})
                               [] w \in {"set_tool_position", "set_position_aa"}
                                      -> Of("MoveCartesian", {"radius"})
                               [] OTHER -> {}
=============================================================================
