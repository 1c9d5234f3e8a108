------------------------------ MODULE LaunchFiles ------------------------------
(***************************************************************************)
(* What the launch files start, worked out when they are evaluated: the six *)
(* of xarm_moveit_config (fake, real and simulated, single and dual), its   *)
(* demos, the servo files of xarm_moveit_servo, the mobile base of          *)
(* mbot_demo, and the ros2_control, gazebo and planner files they include   *)
(* or that are launched by themselves.                                      *)
(***************************************************************************)
EXTENDS MoveItConfigs, Sequences

NoMoveIt == [controllers |-> <<>>, limits |-> {}, kinematics |-> {}, semantic |-> {},
             pipelines |-> [loaded |-> {}, defaults |-> {}, groups |-> {}],
             pilz |-> FALSE, sensors |-> FALSE]
NoServo == [group |-> <<>>, out |-> <<>>]

\* A launch: MoveIt's parameters, the controller manager's, and the controllers
\* that are spawned; by default on a robot that is not simulated, with a
\* move_group, whose RViz takes everything down with it.
Launch(moveit, manager, spawned) ==
  [moveit   |-> moveit,
   manager  |-> manager,
   spawned  |-> spawned,
   group    |-> TRUE,       \* a move_group is started
   sim      |-> FALSE,      \* the robot is created in Gazebo, with its clock
   driver   |-> FALSE,      \* the hardware plugin is the arm's driver
   sources  |-> {},         \* the arms of which a joint_state_publisher collects
   rviz     |-> "ends",     \* RViz: "none" | "stays" | "ends" the launch when closed
   servo    |-> NoServo]    \* group and controller of a servo server

Nothing == Launch(NoMoveIt, <<>>, {})

----------------------------------------------------------------------------
(* The files that are included.                                             *)

ArmTrajController(a) == WithPrefix(a.prefix, ArmController(XarmType(a)))

\* The trajectory controllers of an arm and of its gripper.
ArmControllers(a) ==
  {ArmTrajController(a)} \cup
  (IF GripperOf(a) = "none" THEN {}
   ELSE {WithPrefix(a.prefix, GripperController(GripperOf(a)))})

\* _ros2_control.launch.py, _dual_ros2_control.launch.py: the manager takes the
\* parameters it is given or generates them.
NoParams == <<>>
Ros2Control(a, given) ==
  IF given # NoParams THEN given
  ELSE generate_ros2_control_params_temp_file(ControllersFile(XarmType(a)), a, NoRate, FALSE)

DualRos2Control(a, b, given) ==
  IF given # NoParams THEN given
  ELSE generate_dual_ros2_control_params_temp_file(a, b, NoRate, FALSE)

\* _robot_beside_table_gazebo.launch.py: the robot's plugin in the simulation is
\* the manager, of the parameters in the description it is given or of its own.
\* A launch file that includes it asks for the controllers and for RViz.
BesideTable(a, given, load_controller) ==
  [Launch(NoMoveIt,
          IF given # NoParams THEN given
          ELSE generate_ros2_control_params_temp_file(ControllersFile(XarmType(a)), a, 1000, TRUE),
          IF load_controller THEN {Broadcaster} \cup ArmControllers(a) ELSE {})
   EXCEPT !.group = FALSE, !.sim = TRUE, !.rviz = "none"]

\* _dual_robot_beside_table_gazebo.launch.py: its own ones leave the clock out.
DualBesideTable(a, b, given, load_controller) ==
  [Launch(NoMoveIt,
          IF given # NoParams THEN given
          ELSE generate_dual_ros2_control_params_temp_file(a, b, 1000, FALSE),
          IF load_controller THEN {Broadcaster} \cup ArmControllers(a) \cup ArmControllers(b)
          ELSE {})
   EXCEPT !.group = FALSE, !.sim = TRUE, !.rviz = "none"]

----------------------------------------------------------------------------
(* xarm_moveit_config                                                       *)

FakeLaunch(a) ==
  LET params == generate_ros2_control_params_temp_file(
                  ControllersFile(XarmType(a)), a, NoRate, FALSE)
  IN Launch(to_moveit_configs(a, "fake_controllers", NoPipelines), Ros2Control(a, params),
            {Broadcaster} \cup ArmControllers(a))

\* The driver in the hardware plugin publishes the joints' states and serves
\* the gripper: a joint_state_publisher collects the former.
RealLaunch(a) ==
  LET params == generate_ros2_control_params_temp_file(
                  ControllersFile(XarmType(a)), a, NoRate, FALSE)
  IN [Launch(to_moveit_configs(a, "controllers", NoPipelines), Ros2Control(a, params),
             {ArmTrajController(a)})
      EXCEPT !.driver = TRUE, !.sources = {a.prefix}]

GazeboLaunch(a) ==
  LET params == generate_ros2_control_params_temp_file(
                  ControllersFile(XarmType(a)), a, 1000, TRUE)
  IN [BesideTable(a, params, TRUE)
      EXCEPT !.moveit = to_moveit_configs(a, "fake_controllers", NoPipelines),
             !.group = TRUE, !.rviz = "stays"]

\* py_xarm6_moveit_gazebo.launch.py: for MoveItPy, the arm an xArm6 by default.
PyGazeboLaunch(a) ==
  LET params == generate_ros2_control_params_temp_file(
                  ControllersFile(XarmType(a)), a, 1000, TRUE)
  IN [BesideTable(a, params, TRUE)
      EXCEPT !.moveit = to_moveit_configs(a, "fake_controllers", NoPipelines),
             !.group = TRUE, !.rviz = "stays"]

DualFakeLaunch(a, b) ==
  LET params == generate_dual_ros2_control_params_temp_file(a, b, NoRate, FALSE)
  IN Launch(dual_to_moveit_configs(a, b, "fake_controllers", NoPipelines),
            DualRos2Control(a, b, params),
            {Broadcaster} \cup ArmControllers(a) \cup ArmControllers(b))

DualRealLaunch(a, b) ==
  LET params == generate_dual_ros2_control_params_temp_file(a, b, NoRate, FALSE)
  IN [Launch(dual_to_moveit_configs(a, b, "controllers", NoPipelines),
             DualRos2Control(a, b, params), {ArmTrajController(a), ArmTrajController(b)})
      EXCEPT !.driver = TRUE, !.sources = {a.prefix, b.prefix}]

DualGazeboLaunch(a, b) ==
  LET params == generate_dual_ros2_control_params_temp_file(a, b, 1000, TRUE)
  IN [DualBesideTable(a, b, params, TRUE)
      EXCEPT !.moveit = dual_to_moveit_configs(a, b, "fake_controllers", NoPipelines),
             !.group = TRUE, !.rviz = "stays"]

\* The demos include nothing: RViz is a process like the others.
DemoFake(a) ==
  [Launch(to_moveit_configs(a, "fake_controllers", NoPipelines),
          generate_ros2_control_params_temp_file(ControllersFile(XarmType(a)), a, NoRate, FALSE),
          {Broadcaster} \cup ArmControllers(a))
   EXCEPT !.rviz = "stays"]

DemoRealmove(a) ==
  [Launch(to_moveit_configs(a, "controllers", NoPipelines),
          generate_ros2_control_params_temp_file(ControllersFile(XarmType(a)), a, NoRate, FALSE),
          {ArmTrajController(a)})
   EXCEPT !.driver = TRUE, !.sources = {a.prefix}, !.rviz = "stays"]

DemoDualFake(a, b) ==
  [Launch(dual_to_moveit_configs(a, b, "fake_controllers", NoPipelines),
          generate_dual_ros2_control_params_temp_file(a, b, NoRate, FALSE),
          {Broadcaster} \cup ArmControllers(a) \cup ArmControllers(b))
   EXCEPT !.rviz = "stays"]

DemoDualRealmove(a, b) ==
  [Launch(dual_to_moveit_configs(a, b, "controllers", NoPipelines),
          generate_dual_ros2_control_params_temp_file(a, b, NoRate, FALSE),
          {ArmTrajController(a), ArmTrajController(b)})
   EXCEPT !.driver = TRUE, !.sources = {a.prefix, b.prefix}, !.rviz = "stays"]

----------------------------------------------------------------------------
(* xarm_moveit_servo                                                        *)

\* Servo gets the description, the limits and the pipelines, not the controllers:
\* it publishes to one topic.  Its group is named without the prefix.
ServoMoveIt(a, file) ==
  [to_moveit_configs(a, file, NoPipelines) EXCEPT !.controllers = <<>>]
ServoOf(a) == [group |-> Named("group", XarmType(a)), out |-> ArmTrajController(a)]

ServoFake(a) ==
  LET params == generate_ros2_control_params_temp_file(
                  ControllersFile(XarmType(a)), a, NoRate, FALSE)
  IN [Launch(ServoMoveIt(a, "fake_controllers"), Ros2Control(a, params),
             {Broadcaster} \cup ArmControllers(a))
      EXCEPT !.group = FALSE, !.rviz = "stays", !.servo = ServoOf(a)]

ServoRealmove(a) ==
  LET params == generate_ros2_control_params_temp_file(
                  ControllersFile(XarmType(a)), a, NoRate, FALSE)
  IN [Launch(ServoMoveIt(a, "controllers"), Ros2Control(a, params), {ArmTrajController(a)})
      EXCEPT !.group = FALSE, !.rviz = "stays", !.servo = ServoOf(a),
             !.driver = TRUE, !.sources = {a.prefix}]

----------------------------------------------------------------------------
(* mbot_demo: an xArm6 on a mobile base.                                    *)

\* A diff_drive_controller: it names wheels, no joints.
MbotController == Named("mbot_traj_controller", <<"", 0>>)
MbotFile ==
  [controllers  |-> Updated(ControllersFile(<<"xarm", 6>>).controllers,
                            Entry(MbotController, {})),
   update_rate  |-> 150,
   use_sim_time |-> FALSE]

\* Its own yaml files say of the xArm6 what xarm_moveit_config's do; the name of
\* the controllers' file is not passed on and is the default.
MbotMoveIt(a) == to_moveit_configs(a, "fake_controllers", NoPipelines)

MbotFake(a) ==
  LET params == generate_ros2_control_params_temp_file(MbotFile, a, NoRate, FALSE)
  IN Launch(MbotMoveIt(a), Ros2Control(a, params),
            {Broadcaster, MbotController} \cup ArmControllers(a))

MbotRealmove(a) ==
  LET params == generate_ros2_control_params_temp_file(MbotFile, a, NoRate, FALSE)
  IN [Launch(MbotMoveIt(a), Ros2Control(a, params), {MbotController, ArmTrajController(a)})
      EXCEPT !.driver = TRUE, !.sources = {a.prefix}]

\* _robot_on_mbot_gazebo.launch.py
OnMbot(a, given) ==
  [Launch(NoMoveIt, given, {Broadcaster, MbotController} \cup ArmControllers(a))
   EXCEPT !.group = FALSE, !.sim = TRUE, !.rviz = "none"]

MbotGazebo(a) ==
  LET params == generate_ros2_control_params_temp_file(MbotFile, a, 1000, TRUE)
  IN [OnMbot(a, params) EXCEPT !.moveit = MbotMoveIt(a), !.group = TRUE, !.rviz = "stays"]

----------------------------------------------------------------------------
(* xarm_controller and xarm_gazebo by themselves, without MoveIt.           *)

\* _robot_ros2_control.launch.py: the driver, nothing spawned.
RobotRos2Control(a) ==
  [Launch(NoMoveIt, Ros2Control(a, NoParams), {})
   EXCEPT !.group = FALSE, !.rviz = "none", !.driver = TRUE, !.sources = {a.prefix}]

----------------------------------------------------------------------------
(* xarm_planner: the groups its nodes plan for, started by common2 or from a *)
(* second terminal.                                                         *)

ArmGroup(prefix, robot) == WithPrefix(prefix, Named("group", robot))

\* _robot_planner.launch.py, with the groups its nodes ask for.  The gripper's
\* has no prefix.
RobotPlanner(a) ==
  {ArmGroup(a.prefix, XarmType(a))} \cup
  (IF a.add_gripper /\ a.type # "lite"
   THEN {Named(IF a.type = "uf850" THEN "uf850_gripper" ELSE "xarm_gripper", <<"", 0>>)}
   ELSE {})

\* _dual_robot_planner.launch.py, its node the dual API's test.  The gripper's
\* group is named after the robot.
DualRobotPlanner(a, b) ==
  {ArmGroup(c.prefix, XarmType(c)) : c \in {a, b}} \cup
  {WithPrefix(c.prefix, Named(
     CASE c.type = "xarm" -> "xarm_gripper" [] c.type = "uf850" -> "uf850_gripper"
       [] OTHER -> "xarm7_mirror_gripper", <<"", 0>>)) :
     c \in {c \in {a, b} : c.add_gripper /\ c.type # "lite"}}

----------------------------------------------------------------------------

SingleModes == {"fake", "real", "gazebo", "py_gazebo", "demo_fake", "demo_real",
                "servo_fake", "servo_real", "mbot_fake", "mbot_real", "mbot_gazebo",
                "control", "table"}
DualModes == {"fake", "real", "gazebo", "demo_fake", "demo_real", "table"}

\* Modes that spawn mbot_demo's controllers.
OfMbot(s) == s.mode \in {"mbot_fake", "mbot_real", "mbot_gazebo"}

SingleLaunch(mode, a) ==
  CASE mode = "fake"        -> FakeLaunch(a)
    [] mode = "real"        -> RealLaunch(a)
    [] mode = "gazebo"      -> GazeboLaunch(a)
    [] mode = "py_gazebo"   -> PyGazeboLaunch(a)
    [] mode = "demo_fake"   -> DemoFake(a)
    [] mode = "demo_real"   -> DemoRealmove(a)
    [] mode = "servo_fake"  -> ServoFake(a)
    [] mode = "servo_real"  -> ServoRealmove(a)
    [] mode = "mbot_fake"   -> MbotFake(a)
    [] mode = "mbot_real"   -> MbotRealmove(a)
    [] mode = "mbot_gazebo" -> MbotGazebo(a)
    [] mode = "control"     -> RobotRos2Control(a)
    [] mode = "table"       -> BesideTable(a, NoParams, TRUE)

DualLaunch(mode, a, b) ==
  CASE mode = "fake"      -> DualFakeLaunch(a, b)
    [] mode = "real"      -> DualRealLaunch(a, b)
    [] mode = "gazebo"    -> DualGazeboLaunch(a, b)
    [] mode = "demo_fake" -> DemoDualFake(a, b)
    [] mode = "demo_real" -> DemoDualRealmove(a, b)
    [] mode = "table"     -> DualBesideTable(a, b, NoParams, TRUE)

Launched(s) ==
  IF Len(s.arms) = 1 THEN SingleLaunch(s.mode, s.arms[1])
  ELSE DualLaunch(s.mode, s.arms[1], s.arms[2])

\* The launch file raises when a yaml file it reads is missing.
Launches(s) ==
  /\ \A i \in 1..Len(s.arms) : FilesExist(s.arms[i])
  /\ Len(s.arms) = 2 /\ s.mode # "table" =>
       DualFilesExist(s.arms[1], s.arms[2], NoPipelines)
=============================================================================
