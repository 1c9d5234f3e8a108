----------------------------- MODULE MoveItConfigs -----------------------------
(***************************************************************************)
(* How the parameters of MoveIt and of the controller manager are put       *)
(* together from yaml files: uf_ros_lib's moveit_configs_builder.py (a      *)
(* single arm and a dual one, at once when the launch context is given),    *)
(* its substitutions (the same, read only when a node starts) and           *)
(* uf_robot_utils.py.                                                       *)
(*                                                                          *)
(* A name is <<prefix, kind, of>>; in the files the prefix is "".  A yaml   *)
(* map is a function, dict.update is Updated, a rename is Prefixed.         *)
(***************************************************************************)
EXTENDS Integers

NoPipelines == {}       \* pipelines=None
Pilz == "pilz_industrial_motion_planner"

----------------------------------------------------------------------------
(* Dictionaries.                                                            *)

Entry(name, value) == [n \in {name} |-> value]
Updated(d, e) ==
  [n \in DOMAIN d \cup DOMAIN e |-> IF n \in DOMAIN e THEN e[n] ELSE d[n]]

----------------------------------------------------------------------------
(* The files.                                                               *)

\* config/<robot> of xarm_moveit_config and <robot>_controllers.yaml
Robots == {<<"xarm", 5>>, <<"xarm", 6>>, <<"xarm", 7>>, <<"lite", 6>>,
           <<"uf850", 0>>, <<"xarm7_mirror", 0>>}
\* config/<gripper>_gripper and <gripper>_gripper_controllers.yaml
Grippers == {"xarm", "uf850", "xarm7_mirror", "bio"}

Axes(robot) == CASE robot[1] = "uf850" -> 6
                 [] robot[1] = "xarm7_mirror" -> 7
                 [] OTHER -> robot[2]
ArmJoints(robot) == {<<"", "joint", i>> : i \in 1..Axes(robot)}
MovedJoint(gripper) ==
  <<"", IF gripper = "bio" THEN "right_finger_joint" ELSE "drive_joint", 0>>

Named(kind, of)     == <<"", kind, of>>
ArmController(robot) == Named("traj_controller", robot)
GripperController(gripper) == Named("gripper_traj_controller", <<gripper, 0>>)
Broadcaster == Named("joint_state_broadcaster", <<"", 0>>)

\* controllers.yaml or fake_controllers.yaml of a robot and of a gripper
RobotYaml(robot) == Entry(ArmController(robot), ArmJoints(robot))
GripperYaml(gripper, file) ==
  CASE gripper = "none" -> <<>>
    [] gripper # "none" /\ file = "fake_controllers" ->
         Entry(GripperController(gripper), {MovedJoint(gripper)})
    [] OTHER ->
         Entry(Named(IF gripper = "bio" THEN "bio_gripper" ELSE "xarm_gripper", <<"", 0>>),
               {MovedJoint(gripper)})

\* joint_limits.yaml
GripperLimits(gripper) ==
  IF gripper = "none" THEN {}
  ELSE {MovedJoint(gripper)} \cup {<<"", j, 0>> : j \in
         IF gripper = "bio" THEN {"left_finger_joint"}
         ELSE {"left_finger_joint", "left_inner_knuckle_joint", "right_finger_joint",
               "right_inner_knuckle_joint", "right_outer_knuckle_joint"}}

\* Only the robots' own folders are searched for pipelines: all have ompl's.
PipelinesOf(robot) == {"ompl"}
\* sensors_3d.yaml
HasSensors(robot) == robot = <<"xarm", 6>>

----------------------------------------------------------------------------
(* Renaming.                                                                *)

WithPrefix(prefix, name) == IF prefix = "" THEN name ELSE <<prefix, name[2], name[3]>>
AllWithPrefix(prefix, names) == {WithPrefix(prefix, n) : n \in names}

Prefixed(prefix, d) ==
  [n \in AllWithPrefix(prefix, DOMAIN d) |-> d[Named(n[2], n[3])]]

\* A map from controllers to joints, both renamed.
BugPrefixedControllers(prefix, d) == Prefixed(prefix, d)
PrefixedControllers(prefix, d) ==
  Prefixed(prefix, [c \in DOMAIN d |-> AllWithPrefix(prefix, d[c])])

----------------------------------------------------------------------------
(* One arm, as the launch arguments describe it.                            *)

\* __init__: of the arguments, the ones by which files are found and names are
\* made; the others go into the URDF, which is left out.
MoveItConfigsBuilder(robot, prefix, add_gripper, add_bio_gripper) ==
  [type |-> robot[1], dof |-> robot[2], prefix |-> prefix,
   add_gripper |-> add_gripper, add_bio_gripper |-> add_bio_gripper]

\* robot_name of the builder: a Lite is a lite6 whatever its dof
RobotName(a) ==
  <<a.type, IF a.type = "xarm" THEN a.dof ELSE IF a.type = "lite" THEN 6 ELSE 0>>
\* xarm_type of the launch files
XarmType(a) == <<a.type, IF a.type \in {"xarm", "lite"} THEN a.dof ELSE 0>>

\* There are files for the robot it is.
FilesExist(a) == RobotName(a) \in Robots /\ XarmType(a) \in Robots

\* Which gripper's folder is merged in.
GripperOf(a) ==
  IF a.type = "lite" THEN "none"
  ELSE IF a.add_gripper THEN a.type
  ELSE IF a.add_bio_gripper THEN "bio" ELSE "none"

trajectory_execution(a, file) ==
  PrefixedControllers(a.prefix,
    Updated(RobotYaml(RobotName(a)), GripperYaml(GripperOf(a), file)))

BugJointLimits(a) == AllWithPrefix(a.prefix, ArmJoints(RobotName(a)))
joint_limits(a) ==
  AllWithPrefix(a.prefix, ArmJoints(RobotName(a)) \cup GripperLimits(GripperOf(a)))

robot_description_kinematics(a) == {WithPrefix(a.prefix, Named("group", RobotName(a)))}

\* robot_description_semantic: the groups the xacro puts into the SRDF
robot_description_semantic(a) ==
  {WithPrefix(a.prefix, Named("group", RobotName(a)))} \cup
  (CASE GripperOf(a) = "none" -> {}
     [] GripperOf(a) = "bio" -> {WithPrefix(a.prefix, Named("bio_gripper", <<"", 0>>))}
     [] GripperOf(a) = "uf850" -> {WithPrefix(a.prefix, Named("uf850_gripper", <<"", 0>>))}
     [] OTHER -> {WithPrefix(a.prefix, Named("xarm_gripper", <<"", 0>>))})

\* Whether MoveIt is given a camera whose points fill the octomap.
sensors_3d(a) == HasSensors(RobotName(a))

\* "ompl" when it is among the pipelines or there is none, else any of them.
DefaultPipelines(pipelines) ==
  IF pipelines = {} \/ "ompl" \in pipelines THEN {"ompl"} ELSE pipelines

\* The groups ompl is given planners for: the keys of the merged files that
\* are no planner's.  The bio gripper's file has another name than the SRDF.
GroupsOf(a, gripper) ==
  {Named("group", RobotName(a))} \cup
  (CASE gripper = "none" -> {}
     [] gripper = "bio" -> {Named("bios_gripper", <<"", 0>>)}
     [] gripper = "uf850" -> {Named("uf850_gripper", <<"", 0>>)}
     [] OTHER -> {Named("xarm_gripper", <<"", 0>>)})

planning_pipelines(a, asked) ==
  LET pipelines == IF asked = NoPipelines THEN PipelinesOf(RobotName(a)) ELSE asked
  IN [loaded   |-> pipelines,
      defaults |-> DefaultPipelines(pipelines),
      groups   |-> IF "ompl" \in pipelines
                   THEN AllWithPrefix(a.prefix, GroupsOf(a, GripperOf(a))) ELSE {}]

\* The robots have no pilz_cartesian_limits.yaml: the common one is taken.
pilz_cartesian_limits(loaded) == Pilz \in loaded

\* to_moveit_configs: what has not been loaded yet is, the limits of Pilz when
\* its pipeline is.
to_moveit_configs(a, file, asked) ==
  LET pipelines == planning_pipelines(a, asked)
  IN [controllers |-> trajectory_execution(a, file),
      limits      |-> joint_limits(a),
      kinematics  |-> robot_description_kinematics(a),
      semantic    |-> robot_description_semantic(a),
      pipelines   |-> pipelines,
      pilz        |-> pilz_cartesian_limits(pipelines.loaded),
      sensors     |-> sensors_3d(a)]

----------------------------------------------------------------------------
(* Two arms.                                                                *)

\* __init__: the same for each arm.
DualMoveItConfigsBuilder(a, b) == <<a, b>>

\* Arm 2's limits are looked up in arm 1's gripper folder.
GripperOf2(a, b) == IF GripperOf(b) = b.type THEN a.type ELSE GripperOf(b)

\* load_yaml raises when a file is missing: there is no folder for a Lite's
\* gripper, and only ompl's file is in the robots' folders.
DualFilesExist(a, b, asked) ==
  /\ GripperOf2(a, b) \in Grippers \cup {"none"}
  /\ asked \subseteq {"ompl"}

dual_trajectory_execution(a, b, file) ==
  Updated(trajectory_execution(a, file), trajectory_execution(b, file))

dual_joint_limits(a, b) ==
  joint_limits(a) \cup
  AllWithPrefix(b.prefix, ArmJoints(RobotName(b)) \cup GripperLimits(GripperOf2(a, b)))

dual_robot_description_kinematics(a, b) ==
  robot_description_kinematics(a) \cup robot_description_kinematics(b)

dual_robot_description_semantic(a, b) ==
  robot_description_semantic(a) \cup robot_description_semantic(b)

dual_sensors_3d(a, b) == sensors_3d(a) \/ sensors_3d(b)

dual_planning_pipelines(a, b, asked) ==
  LET p == planning_pipelines(a, asked)
      q == planning_pipelines(b, asked)
  IN [loaded   |-> p.loaded \cup q.loaded,
      defaults |-> DefaultPipelines(p.loaded \cup q.loaded),
      groups   |-> p.groups \cup q.groups]

dual_pilz_cartesian_limits(loaded) == Pilz \in loaded

dual_to_moveit_configs(a, b, file, asked) ==
  LET pipelines == dual_planning_pipelines(a, b, asked)
  IN [controllers |-> dual_trajectory_execution(a, b, file),
      limits      |-> dual_joint_limits(a, b),
      kinematics  |-> dual_robot_description_kinematics(a, b),
      semantic    |-> dual_robot_description_semantic(a, b),
      pipelines   |-> pipelines,
      pilz        |-> dual_pilz_cartesian_limits(pipelines.loaded),
      sensors     |-> dual_sensors_3d(a, b)]

----------------------------------------------------------------------------
(* Without a launch context the same maps are put together by substitutions *)
(* when the node that takes them starts.                                    *)

ControllersYAML(a, file) ==
  PrefixedControllers(a.prefix,
    Updated(RobotYaml(RobotName(a)), GripperYaml(GripperOf(a), file)))

JointLimitsYAML(a) ==
  AllWithPrefix(a.prefix, ArmJoints(RobotName(a)) \cup GripperLimits(GripperOf(a)))

KinematicsYAML(a) == {WithPrefix(a.prefix, Named("group", RobotName(a)))}

\* PlanningPipelinesYAML of ompl, the only one without `pipelines`: any other
\* pipeline is looked for in the robot's folder, where it is missing.
PlanningPipelinesYAML(a) == AllWithPrefix(a.prefix, GroupsOf(a, GripperOf(a)))

\* Here it is arm 2's controllers that come from arm 1's gripper.
DualControllersYAML(a, b, file) ==
  Updated(ControllersYAML(a, file),
    PrefixedControllers(b.prefix,
      Updated(RobotYaml(RobotName(b)), GripperYaml(GripperOf2(a, b), file))))

BugDualJointLimitsYAML(a, b) == JointLimitsYAML(a) \cup JointLimitsYAML([b EXCEPT !.prefix = a.prefix])
DualJointLimitsYAML(a, b) == JointLimitsYAML(a) \cup JointLimitsYAML(b)

DualKinematicsYAML(a, b) == KinematicsYAML(a) \cup KinematicsYAML(b)

DualPlanningPipelinesYAML(a, b) == PlanningPipelinesYAML(a) \cup PlanningPipelinesYAML(b)

----------------------------------------------------------------------------
(* uf_robot_utils.py: the parameters of the controller manager.             *)

NoRate == 0             \* update_rate=None

ControllersFile(robot) ==
  [controllers  |-> Updated(RobotYaml(robot), Entry(Broadcaster, {})),
   update_rate  |-> 150,
   use_sim_time |-> FALSE]

\* A gripper file that does not exist is passed over; the bio gripper's does.
GripperFile(a) ==
  IF a.add_gripper
  THEN IF a.type \in Grippers
       THEN Entry(GripperController(a.type), {MovedJoint(a.type)}) ELSE <<>>
  ELSE IF a.add_bio_gripper THEN Entry(GripperController("bio"), {MovedJoint("bio")}) ELSE <<>>

\* The broadcaster has no section of its own and keeps its name.
add_prefix_to_ros2_control_params(prefix, controllers) ==
  Updated(Entry(Broadcaster, {}),
    PrefixedControllers(prefix, [c \in DOMAIN controllers \ {Broadcaster} |-> controllers[c]]))

\* The file as it is when there is nothing to change, the clock not looked at.
generate_ros2_control_params_temp_file(file, a, rate, sim) ==
  IF a.prefix = "" /\ ~a.add_gripper /\ ~a.add_bio_gripper /\ rate = NoRate
  THEN file
  ELSE [controllers  |-> add_prefix_to_ros2_control_params(a.prefix,
                           Updated(file.controllers, GripperFile(a))),
        update_rate  |-> IF rate = NoRate THEN file.update_rate ELSE rate,
        use_sim_time |-> file.use_sim_time \/ sim]

generate_dual_ros2_control_params_temp_file(a, b, rate, sim) ==
  LET Of(c) == add_prefix_to_ros2_control_params(c.prefix,
                 Updated(ControllersFile(XarmType(c)).controllers, GripperFile(c)))
      file == ControllersFile(XarmType(b))
  IN [controllers  |-> Updated(Of(a), Of(b)),
      update_rate  |-> IF rate = NoRate THEN file.update_rate ELSE rate,
      use_sim_time |-> file.use_sim_time \/ sim]
=============================================================================
