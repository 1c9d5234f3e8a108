-------------------------------- MODULE BringUp --------------------------------
(***************************************************************************)
(* Bringing an arm, or two, up: a launch file (LaunchFiles), the processes  *)
(* it starts and the controllers its spawners activate.                     *)
(*                                                                          *)
(* A launch file is evaluated once (LaunchSetup): it computes the           *)
(* parameters of move_group and of the controller manager and says which    *)
(* controllers are spawned and when.  From then on its processes run by     *)
(* themselves and may fail by themselves.                                   *)
(***************************************************************************)
EXTENDS LaunchFiles

CONSTANT Setups         \* what the user launches: [mode, arms]

ASSUME SetupsAssumption ==
  \A s \in Setups :
    \/ /\ Len(s.arms) = 1 /\ s.mode \in SingleModes
       /\ OfMbot(s) => RobotName(s.arms[1]) = <<"xarm", 6>>
    \/ Len(s.arms) = 2 /\ s.mode \in DualModes

\* Two arms go by different prefixes; by default they are L_ and R_.
NamesDiffer == \A s \in Setups : Len(s.arms) = 2 => s.arms[1].prefix # s.arms[2].prefix

VARIABLES
  setup,        \* what is launched
  launched,     \* what its launch file worked out
  launch,       \* the launch service: "reading" | "running" | "failed" | "down"
  control,      \* the controller manager: "off" | "starting" | "up" | "dead"
  entity,       \* the robot in Gazebo: "none" | "creating" | "created" | "failed"
  rviz,         \* "off" | "open" | "closed"
  spawner,      \* of every controller to be spawned: "waiting" | "done" | "failed"
  servo,        \* the servo server: "off" | "running"
  active        \* the active controllers

bringUp == <<setup, launched, launch, control, entity, rviz, spawner, servo, active>>

----------------------------------------------------------------------------

Init ==
  /\ setup \in Setups
  /\ launched = Nothing
  /\ launch = "reading"
  /\ control = "off"
  /\ entity = "none"
  /\ rviz = "off"
  /\ spawner = <<>>
  /\ servo = "off"
  /\ active = {}

\* The spawners of a simulated robot are held back until its creator exits.
StartSpawners(d) == spawner' = [c \in d.spawned |-> "waiting"]

OpenRviz(d) == rviz' = IF d.rviz = "none" THEN rviz ELSE "open"

BugLaunchSetup ==
  /\ launch = "reading"
  /\ Launches(setup)
  /\ launched' = Launched(setup)
  /\ launch' = "running"
  /\ StartSpawners(launched')
  /\ IF launched'.sim
     THEN entity' = "creating" /\ UNCHANGED <<control, rviz>>
     ELSE control' = "starting" /\ OpenRviz(launched') /\ UNCHANGED entity
  /\ UNCHANGED <<setup, servo, active>>

\* launch_setup of the launch file, and its processes started.
LaunchSetup ==
  /\ launch = "reading"
  /\ IF ~Launches(setup)
     THEN launch' = "failed" /\ UNCHANGED <<launched, control, entity, rviz, spawner>>
     ELSE /\ launched' = Launched(setup)
          /\ launch' = "running"
          /\ IF launched'.sim
             THEN entity' = "creating" /\ UNCHANGED <<control, rviz, spawner>>
             ELSE /\ control' = "starting"
                  /\ OpenRviz(launched')
                  /\ StartSpawners(launched')
                  /\ UNCHANGED entity
  /\ UNCHANGED <<setup, servo, active>>

\* The `create` process exits: RViz and the spawners start, whatever its exit
\* code.  The plugin of a robot that was created brings the manager up.
CreatorExits ==
  /\ launch = "running" /\ entity = "creating"
  /\ \/ entity' = "created" /\ control' = "starting"
     \/ entity' = "failed" /\ UNCHANGED control
  /\ OpenRviz(launched)
  /\ StartSpawners(launched)
  /\ UNCHANGED <<setup, launched, launch, servo, active>>

\* External: ros2_control_node or the simulation's plugin.
ControlUp ==
  /\ launch = "running" /\ control = "starting"
  /\ control' = "up"
  /\ UNCHANGED <<setup, launched, launch, entity, rviz, spawner, servo, active>>

ControlDies ==
  /\ launch = "running" /\ control \in {"starting", "up"}
  /\ control' = "dead"
  /\ active' = {}
  /\ UNCHANGED <<setup, launched, launch, entity, rviz, spawner, servo>>

\* External: a spawner has a controller loaded, configured and activated.  The
\* manager must have its parameters, and its joints must not be taken.
Spawnable(c) ==
  LET known == launched.manager.controllers
  IN /\ c \in DOMAIN known
     /\ \A d \in active : known[c] \cap known[d] = {}

\* on_exit of the arm controller's spawner, whatever its exit code.
ServoStarts(c) == servo' = IF c = launched.servo.out THEN "running" ELSE servo

Spawn(c) ==
  /\ launch = "running" /\ control = "up"
  /\ spawner[c] = "waiting"
  /\ IF Spawnable(c)
     THEN spawner' = [spawner EXCEPT ![c] = "done"] /\ active' = active \cup {c}
     ELSE spawner' = [spawner EXCEPT ![c] = "failed"] /\ UNCHANGED active
  /\ ServoStarts(c)
  /\ UNCHANGED <<setup, launched, launch, control, entity, rviz>>

\* External: it waits a while for a manager.
GiveUp(c) ==
  /\ launch = "running" /\ control \in {"off", "dead"}
  /\ spawner[c] = "waiting"
  /\ spawner' = [spawner EXCEPT ![c] = "failed"]
  /\ ServoStarts(c)
  /\ UNCHANGED <<setup, launched, launch, control, entity, rviz, active>>

Down == launch' = "down" /\ control' = "off" /\ servo' = "off" /\ active' = {}

\* The RViz of common2 takes the whole launch down with it, no other does.
RvizCloses ==
  /\ launch = "running" /\ rviz = "open"
  /\ rviz' = "closed"
  /\ IF launched.rviz = "ends" THEN Down ELSE UNCHANGED <<launch, control, servo, active>>
  /\ UNCHANGED <<setup, launched, entity, spawner>>

\* Ctrl-C
Interrupted ==
  /\ launch = "running"
  /\ Down /\ rviz' = "closed"
  /\ UNCHANGED <<setup, launched, entity, spawner>>

Next ==
  \/ LaunchSetup
  \/ CreatorExits
  \/ ControlUp
  \/ ControlDies
  \/ \E c \in DOMAIN spawner : Spawn(c) \/ GiveUp(c)
  \/ RvizCloses \/ Interrupted

\* Processes that run get on; a manager is not started if nothing starts it.
Fairness ==
  /\ WF_bringUp(LaunchSetup)
  /\ WF_bringUp(CreatorExits)
  /\ WF_bringUp(ControlUp)
  /\ WF_bringUp(\E c \in DOMAIN spawner : Spawn(c) \/ GiveUp(c))

Spec == Init /\ [][Next]_bringUp /\ Fairness

----------------------------------------------------------------------------
(* Properties.                                                              *)

\* Everything that was to be started is, and works.
Complete ==
  /\ launch = "running" /\ control = "up"
  /\ launched.sim => entity = "created"
  /\ \A c \in DOMAIN spawner : spawner[c] # "waiting"

\* External: the driver in the hardware plugin serves the gripper action of an
\* arm that is not a Lite.
ServedByDriver(a) ==
  {WithPrefix(a.prefix, Named(g, <<"", 0>>)) : g \in
     (IF a.add_gripper /\ a.type # "lite" THEN {"xarm_gripper"} ELSE {}) \cup
     (IF a.add_bio_gripper /\ a.type # "lite" THEN {"bio_gripper"} ELSE {})}

Arms == {setup.arms[i] : i \in 1..Len(setup.arms)}

\* When a bring-up has completed MoveIt can execute what it plans: each of the
\* controllers in its parameters is active in the manager for the same joints,
\* or is an action of the arm's driver, every arm's joint states reach it, and
\* the clock that trajectories are stamped with is the manager's.  A servo
\* server sends to an active controller and, without a prefix, moves a group
\* that exists.
\* The names come from three places: MoveIt's files with the builder's prefix,
\* the manager's files with the utilities' prefix, and the launch file's list.
\* (On the real mobile base MoveIt is told of the simulated gripper's controller.)
MoveItIsServed ==
  Complete =>
    LET wanted == launched.moveit.controllers
        known  == launched.manager.controllers
        own    == IF OfMbot(setup) /\ launched.driver
                  THEN {ArmTrajController(a) : a \in Arms} ELSE DOMAIN wanted
    IN /\ \A c \in own :
            \/ c \in active /\ known[c] = wanted[c]
            \/ launched.driver /\ \E a \in Arms : c \in ServedByDriver(a)
       /\ launched.group => launched.manager.use_sim_time = launched.sim
       /\ \/ Broadcaster \in active
          \/ launched.driver /\ launched.sources = {a.prefix : a \in Arms}
       /\ servo = "running" =>
            /\ launched.servo.out \in active
            /\ setup.arms[1].prefix = "" => launched.servo.group \in launched.moveit.semantic

\* Two arms of one make, or grippers of one make at least.
SameGrippers == Len(setup.arms) = 2 =>
  GripperOf2(setup.arms[1], setup.arms[2]) = GripperOf(setup.arms[2])

\* The groups that xarm_planner's nodes ask for.
PlannerGroups ==
  IF Len(setup.arms) = 1 THEN RobotPlanner(setup.arms[1])
  ELSE DualRobotPlanner(setup.arms[1], setup.arms[2])

\* One arm's gripper planner leaves the prefix out, that of two arms takes the
\* mirrored xArm7's gripper for one of its own.
Misnamed ==
  IF Len(setup.arms) = 1 /\ setup.arms[1].prefix # ""
  THEN {Named(g, <<"", 0>>) : g \in {"xarm_gripper", "uf850_gripper"}}
  ELSE {WithPrefix(a.prefix, Named("xarm7_mirror_gripper", <<"", 0>>)) : a \in Arms}

\* What MoveIt is told covers what it plans for: every joint that one of its
\* controllers moves has limits, every arm of the SRDF has an inverse
\* kinematics solver and every group has planners, the default pipeline is
\* loaded, and the groups that xarm_planner's nodes plan for exist.  (A second
\* arm with another make's gripper gets the limits of the first's; the bio
\* gripper's planners are filed under another group's name.)
ConfigCoversArms ==
  launch = "running" /\ launched.group =>
    LET m == launched.moveit
    IN /\ SameGrippers => UNION {m.controllers[c] : c \in DOMAIN m.controllers} \subseteq m.limits
       /\ m.kinematics = {g \in m.semantic : g[2] = "group"}
       /\ {g \in m.semantic : g[2] # "bio_gripper"} \subseteq m.pipelines.groups
       /\ m.pipelines.defaults \subseteq m.pipelines.loaded
       /\ PlannerGroups \ Misnamed \subseteq m.semantic

\* A script without a launch context builds the same parameters from
\* substitutions, evaluated when its node starts: they agree with what the
\* launch file gave to move_group.  (Of two arms with grippers of different
\* makes the deferred form takes the second's controllers from the first's
\* gripper, the other one its limits.)
DeferredAgrees ==
  launch = "running" /\ launched.group =>
    LET m == launched.moveit
        a == setup.arms[1]
        b == setup.arms[2]
        file == IF launched.driver /\ ~OfMbot(setup) THEN "controllers" ELSE "fake_controllers"
    IN IF Len(setup.arms) = 1
       THEN /\ m.controllers = ControllersYAML(a, file)
            /\ m.limits = JointLimitsYAML(a)
            /\ m.kinematics = KinematicsYAML(a)
            /\ m.pipelines.groups = PlanningPipelinesYAML(a)
       ELSE /\ SameGrippers => m.controllers = DualControllersYAML(a, b, file)
            /\ SameGrippers => m.limits = DualJointLimitsYAML(a, b)
            /\ m.kinematics = DualKinematicsYAML(a, b)
            /\ m.pipelines.groups = DualPlanningPipelinesYAML(a, b)

\* With a prefix the base's controller has another name in the parameters than
\* on its spawner's command line.
Unknown == IF OfMbot(setup) /\ setup.arms[1].prefix # "" THEN {MbotController} ELSE {}

\* A launch file whose files exist brings every controller up, unless the
\* manager dies, the simulated robot is not created or the launch is ended.
ControllersComeUp ==
  <>(\/ launch \in {"failed", "down"}
     \/ control = "dead"
     \/ entity = "failed"
     \/ Complete /\ active = launched.spawned \ Unknown)
=============================================================================
