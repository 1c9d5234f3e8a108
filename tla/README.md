# xarm_ros2: a verification development in TLA+

The repository drives UFACTORY arms from ROS 2 and adds a hybrid-planning demo,
visual servoing and pick-and-place scripts. This directory models the parts of
it that decide something over time or that have to agree with each other: the
hardware plugin that takes controllers down and up around a fault of the arm, the
two plugins of the hybrid planner that were written for the demo, the action
servers of the grippers, the services through which programs command the arm, the
parameters and launch files that bring a robot up, and the scripts that use it.
Paths below are relative to `src/`.

## 1. Inventory

| part | state it keeps | operations | what is hard | what makes it correct |
|---|---|---|---|---|
| **Hardware plugin** `xarm_controller/src/hardware/uf_robot_system_hardware.cpp` | `position_states_`, `position_cmds_`, `velocity_cmds_`, `prev_cmds_float_`, `initialized_`, `read_ready_`, `read_code_`, `reactivate_controller_later_`, reused service requests | `on_activate`, `on_deactivate`, `read`, `write`, with `_deactivate_controller` / `_activate_controller` | runs in the controller manager's loop, decides on members another thread refreshes, blocks in calls to the very manager whose loop it is in | a recovered arm does not jump; controllers go down in a fault and come back after it |
| **XArmDriver** `xarm_api/src/xarm_driver.cpp` | `curr_state`, `curr_err`, `curr_mode`, joint states, gripper goals | report callback, `update_joint_states`, gripper action servers | report thread against everything else; detached threads share one gripper result | cached state follows the arm; one gripper goal does not answer for another |
| **Driver services** `xarm_api/src/xarm_driver_service.cpp` | none of its own | checks of lengths, then one SDK call per service; two for `set_mode` | a single thread serves everybody; `set_mode` stops the arm first, and `set_state` may start it | what is refused has no effect; `set_mode` finds the arm stopped |
| **ROS client** `xarm_api/src/xarm_ros_client.cpp` | one request object per type of service, and responses | one wrapper per service, `_call_request` | the request objects are shared by wrappers that assign different fields; it waits without a time-out for a driver that may go away | a call takes effect once, with its own arguments; it returns |
| **ReplanWhenIdle** `xarm_hybrid_planning/src/replan_when_idle.cpp` | `global_planning_in_flight_`, `replan_attempts_`, two time stamps, `local_planner_started_` | both `react()`, `requestGlobalPlanIfIdle()` | results that are lost, late, not matched with requests; a watchdog nobody calls | one request at a time, spread, bounded; one answer per goal; the goal ends |
| **NearestWaypointSampler** `xarm_hybrid_planning/src/nearest_waypoint_sampler.cpp` | `reference_trajectory_`, `next_waypoint_index_`, `needs_anchor_`, `stalled_cycles_`, `feedback_` | `addTrajectorySegment`, `getLocalTrajectory`, `getTrajectoryProgress`, `reset` | a trajectory is replaced at any moment; progress looks at an index and not at the arm; a feedback that is set stays | valid index, earned success, no waypoint given back, the trajectory ends |
| **Configuration** `uf_ros_lib/uf_ros_lib/` (`moveit_configs_builder.py`, `uf_robot_utils.py`, `substitutions/`) | dictionaries read from yaml files | one builder for an arm, one for two; the same again as deferred substitutions; the parameters of the controller manager | names of controllers, joints and groups are made in three places with two sorts of prefix, per make of arm and gripper | all of them mean the same thing |
| **Launch files** `xarm_moveit_config/launch/`, `xarm_gazebo/launch/`, `xarm_controller/launch/`, `xarm_moveit_servo/launch/`, `xarm_planner/launch/`, `demo/mbot_demo/launch/` | launch configurations; what was started | `launch_setup`, exit handlers | which controllers are spawned, when, and under which manager | every controller comes up; MoveIt can execute what it plans |
| **Pick and place** `xarm_scripts/xarm_scripts/pick_and_place.py`, `moveit_utils.py` | its own planning scene, goals | fourteen blocking steps, all but the motions with time limits | looks at the outcome of almost nothing; late answers; two planning scenes | the cube is known to the planner while it is carried, and is put down |
| **Hybrid demo client** `xarm_scripts/xarm_scripts/hybrid_planning_demo.py` | goal, scene, the surprise | `run()`, callbacks | waits for a service in a callback of the only thread; does not cancel a goal it gives up | one wall at a time; it ends |
| **Moving target** `xarm_scripts/xarm_scripts/aruco_target_mover.py` | flags of its phases, arc length, lap, speed | `tick()` at 50 Hz | accumulated lengths against the ends of legs and laps | smooth, and it parks |
| **Visual servoing node** `xarm_scripts/xarm_scripts/aruco_servo.py`, `servo_utils.py` | last detection, stopwatch, phase of the grasp | image callback, `control()`, `_step_grasp()` | two timers command one arm; the cart is slow at moments when it is not parked | the cube is taken from a cart that stands, and lifted by closed fingers |
| **Exercise launch chains** `xarm_scripts/launch/visual_servo.launch.py`, `hybrid_planning_xarm6.launch.py` | the state of two controllers that claim the same joints | a chain of shell commands whose failures are swallowed | launched again on whatever the last launch left | the node starts with the arm and the controllers where it needs them |
| **SceneSyncingPipeline** `xarm_hybrid_planning/src/scene_syncing_pipeline.cpp` | the scene of the planner's node | fetch the scene, plan | plans with a scene that has gone stale | - |
| **XArmPlanner** `xarm_planner/src/xarm_planner.cpp` | two stored plans, `is_trajectory_` | plan joint/pose/path, execute | executing what was not planned | the plan executed is the last successful one |
| **Teleoperation** `xarm_moveit_servo/src/` | frame and mode | joystick, keyboard | - | - |
| **Other scripts, worlds, vision, descriptions** | - | - | - | - |

How they interact. MoveIt's HybridPlanningManager (external) passes the events of
its client, of the global and of the local planner to `ReplanWhenIdle::react()`,
which sends actions back through it; the global planner publishes its trajectory
to the local planner, whose cycle asks `NearestWaypointSampler` for the progress
and the waypoint. What it commands reaches a ros2_control controller, which writes
the command interfaces of the hardware plugin; the plugin's `read()` and `write()`
call the SDK through XArmDriver and the controller manager's services. The report
thread of the SDK writes the members the plugin decides on. Programs reach the
driver through the services of `XArmROSClient` and the gripper action; a
`set_state` or `set_mode` of theirs is what the hardware plugin sees as a
disturbance or a restoration of the arm. A launch file builds the parameters of
move_group and of the controller manager, starts both, and spawns the controllers;
scripts are started against it from a second terminal, build their own parameters
with the deferred form of the builder, send goals to the controllers and keep the
planning scene of move_group in step with theirs.

`PROJECT.json` lists the components with their status, and every hazard of the
code at its line.

## 2. The modules

| module | models | composed of |
|---|---|---|
| `RobotHW` | the hardware plugin | |
| `ReplanWhenIdle` | the planner logic | |
| `NearestWaypointSampler` | the trajectory operator | |
| `GripperAction` | the action servers of the grippers | |
| `XArmServices` | client and driver | `XArmServiceTable`; implements `ArmCalls` |
| `MoveItConfigs`, `LaunchFiles` | parameters and launch files, as operators | |
| `BringUp` | the processes a launch file starts | `LaunchFiles`, `MoveItConfigs` |
| `PickPlace`, `HybridDemo` | the two scripts | |
| `RobotCell` | a bring-up with a script on top | `BringUp`, `PickPlace`, `HybridDemo` |
| `TargetMover`, `MarkerServo`, `PositionControl` | cart, servo node and launch chain of the exercise | |
| `VisualServo` | the exercise | the three above |

`*_proof` modules extend a module with its theorems, `MC*` modules give the
instances that are model-checked.

### RobotHW: the hardware plugin

The control loop is one thread and runs `read()`, the manager's `update()` and
`write()` in turn. `pc` is the point where it is, and there is a step wherever
another actor can get in: between the readiness sample and the measurement of
`read()`, before and after each service call of `write()`, before the command is
sent. Variables carry the names of the members; `position_cmds_` and
`velocity_cmds_` are one variable `cmds`, of which `VelocityControl` says which it
is; `curr` holds `curr_err`, `curr_state > 2` and `curr_mode = SERVO`, which is all
the plugin looks at. The calls of `_call_request()` are a step for the list and one
for the switch. Every switch request goes through a queue in the manager:
`Update` carries out the one that is ready, after the active controllers have
written their commands, as the manager's loop does.

| actions | code |
|---|---|
| `OnActivate`, `OnDeactivate` | 248-293 |
| `ReadReady`, `MeasureOk`, `MeasureFails` | `read()`, 295-337 |
| `WriteReset`, `ListToDeactivate`, `SwitchToDeactivate` | `write()` 341-345, `_deactivate_controller()` 398-424 |
| `WriteReady`, `ListToActivate`, `SwitchToActivate` | `write()` 346-351, `_activate_controller()` 426-441 |
| `Send` | `write()` 364-396 |
| `Report` | `XArmDriver::_report_data_callback`, a field at a time |
| `ArmDisturbed`, `ArmRestored`, `ArmMovedByHand` | the arm and its operator |
| `Update`, `PickUp`, `Spawn` | controller manager (external) and launch files |

`write_code_` is set to 0 in the constructor and nowhere assigned, so `_need_reset`
depends on the readiness and on `read_code_` only. A joint read that says the robot
is disconnected ends the process: `pc = "exited"`, which is why these runs do not
check for deadlock. `read_ready_` is not initialised; both values are initial.

What surrounds the plugin is the record `site`, one of `Sites` and constant in a
behaviour: the controllers that are spawned, `reliable` (service calls are answered
within their second), `operatorWaits` (nobody restores the arm before the plugin has
seen the fault and let the controllers go) and `spawnerRaces` (launch files activate
controllers during a reset). A property says in its antecedent which site it needs,
so that one run asks it of all. `MCRobotHW` has four: `Adverse` with the arm's controller
alone, and `Careful`, `TwoSpawners` and `Answering` with the two that every launch file
spawns at least. The liveness properties say in their antecedents what the spawners must
not do: `SpawnersThrough` (when a reset has listed the controllers every spawner has asked
for its activation) and `ThroughAndServed` (and has got it). Spawners may still come
between any other steps. A displacement between the measurement and the end of
a cycle that is not blocked is below the resolution of the positions.

### ReplanWhenIdle: the planner logic

The events are the actions. `requestGlobalPlanIfIdle()` is `Busy` and `TooSoon` (its
two early returns) and `Attempt` (the rest). A time stamp is the age it is compared
by, capped just above the constant it is compared with, so that `Tick` keeps the
state finite. `outstanding` holds the age of each request the global planner works
on; a result takes one out, in any order and at any age, or it is lost. A goal may
come before the previous one is over. `orderly` is a history variable: it is true
while the present goal was sent after the last one was over and no result of a
request that had been given up has come since; the properties that need order are
about such goals. A late result, success or abort, is taken at any moment: it ends the
order and nothing else.

### NearestWaypointSampler: the trajectory operator

One cycle of MoveIt's local planner is `Finish` (the progress is 1.0) or
`GetLocalTrajectory`, then the arm moves. The three branches of
`getLocalTrajectory()` are `Advance`, `Reanchor` and `Wait`. Joint space is
one-dimensional; the code only compares distances. `getWayPointCount() - 1` is
computed in a `size_t`: `LastIndex` wraps to `SizeMax` for an empty trajectory.
`nearestWaypoint()` is there twice: `Nearest` says which waypoint is meant, the first of the
closest, and `NearestByLoop` is the loop of the code as a recursive function (`BestOf`). The
run compares them, `LoopIsRight` proves that they are the same.
`held` says that an obstacle holds the arm where it is, for as long as it likes.
`feedback` is the member that every cycle returns. An empty trajectory sets it
(`GetLocalTrajectoryOfNothing`), neither `reset()` nor a later trajectory clears it, and
the local planner commands nothing that comes with a feedback, while the index goes on.
`SuccessMeansGoalCommanded`, `TrajectoryEnds` and `ArmArrives` are about an operator whose
`feedback` is still empty.

### GripperAction: the gripper action servers

Every accepted goal has two threads. `Begin` to `Answer` are the executing one
(`_xarm_gripper_action_execute`, 548-669): publish, convert, send the order, poll
until the jaws stand still, answer. `MoverStart` to `MoverClears` are the thread it
launches, which blocks in the SDK and refers to the locals of the first: they exist
until `Return`. The result object is shared by all goals, so it is read when a goal
is answered. A third thread publishes the position of start-up until the first goal
raises `xarm_gripper_init_loop_`. `Bio` selects the other server (764-881), whose
conversions and orders differ. A refused goal calls `canceled()`, which throws
unless a cancellation was asked for; the destructor of the goal handle then ends the
goal. A position that cannot be read is 0. `overlapped` is history: another goal was
open at the same time.

### XArmServiceTable, XArmServices, ArmCalls: client and driver

`XArmServiceTable` holds, for each wrapper of the client, the fields it assigns
(`Gives`) and, for each handler of the driver, the fields it passes on (`Reads`) and
whether it refuses a wrong length (`Checked`). Its assumption `OnlyCartesianIsStale`
is computed from these tables on every run: three wrappers, all of `MoveCartesian`,
can send what another wrapper left in the shared request, and one,
`set_tgpio_modbus_timeout`, waits for a service of another type than the driver's.

`XArmServices` puts clients and driver together. A call goes through `waiting`,
`checked` (the service is there), `queued`, `taken`, `done` and `answered`; `stopping`
is the pause between the two SDK calls of `set_mode`. A field holds the number of the
call whose argument it carries, 0 for the default of the message.

| actions | code |
|---|---|
| `Call` (with `Fill`) | a wrapper, e.g. `set_position` 641-651 |
| `ServiceFound`, `Interrupted`, `Send`, `Receive` | `_call_request()`, `xarm_ros_client.cpp` 212-267 |
| `Shutdown` | the client's node is no longer spun (199-203) |
| `Take` | `rclcpp::spin`, `xarm_driver_node.cpp` 174 |
| `Refuse`, `CallSDK`, `Respond` | a handler, e.g. `_set_position` 991-999 |
| `StopFirst` | `_set_mode` 543-546 |
| `DriverStops`, `DriverStarts`, `ArmStops` | the process and the arm |

`ArmCalls` is what a caller may rely on, with no request, service or driver in it: a
call is asked, executed or refused at one moment, and returns, or is lost.
`XArmServices` implements it under the mapping `Calls`: `commands`, stripped to the
number of the call and to whether the arguments its wrapper was given are its own, is
`executed`. `CallsAreAtomic` is this implementation, checked by a run and proved.

### MoveItConfigs: the parameters

Pure operators, named after the functions they translate. A name of the yaml files is
a triple `<<prefix, kind, of>>`, with the prefix `""` in the files, so that applying a
prefix is replacing the first component (`WithPrefix`) and renaming the keys of a map
is `Prefixed`; `Entry` is a dictionary of one item and `dict.update` is `Updated`. A map of controllers sends each name to its
joints; limits, kinematics and semantics are the sets of the names they are about. The
values in the files are left out. A missing file is what makes `load_yaml` raise
(`FilesExist`, `DualFilesExist`).

The builder exists twice in the code. With a launch context `to_moveit_configs()`
computes dictionaries at once (`trajectory_execution`, `joint_limits`, ... and
`dual_...`); without one it returns substitutions that are evaluated when a node
starts (`ControllersYAML`, `JointLimitsYAML`, ... and `Dual...`). Both are translated,
and `DeferredAgrees` compares them. The controller manager's parameters come from a third
place (`generate_ros2_control_params_temp_file`, `uf_robot_utils.py`), which searches
the gripper's file by another rule and leaves a file alone if there is nothing to change.

### LaunchFiles: what a launch file starts

The result of each `launch_setup` is a record made by `Launch`: the parameters of
MoveIt and of the manager, the controllers that are spawned, whether a move_group, a
simulation, the real driver or a servo server is started, whose joint states are
collected, and what closing RViz does. A launch file that includes another is an
operator that uses another's: `GazeboLaunch` changes what `BesideTable` returns.
`SingleModes` are thirteen launch files for one arm, `DualModes` six for two.

### BringUp: the processes

| actions | code |
|---|---|
| `LaunchSetup` | `launch_setup` of the launch file: it raises, or starts what does not wait |
| `CreatorExits` | `OnProcessExit` of the robot's creator in Gazebo: RViz and spawners, whatever its exit code |
| `ControlUp`, `ControlDies` | `ros2_control_node` or the plugin in Gazebo (external) |
| `Spawn`, `GiveUp` | `controller_manager/spawner` (external) and `OnProcessExit` of the arm's, which starts the servo server |
| `RvizCloses` | `OnProcessExit` of RViz, with `Shutdown` in `_robot_moveit_common2.launch.py` and the dual one |
| `Interrupted` | Ctrl-C |

`SetupsAssumption` says what may be launched: one arm in a mode for one, the mobile base with
an xArm6 only, or two arms in a mode for two; grippers and prefixes are left open.
`NamesDiffer` says that the two arms of a pair have different prefixes, as the defaults `L_`
and `R_` are; with one prefix the joints of the first would have the names of the second's.

### PickPlace: the pick and place script

`Steps` is the body of `main()`; a step is `[op, arg]` and an action carries out the
step at `pc` if it is of its kind.

| actions | code |
|---|---|
| `Move`, `PlanAcross` | `move_to_pose`; the comparison of planners in `main()`, 138-160 |
| `SendGripperGoal`, `GripperGoalTimesOut`, `GripperResultTimesOut` | `set_gripper`, with its 5 s and 10 s |
| `OpenGripper` | `set_gripper_state` |
| `AwaitMotion`, `MotionEnds`, `OpeningEnds` | `execute(blocking=True)` in the three of them, and the controllers (external) |
| `ChangeScene` | the script's own planning scene: attach, add, detach |
| `Sync`, `SyncTimesOut` | `sync_scene_to_move_group`, 5 s for the service and 5 s for its answer |
| `ApplyScene`, `AnswerGripperGoal`, `CloseGripper` | move_group and the gripper's controller (external) |

A motion is a step that starts it and one that ends it, and between them the arm is
"astray". `execute(blocking=True)` has no time limit, because the builder switches
`execution_duration_monitoring` off (`moveit_configs_builder.py:571`): a script whose
controller is gone stays at `asked = "motion"`.

`failed` collects the kinds of steps that did not do what they are for: the script
looks at the outcome of almost none, and the properties say what each failure may spoil.
`requests` is a set: a request that timed out may be applied after a later one.

### HybridDemo: the client of the hybrid planner

One thread. While `in_callback` holds it waits in `on_global_solution` for the answer
of a service, and nothing else runs, the answer included (`Free`). The steps of `run()`
are `AwaitServer`, `ApplyObjects` and its time-out (to clear the scene, then to build the
static wall), `Reset`, `SendGoal`, `OnResult` and `AwaitTimesOut`; a goal that is given
up goes on in the planner (`hybrid`), its solutions may reach the next run. The service
may not be found in its 10 s with move_group up as well as without it. `run()` looks at
the outcome of the static wall's update and ignores the clearing's: `clean` is history,
true in the first run and in a later one that has sent its clearing, and
`OneWallAtATime` is about those.

### RobotCell: a bring-up with a script

`RobotCell` puts the two scripts on top of `BringUp`. The steps of a script take what
they need of the bring-up as parameters: whether the arm's and the gripper's controller
they send to are active, and whether move_group runs. Nothing makes the user wait for
the bring-up to complete, the launch may be ended under the script, and a manager that
dies takes the controllers and their goals with it. `Orphaned` is a script that waits for
a motion under a manager that is gone; `ScriptEnds` says that it is the only one that
does not end. The scripts are run in the one cell
they are written for.

### TargetMover, MarkerServo, PositionControl, VisualServo: the exercise

`TargetMover` is one action per call of the mover's timer: `DriveTowards` for the two
straight legs, `FollowTrack` for the lap, with `LapSpeed` and the brake. Lengths are in
micrometres and a speed is the length of one 20 ms tick, so all numbers are integers.
The square root of the brake is `BrakeSpeeds`, the largest integer that satisfies its
inequality. The way is measured along itself; `step` is the history variable that the
properties about the ride compare with.

`MarkerServo` has the two timers of the servoing node as `Control` and `StepGrasp`, and
`ServoTick` for the period that goes by between them, in which the camera may show the
marker or not. Either timer may run first, and be `MaxLate` periods late. `control()`
of `aruco_servo.py` has blanks that students fill in: what they measure (the error, whether
the cart stands still) is an input of `Control`, restricted to what an image can show.
`Completed` says that the branch for a lost marker does what its comment asks for.
`GentleTrack` and `StandsOut` are what the code assumes of its numbers without saying so: that
a ride can be smooth, and that a cart on its way stands out from one that has come to rest.
`MCVisualServo` has TLC evaluate both for the numbers of the code (`NumbersOfTheCode`).

| actions of `PositionControl` | code |
|---|---|
| `ResetScene` | `reset_scene` of `visual_servo.launch.py` |
| `StopPosition`, `StartTraj`, `SendGoal`, `AwaitGoal` | `goto_observation`, command by command |
| `StopTraj`, `StartPosition` | `switch_to_position_control`, in both launch files |
| `Relaunch` | the `Shutdown` after a step that failed (`visual_servo.launch.py:327`) or Ctrl-C, and the next launch |
| `SimulationUp`, `MotionEnds` | the simulation and its controllers (external) |

`Reliable` says that `ros2 control` reaches the manager and that the goal of
`goto_observation` ends within its 40 s; without it every command may
leave things as they were. `VisualServo` starts cart and node where the chain ends and
ends them with the launch. An exercise that is launched again later is not played: its
`Relaunch` leaves the arm and the cart anywhere, which is all the next launch can see.

## 3. Runs

Every run ends within five minutes with two workers. Type invariants are not checked by
a run of their own but proved (section 5).

| run | asks | bounds | distinct states |
|---|---|---|---|
| `hw_sites` | `FreshFirstCommand`: with calls that time out, an impatient operator and racing spawners the first command after a reset is the position measured in that cycle; `NoJumpOnRecovery`: an arm that was moved during a fault is not snapped back; `CalmFlagMeansDisabled`: where services answer and no spawner races the flag is up over controllers that are down | sites `Adverse` and `Careful`, 2 controllers, 2 positions, 2 requests | 13.0 M |
| `hw_live` | `ControllersComeBack`: after resets that met no spawner at work all controllers are active again once the arm stays ready; `ControllersAreTakenDown`: when every reset listed all of them, none commands the arm in a lasting fault | site `Answering`, 2 controllers, velocity control, 1 position, 2 requests | 277 k |
| `replan_adverse` | `RetriesAreSpread`, `OneAnswerUnlessGivenUp`, `NoPreemption`, `GoalEnds`, `LostRequestIsGivenUpInExecution`, with results lost, late or out of order and goals that overlap | 4 attempts, interval 2, time-out 5, 2 goals | 189 k |
| `sampler` | `SuccessMeansGoalCommanded`, `LoopFindsNearest`, `NoGoingBack`, `TrajectoryEnds`, `ArmArrives` | positions 0..4, all trajectories of 0-3 waypoints, 2 arrivals, stall limit 2, speed 1 | 106 k |
| `gripper_overlap` | `FrameOutlivesMover`, `OneStalePublication`, `SuccessReportsOwnPosition` | 2 goals, 2 positions | 6.9 M |
| `gripper_live` | `EveryGoalIsAnswered` | the bio gripper, 1 goal, 4 positions | 30 k |
| `services` | `CallsAreAtomic`, `ModeChangesWhenStopped`, `EveryCallReturns` | 2 programs, 2 calls, 4 wrappers, 1 stop of the driver | 88 k |
| `robot_cell` | `MoveItIsServed`, `ConfigCoversArms`, `DeferredAgrees`: the three sources of names agree, for every arm, gripper, prefix and launch file; `ControllersComeUp`; `CubeIsPlaced`, `CarriedCubeIsInScene`, `ScenesAgree`, `ScriptEnds` of pick and place and `OneWallAtATime`, `DemoEnds` of the demo, on a bring-up that may fail under them | all single robots with all grippers, all pairs, 13 + 6 launch files, 2 runs of the demo | 492 k |
| `visual_servo` | `ServoStartsReady`, `RelaunchWorks`, `GraspsParkedCart`, `HeldCubeIsLifted`, `GraspEnds`, `SmoothRide`, `TurnsAlmostStanding`, `CartParks` | the numbers of the code, modes `static` and `slow`, the default track, 1 lap, 3 launches, 1 late timer | 1.0 M |
| `hw_launch`, `replan_lost`, `services_stale` | findings, section 6 | | |

Why the bounds are enough. Two positions tell a stale command from a fresh one,
which is all the safety properties compare; the two of `hw_live` are about no position,
and it has one. Two controllers allow one that commands
the arm and one that does not, and a spawner that comes too late; two requests let a
spawner's and the plugin's be outstanding together, and `hw_live` has the same states with
three. The constants of the planner logic keep the order of the
code's, interval before time-out; the time-out of `replan_adverse` is short enough
for several requests to be outstanding at once, and the four attempts leave two more
after a watchdog and a late result. Trajectories of three waypoints have a first, a
middle and a last one, equal neighbours and ones that go back. The speed of
`sampler` is the slowest that works: an arm that gets over more than half of the
longest gap in `StallLimit + 1` cycles. One that is slower is sent back to the
waypoint it came from for ever, which is what `stall_limit_` has to be chosen for.
Two goals of the gripper are what its hazards need: one that is still at work and
one that comes. One still poll ends a goal there, which only brings the early answer
closer to the mover; `gripper_live` has two. The four wrappers of `services` are one
that is refused or not, the two that meddle with the arm's state, and the one that
finds no service; two calls are one program calling twice or two programs at once.
What three calls would add is covered by the proofs, which have no bounds.

`robot_cell` has nothing left out of the small sets it is about but two: the mobile base
carries an xArm6 only, and unlike pairs are launched in the modes `fake`, `real` and
`gazebo`, because the others give the same parameters to the same builder. Two runs of the
demo are one whose goal is given up and one that meets it. `visual_servo` uses the
code's own numbers (`Accel` 60, `Arrive` 10; times in ticks of 20 ms). Its lengths are those of the
track that `build_track` makes of the defaults `half_x` 0.11, `half_y` 0.08 and
`CORNER_RADIUS` 0.03 (`aruco_target_mover.py:59,69-70`): the start is the point (0.11, 0.05),
`CentreDist` 120830 micrometres from the centre (the 121 mm of line 200), and the lap is
4 * (0.11 + 0.08) - 8 * 0.03 + 2 pi * 0.03, `TrackLen` 708496 micrometres: whether the stopwatch of the loop can be deceived by
a cart that turns slowly is a question of these numbers and of no smaller ones. The
presets `medium` and `fast` give the same course sooner; `static` is the case without any
motion. Three launches are one that leaves something behind, one on top of it, and the
one whose exercise is played.

Every property of a passing run has a mutant in `PROJECT.json`: a change of the
model like a plausible slip in the code, under which the run finds the property
violated. The operators `Bug...` beside the definitions are these changes.

## 4. Fairness

- `RobotHW`: weak fairness of the control loop (`update_rate`), of each reported
  field (the SDK's report socket is read continuously), of the manager's service
  thread and of the spawners. Nothing is assumed of the arm or its operator; the
  liveness properties are conditional on the arm staying ready or in error. They hold
  at a site whose services answer, because `write()` clears the flag whatever became of its
  calls (line 350) and a lost activation is not repeated, and under `ThroughAndServed` and
  `SpawnersThrough`: without these TLC finds either violated (section 6).
- `ReplanWhenIdle`: time passes, and a local planner that does not get on repeats
  its events (`LOCAL_PLANNER_STUCK` re-arms itself, `replan_when_idle.h:7-9`).
  The global planner owes nothing: every request may be lost.
- `NearestWaypointSampler`: the timer of the local planner fires and the arm moves
  (one cycle). New trajectories need not come. The liveness properties are conditional
  on the obstacle being gone in the end.
- `GripperAction`: the detached threads are scheduled and calls of the SDK return,
  with whatever result. The client, the jaws and the shutdown owe nothing;
  `EveryGoalIsAnswered` is about processes that keep running.
- `XArmServices`: weak fairness of each program's blocked call and of the handler at
  work, whose SDK calls return; strong fairness of `Take` for each caller, because the
  executor goes through its waiting requests in turn. Nobody has to start a driver
  that is down, and programs need not call: `EveryCallReturns` is conditional on a
  driver that stays up in the end, and excepts calls whose request went down with a
  driver (no time-out, `xarm_ros_client.cpp:233`) and programs that are shut down.
- `BringUp`: a launch file is evaluated, the creator of the robot exits, a manager that was
  started comes up and each spawner does its work or gives up waiting for a manager, as ros2_control's spawner does.
  The manager may die, the robot may not be created, RViz may be closed: `ControllersComeUp`
  excepts these. Nothing starts a manager that nobody launched.
- `RobotCell`: the thread of a running script gets on, because each of its waits but that for
  a motion has a time limit. Weak fairness of `Execution` says that a controller that lives
  ends the motion it was given, along its trajectory or by aborting it; one that has died owes nothing, and
  `ScriptEnds` excepts it (`Orphaned`). move_group, the gripper and the hybrid planner
  owe no other answers: `ScriptEnds` and `DemoEnds` hold without them. `SendGoal` is part of
  it because `send_goal_and_wait` gives up waiting for joint states.
- `VisualServo`: processes of the chain end and motions do (the goal of `goto_observation` has
  a time limit of 40 s; `Reliable` says that it ends within it, besides that commands arrive),
  time goes by, and the single-threaded executor gets round to both timers.
  The camera owes nothing, and nobody has to launch again.

## 5. Proofs

All theorems hold for every value of the constants that satisfies the `ASSUME`s of
the modules. Each is an inductive invariant, found with TLC first, an initial
lemma, a step lemma with a step per action, and a temporal step.

| theorem | states | strengthening |
|---|---|---|
| `RobotHW_proof!TypeCorrect` | `TypeOK` | inductive as it stands |
| `RobotHW_proof!FirstCommandIsFresh` | `FreshFirstCommand` | `FreshInv`: from the measurement on, an uninitialised plugin with a good read has commands equal to the measurement, at every later point of the cycle. `initialized_` and "no command sent since the reset" belong together only outside the last steps of `write()`, so the invariant says where |
| `RobotHW_proof!FlagIsTrue` | `CalmFlagMeansDisabled`, which is about sites where services answer and no spawner races | `FlagInv`: while the flag is up every controller is down or the queue holds one request that takes all loaded ones down |
| `RobotHW_proof!RecoveryDoesNotJump` | `NoJumpOnRecovery`, at a calm site whose operator waits | `JumpInv`: a displaced arm is only made ready while no controller commands it, and none will as long as the plugin has not found it ready; from then on (`Committed`) the command on its way is where the arm was measured. It rests on `FreshInv` |
| `ReplanWhenIdle_proof!TypeCorrect` | `TypeOK` | the age of a request and its number |
| `ReplanWhenIdle_proof!RetriesSpread` | `RetriesAreSpread` | `SpreadInv`: the intervals gone by and the age of the last attempt together are at most the time elapsed |
| `ReplanWhenIdle_proof!MutualExclusion` | `NoPreemption`: no preemption as long as goals and results come in order | `FlightInv`: a request that is worked on and not given up is the one the flag is about, and has its age |
| `ReplanWhenIdle_proof!OneAnswer` | `OneAnswerUnlessGivenUp`: as long as goals and results come in order, one answer | `AnswerInv`: before execution an answered goal has nothing in flight |
| `NearestWaypointSampler_proof!TypeCorrect` | `TypeOK` | `NearestExists`: a trajectory with waypoints has a first closest one, by the well-foundedness of the naturals |
| `NearestWaypointSampler_proof!SuccessIsEarned` | `SuccessMeansGoalCommanded` | `CommandInv`: as long as no trajectory was empty, an index that is not 0 is that of the command |
| `NearestWaypointSampler_proof!ProgressIsKept` | `NoGoingBack` | `AnchorInv`: a trajectory to be anchored is at index 0 |
| `NearestWaypointSampler_proof!LoopIsRight` | `LoopFindsNearest`: the loop of `nearestWaypoint()` finds the first of the closest waypoints, of any trajectory | no induction theorem: the shortest initial part of the trajectory that the loop would get wrong cannot be the empty one, nor one longer than a part it gets right |
| `GripperAction_proof!TypeCorrect` | `TypeOK` | inductive as it stands |
| `GripperAction_proof!FrameIsAlive` | `FrameOutlivesMover` | `FrameInv`: while a mover still refers to the frame, its executing thread has not passed the test of `is_move`, and that flag is up |
| `GripperAction_proof!StartUpEnds` | `OneStalePublication` | `StaleInv`: once a goal has published, the flag is up, and the start-up thread has at most one publication left |
| `GripperAction_proof!SuccessIsOwn` | `SuccessReportsOwnPosition` | `OwnInv`: a thread that is at work on a goal none overlapped is the only one whose goal is open, so the shared result is its own between assignment and answer |
| `XArmServices_proof!TypeCorrect` | `TypeOK`, with one request in the driver at a time | inductive as it stands |
| `XArmServices_proof!ModeIsSafe` | `ModeChangesWhenStopped` | `ModeInv`: between the two calls of `set_mode` the arm is stopped or the stop has failed, because nothing else is served |
| `XArmServices_proof!Implements` | `CallsAreAtomic`: `XArmServices` implements `ArmCalls` | `FilledInv`: what is on its way carries the arguments of its call; `ReturnInv`: no SDK result looks like a refusal. Each step of a call maps to one of `Ask`, `Execute`, `Refuse`, `Return`, `Lose` or a stutter |
| `RobotCell_proof!CarriedCubeIsKnown` | `CarriedCubeIsInScene` | `CarryInv`: the cube is attached in the script's scene from the step behind the gripper's goal to the one that detaches it, and behind the opening nothing is held or on its way unless that failed |
| `RobotCell_proof!CubeArrives` | `CubeIsPlaced` | `PlacedInv`: as long as no step failed, where the arm, the cube and the fingers are is a function of the step |
| `RobotCell_proof!ScenesStayInStep` | `ScenesAgree` | `SceneInv`: as long as no update failed at most the one the script waits for is on its way, and what move_group has is what the script had before it |
| `RobotCell_proof!OneWall` | `OneWallAtATime` | `WallInv`: updates are applied in the order they were sent, so those behind the last clearing are known by the step of `run()`, provided the run is `clean`; while the goal is awaited there is at most one, the swap |
| `RobotCell_proof!ScriptsAgreeWithLaunch` | `DeferredAgrees`: the deferred form of the parameters is the one `to_moveit_configs()` computed at once, section by section | `LaunchInv`: what was launched is a launch record of the setup; below it lemmas on dictionaries (`Updated`, `Prefixed`) and on the names |
| `RobotCell_proof!MoveItKnowsItsArms` | `ConfigCoversArms` | `LaunchInv`, and for each part of the parameters the names it has for each make of arm and gripper |
| `RobotCell_proof!CompletedBringUpServes` | `MoveItIsServed`, for prefixes that satisfy `NamesDiffer` | `StartInv`: what is active was spawned, with the joints the manager's parameters give it, and what was spawned and is not waiting for its turn is active or unknown; `LaunchInOrder`: each launch file spawns what its MoveIt counts on |
| `RobotCell_proof!CompletedBringUpIsWhole` | a complete bring-up has active all it spawned but what is `Unknown`, for prefixes that satisfy `NamesDiffer`: the safety half of `ControllersComeUp` | `StartInv`; `SpawnedIsKnown`: the manager's parameters have each spawned name but the base's, which they have exactly without a prefix |
| `TargetMover_proof!MoverTypeCorrect` | `MoverTypeOK` | what is braked never exceeds the ramp |
| `TargetMover_proof!TurnsAreSlow` | `TurnsAlmostStanding` | `LapsLeft`, and `EndsSlowly`: a braked tick that reaches the end of the track was commanded with at most `Accel` |
| `TargetMover_proof!RideIsSmooth` | `SmoothRide`, for a `GentleTrack` | `RideInv`: the speed is the last step, and on a braked leg its square is within what the rest of the leg allows. `GentleTrack` says that arriving is shorter than a tick's acceleration and that the track is longer than the way any of its speeds takes to brake: it is what the code assumes of its numbers, which satisfy it |
| `VisualServo_proof!TypeCorrect` | `TypeOK` | inductive as it stands |
| `VisualServo_proof!ServoIsReady` | `ServoStartsReady` | `ChainInv`, with `Reliable`: what each command of the chain finds, whatever a launch before it left |
| `VisualServo_proof!CubeIsHeld` | `HeldCubeIsLifted` | `GraspInv`: phase, fingers, stopwatch and the two flags belong together at every callback |
| `VisualServo_proof!CartTurnsSlowly` | `TurnsAlmostStanding`, in the composition | `TargetMover_proof`'s lemmas, under relaunches |
| `VisualServo_proof!CartRidesSmoothly` | `SmoothRide`, in the composition, for a `GentleTrack` | the same, with `NotMovedYet` for a cart whose launch is not up |
| `VisualServo_proof!CubeIsTakenAtRest` | `GraspsParkedCart`, for numbers that satisfy `StandsOut` | `DriveInv`: how many more ticks the cart will be slow, from where it is and what is left of its leg; `WatchInv`: the stopwatch shows no more than the cart has been slow, give or take the marker's time-out and the lateness of the timers. The cart leaves the ends of its legs before the stopwatch has run to `StillTime` |

`StandsOut` is where the numbers of the cart and those of the node meet. The branch for a lost
marker is completed; a tick's acceleration is at least 3, arriving is closer than that, and it
is at most `StillStep`, the way of a tick at the speed under which the node takes the cart for
standing; a cart that is told to move at all is told to move faster than that; on every leg
there is a way left to go when whatever was seen of the slow start is forgotten (`LongLeg`);
and braking, turning and setting off again below that speed takes less than the stopwatch asks
for, without what the camera may still remember
(`3 * StillStep < (Accel - 1) * (StillTime + 1 - MarkerTimeout)`).
None of this is written in the code. A cart told to move at `STILL_SPEED` or less would be
taken for parked, and rightly so for what the node measures: the presets keep clear of it.

All safety invariants and action properties that the passing runs check are stated by a
theorem. Only model-checked are the liveness properties, because `WF_`, `SF_` and ENABLED are
out of the prover's reach, and that `NumbersOfTheCode` and `NamesOfThePairs` hold of the
values in the configurations, which five theorems have as hypotheses.

tlapm 1.4.5 gives its SMT backend an axiom that takes `DOMAIN s = 1..n` and `Len(s) = n` for
the same thing whether or not `s` is a sequence. The proofs do not depend on it: they have also
been checked with that equivalence weakened to an implication.

## 6. Findings

1. `hw_launch`. `uf_robot_system_hardware.cpp:421`: "Not setting this indicator until
   activated controller disabled!". The flag is set after one request that names the
   controllers listed so far. A second spawner that activates its controller
   afterwards leaves it active under the flag, and no further deactivation is tried
   until the arm is ready.
2. `replan_lost`. `replan_when_idle.h:72` promises that a request past its time-out
   counts as lost and another is allowed. The age is looked at only on feedback of
   the local planner, which does not run before the first result: a lost first
   request blocks the goal for good.
3. `services_stale`. `xarm_msgs/srv/MoveCartesian.srv:19,25`: `radius` is -1 and
   `relative` false by default. The client keeps one `MoveCartesian` request for all its
   wrappers. `set_position_aa` and `set_tool_position` leave `radius` as the last
   `set_position` set it, `set_position` leaves `relative` as the last `set_position_aa`
   or `set_servo_cartesian_aa` did, and the handlers pass both to the SDK. `CallsAreAtomic`
   is about the arguments a wrapper is given, and holds.

Remarks without a run: what was noticed while modelling, and what the antecedents of
the properties therefore except.

Hybrid planning
- Results carry no request (`replan_when_idle.cpp:100,116`): one that comes after the
  watchdog clears the flag of the next request, and a third one preempts it, although
  `replan_when_idle.h:6` speaks of one plan in flight at most. `NoPreemption` is about
  goals and results that come in order.
- `hybrid_planning_manager.yaml:13-14` speaks of 10 attempts, `MAX_REPLAN_ATTEMPTS`
  (`replan_when_idle.h:62`) is 30.
- The demo's goal is given up after 120 s and not cancelled (`hybrid_planning_demo.py:416`);
  its next solution may set off the surprise of a re-run before that has sent its own goal.

- An empty trajectory sets `feedback_` (`nearest_waypoint_sampler.cpp:117`), and nothing clears
  it: every later waypoint comes with `unhandled_exception` and is not commanded, while the
  index goes on and the progress becomes 1.0.
- The result of the clearing that a re-run of the demo starts with is ignored
  (`hybrid_planning_demo.py:431-433`). When the service is not found in 10 s the last run's
  surprise stays beside the new static wall, and the goal is sent into that scene.

Hardware plugin
- A spawner whose request is still in the manager when the arm recovers may make the list call
  of `_activate_controller()` fail. The flag is cleared all the same (line 350), and the
  controllers the reset took down stay down.

Client
- `set_tgpio_modbus_timeout` is made for `SetInt16` (`xarm_ros_client.cpp:100`), the driver
  offers `SetModbusTimeout` (`xarm_driver_service.cpp:248`): it never returns
  (`OnlyCartesianIsStale` says it is the only such wrapper).
- The short `set_servo_cartesian_aa` (718-721) passes its two flags on to
  `set_servo_cartesian`, as `mvtime` and `is_tool_coord`.

Configuration and launch files
- Two arms with grippers of different makes: the builder looks the second arm's limits up
  under the first one's gripper (`moveit_configs_builder.py:1240`), the deferred form its
  controllers (`uf_ros_lib/uf_ros_lib/substitutions/controllers.py:212`). `SameGrippers` excepts them. With a Lite as the first arm
  and a gripper on the second there is no such folder, and the launch raises.
- Pipelines other than ompl have no files in the robots' folders: the dual builder and the
  deferred form raise for them.
- The planners of the bio gripper are filed under `bios_gripper`, the group is `bio_gripper`.
- The octomap's camera is configured for every xArm6, a comment says only when it is enabled.
- Groups asked for without the prefix they have: the gripper's of `_robot_planner.launch.py:132`
  and the servo server's (`_robot_moveit_servo_fake.launch.py:134`). `_dual_robot_planner.launch.py:202-218`
  takes the mirrored xArm7's gripper for a group of its own, which the SRDF does not have
  (`Misnamed`).
- The mobile base with a prefix: its controller is renamed in the parameters and spawned under
  the old name (`Unknown`). On the real base MoveIt is told of the simulated gripper's controller,
  because `controllers_name` is not passed on.
- `_dual_robot_beside_table_gazebo.launch.py:135-148`, launched by itself, leaves `use_sim_time`
  out of the manager's parameters; the single one sets it.

Scripts
- A gripper goal that is not accepted in time ends the script with an AttributeError
  (`moveit_utils.py:312`).
- `execute(blocking=True)` (`moveit_utils.py:178,260`, `pick_and_place.py:159`) has no time limit:
  a script whose controller manager dies during a motion hangs.
- An update of the scene that timed out may be applied late: an attach that comes after the
  removal leaves the cube attached in move_group. `ScenesAgree` is about updates answered in time.
- With `Completed` FALSE, TLC finds `GraspsParkedCart` violated: the comment in
  `aruco_servo.py:75-77` warns of exactly that, and is right.
- `XArmPlanner`: a Cartesian path that is only partly planned is stored and may be executed,
  and after a failed plan the older one may be (`xarm_planner.cpp:77-98`).

## 7. What is not modelled, and the plan

External and modelled only by what the code relies on: MoveIt's manager, move_group and the
planners, the controller manager and its spawners, Gazebo, the SDK, the arm. Left out:

- numerical content (kinematics, limits, velocity profiles other than the mover's), what the
  SDK does with a command besides stopping the arm or not, the contents of answers, several
  threads on one client (no program of the repository has them), velocity topics;
- URDF and xacro, the values in yaml files, meshes, the generators `gen_*.py`, worlds, bridges
  to Gazebo, vision and the colour detector: nothing in them changes over time, or it does so
  without a decision;
- the Task Constructor scripts, whose stages are MoveIt's, and the other example scripts, which are
  straight sequences of the helpers that `PickPlace` models;
- the entry launch files per robot, which only pass arguments on, and
  `_robot_moveit_common.launch.py`, `_dual_robot_moveit_common.launch.py` and
  `_robot_moveit_servo.launch.py`, which nothing includes any more;
- `SceneSyncingPipeline`, which keeps no state between calls; keyboard and joystick, which translate
  one input into one message; the C++ of the planner nodes, a thin layer over MoveIt's
  interface;
- the blanks of the visual servoing exercise, which are inputs.

What would come next, in order:

1. Two `RobotHW` plugins under one manager, as the dual-arm launch files build: each lists and
   switches the other's controllers.
2. `ReplanWhenIdle`, `NearestWaypointSampler`, `SceneSyncingPipeline` and `HybridDemo` in one
   composition: a scene that goes stale, feedback that stays set, a goal that goes on after its
   client has given it up.
3. `XArmPlanner`: stored plan against executed plan.
4. Further abstract specifications: a rate-limited request stream that `ReplanWhenIdle`
   implements, a command gate that `RobotHW` implements, an action server for `GripperAction`.
5. Proofs: the implementations of item 4, step by step, as `XArmServices_proof` has one.
