--------------------------- MODULE PositionControl ---------------------------
(***************************************************************************)
(* The launch files that take the arm of a running simulation from its      *)
(* trajectory controller to a position controller:                          *)
(* xarm_scripts/launch/visual_servo.launch.py, a chain of processes each    *)
(* started by the exit of the one before, and hybrid_planning_xarm6.launch, *)
(* which runs the same switch on a timer.  Their shell scripts ignore the   *)
(* result of almost every command.  The simulation and its controllers      *)
(* outlive a launch: it is started again with whatever it left behind.      *)
(***************************************************************************)
EXTENDS Integers

CONSTANTS
  Reliable,     \* `ros2 control` reaches the controller manager, and the goal
                \* ends within its 40 s
  MaxLaunches   \* bound: how often the exercise is launched

ASSUME PositionControlAssumption == Reliable \in BOOLEAN /\ MaxLaunches \in Nat

VARIABLES
  launch,     \* which of the two files is running
  step_of,    \* the command its scripts are at
  launches,   \* how often one was started
  traj,       \* xarm6_traj_controller
  position,   \* xarm6_joint_group_position_controller
  moving,     \* the trajectory controller is executing a goal
  arm,        \* where the arm was last brought to
  cart        \* where the robot with the marker is

launchVars == <<launch, step_of, launches, traj, position, moving, arm, cart>>

LaunchFiles == {"visual_servo", "hybrid_planning"}
ControllerState == {"absent", "inactive", "active"}

----------------------------------------------------------------------------
(* The controller manager: two controllers that claim the same interfaces   *)
(* are never active together.  A controller that stops drops its goal.      *)

\* set_controller_state <c> inactive ... || true
Deactivated(c) == IF c = "active" THEN "inactive" ELSE c

\* set_controller_state <c> active ... || true, while other is in `other`.
Activated(c, other) == IF c = "inactive" /\ other # "active" THEN "active" ELSE c

\* A command that may not reach the manager leaves what is there.
Outcome(before, after) == IF Reliable THEN {after} ELSE {before, after}

----------------------------------------------------------------------------
(* visual_servo.launch.py                                                   *)

\* The simulation comes up: its own launch spawns the trajectory controller.
SimulationUp ==
  /\ traj = "absent"
  /\ traj' = "active"
  /\ UNCHANGED <<launch, step_of, launches, position, moving, arm, cart>>

\* reset_scene: wait for the controller to exist, 180 s at most, then open
\* the gripper, send the cart to the centre and put the cube on it; whether
\* any of that worked is not looked at.
ResetScene ==
  /\ launch = "visual_servo" /\ step_of = "reset_scene"
  /\ \/ traj # "absent" /\ step_of' = "stop_position" /\ cart' \in Outcome(cart, "centre")
     \/ traj = "absent" /\ step_of' = "aborted" /\ UNCHANGED cart
  /\ UNCHANGED <<launch, launches, traj, position, moving, arm>>

\* goto_observation, its first command.
BugStopPosition ==
  /\ step_of = "stop_position" /\ step_of' = "start_traj"
  /\ UNCHANGED <<launch, launches, traj, position, moving, arm, cart>>
StopPosition ==
  /\ step_of = "stop_position"
  /\ position' \in Outcome(position, Deactivated(position))
  /\ step_of' = "start_traj"
  /\ UNCHANGED <<launch, launches, traj, moving, arm, cart>>

StartTraj ==
  /\ step_of = "start_traj"
  /\ traj' \in Outcome(traj, Activated(traj, position))
  /\ step_of' = "send_goal"
  /\ UNCHANGED <<launch, launches, position, moving, arm, cart>>

\* The goal is sent by the action, which answers: an inactive controller
\* rejects it or lets the call run into its timeout of 40 s.
SendGoal ==
  /\ step_of = "send_goal"
  /\ IF traj = "active"
     THEN moving' = TRUE /\ arm' = "between" /\ step_of' = "await_goal"
     ELSE step_of' = "aborted" /\ UNCHANGED <<moving, arm>>
  /\ UNCHANGED <<launch, launches, traj, position, cart>>

\* The trajectory controller ends its motion.
MotionEnds ==
  /\ moving
  /\ moving' = FALSE
  /\ arm' = "observation"
  /\ UNCHANGED <<launch, step_of, launches, traj, position, cart>>

\* Anything but SUCCEEDED, an execution that takes too long included, ends
\* the process with exit code 1.
BugAwaitGoal ==
  /\ step_of = "await_goal"
  /\ step_of' = "stop_traj"
  /\ UNCHANGED <<launch, launches, traj, position, moving, arm, cart>>
AwaitGoal ==
  /\ step_of = "await_goal"
  /\ \/ ~moving /\ step_of' = "stop_traj"
     \/ ~Reliable /\ moving /\ step_of' = "aborted"
  /\ UNCHANGED <<launch, launches, traj, position, moving, arm, cart>>

\* switch_to_position_control, the same script in both launch files.
StopTraj ==
  /\ step_of = "stop_traj"
  /\ traj' \in Outcome(traj, Deactivated(traj))
  /\ IF traj' # "active" THEN moving' = FALSE ELSE UNCHANGED moving
  /\ step_of' = "start_position"
  /\ UNCHANGED <<launch, launches, position, arm, cart>>

\* A position controller that is listed is activated again, any other is
\* spawned, which only works on one that is not loaded yet; without a simulation
\* both fail.  The script ends with exit 0 in every case.
StartPosition ==
  /\ step_of = "start_position"
  /\ position' \in CASE traj = "absent" -> {position}
                     [] position # "absent" -> Outcome(position, Activated(position, traj))
                     [] OTHER -> Outcome("absent", IF traj = "active" THEN "inactive" ELSE "active")
  /\ step_of' = "up"
  /\ UNCHANGED <<launch, launches, traj, moving, arm, cart>>

\* continue_if_ok: a step that failed shuts the launch down, as Ctrl-C does;
\* the user launches again.
Relaunch ==
  /\ launches < MaxLaunches
  /\ launches' = launches + 1
  /\ launch' \in LaunchFiles
  /\ step_of' = IF launch' = "visual_servo" THEN "reset_scene" ELSE "stop_traj"
  /\ IF step_of = "up" /\ launch = "visual_servo"
     THEN arm' = "elsewhere" /\ cart' = "away"
     ELSE UNCHANGED <<arm, cart>>
  /\ UNCHANGED <<traj, position, moving>>

Launching ==
  \/ ResetScene \/ StopPosition \/ StartTraj \/ SendGoal \/ AwaitGoal
  \/ StopTraj \/ StartPosition

PositionControlInit ==
  /\ launch \in LaunchFiles
  /\ step_of = IF launch = "visual_servo" THEN "reset_scene" ELSE "stop_traj"
  /\ launches \in 1..MaxLaunches
  /\ traj \in ControllerState
  /\ position \in IF traj = "absent" THEN {"absent"} ELSE ControllerState
  /\ ~(traj = "active" /\ position = "active")
  /\ moving = FALSE
  /\ arm = "elsewhere"
  /\ cart \in {"centre", "away"}

----------------------------------------------------------------------------
(* Properties.                                                              *)

LaunchTypeOK ==
  /\ launch \in LaunchFiles /\ launches \in 1..MaxLaunches
  /\ step_of \in {"reset_scene", "stop_position", "start_traj", "send_goal", "await_goal",
                  "stop_traj", "start_position", "up", "aborted"}
  /\ traj \in ControllerState /\ position \in ControllerState
  /\ moving \in BOOLEAN
  /\ arm \in {"elsewhere", "between", "observation"}
  /\ cart \in {"centre", "away"}

\* The chain takes the arm to the observation pose before it takes its
\* trajectory controller away (comment of lines 269-274: with timers the
\* switch fell upon the motion), and whatever an earlier launch left behind
\* the servo comes up with the arm there and its controller active.
ServoStartsReady ==
  launch = "visual_servo" =>
    /\ step_of \in {"start_position", "up"} => arm = "observation" /\ ~moving
    /\ step_of = "up" => traj = "inactive" /\ position = "active" /\ cart = "centre"
=============================================================================
