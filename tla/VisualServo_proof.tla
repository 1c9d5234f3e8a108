-------------------------- MODULE VisualServo_proof --------------------------
(***************************************************************************)
(* The properties of the visual servoing exercise for every track, timing   *)
(* and number of launches: the servo comes up with the arm where it should  *)
(* be and its own controller active, the cube is only taken from a cart     *)
(* that rests, and a cube that is held is only lifted with fingers that     *)
(* have closed.                                                             *)
(***************************************************************************)
EXTENDS VisualServo, TargetMover_proof

----------------------------------------------------------------------------
(* The type of the state: of the launch, of the cart and of the servo node. *)

LEMMA ControllerTypes ==
  ASSUME NEW c \in ControllerState, NEW d \in ControllerState
  PROVE  Deactivated(c) \in ControllerState /\ Activated(c, d) \in ControllerState
BY DEF Deactivated, Activated, ControllerState

LEMMA LaunchTypeInit == PositionControlInit => LaunchTypeOK
<1> SUFFICES ASSUME PositionControlInit PROVE LaunchTypeOK
  OBVIOUS
<1>1. position \in ControllerState
  BY DEF PositionControlInit, ControllerState
<1> QED
  BY <1>1, PositionControlAssumption DEF PositionControlInit, LaunchTypeOK, LaunchFiles

LEMMA LaunchingType == LaunchTypeOK /\ Launching => LaunchTypeOK'
<1> SUFFICES ASSUME LaunchTypeOK, Launching PROVE LaunchTypeOK'
  OBVIOUS
<1>1. CASE ResetScene
  BY <1>1 DEF ResetScene, Outcome, LaunchTypeOK
<1>2. CASE StopPosition
  BY <1>2, ControllerTypes DEF StopPosition, Outcome, LaunchTypeOK
<1>3. CASE StartTraj
  BY <1>3, ControllerTypes DEF StartTraj, Outcome, LaunchTypeOK
<1>4. CASE SendGoal
  BY <1>4 DEF SendGoal, LaunchTypeOK
<1>5. CASE AwaitGoal
  BY <1>5 DEF AwaitGoal, LaunchTypeOK
<1>6. CASE StopTraj
  BY <1>6, ControllerTypes DEF StopTraj, Outcome, LaunchTypeOK
<1>7. CASE StartPosition
  <2>1. position' \in ControllerState
    BY <1>7, ControllerTypes DEF StartPosition, Outcome, LaunchTypeOK, ControllerState
  <2> QED
    BY <1>7, <2>1 DEF StartPosition, LaunchTypeOK
<1> QED
  BY <1>1, <1>2, <1>3, <1>4, <1>5, <1>6, <1>7 DEF Launching

LEMMA LaunchStepType == LaunchTypeOK /\ LaunchStep => LaunchTypeOK'
<1> SUFFICES ASSUME LaunchTypeOK, LaunchStep PROVE LaunchTypeOK'
  OBVIOUS
<1>1. CASE SimulationUp
  BY <1>1 DEF SimulationUp, LaunchTypeOK, ControllerState
<1>2. CASE MotionEnds
  BY <1>2 DEF MotionEnds, LaunchTypeOK
<1> QED
  BY <1>1, <1>2, LaunchingType DEF LaunchStep

LEMMA RelaunchType == LaunchTypeOK /\ Relaunch => LaunchTypeOK'
BY PositionControlAssumption DEF Relaunch, LaunchTypeOK, LaunchFiles

----------------------------------------------------------------------------
(* ServoStartsReady.                                                        *)

\* What a launch of the exercise has seen to, command by command.
ChainInv ==
  Reliable /\ launch = "visual_servo" =>
    /\ step_of \notin {"reset_scene", "aborted"} => cart = "centre" /\ traj # "absent"
    /\ step_of \in {"start_traj", "send_goal", "await_goal", "stop_traj", "start_position"}
         => position # "active"
    /\ step_of \in {"send_goal", "await_goal", "stop_traj"} => traj = "active"
    /\ step_of = "await_goal" => moving \/ arm = "observation"
    /\ step_of \in {"stop_traj", "start_position", "up"} => ~moving /\ arm = "observation"
    /\ step_of \in {"start_position", "up"} => traj = "inactive"
    /\ step_of = "up" => position = "active"

LEMMA ChainInit == PositionControlInit => ChainInv
BY DEF PositionControlInit, ChainInv

LEMMA ChainLaunching == LaunchTypeOK /\ ChainInv /\ Launching => ChainInv'
<1> SUFFICES ASSUME LaunchTypeOK, ChainInv, Launching, Reliable, launch' = "visual_servo"
             PROVE  ChainInv'
  BY DEF ChainInv
<1>0. launch = "visual_servo"
  BY DEF Launching, ResetScene, StopPosition, StartTraj, SendGoal, AwaitGoal, StopTraj,
         StartPosition
<1>1. CASE ResetScene
  BY <1>0, <1>1 DEF ResetScene, Outcome, ChainInv
<1>2. CASE StopPosition
  BY <1>0, <1>2 DEF StopPosition, Outcome, Deactivated, ChainInv
<1>3. CASE StartTraj
  BY <1>0, <1>3 DEF StartTraj, Outcome, Activated, ChainInv, LaunchTypeOK, ControllerState
<1>4. CASE SendGoal
  BY <1>0, <1>4 DEF SendGoal, ChainInv
<1>5. CASE AwaitGoal
  BY <1>0, <1>5 DEF AwaitGoal, ChainInv
<1>6. CASE StopTraj
  BY <1>0, <1>6 DEF StopTraj, Outcome, Deactivated, ChainInv
<1>7. CASE StartPosition
  <2>1. traj = "inactive" /\ position # "active"
    BY <1>0, <1>7 DEF StartPosition, ChainInv
  <2>2. position' = "active"
    BY <1>7, <2>1 DEF StartPosition, Outcome, Activated, LaunchTypeOK, ControllerState
  <2> QED
    BY <1>0, <1>7, <2>2 DEF StartPosition, ChainInv
<1> QED
  BY <1>1, <1>2, <1>3, <1>4, <1>5, <1>6, <1>7 DEF Launching

LEMMA ChainStep == LaunchTypeOK /\ ChainInv /\ [Next]_vars => ChainInv'
<1> SUFFICES ASSUME LaunchTypeOK, ChainInv, [Next]_vars PROVE ChainInv'
  OBVIOUS
<1>1. CASE LaunchStep
  <2>1. CASE SimulationUp
    BY <2>1 DEF SimulationUp, ChainInv
  <2>2. CASE MotionEnds
    BY <2>2 DEF MotionEnds, ChainInv
  <2> QED
    BY <1>1, <2>1, <2>2, ChainLaunching DEF LaunchStep
<1>2. CASE NextLaunch
  BY <1>2 DEF NextLaunch, Relaunch, ChainInv
<1>3. CASE UNCHANGED launchVars
  BY <1>3 DEF launchVars, ChainInv
<1> QED
  BY <1>1, <1>2, <1>3 DEF Next, Time, ControlTimer, StepGraspTimer, vars

LEMMA LaunchTypeStep == LaunchTypeOK /\ [Next]_vars => LaunchTypeOK'
<1> SUFFICES ASSUME LaunchTypeOK, [Next]_vars PROVE LaunchTypeOK'
  OBVIOUS
<1>1. CASE LaunchStep
  BY <1>1, LaunchStepType
<1>2. CASE NextLaunch
  BY <1>2, RelaunchType DEF NextLaunch
<1>3. CASE UNCHANGED launchVars
  BY <1>3 DEF launchVars, LaunchTypeOK
<1> QED
  BY <1>1, <1>2, <1>3 DEF Next, Time, ControlTimer, StepGraspTimer, vars

\* Where the commands reach the controller manager, every launch of the exercise,
\* whatever the ones before have left, brings the arm to the observation pose
\* before it takes its trajectory controller away, and the servo comes up with
\* its own one active (visual_servo.launch.py, lines 90-339).
THEOREM ServoIsReady == Reliable /\ Spec => []ServoStartsReady
<1>1. Init => LaunchTypeOK /\ ChainInv
  BY LaunchTypeInit, ChainInit DEF Init
<1>2. LaunchTypeOK /\ ChainInv /\ [Next]_vars => (LaunchTypeOK /\ ChainInv)'
  BY LaunchTypeStep, ChainStep
<1>3. Reliable /\ ChainInv => ServoStartsReady
  BY DEF ChainInv, ServoStartsReady
<1>4. Reliable => Reliable'
  OBVIOUS
<1> QED
  BY <1>1, <1>2, <1>3, <1>4, PTL DEF Spec

----------------------------------------------------------------------------
(* HeldCubeIsLifted.                                                        *)

\* The phase of the grasp says who moves the arm, and how long the fingers
\* have been closing: the phase SETTLE begins with the order to close.
GraspInv ==
  /\ {elapsed, gripping} \subseteq Nat
  /\ busy <=> grasp \in {"CLOSING", "SETTLE", "LIFT"}
  /\ done <=> grasp = "DONE"
  /\ gripper = "closed" <=> grasp \in {"SETTLE", "LIFT", "DONE"}
  /\ gripper = "closed" => twist \in {"stop", "lift"}
  /\ twist = "lift" => grasp = "LIFT"
  /\ grasp = "SETTLE" => elapsed <= gripping \/ gripping > SettleTime
  /\ grasp = "LIFT" => gripping > SettleTime

LEMMA GraspInit == ServoInit => GraspInv
BY DEF ServoInit, GraspInv

LEMMA GrownTime ==
  ASSUME NEW n \in Nat, NEW cap \in Nat
  PROVE  Grown(n, cap) \in Nat /\ (Grown(n, cap) = n + 1 \/ (Grown(n, cap) = n /\ n >= cap))
BY DEF Grown

LEMMA GraspTick ==
  ASSUME GraspInv, NEW slow, ServoTick(slow)
  PROVE  GraspInv'
<1>1. UNCHANGED <<busy, done, grasp, twist, gripper>>
  BY DEF ServoTick
<1>2. /\ elapsed' = IF busy THEN elapsed + 1 ELSE elapsed
      /\ gripping' = IF gripper = "closed" THEN Grown(gripping, SettleTime + 1) ELSE gripping
  BY DEF ServoTick
<1>3. SettleTime \in Nat /\ SettleTime + 1 \in Nat
  BY ServoAssumption
<1>4. /\ Grown(gripping, SettleTime + 1) \in Nat
      /\ \/ Grown(gripping, SettleTime + 1) = gripping + 1
         \/ Grown(gripping, SettleTime + 1) = gripping /\ gripping >= SettleTime + 1
  <2>1. gripping \in Nat
    BY DEF GraspInv
  <2> QED
    BY <1>3, <2>1, GrownTime
<1> HIDE DEF Grown
<1> QED
  BY <1>1, <1>2, <1>3, <1>4 DEF GraspInv

LEMMA GraspControl == GraspInv /\ Control => GraspInv'
<1> SUFFICES ASSUME GraspInv, Control PROVE GraspInv'
  OBVIOUS
<1>1. UNCHANGED <<done, gripper, gripping>>
  BY DEF Control
<1>2. CASE MayControl
  <2>1. grasp \notin {"CLOSING", "SETTLE", "LIFT", "DONE"} /\ gripper # "closed" /\ ~busy
    BY <1>2 DEF MayControl, GraspInv
  <2>2. twist' # "lift" /\ (UNCHANGED <<busy, grasp, elapsed>> \/ GrabAndLift)
    BY <1>2, <2>1 DEF Control, MarkerLost, Centre, Descend, GraspInv
  <2> QED
    BY <1>1, <2>1, <2>2 DEF GrabAndLift, GraspInv
<1>3. CASE ~MayControl
  BY <1>1, <1>3 DEF Control, GraspInv
<1> QED
  BY <1>2, <1>3

LEMMA GraspStep == GraspInv /\ StepGrasp => GraspInv'
<1> SUFFICES ASSUME GraspInv, StepGrasp PROVE GraspInv'
  OBVIOUS
<1>1. CASE Closing
  BY <1>1 DEF Closing, GraspInv
<1>2. CASE Settle
  BY <1>2, ServoAssumption DEF Settle, GraspInv
<1>3. CASE Lift
  <2>1. CASE elapsed < LiftTime
    <3>1. twist' = "lift" /\ UNCHANGED <<grasp, elapsed, busy, done, gripper, gripping>>
      BY <1>3, <2>1 DEF Lift
    <3> QED
      BY <1>3, <3>1 DEF Lift, GraspInv
  <2>2. CASE ~(elapsed < LiftTime)
    BY <1>3, <2>2 DEF Lift, GraspInv
  <2> QED
    BY <2>1, <2>2
<1>4. CASE UNCHANGED <<twist, gripper, gripping, grasp, elapsed, busy, done>>
  BY <1>4 DEF GraspInv
<1> QED
  BY <1>1, <1>2, <1>3, <1>4 DEF StepGrasp

LEMMA GraspNext == GraspInv /\ [Next]_vars => GraspInv'
<1> SUFFICES ASSUME GraspInv, [Next]_vars PROVE GraspInv'
  OBVIOUS
<1>1. CASE NextLaunch
  BY <1>1 DEF NextLaunch, ServoRestart, GraspInv
<1>2. CASE Time
  BY <1>2, GraspTick DEF Time
<1>3. CASE ControlTimer
  BY <1>3, GraspControl DEF ControlTimer
<1>4. CASE StepGraspTimer
  BY <1>4, GraspStep DEF StepGraspTimer
<1>5. CASE UNCHANGED servoVars
  BY <1>5 DEF servoVars, GraspInv
<1> QED
  BY <1>1, <1>2, <1>3, <1>4, <1>5 DEF Next, LaunchStep, vars

\* In whatever order the timers run and however late they come: the arm rises
\* only with fingers that were told to close more than SETTLE_TIME ago, and
\* holding the cube it does nothing but stand or rise (servo_utils.py:179-217).
THEOREM CubeIsHeld == Spec => []HeldCubeIsLifted
<1>1. Init => GraspInv
  BY GraspInit DEF Init
<1>2. GraspInv /\ [Next]_vars => GraspInv'
  BY GraspNext
<1>3. GraspInv => HeldCubeIsLifted
  BY DEF GraspInv, HeldCubeIsLifted
<1> QED
  BY <1>1, <1>2, <1>3, PTL DEF Spec

----------------------------------------------------------------------------
(* The type of the whole, and the turn of the cart within it.               *)

LEMMA ServoTypeInit == ServoInit => ServoTypeOK
<1> SUFFICES ASSUME ServoInit PROVE ServoTypeOK
  OBVIOUS
<1>1. frame \in [age : 0..MarkerTimeout, still : BOOLEAN]
  BY ServoAssumption DEF ServoInit
<1>2. {descending, busy, done, low} \subseteq BOOLEAN
  BY DEF ServoInit
<1>3. /\ (due = {}) /\ (late = 0) /\ (still_for = -1) /\ (grasp = "IDLE")
      /\ (elapsed = 0) /\ (twist = "none") /\ (gripper = "open") /\ (gripping = 0)
  BY DEF ServoInit, NotStill
<1> QED
  BY <1>1, <1>2, <1>3, ServoAssumption DEF ServoTypeOK

LEMMA ServoRestartType == ServoRestart => ServoTypeOK'
<1> SUFFICES ASSUME ServoRestart PROVE ServoTypeOK'
  OBVIOUS
<1>1. frame' \in [age : 0..MarkerTimeout, still : BOOLEAN]
  BY ServoAssumption DEF ServoRestart
<1>2. {descending, busy, done, low}' \subseteq BOOLEAN
  BY DEF ServoRestart
<1>3. /\ (due = {})' /\ (late = 0)' /\ (still_for = -1)' /\ (grasp = "IDLE")'
      /\ (elapsed = 0)' /\ (twist = "none")' /\ (gripper = "open")' /\ (gripping = 0)'
  BY DEF ServoRestart, NotStill
<1> QED
  BY <1>1, <1>2, <1>3, ServoAssumption DEF ServoTypeOK

LEMMA ServoTickType ==
  ASSUME ServoTypeOK, NEW slow \in BOOLEAN, ServoTick(slow)
  PROVE  ServoTypeOK'
<1>1. /\ due' \subseteq {"control", "step_grasp"}
      /\ {descending, busy, done}' \subseteq BOOLEAN
      /\ UNCHANGED <<grasp, twist, gripper>>
  BY DEF ServoTick, ServoTypeOK
<1>2. low' \in BOOLEAN
  <2>1. low \in BOOLEAN /\ low' \in {low, low \/ twist = "descend"}
    BY DEF ServoTick, ServoTypeOK
  <2> QED
    BY <2>1, Zenon
<1>3. late' \in 0..MaxLate
  <2>1. late \in 0..MaxLate /\ (late' = late \/ late' = late + 1) /\ late' <= MaxLate
    BY DEF ServoTick, ServoTypeOK
  <2> QED
    BY <2>1, ServoAssumption
<1>4. frame' \in [age : 0..MarkerTimeout, still : BOOLEAN]
  <2>1. 0 \in 0..MarkerTimeout /\ Grown(frame.age, MarkerTimeout) \in 0..MarkerTimeout
    BY ServoAssumption DEF ServoTypeOK, Grown
  <2>2. frame' \in {frame, [age |-> 0, still |-> slow],
                   [frame EXCEPT !.age = Grown(frame.age, MarkerTimeout)]}
    BY DEF ServoTick
  <2> HIDE DEF Grown
  <2> QED
    BY <2>1, <2>2 DEF ServoTypeOK
<1>5. still_for' \in -1..(StillTime + 1)
  BY ServoAssumption DEF ServoTick, ServoTypeOK, Grown, NotStill
<1>6. elapsed' \in Nat
  BY DEF ServoTick, ServoTypeOK
<1>7. gripping' \in 0..(SettleTime + 1)
  BY ServoAssumption DEF ServoTick, ServoTypeOK, Grown
<1>8. {descending, busy, done, low}' \subseteq BOOLEAN
  BY <1>1, <1>2
<1> QED
  BY <1>1, <1>3, <1>4, <1>5, <1>6, <1>7, <1>8 DEF ServoTypeOK

LEMMA ServoControlType == ServoTypeOK /\ Control => ServoTypeOK'
<1> SUFFICES ASSUME ServoTypeOK, Control PROVE ServoTypeOK'
  OBVIOUS
<1>1. UNCHANGED <<frame, late, done, gripper, low, gripping>> /\ due' \subseteq due
  BY DEF Control
<1>2. CASE ~MayControl
  BY <1>1, <1>2 DEF Control, ServoTypeOK
<1>3. ASSUME MayControl,
             NEW err \in {"large", "medium", "small"}, NEW still \in {FALSE, frame.still},
             MarkerLost \/ Centre(err) \/ Descend(err, still)
      PROVE  ServoTypeOK'
  <2>1. descending' \in BOOLEAN /\ twist' \in {"none", "follow", "descend", "stop", "lift"}
    BY <1>3 DEF MarkerLost, Centre, Descend, ServoTypeOK
  <2>2. still_for' \in -1..(StillTime + 1)
    BY <1>3, ServoAssumption DEF MarkerLost, Centre, Descend, Stopwatch, NotStill, ServoTypeOK
  <2>3. /\ busy' \in BOOLEAN /\ elapsed' \in Nat
        /\ grasp' \in {"IDLE", "CLOSING", "SETTLE", "LIFT", "DONE"}
    <3>1. UNCHANGED <<busy, grasp, elapsed>> \/ GrabAndLift
      BY <1>3 DEF MarkerLost, Centre, Descend
    <3>2. busy \in BOOLEAN /\ elapsed \in Nat
          /\ grasp \in {"IDLE", "CLOSING", "SETTLE", "LIFT", "DONE"}
      BY DEF ServoTypeOK
    <3>3. CASE UNCHANGED <<busy, grasp, elapsed>>
      <4>1. busy' = busy /\ grasp' = grasp /\ elapsed' = elapsed
        BY <3>3, Zenon
      <4> QED
        BY <3>2, <4>1, Zenon
    <3>4. CASE GrabAndLift
      BY <3>4 DEF GrabAndLift
    <3> QED
      BY <3>1, <3>3, <3>4
  <2> QED
    BY <1>1, <2>1, <2>2, <2>3 DEF ServoTypeOK
<1> QED
  BY <1>2, <1>3 DEF Control

LEMMA ServoGraspType == ServoTypeOK /\ StepGrasp => ServoTypeOK'
<1> SUFFICES ASSUME ServoTypeOK, StepGrasp PROVE ServoTypeOK'
  OBVIOUS
<1>1. UNCHANGED <<frame, late, descending, still_for, low>> /\ due' \subseteq due
  BY DEF StepGrasp
<1>2. /\ grasp' \in {"IDLE", "CLOSING", "SETTLE", "LIFT", "DONE"}
      /\ twist' \in {"none", "follow", "descend", "stop", "lift"}
      /\ gripper' \in {"open", "closed"}
      /\ {busy, done}' \subseteq BOOLEAN
  BY DEF StepGrasp, Closing, Settle, Lift, ServoTypeOK
<1>3. elapsed' \in Nat /\ gripping' \in 0..(SettleTime + 1)
  BY ServoAssumption DEF StepGrasp, Closing, Settle, Lift, ServoTypeOK
<1> QED
  BY <1>1, <1>2, <1>3 DEF ServoTypeOK

LEMMA ServoTypeNext == ServoTypeOK /\ [Next]_vars => ServoTypeOK'
<1> SUFFICES ASSUME ServoTypeOK, [Next]_vars PROVE ServoTypeOK'
  OBVIOUS
<1>1. CASE NextLaunch
  BY <1>1, ServoRestartType DEF NextLaunch
<1>2. CASE Time
  <2>1. (step' <= StillStep) \in BOOLEAN
    OBVIOUS
  <2> QED
    BY <1>2, <2>1, ServoTickType DEF Time
<1>3. CASE ControlTimer
  BY <1>3, ServoControlType DEF ControlTimer
<1>4. CASE StepGraspTimer
  BY <1>4, ServoGraspType DEF StepGraspTimer
<1>5. CASE UNCHANGED servoVars
  BY <1>5 DEF servoVars, ServoTypeOK
<1> QED
  BY <1>1, <1>2, <1>3, <1>4, <1>5 DEF Next, LaunchStep, vars

\* What a step of the whole is for the cart: a tick, a new start or nothing.
LEMMA MoverNext ==
  ASSUME [Next]_vars
  PROVE  [MoverTick]_moverVars \/ MoverRestart
BY DEF Next, LaunchStep, NextLaunch, Time, ControlTimer, StepGraspTimer, vars

LEMMA MoverTypeNext ==
  MoverTypeOK /\ LapsLeft /\ [Next]_vars => (MoverTypeOK /\ LapsLeft)'
<1> SUFFICES ASSUME MoverTypeOK, LapsLeft, [Next]_vars PROVE (MoverTypeOK /\ LapsLeft)'
  OBVIOUS
<1>1. CASE MoverRestart
  BY <1>1, MoverAssumption DEF MoverRestart, MoverTypeOK, LapsLeft
<1>2. CASE [MoverTick]_moverVars
  BY <1>2, MoverTypeStep, LapsLeftStep
<1> QED
  BY <1>1, <1>2, MoverNext

\* The state keeps its type, however often the exercise is launched.
THEOREM TypeCorrect == Spec => []TypeOK
<1>1. Init => LaunchTypeOK /\ ServoTypeOK /\ MoverTypeOK /\ LapsLeft
  BY LaunchTypeInit, ServoTypeInit, MoverTypeInit, LapsLeftInit DEF Init
<1>2. LaunchTypeOK /\ [Next]_vars => LaunchTypeOK'
  BY LaunchTypeStep
<1>3. ServoTypeOK /\ [Next]_vars => ServoTypeOK'
  BY ServoTypeNext
<1>4. MoverTypeOK /\ LapsLeft /\ [Next]_vars => (MoverTypeOK /\ LapsLeft)'
  BY MoverTypeNext
<1> QED
  BY <1>1, <1>2, <1>3, <1>4, PTL DEF Spec, TypeOK

\* In the exercise as on its own the cart all but stops before it turns towards
\* the centre (aruco_target_mover.py, lines 206-231).
THEOREM CartTurnsSlowly == Spec => TurnsAlmostStanding
<1>1. Init => MoverTypeOK /\ LapsLeft
  BY MoverTypeInit, LapsLeftInit DEF Init
<1>2. MoverTypeOK /\ LapsLeft /\ [Next]_vars => (MoverTypeOK /\ LapsLeft)'
  BY MoverTypeNext
<1>3. MoverTypeOK /\ LapsLeft /\ [Next]_vars => [TurnsSlowly]_moverVars
  <2>1. MoverRestart => TurnsSlowly
    BY DEF MoverRestart, TurnsSlowly
  <2> QED
    BY <2>1, MoverNext, TurnOrNot
<1> QED
  BY <1>1, <1>2, <1>3, PTL DEF Spec, TurnsAlmostStanding

\* The exercise is not launched again once its cart has moved (see Exercise).
NotMovedYet == launches < MaxLaunches => step = 0

LEMMA NotMovedStep ==
  ASSUME LaunchTypeOK, NotMovedYet, [Next]_vars
  PROVE  NotMovedYet'
<1>1. launches \in Nat /\ MaxLaunches \in Nat
  BY PositionControlAssumption DEF LaunchTypeOK
<1>2. CASE NextLaunch
  BY <1>2 DEF NextLaunch, MoverRestart, NotMovedYet
<1>3. CASE Time
  BY <1>1, <1>3 DEF Time, Exercise, launchVars, NotMovedYet
<1>4. CASE UNCHANGED <<launches, step>>
  BY <1>4 DEF NotMovedYet
<1>5. LaunchStep => UNCHANGED launches
  BY DEF LaunchStep, Launching, SimulationUp, MotionEnds, ResetScene, StopPosition, StartTraj,
         SendGoal, AwaitGoal, StopTraj, StartPosition
<1> QED
  BY <1>2, <1>3, <1>4, <1>5
  DEF Next, LaunchStep, ControlTimer, StepGraspTimer, vars, launchVars, moverVars

LEMMA RideNext ==
  ASSUME GentleTrack, LaunchTypeOK, NotMovedYet, MoverTypeOK, LapsLeft, RideInv, [Next]_vars
  PROVE  RideInv' /\ [SpeedChange]_moverVars
<1>1. CASE [MoverTick]_moverVars
  BY <1>1, RideStep
<1>2. CASE NextLaunch
  <2>1. MoverRestart /\ step = 0
    BY <1>2 DEF NextLaunch, Relaunch, NotMovedYet
  <2>2. /\ speed' = speed /\ laps' = laps /\ phase' = "starting" /\ s' = 0 /\ step' = 0
        /\ current_speed' = 0 /\ dist' = CentreDist
    BY <2>1 DEF MoverRestart
  <2>3. 0 * 0 <= Accel * (CentreDist + 0) /\ 0 - 0 \in -Accel..Accel
    BY MoverAssumption
  <2>4. SpeedChange
    BY <2>1, <2>2, <2>3 DEF SpeedChange
  <2>5. speed < TrackLen /\ speed * speed <= Accel * (TrackLen - speed)
    BY DEF RideInv
  <2>6. RideInv'
    BY <2>2, <2>3, <2>5 DEF RideInv
  <2> QED
    BY <2>4, <2>6
<1> QED
  BY <1>1, <1>2 DEF Next, LaunchStep, Time, ControlTimer, StepGraspTimer, vars

\* The ride stays smooth in the exercise, next to the node that follows it and
\* whatever the launches before did (aruco_target_mover.py, lines 206-259).
THEOREM CartRidesSmoothly == GentleTrack /\ Spec => SmoothRide
<1>1. GentleTrack /\ Init =>
        LaunchTypeOK /\ NotMovedYet /\ MoverTypeOK /\ LapsLeft /\ RideInv
  BY LaunchTypeInit, MoverTypeInit, LapsLeftInit, RideInit DEF Init, MoverInit, NotMovedYet
<1>2. LaunchTypeOK /\ NotMovedYet /\ [Next]_vars => (LaunchTypeOK /\ NotMovedYet)'
  BY LaunchTypeStep, NotMovedStep
<1>3. MoverTypeOK /\ LapsLeft /\ [Next]_vars => (MoverTypeOK /\ LapsLeft)'
  BY MoverTypeNext
<1>4. GentleTrack /\ LaunchTypeOK /\ NotMovedYet /\ MoverTypeOK /\ LapsLeft /\ RideInv
      /\ [Next]_vars => RideInv' /\ [SpeedChange]_moverVars
  BY RideNext
<1>5. GentleTrack => GentleTrack'
  BY DEF GentleTrack, ChosenSpeed
<1> QED
  BY <1>1, <1>2, <1>3, <1>4, <1>5, PTL DEF Spec, SmoothRide

----------------------------------------------------------------------------
(* GraspsParkedCart.  The cart is slow in three places only: where it sets  *)
(* off, where it brakes and where it takes the turn between two legs.  Each *)
(* tick there brings it nearer to the end of the slow stretch, so the       *)
(* stopwatch cannot have run for longer than a stretch takes; and the legs  *)
(* are so long that what the camera saw on one stretch is forgotten before  *)
(* the next begins.                                                         *)

\* Where the cart is and how fast: a leg is a straight one or the lap.
Slow     == current_speed <= StillStep
Moves    == phase # "parked" /\ speed > 0
Covered  == IF phase = "lapping" THEN s ELSE CentreDist - dist
LegLeft  == IF phase = "lapping" THEN TrackLen - s ELSE dist

\* At the beginning of a leg, no further than the ramp takes to this speed.
Ramping  == 2 * (Accel * Covered) <= current_speed * current_speed + Accel * current_speed

\* At the end of a leg: the fastest speed from which it can still be braked.
Braking  ==
  \/ phase # "lapping" /\ dist < Arrive
  \/ /\ phase = "lapping" => LastLap
     /\ Accel * (LegLeft + current_speed) < (current_speed + 1) * (current_speed + 1)


\* A cart at speed c that has covered x of its leg was slow no more than g ticks
\* ago, at its beginning.
Within(c, x, g) == c <= StillStep + Accel * g /\ 2 * (Accel * x) <= WayOf(g)
SlowAgo(g) == Within(current_speed, Covered, g)

\* The way of a ramp grows with the square of its speed.
LEMMA RampOn ==
  ASSUME NEW a \in Nat, NEW c \in Nat, NEW x \in Nat, NEW y \in Nat,
         2 * (a * x) <= c * c + a * c, y <= x + (c + a)
  PROVE  2 * (a * y) <= (c + a) * (c + a) + a * (c + a)
<1>1. a * y <= a * (x + (c + a))
  OBVIOUS
<1>2. a * (x + (c + a)) = a * x + a * c + a * a
  OBVIOUS
<1>3. (c + a) * (c + a) + a * (c + a) = c * c + 3 * (a * c) + 2 * (a * a)
  OBVIOUS
<1> QED
  BY <1>1, <1>2, <1>3

LEMMA WayType ==
  ASSUME NEW g \in Nat
  PROVE  WayOf(g) \in Nat
<1>1. /\ StillStep * StillStep \in Nat /\ Accel * StillStep \in Nat
      /\ Accel * (StillStep * g) \in Nat /\ Accel * (Accel * (g * (g + 1))) \in Nat
  BY MoverAssumption, ExerciseAssumption
<1> QED
  BY <1>1 DEF WayOf

\* A tick further on, at a speed the ramp can have reached.
LEMMA WayOn ==
  ASSUME NEW g \in Nat, NEW x \in Nat, NEW y \in Nat, 2 * (Accel * x) <= WayOf(g),
         y <= x + (StillStep + Accel * (g + 1))
  PROVE  2 * (Accel * y) <= WayOf(g + 1)
<1> DEFINE a == Accel  t == StillStep
<1>0. a \in Nat /\ t \in Nat
  BY MoverAssumption, ExerciseAssumption
<1>1. WayOf(g) = t * t + a * t + 2 * (a * (t * g)) + a * (a * (g * (g + 1)))
  BY DEF WayOf
<1>2. WayOf(g + 1) = t * t + a * t + 2 * (a * (t * (g + 1))) + a * (a * ((g + 1) * (g + 1 + 1)))
  BY DEF WayOf
<1>3. 2 * (a * x) <= WayOf(g) /\ y <= x + (t + a * (g + 1))
  OBVIOUS
<1> HIDE DEF a, t
<1>4. a * (t * (g + 1)) = a * (t * g) + a * t
  BY <1>0
<1>5. a * (a * ((g + 1) * (g + 1 + 1))) = a * (a * (g * (g + 1))) + 2 * (a * (a * (g + 1)))
  <2>1. (g + 1) * (g + 1 + 1) = g * (g + 1) + 2 * (g + 1)
    OBVIOUS
  <2> DEFINE p == g * (g + 1)  q == g + 1
  <2>2. p \in Nat /\ q \in Nat
    OBVIOUS
  <2> HIDE DEF p, q
  <2>3. a * (p + 2 * q) = a * p + 2 * (a * q)
    BY <1>0, <2>2
  <2>4. a * (a * p + 2 * (a * q)) = a * (a * p) + 2 * (a * (a * q))
    BY <1>0, <2>2
  <2> QED
    BY <2>1, <2>3, <2>4 DEF p, q
<1>6. a * y <= a * (x + (t + a * (g + 1)))
  <2> DEFINE z == x + (t + a * (g + 1))
  <2>1. z \in Nat /\ y <= z
    BY <1>0, <1>3
  <2> HIDE DEF z
  <2>2. a * y <= a * z
    BY <1>0, <2>1
  <2> QED
    BY <2>2 DEF z
<1>7. a * (x + (t + a * (g + 1))) = a * x + a * t + a * (a * (g + 1))
  <2> DEFINE q == a * (g + 1)
  <2>1. q \in Nat
    BY <1>0
  <2> HIDE DEF q
  <2>2. a * (x + (t + q)) = a * x + a * t + a * q
    BY <1>0, <2>1
  <2> QED
    BY <2>2 DEF q
<1>8. 2 * (a * y) <= WayOf(g + 1)
  <2> DEFINE k == a * (a * (g + 1))  m == a * (a * (g * (g + 1)))  n == a * (t * g)
             r == t * t  u == a * t  X == a * x  Y == a * y
  <2>1. k \in Int /\ m \in Int /\ n \in Int /\ r \in Int /\ u \in Int /\ X \in Int /\ Y \in Int
    BY <1>0
  <2>2. WayOf(g) = r + u + 2 * n + m /\ WayOf(g + 1) = r + u + 2 * (n + u) + (m + 2 * k)
    BY <1>1, <1>2, <1>4, <1>5
  <2>3. 2 * X <= WayOf(g) /\ Y <= X + u + k
    BY <1>3, <1>6, <1>7
  <2> HIDE DEF k, m, n, r, u, X, Y
  <2>4. 2 * Y <= WayOf(g + 1)
    BY <2>1, <2>2, <2>3
  <2> QED
    BY <2>4 DEF Y
<1> QED
  BY <1>8 DEF a

LEMMA WayGrows ==
  ASSUME NEW g \in Nat, NEW h \in Nat, g <= h
  PROVE  WayOf(g) <= WayOf(h)
<1>0. Accel \in Nat /\ StillStep \in Nat
  BY MoverAssumption, ExerciseAssumption
<1>1. Accel * (StillStep * g) <= Accel * (StillStep * h)
  <2>1. StillStep * g <= StillStep * h /\ StillStep * g \in Nat /\ StillStep * h \in Nat
    BY <1>0
  <2> QED
    BY <1>0, <2>1
<1>2. Accel * (Accel * (g * (g + 1))) <= Accel * (Accel * (h * (h + 1)))
  <2>1. g * (g + 1) <= h * (h + 1) /\ g * (g + 1) \in Nat /\ h * (h + 1) \in Nat
    <3>1. g * (g + 1) <= h * (g + 1) /\ h * (g + 1) <= h * (h + 1)
      OBVIOUS
    <3> QED
      BY <3>1
  <2>2. Accel * (g * (g + 1)) <= Accel * (h * (h + 1))
        /\ Accel * (g * (g + 1)) \in Nat /\ Accel * (h * (h + 1)) \in Nat
    BY <1>0, <2>1
  <2> QED
    BY <1>0, <2>2
<1>3. /\ StillStep * StillStep \in Nat /\ Accel * StillStep \in Nat
      /\ Accel * (StillStep * g) \in Nat /\ Accel * (Accel * (g * (g + 1))) \in Nat
      /\ Accel * (StillStep * h) \in Nat /\ Accel * (Accel * (h * (h + 1))) \in Nat
  BY <1>0
<1> QED
  BY <1>1, <1>2, <1>3 DEF WayOf

LEMMA RampIsWay ==
  ASSUME NEW c \in Nat, c <= StillStep, NEW x \in Nat, 2 * (Accel * x) <= c * c + Accel * c
  PROVE  2 * (Accel * x) <= WayOf(0)
<1>0. Accel \in Nat /\ StillStep \in Nat
  BY MoverAssumption, ExerciseAssumption
<1>1. c * c <= StillStep * StillStep /\ Accel * c <= Accel * StillStep
  <2>1. c * c <= c * StillStep /\ c * StillStep <= StillStep * StillStep
    BY <1>0
  <2> QED
    BY <1>0, <2>1
<1>2. WayOf(0) = StillStep * StillStep + Accel * StillStep
  <2>1. Accel * (StillStep * 0) = 0 /\ Accel * (Accel * (0 * (0 + 1))) = 0
    BY <1>0
  <2>2. StillStep * StillStep \in Nat /\ Accel * StillStep \in Nat
    BY <1>0
  <2> QED
    BY <2>1, <2>2 DEF WayOf
<1>3. /\ c * c \in Nat /\ Accel * c \in Nat /\ Accel * x \in Nat
      /\ StillStep * StillStep \in Nat /\ Accel * StillStep \in Nat
  BY <1>0
<1> QED
  BY <1>1, <1>2, <1>3

\* What is left of a long leg after that is more than any slow cart needs.
LEMMA Room ==
  ASSUME NEW l \in Nat, LongLeg(l), NEW x \in Nat, NEW d \in Nat, x + d = l,
         NEW g \in Nat, g <= MarkerTimeout + MaxLate + 1, 2 * (Accel * x) <= WayOf(g)
  PROVE  Accel * d >= (StillStep + Accel) * (StillStep + Accel)
<1> DEFINE h == MarkerTimeout + MaxLate + 1  q == (StillStep + Accel) * (StillStep + Accel)
<1>1. /\ Accel \in Nat /\ StillStep \in Nat /\ h \in Nat /\ q \in Nat
  BY MoverAssumption, ExerciseAssumption, ServoAssumption
<1>2. WayOf(g) <= WayOf(h) /\ WayOf(g) \in Nat /\ WayOf(h) \in Nat
  BY <1>1, WayGrows, WayType
<1>3. 2 * (Accel * l) > WayOf(h) + 2 * q
  BY DEF LongLeg
<1>4. Accel * l = Accel * x + Accel * d /\ Accel * x \in Nat /\ Accel * d \in Nat
  BY <1>1
<1> HIDE DEF h, q
<1>5. Accel * d >= q
  BY <1>1, <1>2, <1>3, <1>4
<1> QED
  BY <1>5 DEF q

\* Every tick of braking takes half of a tick's acceleration off the speed.
LEMMA BrakeLadder ==
  ASSUME NEW a \in Nat, a >= 3, NEW v \in Nat, NEW w \in Nat, NEW d \in Nat, d >= 1,
         a * (d + v) < (v + 1) * (v + 1), w * w <= a * d
  PROVE  2 * w + (a - 1) <= 2 * v
<1> SUFFICES ASSUME 2 * w + (a - 1) > 2 * v PROVE FALSE
  OBVIOUS
<1>1. a * (d + v) = a * d + a * v /\ (v + 1) * (v + 1) = v * v + 2 * v + 1
      /\ a * d \in Nat /\ a * v \in Nat /\ v * v \in Nat /\ w * w \in Nat
  OBVIOUS
<1>2. w * w <= v * v + 2 * v - a * v
  BY <1>1
<1>3. v + 2 > a
  <2>1. a * d >= a
    OBVIOUS
  <2>2. v * (v + 2 - a) > 0
    <3>1. v * (v + 2 - a) = v * v + 2 * v - a * v
      OBVIOUS
    <3> QED
      BY <1>1, <2>1, <3>1
  <2> QED
    BY <2>2
<1> DEFINE y == 2 * v + 2 - a
<1>4. y \in Nat /\ 2 * w >= y
  BY <1>3
<1>5. 4 * (w * w) >= y * y
  <2>1. (2 * w) * (2 * w) >= y * (2 * w) /\ y * (2 * w) >= y * y
    <3> HIDE DEF y
    <3> QED
      BY <1>4
  <2>2. (2 * w) * (2 * w) = 4 * (w * w)
    OBVIOUS
  <2>3. y * y \in Int /\ y * (2 * w) \in Int /\ w * w \in Int
    BY <1>4
  <2> HIDE DEF y
  <2> QED
    BY <2>1, <2>2, <2>3
<1>6. y * y = 4 * (v * v) + 8 * v - 4 * (a * v) + (a - 2) * (a - 2)
  OBVIOUS
<1>7. (a - 2) * (a - 2) > 0
  OBVIOUS
<1> HIDE DEF y
<1> QED
  BY <1>1, <1>2, <1>4, <1>5, <1>6, <1>7

\* The speed of a tick on which the way left has a say.
LEMMA BrakedChoice ==
  ASSUME speed \in Nat, StillStep < speed, NEW c \in Nat, current_speed = c, c <= speed,
         NEW d \in Nat, NEW w \in BrakeSpeeds(Ramp, d)
  PROVE  /\ w \in Nat /\ w <= speed /\ w <= c + Accel /\ w * w <= Accel * d
         /\ w < c => Accel * d < (w + 1) * (w + 1)
         /\ c <= StillStep /\ Accel * d >= (StillStep + Accel) * (StillStep + Accel)
              => w = Lesser(speed, c + Accel)
<1>1. Ramp = Lesser(speed, c + Accel)
  BY DEF Ramp
<1>2. /\ Ramp \in Nat /\ Ramp <= speed /\ Ramp <= c + Accel /\ c <= Ramp
      /\ Accel \in Nat /\ StillStep \in Nat
  BY MoverAssumption, ExerciseAssumption DEF Ramp, Lesser
<1> HIDE DEF Ramp, Lesser
<1>3. /\ w \in 0..Ramp /\ w * w <= Accel * d
      /\ w = Ramp \/ ~((w + 1) * (w + 1) <= Accel * d)
  BY <1>2, BrakeSpeed DEF Brakes
<1>4. w \in Nat /\ (w + 1) * (w + 1) \in Nat /\ Accel * d \in Nat
  BY <1>2, <1>3
<1>5. ASSUME c <= StillStep, Accel * d >= (StillStep + Accel) * (StillStep + Accel), w # Ramp
      PROVE  FALSE
  <2>1. w + 1 <= StillStep + Accel
    BY <1>2, <1>3, <1>5
  <2>2. (w + 1) * (w + 1) <= (StillStep + Accel) * (StillStep + Accel)
    <3> DEFINE p == w + 1  q == StillStep + Accel
    <3>1. p \in Nat /\ q \in Nat /\ p <= q
      BY <1>2, <1>4, <2>1
    <3> HIDE DEF p, q
    <3>2. p * p <= q * q
      <4>1. p * p <= p * q /\ p * q <= q * q
        BY <3>1
      <4> QED
        BY <3>1, <4>1
    <3> QED
      BY <3>2 DEF p, q
  <2>3. (StillStep + Accel) * (StillStep + Accel) \in Nat
    BY <1>2
  <2> QED
    BY <1>3, <1>4, <1>5, <2>2, <2>3
<1>6. w < c => Accel * d < (w + 1) * (w + 1)
  BY <1>2, <1>3, <1>4
<1> QED
  BY <1>1, <1>2, <1>3, <1>4, <1>5, <1>6

\* What a tick does to a cart that sets off, that brakes and that is fast.
SetsOffOn ==
  \/ Slow' /\ Ramping' /\ current_speed' = current_speed + Accel
  \/ ~Slow' /\ SlowAgo(1)'
BrakesOn ==
  \/ Slow' /\ Braking' /\ 2 * current_speed' + (Accel - 1) <= 2 * current_speed
  \/ Slow' /\ Ramping'
GoesOn ==
  \/ ~Slow' /\ \A g \in Nat : SlowAgo(g) => SlowAgo(g + 1)'
  \/ /\ Slow' /\ (Braking' \/ Ramping')
     /\ Accel * LegLeft < (StillStep + Accel) * (StillStep + Accel)
CartTick ==
  phase' # "parked" =>
    /\ step' <= StillStep <=> Slow'
    /\ Slow /\ Ramping => SetsOffOn
    /\ Slow /\ Braking => BrakesOn
    /\ ~Slow => GoesOn

\* A slow cart at the beginning of its leg is not near the end of it.
LEMMA SlowRamp ==
  ASSUME StandsOut, MoverTypeOK, phase = "lapping" => s <= TrackLen, Slow, Ramping
  PROVE  Accel * LegLeft >= (StillStep + Accel) * (StillStep + Accel)
<1>1. /\ Covered \in Nat /\ LegLeft \in Nat
      /\ \/ Covered + LegLeft = CentreDist
         \/ Covered + LegLeft = TrackLen
  BY MoverAssumption DEF MoverTypeOK, Covered, LegLeft
<1>2. current_speed \in Nat /\ 0 <= MarkerTimeout + MaxLate + 1
  BY ServoAssumption DEF MoverTypeOK
<1>3. 2 * (Accel * Covered) <= WayOf(0)
  BY <1>1, <1>2, RampIsWay DEF Slow, Ramping
<1> HIDE DEF Covered, LegLeft
<1> QED
  BY <1>1, <1>2, <1>3, Room, MoverAssumption DEF StandsOut

\* A cart that brakes to a slow speed is near the end of its leg.
LEMMA SlowBraked ==
  ASSUME NEW a \in Nat, NEW t \in Nat, NEW w \in Nat, w <= t, a >= 1, NEW d \in Nat,
         a * d < (w + 1) * (w + 1)
  PROVE  a * d < (t + a) * (t + a)
<1> DEFINE p == w + 1  q == t + a
<1>1. p \in Nat /\ q \in Nat /\ p <= q
  OBVIOUS
<1>2. p * p <= q * q
  <2> HIDE DEF p, q
  <2>1. p * p <= p * q /\ p * q <= q * q
    BY <1>1
  <2> QED
    BY <1>1, <2>1
<1>3. a * d \in Nat /\ p * p \in Nat /\ q * q \in Nat /\ a * d < p * p
  OBVIOUS
<1> HIDE DEF p, q
<1>4. a * d < q * q
  BY <1>2, <1>3
<1> QED
  BY <1>4 DEF q

\* A slow cart that follows the ramp goes on doing so, or has just become fast.
LEMMA SetsOff ==
  ASSUME NEW c \in Nat, NEW w \in Nat, NEW x \in Nat, NEW y \in Nat,
         current_speed = c, current_speed' = w, Covered = x, Covered' = y, y <= x + w,
         speed \in Nat, StillStep < speed, w = Lesser(speed, c + Accel), Slow, Ramping
  PROVE  SetsOffOn
<1>1. Accel \in Nat /\ StillStep \in Nat /\ c <= StillStep /\ w <= c + Accel
  BY MoverAssumption, ExerciseAssumption DEF Slow, Lesser
<1>2. 2 * (Accel * x) <= c * c + Accel * c
  BY DEF Ramping
<1>3. Slow' <=> w <= StillStep
  BY DEF Slow
<1>4. CASE w <= StillStep
  <2>1. w = c + Accel
    BY <1>1, <1>4 DEF Lesser
  <2>2. 2 * (Accel * y) <= (c + Accel) * (c + Accel) + Accel * (c + Accel)
    BY <1>1, <1>2, <2>1, RampOn
  <2>3. Ramping'
    BY <2>1, <2>2 DEF Ramping
  <2> QED
    BY <1>3, <1>4, <2>1, <2>3 DEF SetsOffOn
<1>5. CASE ~(w <= StillStep)
  <2>1. y <= x + (StillStep + Accel * (0 + 1)) /\ w <= StillStep + Accel * 1
    BY <1>1
  <2>2. 2 * (Accel * x) <= WayOf(0)
    BY <1>1, <1>2, RampIsWay
  <2>3. 2 * (Accel * y) <= WayOf(0 + 1)
    BY <2>1, <2>2, WayOn
  <2> QED
    BY <1>3, <1>5, <2>1, <2>3 DEF SetsOffOn, SlowAgo, Within
<1> QED
  BY <1>4, <1>5

\* A fast cart that stays fast.
LEMMA KeepsOn ==
  ASSUME NEW c \in Nat, NEW w \in Nat, NEW x \in Nat, NEW y \in Nat,
         current_speed = c, current_speed' = w, Covered = x, Covered' = y, y <= x + w,
         w <= c + Accel, StillStep < w
  PROVE  GoesOn
<1>1. Accel \in Nat /\ StillStep \in Nat
  BY MoverAssumption, ExerciseAssumption
<1>2. ~Slow'
  BY <1>1 DEF Slow
<1>3. ASSUME NEW g \in Nat, SlowAgo(g) PROVE SlowAgo(g + 1)'
  <2>1. c <= StillStep + Accel * g /\ 2 * (Accel * x) <= WayOf(g)
    BY <1>3 DEF SlowAgo, Within
  <2>2. Accel * (g + 1) = Accel * g + Accel /\ Accel * g \in Nat
    BY <1>1
  <2> DEFINE k == Accel * (g + 1)
  <2>3. k \in Nat /\ w <= StillStep + k
    BY <1>1, <2>1, <2>2
  <2>4. y <= x + (StillStep + k)
    <3> HIDE DEF k
    <3> QED
      BY <1>1, <2>3
  <2>5. 2 * (Accel * y) <= WayOf(g + 1)
    BY <2>1, <2>4, WayOn
  <2> QED
    BY <2>3, <2>5 DEF SlowAgo, Within
<1> QED
  BY <1>2, <1>3 DEF GoesOn

\* One tick of a straight leg.
LEMMA StraightTick ==
  ASSUME StandsOut, MoverTypeOK, StillStep < speed, speed' = speed,
         NEW next \in {"lapping", "parked"}, phase \in {"starting", "parking"},
         next = "lapping" => s = 0, DriveTowards(next), s' = s
  PROVE  CartTick
<1> DEFINE c == current_speed  q == (StillStep + Accel) * (StillStep + Accel)
<1>1. /\ dist \in Nat /\ dist <= CentreDist /\ CentreDist \in Nat /\ speed \in Nat /\ c \in Nat
      /\ c <= speed /\ Accel \in Nat /\ Accel >= 3 /\ Arrive \in Nat /\ Arrive >= 1
      /\ Arrive <= Accel /\ StillStep \in Nat /\ Accel <= StillStep /\ s \in Nat
  BY MoverAssumption, ExerciseAssumption DEF MoverTypeOK, StandsOut
<1>2. Covered = CentreDist - dist /\ LegLeft = dist
  BY DEF Covered, LegLeft
<1>3. Slow /\ Ramping => Accel * dist >= q
  BY <1>2, SlowRamp
<1>4. CASE dist < Arrive
  <2>1. step' = dist /\ current_speed' = 0 /\ phase' = next
    BY <1>4 DEF DriveTowards
  <2>2. SUFFICES ASSUME next = "lapping" PROVE CartTick
    BY <2>1 DEF CartTick
  <2>3. Slow' /\ step' <= StillStep
    BY <1>1, <1>4, <2>1 DEF Slow
  <2>4. Ramping'
    BY <1>1, <2>1, <2>2 DEF Ramping, Covered
  <2>5. Accel * dist < q
    <3>1. Accel * dist <= Accel * Accel
      BY <1>1, <1>4
    <3>2. q = StillStep * StillStep + 2 * (StillStep * Accel) + Accel * Accel
      BY <1>1
    <3>3. StillStep * StillStep > 0 /\ StillStep * Accel > 0
      BY <1>1
    <3> HIDE DEF q
    <3> QED
      BY <1>1, <3>1, <3>2, <3>3
  <2> QED
    BY <1>1, <1>2, <1>3, <2>3, <2>4, <2>5 DEF CartTick, BrakesOn, GoesOn
<1>5. CASE ~(dist < Arrive)
  <2>1. PICK w \in BrakeSpeeds(Ramp, dist) : current_speed' = w
    BY <1>5 DEF DriveTowards
  <2>2. /\ w \in Nat /\ w <= speed /\ w <= c + Accel /\ w * w <= Accel * dist
        /\ w < c => Accel * dist < (w + 1) * (w + 1)
        /\ c <= StillStep /\ Accel * dist >= q => w = Lesser(speed, c + Accel)
    BY <1>1, <2>1, BrakedChoice
  <2>3. w \in Nat /\ w <= speed /\ w <= c + Accel
    BY <2>2
  <2>4. w > dist => w <= Accel
    <3>1. w * w <= Accel * dist
      BY <2>2
    <3> QED
      BY <1>1, <2>3, <3>1, EndsSlowly
  <2>5. PICK p \in Nat, d \in Nat :
          /\ step' = p /\ dist' = d /\ phase' = phase
          /\ p = Lesser(w, dist) /\ d = dist - p
    <3>1. Lesser(w, dist) \in Nat /\ dist - Lesser(w, dist) \in Nat
      BY <1>1, <2>3 DEF Lesser
    <3>2. step' = Lesser(w, dist) /\ dist' = dist - Lesser(w, dist) /\ phase' = phase
      BY <1>5, <2>1 DEF DriveTowards
    <3> HIDE DEF Lesser
    <3> QED
      BY <3>1, <3>2
  <2>6. p <= w /\ p <= dist /\ (d = 0 \/ d + w = dist) /\ (p = w \/ (p = dist /\ dist < w))
    BY <1>1, <2>3, <2>5 DEF Lesser
  <2>7. Slow' <=> w <= StillStep
    BY <2>1 DEF Slow
  <2>8. step' <= StillStep <=> Slow'
    BY <1>1, <2>4, <2>3, <2>5, <2>6, <2>7
  <2>9. Covered' = CentreDist - d /\ LegLeft' = d
    BY <2>5 DEF Covered, LegLeft
  <2>10. w < c => Braking'
    <3> SUFFICES ASSUME w < c PROVE Braking'
      OBVIOUS
    <3>1. CASE d = 0
      BY <1>1, <2>5, <3>1 DEF Braking
    <3>2. CASE d + w = dist
      <4>1. Accel * (d + w) < (w + 1) * (w + 1)
        BY <2>2, <3>2
      <4> QED
        BY <2>1, <2>9, <2>5, <4>1 DEF Braking
    <3> QED
      BY <2>6, <3>1, <3>2
  <2>11. /\ CentreDist - dist \in Nat /\ CentreDist - d \in Nat
        /\ CentreDist - d <= (CentreDist - dist) + w
    BY <1>1, <2>3, <2>5, <2>6
  <2>12. ASSUME Slow, Ramping PROVE SetsOffOn
    <3>1. w = Lesser(speed, c + Accel)
      BY <1>3, <2>2, <2>12 DEF Slow
    <3> QED
      BY <1>1, <1>2, <2>1, <2>9, <2>12, <2>3, <2>11, <3>1, SetsOff
  <2>13. ASSUME Slow, Braking PROVE BrakesOn
    <3>1. Accel * (dist + c) < (c + 1) * (c + 1)
      BY <1>2, <1>5, <2>13 DEF Braking
    <3>2. 2 * w + (Accel - 1) <= 2 * c
      <4>1. w * w <= Accel * dist
        BY <2>2
      <4>2. dist >= 1
        BY <1>1, <1>5
      <4> HIDE DEF c
      <4> QED
        BY <1>1, <2>3, <3>1, <4>1, <4>2, BrakeLadder
    <3>3. w < c /\ w <= StillStep
      BY <1>1, <2>3, <2>13, <3>2 DEF Slow
    <3> QED
      BY <2>1, <2>10, <2>7, <3>2, <3>3 DEF BrakesOn
  <2>14. ASSUME ~Slow PROVE GoesOn
    <3>1. CASE Slow'
      <4>1. w < c /\ w <= StillStep
        BY <1>1, <2>3, <2>14, <2>7, <3>1 DEF Slow
      <4>2. Accel * dist < q
        <5>1. Accel * dist < (w + 1) * (w + 1)
          BY <2>2, <4>1
        <5> QED
          BY <1>1, <2>3, <4>1, <5>1, SlowBraked
      <4> QED
        BY <1>2, <2>10, <3>1, <4>1, <4>2 DEF GoesOn
    <3>2. CASE ~Slow'
      <4>1. StillStep < w
        BY <1>1, <2>3, <2>7, <3>2
      <4> QED
        BY <1>1, <1>2, <2>1, <2>9, <2>3, <2>11, <4>1, KeepsOn
    <3> QED
      BY <3>1, <3>2
  <2> QED
    BY <2>8, <2>12, <2>13, <2>14 DEF CartTick
<1> QED
  BY <1>4, <1>5

\* One tick of the lap, the turn towards the centre and the next lap included.
LEMMA LapTick ==
  ASSUME StandsOut, MoverTypeOK, LapsLeft, StillStep < speed, speed < TrackLen,
         speed' = speed, laps' = laps, phase = "lapping", s < TrackLen, FollowTrack
  PROVE  CartTick /\ (phase' = "lapping" => s' < TrackLen)
<1> DEFINE c == current_speed  d == TrackLen - s  q == (StillStep + Accel) * (StillStep + Accel)
<1>1. /\ CentreDist \in Nat /\ TrackLen \in Nat /\ speed \in Nat /\ c \in Nat /\ c <= speed
      /\ Accel \in Nat /\ Accel >= 3 /\ StillStep \in Nat /\ Accel <= StillStep
      /\ s \in Nat /\ d \in Nat /\ d >= 1 /\ s + d = TrackLen /\ lap \in Nat /\ laps \in Int
  BY MoverAssumption, ExerciseAssumption DEF MoverTypeOK, StandsOut
<1>2. Covered = s /\ LegLeft = d
  BY DEF Covered, LegLeft
<1>3. Slow /\ Ramping => Accel * d >= q
  BY <1>1, <1>2, SlowRamp
<1>4. PICK v \in 0..speed :
        /\ v \in LapSpeed /\ current_speed' = v /\ step' = v
        /\ \/ /\ s + v < TrackLen /\ s' = s + v
              /\ lap' = lap /\ phase' = phase /\ dist' = dist
           \/ /\ ~(s + v < TrackLen) /\ s' = s + v - TrackLen
              /\ lap' = IF laps > 0 THEN lap + 1 ELSE lap
              /\ IF laps > 0 /\ lap' >= laps
                 THEN phase' = "parking" /\ dist' = CentreDist
                 ELSE phase' = phase /\ dist' = dist
  BY FollowTrackStep
<1>5. v \in Nat /\ v <= speed /\ v <= c + Accel
      /\ (v < c => LastLap /\ Accel * d < (v + 1) * (v + 1))
      /\ (LastLap => v * v <= Accel * d)
      /\ (c <= StillStep /\ Accel * d >= q => v = Lesser(speed, c + Accel))
      /\ (~LastLap => v = Lesser(speed, c + Accel))
  <2>1. CASE LastLap
    <3>1. v \in BrakeSpeeds(Ramp, d)
      BY <1>1, <1>4, <2>1 DEF LapSpeed, LastLap, Left
    <3> QED
      BY <1>1, <2>1, <3>1, BrakedChoice
  <2>2. CASE ~LastLap
    <3>1. v = Lesser(speed, c + Accel)
      BY <1>4, <2>2 DEF LapSpeed, LastLap, Ramp
    <3>2. v \in Nat /\ v <= speed /\ v <= c + Accel /\ ~(v < c)
      BY <1>1, <3>1 DEF Lesser
    <3> QED
      BY <2>2, <3>1, <3>2
  <2> QED
    BY <2>1, <2>2
<1>6. v \in Nat /\ v <= speed /\ v <= c + Accel
  BY <1>5
<1>7. (Slow' <=> v <= StillStep) /\ (step' <= StillStep <=> Slow')
  BY <1>4 DEF Slow
<1>8. Slow /\ Ramping => v = Lesser(speed, c + Accel)
  BY <1>3, <1>5 DEF Slow
<1>9. CASE s + v < TrackLen
  <2>1. s' = s + v /\ lap' = lap /\ phase' = "lapping"
    BY <1>4, <1>9, <1>1, <1>6
  <2>2. Covered' = s + v /\ LegLeft' = TrackLen - (s + v)
    BY <2>1 DEF Covered, LegLeft
  <2>3. v < c => Braking'
    <3> SUFFICES ASSUME v < c PROVE Braking'
      OBVIOUS
    <3>1. TrackLen - (s + v) + v = d
      BY <1>1, <1>6
    <3>2. Accel * (TrackLen - (s + v) + v) < (v + 1) * (v + 1)
      BY <1>5, <3>1
    <3>3. LastLap'
      BY <1>5, <2>1 DEF LastLap
    <3> QED
      BY <1>4, <2>1, <2>2, <3>2, <3>3 DEF Braking
  <2>4. s \in Nat /\ s + v \in Nat /\ s + v <= s + v
    BY <1>1, <1>6
  <2>5. ASSUME Slow, Ramping PROVE SetsOffOn
    BY <1>1, <1>2, <1>4, <1>6, <1>8, <2>2, <2>4, <2>5, SetsOff
  <2>6. ASSUME Slow, Braking PROVE BrakesOn
    <3>1. LastLap /\ Accel * (d + c) < (c + 1) * (c + 1)
      BY <1>2, <2>6 DEF Braking
    <3>2. v * v <= Accel * d
      BY <1>5, <3>1
    <3>3. 2 * v + (Accel - 1) <= 2 * c
      <4> HIDE DEF c, d
      <4> QED
        BY <1>1, <1>6, <3>1, <3>2, BrakeLadder
    <3>4. v < c /\ v <= StillStep
      BY <1>1, <1>6, <2>6, <3>3 DEF Slow
    <3> QED
      BY <1>4, <1>7, <2>3, <3>3, <3>4 DEF BrakesOn
  <2>7. ASSUME ~Slow PROVE GoesOn
    <3>1. CASE v <= StillStep
      <4>1. v < c
        BY <1>1, <1>6, <2>7, <3>1 DEF Slow
      <4>2. Accel * d < (v + 1) * (v + 1)
        BY <1>5, <4>1
      <4>3. Accel * d < q
        <5> HIDE DEF d
        <5> QED
          BY <1>1, <1>6, <3>1, <4>2, SlowBraked
      <4> QED
        BY <1>2, <1>7, <2>3, <3>1, <4>1, <4>3 DEF GoesOn
    <3>2. CASE ~(v <= StillStep)
      <4>1. StillStep < v
        BY <1>1, <1>6, <3>2
      <4> QED
        BY <1>1, <1>2, <1>4, <1>6, <2>2, <2>4, <4>1, KeepsOn
    <3> QED
      BY <3>1, <3>2
  <2> QED
    BY <1>7, <1>9, <2>1, <2>5, <2>6, <2>7 DEF CartTick
<1>10. CASE ~(s + v < TrackLen)
  <2>1. /\ s' = s + v - TrackLen /\ s + v - TrackLen \in Nat /\ s + v - TrackLen <= s + v
        /\ s + v - TrackLen < TrackLen /\ d <= v
    BY <1>1, <1>4, <1>6, <1>10
  <2>2. Accel * d <= Accel * v
    BY <1>1, <1>6, <2>1
  <2>3. q = StillStep * StillStep + 2 * (StillStep * Accel) + Accel * Accel
        /\ StillStep * StillStep > 0 /\ StillStep * Accel > 0
    BY <1>1
  <2>4. CASE phase' = "parking"
    <3>1. v <= Accel /\ dist' = CentreDist
      BY <1>4, <1>10, <2>4, TurnStep
    <3>2. v <= StillStep
      BY <1>1, <1>6, <3>1
    <3>3. Accel * d < q
      <4>1. Accel * v <= Accel * Accel
        BY <1>1, <1>6, <3>1
      <4>2. /\ Accel * d \in Nat /\ Accel * v \in Nat /\ Accel * Accel \in Nat
            /\ StillStep * Accel \in Nat /\ StillStep * StillStep \in Nat
        BY <1>1, <1>6
      <4> HIDE DEF q, d
      <4> QED
        BY <2>2, <2>3, <4>1, <4>2
    <3>4. Ramping'
      <4>1. Covered' = 0
        BY <1>1, <2>4, <3>1 DEF Covered
      <4>2. 2 * (Accel * 0) <= v * v + Accel * v
        BY <1>1, <1>6
      <4> QED
        BY <1>4, <4>1, <4>2 DEF Ramping
    <3>5. ~(Slow /\ Ramping)
      <4>1. Accel * d \in Nat /\ q \in Nat
        BY <1>1
      <4> QED
        BY <1>3, <3>3, <4>1
    <3> QED
      BY <1>2, <1>7, <2>4, <3>2, <3>3, <3>4, <3>5 DEF CartTick, BrakesOn, GoesOn
  <2>5. CASE phase' = "lapping"
    <3>1. ~LastLap
      BY <1>1, <1>4, <1>10, <2>5 DEF LastLap
    <3>2. v = Lesser(speed, c + Accel)
      BY <1>5, <3>1
    <3>3. Covered' = s + v - TrackLen
      BY <2>1, <2>5 DEF Covered
    <3>4. ~(Slow /\ Ramping)
      <4> SUFFICES ASSUME Slow, Ramping PROVE FALSE
        OBVIOUS
      <4>1. v <= StillStep + Accel
        BY <1>1, <1>6 DEF Slow
      <4>2. Accel * v <= Accel * StillStep + Accel * Accel
        <5>1. Accel * v <= Accel * (StillStep + Accel)
          BY <1>1, <1>6, <4>1
        <5> QED
          BY <1>1, <5>1
      <4>3. Accel * StillStep = StillStep * Accel
        BY <1>1
      <4>4. /\ Accel * d \in Nat /\ Accel * v \in Nat /\ Accel * Accel \in Nat
            /\ StillStep * Accel \in Nat /\ StillStep * StillStep \in Nat
        BY <1>1, <1>6
      <4>5. Accel * d >= q
        BY <1>3
      <4> HIDE DEF q, d
      <4> QED
        BY <2>2, <2>3, <4>2, <4>3, <4>4, <4>5
    <3>5. ~Braking
      BY <3>1 DEF Braking
    <3>6. ASSUME ~Slow PROVE GoesOn
      <4>1. StillStep < v
        BY <1>1, <1>6, <3>2, <3>6 DEF Slow, Lesser
      <4> QED
        BY <1>1, <1>2, <1>4, <1>6, <2>1, <3>3, <4>1, KeepsOn
    <3> QED
      BY <1>7, <2>1, <3>4, <3>5, <3>6 DEF CartTick
  <2> QED
    BY <1>4, <1>10, <2>4, <2>5
<1> QED
  BY <1>9, <1>10

\* The cart, for as long as it has not parked.
DriveInv ==
  /\ speed = 0 \/ (StillStep < speed /\ speed < TrackLen)
  /\ phase = "starting" => s = 0
  /\ phase = "lapping" => s < TrackLen

LEMMA MovingTick ==
  ASSUME StandsOut, MoverTypeOK, LapsLeft, DriveInv, Moves, MoverTick
  PROVE  CartTick /\ DriveInv'
<1>1. /\ speed' = speed /\ laps' = laps /\ Advance
      /\ StillStep < speed /\ speed < TrackLen
  BY MoverAssumption DEF MoverTick, Moves, DriveInv, MoverTypeOK
<1>2. CASE phase = "parking" /\ DriveTowards("parked") /\ UNCHANGED <<s, lap>>
  <2>1. phase' \in {"parking", "parked"}
    BY <1>2, DriveTowardsPhase
  <2> QED
    BY <1>1, <1>2, <2>1, StraightTick DEF DriveInv
<1>3. CASE phase = "starting" /\ DriveTowards("lapping") /\ UNCHANGED <<s, lap>>
  <2>1. s = 0 /\ phase' \in {"starting", "lapping"}
    BY <1>3, DriveTowardsPhase DEF DriveInv
  <2>2. 0 < TrackLen
    BY MoverAssumption
  <2> QED
    BY <1>1, <1>3, <2>1, <2>2, StraightTick DEF DriveInv
<1>4. CASE phase = "lapping" /\ FollowTrack
  <2>1. CartTick /\ (phase' = "lapping" => s' < TrackLen)
    BY <1>1, <1>4, LapTick DEF DriveInv
  <2>2. phase' # "starting"
    BY <1>4, FollowTrackStep DEF MoverTypeOK
  <2> QED
    BY <1>1, <2>1, <2>2 DEF DriveInv
<1> QED
  BY <1>1, <1>2, <1>3, <1>4 DEF Advance

\* What the stopwatch can show.  A tick of a slow stretch counts for at least
\* Accel - 1 in the speed it gains or loses; a fast cart can only be taken for
\* still on a picture of the stretch it has just left, and a loop that is late
\* has looked at it MarkerTimeout + late ticks ago at most.
Seen == frame.still /\ Visible
WatchSlow ==
  \/ Ramping /\ (Accel - 1) * still_for <= 2 * StillStep + (Accel - 1) + current_speed
  \/ Braking /\ (Accel - 1) * still_for <= 2 * (StillStep - current_speed)
WatchFast ==
  /\ Seen => /\ SlowAgo(frame.age)
             /\ (Accel - 1) * still_for <= 3 * StillStep + (Accel - 1) + (Accel - 1) * frame.age
  /\ still_for # NotStill =>
       IF "control" \in due THEN SlowAgo(MarkerTimeout + late + 1) ELSE Seen
WatchInv ==
  /\ busy \/ done => ~Moves
  /\ ~descending => still_for = NotStill
  /\ Moves => IF Slow THEN WatchSlow ELSE WatchFast

LEMMA WithinGrows ==
  ASSUME NEW c \in Nat, NEW x \in Nat, NEW g \in Nat, NEW h \in Nat, g <= h, Within(c, x, g)
  PROVE  Within(c, x, h)
<1>0. Accel \in Nat /\ StillStep \in Nat
  BY MoverAssumption, ExerciseAssumption
<1>1. Accel * g <= Accel * h /\ Accel * g \in Nat /\ Accel * h \in Nat
  BY <1>0
<1>2. c <= StillStep + Accel * h
  BY <1>0, <1>1 DEF Within
<1>3. WayOf(g) <= WayOf(h) /\ WayOf(g) \in Nat /\ WayOf(h) \in Nat
  BY WayGrows, WayType
<1>4. Accel * x \in Nat /\ 2 * (Accel * x) <= WayOf(g)
  BY <1>0 DEF Within
<1> QED
  BY <1>2, <1>3, <1>4 DEF Within

\* Between two slow stretches the camera forgets: who has seen the cart slow
\* at the beginning of its leg does not see it brake at the end of it.
LEMMA NotNearTheEnd ==
  ASSUME StandsOut, MoverTypeOK, DriveInv, NEW g \in Nat, g <= MarkerTimeout + MaxLate + 1,
         SlowAgo(g)
  PROVE  ~(Accel * LegLeft < (StillStep + Accel) * (StillStep + Accel))
<1>1. /\ Covered \in Nat /\ LegLeft \in Nat
      /\ \/ Covered + LegLeft = CentreDist
         \/ Covered + LegLeft = TrackLen
  BY MoverAssumption DEF MoverTypeOK, DriveInv, Covered, LegLeft
<1>2. 2 * (Accel * Covered) <= WayOf(g)
  BY DEF SlowAgo, Within
<1> HIDE DEF Covered, LegLeft
<1>3. Accel * LegLeft >= (StillStep + Accel) * (StillStep + Accel)
  BY <1>1, <1>2, Room, MoverAssumption DEF StandsOut
<1>4. Accel * LegLeft \in Nat /\ (StillStep + Accel) * (StillStep + Accel) \in Nat
  BY <1>1, MoverAssumption, ExerciseAssumption
<1> QED
  BY <1>3, <1>4

LEMMA CartTypes ==
  ASSUME MoverTypeOK
  PROVE  /\ current_speed \in Nat /\ Covered \in Nat /\ StillStep \in Nat
         /\ Accel \in Nat /\ Accel >= 1 /\ MarkerTimeout \in Nat /\ MaxLate \in Nat
         /\ StillTime \in Nat
BY MoverAssumption, ExerciseAssumption, ServoAssumption DEF MoverTypeOK, Covered

\* A tick while the cart moves.
LEMMA WatchTick ==
  ASSUME StandsOut, MoverTypeOK, MoverTypeOK', ServoTypeOK, ServoTypeOK', DriveInv, CartTick,
         phase' # "parked", ~busy, ~done, IF Slow THEN WatchSlow ELSE WatchFast,
         ServoTick(step' <= StillStep)
  PROVE  IF Slow' THEN WatchSlow' ELSE WatchFast'
<1> DEFINE e == Accel - 1  c == current_speed  n == still_for
<1>1. /\ c \in Nat /\ e \in Nat /\ e + 1 = Accel /\ n \in Int /\ n >= -1 /\ StillStep \in Nat
      /\ MarkerTimeout \in Nat /\ MaxLate \in Nat /\ Accel \in Nat
      /\ late \in Nat /\ frame.age \in Nat /\ frame.still \in BOOLEAN
  BY CartTypes, ServoAssumption DEF ServoTypeOK
<1>2. PICK w \in Nat, y \in Nat, k \in Int :
        /\ current_speed' = w /\ Covered' = y /\ still_for' = k
        /\ k <= n + 1 /\ k >= -1 /\ (n = NotStill => k = NotStill)
  <2>1. current_speed' \in Nat /\ Covered' \in Nat
    <3>1. Covered' = IF phase' = "lapping" THEN s' ELSE CentreDist - dist'
      BY DEF Covered
    <3>2. speed' \in Nat /\ current_speed' \in 0..speed' /\ s' \in Nat /\ dist' \in 0..CentreDist
      BY DEF MoverTypeOK
    <3>3. ASSUME NEW d \in 0..CentreDist PROVE CentreDist - d \in Nat
      BY MoverAssumption
    <3>4. ASSUME NEW m \in Nat, NEW d \in 0..m PROVE d \in Nat
      OBVIOUS
    <3> QED
      BY <3>1, <3>2, <3>3, <3>4
  <2>2. still_for' = IF n = NotStill THEN NotStill ELSE Grown(n, StillTime + 1)
    BY DEF ServoTick
  <2>3. Grown(n, StillTime + 1) \in Int /\ Grown(n, StillTime + 1) <= n + 1
        /\ Grown(n, StillTime + 1) >= -1
    BY <1>1 DEF Grown
  <2> HIDE DEF Grown
  <2> QED
    BY <1>1, <2>1, <2>2, <2>3 DEF NotStill
<1>3. e * k <= e * n + e /\ e * k \in Int /\ e * n \in Int /\ (k = -1 => e * k <= 0)
  <2>1. e * k <= e * (n + 1) /\ e * (n + 1) = e * n + e
    BY <1>1, <1>2
  <2> HIDE DEF e
  <2> QED
    BY <1>1, <1>2, <2>1
<1>4. Seen' => \/ step' <= StillStep
               \/ Seen /\ frame'.age = frame.age + 1 /\ frame.age + 1 < MarkerTimeout
  <2>1. \/ frame' = [age |-> 0, still |-> (step' <= StillStep)]
        \/ frame' = [frame EXCEPT !.age = Grown(frame.age, MarkerTimeout)]
    BY DEF ServoTick
  <2>2. CASE frame' = [age |-> 0, still |-> (step' <= StillStep)]
    BY <2>2 DEF Seen
  <2>3. CASE frame' = [frame EXCEPT !.age = Grown(frame.age, MarkerTimeout)]
    <3>1. frame'.age = Grown(frame.age, MarkerTimeout) /\ frame'.still = frame.still
      BY <2>3 DEF ServoTypeOK
    <3>2. Grown(frame.age, MarkerTimeout) < MarkerTimeout =>
            Grown(frame.age, MarkerTimeout) = frame.age + 1 /\ frame.age < MarkerTimeout
      BY <1>1 DEF Grown
    <3> HIDE DEF Grown
    <3> QED
      BY <3>1, <3>2 DEF Seen, Visible
  <2> QED
    BY <2>1, <2>2, <2>3
<1>5. "control" \in due' /\ late' \in Nat /\ late' <= MaxLate
      /\ ("control" \in due => late' = late + 1)
  BY <1>1 DEF ServoTick
<1>6. /\ step' <= StillStep <=> Slow'
      /\ Slow /\ Ramping => SetsOffOn
      /\ Slow /\ Braking => BrakesOn
      /\ ~Slow => GoesOn
  BY DEF CartTick
<1>7. /\ \A g \in Nat, h \in Nat : g <= h /\ Within(w, y, g) => Within(w, y, h)
      /\ \A g \in Nat : SlowAgo(g)' <=> Within(w, y, g)
  BY <1>2, WithinGrows DEF SlowAgo
<1>8. CASE Slow /\ Ramping /\ e * n <= 2 * StillStep + e + c
  <2>1. c <= StillStep
    BY <1>8 DEF Slow
  <2>2. CASE Slow' /\ Ramping' /\ current_speed' = current_speed + Accel
    <3>1. e * k <= 2 * StillStep + e + w
      <4> HIDE DEF e
      <4> QED
        BY <1>1, <1>2, <1>3, <1>8, <2>2
    <3> QED
      BY <1>2, <2>2, <3>1 DEF WatchSlow
  <2>3. CASE ~Slow' /\ SlowAgo(1)'
    <3>1. ASSUME Seen'
          PROVE  Within(w, y, frame'.age) /\ e * k <= 3 * StillStep + e + e * frame'.age
      <4>1. frame'.age = frame.age + 1
        BY <1>4, <1>6, <2>3, <3>1
      <4>2. Within(w, y, frame.age + 1)
        BY <1>1, <1>7, <2>3
      <4> DEFINE j == frame.age + 1
      <4>3. j \in Nat /\ 1 <= j
        BY <1>1
      <4> HIDE DEF j, e
      <4>4. e * j >= e /\ e * j \in Nat
        BY <1>1, <4>3
      <4>5. e * k <= 3 * StillStep + e + e * j
        BY <1>1, <1>3, <1>8, <2>1, <4>4
      <4> QED
        BY <4>1, <4>2, <4>5 DEF j
    <3>2. Within(w, y, MarkerTimeout + late' + 1)
      BY <1>1, <1>5, <1>7, <2>3
    <3> QED
      BY <1>2, <1>5, <2>3, <3>1, <3>2 DEF WatchFast, SlowAgo
  <2> QED
    BY <1>6, <1>8, <2>2, <2>3 DEF SetsOffOn
<1>9. CASE Slow /\ Braking /\ e * n <= 2 * (StillStep - c)
  <2>1. c <= StillStep
    BY <1>9 DEF Slow
  <2>2. CASE Slow' /\ Braking' /\ 2 * current_speed' + (Accel - 1) <= 2 * current_speed
    <3>1. e * k <= 2 * (StillStep - w)
      <4>1. 2 * w + e <= 2 * c
        BY <1>2, <2>2
      <4> HIDE DEF e
      <4> QED
        BY <1>1, <1>3, <1>9, <4>1
    <3> QED
      BY <1>2, <2>2, <3>1 DEF WatchSlow
  <2>3. CASE Slow' /\ Ramping'
    <3>1. e * k <= 2 * StillStep + e + w
      <4> HIDE DEF e
      <4> QED
        BY <1>1, <1>3, <1>9, <2>1
    <3> QED
      BY <1>2, <2>3, <3>1 DEF WatchSlow
  <2> QED
    BY <1>6, <1>9, <2>2, <2>3 DEF BrakesOn
<1>10. CASE ~Slow
  <2>1. WatchFast
    BY <1>10
  <2>2. n # NotStill =>
          \/ "control" \in due /\ SlowAgo(MarkerTimeout + late + 1)
          \/ "control" \notin due /\ SlowAgo(frame.age) /\ frame.age < MarkerTimeout
    BY <2>1 DEF WatchFast, Seen, Visible
  <2>3. CASE ~Slow' /\ \A g \in Nat : SlowAgo(g) => SlowAgo(g + 1)'
    <3>1. ASSUME Seen'
          PROVE  Within(w, y, frame'.age) /\ e * k <= 3 * StillStep + e + e * frame'.age
      <4>1. Seen /\ frame'.age = frame.age + 1
        BY <1>4, <1>6, <2>3, <3>1
      <4>2. SlowAgo(frame.age) /\ e * n <= 3 * StillStep + e + e * frame.age
        BY <2>1, <4>1 DEF WatchFast
      <4>3. Within(w, y, frame.age + 1)
        BY <1>1, <1>7, <2>3, <4>2
      <4>4. e * (frame.age + 1) = e * frame.age + e /\ e * frame.age \in Nat
        BY <1>1
      <4> HIDE DEF e
      <4>5. e * k <= 3 * StillStep + e + e * (frame.age + 1)
        BY <1>1, <1>3, <4>2, <4>4
      <4> QED
        BY <4>1, <4>3, <4>5
    <3>2. k # NotStill => Within(w, y, MarkerTimeout + late' + 1)
      <4> SUFFICES ASSUME n # NotStill PROVE Within(w, y, MarkerTimeout + late' + 1)
        BY <1>2
      <4>1. CASE "control" \in due /\ SlowAgo(MarkerTimeout + late + 1)
        <5>1. Within(w, y, MarkerTimeout + late + 1 + 1)
          BY <1>1, <1>7, <2>3, <4>1
        <5>2. MarkerTimeout + late + 1 + 1 = MarkerTimeout + late' + 1
          BY <1>1, <1>5, <4>1
        <5> QED
          BY <5>1, <5>2
      <4>2. CASE SlowAgo(frame.age) /\ frame.age < MarkerTimeout
        <5>1. Within(w, y, frame.age + 1)
          BY <1>1, <1>7, <2>3, <4>2
        <5>2. frame.age + 1 <= MarkerTimeout + late' + 1
          BY <1>1, <1>5, <4>2
        <5> QED
          BY <1>1, <1>5, <1>7, <5>1, <5>2
      <4> QED
        BY <2>2, <4>1, <4>2
    <3> QED
      BY <1>2, <1>5, <2>3, <3>1, <3>2 DEF WatchFast, SlowAgo
  <2>4. CASE /\ Slow' /\ (Braking' \/ Ramping')
             /\ Accel * LegLeft < (StillStep + Accel) * (StillStep + Accel)
    <3>1. n = NotStill
      <4> SUFFICES ASSUME n # NotStill PROVE FALSE
        OBVIOUS
      <4>1. late <= MaxLate
        BY ServoAssumption DEF ServoTypeOK
      <4>2. \E g \in Nat : g <= MarkerTimeout + MaxLate + 1 /\ SlowAgo(g)
        BY <1>1, <2>2, <4>1
      <4> QED
        BY <2>4, <4>2, NotNearTheEnd
    <3>2. k = -1 /\ e * k <= 0
      BY <1>2, <1>3, <3>1 DEF NotStill
    <3>3. w <= StillStep
      BY <1>2, <2>4 DEF Slow
    <3>4. e * k <= 2 * (StillStep - w) /\ e * k <= 2 * StillStep + e + w
      <4> HIDE DEF e
      <4> QED
        BY <1>1, <1>3, <3>2, <3>3
    <3> QED
      BY <1>2, <2>4, <3>4 DEF WatchSlow
  <2> QED
    BY <1>6, <1>10, <2>3, <2>4 DEF GoesOn
<1> QED
  BY <1>8, <1>9, <1>10 DEF WatchSlow

\* A new start: the cart stands at the beginning of its leg.
LEMMA WatchBegins ==
  ASSUME MoverTypeOK, phase = "starting", dist = CentreDist, current_speed = 0,
         ~busy, ~done, still_for = NotStill
  PROVE  WatchInv
<1>1. Slow
  BY ExerciseAssumption DEF Slow
<1>2. Ramping
  <2>1. Covered = 0
    BY MoverAssumption DEF Covered
  <2>2. 2 * (Accel * 0) <= 0 * 0 + Accel * 0
    BY MoverAssumption
  <2> QED
    BY <2>1, <2>2 DEF Ramping
<1>3. (Accel - 1) * (-1) <= 2 * StillStep + (Accel - 1) + 0
  BY MoverAssumption, ExerciseAssumption
<1> QED
  BY <1>1, <1>2, <1>3 DEF WatchInv, WatchSlow, NotStill

\* What a call of the loop does with the stopwatch.
LEMMA WatchControl ==
  ASSUME StandsOut, MoverTypeOK, ServoTypeOK, WatchInv, Control, UNCHANGED moverVars
  PROVE  WatchInv'
<1> DEFINE e == Accel - 1  c == current_speed  n == still_for
<1>1. UNCHANGED <<frame, late, done>> /\ "control" \in due /\ "control" \notin due'
  BY DEF Control
<1>2. /\ Moves' = Moves /\ Slow' = Slow /\ Ramping' = Ramping /\ Braking' = Braking
      /\ current_speed' = current_speed /\ SlowAgo(frame.age)' = SlowAgo(frame.age)
      /\ Seen' = Seen
  BY <1>1 DEF moverVars, Moves, Slow, Ramping, Braking, LastLap, Covered, LegLeft, SlowAgo,
              Seen, Visible
<1>3. /\ c \in Nat /\ e \in Nat /\ e >= 1 /\ n \in Int /\ n >= -1 /\ StillStep \in Nat
      /\ MarkerTimeout \in Nat /\ StillTime \in Nat /\ frame.age \in Nat
      /\ 3 * StillStep < e * (StillTime + 1 - MarkerTimeout)
  BY CartTypes, ServoAssumption DEF ServoTypeOK, StandsOut
<1>4. CASE ~MayControl
  <2>1. UNCHANGED <<busy, descending, still_for>> /\ ~Moves
    BY <1>4 DEF Control, MayControl, WatchInv
  <2> QED
    BY <1>1, <1>2, <2>1 DEF WatchInv
<1>5. ASSUME MayControl,
             NEW err \in {"large", "medium", "small"}, NEW still \in {FALSE, frame.still},
             MarkerLost \/ Centre(err) \/ Descend(err, still)
      PROVE  WatchInv'
  <2>1. ~busy /\ ~done /\ ~done'
    BY <1>1, <1>5 DEF MayControl
  \* What the stopwatch shows is not more than before, and only seen stillness
  \* keeps it running.
  <2>2. /\ still_for' \in {-1, 0, n} /\ (still_for' # NotStill => Seen)
        /\ (~descending' => still_for' = NotStill)
    <3>1. CASE MarkerLost
      BY <3>1 DEF MarkerLost, StandsOut, NotStill, WatchInv
    <3>2. CASE Centre(err)
      BY <3>2 DEF Centre, NotStill, WatchInv
    <3>3. CASE Descend(err, still)
      <4>1. still => Seen
        BY <1>5, <3>3 DEF Descend, Seen
      <4>2. still_for' = Stopwatch(still) /\ descending'
        BY <3>3 DEF Descend
      <4>3. CASE still
        BY <4>1, <4>2, <4>3 DEF Stopwatch, NotStill
      <4>4. CASE ~still
        BY <4>2, <4>4 DEF Stopwatch, NotStill
      <4> QED
        BY <4>3, <4>4
    <3> QED
      BY <1>5, <3>1, <3>2, <3>3
  <2>3. PICK k \in Int : still_for' = k
    BY <1>3, <2>2
  <2>4. e * k \in Int /\ e * n \in Int /\ (k = n \/ e * k <= 0)
    BY <1>3, <2>2, <2>3
  <2>5. Moves => IF Slow' THEN WatchSlow' ELSE WatchFast'
    <3> SUFFICES ASSUME Moves PROVE IF Slow' THEN WatchSlow' ELSE WatchFast'
      OBVIOUS
    <3>1. CASE Slow
      <4>1. c <= StillStep /\ WatchSlow
        BY <3>1 DEF Slow, WatchInv
      <4>2. \/ Ramping /\ e * k <= 2 * StillStep + e + c
            \/ Braking /\ e * k <= 2 * (StillStep - c)
        <5>1. \/ Ramping /\ e * n <= 2 * StillStep + e + c
              \/ Braking /\ e * n <= 2 * (StillStep - c)
          BY <4>1 DEF WatchSlow
        <5> HIDE DEF e
        <5> QED
          BY <1>3, <2>4, <4>1, <5>1
      <4> QED
        BY <1>2, <2>3, <3>1, <4>2 DEF WatchSlow
    <3>2. CASE ~Slow
      <4>1. WatchFast
        BY <3>2 DEF WatchInv
      <4>2. Seen => SlowAgo(frame.age) /\ e * n <= 3 * StillStep + e + e * frame.age
        BY <4>1 DEF WatchFast
      <4>3. Seen => e * k <= 3 * StillStep + e + e * frame.age
        <5>1. e * frame.age \in Nat
          BY <1>3
        <5> HIDE DEF e
        <5> QED
          BY <1>3, <2>4, <4>2, <5>1
      <4> QED
        BY <1>1, <1>2, <2>2, <2>3, <3>2, <4>2, <4>3 DEF WatchFast
    <3> QED
      BY <3>1, <3>2
  \* The cart still moves: the stopwatch has not run for long enough.
  <2>6. ASSUME Moves, Descend(err, still), still, Stopwatch(still) > StillTime
        PROVE  FALSE
    <3>1. Seen /\ still_for' = Stopwatch(still) /\ frame.age < MarkerTimeout
      BY <1>5, <2>6 DEF Descend, Seen, Visible
    <3>2. e * k <= 3 * StillStep + e + e * frame.age
      <4>1. CASE Slow
        <5>1. c <= StillStep /\ (e * k <= 2 * StillStep + e + c \/ e * k <= 2 * (StillStep - c))
          BY <1>2, <2>3, <2>5, <2>6, <4>1 DEF WatchSlow, Slow
        <5>2. e * frame.age \in Nat
          BY <1>3
        <5> HIDE DEF e
        <5> QED
          BY <1>3, <2>4, <5>1, <5>2
      <4>2. CASE ~Slow
        BY <1>1, <1>2, <2>3, <2>5, <2>6, <3>1, <4>2 DEF WatchFast
      <4> QED
        BY <4>1, <4>2
    <3>3. k >= StillTime + 1
      <4>1. k > StillTime
        BY <2>3, <2>6, <3>1
      <4> QED
        BY <1>3, <4>1
    <3>4. e * (StillTime + 1) <= e * k
      <4> HIDE DEF e
      <4> QED
        BY <1>3, <3>3
    <3>5. e * (frame.age + 1) <= e * MarkerTimeout
      BY <1>3, <3>1
    <3>6. /\ e * (frame.age + 1) = e * frame.age + e
          /\ e * (StillTime + 1 - MarkerTimeout) = e * (StillTime + 1) - e * MarkerTimeout
          /\ e * frame.age \in Nat /\ e * (StillTime + 1) \in Nat /\ e * MarkerTimeout \in Nat
      <4> HIDE DEF e
      <4> QED
        BY <1>3
    <3> HIDE DEF e
    <3> QED
      BY <1>3, <2>4, <3>2, <3>4, <3>5, <3>6
  <2>7. busy' => ~Moves
    <3>1. busy' # busy => Descend(err, still) /\ still /\ Stopwatch(still) > StillTime
      BY <1>5 DEF MarkerLost, Centre, Descend
    <3> QED
      BY <2>1, <2>6, <3>1
  <2> QED
    BY <1>2, <2>1, <2>2, <2>5, <2>7 DEF WatchInv
<1> QED
  BY <1>4, <1>5 DEF Control

\* The timer of the grasp leaves the stopwatch alone.
LEMMA WatchGrasp ==
  ASSUME WatchInv, StepGrasp, UNCHANGED moverVars
  PROVE  WatchInv'
<1>1. UNCHANGED <<frame, late, descending, still_for>> /\ due' = due \ {"step_grasp"}
  BY DEF StepGrasp
<1>2. "control" \in due' <=> "control" \in due
  BY <1>1
<1>3. busy' \/ done' => ~Moves
  BY DEF StepGrasp, Closing, Settle, Lift, WatchInv
<1>4. /\ Moves' = Moves /\ Slow' = Slow
      /\ WatchSlow' = WatchSlow /\ (WatchFast' <=> WatchFast)
  BY <1>1, <1>2 DEF moverVars, Moves, Slow, Ramping, Braking, LastLap, Covered, LegLeft,
                    SlowAgo, Seen, Visible, WatchSlow, WatchFast
<1> QED
  BY <1>1, <1>3, <1>4 DEF WatchInv

LEMMA WatchNext ==
  ASSUME StandsOut, MoverTypeOK, MoverTypeOK', ServoTypeOK, ServoTypeOK', LapsLeft, DriveInv,
         WatchInv, [Next]_vars
  PROVE  (DriveInv /\ WatchInv)'
<1>1. CASE NextLaunch
  <2>1. MoverRestart /\ ServoRestart
    BY <1>1 DEF NextLaunch
  <2>2. DriveInv'
    BY <2>1, MoverAssumption DEF MoverRestart, DriveInv
  <2>3. Slow' /\ Ramping'
    <3>1. Covered' = 0
      BY <2>1, MoverAssumption DEF MoverRestart, Covered
    <3>2. 2 * (Accel * 0) <= 0 * 0 + Accel * 0 /\ 0 <= StillStep
      BY MoverAssumption, ExerciseAssumption
    <3>3. current_speed' = 0
      BY <2>1 DEF MoverRestart
    <3> QED
      BY <3>1, <3>2, <3>3 DEF Ramping, Slow
  <2>4. (Accel - 1) * (-1) <= 2 * StillStep + (Accel - 1) + 0
    BY MoverAssumption, ExerciseAssumption
  <2>5. ~busy' /\ ~done' /\ still_for' = -1 /\ current_speed' = 0
    BY <2>1 DEF ServoRestart, MoverRestart, NotStill
  <2>6. WatchSlow'
    BY <2>3, <2>4, <2>5 DEF WatchSlow
  <2> QED
    BY <2>2, <2>3, <2>5, <2>6 DEF WatchInv, NotStill
<1>2. CASE Time
  <2>1. MoverTick /\ ServoTick(step' <= StillStep)
    BY <1>2 DEF Time
  <2>2. UNCHANGED <<busy, done, descending>> /\ (still_for = NotStill => still_for' = NotStill)
    BY <2>1 DEF ServoTick
  <2>3. CASE ~Moves
    <3>1. UNCHANGED <<phase, dist, s, lap, current_speed, speed, laps>>
      BY <2>1, <2>3 DEF MoverTick, Moves
    <3> QED
      BY <2>2, <2>3, <3>1 DEF DriveInv, WatchInv, Moves
  <2>4. CASE Moves
    <3>1. CartTick /\ DriveInv' /\ speed' = speed
      BY <2>1, <2>4, MovingTick DEF MoverTick
    <3>2. ~busy /\ ~done /\ IF Slow THEN WatchSlow ELSE WatchFast
      BY <2>4 DEF WatchInv
    <3>3. Moves' => IF Slow' THEN WatchSlow' ELSE WatchFast'
      BY <2>1, <3>1, <3>2, WatchTick DEF Moves
    <3> QED
      BY <2>2, <3>1, <3>2, <3>3 DEF WatchInv
  <2> QED
    BY <2>3, <2>4
<1>3. CASE ControlTimer
  BY <1>3, WatchControl DEF ControlTimer, moverVars, DriveInv
<1>4. CASE StepGraspTimer
  BY <1>4, WatchGrasp DEF StepGraspTimer, moverVars, DriveInv
<1>5. CASE UNCHANGED <<moverVars, servoVars>>
  BY <1>5 DEF moverVars, servoVars, DriveInv, WatchInv, Moves, Slow, Ramping, Braking, LastLap,
              Covered, LegLeft, SlowAgo, Seen, Visible, WatchSlow, WatchFast
<1> QED
  BY <1>1, <1>2, <1>3, <1>4, <1>5 DEF Next, LaunchStep, vars

\* For every mode and speed that stands out from STILL_SPEED, every number of laps
\* and every track that is long enough for the camera to forget, with frames lost
\* or late and timers in any order: the fingers never close on a cube whose cart is
\* still on its way (aruco_servo.py, lines 71-133, with aruco_target_mover.py,
\* lines 187-259, and servo_utils.py, lines 60-87).
THEOREM CubeIsTakenAtRest == StandsOut /\ Spec => []GraspsParkedCart
<1>1. StandsOut /\ Init => MoverTypeOK /\ ServoTypeOK /\ LapsLeft /\ DriveInv /\ WatchInv
  <2> SUFFICES ASSUME StandsOut, Init
               PROVE  MoverTypeOK /\ ServoTypeOK /\ LapsLeft /\ DriveInv /\ WatchInv
    OBVIOUS
  <2>1. MoverTypeOK /\ ServoTypeOK /\ LapsLeft
    BY MoverTypeInit, ServoTypeInit, LapsLeftInit DEF Init
  <2>2. DriveInv
    <3>1. PICK m \in Modes, x \in Speeds : speed = ChosenSpeed(m, x)
      BY DEF Init, MoverInit
    <3>2. speed = 0 \/ (StillStep < speed /\ speed < TrackLen)
      BY <3>1 DEF StandsOut
    <3> QED
      BY <3>2 DEF Init, MoverInit, DriveInv
  <2>3. WatchInv
    BY <2>1, WatchBegins DEF Init, MoverInit, ServoInit
  <2> QED
    BY <2>1, <2>2, <2>3
<1>2. MoverTypeOK /\ LapsLeft /\ [Next]_vars => (MoverTypeOK /\ LapsLeft)'
  BY MoverTypeNext
<1>3. ServoTypeOK /\ [Next]_vars => ServoTypeOK'
  BY ServoTypeNext
<1>4. /\ StandsOut /\ MoverTypeOK /\ MoverTypeOK' /\ ServoTypeOK /\ ServoTypeOK'
      /\ LapsLeft /\ DriveInv /\ WatchInv /\ [Next]_vars
      => (DriveInv /\ WatchInv)'
  BY WatchNext
<1>5. MoverTypeOK /\ WatchInv => GraspsParkedCart
  BY DEF MoverTypeOK, WatchInv, Moves, GraspsParkedCart
<1>6. StandsOut => StandsOut'
  BY DEF StandsOut, ChosenSpeed, LongLeg, WayOf
<1> QED
  BY <1>1, <1>2, <1>3, <1>4, <1>5, <1>6, PTL DEF Spec
=============================================================================
