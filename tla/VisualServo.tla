----------------------------- MODULE VisualServo -----------------------------
(***************************************************************************)
(* The visual servoing exercise as a whole: the launch file                 *)
(* (PositionControl) brings up, at its end, the robot that carries the      *)
(* marker (TargetMover) and the node that follows it and takes the cube     *)
(* (MarkerServo).  Both run at 50 Hz, so they share the tick.               *)
(***************************************************************************)
EXTENDS PositionControl, TargetMover, MarkerServo

CONSTANT StillStep   \* STILL_SPEED, as the length of one tick

ASSUME ExerciseAssumption == StillStep \in Nat

vars == <<launchVars, moverVars, servoVars>>

\* after_switch: the nodes of the exercise are running.  An exercise that is
\* launched again later stands for what it leaves behind (see Relaunch).
Exercise == launch = "visual_servo" /\ step_of = "up" /\ launches = MaxLaunches

Init == PositionControlInit /\ MoverInit /\ ServoInit

LaunchStep ==
  /\ Launching \/ SimulationUp \/ MotionEnds
  /\ UNCHANGED <<moverVars, servoVars>>

\* All nodes of the launch end with it and begin anew with the next.
NextLaunch == Relaunch /\ MoverRestart /\ ServoRestart

\* Time goes by for both nodes; a picture taken now shows how fast the cart
\* moves, which a loop that tracks it feels as its own speed.
Time ==
  /\ Exercise
  /\ MoverTick
  /\ ServoTick(step' <= StillStep)
  /\ UNCHANGED launchVars

ControlTimer   == Exercise /\ Control /\ UNCHANGED <<launchVars, moverVars>>
StepGraspTimer == Exercise /\ StepGrasp /\ UNCHANGED <<launchVars, moverVars>>

Next == LaunchStep \/ NextLaunch \/ Time \/ ControlTimer \/ StepGraspTimer

Spec == Init /\ [][Next]_vars

\* Processes make progress, motions end and the two nodes are scheduled.
Fairness ==
  /\ WF_vars(LaunchStep)
  /\ WF_vars(Time) /\ WF_vars(ControlTimer) /\ WF_vars(StepGraspTimer)

FairSpec == Spec /\ Fairness

----------------------------------------------------------------------------
(* The numbers under which a cart at rest can be told from one that is slow *)
(* on its way.                                                              *)

\* How far a cart comes within g ticks of having been slow, from the beginning of
\* its leg, times 2 * Accel.
WayOf(g) ==
  StillStep * StillStep + Accel * StillStep + 2 * (Accel * (StillStep * g))
    + Accel * (Accel * (g * (g + 1)))

\* After it the leg still has a way to go that no slow cart is braked on: by then
\* the camera has forgotten what it saw, and a loop that is late has noticed.
LongLeg(l) ==
  2 * (Accel * l) > WayOf(MarkerTimeout + MaxLate + 1)
                      + 2 * ((StillStep + Accel) * (StillStep + Accel))

\* A marker out of sight stops the watch; a cart that moves is faster than
\* STILL_SPEED but for its ramps; a leg is long and the ramps are short: to brake,
\* turn and set off again takes less than STILL_TIME without what the camera may
\* still remember.
StandsOut ==
  /\ Completed
  /\ 3 <= Accel /\ Arrive <= Accel /\ Accel <= StillStep
  /\ \A m \in Modes, x \in Speeds :
       LET v == ChosenSpeed(m, x) IN v = 0 \/ (StillStep < v /\ v < TrackLen)
  /\ LongLeg(CentreDist) /\ LongLeg(TrackLen)
  /\ 3 * StillStep < (Accel - 1) * (StillTime + 1 - MarkerTimeout)

----------------------------------------------------------------------------
(* Properties of the whole.                                                 *)

TypeOK == LaunchTypeOK /\ MoverTypeOK /\ ServoTypeOK

\* The cube is only taken from a cart that has parked, or that was told not to
\* move at all: the stopwatch of the loop tells the parking from the moments
\* of the run in which the cart is as slow (the start of the two straight legs
\* and the end of the last lap), also when the camera loses the marker for a
\* while or shows it late.
GraspsParkedCart == busy \/ done => phase = "parked" \/ speed = 0

\* A grasp that has begun is finished, or the exercise is launched anew.
GraspEnds == busy ~> ~busy

\* With a simulation that runs every launch gets to its end, whatever the
\* one before has left behind.
RelaunchWorks == (traj # "absent" /\ step_of # "aborted") ~> (step_of = "up")

\* A cart that moves and has laps to do parks.
CartParks ==
  (Exercise /\ laps > 0 /\ speed > 0) ~> (phase = "parked" \/ ~Exercise)
=============================================================================
