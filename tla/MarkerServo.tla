----------------------------- MODULE MarkerServo -----------------------------
(***************************************************************************)
(* The visual servoing node: MarkerCamera and ServoArm of                   *)
(* xarm_scripts/servo_utils.py and the loop ArucoServo.control() of         *)
(* xarm_scripts/aruco_servo.py.  One thread executes the image callback and *)
(* two 50 Hz timers, control() and _step_grasp(), in any order; time is     *)
(* counted in their periods.  The loop has blanks for students to fill in:  *)
(* the measured error and stillness are inputs, and Completed says whether  *)
(* the branch for a marker out of sight does what its comment asks for.     *)
(***************************************************************************)
EXTENDS Integers

CONSTANTS
  MarkerTimeout,  \* MARKER_TIMEOUT
  StillTime,      \* STILL_TIME
  ClosingTime,    \* the 0.2 s of the phase CLOSING
  SettleTime,     \* SETTLE_TIME
  LiftTime,       \* LIFT_TIME
  Completed,      \* a lost marker stops the arm and the stopwatch
  MaxLate         \* bound: calls of the timers that come a period late

ASSUME ServoAssumption ==
  /\ {MarkerTimeout, StillTime, ClosingTime, SettleTime, LiftTime, MaxLate} \subseteq Nat
  /\ Completed \in BOOLEAN

NotStill == -1   \* still_since is None

VARIABLES
  frame,          \* age of the last detection, and whether the cart looked still
  due,            \* timer callbacks waiting for the thread
  late,           \* how often a callback was still waiting a period later
  descending,     \* self.descending
  still_for,      \* time since self.still_since
  busy, done,     \* ServoArm.busy, ServoArm.done
  grasp,          \* ServoArm._phase
  elapsed,        \* time since ServoArm._t0
  twist,          \* the last twist sent; the servo goes on repeating it
  gripper,        \* the last goal of set_gripper()
  low,            \* the TCP is at the height of the cube
  gripping        \* history: time since the fingers were told to close

servoVars == <<frame, due, late, descending, still_for, busy, done, grasp, elapsed,
               twist, gripper, low, gripping>>

Grown(n, cap) == IF n < cap THEN n + 1 ELSE n

\* MarkerCamera.visible()
Visible == frame.age < MarkerTimeout

----------------------------------------------------------------------------
\* A period goes by; the camera may have seen the marker on a cart that is
\* slow or not (nobody looks any more once the grasp has begun).  With
\* descending the arm may reach the cube.
ServoTick(slow) ==
  /\ late' = IF due = {} THEN late ELSE late + 1
  /\ late' <= MaxLate
  /\ due' = {"control", "step_grasp"}
  /\ frame' \in IF busy \/ done THEN {frame}
                ELSE { [age |-> 0, still |-> slow],
                       [frame EXCEPT !.age = Grown(frame.age, MarkerTimeout)] }
  /\ still_for' = IF still_for = NotStill THEN NotStill
                  ELSE Grown(still_for, StillTime + 1)
  /\ elapsed' = IF busy THEN elapsed + 1 ELSE elapsed
  /\ low' \in {low, low \/ twist = "descend"}
  /\ gripping' = IF gripper = "closed" THEN Grown(gripping, SettleTime + 1) ELSE gripping
  /\ UNCHANGED <<descending, busy, done, grasp, twist, gripper>>

\* grab_and_lift() returns at once; the sequence runs in _step_grasp().
GrabAndLift ==
  /\ busy' = TRUE
  /\ grasp' = "CLOSING"
  /\ elapsed' = 0

\* A marker out of sight: the comment in this branch asks for a stop and a new
\* stopwatch, or a flicker of the detection would leave it running.
MarkerLost ==
  /\ ~Visible
  /\ IF Completed THEN twist' = "stop" /\ still_for' = NotStill
                  ELSE UNCHANGED <<twist, still_for>>
  /\ UNCHANGED <<descending, busy, grasp, elapsed>>

\* Centring the marker before the descent.
Centre(err) ==
  /\ Visible /\ ~descending
  /\ twist' = "follow"
  /\ descending' = (err # "large")
  /\ UNCHANGED <<still_for, busy, grasp, elapsed>>

\* Mutant: the stopwatch goes on when the cart moves again.
BugStopwatch(still) == IF still_for = NotStill /\ still THEN 0 ELSE still_for

\* The stopwatch of the cart's rest.
Stopwatch(still) ==
  CASE ~still -> NotStill
    [] still /\ still_for = NotStill -> 0
    [] OTHER -> still_for

\* Following, and descending on a cart that has stood for StillTime.
Descend(err, still) ==
  LET parked == still /\ Stopwatch(still) > StillTime IN
  /\ Visible /\ descending
  /\ still_for' = Stopwatch(still)
  /\ twist' = IF parked THEN "descend" ELSE "follow"
  /\ IF parked /\ err = "small" /\ low
     THEN GrabAndLift
     ELSE UNCHANGED <<busy, grasp, elapsed>>
  /\ UNCHANGED descending

\* Mutant: the loop looks at one of its two flags only.
BugMayControl == ~busy
MayControl == ~done /\ ~busy

\* control().  The error is large, below CENTER_TOL_PX or below GRASP_TOL_PX;
\* a cart is not taken for still unless the last image shows it so.
Control ==
  /\ "control" \in due
  /\ due' = due \ {"control"}
  /\ IF MayControl
     THEN \E err \in {"large", "medium", "small"}, still \in {FALSE, frame.still} :
            MarkerLost \/ Centre(err) \/ Descend(err, still)
     ELSE UNCHANGED <<twist, still_for, descending, busy, grasp, elapsed>>
  /\ UNCHANGED <<frame, late, done, gripper, low, gripping>>

Closing ==
  /\ grasp = "CLOSING"
  /\ twist' = "stop"
  /\ IF elapsed > ClosingTime
     THEN gripper' = "closed" /\ gripping' = 0 /\ grasp' = "SETTLE" /\ elapsed' = 0
     ELSE UNCHANGED <<gripper, gripping, grasp, elapsed>>
  /\ UNCHANGED <<busy, done>>

\* Mutant: a timer that comes too early never finds its phase.
BugSettle ==
  /\ grasp = "SETTLE"
  /\ twist' = "stop"
  /\ elapsed > ClosingTime
  /\ grasp' = "LIFT" /\ elapsed' = 0
  /\ UNCHANGED <<gripper, gripping, busy, done>>

Settle ==
  /\ grasp = "SETTLE"
  /\ twist' = "stop"
  /\ IF elapsed > SettleTime
     THEN grasp' = "LIFT" /\ elapsed' = 0
     ELSE UNCHANGED <<grasp, elapsed>>
  /\ UNCHANGED <<gripper, gripping, busy, done>>

Lift ==
  /\ grasp = "LIFT"
  /\ IF elapsed < LiftTime
     THEN twist' = "lift" /\ UNCHANGED <<grasp, elapsed, busy, done>>
     ELSE /\ twist' = "stop"
          /\ busy' = FALSE /\ done' = TRUE
          /\ grasp' = "DONE" /\ elapsed' = 0
  /\ UNCHANGED <<gripper, gripping>>

\* _step_grasp()
StepGrasp ==
  /\ "step_grasp" \in due
  /\ due' = due \ {"step_grasp"}
  /\ IF busy
     THEN Closing \/ Settle \/ Lift
     ELSE UNCHANGED <<twist, gripper, gripping, grasp, elapsed, busy, done>>
  /\ UNCHANGED <<frame, late, descending, still_for, low>>

ServoInit ==
  /\ frame = [age |-> MarkerTimeout, still |-> FALSE]
  /\ due = {} /\ late = 0
  /\ descending = FALSE /\ still_for = NotStill
  /\ busy = FALSE /\ done = FALSE /\ grasp = "IDLE" /\ elapsed = 0
  /\ twist = "none" /\ gripper = "open" /\ low = FALSE /\ gripping = 0

\* The process is started again; ServoArm opens the gripper.
ServoRestart ==
  /\ frame' = [age |-> MarkerTimeout, still |-> FALSE]
  /\ due' = {} /\ late' = 0
  /\ descending' = FALSE /\ still_for' = NotStill
  /\ busy' = FALSE /\ done' = FALSE /\ grasp' = "IDLE" /\ elapsed' = 0
  /\ twist' = "none" /\ gripper' = "open" /\ low' = FALSE /\ gripping' = 0

----------------------------------------------------------------------------
(* Properties of the node on its own.                                       *)

ServoTypeOK ==
  /\ frame \in [age : 0..MarkerTimeout, still : BOOLEAN]
  /\ due \subseteq {"control", "step_grasp"} /\ late \in 0..MaxLate
  /\ {descending, busy, done, low} \subseteq BOOLEAN
  /\ still_for \in -1..(StillTime + 1)
  /\ grasp \in {"IDLE", "CLOSING", "SETTLE", "LIFT", "DONE"} /\ elapsed \in Nat
  /\ twist \in {"none", "follow", "descend", "stop", "lift"}
  /\ gripper \in {"open", "closed"} /\ gripping \in 0..(SettleTime + 1)

\* The arm rises only with fingers that were told to close more than
\* SETTLE_TIME ago, and while it holds the cube the loop never moves it: the
\* two timers share the arm through busy and done alone (control,
\* aruco_servo.py:71, and _step_grasp, servo_utils.py:192-217).
HeldCubeIsLifted ==
  /\ twist = "lift" => gripping > SettleTime
  /\ gripper = "closed" => twist \in {"stop", "lift"}
=============================================================================
