----------------------------- MODULE TargetMover -----------------------------
(***************************************************************************)
(* The node that drives the robot carrying the ArUco marker                 *)
(* (xarm_scripts/aruco_target_mover.py): it leaves the centre of the table, *)
(* goes round a rectangle with rounded corners a number of times and parks  *)
(* at the centre for ever.  One Tick is one call of its 50 Hz timer.        *)
(*                                                                          *)
(* Lengths are integers; a speed is the length commanded in one tick.  The  *)
(* way is straight or followed at its own length, so a position is how far  *)
(* along it the robot is: dist is what a straight leg has left, s what has  *)
(* been covered of the lap.                                                 *)
(***************************************************************************)
EXTENDS Integers

CONSTANTS
  Presets,     \* SPEEDS: the speed of each mode
  Modes,       \* values of the parameter mode
  Speeds,      \* values of the parameter speed, negative for the preset
  LapCounts,   \* values of the parameter laps
  Accel,       \* ACCEL * PUBLISH_PERIOD^2
  Arrive,      \* below this distance a leg has arrived (1e-5 m)
  CentreDist,  \* from the centre to the start of the track
  TrackLen     \* track_len

ASSUME MoverAssumption ==
  /\ "slow" \in DOMAIN Presets
  /\ \A m \in DOMAIN Presets : Presets[m] \in Nat
  /\ Speeds \subseteq Int
  /\ LapCounts \subseteq Int
  /\ Accel \in Nat \ {0} /\ Arrive \in Nat \ {0}
  /\ CentreDist \in Nat /\ TrackLen \in Nat \ {0}

VARIABLES
  speed,          \* self.speed
  laps,           \* self.laps
  phase,          \* the flags starting, parking and parked
  dist,           \* length left of the straight leg being driven
  s,              \* self.s
  lap,            \* self.lap
  current_speed,  \* self.current_speed
  step            \* history: the length the last tick moved the setpoint by

moverVars == <<speed, laps, phase, dist, s, lap, current_speed, step>>

Lesser(a, b) == IF a < b THEN a ELSE b

\* The speed __init__ settles on: an unknown mode falls back to slow, and a
\* speed that is not negative overrides the preset.
ChosenSpeed(mode, value) ==
  IF value >= 0 THEN value
  ELSE Presets[IF mode \in DOMAIN Presets THEN mode ELSE "slow"]

\* The fastest speed not above limit from which a leg of length d can still
\* be braked: sqrt(2 * DECEL * d) with DECEL half of ACCEL, rounded down.
BrakeSpeeds(limit, d) ==
  IF limit * limit <= Accel * d THEN {limit}
  ELSE {v \in 0..limit : v * v <= Accel * d /\ (v + 1) * (v + 1) > Accel * d}

\* The ramp of both kinds of way.
Ramp == Lesser(speed, current_speed + Accel)

----------------------------------------------------------------------------
\* Mutant: the ramp without its ceiling, stopped by a test on arrival.
BugDriveTowards(next) ==
  IF dist < Arrive
  THEN /\ step' = dist /\ dist' = 0 /\ current_speed' = 0 /\ phase' = next
  ELSE /\ current_speed' = Ramp
       /\ step' = Lesser(current_speed', dist)
       /\ dist' = dist - step'
       /\ UNCHANGED phase

\* drive_towards(): in a straight line, braking in time; on arrival the
\* setpoint snaps to the target and the robot goes over to the next phase.
DriveTowards(next) ==
  IF dist < Arrive
  THEN /\ step' = dist /\ dist' = 0 /\ current_speed' = 0 /\ phase' = next
  ELSE /\ current_speed' \in BrakeSpeeds(Ramp, dist)
       /\ step' = Lesser(current_speed', dist)
       /\ dist' = dist - step'
       /\ UNCHANGED phase

\* falta: what is left of the lap.
Left == IF s < TrackLen THEN TrackLen - s ELSE 0

\* Mutant: the lap after the last is braked.
BugLapSpeed == IF laps > 0 /\ lap = laps THEN BrakeSpeeds(Ramp, Left) ELSE {Ramp}

\* The speed of one tick of a lap; the last one is braked along the track.
LapSpeed ==
  IF laps > 0 /\ lap = laps - 1 THEN BrakeSpeeds(Ramp, Left) ELSE {Ramp}

\* Mutant: the end of the track is not stepped over.
BugFollowTrack ==
  /\ current_speed' \in LapSpeed
  /\ step' = Lesser(current_speed', TrackLen - s)
  /\ IF s + step' <= TrackLen
     THEN s' = s + step' /\ UNCHANGED <<lap, phase, dist>>
     ELSE s' = 0 /\ phase' = "parking" /\ dist' = CentreDist /\ UNCHANGED lap

\* The lap itself.  Behind the end of the last one the robot turns towards
\* the centre; the track is passed by less than a step, so the way back is
\* CentreDist.  Laps are only counted when they are limited.
FollowTrack ==
  /\ current_speed' \in LapSpeed
  /\ step' = current_speed'
  /\ IF s + step' < TrackLen
     THEN s' = s + step' /\ UNCHANGED <<lap, phase, dist>>
     ELSE /\ s' = s + step' - TrackLen
          /\ lap' = IF laps > 0 THEN lap + 1 ELSE lap
          /\ IF laps > 0 /\ lap' >= laps
             THEN phase' = "parking" /\ dist' = CentreDist
             ELSE UNCHANGED <<phase, dist>>

Advance ==
  \/ phase = "parking" /\ DriveTowards("parked") /\ UNCHANGED <<s, lap>>
  \/ phase = "starting" /\ DriveTowards("lapping") /\ UNCHANGED <<s, lap>>
  \/ phase = "lapping" /\ FollowTrack

\* tick(): the setpoint is published whether it moves or not.
MoverTick ==
  /\ IF phase # "parked" /\ speed > 0
     THEN Advance
     ELSE step' = 0 /\ UNCHANGED <<phase, dist, s, lap, current_speed>>
  /\ UNCHANGED <<speed, laps>>

MoverInit ==
  /\ speed \in {ChosenSpeed(mode, value) : mode \in Modes, value \in Speeds}
  /\ laps \in LapCounts
  /\ phase = "starting"
  /\ dist = CentreDist
  /\ s = 0 /\ lap = 0 /\ current_speed = 0 /\ step = 0

\* The process is started again with the same parameters.
MoverRestart ==
  /\ phase' = "starting" /\ dist' = CentreDist
  /\ s' = 0 /\ lap' = 0 /\ current_speed' = 0 /\ step' = 0
  /\ UNCHANGED <<speed, laps>>

\* The parameters are such that a leg has arrived within one tick's
\* acceleration of its end, and that every speed can be braked on the track
\* less one step.
GentleTrack ==
  /\ Arrive <= Accel
  /\ \A m \in Modes, x \in Speeds :
       LET v == ChosenSpeed(m, x) IN v < TrackLen /\ v * v <= Accel * (TrackLen - v)

----------------------------------------------------------------------------
(* Properties.                                                              *)

MoverTypeOK ==
  /\ speed \in Nat /\ laps \in Int
  /\ phase \in {"starting", "lapping", "parking", "parked"}
  /\ dist \in 0..CentreDist
  /\ s \in Nat /\ lap \in Nat
  /\ current_speed \in 0..speed /\ step \in Nat

\* "The real jerk stays below the limit": along its way the setpoint never
\* speeds up or slows down by more than ACCEL allows in one tick, the snap on
\* arrival included (drive_towards, lines 233-259, and the braking of the
\* last lap, lines 215-218).
SpeedChange == step' - step \in -Accel..Accel
SmoothRide == [][SpeedChange]_moverVars

\* The last lap ends almost standing: the turn towards the centre is taken no
\* faster than one tick's acceleration ("para llegar al final ya casi parado").
TurnsSlowly ==
  phase = "lapping" /\ phase' = "parking" => current_speed' <= Accel
TurnsAlmostStanding == [][TurnsSlowly]_moverVars
=============================================================================
