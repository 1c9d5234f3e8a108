-------------------------- MODULE TargetMover_proof --------------------------
(***************************************************************************)
(* Proofs about TargetMover, for every speed, track and number of laps.     *)
(***************************************************************************)
EXTENDS TargetMover, TLAPS

\* The part of the specification the proofs need: no fairness.
MoverSafetySpec == MoverInit /\ [][MoverTick]_moverVars

\* A speed from which d can be braked.
Brakes(v, d) == v * v <= Accel * d

\* The ceiling is a speed within its limit from which the leg can be braked,
\* and no speed below it is passed over: what can be braked is not exceeded.
LEMMA BrakeSpeed ==
  ASSUME NEW limit \in Nat, NEW d \in Nat, NEW v \in BrakeSpeeds(limit, d)
  PROVE  /\ v \in 0..limit
         /\ Brakes(v, d)
         /\ v = limit \/ ~Brakes(v + 1, d)
BY MoverAssumption DEF BrakeSpeeds, Brakes

LEMMA ChosenSpeedType ==
  ASSUME NEW m \in Modes, NEW x \in Speeds
  PROVE  ChosenSpeed(m, x) \in Nat
BY MoverAssumption DEF ChosenSpeed

LEMMA RampType ==
  ASSUME speed \in Nat, current_speed \in Nat
  PROVE  Ramp \in 0..speed /\ Ramp <= current_speed + Accel
BY MoverAssumption DEF Ramp, Lesser

LEMMA MoverTypeInit == MoverInit => MoverTypeOK
<1> SUFFICES ASSUME MoverInit PROVE MoverTypeOK
  OBVIOUS
<1>1. speed \in Nat
  BY ChosenSpeedType DEF MoverInit
<1> QED
  BY <1>1, MoverAssumption DEF MoverInit, MoverTypeOK

LEMMA DriveTowardsType ==
  ASSUME MoverTypeOK, NEW next \in {"lapping", "parked"}, DriveTowards(next)
  PROVE  /\ phase' \in {"starting", "lapping", "parking", "parked"}
         /\ dist' \in 0..CentreDist
         /\ current_speed' \in 0..speed /\ step' \in Nat
<1> USE DEF MoverTypeOK
<1>1. CASE dist < Arrive
  BY <1>1, MoverAssumption DEF DriveTowards
<1>2. CASE ~(dist < Arrive)
  <2>1. current_speed' \in 0..Ramp /\ Ramp \in 0..speed
    BY <1>2, BrakeSpeed, RampType, MoverAssumption DEF DriveTowards
  <2> QED
    BY <1>2, <2>1, MoverAssumption DEF DriveTowards, Lesser
<1> QED
  BY <1>1, <1>2

LEMMA LeftType ==
  ASSUME s \in Nat
  PROVE  Left \in Nat
BY MoverAssumption DEF Left

LEMMA LapSpeedType ==
  ASSUME MoverTypeOK, NEW v \in LapSpeed
  PROVE  v \in 0..speed /\ v <= Ramp
<1>1. Left \in Nat /\ Ramp \in 0..speed /\ speed \in Nat
  BY LeftType, RampType DEF MoverTypeOK
<1>2. v \in 0..Ramp
  <2>1. CASE laps > 0 /\ lap = laps - 1
    <3>1. v \in BrakeSpeeds(Ramp, Left)
      BY <2>1 DEF LapSpeed
    <3> HIDE DEF Ramp, Left
    <3>2. Ramp \in Nat
      BY <1>1
    <3> QED
      BY <1>1, <3>1, <3>2, BrakeSpeed
  <2>2. CASE ~(laps > 0 /\ lap = laps - 1)
    <3>1. v = Ramp
      BY <2>2 DEF LapSpeed
    <3> QED
      BY <1>1, <3>1
  <2> QED
    BY <2>1, <2>2
<1> QED
  BY <1>1, <1>2

\* What one step along the track comes to.
LEMMA FollowTrackStep ==
  ASSUME MoverTypeOK, FollowTrack
  PROVE  \E v \in 0..speed :
           /\ v \in LapSpeed /\ current_speed' = v /\ step' = v
           /\ \/ /\ s + v < TrackLen /\ s' = s + v
                 /\ lap' = lap /\ phase' = phase /\ dist' = dist
              \/ /\ ~(s + v < TrackLen) /\ s' = s + v - TrackLen
                 /\ lap' = IF laps > 0 THEN lap + 1 ELSE lap
                 /\ IF laps > 0 /\ lap' >= laps
                    THEN phase' = "parking" /\ dist' = CentreDist
                    ELSE phase' = phase /\ dist' = dist
<1>1. PICK v \in LapSpeed : current_speed' = v /\ step' = v
  BY DEF FollowTrack
<1>2. v \in 0..speed
  BY LapSpeedType
<1>3. CASE s + v < TrackLen
  <2>1. s + step' < TrackLen /\ s + step' = s + v
    BY <1>1, <1>3, Zenon
  <2>2. s' = s + v /\ lap' = lap /\ phase' = phase /\ dist' = dist
    BY <2>1, Zenon DEF FollowTrack
  <2> QED
    BY <1>1, <1>2, <1>3, <2>2, Zenon
<1>4. CASE ~(s + v < TrackLen)
  <2>1. ~(s + step' < TrackLen) /\ s + step' = s + v
    BY <1>1, <1>4, Zenon
  <2>2. /\ s' = s + step' - TrackLen
        /\ lap' = IF laps > 0 THEN lap + 1 ELSE lap
        /\ IF laps > 0 /\ lap' >= laps
           THEN phase' = "parking" /\ dist' = CentreDist
           ELSE UNCHANGED <<phase, dist>>
    BY <2>1, Zenon DEF FollowTrack
  <2>3. s' = s + v - TrackLen
    BY <1>1, <2>2, Zenon
  <2>4. IF laps > 0 /\ lap' >= laps
        THEN phase' = "parking" /\ dist' = CentreDist
        ELSE phase' = phase /\ dist' = dist
    BY <2>2, Zenon
  <2> QED
    BY <1>1, <1>2, <1>4, <2>2, <2>3, <2>4, Zenon
<1> QED
  BY <1>3, <1>4

LEMMA FollowTrackType ==
  ASSUME MoverTypeOK, FollowTrack
  PROVE  /\ phase' \in {"starting", "lapping", "parking", "parked"}
         /\ dist' \in 0..CentreDist
         /\ s' \in Nat /\ lap' \in Nat
         /\ current_speed' \in 0..speed /\ step' \in Nat
<1>1. PICK v \in 0..speed :
        /\ current_speed' = v /\ step' = v
        /\ \/ s + v < TrackLen /\ s' = s + v
           \/ ~(s + v < TrackLen) /\ s' = s + v - TrackLen
        /\ lap' = lap \/ lap' = lap + 1
        /\ phase' = phase \/ phase' = "parking"
        /\ dist' = dist \/ dist' = CentreDist
  BY FollowTrackStep, Zenon
<1>2. s' \in Nat /\ lap' \in Nat
  BY <1>1, MoverAssumption DEF MoverTypeOK
<1>3. dist' \in 0..CentreDist
  BY <1>1, MoverAssumption DEF MoverTypeOK
<1>4. phase' \in {"starting", "lapping", "parking", "parked"}
  BY <1>1, Zenon DEF MoverTypeOK
<1>5. current_speed' \in 0..speed /\ step' \in Nat
  BY <1>1 DEF MoverTypeOK
<1> QED
  BY <1>2, <1>3, <1>4, <1>5

LEMMA MoverTypeStep == MoverTypeOK /\ [MoverTick]_moverVars => MoverTypeOK'
<1> SUFFICES ASSUME MoverTypeOK, [MoverTick]_moverVars PROVE MoverTypeOK'
  OBVIOUS
<1>1. CASE UNCHANGED moverVars
  BY <1>1 DEF moverVars, MoverTypeOK
<1>2. ASSUME MoverTick PROVE MoverTypeOK'
  <2>1. speed' = speed /\ laps' = laps
    BY <1>2 DEF MoverTick
  <2>2. CASE ~(phase # "parked" /\ speed > 0)
    BY <1>2, <2>1, <2>2 DEF MoverTick, MoverTypeOK
  <2>3. CASE phase # "parked" /\ speed > 0
    <3>1. Advance
      BY <1>2, <2>3 DEF MoverTick
    <3>2. CASE phase = "parking" /\ DriveTowards("parked") /\ UNCHANGED <<s, lap>>
      BY <2>1, <3>2, DriveTowardsType DEF MoverTypeOK
    <3>3. CASE phase = "starting" /\ DriveTowards("lapping") /\ UNCHANGED <<s, lap>>
      BY <2>1, <3>3, DriveTowardsType DEF MoverTypeOK
    <3>4. CASE phase = "lapping" /\ FollowTrack
      BY <2>1, <3>4, FollowTrackType DEF MoverTypeOK
    <3> QED
      BY <3>1, <3>2, <3>3, <3>4 DEF Advance
  <2> QED
    BY <2>2, <2>3
<1> QED
  BY <1>1, <1>2

\* The state keeps its type, whatever the parameters.
THEOREM MoverTypeCorrect == MoverSafetySpec => []MoverTypeOK
<1>1. MoverInit => MoverTypeOK
  BY MoverTypeInit
<1>2. MoverTypeOK /\ [MoverTick]_moverVars => MoverTypeOK'
  BY MoverTypeStep
<1> QED
  BY <1>1, <1>2, PTL DEF MoverSafetySpec

----------------------------------------------------------------------------
(* TurnsAlmostStanding.                                                     *)

\* Until it turns back the robot has a lap left to do: lap counts them.
LapsLeft == phase \in {"starting", "lapping"} /\ laps > 0 => lap < laps

\* A leg that ends within a step of length v, where v can be braked within
\* the leg, ends in a step no longer than one tick's acceleration.
LEMMA EndsSlowly ==
  ASSUME NEW a \in Nat, a > 0, NEW v \in Nat, NEW l \in Nat, v * v <= a * l, l <= v
  PROVE  v <= a
<1> SUFFICES ASSUME v > a PROVE FALSE
  OBVIOUS
<1>1. a * l <= a * v
  OBVIOUS
<1>2. v * v > a * v
  OBVIOUS
<1> QED
  BY <1>1, <1>2

LEMMA LapsLeftInit == MoverInit => LapsLeft
BY MoverAssumption DEF MoverInit, LapsLeft

LEMMA DriveTowardsPhase ==
  ASSUME NEW next, DriveTowards(next)
  PROVE  phase' = phase \/ phase' = next
BY Zenon DEF DriveTowards

\* A robot that turns away from the track was on its last lap and has braked.
LEMMA TurnStep ==
  ASSUME MoverTypeOK, LapsLeft, FollowTrack, phase = "lapping", phase' = "parking"
  PROVE  current_speed' <= Accel
<1>1. PICK v \in 0..speed :
        /\ v \in LapSpeed /\ current_speed' = v
        /\ ~(s + v < TrackLen)
        /\ lap' = IF laps > 0 THEN lap + 1 ELSE lap
        /\ laps > 0 /\ lap' >= laps
  BY FollowTrackStep
<1>2. laps > 0 /\ lap = laps - 1
  BY <1>1 DEF LapsLeft, MoverTypeOK
<1>3. v \in BrakeSpeeds(Ramp, Left)
  BY <1>1, <1>2 DEF LapSpeed
<1>4. Ramp \in Nat /\ Left \in Nat /\ v \in Nat /\ Left <= v
  BY <1>1, RampType, LeftType, MoverAssumption DEF MoverTypeOK, Left
<1>5. v * v <= Accel * Left
  <2> HIDE DEF Ramp, Left
  <2> QED
    BY <1>3, <1>4, BrakeSpeed DEF Brakes
<1>6. v <= Accel
  <2> HIDE DEF Left
  <2> QED
    BY <1>4, <1>5, EndsSlowly, MoverAssumption
<1> QED
  BY <1>1, <1>6

LEMMA LapsLeftStep ==
  MoverTypeOK /\ LapsLeft /\ [MoverTick]_moverVars => LapsLeft'
<1> SUFFICES ASSUME MoverTypeOK, LapsLeft, [MoverTick]_moverVars PROVE LapsLeft'
  OBVIOUS
<1>1. CASE UNCHANGED <<laps, phase, lap>>
  BY <1>1 DEF LapsLeft
<1>2. CASE UNCHANGED moverVars
  BY <1>1, <1>2 DEF moverVars
<1>3. ASSUME MoverTick, Advance PROVE LapsLeft'
  <2>1. laps' = laps
    BY <1>3 DEF MoverTick
  <2>2. CASE phase = "parking" /\ DriveTowards("parked") /\ UNCHANGED <<s, lap>>
    BY <2>2, DriveTowardsPhase DEF LapsLeft
  <2>3. CASE phase = "starting" /\ DriveTowards("lapping") /\ UNCHANGED <<s, lap>>
    BY <2>1, <2>3, DriveTowardsPhase DEF LapsLeft
  <2>4. CASE phase = "lapping" /\ FollowTrack
    <3>1. PICK v \in 0..speed :
            \/ lap' = lap /\ phase' = phase
            \/ /\ lap' = IF laps > 0 THEN lap + 1 ELSE lap
               /\ laps > 0 /\ lap' >= laps => phase' = "parking"
      BY <2>4, FollowTrackStep
    <3> QED
      BY <2>1, <2>4, <3>1 DEF LapsLeft, MoverTypeOK
  <2> QED
    BY <1>3, <2>2, <2>3, <2>4 DEF Advance
<1> QED
  BY <1>1, <1>2, <1>3 DEF MoverTick

LEMMA TurnOrNot ==
  MoverTypeOK /\ LapsLeft /\ [MoverTick]_moverVars => [TurnsSlowly]_moverVars
<1> SUFFICES ASSUME MoverTypeOK, LapsLeft, MoverTick PROVE TurnsSlowly
  BY DEF TurnsSlowly
<1>1. CASE Advance
  <2>1. CASE phase = "lapping" /\ FollowTrack
    BY <2>1, TurnStep DEF TurnsSlowly
  <2>2. CASE phase # "lapping"
    BY <2>2 DEF TurnsSlowly
  <2> QED
    BY <1>1, <2>1, <2>2 DEF Advance
<1>2. CASE UNCHANGED phase
  BY <1>2 DEF TurnsSlowly
<1> QED
  BY <1>1, <1>2 DEF MoverTick

\* However fast the robot was and however long the track, it has all but
\* stopped where it leaves the track for the centre.
THEOREM TurnsAreSlow == MoverSafetySpec => TurnsAlmostStanding
<1>1. MoverInit => MoverTypeOK /\ LapsLeft
  BY MoverTypeInit, LapsLeftInit
<1>2. MoverTypeOK /\ LapsLeft /\ [MoverTick]_moverVars => (MoverTypeOK /\ LapsLeft)'
  BY MoverTypeStep, LapsLeftStep
<1>3. MoverTypeOK /\ LapsLeft /\ [MoverTick]_moverVars => [TurnsSlowly]_moverVars
  BY TurnOrNot
<1> QED
  BY <1>1, <1>2, <1>3, PTL DEF MoverSafetySpec, TurnsAlmostStanding
----------------------------------------------------------------------------
(* SmoothRide.                                                              *)

\* A robot at speed v that can stop in what is left after its step may go on
\* at any speed that is not lower by more than a: one that could be exceeded
\* without that would have to be braked harder.
LEMMA BrakingIsGentle ==
  ASSUME NEW a \in Nat, a > 0, NEW v \in Nat, NEW w \in Nat, NEW d \in Nat,
         v * v <= a * (d + v), (w + 1) * (w + 1) > a * d
  PROVE  v <= w + a
<1> SUFFICES ASSUME v > w + a PROVE FALSE
  OBVIOUS
<1> DEFINE x == v - a
<1>1. x \in Nat /\ x >= w + 1
  OBVIOUS
<1>2. x * x >= (w + 1) * (w + 1)
  <2>1. x * x >= x * (w + 1)
    BY <1>1
  <2>2. x * (w + 1) >= (w + 1) * (w + 1)
    BY <1>1
  <2> QED
    BY <1>1, <2>1, <2>2
<1>3. x * x = v * v - 2 * (a * v) + a * a
  OBVIOUS
<1>4. a * (d + v) = a * d + a * v
  OBVIOUS
<1>5. a * v >= a * a
  OBVIOUS
<1> QED
  BY <1>1, <1>2, <1>3, <1>4, <1>5

\* What is left when it arrives is not less than its step by more than a.
LEMMA ArrivalIsGentle ==
  ASSUME NEW a \in Nat, NEW v \in Nat, NEW d \in Nat, v * v <= a * (d + v)
  PROVE  v <= a + d
<1> SUFFICES ASSUME v > a + d PROVE FALSE
  OBVIOUS
<1>1. v * v = v * (v - a - d) + a * v + d * v
  OBVIOUS
<1>2. v * (v - a - d) > 0
  OBVIOUS
<1>3. d * v >= d * a
  OBVIOUS
<1>4. a * (d + v) = d * a + a * v
  OBVIOUS
<1> QED
  BY <1>1, <1>2, <1>3, <1>4

\* Within one tick's acceleration.
Near(v, w) == w - v \in -Accel..Accel

\* Slow enough to be stopped at once.
LEMMA SlowCanStop ==
  ASSUME NEW v \in Nat, NEW d \in Nat, v <= Accel
  PROVE  v * v <= Accel * (d + v)
<1>1. v * v <= Accel * v
  BY MoverAssumption
<1>2. Accel * d >= 0 /\ Accel * (d + v) = Accel * d + Accel * v
  BY MoverAssumption
<1> QED
  BY <1>1, <1>2, MoverAssumption

\* One tick of the ramp, braked on a way of length d of which the last step
\* took care.
LEMMA BrakedTick ==
  ASSUME speed \in Nat, NEW v \in Nat, v <= speed, current_speed = v, NEW d \in Nat,
         v * v <= Accel * (d + v), NEW w \in BrakeSpeeds(Ramp, d)
  PROVE  w \in 0..speed /\ Near(v, w) /\ w * w <= Accel * d
<1>1. /\ Ramp \in 0..speed /\ Ramp <= v + Accel
      /\ Ramp = speed \/ Ramp = v + Accel
  BY MoverAssumption DEF Ramp, Lesser
<1> HIDE DEF Ramp
<1>2. /\ w \in 0..Ramp /\ w * w <= Accel * d
      /\ w = Ramp \/ (w + 1) * (w + 1) > Accel * d
  <2>1. Ramp \in Nat
    BY <1>1
  <2>2. /\ w \in 0..Ramp /\ Brakes(w, d) /\ (w = Ramp \/ ~Brakes(w + 1, d))
    BY <2>1, BrakeSpeed
  <2>3. (w + 1) * (w + 1) \in Nat /\ Accel * d \in Nat
    BY <2>1, <2>2, MoverAssumption
  <2> QED
    BY <2>2, <2>3 DEF Brakes
<1>3. v <= w + Accel
  <2>1. CASE w = Ramp
    BY <1>1, <2>1, MoverAssumption
  <2>2. CASE (w + 1) * (w + 1) > Accel * d
    <3>1. w \in Nat
      BY <1>1, <1>2
    <3> QED
      BY <2>2, <3>1, BrakingIsGentle, MoverAssumption
  <2> QED
    BY <1>2, <2>1, <2>2
<1> QED
  BY <1>1, <1>2, <1>3, MoverAssumption DEF Near

\* A straight leg can always be braked, a lap once it is the last one.  The
\* speed of the ramp is that of the last step, but for the step that ends a leg.
LastLap == laps > 0 /\ lap = laps - 1

RideInv ==
  /\ speed < TrackLen /\ speed * speed <= Accel * (TrackLen - speed)
  /\ speed = 0 => step = 0
  /\ phase \in {"starting", "parking"} =>
       /\ step * step <= Accel * (dist + step)
       /\ dist >= Arrive => current_speed = step
  /\ phase = "lapping" =>
       /\ s < TrackLen
       /\ current_speed = step \/ (current_speed = 0 /\ step <= Accel)
       /\ LastLap => current_speed * current_speed <= Accel * (TrackLen - s + current_speed)
  /\ phase = "starting" => s = 0
  /\ phase = "parked" => step <= Accel

LEMMA RideInit == GentleTrack /\ MoverInit => RideInv
<1> SUFFICES ASSUME GentleTrack, MoverInit PROVE RideInv
  OBVIOUS
<1>1. speed < TrackLen /\ speed * speed <= Accel * (TrackLen - speed)
  BY DEF GentleTrack, MoverInit
<1>2. 0 * 0 <= Accel * (CentreDist + 0)
  BY MoverAssumption
<1> QED
  BY <1>1, <1>2 DEF MoverInit, RideInv

\* A tick of a straight leg.
LEMMA DriveTowardsRide ==
  ASSUME Arrive <= Accel, MoverTypeOK, NEW next, DriveTowards(next),
         step * step <= Accel * (dist + step), dist >= Arrive => current_speed = step
  PROVE  \E d \in Nat, w \in Nat, c \in Nat :
           /\ dist' = d /\ step' = w /\ current_speed' = c
           /\ Near(step, w) /\ w * w <= Accel * (d + w)
           /\ \/ phase' = phase /\ (d >= Arrive => c = w)
              \/ phase' = next /\ c = 0 /\ w <= Accel
<1> USE DEF MoverTypeOK
<1>1. step \in Nat /\ dist \in Nat /\ speed \in Nat /\ current_speed \in 0..speed /\ CentreDist \in Nat
  BY MoverAssumption
<1>2. CASE dist < Arrive
  <2>1. step' = dist /\ dist' = 0 /\ current_speed' = 0 /\ phase' = next
    BY <1>2 DEF DriveTowards
  <2>2. step <= Accel + dist
    BY <1>1, ArrivalIsGentle, MoverAssumption
  <2>3. Near(step, dist) /\ dist <= Accel
    BY <1>1, <1>2, <2>2, MoverAssumption DEF Near
  <2>4. dist * dist <= Accel * (0 + dist)
    BY <1>1, <2>3, SlowCanStop
  <2> QED
    BY <1>1, <2>1, <2>3, <2>4
<1>3. CASE ~(dist < Arrive)
  <2>1. PICK w \in BrakeSpeeds(Ramp, dist) : current_speed' = w
    BY <1>3 DEF DriveTowards
  <2>2. step' = Lesser(w, dist) /\ dist' = dist - step' /\ phase' = phase
    BY <1>3, <2>1 DEF DriveTowards
  <2>3. current_speed = step /\ step <= speed
    BY <1>1, <1>3, MoverAssumption
  <2>4. w \in 0..speed /\ Near(step, w) /\ w * w <= Accel * dist
    BY <1>1, <2>3, BrakedTick
  <2>5. CASE w <= dist
    <3>1. step' = w /\ dist' = dist - w /\ dist - w \in Nat /\ w \in Nat
      BY <1>1, <2>2, <2>4, <2>5 DEF Lesser
    <3>2. dist - w + w = dist
      BY <1>1, <3>1
    <3> QED
      BY <2>1, <2>2, <2>4, <3>1, <3>2
  <2>6. CASE ~(w <= dist)
    <3>1. step' = dist /\ dist' = 0 /\ w \in Nat
      BY <1>1, <2>2, <2>4, <2>6 DEF Lesser
    <3>2. w <= Accel
      BY <1>1, <2>4, <2>6, <3>1, EndsSlowly, MoverAssumption
    <3>3. Near(step, dist) /\ dist <= Accel
      BY <1>1, <2>4, <2>6, <3>1, <3>2, MoverAssumption DEF Near
    <3>4. dist * dist <= Accel * (0 + dist)
      BY <1>1, <3>3, SlowCanStop
    <3>5. ~(0 >= Arrive)
      BY MoverAssumption
    <3> QED
      BY <1>1, <2>1, <2>2, <3>1, <3>3, <3>4, <3>5
  <2> QED
    BY <2>5, <2>6
<1> QED
  BY <1>2, <1>3

\* A tick of the lap.
LEMMA LapRide ==
  ASSUME GentleTrack, MoverTypeOK, LapsLeft, RideInv, phase = "lapping", FollowTrack,
         speed' = speed, laps' = laps
  PROVE  SpeedChange /\ RideInv'
<1> USE DEF MoverTypeOK
<1>1. PICK v \in 0..speed :
        /\ v \in LapSpeed /\ current_speed' = v /\ step' = v
        /\ \/ /\ s + v < TrackLen /\ s' = s + v
              /\ lap' = lap /\ phase' = phase /\ dist' = dist
           \/ /\ ~(s + v < TrackLen) /\ s' = s + v - TrackLen
              /\ lap' = IF laps > 0 THEN lap + 1 ELSE lap
              /\ IF laps > 0 /\ lap' >= laps
                 THEN phase' = "parking" /\ dist' = CentreDist
                 ELSE phase' = phase /\ dist' = dist
  BY FollowTrackStep
<1>2. /\ s \in Nat /\ s < TrackLen /\ speed \in Nat /\ v \in Nat /\ step \in Nat /\ lap \in Nat
      /\ laps \in Int /\ CentreDist \in Nat /\ TrackLen \in Nat /\ Accel \in Nat /\ Accel > 0
      /\ current_speed \in 0..speed
      /\ speed < TrackLen /\ speed * speed <= Accel * (TrackLen - speed)
      /\ speed = 0 => step = 0
      /\ current_speed = step \/ (current_speed = 0 /\ step <= Accel)
  BY <1>1, MoverAssumption DEF RideInv
<1>3. v <= current_speed + Accel /\ current_speed <= v + Accel
      /\ (LastLap => v * v <= Accel * (TrackLen - s))
  <2>1. CASE LastLap
    <3>1. v \in BrakeSpeeds(Ramp, TrackLen - s)
      BY <1>1, <1>2, <2>1 DEF LapSpeed, LastLap, Left
    <3>2. current_speed * current_speed <= Accel * (TrackLen - s + current_speed)
      BY <2>1 DEF RideInv
    <3>3. TrackLen - s \in Nat /\ current_speed \in Nat
      BY <1>2
    <3>4. Near(current_speed, v) /\ v * v <= Accel * (TrackLen - s)
      BY <1>2, <3>1, <3>2, <3>3, BrakedTick
    <3> QED
      BY <1>2, <3>3, <3>4 DEF Near
  <2>2. CASE ~LastLap
    <3>1. v = Ramp
      BY <1>1, <2>2 DEF LapSpeed, LastLap
    <3> QED
      BY <1>2, <2>2, <3>1 DEF Ramp, Lesser
  <2> QED
    BY <2>1, <2>2
<1>4. SpeedChange
  BY <1>1, <1>2, <1>3 DEF SpeedChange
<1>5. v * v <= Accel * (TrackLen - speed) /\ v * v <= Accel * (TrackLen - v)
  <2>1. v * v <= speed * v /\ speed * v <= speed * speed
    BY <1>2
  <2>2. Accel * (TrackLen - speed) <= Accel * (TrackLen - v)
    BY <1>2
  <2> QED
    BY <1>2, <2>1, <2>2
<1>6. CASE s + v < TrackLen
  <2>1. /\ s' = s + v /\ lap' = lap /\ phase' = "lapping"
    BY <1>1, <1>2, <1>6
  <2>2. LastLap' => LastLap
    BY <2>1 DEF LastLap
  <2>3. LastLap => v * v <= Accel * (TrackLen - (s + v) + v)
    <3>1. TrackLen - (s + v) + v = TrackLen - s
      BY <1>2
    <3> QED
      BY <1>3, <3>1
  <2> QED
    BY <1>1, <1>2, <1>4, <1>6, <2>1, <2>2, <2>3 DEF RideInv
<1>7. CASE ~(s + v < TrackLen)
  <2>1. s' = s + v - TrackLen /\ s + v - TrackLen \in 0..v
    BY <1>1, <1>2, <1>7
  <2>2. CASE phase' = "parking"
    <3>1. v <= Accel
      BY <1>1, <2>2, TurnStep
    <3>2. dist' = CentreDist
      BY <1>1, <1>7, <2>2
    <3>3. v * v <= Accel * (CentreDist + v)
      BY <1>2, <3>1, SlowCanStop
    <3> QED
      BY <1>1, <1>2, <1>4, <2>2, <3>2, <3>3 DEF RideInv
  <2>3. CASE phase' = "lapping"
    <3>1. v * v <= Accel * (TrackLen - s' + v)
      <4> DEFINE l == TrackLen - (s + v - TrackLen) + v
      <4>1. l >= TrackLen - v /\ l \in Int
        BY <1>2, <2>1
      <4>2. Accel * l >= Accel * (TrackLen - v)
        <5> HIDE DEF l
        <5> QED
          BY <1>2, <4>1
      <4>3. v * v \in Int /\ Accel * l \in Int /\ Accel * (TrackLen - v) \in Int
        BY <1>2, <4>1
      <4> QED
        BY <1>5, <2>1, <4>2, <4>3
    <3>2. s' < TrackLen
      BY <1>2, <2>1
    <3> QED
      BY <1>1, <1>2, <1>4, <2>3, <3>1, <3>2 DEF RideInv
  <2> QED
    BY <1>1, <1>7, <2>2, <2>3
<1> QED
  BY <1>6, <1>7

LEMMA RideStep ==
  GentleTrack /\ MoverTypeOK /\ LapsLeft /\ RideInv /\ [MoverTick]_moverVars =>
    RideInv' /\ [SpeedChange]_moverVars
<1> SUFFICES ASSUME GentleTrack, MoverTypeOK, LapsLeft, RideInv, [MoverTick]_moverVars
             PROVE  RideInv' /\ [SpeedChange]_moverVars
  OBVIOUS
<1>1. CASE UNCHANGED moverVars
  BY <1>1 DEF moverVars, RideInv, LastLap
<1>2. CASE MoverTick
  <2>1. speed' = speed /\ laps' = laps /\ Arrive <= Accel /\ Accel \in Nat
        /\ speed \in Nat /\ step \in Nat
    BY <1>2, MoverAssumption DEF MoverTick, GentleTrack, MoverTypeOK
  <2>2. CASE ~(phase # "parked" /\ speed > 0)
    <3>1. step' = 0 /\ UNCHANGED <<phase, dist, s, lap, current_speed>>
      BY <1>2, <2>2 DEF MoverTick
    <3>2. step <= Accel
      BY <2>1, <2>2, MoverAssumption DEF RideInv
    <3>3. SpeedChange
      BY <2>1, <3>1, <3>2 DEF SpeedChange
    <3>4. 0 * 0 <= Accel * (dist + 0)
      BY <2>1 DEF MoverTypeOK
    <3>5. RideInv'
      BY <2>1, <2>2, <3>1, <3>4 DEF RideInv, LastLap
    <3> QED
      BY <3>3, <3>5
  <2>3. CASE phase # "parked" /\ speed > 0
    <3>1. Advance
      BY <1>2, <2>3 DEF MoverTick
    <3>2. ASSUME NEW next \in {"lapping", "parked"}, DriveTowards(next), UNCHANGED <<s, lap>>,
                 phase \in {"starting", "parking"}, phase = "starting" => next = "lapping" /\ s = 0,
                 phase = "parking" => next = "parked"
          PROVE  SpeedChange /\ RideInv'
      <4>1. step * step <= Accel * (dist + step) /\ (dist >= Arrive => current_speed = step)
        BY <3>2 DEF RideInv
      <4>2. PICK d \in Nat, w \in Nat, c \in Nat :
              /\ dist' = d /\ step' = w /\ current_speed' = c
              /\ Near(step, w) /\ w * w <= Accel * (d + w)
              /\ \/ phase' = phase /\ (d >= Arrive => c = w)
                 \/ phase' = next /\ c = 0 /\ w <= Accel
        BY <2>1, <3>2, <4>1, DriveTowardsRide
      <4>3. SpeedChange
        BY <4>2 DEF SpeedChange, Near
      <4>4. 0 * 0 <= Accel * (TrackLen - 0 + 0) /\ 0 < TrackLen
        BY MoverAssumption
      <4>5. speed < TrackLen /\ speed * speed <= Accel * (TrackLen - speed)
        BY DEF RideInv
      <4> QED
        BY <2>1, <2>3, <3>2, <4>2, <4>3, <4>4, <4>5 DEF RideInv
    <3>3. CASE phase = "lapping" /\ FollowTrack
      BY <2>1, <3>3, LapRide
    <3>4. phase = "starting" => s = 0
      BY DEF RideInv
    <3> QED
      BY <3>1, <3>2, <3>3, <3>4 DEF Advance
  <2> QED
    BY <2>2, <2>3
<1> QED
  BY <1>1, <1>2

\* On every track that is long enough for its speeds the setpoint never speeds up
\* or slows down by more than ACCEL allows in one tick, the snap on arrival and
\* the turn towards the centre included (aruco_target_mover.py, lines 206-259).
THEOREM RideIsSmooth == GentleTrack /\ MoverSafetySpec => SmoothRide
<1>1. GentleTrack /\ MoverInit => MoverTypeOK /\ LapsLeft /\ RideInv
  BY MoverTypeInit, LapsLeftInit, RideInit
<1>2. GentleTrack /\ MoverTypeOK /\ LapsLeft /\ RideInv /\ [MoverTick]_moverVars =>
        (MoverTypeOK /\ LapsLeft /\ RideInv)'
  BY MoverTypeStep, LapsLeftStep, RideStep
<1>3. GentleTrack /\ MoverTypeOK /\ LapsLeft /\ RideInv /\ [MoverTick]_moverVars =>
        [SpeedChange]_moverVars
  BY RideStep
<1>4. GentleTrack => GentleTrack'
  BY DEF GentleTrack, ChosenSpeed
<1> QED
  BY <1>1, <1>2, <1>3, <1>4, PTL DEF MoverSafetySpec, SmoothRide
=============================================================================
