---------------------------- MODULE MCVisualServo ----------------------------
(***************************************************************************)
(* VisualServo with the numbers of the code: micrometres and ticks of 20 ms. *)
(***************************************************************************)
EXTENDS VisualServo

MCPresets == [static |-> 0, slow |-> 600, medium |-> 1200, fast |-> 2400]
MCSpeeds  == {-1}

\* What the theorems ask of the numbers holds of those of the code, in every mode.
ASSUME NumbersOfTheCode ==
  /\ GentleTrack /\ StandsOut
  /\ \A m \in DOMAIN Presets : LET v == Presets[m] IN
       /\ v < TrackLen /\ v * v <= Accel * (TrackLen - v)
       /\ v = 0 \/ StillStep < v
=============================================================================
