---------------------- MODULE MCNearestWaypointSampler ----------------------
(***************************************************************************)
(* Instances of NearestWaypointSampler: every trajectory of up to MaxLength *)
(* waypoints.                                                               *)
(***************************************************************************)
EXTENDS NearestWaypointSampler

CONSTANT MaxLength      \* bound: waypoints of a trajectory

MCTrajectories == UNION {[1..n -> Pos] : n \in 0..MaxLength}
=============================================================================
