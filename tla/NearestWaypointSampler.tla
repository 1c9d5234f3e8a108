----------------------- MODULE NearestWaypointSampler -----------------------
(***************************************************************************)
(* The trajectory operator of the local planner                             *)
(* (xarm_hybrid_planning/src/nearest_waypoint_sampler.cpp): it keeps the    *)
(* global trajectory and the index of the waypoint the arm is sent to,      *)
(* anchors a new trajectory at the waypoint nearest to the arm, advances    *)
(* when the arm is close and anchors again when it does not get closer.     *)
(*                                                                          *)
(* Around it, external: the cycle of MoveIt's local planner, which ends the *)
(* motion when the progress is 1.0 and else commands the waypoint it is     *)
(* given, unless it comes with a feedback, and an arm that follows the      *)
(* command at a bounded speed.  Joint space is one-dimensional; the         *)
(* distance stays what the code compares.                                   *)
(***************************************************************************)
EXTENDS Integers, Sequences

CONSTANTS
  MaxPos,            \* positions are 0..MaxPos
  Trajectories,      \* what the global planner may publish
  SizeMax,           \* the largest size_t
  Tolerance,         \* waypoint_tolerance_
  StallLimit,        \* stall_limit_
  Speed,             \* how far the arm gets in one cycle
  MaxArrivals        \* bound: trajectories published

Pos == 0..MaxPos

ASSUME ConstantsAssumption ==
  /\ MaxPos \in Nat /\ Tolerance \in Nat /\ StallLimit \in Nat \ {0}
  /\ Speed \in Nat /\ MaxArrivals \in Nat
  /\ SizeMax \in Nat \ {0}

ASSUME TrajectoriesAssumption ==
  /\ Trajectories \subseteq Seq(Pos)
  /\ \A t \in Trajectories : Len(t) < SizeMax

VARIABLES
  reference,            \* reference_trajectory_
  next_waypoint_index,  \* from 0
  needs_anchor,
  stalled_cycles,
  feedback,             \* feedback_, "none" until it is set
  command,              \* the waypoint last sent to the arm
  pos,                  \* where the arm is
  mode,                 \* local planner: "await", "active" or "done"
  moved,                \* the arm has had its part of the cycle
  held,                 \* the constraint solver holds it before an obstacle
  arrivals,             \* trajectories published so far
  goal                  \* history: last waypoint of the trajectory that was ended,
                        \* NoGoal if it had no other

sampler == <<reference, next_waypoint_index, needs_anchor, stalled_cycles>>
vars == <<sampler, feedback, command, pos, mode, moved, held, arrivals, goal>>

NoGoal == -1

Indices     == 0..Len(reference) - 1
Waypoint(i) == reference[i + 1]
Abs(n)      == IF n < 0 THEN -n ELSE n
Distance(i) == Abs(Waypoint(i) - pos)

\* getWayPointCount() - 1 in a size_t: of an empty trajectory it wraps round.
LastIndex == IF reference = <<>> THEN SizeMax ELSE Len(reference) - 1

\* What nearestWaypoint() returns: the first of the closest waypoints.
IsNearest(i) == \A j \in Indices : Distance(i) < Distance(j)
                                   \/ (Distance(i) = Distance(j) /\ i <= j)
Nearest == CHOOSE i \in Indices : IsNearest(i)

\* How it finds it (lines 70-84): best and best_distance once it has looked at n
\* waypoints; a maximal distance comes first.
BugCloser(d, best) == d <= best.distance      \* takes the last of the closest
Closer(d, best)    == d < best.distance

BestOf[n \in 0..Len(reference)] ==
  IF n = 0 THEN [index |-> 0, distance |-> MaxPos + 1]
  ELSE LET best == BestOf[n - 1] IN
       IF Closer(Distance(n - 1), best)
       THEN [index |-> n - 1, distance |-> Distance(n - 1)] ELSE best

NearestByLoop == BestOf[Len(reference)].index

----------------------------------------------------------------------------
\* Mutant: the index of the old trajectory survives.
BugAddTrajectorySegment(t) ==
  /\ reference' = t
  /\ needs_anchor' = TRUE
  /\ stalled_cycles' = 0
  /\ UNCHANGED next_waypoint_index

\* reset() and then the new trajectory, to be anchored in the next cycle.
AddTrajectorySegment(t) ==
  /\ next_waypoint_index' = 0
  /\ reference' = t
  /\ needs_anchor' = TRUE
  /\ stalled_cycles' = 0

\* The subscription of the local planner to global_trajectory.
TrajectoryArrives(t) ==
  /\ arrivals < MaxArrivals
  /\ arrivals' = arrivals + 1
  /\ AddTrajectorySegment(t)
  /\ mode' = "active"
  /\ UNCHANGED <<feedback, command, pos, moved, held, goal>>

\* Mutant: the index is taken for the number of waypoints passed.
BugProgressIsComplete == next_waypoint_index + 1 >= LastIndex

\* getTrajectoryProgress() = 1.0
ProgressIsComplete == next_waypoint_index >= LastIndex

\* The cycle finds the progress complete: the motion has succeeded and the
\* operator is reset(), which leaves feedback_ alone.
Finish ==
  /\ mode = "active" /\ moved
  /\ ProgressIsComplete
  /\ mode' = "done"
  /\ goal' = IF Len(reference) > 1 THEN Waypoint(LastIndex) ELSE NoGoal
  /\ next_waypoint_index' = 0
  /\ needs_anchor' = FALSE
  /\ stalled_cycles' = 0
  /\ reference' = <<>>
  /\ moved' = FALSE
  /\ UNCHANGED <<feedback, command, pos, held, arrivals>>

----------------------------------------------------------------------------
(* getLocalTrajectory()                                                     *)

\* The index the cycle starts with: anchored, if the trajectory is new.
Start == IF needs_anchor THEN Nearest ELSE next_waypoint_index
Stall == IF needs_anchor THEN 0 ELSE stalled_cycles

Close == Distance(Start) <= Tolerance

\* Mutant: it anchors one cycle early.
BugEarly == Stall + 2 > StallLimit

Stalled == Stall + 1 > StallLimit

\* The waypoint is reached: the next one, if there is one.
Advance ==
  /\ Close
  /\ next_waypoint_index' = IF Start < LastIndex THEN Start + 1 ELSE LastIndex
  /\ stalled_cycles' = 0

\* It is not reached for too long: anchor again.
Reanchor ==
  /\ ~Close /\ Stalled
  /\ next_waypoint_index' = Nearest
  /\ stalled_cycles' = 0

\* It is not reached yet.
Wait ==
  /\ ~Close /\ ~Stalled
  /\ next_waypoint_index' = Start
  /\ stalled_cycles' = Stall + 1

\* The waypoint is handed over with feedback_, whatever that was left at; the
\* local planner commands it only if there is none.
GetLocalTrajectory ==
  /\ mode = "active" /\ moved
  /\ ~ProgressIsComplete
  /\ reference # <<>>
  /\ Advance \/ Reanchor \/ Wait
  /\ needs_anchor' = FALSE
  /\ command' = IF feedback = "none" THEN Waypoint(next_waypoint_index') ELSE command
  /\ moved' = FALSE
  /\ UNCHANGED <<reference, feedback, pos, mode, held, arrivals, goal>>

\* No waypoints: feedback_ is set, and nothing ever clears it.
GetLocalTrajectoryOfNothing ==
  /\ mode = "active" /\ moved
  /\ ~ProgressIsComplete
  /\ reference = <<>>
  /\ feedback' = "unhandled_exception"
  /\ moved' = FALSE
  /\ UNCHANGED <<sampler, command, pos, mode, held, arrivals, goal>>

----------------------------------------------------------------------------
\* The arm goes towards the command, whatever the planner does meanwhile.
Towards(p, q) ==
  IF Abs(q - p) <= Speed THEN q ELSE IF p < q THEN p + Speed ELSE p - Speed

ArmMoves ==
  /\ ~moved
  /\ pos' = IF held THEN pos ELSE Towards(pos, command)
  /\ moved' = TRUE
  /\ UNCHANGED <<sampler, feedback, command, mode, held, arrivals, goal>>

\* The position controller keeps its last command between two motions.
ArmMovesOn ==
  /\ mode # "active" /\ moved
  /\ pos # command
  /\ moved' = FALSE
  /\ UNCHANGED <<sampler, feedback, command, pos, mode, held, arrivals, goal>>

\* An obstacle comes or goes.
Obstacle ==
  /\ held' = ~held
  /\ UNCHANGED <<sampler, feedback, command, pos, mode, moved, arrivals, goal>>

Init ==
  /\ pos \in Pos
  /\ command = pos
  /\ reference = <<>>
  /\ next_waypoint_index = 0
  /\ needs_anchor = FALSE
  /\ stalled_cycles = 0
  /\ feedback = "none"
  /\ mode = "await"
  /\ moved = TRUE
  /\ held = FALSE
  /\ arrivals = 0
  /\ goal = NoGoal

Cycle == Finish \/ GetLocalTrajectory \/ GetLocalTrajectoryOfNothing \/ ArmMoves
         \/ ArmMovesOn

Next == Cycle \/ Obstacle \/ \E t \in Trajectories : TrajectoryArrives(t)

Spec == Init /\ [][Next]_vars

\* The timer of the local planner fires and the arm moves.
FairSpec == Spec /\ WF_vars(Cycle)

----------------------------------------------------------------------------
(* Properties.                                                              *)

\* The values the state takes; the index is that of a waypoint, whatever
\* trajectory replaces another and whenever (lines 123-137).
TypeOK ==
  /\ pos \in Pos /\ command \in Pos /\ goal \in Pos \cup {NoGoal}
  /\ reference \in Seq(Pos)
  /\ next_waypoint_index \in Nat
  /\ reference # <<>> => next_waypoint_index \in Indices
  /\ needs_anchor \in BOOLEAN /\ moved \in BOOLEAN /\ held \in BOOLEAN
  /\ stalled_cycles \in 0..StallLimit
  /\ feedback \in {"none", "unhandled_exception"}
  /\ mode \in {"await", "active", "done"}
  /\ arrivals \in 0..MaxArrivals

\* The loop of nearestWaypoint() finds the first of the closest waypoints.
LoopFindsNearest == reference # <<>> => NearestByLoop = Nearest

\* getTrajectoryProgress() looks at the index alone and not at the arm, but
\* when it says 1.0 the last waypoint has been commanded: the success of the
\* local planner leaves the arm on its way to the goal.  Two exceptions: a
\* trajectory with a single waypoint, and a local planner that was given an
\* empty trajectory once.  feedback_ then comes with every waypoint (lines
\* 117, 152), no command goes out any more, and the index goes on all the
\* same, over every waypoint the resting arm is close to.
SuccessMeansGoalCommanded ==
  mode = "done" /\ goal # NoGoal /\ feedback = "none" => command = goal

\* Progress is given back only when the arm has not come close for
\* stall_limit_ cycles (lines 139-148) or the trajectory is replaced.
NoGoingBack ==
  [][next_waypoint_index' < next_waypoint_index
       => stalled_cycles = StallLimit \/ mode' = "done" \/ arrivals' > arrivals]_vars

\* Anchoring again is "preferible a seguir comandando una pose que no se va
\* a alcanzar nunca" (lines 141-142) only if it does not undo what was done:
\* an arm that gets over more than half of the way to the next waypoint in
\* stall_limit_ + 1 cycles ends every trajectory, wherever it is when the
\* trajectory arrives and wherever an obstacle held it for a while; a slower
\* one is sent back and forth for ever, and so is one that was given an empty
\* trajectory once.
TrajectoryEnds ==
  <>[]~held => (mode = "active" /\ reference # <<>> /\ feedback = "none"
                  ~> mode = "done" \/ reference = <<>>)

\* ... and comes to rest at its goal.
ArmArrives ==
  <>[]~held => (mode = "done" /\ goal # NoGoal /\ feedback = "none"
                  ~> pos = goal \/ mode # "done")

=============================================================================
