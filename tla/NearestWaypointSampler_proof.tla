-------------------- MODULE NearestWaypointSampler_proof --------------------
(***************************************************************************)
(* Proofs about NearestWaypointSampler, for every set of trajectories, any  *)
(* tolerance, stall limit and speed.                                        *)
(***************************************************************************)
EXTENDS NearestWaypointSampler, WellFoundedInduction, TLAPS

USE ConstantsAssumption

\* Any nonempty set of natural numbers has a least element.
LEMMA LeastElement ==
  ASSUME NEW T, T \subseteq Nat, T # {}
  PROVE  \E x \in T : \A y \in T : x <= y
<1> DEFINE R == OpToRel(<, Nat)
<1>1. IsWellFoundedOn(R, Nat)
  BY NatLessThanWellFounded
<1>2. \A y, x \in Nat : y < x => <<y, x>> \in R
  BY DEF OpToRel
<1> HIDE DEF R
<1>3. PICK x \in T : \A y \in T : ~(<<y, x>> \in R)
  BY <1>1, WFMin
<1>4. ASSUME NEW y \in T PROVE x <= y
  <2>1. x \in Nat /\ y \in Nat
    OBVIOUS
  <2>2. ~(y < x)
    BY <1>2, <1>3, <2>1
  <2> QED
    BY <2>1, <2>2
<1> QED
  BY <1>4

\* The waypoint nearestWaypoint() returns is one of the trajectory: the first
\* of those at the least distance.
LEMMA NearestExists ==
  ASSUME reference \in Seq(Pos), reference # <<>>, pos \in Pos
  PROVE  /\ Nearest \in Indices
         /\ IsNearest(Nearest)
<1>1. Len(reference) \in Nat /\ Len(reference) > 0
  OBVIOUS
<1>2. \A i \in Indices : i \in Nat /\ Waypoint(i) \in Pos
  BY <1>1 DEF Indices, Waypoint
<1>3. \A i \in Indices : Distance(i) \in Nat
  BY <1>2 DEF Distance, Abs, Pos
<1> DEFINE distances == {Distance(i) : i \in Indices}
<1>4. distances \subseteq Nat /\ distances # {}
  BY <1>1, <1>3 DEF Indices
<1>5. PICK d \in distances : \A e \in distances : d <= e
  <2> HIDE DEF distances
  <2> QED
    BY <1>4, LeastElement
<1> DEFINE closest == {i \in Indices : Distance(i) = d}
<1>6. closest \subseteq Nat /\ closest # {}
  BY <1>2, <1>5
<1>7. PICK i \in closest : \A j \in closest : i <= j
  <2> HIDE DEF closest
  <2> QED
    BY <1>6, LeastElement
<1>8. ASSUME NEW j \in Indices
      PROVE  Distance(i) < Distance(j) \/ (Distance(i) = Distance(j) /\ i <= j)
  <2>1. Distance(i) = d /\ d <= Distance(j)
    BY <1>5, <1>7
  <2>2. Distance(j) = d => i <= j
    BY <1>7
  <2>3. d \in Nat /\ Distance(j) \in Nat
    BY <1>3, <1>4
  <2> QED
    BY <2>1, <2>2, <2>3
<1>9. IsNearest(i) /\ i \in Indices
  BY <1>7, <1>8 DEF IsNearest
<1> QED
  BY <1>9 DEF Nearest

LEMMA TowardsType ==
  ASSUME NEW p \in Pos, NEW q \in Pos
  PROVE  Towards(p, q) \in Pos
BY DEF Towards, Abs, Pos

\* The index getLocalTrajectory() starts with and the one it leaves.
LEMMA IndexType ==
  ASSUME TypeOK, reference # <<>>, Advance \/ Reanchor \/ Wait
  PROVE  /\ next_waypoint_index' \in Indices
         /\ next_waypoint_index' \in Nat
         /\ Waypoint(next_waypoint_index') \in Pos
         /\ stalled_cycles' \in 0..StallLimit
<1>1. Len(reference) \in Nat /\ Len(reference) > 0 /\ reference \in Seq(Pos)
  BY DEF TypeOK
<1>2. Nearest \in Indices
  BY NearestExists DEF TypeOK
<1>3. Start \in Indices /\ Stall \in 0..StallLimit
  BY <1>2 DEF Start, Stall, TypeOK
<1>4. LastIndex = Len(reference) - 1
  BY DEF LastIndex
<1>5. next_waypoint_index' \in Indices
  <2>1. CASE Advance
    BY <1>1, <1>3, <1>4, <2>1 DEF Advance, Indices
  <2>2. CASE Reanchor
    BY <1>2, <2>2 DEF Reanchor
  <2>3. CASE Wait
    BY <1>3, <2>3 DEF Wait
  <2> QED
    BY <2>1, <2>2, <2>3
<1>6. stalled_cycles' \in 0..StallLimit
  BY <1>3 DEF Advance, Reanchor, Wait, Stalled
<1> QED
  BY <1>1, <1>5, <1>6 DEF Indices, Waypoint

LEMMA TypeInit == Init => TypeOK
<1> SUFFICES ASSUME Init PROVE TypeOK
  OBVIOUS
<1>1. needs_anchor \in BOOLEAN /\ moved \in BOOLEAN
  BY DEF Init
<1>2. held \in BOOLEAN
  BY DEF Init
<1>3. reference \in Seq(Pos) /\ reference = <<>>
  BY DEF Init
<1> QED
  BY <1>1, <1>2, <1>3 DEF Init, TypeOK

LEMMA TypeStep == TypeOK /\ [Next]_vars => TypeOK'
<1> SUFFICES ASSUME TypeOK, [Next]_vars PROVE TypeOK'
  OBVIOUS
<1>1. ASSUME NEW t \in Trajectories, TrajectoryArrives(t) PROVE TypeOK'
  <2>1. reference' \in Seq(Pos) /\ next_waypoint_index' = 0
    BY <1>1, TrajectoriesAssumption DEF TrajectoryArrives, AddTrajectorySegment
  <2>2. reference' # <<>> => next_waypoint_index' \in Indices'
    <3>1. reference' # <<>> => Len(reference') \in Nat /\ Len(reference') > 0
      BY <2>1
    <3> QED
      BY <2>1, <3>1 DEF Indices
  <2>3. {needs_anchor', moved'} \subseteq BOOLEAN
    BY <1>1 DEF TrajectoryArrives, AddTrajectorySegment, TypeOK
  <2> QED
    BY <1>1, <2>1, <2>2, <2>3 DEF TrajectoryArrives, AddTrajectorySegment, TypeOK
<1>2. CASE Finish
  <2>1. reference' = <<>> /\ reference' \in Seq(Pos)
    BY <1>2 DEF Finish
  <2>2. goal' \in Pos \cup {NoGoal}
    <3>1. CASE Len(reference) > 1
      <4>1. reference \in Seq(Pos) /\ Len(reference) \in Nat
        BY DEF TypeOK
      <4>2. Waypoint(LastIndex) = reference[Len(reference)]
        BY <3>1, <4>1 DEF Waypoint, LastIndex
      <4> QED
        BY <1>2, <3>1, <4>1, <4>2 DEF Finish
    <3>2. CASE ~(Len(reference) > 1)
      BY <1>2, <3>2 DEF Finish
    <3> QED
      BY <3>1, <3>2
  <2>3. {needs_anchor', moved'} \subseteq BOOLEAN
    BY <1>2 DEF Finish
  <2> QED
    BY <1>2, <2>1, <2>2, <2>3 DEF Finish, TypeOK
<1>3. CASE GetLocalTrajectory
  <2>1. /\ reference # <<>> /\ reference' = reference
        /\ next_waypoint_index' \in Indices
        /\ next_waypoint_index' \in Nat
        /\ Waypoint(next_waypoint_index') \in Pos
        /\ stalled_cycles' \in 0..StallLimit
    BY <1>3, IndexType DEF GetLocalTrajectory
  <2>2. Indices' = Indices
    BY <2>1 DEF Indices
  <2>3. {needs_anchor', moved'} \subseteq BOOLEAN
    BY <1>3 DEF GetLocalTrajectory
  <2> QED
    BY <1>3, <2>1, <2>2, <2>3 DEF GetLocalTrajectory, TypeOK
<1>4. CASE GetLocalTrajectoryOfNothing
  <2>1. moved' \in BOOLEAN
    BY <1>4 DEF GetLocalTrajectoryOfNothing
  <2> QED
    BY <1>4, <2>1 DEF GetLocalTrajectoryOfNothing, TypeOK, sampler, Indices
<1>5. CASE ArmMoves
  <2>1. pos' \in Pos
    BY <1>5, TowardsType DEF ArmMoves, TypeOK
  <2>2. moved' \in BOOLEAN
    BY <1>5 DEF ArmMoves
  <2> QED
    BY <1>5, <2>1, <2>2 DEF ArmMoves, TypeOK, sampler, Indices
<1>6. CASE ArmMovesOn
  <2>1. moved' \in BOOLEAN
    BY <1>6 DEF ArmMovesOn
  <2> QED
    BY <1>6, <2>1 DEF ArmMovesOn, TypeOK, sampler, Indices
<1>7. CASE Obstacle
  <2>1. held' \in BOOLEAN
    BY <1>7 DEF Obstacle
  <2> QED
    BY <1>7, <2>1 DEF Obstacle, TypeOK, sampler, Indices
<1>8. CASE UNCHANGED vars
  BY <1>8 DEF vars, sampler, TypeOK, Indices
<1> QED
  BY <1>1, <1>2, <1>3, <1>4, <1>5, <1>6, <1>7, <1>8 DEF Next, Cycle

\* The index is that of a waypoint, whatever trajectory replaces another.
THEOREM TypeCorrect == Spec => []TypeOK
BY TypeInit, TypeStep, PTL DEF Spec

----------------------------------------------------------------------------
(* SuccessMeansGoalCommanded.                                               *)

\* The index is that of the last waypoint only after it was commanded, unless
\* a feedback keeps the waypoints from the arm.
CommandInv ==
  /\ /\ mode = "active" /\ feedback = "none" /\ Len(reference) > 1
     /\ next_waypoint_index >= Len(reference) - 1
     => command = reference[Len(reference)]
  /\ mode = "done" /\ goal # NoGoal /\ feedback = "none" => command = goal

LEMMA OnlyTheLast ==
  ASSUME NEW n \in Nat, NEW i \in 0..n - 1, i >= n - 1
  PROVE  i + 1 = n
OBVIOUS

LEMMA CommandInit == Init => CommandInv
BY DEF Init, CommandInv

LEMMA CommandStep == TypeOK /\ CommandInv /\ [Next]_vars => CommandInv'
<1> SUFFICES ASSUME TypeOK, CommandInv, [Next]_vars PROVE CommandInv'
  OBVIOUS
<1>0. reference \in Seq(Pos) /\ Len(reference) \in Nat /\ next_waypoint_index \in Nat
  BY DEF TypeOK
<1>1. ASSUME NEW t \in Trajectories, TrajectoryArrives(t) PROVE CommandInv'
  <2>1. mode' = "active" /\ reference' = t /\ next_waypoint_index' = 0 /\ Len(t) \in Nat
    BY <1>1, TrajectoriesAssumption DEF TrajectoryArrives, AddTrajectorySegment
  <2> QED
    BY <2>1 DEF CommandInv
<1>2. CASE Finish
  <2>1. /\ mode = "active" /\ mode' = "done" /\ command' = command
        /\ feedback' = feedback /\ ProgressIsComplete
    BY <1>2 DEF Finish
  <2>2. CASE Len(reference) > 1
    <3>1. LastIndex = Len(reference) - 1 /\ Waypoint(LastIndex) = reference[Len(reference)]
      BY <1>0, <2>2 DEF LastIndex, Waypoint
    <3>2. feedback = "none" => command = reference[Len(reference)]
      BY <2>1, <2>2, <3>1 DEF CommandInv, ProgressIsComplete
    <3>3. goal' = reference[Len(reference)]
      BY <1>2, <2>2, <3>1 DEF Finish
    <3> QED
      BY <2>1, <3>2, <3>3 DEF CommandInv
  <2>3. CASE ~(Len(reference) > 1)
    BY <1>2, <2>1, <2>3 DEF Finish, CommandInv
  <2> QED
    BY <2>2, <2>3
<1>3. CASE GetLocalTrajectory
  <2>1. /\ mode' = "active" /\ reference' = reference
        /\ feedback' = feedback
        /\ feedback = "none" => command' = Waypoint(next_waypoint_index')
        /\ next_waypoint_index' \in Indices
    BY <1>3, IndexType DEF GetLocalTrajectory
  <2>2. next_waypoint_index' >= Len(reference) - 1
        => next_waypoint_index' + 1 = Len(reference)
    BY <1>0, <2>1, OnlyTheLast DEF Indices
  <2>3. feedback = "none" /\ next_waypoint_index' >= Len(reference) - 1
        => command' = reference[Len(reference)]
    BY <2>1, <2>2 DEF Waypoint
  <2> QED
    BY <2>1, <2>3 DEF CommandInv
<1>4. CASE GetLocalTrajectoryOfNothing
  BY <1>4 DEF GetLocalTrajectoryOfNothing, CommandInv
<1>5. CASE UNCHANGED <<reference, next_waypoint_index, feedback, command, mode, goal>>
  BY <1>5 DEF CommandInv
<1> QED
  BY <1>1, <1>2, <1>3, <1>4, <1>5
  DEF Next, Cycle, ArmMoves, ArmMovesOn, Obstacle, vars, sampler

\* Whenever the local planner reports success for a trajectory of several
\* waypoints, the arm has been sent to the last of them, as long as no empty
\* trajectory has left its mark in feedback_.
THEOREM SuccessIsEarned == Spec => []SuccessMeansGoalCommanded
<1>1. Init => TypeOK /\ CommandInv
  BY TypeInit, CommandInit
<1>2. TypeOK /\ CommandInv /\ [Next]_vars => (TypeOK /\ CommandInv)'
  BY TypeStep, CommandStep
<1>3. CommandInv => SuccessMeansGoalCommanded
  BY DEF CommandInv, SuccessMeansGoalCommanded
<1> QED
  BY <1>1, <1>2, <1>3, PTL DEF Spec

----------------------------------------------------------------------------
(* NoGoingBack.                                                             *)

\* A trajectory that is to be anchored is at its start.
AnchorInv == needs_anchor => next_waypoint_index = 0

LEMMA AnchorStep == AnchorInv /\ [Next]_vars => AnchorInv'
<1> SUFFICES ASSUME AnchorInv, [Next]_vars PROVE AnchorInv'
  OBVIOUS
<1>1. ASSUME NEW t \in Trajectories, TrajectoryArrives(t) PROVE AnchorInv'
  BY <1>1 DEF TrajectoryArrives, AddTrajectorySegment, AnchorInv
<1>2. CASE Finish
  BY <1>2 DEF Finish, AnchorInv
<1>3. CASE GetLocalTrajectory
  BY <1>3 DEF GetLocalTrajectory, AnchorInv
<1>4. CASE UNCHANGED sampler
  BY <1>4 DEF sampler, AnchorInv
<1> QED
  BY <1>1, <1>2, <1>3, <1>4
  DEF Next, Cycle, GetLocalTrajectoryOfNothing, ArmMoves, ArmMovesOn, Obstacle, vars

LEMMA NoGoingBackStep ==
  TypeOK /\ AnchorInv /\ [Next]_vars
  => [next_waypoint_index' < next_waypoint_index
        => stalled_cycles = StallLimit \/ mode' = "done" \/ arrivals' > arrivals]_vars
<1> SUFFICES ASSUME TypeOK, AnchorInv, Next, next_waypoint_index' < next_waypoint_index
             PROVE  stalled_cycles = StallLimit \/ mode' = "done" \/ arrivals' > arrivals
  OBVIOUS
<1>0. /\ next_waypoint_index \in Nat /\ arrivals \in Nat
      /\ stalled_cycles \in 0..StallLimit
      /\ reference \in Seq(Pos) /\ pos \in Pos
  BY DEF TypeOK
<1>1. ASSUME NEW t \in Trajectories, TrajectoryArrives(t) PROVE arrivals' > arrivals
  BY <1>0, <1>1 DEF TrajectoryArrives
<1>2. CASE Finish
  BY <1>2 DEF Finish
<1>3. CASE GetLocalTrajectory
  <2>1. next_waypoint_index' \in Nat
    BY <1>3, IndexType DEF GetLocalTrajectory
  <2>2. ~needs_anchor
    BY <1>0, <2>1 DEF AnchorInv
  <2>3. Start = next_waypoint_index /\ Stall = stalled_cycles
    BY <2>2 DEF Start, Stall
  <2>4. CASE Advance
    <3>1. LastIndex = Len(reference) - 1 /\ Start <= LastIndex /\ Len(reference) \in Nat
      BY <1>0, <1>3, <2>3 DEF GetLocalTrajectory, LastIndex, TypeOK, Indices
    <3>2. next_waypoint_index' >= Start
      BY <1>0, <2>3, <2>4, <3>1 DEF Advance
    <3> QED
      BY <1>0, <2>1, <2>3, <3>2
  <2>5. CASE Reanchor
    BY <1>0, <2>3, <2>5 DEF Reanchor, Stalled
  <2>6. CASE Wait
    BY <1>0, <2>3, <2>6 DEF Wait
  <2> QED
    BY <1>3, <2>4, <2>5, <2>6 DEF GetLocalTrajectory
<1>4. CASE UNCHANGED next_waypoint_index
  BY <1>0, <1>4
<1> QED
  BY <1>1, <1>2, <1>3, <1>4
  DEF Next, Cycle, GetLocalTrajectoryOfNothing, ArmMoves, ArmMovesOn, Obstacle, sampler

\* The waypoints passed are given back only after stall_limit_ cycles without
\* one, at the end of the motion or for another trajectory.
THEOREM ProgressIsKept == Spec => NoGoingBack
<1>1. Init => TypeOK /\ AnchorInv
  BY TypeInit DEF Init, AnchorInv
<1>2. TypeOK /\ AnchorInv /\ [Next]_vars => (TypeOK /\ AnchorInv)'
  BY TypeStep, AnchorStep
<1> QED
  BY <1>1, <1>2, NoGoingBackStep, PTL DEF Spec, NoGoingBack

----------------------------------------------------------------------------
\* f begins with a and goes on, up to N, by the rule h.
GoesBy(f, N, R, a, h) ==
  f \in [0..N -> R] /\ f[0] = a /\ \A k \in 1..N : f[k] = h[<<f[k - 1], k>>]

\* There is such a function.
LEMMA Recursion ==
  ASSUME NEW N \in Nat, NEW R, NEW a \in R, NEW h \in [R \X (1..N) -> R]
  PROVE  \E f : GoesBy(f, N, R, a, h)
<1> DEFINE Upto(n) == \E f \in [0..n -> R] :
                        f[0] = a /\ \A k \in 1..n : f[k] = h[<<f[k - 1], k>>]
           without == {n \in 0..N : ~Upto(n)}
<1>1. Upto(0)
  <2> DEFINE f == [k \in 0..0 |-> a]
  <2>1. f \in [0..0 -> R] /\ f[0] = a /\ 1..0 = {}
    OBVIOUS
  <2> HIDE DEF f
  <2> QED
    BY <2>1
<1>2. ASSUME NEW n \in 0..N, n > 0, Upto(n - 1) PROVE Upto(n)
  <2>1. PICK f \in [0..(n - 1) -> R] :
          f[0] = a /\ \A k \in 1..(n - 1) : f[k] = h[<<f[k - 1], k>>]
    BY <1>2
  <2>2. n \in 1..N /\ n - 1 \in 0..(n - 1)
    BY <1>2
  <2> DEFINE g == [k \in 0..n |-> IF k = n THEN h[<<f[n - 1], n>>] ELSE f[k]]
  <2>3. h[<<f[n - 1], n>>] \in R
    BY <2>1, <2>2
  <2>4. \A k \in 0..n : k # n => k \in 0..(n - 1)
    BY <2>2
  <2>5. g \in [0..n -> R]
    BY <2>1, <2>3, <2>4
  <2>6. \A k \in 0..(n - 1) : g[k] = f[k] /\ k \in 0..n /\ k # n
    BY <2>2
  <2>7. g[n] = h[<<g[n - 1], n>>]
    <3>1. g[n] = h[<<f[n - 1], n>>]
      BY <2>2
    <3> HIDE DEF g
    <3> QED
      BY <2>2, <2>6, <3>1
  <2>8. g[0] = a
    <3>1. 0 \in 0..(n - 1)
      BY <2>2
    <3> HIDE DEF g
    <3> QED
      BY <2>1, <2>6, <3>1
  <2>9. ASSUME NEW k \in 1..n PROVE g[k] = h[<<g[k - 1], k>>]
    <3>1. CASE k = n
      BY <2>7, <3>1
    <3>2. CASE k # n
      <4>1. k \in 1..(n - 1) /\ k \in 0..(n - 1) /\ k - 1 \in 0..(n - 1)
        BY <2>2, <3>2
      <4> HIDE DEF g
      <4> QED
        BY <2>1, <2>6, <4>1
    <3> QED
      BY <3>1, <3>2
  <2> HIDE DEF g
  <2> QED
    BY <2>5, <2>8, <2>9
<1> HIDE DEF Upto
<1>3. without = {}
  <2> SUFFICES ASSUME without # {} PROVE FALSE
    OBVIOUS
  <2>1. without \subseteq Nat
    OBVIOUS
  <2>2. PICK n \in without : \A m \in without : n <= m
    <3> HIDE DEF without
    <3> QED
      BY <2>1, LeastElement
  <2>3. n \in 0..N /\ ~Upto(n) /\ n > 0
    BY <1>1, <2>2
  <2>4. n - 1 \in 0..N /\ n - 1 \notin without
    BY <2>2, <2>3
  <2> QED
    BY <1>2, <2>3, <2>4
<1>4. Upto(N)
  BY <1>3
<1> QED
  BY <1>4 DEF Upto, GoesBy

\* What the loop keeps, and what one round of it makes of that.
Bests == [index : Nat, distance : Nat]

NextBest(best, n) ==
  IF Closer(Distance(n - 1), best)
  THEN [index |-> n - 1, distance |-> Distance(n - 1)] ELSE best

\* Every waypoint is at a distance the positions allow.
LEMMA DistanceType ==
  ASSUME reference \in Seq(Pos), pos \in Pos, NEW i \in Indices
  PROVE  i \in Nat /\ Distance(i) \in 0..MaxPos
<1>1. Len(reference) \in Nat /\ (reference # <<>> => Len(reference) > 0)
  OBVIOUS
<1>2. i \in Nat /\ Waypoint(i) \in Pos
  BY <1>1 DEF Indices, Waypoint
<1> DEFINE w == Waypoint(i)
<1>3. w \in 0..MaxPos /\ pos \in 0..MaxPos
  BY <1>2 DEF Pos
<1> HIDE DEF w
<1>4. Abs(w - pos) \in 0..MaxPos
  BY <1>3, ConstantsAssumption DEF Abs
<1> QED
  BY <1>2, <1>4 DEF Distance, w

\* The recursive function of the model is the loop: its rule has a solution, so
\* CHOOSE finds one.
LEMMA BestOfLoop ==
  ASSUME reference \in Seq(Pos), pos \in Pos,
         NEW N, N = Len(reference)
  PROVE  /\ BestOf[0] = [index |-> 0, distance |-> MaxPos + 1]
         /\ \A n \in 1..N : BestOf[n] = NextBest(BestOf[n - 1], n)
<1> DEFINE a == [index |-> 0, distance |-> MaxPos + 1]
           h == [p \in Bests \X (1..N) |-> NextBest(p[1], p[2])]
           rule(f) == [n \in 0..N |-> IF n = 0 THEN a ELSE NextBest(f[n - 1], n)]
<1>1. N \in Nat
  OBVIOUS
<1>2. a \in Bests
  <2>1. 0 \in Nat /\ MaxPos + 1 \in Nat
    BY ConstantsAssumption
  <2> QED
    BY <2>1 DEF Bests
<1>3. ASSUME NEW best \in Bests, NEW n \in 1..N PROVE NextBest(best, n) \in Bests
  <2>1. n - 1 \in Indices
    BY <1>1 DEF Indices
  <2>2. n - 1 \in Nat /\ Distance(n - 1) \in Nat
    BY <2>1, DistanceType
  <2> QED
    BY <2>2 DEF NextBest, Bests
<1> HIDE DEF a
<1>4. h \in [Bests \X (1..N) -> Bests]
  BY <1>3
<1>5. PICK f \in [0..N -> Bests] : f[0] = a /\ \A n \in 1..N : f[n] = h[<<f[n - 1], n>>]
  <2> HIDE DEF h
  <2>1. \E f : GoesBy(f, N, Bests, a, h)
    BY <1>1, <1>2, <1>4, Recursion, Zenon
  <2> QED
    BY <2>1 DEF GoesBy
<1>6. \A n \in 1..N : f[n] = NextBest(f[n - 1], n)
  <2> TAKE n \in 1..N
  <2>1. n - 1 \in 0..N
    BY <1>1
  <2>2. f[n - 1] \in Bests
    BY <1>5, <2>1
  <2>3. h[<<f[n - 1], n>>] = NextBest(f[n - 1], n)
    BY <2>2
  <2> QED
    BY <1>5, <2>3
<1>7. f = rule(f)
  <2>1. \A n \in 0..N : f[n] = IF n = 0 THEN a ELSE NextBest(f[n - 1], n)
    <3> TAKE n \in 0..N
    <3>1. n # 0 => n \in 1..N
      BY <1>1
    <3> QED
      BY <1>5, <1>6, <3>1
  <2> QED
    BY <1>5, <2>1
<1>8. BestOf = CHOOSE g : g = rule(g)
  BY DEF BestOf, NextBest, a
<1>9. BestOf = rule(BestOf)
  <2> HIDE DEF rule
  <2> QED
    BY <1>7, <1>8
<1>10. \A n \in 0..N : BestOf[n] = IF n = 0 THEN a ELSE NextBest(BestOf[n - 1], n)
  BY <1>9, Zenon
<1>11. 0 \in 0..N /\ \A n \in 1..N : n \in 0..N /\ n # 0
  BY <1>1
<1> QED
  BY <1>10, <1>11 DEF a

\* After n waypoints best is the first of the closest among them.
LEMMA BestSoFar ==
  ASSUME reference \in Seq(Pos), pos \in Pos,
         NEW N, N = Len(reference), NEW n \in 1..N
  PROVE  /\ BestOf[n].index \in 0..(n - 1)
         /\ BestOf[n].distance = Distance(BestOf[n].index)
         /\ \A j \in 0..(n - 1) :
              \/ BestOf[n].distance < Distance(j)
              \/ BestOf[n].distance = Distance(j) /\ BestOf[n].index <= j
<1> DEFINE Good(k) ==
             /\ BestOf[k].index \in 0..(k - 1)
             /\ BestOf[k].distance = Distance(BestOf[k].index)
             /\ \A j \in 0..(k - 1) :
                  \/ BestOf[k].distance < Distance(j)
                  \/ BestOf[k].distance = Distance(j) /\ BestOf[k].index <= j
           bad == {k \in 1..N : ~Good(k)}
<1>1. N \in Nat
  OBVIOUS
<1>2. \A k \in 0..(N - 1) : Distance(k) \in 0..MaxPos
  BY <1>1, DistanceType DEF Indices
<1>3. /\ BestOf[0] = [index |-> 0, distance |-> MaxPos + 1]
      /\ \A k \in 1..N : BestOf[k] = NextBest(BestOf[k - 1], k)
  BY BestOfLoop
<1>4. N > 0 => Good(1)
  <2> SUFFICES ASSUME N > 0 PROVE Good(1)
    OBVIOUS
  <2>1. BestOf[1] = NextBest(BestOf[0], 1) /\ Distance(0) \in 0..MaxPos
    BY <1>1, <1>2, <1>3
  <2>2. BestOf[1] = [index |-> 0, distance |-> Distance(0)]
    <3> DEFINE d == Distance(0)
    <3>1. d \in 0..MaxPos /\ MaxPos \in Nat /\ 1 - 1 = 0
      BY <2>1, ConstantsAssumption
    <3>2. BestOf[0].distance = MaxPos + 1
      BY <1>3
    <3> HIDE DEF d
    <3>3. d < BestOf[0].distance
      BY <3>1, <3>2
    <3>4. NextBest(BestOf[0], 1) =
            IF d < BestOf[0].distance THEN [index |-> 0, distance |-> d] ELSE BestOf[0]
      BY <3>1, Zenon DEF NextBest, Closer, d
    <3> QED
      BY <2>1, <3>3, <3>4 DEF d
  <2>3. BestOf[1].index = 0 /\ BestOf[1].distance = Distance(0)
    BY <2>2
  <2> QED
    BY <2>1, <2>3
<1>5. ASSUME NEW k \in 1..N, k > 1, Good(k - 1) PROVE Good(k)
  <2> DEFINE b == BestOf[k - 1]  d == Distance(k - 1)
  <2>1. k - 1 \in 1..N /\ k - 1 \in 0..(N - 1) /\ k \in Nat
    BY <1>1, <1>5
  <2>2. /\ b.index \in 0..(k - 1 - 1) /\ b.distance = Distance(b.index)
        /\ \A j \in 0..(k - 1 - 1) :
             \/ b.distance < Distance(j)
             \/ b.distance = Distance(j) /\ b.index <= j
    BY <1>5
  <2>3. b.index \in 0..(N - 1) /\ b.distance \in 0..MaxPos /\ d \in 0..MaxPos
    BY <1>1, <1>2, <2>1, <2>2
  <2>4. BestOf[k] = IF d < b.distance THEN [index |-> k - 1, distance |-> d] ELSE b
    BY <1>3 DEF NextBest, Closer
  <2>5. \A j \in 0..(k - 1) : j = k - 1 \/ j \in 0..(k - 1 - 1)
    BY <2>1
  <2>6. \A j \in 0..(k - 1) : j \in 0..(N - 1) /\ Distance(j) \in 0..MaxPos
    BY <1>1, <1>2, <2>1
  <2> HIDE DEF b, Good
  <2>7. CASE d < b.distance
    <3>1. BestOf[k].index = k - 1 /\ BestOf[k].distance = d
      <4> HIDE DEF d
      <4> QED
        BY <2>4, <2>7
    <3>2. ASSUME NEW j \in 0..(k - 1)
          PROVE  d < Distance(j) \/ (d = Distance(j) /\ k - 1 <= j)
      <4>1. CASE j = k - 1
        <5>1. d = Distance(j) /\ k - 1 <= j
          BY <2>1, <4>1
        <5> QED
          BY <5>1
      <4>2. CASE j \in 0..(k - 1 - 1)
        <5> DEFINE e == Distance(j)
        <5>1. b.distance < e \/ b.distance = e
          BY <2>2, <4>2
        <5>2. e \in 0..MaxPos
          BY <2>6
        <5> HIDE DEF d, e
        <5>3. d < e
          BY <2>3, <2>7, <5>1, <5>2
        <5> QED
          BY <5>3 DEF e
      <4> QED
        BY <2>5, <4>1, <4>2
    <3> QED
      BY <2>1, <3>1, <3>2 DEF Good
  <2>8. CASE ~(d < b.distance)
    <3>1. BestOf[k] = b
      BY <2>4, <2>8
    <3>2. ASSUME NEW j \in 0..(k - 1)
          PROVE  b.distance < Distance(j) \/ (b.distance = Distance(j) /\ b.index <= j)
      <4>1. CASE j = k - 1
        <5>1. Distance(j) = d /\ b.index \in 0..(k - 1 - 1)
          BY <2>2, <4>1
        <5>2. b.distance <= d /\ b.index <= k - 1
          BY <2>1, <2>3, <2>8, <5>1
        <5> HIDE DEF d
        <5> QED
          BY <2>3, <4>1, <5>1, <5>2
      <4>2. CASE j \in 0..(k - 1 - 1)
        BY <2>2, <4>2
      <4> QED
        BY <2>5, <4>1, <4>2
    <3>3. b.index \in 0..(k - 1)
      BY <2>1, <2>2
    <3> QED
      BY <2>2, <3>1, <3>2, <3>3 DEF Good
  <2> QED
    BY <2>7, <2>8
<1> HIDE DEF Good
<1>6. bad = {}
  <2> SUFFICES ASSUME bad # {} PROVE FALSE
    OBVIOUS
  <2>1. bad \subseteq Nat
    BY <1>1
  <2>2. PICK k \in bad : \A m \in bad : k <= m
    <3> HIDE DEF bad
    <3> QED
      BY <2>1, LeastElement
  <2>3. k \in 1..N /\ ~Good(k) /\ k > 1
    BY <1>1, <1>4, <2>2
  <2>4. k - 1 \in 1..N /\ k - 1 \notin bad
    BY <1>1, <2>2, <2>3
  <2> QED
    BY <1>5, <2>3, <2>4
<1>7. Good(n)
  BY <1>6
<1> QED
  BY <1>7 DEF Good

(***************************************************************************)
(* nearestWaypoint() (nearest_waypoint_sampler.cpp:70-84) is right: for a   *)
(* trajectory of any length and an arm anywhere, the waypoint its loop ends *)
(* with is the first of those at the least distance.                        *)
(***************************************************************************)
THEOREM LoopIsRight == Spec => []LoopFindsNearest
<1>1. TypeOK => LoopFindsNearest
  <2> SUFFICES ASSUME TypeOK, reference # <<>> PROVE NearestByLoop = Nearest
    BY DEF LoopFindsNearest
  <2> DEFINE N == Len(reference)  i == BestOf[N].index
  <2>1. reference \in Seq(Pos) /\ pos \in Pos /\ N \in Nat /\ N \in 1..N
    BY DEF TypeOK
  <2>2. /\ i \in 0..(N - 1) /\ BestOf[N].distance = Distance(i)
        /\ \A j \in 0..(N - 1) :
             \/ BestOf[N].distance < Distance(j)
             \/ BestOf[N].distance = Distance(j) /\ i <= j
    BY <2>1, BestSoFar
  <2>3. i \in Indices /\ IsNearest(i)
    BY <2>2 DEF Indices, IsNearest
  <2>4. Nearest \in Indices /\ IsNearest(Nearest)
    BY <2>1, NearestExists
  <2>5. i \in Nat /\ Nearest \in Nat /\ Distance(i) \in Nat /\ Distance(Nearest) \in Nat
    BY <2>1, <2>3, <2>4, DistanceType
  <2>6. i = Nearest
    <3>1. Distance(i) < Distance(Nearest) \/ (Distance(i) = Distance(Nearest) /\ i <= Nearest)
      BY <2>3, <2>4 DEF IsNearest
    <3>2. Distance(Nearest) < Distance(i) \/ (Distance(Nearest) = Distance(i) /\ Nearest <= i)
      BY <2>3, <2>4 DEF IsNearest
    <3> HIDE DEF i
    <3> QED
      BY <2>5, <3>1, <3>2
  <2> QED
    BY <2>6 DEF NearestByLoop
<1>2. Spec => []TypeOK
  BY TypeCorrect
<1> QED
  BY <1>1, <1>2, PTL

=============================================================================
