---------------------------- MODULE RobotHW_proof ----------------------------
(***************************************************************************)
(* Proofs about RobotHW, for every set of controllers, every range of joint *)
(* positions and either kind of control.                                    *)
(***************************************************************************)
EXTENDS RobotHW, TLAPS

USE ConstantsAssumption

\* What the helpers give, so that no step below needs their definitions.
LEMMA HelperTypes ==
  /\ \A p \in Pos : HoldCommand(p) \in Pos
  /\ \A p \in Pos : Near(p) \subseteq Pos
  /\ ReadyStatus \in ArmStatus
  /\ 0 \in Pos
  /\ ~(NaN \in Pos)
BY DEF HoldCommand, Near, ReadyStatus, ArmStatus, Pos

\* A switch request that is sent for loaded controllers keeps the queue one of
\* requests within its bound.
LEMMA EnqueueType ==
  ASSUME TypeOK, NEW op \in {"activate", "deactivate"}, NEW names \in SUBSET Controllers,
         Enqueue(op, names)
  PROVE  /\ requests' \in Seq(Request) /\ Len(requests') <= MaxRequests
         /\ picked' \in BOOLEAN
         /\ requests' # <<>>
BY DEF Enqueue, TypeOK, Request

LEMMA SwitchCallType ==
  ASSUME TypeOK, NEW op \in {"activate", "deactivate"}, SwitchCall(op)
  PROVE  /\ requests' \in Seq(Request) /\ Len(requests') <= MaxRequests
         /\ picked' \in BOOLEAN
         /\ picked' => requests' # <<>>
<1>1. listed \in SUBSET Controllers
  BY DEF TypeOK
<1>2. CASE Enqueue(op, listed)
  BY <1>1, <1>2, EnqueueType
<1>3. CASE UNCHANGED <<requests, picked>>
  BY <1>3 DEF TypeOK
<1> QED
  BY <1>2, <1>3 DEF SwitchCall

LEMMA TypeInit == Init => TypeOK
<1> SUFFICES ASSUME Init PROVE TypeOK
  OBVIOUS
<1>1. requests \in Seq(Request) /\ Len(requests) <= MaxRequests
  BY DEF Init
<1>2. arm \in ArmStatus /\ curr \in ArmStatus
  BY DEF Init, ArmStatus
<1> QED
  BY <1>1, <1>2, HelperTypes DEF Init, TypeOK

LEMMA TypeStep == TypeOK /\ [Next]_vars => TypeOK'
<1> SUFFICES ASSUME TypeOK, [Next]_vars PROVE TypeOK'
  OBVIOUS
<1> USE HelperTypes
<1>1. CASE ArmDisturbed
  BY <1>1 DEF ArmDisturbed, TypeOK, ArmStatus, loopVars, cmdVars, mgrVars
<1>2. CASE ArmRestored
  BY <1>2 DEF ArmRestored, TypeOK, ArmStatus, loopVars, cmdVars, mgrVars
<1>3. CASE ArmMovedByHand
  BY <1>3 DEF ArmMovedByHand, TypeOK, loopVars, cmdVars, mgrVars
<1>4. ASSUME NEW f \in {"err", "stopped", "mode"}, Report(f) PROVE TypeOK'
  BY <1>4 DEF Report, TypeOK, ArmStatus, armVars, loopVars, cmdVars, mgrVars
<1>5. CASE OnActivate
  BY <1>5 DEF OnActivate, FirstState, TypeOK, mgrVars
<1>6. CASE OnDeactivate
  BY <1>6 DEF OnDeactivate, TypeOK, ArmStatus, loopVars, cmdVars, mgrVars
<1>7. CASE ReadReady
  BY <1>7 DEF ReadReady, XarmIsReadyRead, TypeOK, ArmStatus, armVars, cmdVars, mgrVars
<1>8. CASE MeasureOk
  BY <1>8 DEF MeasureOk, TypeOK, armVars, mgrVars
<1>9. CASE MeasureFails
  BY <1>9 DEF MeasureFails, TypeOK, armVars, cmdVars, mgrVars
<1>10. CASE Update
  <2>1. cmds' \in Pos
    BY <1>10 DEF Update, TypeOK
  <2>2. setpoint' \in Pos
    BY <1>10, <2>1 DEF Update, TypeOK
  <2>3. active' \subseteq loaded' /\ loaded' = loaded
    BY <1>10 DEF Update, ActiveAfter, TypeOK
  <2>4. requests' \in Seq(Request) /\ Len(requests') <= MaxRequests
    <3>1. CASE picked
      BY <1>10, <3>1 DEF Update, TypeOK
    <3>2. CASE ~picked
      BY <1>10, <3>2 DEF Update, TypeOK
    <3> QED
      BY <3>1, <3>2
  <2>5. picked' \in BOOLEAN /\ (picked' => requests' # <<>>)
    BY <1>10 DEF Update, TypeOK
  <2>6. wrote' \in BOOLEAN
    BY <1>10 DEF Update, SomeArmControllerActive
  <2> QED
    BY <1>10, <2>1, <2>2, <2>3, <2>4, <2>5, <2>6 DEF Update, TypeOK, armVars
<1>11. CASE PickUp
  BY <1>11 DEF PickUp, TypeOK, armVars, loopVars, cmdVars
<1>12. ASSUME NEW c \in Controllers, Spawn(c) PROVE TypeOK'
  BY <1>12, EnqueueType DEF Spawn, TypeOK, armVars, loopVars, cmdVars
<1>13. CASE WriteReset
  BY <1>13 DEF WriteReset, TypeOK, armVars, mgrVars
<1>14. CASE WriteReady
  BY <1>14 DEF WriteReady, TypeOK, armVars, cmdVars, mgrVars
<1>15. CASE ListToDeactivate
  BY <1>15 DEF ListToDeactivate, TypeOK, armVars, cmdVars, mgrVars
<1>16. CASE SwitchToDeactivate
  BY <1>16, SwitchCallType DEF SwitchToDeactivate, TypeOK, armVars, cmdVars
<1>17. CASE ListToActivate
  BY <1>17 DEF ListToActivate, TypeOK, armVars, cmdVars, mgrVars
<1>18. CASE SwitchToActivate
  BY <1>18, SwitchCallType DEF SwitchToActivate, TypeOK, armVars, cmdVars
<1>19. CASE Send
  BY <1>19 DEF Send, SendPosition, SendVelocity, TypeOK, mgrVars
<1>20. CASE UNCHANGED vars
  BY <1>20 DEF vars, TypeOK, armVars, loopVars, cmdVars, mgrVars
<1> QED
  BY <1>1, <1>2, <1>3, <1>4, <1>5, <1>6, <1>7, <1>8, <1>9, <1>10, <1>11, <1>12,
     <1>13, <1>14, <1>15, <1>16, <1>17, <1>18, <1>19, <1>20
  DEF Next, Loop, Environment

\* The state keeps its type: in particular no command is the NaN the state
\* interfaces start with once the hardware is active, and the manager is asked
\* only for controllers it has.
THEOREM TypeCorrect == Spec => []TypeOK
<1>1. Init => TypeOK
  BY TypeInit
<1>2. TypeOK /\ [Next]_vars => TypeOK'
  BY TypeStep
<1> QED
  BY <1>1, <1>2, PTL DEF Spec

----------------------------------------------------------------------------
(* FreshFirstCommand.                                                       *)

\* first is the reverse of initialized except while write() is between the two
\* assignments, and from read() on the commands of a plugin that is not
\* initialized are those of the measurement, until a controller writes.
FreshInv ==
  /\ pc \in {"init", "read", "measure", "update", "write"} => first = ~initialized
  /\ pc \in {"list_deactivate", "switch_deactivate"} => first /\ ~initialized
  /\ pc \in {"list_activate", "switch_activate", "send"} => initialized
  /\ /\ pc = "update" \/ (pc = "write" /\ ~wrote)
     /\ ~initialized /\ read_ready /\ read_code = "ok"
     => cmds = HoldCommand(measured)
  /\ pc \in {"list_activate", "switch_activate", "send"} /\ first /\ ~wrote
     => cmds = HoldCommand(measured)

LEMMA FreshInit == Init => FreshInv
BY DEF Init, FreshInv

LEMMA FreshStep == TypeOK /\ FreshInv /\ [Next]_vars => FreshInv'
<1> SUFFICES ASSUME TypeOK, FreshInv, [Next]_vars PROVE FreshInv'
  OBVIOUS
<1> first \in BOOLEAN /\ initialized \in BOOLEAN /\ reactivate_later \in BOOLEAN
  BY DEF TypeOK
<1>1. CASE ArmDisturbed
  BY <1>1 DEF ArmDisturbed, FreshInv, loopVars, cmdVars, mgrVars
<1>2. CASE ArmRestored
  BY <1>2 DEF ArmRestored, FreshInv, loopVars, cmdVars, mgrVars
<1>3. CASE ArmMovedByHand
  BY <1>3 DEF ArmMovedByHand, FreshInv, loopVars, cmdVars, mgrVars
<1>4. ASSUME NEW f \in {"err", "stopped", "mode"}, Report(f) PROVE FreshInv'
  BY <1>4 DEF Report, FreshInv, armVars, loopVars, cmdVars, mgrVars
<1>5. CASE OnActivate
  BY <1>5 DEF OnActivate, FreshInv, mgrVars
<1>6. CASE OnDeactivate
  BY <1>6 DEF OnDeactivate, FreshInv, loopVars, cmdVars, mgrVars
<1>7. CASE ReadReady
  BY <1>7 DEF ReadReady, FreshInv, armVars, cmdVars, mgrVars
<1>8. CASE MeasureOk
  BY <1>8 DEF MeasureOk, FreshInv, armVars, mgrVars
<1>9. CASE MeasureFails
  BY <1>9 DEF MeasureFails, FreshInv, armVars, cmdVars, mgrVars
<1>10. CASE Update
  BY <1>10 DEF Update, FreshInv, armVars
<1>11. CASE PickUp
  BY <1>11 DEF PickUp, FreshInv, armVars, loopVars, cmdVars
<1>12. ASSUME NEW c \in Controllers, Spawn(c) PROVE FreshInv'
  BY <1>12 DEF Spawn, FreshInv, armVars, loopVars, cmdVars
<1>13. CASE WriteReset
  BY <1>13 DEF WriteReset, FreshInv, armVars, mgrVars
<1>14. CASE WriteReady
  BY <1>14 DEF WriteReady, NeedReset, FreshInv, armVars, cmdVars, mgrVars
<1>15. CASE ListToDeactivate
  BY <1>15 DEF ListToDeactivate, FreshInv, armVars, cmdVars, mgrVars
<1>16. CASE SwitchToDeactivate
  BY <1>16 DEF SwitchToDeactivate, FreshInv, armVars, cmdVars
<1>17. CASE ListToActivate
  BY <1>17 DEF ListToActivate, FreshInv, armVars, cmdVars, mgrVars
<1>18. CASE SwitchToActivate
  BY <1>18 DEF SwitchToActivate, FreshInv, armVars, cmdVars
<1>19. CASE Send
  BY <1>19 DEF Send, FreshInv, mgrVars
<1>20. CASE UNCHANGED vars
  BY <1>20 DEF vars, FreshInv, armVars, loopVars, cmdVars, mgrVars
<1> QED
  BY <1>1, <1>2, <1>3, <1>4, <1>5, <1>6, <1>7, <1>8, <1>9, <1>10, <1>11, <1>12,
     <1>13, <1>14, <1>15, <1>16, <1>17, <1>18, <1>19, <1>20
  DEF Next, Loop, Environment

\* Whatever the arm, the network, the manager and the spawners do, the first
\* command after a reset is the position measured in the same cycle, unless a
\* controller that was never taken down wrote another one.
THEOREM FirstCommandIsFresh == Spec => []FreshFirstCommand
<1>1. Init => TypeOK /\ FreshInv
  BY TypeInit, FreshInit
<1>2. TypeOK /\ FreshInv /\ [Next]_vars => (TypeOK /\ FreshInv)'
  BY TypeStep, FreshStep
<1>3. FreshInv => FreshFirstCommand
  BY DEF FreshInv, FreshFirstCommand
<1> QED
  BY <1>1, <1>2, <1>3, PTL DEF Spec

----------------------------------------------------------------------------
(* FlagMeansDisabled, where the services answer and no spawner races.       *)

\* The request that takes every loaded controller down.
TakesAllDown(r) == r.op = "deactivate" /\ r.names = loaded

\* As long as the flag is up, either all is down and nothing is outstanding,
\* or the request that takes all down is the last one outstanding.
FlagInv ==
  /\ pc \in {"list_deactivate", "switch_deactivate"} => ~initialized /\ ~reactivate_later
  /\ pc = "switch_deactivate" => listed = loaded
  /\ reactivate_later => \/ active = {} /\ requests = <<>>
                         \/ requests # <<>> /\ TakesAllDown(requests[Len(requests)])

LEMMA FlagInit == Init => FlagInv
BY DEF Init, FlagInv

LEMMA FlagStep == TypeOK /\ Calm /\ FlagInv /\ [Next]_vars => FlagInv'
<1> SUFFICES ASSUME TypeOK, Calm, FlagInv, [Next]_vars PROVE FlagInv'
  OBVIOUS
<1> site.reliable /\ ~site.spawnerRaces
  BY DEF Calm
<1> USE DEF TakesAllDown
<1>1. CASE ArmDisturbed
  BY <1>1 DEF ArmDisturbed, FlagInv, loopVars, cmdVars, mgrVars
<1>2. CASE ArmRestored
  BY <1>2 DEF ArmRestored, FlagInv, loopVars, cmdVars, mgrVars
<1>3. CASE ArmMovedByHand
  BY <1>3 DEF ArmMovedByHand, FlagInv, loopVars, cmdVars, mgrVars
<1>4. ASSUME NEW f \in {"err", "stopped", "mode"}, Report(f) PROVE FlagInv'
  BY <1>4 DEF Report, FlagInv, armVars, loopVars, cmdVars, mgrVars
<1>5. CASE OnActivate
  BY <1>5 DEF OnActivate, FlagInv, mgrVars
<1>6. CASE OnDeactivate
  BY <1>6 DEF OnDeactivate, FlagInv, loopVars, cmdVars, mgrVars
<1>7. CASE ReadReady
  BY <1>7 DEF ReadReady, FlagInv, armVars, cmdVars, mgrVars
<1>8. CASE MeasureOk
  BY <1>8 DEF MeasureOk, FlagInv, armVars, mgrVars
<1>9. CASE MeasureFails
  BY <1>9 DEF MeasureFails, FlagInv, armVars, cmdVars, mgrVars
<1>10. CASE Update
  <2> USE <1>10
  <2>1. CASE ~picked
    BY <2>1 DEF Update, FlagInv, armVars
  <2>2. CASE picked
    <3> DEFINE n == Len(requests)
    <3>1. requests \in Seq(Request) /\ requests # <<>> /\ n \in Nat /\ n > 0
      BY <2>2 DEF TypeOK
    <3>2. CASE n = 1
      <4>1. requests' = <<>> /\ Head(requests) = requests[n]
        BY <2>2, <3>1, <3>2 DEF Update
      <4>2. reactivate_later => active' = {}
        BY <2>2, <3>1, <4>1 DEF Update, ActiveAfter, FlagInv, TypeOK
      <4> QED
        BY <4>1, <4>2 DEF Update, FlagInv
    <3>3. CASE n > 1
      <4>1. Len(requests') = n - 1 /\ requests' # <<>> /\ requests'[n - 1] = requests[n]
        BY <2>2, <3>1, <3>3 DEF Update
      <4> QED
        BY <3>1, <4>1 DEF Update, FlagInv
    <3>4. n = 1 \/ n > 1
      <4> n \in Nat /\ n > 0
        BY <3>1
      <4> HIDE DEF n
      <4> QED
        OBVIOUS
    <3> QED
      BY <3>2, <3>3, <3>4
  <2> QED
    BY <2>1, <2>2
<1>11. CASE PickUp
  BY <1>11 DEF PickUp, FlagInv, armVars, loopVars, cmdVars
<1>12. ASSUME NEW c \in Controllers, Spawn(c) PROVE FlagInv'
  BY <1>12 DEF Spawn, FlagInv, TypeOK, armVars, loopVars, cmdVars
<1>13. CASE WriteReset
  BY <1>13 DEF WriteReset, FlagInv, TypeOK, armVars, mgrVars
<1>14. CASE WriteReady
  BY <1>14 DEF WriteReady, FlagInv, armVars, cmdVars, mgrVars
<1>15. CASE ListToDeactivate
  BY <1>15 DEF ListToDeactivate, FlagInv, armVars, cmdVars, mgrVars
<1>16. CASE SwitchToDeactivate
  <2>1. Enqueue("deactivate", listed)
    BY <1>16 DEF SwitchToDeactivate, SwitchCall
  <2>2. Len(requests') = Len(requests) + 1
        /\ requests'[Len(requests')] = [op |-> "deactivate", names |-> listed]
    BY <2>1 DEF Enqueue, TypeOK
  <2>3. requests' # <<>>
    BY <2>1, EnqueueType DEF TypeOK
  <2> QED
    BY <1>16, <2>2, <2>3 DEF SwitchToDeactivate, FlagInv
<1>17. CASE ListToActivate
  BY <1>17 DEF ListToActivate, FlagInv, armVars, cmdVars, mgrVars
<1>18. CASE SwitchToActivate
  BY <1>18 DEF SwitchToActivate, FlagInv, armVars, cmdVars
<1>19. CASE Send
  BY <1>19 DEF Send, FlagInv, mgrVars
<1>20. CASE UNCHANGED vars
  BY <1>20 DEF vars, FlagInv, armVars, loopVars, cmdVars, mgrVars
<1> QED
  BY <1>1, <1>2, <1>3, <1>4, <1>5, <1>6, <1>7, <1>8, <1>9, <1>10, <1>11, <1>12,
     <1>13, <1>14, <1>15, <1>16, <1>17, <1>18, <1>19, <1>20
  DEF Next, Loop, Environment

\* The site does not change.
LEMMA SiteStep == [Next]_vars => site' = site
BY DEF Next, Loop, Environment, ArmDisturbed, ArmRestored, ArmMovedByHand, Report,
       OnActivate, OnDeactivate, ReadReady, MeasureOk, MeasureFails, Update, PickUp,
       Spawn, WriteReset, WriteReady, ListToDeactivate, SwitchToDeactivate,
       ListToActivate, SwitchToActivate, Send, vars, armVars

\* With services that answer and no spawner racing a reset, the flag that the
\* controllers are to be activated again is up only over controllers that are
\* down, or about to be.
THEOREM FlagIsTrue == Spec => []CalmFlagMeansDisabled
<1>1. Init => TypeOK /\ (Calm => FlagInv)
  BY TypeInit, FlagInit
<1>2. TypeOK /\ (Calm => FlagInv) /\ [Next]_vars => (TypeOK /\ (Calm => FlagInv))'
  BY TypeStep, FlagStep, SiteStep DEF Calm
<1>3. (Calm => FlagInv) => CalmFlagMeansDisabled
  BY DEF FlagInv, FlagMeansDisabled, CalmFlagMeansDisabled
<1> QED
  BY <1>1, <1>2, <1>3, PTL DEF Spec

----------------------------------------------------------------------------
(* NoJumpOnRecovery.                                                        *)

\* write() has found the arm ready and has not yet commanded it.
Committed == pc \in {"list_activate", "switch_activate", "send"}

\* A displaced arm is only made ready while nothing commands it, and nothing
\* will as long as the plugin has not found it ready; then its command is on
\* its way, and it is still where it was measured.
JumpInv ==
  /\ ArmReady /\ displaced /\ initialized => Committed
  /\ ArmReady /\ displaced /\ ~initialized =>
       /\ ~SomeArmControllerActive /\ ~wrote
       /\ \A i \in 1..Len(requests) : requests[i].op = "deactivate"
  /\ ArmReady /\ displaced /\ Committed /\ first => ~wrote
  /\ pc \in {"update", "write"} /\ read_code = "ok" => measured = pos
  /\ Committed /\ ArmReady => measured = pos
  /\ pc = "init" => /\ active = {} /\ requests = <<>>
                    /\ ~wrote /\ ~initialized

LEMMA JumpInit == Init => JumpInv
BY DEF Init, JumpInv, Committed

\* Where the arm, its commands and the loop stay as they are, and no
\* controller is asked for before the arm was found ready.
LEMMA JumpKept ==
  ASSUME JumpInv, UNCHANGED <<arm, displaced, pos, pc, initialized, wrote, active, first,
                              measured, read_code>>,
         initialized \/ UNCHANGED requests
  PROVE  JumpInv'
BY DEF JumpInv, Committed, ArmReady, SomeArmControllerActive

\* A step of the loop that does not touch the queue, from a point before the
\* arm was found ready to another one.
LEMMA JumpLoop ==
  ASSUME JumpInv, UNCHANGED <<arm, displaced, pos, initialized, wrote, active, requests>>,
         ~Committed, ~Committed', pc # "init", pc' # "init",
         pc' \in {"update", "write"} /\ read_code' = "ok" => measured' = pos
  PROVE  JumpInv'
BY DEF JumpInv, ArmReady, SomeArmControllerActive

LEMMA JumpUpdate ==
  ASSUME TypeOK, JumpInv, Update
  PROVE  JumpInv'
<1>1. /\ UNCHANGED <<arm, displaced, pos, initialized, measured, read_code>>
      /\ pc = "update" /\ pc' = "write" /\ wrote' = SomeArmControllerActive
  BY DEF Update, armVars
<1>2. ASSUME ArmReady, displaced, ~initialized
      PROVE  /\ ~SomeArmControllerActive' /\ ~wrote'
             /\ (\A i \in 1..Len(requests) : requests[i].op = "deactivate")'
  <2>1. /\ ~SomeArmControllerActive
        /\ \A i \in 1..Len(requests) : requests[i].op = "deactivate"
    BY <1>2 DEF JumpInv
  <2>2. CASE picked
    <3>1. requests \in Seq(Request) /\ requests # <<>>
      BY <2>2 DEF TypeOK
    <3>2. /\ active' = ActiveAfter(Head(requests)) /\ requests' = Tail(requests)
      BY <2>2 DEF Update
    <3>3. Head(requests) = requests[1] /\ requests[1].op = "deactivate"
      BY <2>1, <3>1
    <3>4. active' \subseteq active
      BY <3>2, <3>3 DEF ActiveAfter
    <3>5. \A i \in 1..Len(requests') : requests'[i] = requests[i + 1] /\ i + 1 \in 1..Len(requests)
      BY <3>1, <3>2
    <3> QED
      BY <1>1, <2>1, <3>4, <3>5 DEF SomeArmControllerActive
  <2>3. CASE ~picked
    BY <1>1, <2>1, <2>3 DEF Update, SomeArmControllerActive
  <2> QED
    BY <2>2, <2>3
<1> QED
  BY <1>1, <1>2 DEF JumpInv, Committed, ArmReady

LEMMA JumpStep ==
  TypeOK /\ FreshInv /\ Calm /\ site.operatorWaits /\ JumpInv /\ [Next]_vars => JumpInv'
<1> SUFFICES ASSUME TypeOK, FreshInv, Calm, site.operatorWaits, JumpInv, [Next]_vars
             PROVE  JumpInv'
  OBVIOUS
<1> ~site.spawnerRaces
  BY DEF Calm
<1>1. CASE ArmDisturbed
  <2>1. ~ArmReady'
    <3>1. arm \in ArmStatus
      BY DEF TypeOK
    <3>2. \/ arm' = [arm EXCEPT !.err = TRUE, !.stopped = TRUE]
          \/ arm' = [arm EXCEPT !.stopped = TRUE]
          \/ arm' = [arm EXCEPT !.mode = "other"]
      BY <1>1 DEF ArmDisturbed
    <3>3. arm'.stopped = TRUE \/ arm'.mode = "other"
      BY <3>1, <3>2 DEF ArmStatus
    <3> QED
      BY <3>3 DEF ArmReady, ReadyStatus
  <2>2. UNCHANGED <<pos, pc, read_code, measured, active, requests, wrote, initialized>>
    BY <1>1 DEF ArmDisturbed, loopVars, mgrVars
  <2> QED
    BY <2>1, <2>2 DEF JumpInv, Committed
<1>2. CASE ArmRestored
  <2>1. ~initialized /\ ~SomeArmControllerActive /\ ~wrote /\ requests = <<>>
    BY <1>2 DEF ArmRestored, RestoreAllowed
  <2>2. UNCHANGED <<pos, pc, read_code, measured, active, requests, wrote, initialized>>
    BY <1>2 DEF ArmRestored, loopVars, mgrVars
  <2>3. ~Committed
    BY <2>1 DEF FreshInv, Committed
  <2> QED
    BY <2>1, <2>2, <2>3 DEF JumpInv, Committed, SomeArmControllerActive
<1>3. CASE ArmMovedByHand
  <2>1. ~ArmReady' /\ pc \notin {"update", "write"}
    BY <1>3 DEF ArmMovedByHand, ArmReady
  <2>2. UNCHANGED <<pc, active, requests, wrote, initialized>>
    BY <1>3 DEF ArmMovedByHand, loopVars, mgrVars
  <2> QED
    BY <2>1, <2>2 DEF JumpInv, Committed
<1>4. ASSUME NEW f \in {"err", "stopped", "mode"}, Report(f) PROVE JumpInv'
  BY <1>4, JumpKept DEF Report, armVars, loopVars, cmdVars, mgrVars
<1>5. CASE OnActivate
  <2>1. ~initialized /\ ~SomeArmControllerActive /\ ~wrote /\ requests = <<>>
    BY <1>5 DEF OnActivate, RestoreAllowed, JumpInv, SomeArmControllerActive
  <2>2. UNCHANGED <<active, requests, wrote, initialized>> /\ pc' = "read"
    BY <1>5 DEF OnActivate, mgrVars
  <2> QED
    BY <2>1, <2>2 DEF JumpInv, Committed, SomeArmControllerActive
<1>6. CASE OnDeactivate
  <2>1. ~ArmReady' /\ pc = "read"
    BY <1>6 DEF OnDeactivate, ArmReady, ReadyStatus, TypeOK, ArmStatus
  <2>2. pc' = pc
    BY <1>6 DEF OnDeactivate, loopVars
  <2> QED
    BY <2>1, <2>2 DEF JumpInv, Committed
<1>7. CASE ReadReady \/ MeasureOk \/ MeasureFails \/ WriteReset \/ ListToDeactivate
  <2>1. CASE ReadReady \/ MeasureOk \/ MeasureFails \/ ListToDeactivate
    BY <2>1, JumpLoop DEF ReadReady, MeasureOk, MeasureFails, ListToDeactivate, Committed,
                          armVars, mgrVars
  <2>2. CASE WriteReset
    <3>1. /\ UNCHANGED <<arm, displaced, pos, wrote, active, requests>> /\ ~initialized'
          /\ pc = "write" /\ pc' \in {"read", "list_deactivate"}
      BY <2>2 DEF WriteReset, armVars, mgrVars
    <3>2. ArmReady /\ displaced => ~initialized
      BY <3>1 DEF JumpInv, Committed
    <3> QED
      BY <3>1, <3>2 DEF JumpInv, Committed, ArmReady, SomeArmControllerActive
  <2> QED
    BY <1>7, <2>1, <2>2
<1>8. CASE Update
  BY <1>8, JumpUpdate
<1>9. CASE PickUp
  BY <1>9, JumpKept DEF PickUp, armVars, loopVars, cmdVars
<1>10. ASSUME NEW c \in Controllers, Spawn(c) PROVE JumpInv'
  BY <1>10, JumpKept DEF Spawn, armVars, loopVars, cmdVars
<1>11. CASE WriteReady
  <2>1. /\ UNCHANGED <<arm, displaced, pos, wrote, first, measured>>
        /\ pc = "write" /\ Committed' /\ initialized' /\ pc' # "init"
        /\ read_code = "ok"
    BY <1>11 DEF WriteReady, NeedReset, Committed, armVars, cmdVars
  <2>2. pc' \notin {"update", "write"}
    BY <2>1 DEF Committed
  <2>3. first => ~initialized
    BY <2>1 DEF FreshInv
  <2> QED
    BY <2>1, <2>2, <2>3 DEF JumpInv, ArmReady
<1>12. CASE SwitchToDeactivate
  <2>1. /\ UNCHANGED <<arm, displaced, pos, wrote, active, initialized>>
        /\ pc = "switch_deactivate" /\ pc' = "read"
    BY <1>12 DEF SwitchToDeactivate, armVars
  <2>2. ~initialized
    BY <2>1 DEF FreshInv
  <2>3. (\A i \in 1..Len(requests) : requests[i].op = "deactivate") =>
        (\A i \in 1..Len(requests) : requests[i].op = "deactivate")'
    BY <1>12 DEF SwitchToDeactivate, SwitchCall, Enqueue, TypeOK
  <2> QED
    BY <2>1, <2>2, <2>3 DEF JumpInv, Committed, ArmReady, SomeArmControllerActive
<1>13. CASE ListToActivate \/ SwitchToActivate
  <2>1. /\ UNCHANGED <<arm, displaced, pos, wrote, first, measured, initialized>>
        /\ Committed /\ Committed' /\ initialized
    BY <1>13 DEF ListToActivate, SwitchToActivate, Committed, FreshInv, armVars, cmdVars, mgrVars
  <2>2. pc' \notin {"init", "update", "write"}
    BY <2>1 DEF Committed
  <2> QED
    BY <2>1, <2>2 DEF JumpInv, ArmReady
<1>14. CASE Send
  <2>1. ~displaced' /\ pc' = "read"
    BY <1>14 DEF Send
  <2> QED
    BY <2>1 DEF JumpInv, Committed
<1>15. CASE UNCHANGED vars
  BY <1>15, JumpKept DEF vars, armVars, loopVars, cmdVars, mgrVars
<1> QED
  BY <1>1, <1>2, <1>3, <1>4, <1>5, <1>6, <1>7, <1>8, <1>9, <1>10, <1>11, <1>12,
     <1>13, <1>14, <1>15
  DEF Next, Loop, Environment

\* At a calm site whose operator waits, an arm that was moved by hand during a
\* fault is told to stay where it is by the first command it can execute,
\* however long write() is blocked in its calls (write(), lines 341-396).
THEOREM RecoveryDoesNotJump == Spec => []NoJumpOnRecovery
<1> DEFINE Inv == Calm /\ site.operatorWaits => JumpInv
<1>1. Init => TypeOK /\ FreshInv /\ Inv
  BY TypeInit, FreshInit, JumpInit
<1>2. TypeOK /\ FreshInv /\ Inv /\ [Next]_vars => (TypeOK /\ FreshInv /\ Inv)'
  BY TypeStep, FreshStep, JumpStep, SiteStep DEF Calm
<1>3. FreshInv /\ Inv => NoJumpOnRecovery
  <2> SUFFICES ASSUME FreshInv, JumpInv, pc = "send", first, displaced, ArmReady
               PROVE  cmds = HoldCommand(pos)
    BY DEF NoJumpOnRecovery
  <2>1. ~wrote /\ measured = pos
    BY DEF JumpInv, Committed
  <2> QED
    BY <2>1 DEF FreshInv
<1> QED
  BY <1>1, <1>2, <1>3, PTL DEF Spec
=============================================================================
