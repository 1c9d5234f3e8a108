------------------------- MODULE GripperAction_proof -------------------------
(***************************************************************************)
(* Theorems about the gripper actions: type correctness, the frame that a   *)
(* mover works on, the publishing thread of start-up and the answer of a    *)
(* goal that no other one overlapped.                                       *)
(***************************************************************************)
EXTENDS GripperAction, TLAPS

\* A goal that was not sent has no thread.
NoGoalNoThread == \A g \in Goals : status[g] = "none" => pc[g] = "none"

\* While the mover has the frame, is_move keeps the thread in its loop.
FrameInv ==
  /\ NoGoalNoThread
  /\ ok => \A g \in Goals :
       mover[g] \in Moving => is_move[g] /\ pc[g] \in {"loop", "poll", "early"}

\* The thread of start-up goes back to sleep only before the first goal.
StaleInv ==
  /\ \A g \in Goals : pc[g] \notin {"none", "begin"} => init_loop
  /\ shown => init_loop
  /\ stale # 0 => shown
  /\ init_pc = "sleep" => stale = 0
  /\ stale <= 1

\* Who may still write the result belongs to an open goal, and of two of them
\* both are overlapped; from the write to the answer of one that is not, the
\* result is its position.
OwnInv ==
  /\ NoGoalNoThread
  /\ \A g \in Goals : pc[g] \notin {"none", "returned"} /\ ~is_succeed[g]
                        => status[g] \in Active
  /\ \A g \in Goals : is_succeed[g] => pc[g] \in {"loop", "poll", "finish",
                                                 "returned"}
  /\ \A g \in Goals : pc[g] \in {"early", "answer"}
                        => /\ ~is_succeed[g]
                           /\ overlapped[g] \/ result = ToPosition(curr_pos[g])
  /\ \A g, h \in Goals :
       status[g] \in Active /\ status[h] \in Active /\ g # h => overlapped[g]

----------------------------------------------------------------------------
(* What the conversions give.                                               *)

LEMMA AbsIsNat == ASSUME NEW x \in Int PROVE Abs(x) \in Nat
BY DEF Abs

LEMMA PositionIsReport ==
  ASSUME NEW c \in Pulses PROVE ToPosition(c) \in Reports
BY DEF Reports

LEMMA PulseOfRequest ==
  ASSUME NEW p \in Requests
  PROVE ToPulse(p) \in IF Bio THEN Nat ELSE Pulses
<1>1. CASE Bio
  <2>1. 2 * p + Closed \in Int BY <1>1, ConstantsAssumption
  <2>. QED BY <1>1, <2>1, AbsIsNat DEF ToPulse
<1>2. CASE ~Bio
  BY <1>2, ConstantsAssumption DEF ToPulse, Abs, Pulses
<1>. QED BY <1>1, <1>2

----------------------------------------------------------------------------
(* The type invariant.                                                      *)

LEMMA TypeInit == Init => TypeOK
<1>1. 0 \in Pulses /\ (0 \in IF Bio THEN Nat ELSE Pulses)
  BY ConstantsAssumption DEF Pulses
<1>2. 0 \in Reports /\ 0 \in 0..ThresholdTimes
  BY ConstantsAssumption DEF Reports
<1>3. ASSUME Init PROVE /\ is_move \in [Goals -> BOOLEAN]
                        /\ is_succeed \in [Goals -> BOOLEAN]
                        /\ ok \in BOOLEAN /\ init_loop \in BOOLEAN
                        /\ shown \in BOOLEAN
  BY <1>3 DEF Init
<1>4. ASSUME Init PROVE jaws \in Pulses /\ order \in Pulses
  BY <1>4 DEF Init
<1>5. ASSUME Init PROVE stale \in 0..2
  BY <1>5 DEF Init
<1>. QED
  BY <1>1, <1>2, <1>3, <1>4, <1>5 DEF Init, TypeOK, Running, Moving

LEMMA TypeNext == TypeOK /\ [Next]_vars => TypeOK'
<1>. SUFFICES ASSUME TypeOK, [Next]_vars PROVE TypeOK'
  OBVIOUS
<1>. USE DEF TypeOK, init, device, client, frame, Running, Moving, Active,
         Terminal
<1>1. CASE JawsMove
  BY <1>1, ConstantsAssumption DEF JawsMove, Pulses
<1>2. CASE Shutdown
  BY <1>2 DEF Shutdown, Pulses
<1>3. CASE InitTest
  BY <1>3 DEF InitTest, Pulses
<1>4. CASE InitPublish
  BY <1>4 DEF InitPublish, Pulses
<1>5. ASSUME NEW g \in Goals, Accept(g) PROVE TypeOK'
  BY <1>5, PulseOfRequest DEF Accept
<1>6. ASSUME NEW g \in Goals, Cancel(g) PROVE TypeOK'
  BY <1>6 DEF Cancel
<1>7. ASSUME NEW g \in Goals, Begin(g) PROVE TypeOK'
  BY <1>7 DEF Begin, RaiseFlag
<1>8. ASSUME NEW g \in Goals, Read(g) PROVE TypeOK'
  BY <1>8 DEF Read
<1>9. ASSUME NEW g \in Goals, SetUp(g) PROVE TypeOK'
  BY <1>9, PositionIsReport DEF SetUp
<1>10. ASSUME NEW g \in Goals, Refuse(g) PROVE TypeOK'
  BY <1>10, ConstantsAssumption DEF Refuse, FinishCanceled, Return, Pulses
<1>11. ASSUME NEW g \in Goals, Launch(g) PROVE TypeOK'
  BY <1>11 DEF Launch, FirstMove
<1>12. ASSUME NEW g \in Goals, Loop(g) PROVE TypeOK'
  BY <1>12 DEF Loop
<1>13. ASSUME NEW g \in Goals, PollFails(g) PROVE TypeOK'
  BY <1>13 DEF PollFails
<1>14. ASSUME NEW g \in Goals, Poll(g) PROVE TypeOK'
  BY <1>14, PositionIsReport, ConstantsAssumption DEF Poll, Count
<1>15. ASSUME NEW g \in Goals, SucceedEarly(g) PROVE TypeOK'
  BY <1>15 DEF SucceedEarly, Succeed
<1>16. ASSUME NEW g \in Goals, Finish(g) PROVE TypeOK'
  BY <1>16, PositionIsReport, ConstantsAssumption DEF Finish, Return, Pulses
<1>17. ASSUME NEW g \in Goals, Answer(g) PROVE TypeOK'
  BY <1>17, ConstantsAssumption DEF Answer, Succeed, Return, Pulses
<1>18. ASSUME NEW g \in Goals, MoverStart(g) PROVE TypeOK'
  BY <1>18 DEF MoverStart
<1>19. ASSUME NEW g \in Goals, MoverSend(g) PROVE TypeOK'
  BY <1>19, ConstantsAssumption DEF MoverSend, Order, Pulses
<1>20. ASSUME NEW g \in Goals, MoverReturns(g) PROVE TypeOK'
  BY <1>20 DEF MoverReturns
<1>21. ASSUME NEW g \in Goals, MoverLogs(g) PROVE TypeOK'
  BY <1>21 DEF MoverLogs
<1>22. ASSUME NEW g \in Goals, MoverClears(g) PROVE TypeOK'
  BY <1>22 DEF MoverClears, Last
<1>23. CASE UNCHANGED vars
  BY <1>23 DEF vars
<1>. QED
  BY <1>1, <1>2, <1>3, <1>4, <1>5, <1>6, <1>7, <1>8, <1>9, <1>10, <1>11, <1>12, <1>13, <1>14, <1>15, <1>16, <1>17, <1>18, <1>19, <1>20, <1>21, <1>22, <1>23
  DEF Next, Execute, Move

\* The state keeps its type: whatever goals come, fail or overlap, the shared
\* result is a report and the gripper is sent where it can go.
THEOREM TypeCorrect == Spec => []TypeOK
<1>1. Init => TypeOK BY TypeInit
<1>2. TypeOK /\ [Next]_vars => TypeOK' BY TypeNext
<1>. QED BY <1>1, <1>2, PTL DEF Spec

----------------------------------------------------------------------------
(* The frame.                                                               *)

LEMMA FrameNext == TypeOK /\ FrameInv /\ [Next]_vars => FrameInv'
<1>. SUFFICES ASSUME TypeOK, FrameInv, [Next]_vars PROVE FrameInv'
  OBVIOUS
<1>. USE DEF TypeOK, FrameInv, NoGoalNoThread, init, device, client,
         frame, Running, Moving, Active, Terminal
<1>1. CASE JawsMove
  BY <1>1 DEF JawsMove
<1>2. CASE Shutdown
  BY <1>2 DEF Shutdown
<1>3. CASE InitTest
  BY <1>3 DEF InitTest
<1>4. CASE InitPublish
  BY <1>4 DEF InitPublish
<1>5. ASSUME NEW g \in Goals, Accept(g) PROVE FrameInv'
  BY <1>5 DEF Accept
<1>6. ASSUME NEW g \in Goals, Cancel(g) PROVE FrameInv'
  BY <1>6 DEF Cancel
<1>7. ASSUME NEW g \in Goals, Begin(g) PROVE FrameInv'
  BY <1>7 DEF Begin, RaiseFlag
<1>8. ASSUME NEW g \in Goals, Read(g) PROVE FrameInv'
  BY <1>8 DEF Read
<1>9. ASSUME NEW g \in Goals, SetUp(g) PROVE FrameInv'
  BY <1>9 DEF SetUp
<1>10. ASSUME NEW g \in Goals, Refuse(g) PROVE FrameInv'
  BY <1>10 DEF Refuse, FinishCanceled, Return
<1>11. ASSUME NEW g \in Goals, Launch(g) PROVE FrameInv'
  BY <1>11 DEF Launch, FirstMove
<1>12. ASSUME NEW g \in Goals, Loop(g) PROVE FrameInv'
  BY <1>12 DEF Loop
<1>13. ASSUME NEW g \in Goals, PollFails(g) PROVE FrameInv'
  BY <1>13 DEF PollFails
<1>14. ASSUME NEW g \in Goals, Poll(g) PROVE FrameInv'
  BY <1>14 DEF Poll
<1>15. ASSUME NEW g \in Goals, SucceedEarly(g) PROVE FrameInv'
  BY <1>15 DEF SucceedEarly, Succeed
<1>16. ASSUME NEW g \in Goals, Finish(g) PROVE FrameInv'
  BY <1>16 DEF Finish, Return, ToAnswer
<1>17. ASSUME NEW g \in Goals, Answer(g) PROVE FrameInv'
  BY <1>17 DEF Answer, Succeed, Return
<1>18. ASSUME NEW g \in Goals, MoverStart(g) PROVE FrameInv'
  BY <1>18 DEF MoverStart
<1>19. ASSUME NEW g \in Goals, MoverSend(g) PROVE FrameInv'
  BY <1>19 DEF MoverSend
<1>20. ASSUME NEW g \in Goals, MoverReturns(g) PROVE FrameInv'
  BY <1>20 DEF MoverReturns
<1>21. ASSUME NEW g \in Goals, MoverLogs(g) PROVE FrameInv'
  BY <1>21 DEF MoverLogs
<1>22. ASSUME NEW g \in Goals, MoverClears(g) PROVE FrameInv'
  BY <1>22 DEF MoverClears, Last
<1>23. CASE UNCHANGED vars
  BY <1>23 DEF vars
<1>. QED
  BY <1>1, <1>2, <1>3, <1>4, <1>5, <1>6, <1>7, <1>8, <1>9, <1>10, <1>11, <1>12,
     <1>13, <1>14, <1>15, <1>16, <1>17, <1>18, <1>19, <1>20, <1>21, <1>22, <1>23
  DEF Next, Execute, Move

\* xarm_driver.cpp:608-616.  As long as the process runs the references of the
\* mover are into a frame that exists, for any number of goals at a time.
THEOREM FrameIsAlive == Spec => []FrameOutlivesMover
<1>1. Init => FrameInv
  BY DEF Init, FrameInv, NoGoalNoThread, Moving
<1>2. TypeOK /\ FrameInv /\ [Next]_vars => FrameInv' BY FrameNext
<1>3. FrameInv => FrameOutlivesMover
  BY DEF FrameInv, FrameOutlivesMover, Running
<1>. QED BY <1>1, <1>2, <1>3, TypeCorrect, PTL DEF Spec

----------------------------------------------------------------------------
(* The thread of start-up.                                                  *)

LEMMA StaleNext == TypeOK /\ StaleInv /\ [Next]_vars => StaleInv'
<1>. SUFFICES ASSUME TypeOK, StaleInv, [Next]_vars PROVE StaleInv'
  OBVIOUS
<1>. USE DEF TypeOK, StaleInv, init, device, client, frame
<1>1. CASE JawsMove
  BY <1>1 DEF JawsMove
<1>2. CASE Shutdown
  BY <1>2 DEF Shutdown
<1>3. CASE InitTest
  BY <1>3 DEF InitTest
<1>4. CASE InitPublish
  BY <1>4 DEF InitPublish
<1>5. ASSUME NEW g \in Goals, Accept(g) PROVE StaleInv'
  BY <1>5 DEF Accept
<1>6. ASSUME NEW g \in Goals, Cancel(g) PROVE StaleInv'
  BY <1>6 DEF Cancel
<1>7. ASSUME NEW g \in Goals, Begin(g) PROVE StaleInv'
  BY <1>7 DEF Begin, RaiseFlag
<1>8. ASSUME NEW g \in Goals, Read(g) PROVE StaleInv'
  BY <1>8 DEF Read
<1>9. ASSUME NEW g \in Goals, SetUp(g) PROVE StaleInv'
  BY <1>9 DEF SetUp
<1>10. ASSUME NEW g \in Goals, Refuse(g) PROVE StaleInv'
  BY <1>10 DEF Refuse, FinishCanceled, Return
<1>11. ASSUME NEW g \in Goals, Launch(g) PROVE StaleInv'
  BY <1>11 DEF Launch, FirstMove
<1>12. ASSUME NEW g \in Goals, Loop(g) PROVE StaleInv'
  BY <1>12 DEF Loop
<1>13. ASSUME NEW g \in Goals, PollFails(g) PROVE StaleInv'
  BY <1>13 DEF PollFails
<1>14. ASSUME NEW g \in Goals, Poll(g) PROVE StaleInv'
  BY <1>14 DEF Poll
<1>15. ASSUME NEW g \in Goals, SucceedEarly(g) PROVE StaleInv'
  BY <1>15 DEF SucceedEarly, Succeed
<1>16. ASSUME NEW g \in Goals, Finish(g) PROVE StaleInv'
  BY <1>16 DEF Finish, Return, ToAnswer
<1>17. ASSUME NEW g \in Goals, Answer(g) PROVE StaleInv'
  BY <1>17 DEF Answer, Succeed, Return
<1>18. ASSUME NEW g \in Goals, MoverStart(g) PROVE StaleInv'
  BY <1>18 DEF MoverStart
<1>19. ASSUME NEW g \in Goals, MoverSend(g) PROVE StaleInv'
  BY <1>19 DEF MoverSend
<1>20. ASSUME NEW g \in Goals, MoverReturns(g) PROVE StaleInv'
  BY <1>20 DEF MoverReturns
<1>21. ASSUME NEW g \in Goals, MoverLogs(g) PROVE StaleInv'
  BY <1>21 DEF MoverLogs
<1>22. ASSUME NEW g \in Goals, MoverClears(g) PROVE StaleInv'
  BY <1>22 DEF MoverClears, Last
<1>23. CASE UNCHANGED vars
  BY <1>23 DEF vars
<1>. QED
  BY <1>1, <1>2, <1>3, <1>4, <1>5, <1>6, <1>7, <1>8, <1>9, <1>10, <1>11, <1>12,
     <1>13, <1>14, <1>15, <1>16, <1>17, <1>18, <1>19, <1>20, <1>21, <1>22, <1>23
  DEF Next, Execute, Move

\* xarm_driver.cpp:495-502, 550.  Joint states of a goal are overwritten at
\* most once by those of start-up.
THEOREM StartUpEnds == Spec => []OneStalePublication
<1>1. Init => StaleInv
  BY DEF Init, StaleInv
<1>2. TypeOK /\ StaleInv /\ [Next]_vars => StaleInv' BY StaleNext
<1>3. StaleInv => OneStalePublication
  BY DEF StaleInv, OneStalePublication
<1>. QED BY <1>1, <1>2, <1>3, TypeCorrect, PTL DEF Spec

----------------------------------------------------------------------------
(* The answer.                                                              *)

LEMMA OwnNext == TypeOK /\ OwnInv /\ [Next]_vars => OwnInv'
<1>. SUFFICES ASSUME TypeOK, OwnInv, [Next]_vars PROVE OwnInv'
  OBVIOUS
<1>. USE DEF TypeOK, OwnInv, NoGoalNoThread, init, device, client, frame,
         Active, Terminal
<1>1. CASE JawsMove
  BY <1>1 DEF JawsMove
<1>2. CASE Shutdown
  BY <1>2 DEF Shutdown
<1>3. CASE InitTest
  BY <1>3 DEF InitTest
<1>4. CASE InitPublish
  BY <1>4 DEF InitPublish
<1>5. ASSUME NEW g \in Goals, Accept(g) PROVE OwnInv'
  BY <1>5 DEF Accept
<1>6. ASSUME NEW g \in Goals, Cancel(g) PROVE OwnInv'
  BY <1>6 DEF Cancel
<1>7. ASSUME NEW g \in Goals, Begin(g) PROVE OwnInv'
  BY <1>7 DEF Begin, RaiseFlag
<1>8. ASSUME NEW g \in Goals, Read(g) PROVE OwnInv'
  BY <1>8 DEF Read
<1>9. ASSUME NEW g \in Goals, SetUp(g) PROVE OwnInv'
  BY <1>9 DEF SetUp
<1>10. ASSUME NEW g \in Goals, Refuse(g) PROVE OwnInv'
  BY <1>10 DEF Refuse, FinishCanceled, Return
<1>11. ASSUME NEW g \in Goals, Launch(g) PROVE OwnInv'
  BY <1>11 DEF Launch, FirstMove
<1>12. ASSUME NEW g \in Goals, Loop(g) PROVE OwnInv'
  BY <1>12 DEF Loop
<1>13. ASSUME NEW g \in Goals, PollFails(g) PROVE OwnInv'
  BY <1>13 DEF PollFails
<1>14. ASSUME NEW g \in Goals, Poll(g) PROVE OwnInv'
  BY <1>14 DEF Poll
<1>15. ASSUME NEW g \in Goals, SucceedEarly(g) PROVE OwnInv'
  BY <1>15 DEF SucceedEarly, Succeed
<1>16. ASSUME NEW g \in Goals, Finish(g) PROVE OwnInv'
  BY <1>16 DEF Finish, Return, ToAnswer
<1>17. ASSUME NEW g \in Goals, Answer(g) PROVE OwnInv'
  BY <1>17 DEF Answer, Succeed, Return
<1>18. ASSUME NEW g \in Goals, MoverStart(g) PROVE OwnInv'
  BY <1>18 DEF MoverStart
<1>19. ASSUME NEW g \in Goals, MoverSend(g) PROVE OwnInv'
  BY <1>19 DEF MoverSend
<1>20. ASSUME NEW g \in Goals, MoverReturns(g) PROVE OwnInv'
  BY <1>20 DEF MoverReturns
<1>21. ASSUME NEW g \in Goals, MoverLogs(g) PROVE OwnInv'
  BY <1>21 DEF MoverLogs
<1>22. ASSUME NEW g \in Goals, MoverClears(g) PROVE OwnInv'
  BY <1>22 DEF MoverClears, Last
<1>23. CASE UNCHANGED vars
  BY <1>23 DEF vars
<1>. QED
  BY <1>1, <1>2, <1>3, <1>4, <1>5, <1>6, <1>7, <1>8, <1>9, <1>10, <1>11, <1>12,
     <1>13, <1>14, <1>15, <1>16, <1>17, <1>18, <1>19, <1>20, <1>21, <1>22, <1>23
  DEF Next, Execute, Move

\* xarm_driver.cpp:628-634, 660-666.  A goal that no other overlapped succeeds
\* with the position its own thread read.
THEOREM SuccessIsOwn ==
  Spec => SuccessReportsOwnPosition
<1>1. Init => OwnInv
  BY DEF Init, OwnInv, NoGoalNoThread, Active
<1>2. TypeOK /\ OwnInv /\ [Next]_vars => OwnInv' BY OwnNext
<1>3. ASSUME TypeOK, OwnInv, [Next]_vars
      PROVE \A g \in Goals :
              status[g] \in Active /\ status'[g] = "succeeded" /\ ~overlapped[g]
                => answer'[g] = ToPosition(curr_pos[g])
  <2>. USE DEF TypeOK, OwnInv, client, Active
  <2>1. ASSUME NEW h \in Goals, SucceedEarly(h) \/ Answer(h) PROVE
          \A g \in Goals :
            status[g] \in Active /\ status'[g] = "succeeded" /\ ~overlapped[g]
              => answer'[g] = ToPosition(curr_pos[g])
    BY <1>3, <2>1 DEF SucceedEarly, Answer, Succeed
  <2>2. ASSUME NEW h \in Goals, Refuse(h) PROVE
          \A g \in Goals : status[g] \in Active => status'[g] # "succeeded"
    BY <1>3, <2>2 DEF Refuse, FinishCanceled
  <2>3. ASSUME NEW h \in Goals, Accept(h) \/ Cancel(h) PROVE
          \A g \in Goals : status[g] \in Active => status'[g] # "succeeded"
    BY <1>3, <2>3 DEF Accept, Cancel
  <2>4. ASSUME UNCHANGED status PROVE
          \A g \in Goals : status[g] \in Active => status'[g] # "succeeded"
    BY <2>4
  <2>5. ASSUME NEW h \in Goals, Move(h) PROVE UNCHANGED status
    BY <2>5 DEF Move, MoverStart, MoverSend, MoverReturns, MoverLogs,
                MoverClears
  <2>6. ASSUME NEW h \in Goals, Execute(h), ~Refuse(h), ~SucceedEarly(h),
               ~Answer(h)
        PROVE UNCHANGED status
    BY <2>6 DEF Execute, Begin, Read, SetUp, Launch, Loop, PollFails, Poll,
                Finish
  <2>7. ASSUME JawsMove \/ Shutdown \/ InitTest \/ InitPublish
               \/ UNCHANGED vars
        PROVE UNCHANGED status
    BY <2>7 DEF JawsMove, Shutdown, InitTest, InitPublish, vars
  <2>. QED
    BY <1>3, <2>1, <2>2, <2>3, <2>4, <2>5, <2>6, <2>7 DEF Next
<1>4. TypeOK /\ OwnInv /\ [Next]_vars
        => [\A g \in Goals :
              status[g] \in Active /\ status'[g] = "succeeded" /\ ~overlapped[g]
                => answer'[g] = ToPosition(curr_pos[g])]_vars
  BY <1>3
<1>. QED
  BY <1>1, <1>2, <1>4, TypeCorrect, PTL DEF Spec, SuccessReportsOwnPosition
==============================================================================
