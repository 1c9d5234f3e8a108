---------------------------- MODULE GripperAction ----------------------------
(***************************************************************************)
(* The gripper action servers of XArmDriver (xarm_api/src/xarm_driver.cpp): *)
(* xarm_gripper and, with Bio, bio_gripper.  Every goal is accepted at once *)
(* and gets two detached threads: one that executes it, polls the jaws and  *)
(* answers, and a mover, which blocks in the SDK and works on the local     *)
(* variables of the first by reference.  All goals share one result object, *)
(* one gripper and the flag that ends the thread publishing before them.    *)
(*                                                                          *)
(* Positions of the jaws are pulses; those of the action are thousandths of *)
(* a metre (Bio: half thousandths in answers).  Feedback is left out; joint *)
(* states matter only in who publishes them.                                *)
(***************************************************************************)
EXTENDS Integers, FiniteSets

CONSTANTS
  Goals,           \* the goals the client sends
  Requests,        \* positions the client asks for
  MaxPos,          \* max_pos; the jaws move between 0 and MaxPos
  Closed,          \* Bio: the pulse of closed jaws (71)
  OpenFrom,        \* Bio: targets from here on open the jaws (100)
  Threshold,       \* threshold: less than this is standing still
  ThresholdTimes,  \* threshold_times
  Reach,           \* less than this from the target is there (15)
  Bio,             \* which of the two grippers
  NoPosition       \* the position of an answer that carries none

ASSUME ConstantsAssumption ==
  /\ MaxPos \in Nat /\ Closed \in 0..MaxPos
  /\ Requests \subseteq IF Bio THEN Nat ELSE 0..MaxPos
  /\ OpenFrom \in Nat /\ Threshold \in Nat \ {0}
  /\ ThresholdTimes \in Nat \ {0} /\ Reach \in Nat
  /\ Bio \in BOOLEAN /\ NoPosition \notin Int

VARIABLES
  ok,            \* rclcpp::ok()
  init_loop,     \* xarm_gripper_init_loop_
  init_pc,       \* where the publishing thread is
  stale,         \* history: what it published after a goal had published
  shown,         \* history: a goal has published joint states
  result,        \* xarm_gripper_result_->position
  jaws, order,   \* the gripper: where it is and where it was last sent
  status,        \* of each goal, as its client sees it
  answer,        \* the position a goal was answered with
  target,        \* target_pos of each goal
  overlapped,    \* history: another goal was open while it was
  pc,            \* where its executing thread is
  mover,         \* where its mover is
  is_move, curr_pos, last_pos, cnt, is_succeed   \* locals of the thread

init   == <<init_loop, init_pc, stale, shown>>
device == <<jaws, order>>
client == <<status, answer, target, overlapped>>
frame  == <<curr_pos, last_pos, cnt, is_succeed>>
vars   == <<ok, init, result, device, client, pc, mover, is_move, frame>>

Pulses == 0..MaxPos
Abs(x) == IF x < 0 THEN -x ELSE x

\* _xarm_gripper_pos_convert() and _bio_gripper_pos_convert().
ToPulse(p)    == IF Bio THEN Abs(2 * p + Closed) ELSE Abs(MaxPos - p)

ToPosition(c) == IF Bio THEN -Abs(c - Closed) ELSE Abs(MaxPos - c)

Active   == {"executing", "canceling"}
Terminal == {"succeeded", "canceled"}

\* Where the executing thread still needs its frame.
Running == {"loop", "poll", "early", "finish", "answer"}
Moving  == {"start", "send", "wait", "log", "clear"}

----------------------------------------------------------------------------
(* The client, the gripper, the process.                                    *)

\* _handle_..._goal() accepts whatever comes, _accepted() starts the thread.
Accept(g) ==
  /\ ok /\ status[g] = "none"
  /\ LET others == {h \in Goals : status[h] \in Active}
     IN  overlapped' = [h \in Goals |->
           overlapped[h] \/ (others # {} /\ h \in others \cup {g})]
  /\ \E p \in Requests : target' = [target EXCEPT ![g] = ToPulse(p)]
  /\ status' = [status EXCEPT ![g] = "executing"]
  /\ pc' = [pc EXCEPT ![g] = "begin"]
  /\ UNCHANGED <<ok, init, result, device, answer, mover, is_move, frame>>

\* _handle_..._cancel() accepts; no thread looks at it.
Cancel(g) ==
  /\ ok /\ status[g] = "executing"
  /\ status' = [status EXCEPT ![g] = "canceling"]
  /\ UNCHANGED <<ok, init, result, device, answer, target, overlapped, pc,
                 mover, is_move, frame>>

\* The jaws follow the last order, unless an object holds them.
JawsMove ==
  /\ jaws # order
  /\ jaws' = IF jaws < order THEN jaws + 1 ELSE jaws - 1
  /\ UNCHANGED <<ok, init, result, order, client, pc, mover, is_move, frame>>

Shutdown ==
  /\ ok /\ ok' = FALSE
  /\ UNCHANGED <<init, result, device, client, pc, mover, is_move, frame>>

----------------------------------------------------------------------------
(* The thread that publishes the first position until a goal comes.         *)

InitTest ==
  /\ init_pc = "test"
  /\ init_pc' = IF init_loop THEN "done" ELSE "sleep"
  /\ UNCHANGED <<ok, init_loop, stale, shown, result, device, client, pc,
                 mover, is_move, frame>>

InitPublish ==
  /\ init_pc = "sleep"
  /\ init_pc' = "test"
  /\ stale' = IF shown /\ stale < 2 THEN stale + 1 ELSE stale
  /\ UNCHANGED <<ok, init_loop, shown, result, device, client, pc, mover,
                 is_move, frame>>

----------------------------------------------------------------------------
(* The executing thread.                                                    *)

\* The thread returns: its frame and its hold on the goal are gone.
Return(g) ==
  /\ pc' = [pc EXCEPT ![g] = "returned"]
  /\ curr_pos' = [curr_pos EXCEPT ![g] = 0]
  /\ last_pos' = [last_pos EXCEPT ![g] = -MaxPos]
  /\ cnt' = [cnt EXCEPT ![g] = 0]

\* canceled() throws unless a cancellation was asked for; the goal handle,
\* going out of scope, then ends the goal as canceled with no result.
FinishCanceled(g) ==
  /\ IF ok
     THEN /\ status' = [status EXCEPT ![g] = "canceled"]
          /\ answer' = [answer EXCEPT ![g] =
                          IF status[g] = "canceling" THEN result
                                                     ELSE NoPosition]
     ELSE UNCHANGED <<status, answer>>
  /\ Return(g)
  /\ UNCHANGED <<ok, init, result, device, target, overlapped, mover, is_move,
                 is_succeed>>

\* succeed() ends a goal that is being canceled as well, and throws for one
\* that has ended.
Succeed(g) ==
  IF ok /\ status[g] \in Active
  THEN /\ status' = [status EXCEPT ![g] = "succeeded"]
       /\ answer' = [answer EXCEPT ![g] = result]
  ELSE UNCHANGED <<status, answer>>

BugRaiseFlag == UNCHANGED init_loop

RaiseFlag == init_loop' = TRUE

\* The flag, then get_gripper_err_code().  bio_gripper clears an error once
\* and reads again.
Begin(g) ==
  /\ pc[g] = "begin"
  /\ RaiseFlag
  /\ \E healthy \in BOOLEAN :
       pc' = [pc EXCEPT ![g] = IF healthy THEN "read" ELSE "refuse"]
  /\ UNCHANGED <<ok, init_pc, stale, shown, result, device, client, mover,
                 is_move, frame>>

\* The position is published even if it could not be read: curr_pos is 0.
Read(g) ==
  /\ pc[g] = "read"
  /\ \E p \in {jaws, curr_pos[g]} : curr_pos' = [curr_pos EXCEPT ![g] = p]
  /\ shown' = TRUE
  /\ pc' = [pc EXCEPT ![g] = IF Bio THEN "launch" ELSE "setup"]
  /\ UNCHANGED <<ok, init_loop, init_pc, stale, result, device, client,
                 mover, is_move, last_pos, cnt, is_succeed>>

\* set_gripper_mode(), set_gripper_enable(), set_gripper_speed(): the first
\* that fails ends the goal.
SetUp(g) ==
  /\ pc[g] = "setup"
  /\ \/ /\ pc' = [pc EXCEPT ![g] = "launch"]
        /\ UNCHANGED result
     \/ /\ pc' = [pc EXCEPT ![g] = "refuse"]
        /\ result' = ToPosition(curr_pos[g])
  /\ UNCHANGED <<ok, init, device, client, mover, is_move, frame>>

Refuse(g) == pc[g] = "refuse" /\ FinishCanceled(g)

\* Mutant: is_move is left to the mover to set.
BugFirstMove == FALSE

FirstMove == TRUE

Launch(g) ==
  /\ pc[g] = "launch"
  /\ is_move' = [is_move EXCEPT ![g] = FirstMove]
  /\ mover' = [mover EXCEPT ![g] = "start"]
  /\ pc' = [pc EXCEPT ![g] = "loop"]
  /\ UNCHANGED <<ok, init, result, device, client, frame>>

Loop(g) ==
  /\ pc[g] = "loop"
  /\ pc' = [pc EXCEPT ![g] = IF is_move[g] /\ ok THEN "poll" ELSE "finish"]
  /\ UNCHANGED <<ok, init, result, device, client, mover, is_move, frame>>

PollFails(g) ==
  /\ pc[g] = "poll"
  /\ pc' = [pc EXCEPT ![g] = "loop"]
  /\ UNCHANGED <<ok, init, result, device, client, mover, is_move, frame>>

Still(g) == Abs(last_pos[g] - jaws) < Threshold
Count(g) == IF cnt[g] < ThresholdTimes THEN cnt[g] + 1 ELSE cnt[g]
There(g) == Abs(target[g] - jaws) < Reach

Poll(g) ==
  /\ pc[g] = "poll"
  /\ curr_pos' = [curr_pos EXCEPT ![g] = jaws]
  /\ IF ~is_succeed[g] /\ Still(g) /\ Count(g) = ThresholdTimes /\ There(g)
     THEN /\ pc' = [pc EXCEPT ![g] = "early"]
          /\ result' = ToPosition(jaws)
     ELSE /\ pc' = [pc EXCEPT ![g] = "loop"]
          /\ UNCHANGED result
  /\ cnt' = [cnt EXCEPT ![g] =
               IF is_succeed[g] THEN @ ELSE IF Still(g) THEN Count(g) ELSE 0]
  /\ last_pos' = [last_pos EXCEPT ![g] =
                    IF is_succeed[g] \/ Still(g) THEN @ ELSE jaws]
  /\ UNCHANGED <<ok, init, device, client, mover, is_move, is_succeed>>

SucceedEarly(g) ==
  /\ pc[g] = "early"
  /\ Succeed(g)
  /\ is_succeed' = [is_succeed EXCEPT ![g] = TRUE]
  /\ pc' = [pc EXCEPT ![g] = "loop"]
  /\ UNCHANGED <<ok, init, result, device, target, overlapped, mover, is_move,
                 curr_pos, last_pos, cnt>>

\* Mutant: the last step forgets that the goal may have been answered.
BugToAnswer(g) == ok

ToAnswer(g) == ok /\ ~is_succeed[g]

\* The position is read once more (or not); an unanswered goal succeeds
\* whatever set_gripper_position() returned.
Finish(g) ==
  /\ pc[g] = "finish"
  /\ \E p \in {jaws, curr_pos[g]} :
       IF ToAnswer(g)
       THEN /\ curr_pos' = [curr_pos EXCEPT ![g] = p]
            /\ result' = ToPosition(p)
            /\ pc' = [pc EXCEPT ![g] = "answer"]
            /\ UNCHANGED <<last_pos, cnt>>
       ELSE Return(g) /\ UNCHANGED result
  /\ UNCHANGED <<ok, init, device, client, mover, is_move, is_succeed>>

Answer(g) ==
  /\ pc[g] = "answer"
  /\ Succeed(g)
  /\ Return(g)
  /\ UNCHANGED <<ok, init, result, device, target, overlapped, mover, is_move,
                 is_succeed>>

Execute(g) ==
  \/ Begin(g) \/ Read(g) \/ SetUp(g) \/ Refuse(g) \/ Launch(g)
  \/ Loop(g) \/ PollFails(g) \/ Poll(g) \/ SucceedEarly(g)
  \/ Finish(g) \/ Answer(g)

----------------------------------------------------------------------------
(* The mover: a thread that works on the frame of the first.                *)

MoverStart(g) ==
  /\ mover[g] = "start"
  /\ is_move' = [is_move EXCEPT ![g] = TRUE]
  /\ mover' = [mover EXCEPT ![g] = "send"]
  /\ UNCHANGED <<ok, init, result, device, client, pc, frame>>

\* The bio gripper knows open and closed only.
Order(g) ==
  IF ~Bio THEN target[g] ELSE IF target[g] >= OpenFrom THEN MaxPos ELSE Closed

\* set_gripper_position(): it may fail, which nobody asks about.
MoverSend(g) ==
  /\ mover[g] = "send"
  /\ order' \in {Order(g), order}
  /\ mover' = [mover EXCEPT ![g] = "wait"]
  /\ UNCHANGED <<ok, init, result, jaws, client, pc, is_move, frame>>

\* The SDK returns: the motion ended, or its time did.
MoverReturns(g) ==
  /\ mover[g] = "wait"
  /\ mover' = [mover EXCEPT ![g] = "log"]
  /\ UNCHANGED <<ok, init, result, device, client, pc, is_move, frame>>

\* The log line reads curr_pos.
MoverLogs(g) ==
  /\ mover[g] = "log"
  /\ mover' = [mover EXCEPT ![g] = "clear"]
  /\ UNCHANGED <<ok, init, result, device, client, pc, is_move, frame>>

\* Mutant: is_move is cleared only if the order was carried out.
BugLast(g) == jaws # Order(g)

Last(g) == FALSE

MoverClears(g) ==
  /\ mover[g] = "clear"
  /\ is_move' = [is_move EXCEPT ![g] = Last(g)]
  /\ mover' = [mover EXCEPT ![g] = "done"]
  /\ UNCHANGED <<ok, init, result, device, client, pc, frame>>

Move(g) ==
  \/ MoverStart(g) \/ MoverSend(g) \/ MoverReturns(g)
  \/ MoverLogs(g) \/ MoverClears(g)

----------------------------------------------------------------------------
Init ==
  /\ ok = TRUE
  /\ init_loop = FALSE /\ init_pc = "test" /\ stale = 0 /\ shown = FALSE
  /\ result = 0
  /\ jaws \in Pulses /\ order = jaws
  /\ status = [g \in Goals |-> "none"]
  /\ answer = [g \in Goals |-> NoPosition]
  /\ target = [g \in Goals |-> 0]
  /\ overlapped = [g \in Goals |-> FALSE]
  /\ pc = [g \in Goals |-> "none"]
  /\ mover = [g \in Goals |-> "none"]
  /\ is_move = [g \in Goals |-> FALSE]
  /\ curr_pos = [g \in Goals |-> 0]
  /\ last_pos = [g \in Goals |-> -MaxPos]
  /\ cnt = [g \in Goals |-> 0]
  /\ is_succeed = [g \in Goals |-> FALSE]

Next ==
  \/ JawsMove \/ Shutdown \/ InitTest \/ InitPublish
  \/ \E g \in Goals : Accept(g) \/ Cancel(g) \/ Execute(g) \/ Move(g)

\* Threads get on and calls of the SDK return.
Fairness ==
  /\ WF_vars(InitTest) /\ WF_vars(InitPublish)
  /\ \A g \in Goals : WF_vars(Execute(g)) /\ WF_vars(Move(g))

Spec == Init /\ [][Next]_vars /\ Fairness

----------------------------------------------------------------------------
(* Properties.                                                              *)

\* Reports are what conversions give, and the 0 of a new result.
Reports == {ToPosition(c) : c \in Pulses} \cup {0}

\* Every variable has its type; nothing is published for no goal.
TypeOK ==
  /\ ok \in BOOLEAN
  /\ init_loop \in BOOLEAN /\ init_pc \in {"test", "sleep", "done"}
  /\ stale \in 0..2 /\ shown \in BOOLEAN
  /\ result \in Reports
  /\ jaws \in Pulses /\ order \in Pulses
  /\ status \in [Goals -> {"none"} \cup Active \cup Terminal]
  /\ answer \in [Goals -> Reports \cup {NoPosition}]
  /\ overlapped \in [Goals -> BOOLEAN]
  /\ target \in [Goals -> IF Bio THEN Nat ELSE Pulses]
  /\ pc \in [Goals -> {"none", "begin", "read", "setup", "refuse", "launch",
                       "returned"} \cup Running]
  /\ mover \in [Goals -> {"none", "done"} \cup Moving]
  /\ is_move \in [Goals -> BOOLEAN]
  /\ curr_pos \in [Goals -> Pulses]
  /\ last_pos \in [Goals -> Pulses \cup {-MaxPos}]
  /\ cnt \in [Goals -> 0..ThresholdTimes]
  /\ is_succeed \in [Goals -> BOOLEAN]

\* xarm_driver.cpp:608-616.  The mover holds references into the frame of the
\* executing thread.  As long as the process runs, that thread does not
\* return before the mover is through with them.
FrameOutlivesMover ==
  ok => \A g \in Goals : mover[g] \in Moving => pc[g] \in Running

\* xarm_driver.cpp:628-634, 660-666.  A goal that no other goal overlapped
\* succeeds with the position its own thread read last, although the result
\* object is one for all goals and the threads of earlier goals, answered
\* before their motion ended, are still at work.
SuccessReportsOwnPosition ==
  [][\A g \in Goals :
       status[g] \in Active /\ status'[g] = "succeeded" /\ ~overlapped[g]
         => answer'[g] = ToPosition(curr_pos[g])]_vars

\* xarm_driver.cpp:495-502, 550.  The thread that publishes the position of
\* start-up overwrites joint states of a goal at most once.
OneStalePublication == stale <= 1

\* xarm_driver.cpp:558-560, 615, 620, 660.  Every accepted goal is answered, be
\* it by the exception and the destructor, as long as the process runs.
EveryGoalIsAnswered ==
  \A g \in Goals : status[g] \in Active ~> status[g] \in Terminal \/ ~ok
==============================================================================
