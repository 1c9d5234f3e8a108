--------------------------- MODULE ReplanWhenIdle ---------------------------
(***************************************************************************)
(* The planner logic plugin of the hybrid planning demo                     *)
(* (xarm_hybrid_planning/src/replan_when_idle.cpp): it reacts to the events *)
(* of MoveIt's HybridPlanningManager by asking the global planner for a new *)
(* trajectory, at most one at a time, not too often and not for ever.       *)
(*                                                                          *)
(* The manager, the two action servers and the client are external: a       *)
(* request to the global planner comes back with a result in any order, or  *)
(* never; a started local planner reports until it ends.  Time is counted   *)
(* in ticks; a time stamp of the code is kept as the age it is compared by. *)
(***************************************************************************)
EXTENDS Integers, FiniteSets

CONSTANTS
  MaxAttempts,   \* MAX_REPLAN_ATTEMPTS
  MinInterval,   \* MIN_REPLAN_INTERVAL, in ticks
  Timeout,       \* GLOBAL_REQUEST_TIMEOUT, in ticks
  Horizon,       \* bound: ticks counted since the goal was received
  MaxGoals       \* bound: goals the client sends

ASSUME ConstantsAssumption ==
  /\ MaxAttempts \in Nat \ {0} /\ MinInterval \in Nat /\ Timeout \in Nat
  /\ Horizon \in Nat /\ MaxGoals \in Nat

\* The bound on the ticks counted leaves room for every attempt.
ASSUME HorizonAssumption == Horizon >= MaxAttempts * MinInterval

VARIABLES
  local_planner_started,
  global_planning_in_flight,
  replan_attempts,
  request_age,   \* now - last_request_time_, up to MinInterval
  sent_age,      \* now - global_request_sent_at_, up to Timeout + 1
  goal,          \* goals the client has sent
  stopping,      \* manager: stop_hybrid_planning_
  answers,       \* manager: responses to the current goal, up to 2
  outstanding,   \* global planner: the age of each request it works on
  local,         \* local planner: "idle" or "running"
  sent,          \* history: requests sent for the current goal
  elapsed,       \* history: ticks since the goal was received, up to Horizon
  orderly        \* history: the goal was sent after the last one was over and
                 \* no result has come since for a request given up before

logic == <<local_planner_started, global_planning_in_flight, replan_attempts,
           request_age, sent_age>>
env   == <<goal, stopping, answers, outstanding, local>>
vars  == <<logic, env, sent, elapsed, orderly>>

Least(a, b) == IF a <= b THEN a ELSE b

\* A request is named by its goal and its number.
RequestIds == (1..MaxGoals) \X (1..MaxAttempts)
Waiting    == DOMAIN outstanding

\* A further response to the goal; one would do, a second is kept apart.
Respond == answers' = Least(answers + 1, 2)

----------------------------------------------------------------------------
(* requestGlobalPlanIfIdle()                                                *)

\* Mutants: the comparison of the watchdog turned round; no watchdog.
BugBusyReversed   == global_planning_in_flight /\ sent_age > Timeout
BugBusyNoWatchdog == global_planning_in_flight

\* A request is in flight and not given up.
Busy == global_planning_in_flight /\ sent_age <= Timeout

BugTooSoon == global_planning_in_flight /\ request_age < MinInterval

\* The last attempt was less than MIN_REPLAN_INTERVAL ago.
TooSoon == request_age < MinInterval

Exhausted(n) == n >= MaxAttempts

\* The part below the two early returns, with n attempts made before: it
\* counts the attempt and either gives up or sends the request.
\* sendGlobalPlannerAction() refuses only while the manager is stopping.
CanSend(n) == ~Exhausted(n) /\ ~stopping

Attempt(n, g, ages) ==
  /\ request_age' = 0
  /\ replan_attempts' = Least(n + 1, MaxAttempts + 1)
  /\ global_planning_in_flight' = CanSend(n)
  /\ IF CanSend(n)
     THEN /\ sent_age' = 0
          /\ outstanding' = [r \in DOMAIN ages \cup {<<g, n + 1>>} |->
                               IF r = <<g, n + 1>> THEN 0 ELSE ages[r]]
     ELSE /\ UNCHANGED sent_age
          /\ outstanding' = ages

----------------------------------------------------------------------------
(* react() to the client: HYBRID_PLANNING_REQUEST_RECEIVED.                 *)

\* Everything is reset, so neither early return applies and the manager is
\* not stopping: the request is sent.
RequestReceived ==
  /\ goal < MaxGoals
  /\ orderly' = (Waiting = {} /\ local = "idle")
  /\ goal' = goal + 1
  /\ stopping' = FALSE
  /\ answers' = 0
  /\ local_planner_started' = FALSE
  /\ replan_attempts' = 1
  /\ request_age' = 0
  /\ global_planning_in_flight' = TRUE
  /\ sent_age' = 0
  /\ outstanding' = [r \in Waiting \cup {<<goal + 1, 1>>} |->
                       IF r = <<goal + 1, 1>> THEN 0 ELSE outstanding[r]]
  /\ sent' = 1
  /\ elapsed' = 0
  /\ UNCHANGED local

\* The client cancels: stop_hybrid_planning_.
CancelRequested ==
  /\ goal > 0 /\ ~stopping /\ answers = 0
  /\ stopping' = TRUE
  /\ UNCHANGED <<logic, goal, answers, outstanding, local, sent,
                 elapsed, orderly>>

----------------------------------------------------------------------------
(* react() to the global planner.                                           *)

\* The result is that of the request in flight, which has not been given up.
Prompt(r) == outstanding[r] <= Timeout /\ r = <<goal, replan_attempts>>

Forget(r) == outstanding' = [q \in Waiting \ {r} |-> outstanding[q]]

\* GLOBAL_PLANNING_ACTION_SUCCESSFUL: the first solution starts the local
\* planner, unless sendLocalPlannerAction() refuses because of a stop.
GlobalSuccessful(r) ==
  /\ orderly' = (orderly /\ Prompt(r))
  /\ Forget(r)
  /\ global_planning_in_flight' = FALSE
  /\ local_planner_started' = TRUE
  /\ IF local_planner_started
     THEN UNCHANGED <<local, answers>>
     ELSE IF stopping
          THEN Respond /\ UNCHANGED local
          ELSE local' = "running" /\ UNCHANGED answers
  /\ UNCHANGED <<replan_attempts, request_age, sent_age, goal, stopping,
                 sent, elapsed>>

BugAbortIsFatal(r) ==
  /\ orderly' = (orderly /\ Prompt(r))
  /\ Forget(r)
  /\ global_planning_in_flight' = FALSE
  /\ Respond
  /\ UNCHANGED <<local_planner_started, replan_attempts, request_age, sent_age, goal,
                 stopping, local, sent, elapsed>>

\* GLOBAL_PLANNING_ACTION_ABORTED or _CANCELED: fatal only before execution.
GlobalAborted(r) ==
  /\ orderly' = (orderly /\ Prompt(r))
  /\ Forget(r)
  /\ global_planning_in_flight' = FALSE
  /\ IF local_planner_started THEN UNCHANGED answers ELSE Respond
  /\ UNCHANGED <<local_planner_started, replan_attempts, request_age, sent_age, goal,
                 stopping, local, sent, elapsed>>

\* The result never comes, or is a rejection (default:), which is ignored.
ResultLost(r) ==
  /\ Forget(r)
  /\ UNCHANGED <<logic, goal, stopping, answers, local, sent, elapsed,
                 orderly>>

----------------------------------------------------------------------------
(* react() to the local planner.                                            *)

\* COLLISION_AHEAD or LOCAL_PLANNER_STUCK, which the local planner repeats.
FeedbackIgnored ==
  /\ local = "running"
  /\ Busy \/ TooSoon
  /\ global_planning_in_flight' = Busy     \* the watchdog may have let go of it
  /\ UNCHANGED <<local_planner_started, replan_attempts, request_age, sent_age, env,
                 sent, elapsed, orderly>>

FeedbackReplans ==
  /\ local = "running"
  /\ ~Busy /\ ~TooSoon
  /\ Attempt(replan_attempts, goal, outstanding)
  /\ IF CanSend(replan_attempts)
     THEN sent' = Least(sent + 1, MaxAttempts + 1) /\ UNCHANGED answers
     ELSE Respond /\ UNCHANGED sent
  /\ UNCHANGED <<local_planner_started, goal, stopping, local, elapsed, orderly>>

\* LOCAL_PLANNING_ACTION_SUCCESSFUL and _ABORTED respond, _CANCELED does not.
LocalEnds ==
  /\ local = "running"
  /\ local' = "idle"
  /\ Respond \/ UNCHANGED answers
  /\ UNCHANGED <<logic, goal, stopping, outstanding, sent, elapsed, orderly>>

----------------------------------------------------------------------------
Tick ==
  /\ request_age' = Least(request_age + 1, MinInterval)
  /\ sent_age' = Least(sent_age + 1, Timeout + 1)
  /\ outstanding' = [r \in Waiting |-> Least(outstanding[r] + 1, Timeout + 1)]
  /\ elapsed' = Least(elapsed + 1, Horizon)
  /\ UNCHANGED <<local_planner_started, global_planning_in_flight, replan_attempts, goal,
                 stopping, answers, local, sent, orderly>>

Init ==
  /\ local_planner_started = FALSE
  /\ global_planning_in_flight = FALSE
  /\ replan_attempts = 0
  /\ request_age = MinInterval
  /\ sent_age = Timeout + 1
  /\ goal = 0
  /\ stopping = FALSE
  /\ answers = 0
  /\ outstanding = [r \in {} |-> 0]
  /\ local = "idle"
  /\ sent = 0
  /\ elapsed = 0
  /\ orderly = TRUE

Feedback == FeedbackIgnored \/ FeedbackReplans

Next ==
  \/ RequestReceived \/ CancelRequested
  \/ \E r \in Waiting : GlobalSuccessful(r) \/ GlobalAborted(r) \/ ResultLost(r)
  \/ Feedback \/ LocalEnds
  \/ Tick

Spec == Init /\ [][Next]_vars

\* Time passes, and a local planner that does not get on says so again and
\* again (LOCAL_PLANNER_STUCK re-arms itself, replan_when_idle.h lines 7-9).
FairSpec == Spec /\ WF_vars(Tick) /\ WF_vars(Feedback)

----------------------------------------------------------------------------
(* Properties.                                                              *)

\* The values the state takes.
TypeOK ==
  /\ {local_planner_started, global_planning_in_flight, stopping} \subseteq BOOLEAN
  /\ replan_attempts \in 0..MaxAttempts + 1
  /\ request_age \in 0..MinInterval /\ sent_age \in 0..Timeout + 1
  /\ goal \in 0..MaxGoals /\ answers \in 0..2
  /\ Waiting \subseteq RequestIds
  /\ outstanding \in [Waiting -> 0..Timeout + 1]
  /\ local \in {"idle", "running"}
  /\ sent \in 0..MaxAttempts + 1 /\ elapsed \in 0..Horizon
  /\ orderly \in BOOLEAN

\* However the events come, a goal costs at most MAX_REPLAN_ATTEMPTS global
\* plans and they are spread over time: the n-th is not sent before n - 1
\* intervals have gone by ("sin esto se gastan todos los reintentos en un
\* segundo", lines 52-54).
RetriesAreSpread ==
  /\ sent <= MaxAttempts
  /\ sent > 0 => (sent - 1) * MinInterval <= elapsed

\* "Exclusion mutua" (lines 45-46): as long as goals do not overlap and no
\* result comes late, no request is sent while one that has not been given up
\* is being worked on, so none preempts another.
NoPreemption ==
  [][orderly' => \A r \in Waiting' \ Waiting :
                   \A q \in Waiting : outstanding[q] > Timeout]_vars

\* Then nothing but giving up answers a goal twice: a second response needs
\* the attempts used up or a cancellation (lines 62-73, 106-135).
OneAnswerUnlessGivenUp ==
  orderly /\ answers > 1 => replan_attempts > MaxAttempts \/ stopping

\* "para que la demo termine siempre" (replan_when_idle.h, lines 17-18): once
\* the local planner runs, the goal is answered or the local planner ends,
\* even if every request is lost.
GoalEnds == local = "running" ~> answers > 0 \/ local = "idle"

\* "Pasado este tiempo se considera perdido el pedido y se permite uno nuevo"
\* (replan_when_idle.h, line 72): a lost request does not block for ever...
Blocked == global_planning_in_flight /\ Waiting = {}
LostRequestIsGivenUp == Blocked ~> ~Blocked

\* ... which holds while the local planner runs and its events keep coming.
LostRequestIsGivenUpInExecution == Blocked /\ local = "running" ~> ~Blocked \/ local = "idle"

=============================================================================
