------------------------ MODULE ReplanWhenIdle_proof ------------------------
(***************************************************************************)
(* Proofs about ReplanWhenIdle, for every number of attempts, interval,     *)
(* timeout and horizon.                                                     *)
(***************************************************************************)
EXTENDS ReplanWhenIdle, TLAPS

USE ConstantsAssumption

\* Nothing happens before the first goal.
TypeInv ==
  /\ TypeOK
  /\ goal = 0 => local = "idle" /\ Waiting = {}

LEMMA LeastType ==
  ASSUME NEW m \in Nat, NEW n \in 0..m
  PROVE  Least(n + 1, m) \in 0..m
BY DEF Least

\* The ages of the requests stay ages when requests leave, ...
LEMMA ForgetType ==
  ASSUME TypeOK, NEW r \in Waiting, Forget(r)
  PROVE  /\ Waiting' = Waiting \ {r}
         /\ Waiting' \subseteq RequestIds
         /\ outstanding' \in [Waiting' -> 0..Timeout + 1]
         /\ \A q \in Waiting' : outstanding'[q] = outstanding[q]
BY DEF Forget, TypeOK, Waiting

\* ... and when one is sent.
LEMMA SendType ==
  ASSUME TypeOK, NEW r \in RequestIds,
         outstanding' = [q \in Waiting \cup {r} |-> IF q = r THEN 0 ELSE outstanding[q]]
  PROVE  /\ Waiting' = Waiting \cup {r}
         /\ Waiting' \subseteq RequestIds
         /\ outstanding' \in [Waiting' -> 0..Timeout + 1]
         /\ outstanding'[r] = 0
         /\ \A q \in Waiting' : q # r => outstanding'[q] = outstanding[q]
<1>1. Waiting' = Waiting \cup {r}
  BY DEF Waiting
<1>2. \A q \in Waiting : outstanding[q] \in 0..Timeout + 1
  BY DEF TypeOK
<1> QED
  BY <1>1, <1>2 DEF TypeOK, Waiting

LEMMA TypeInit == Init => TypeInv
<1> SUFFICES ASSUME Init PROVE TypeInv
  OBVIOUS
<1>1. Waiting = {}
  BY DEF Init, Waiting
<1>2. outstanding \in [Waiting -> 0..Timeout + 1]
  BY <1>1 DEF Init
<1>3. {local_planner_started, global_planning_in_flight, stopping} \subseteq BOOLEAN
  BY DEF Init
<1>4. /\ replan_attempts \in 0..MaxAttempts + 1
      /\ request_age \in 0..MinInterval /\ sent_age \in 0..Timeout + 1
      /\ goal \in 0..MaxGoals /\ answers \in 0..2
      /\ sent \in 0..MaxAttempts + 1 /\ elapsed \in 0..Horizon
  BY DEF Init
<1>5. Waiting \subseteq RequestIds
  BY <1>1
<1> QED
  BY <1>1, <1>2, <1>3, <1>4, <1>5 DEF Init, TypeInv, TypeOK

LEMMA TypeStep == TypeInv /\ [Next]_vars => TypeInv'
<1> SUFFICES ASSUME TypeInv, [Next]_vars PROVE TypeInv'
  OBVIOUS
<1>0. TypeOK
  BY DEF TypeInv
<1>1. CASE RequestReceived
  <2>1. goal' \in 1..MaxGoals /\ <<goal + 1, 1>> \in RequestIds
    BY <1>0, <1>1 DEF RequestReceived, TypeOK, RequestIds
  <2>2. Waiting' \subseteq RequestIds /\ outstanding' \in [Waiting' -> 0..Timeout + 1]
    BY <1>0, <1>1, <2>1, SendType DEF RequestReceived
  <2>3. {local_planner_started, global_planning_in_flight, stopping}' \subseteq BOOLEAN
    BY <1>1 DEF RequestReceived
  <2> QED
    BY <1>0, <1>1, <2>1, <2>2, <2>3 DEF RequestReceived, TypeInv, TypeOK
<1>2. CASE CancelRequested
  BY <1>2 DEF CancelRequested, TypeInv, TypeOK, Waiting, logic
<1>3. ASSUME NEW r \in Waiting, GlobalSuccessful(r) PROVE TypeInv'
  <2>1. Waiting' \subseteq RequestIds /\ outstanding' \in [Waiting' -> 0..Timeout + 1]
    BY <1>0, <1>3, ForgetType DEF GlobalSuccessful
  <2>2. goal # 0
    BY <1>3 DEF TypeInv
  <2>3. goal' # 0
    BY <1>3, <2>2 DEF GlobalSuccessful
  <2>4. {local_planner_started, global_planning_in_flight, stopping}' \subseteq BOOLEAN
    BY <1>0, <1>3 DEF GlobalSuccessful, TypeOK
  <2> QED
    BY <1>0, <1>3, <2>1, <2>3, <2>4 DEF GlobalSuccessful, Respond, Least, TypeInv, TypeOK
<1>4. ASSUME NEW r \in Waiting, GlobalAborted(r) PROVE TypeInv'
  <2>1. Waiting' \subseteq RequestIds /\ outstanding' \in [Waiting' -> 0..Timeout + 1]
    BY <1>0, <1>4, ForgetType DEF GlobalAborted
  <2>2. goal # 0
    BY <1>4 DEF TypeInv
  <2>3. goal' # 0
    BY <1>4, <2>2 DEF GlobalAborted
  <2>4. {local_planner_started, global_planning_in_flight, stopping}' \subseteq BOOLEAN
    BY <1>0, <1>4 DEF GlobalAborted, TypeOK
  <2> QED
    BY <1>0, <1>4, <2>1, <2>3, <2>4 DEF GlobalAborted, Respond, Least, TypeInv, TypeOK
<1>5. ASSUME NEW r \in Waiting, ResultLost(r) PROVE TypeInv'
  <2>1. Waiting' \subseteq RequestIds /\ outstanding' \in [Waiting' -> 0..Timeout + 1]
    BY <1>0, <1>5, ForgetType DEF ResultLost
  <2>2. goal # 0
    BY <1>5 DEF TypeInv
  <2>3. goal' # 0
    BY <1>5, <2>2 DEF ResultLost
  <2> QED
    BY <1>0, <1>5, <2>1, <2>3 DEF ResultLost, TypeInv, TypeOK, logic
<1>6. CASE FeedbackIgnored
  BY <1>6 DEF FeedbackIgnored, Busy, TypeInv, TypeOK, Waiting, env
<1>7. CASE FeedbackReplans
  <2>1. goal # 0 /\ goal' = goal
    BY <1>7 DEF FeedbackReplans, TypeInv
  <2>2. Waiting' \subseteq RequestIds /\ outstanding' \in [Waiting' -> 0..Timeout + 1]
    <3>1. CASE CanSend(replan_attempts)
      <4>1. <<goal, replan_attempts + 1>> \in RequestIds
        BY <1>0, <2>1, <3>1 DEF CanSend, Exhausted, TypeOK, RequestIds
      <4> QED
        BY <1>0, <1>7, <3>1, <4>1, SendType DEF FeedbackReplans, Attempt, Waiting
    <3>2. CASE ~CanSend(replan_attempts)
      BY <1>0, <1>7, <3>2 DEF FeedbackReplans, Attempt, TypeOK, Waiting
    <3> QED
      BY <3>1, <3>2
  <2>3. CanSend(replan_attempts) \in BOOLEAN
    BY <1>0 DEF CanSend, Exhausted, TypeOK
  <2> QED
    BY <1>0, <1>7, <2>1, <2>2, <2>3
    DEF FeedbackReplans, Attempt, Respond, Least, TypeInv, TypeOK
<1>8. CASE LocalEnds
  BY <1>8 DEF LocalEnds, Respond, Least, TypeInv, TypeOK, Waiting, logic
<1>9. CASE Tick
  <2>1. Waiting' = Waiting
    BY <1>9 DEF Tick, Waiting
  <2>2. outstanding' \in [Waiting' -> 0..Timeout + 1]
    BY <1>0, <1>9, <2>1 DEF Tick, TypeOK, Least
  <2> QED
    BY <1>0, <1>9, <2>1, <2>2 DEF Tick, TypeInv, TypeOK, Least
<1>10. CASE UNCHANGED vars
  BY <1>10 DEF vars, logic, env, TypeInv, TypeOK, Waiting
<1> QED
  BY <1>1, <1>2, <1>3, <1>4, <1>5, <1>6, <1>7, <1>8, <1>9, <1>10 DEF Next, Feedback

\* The state keeps its type: no request has a number beyond the last attempt.
THEOREM TypeCorrect == Spec => []TypeOK
<1>1. TypeInv => TypeOK
  BY DEF TypeInv
<1> QED
  BY <1>1, TypeInit, TypeStep, PTL DEF Spec

----------------------------------------------------------------------------
(* RetriesAreSpread.                                                        *)

\* A request is an attempt, and the interval that separates the next request
\* from the last is the age of the last attempt.
SpreadInv ==
  /\ sent <= MaxAttempts /\ sent <= replan_attempts
  /\ sent > 0 => (sent - 1) * MinInterval + request_age <= elapsed

LEMMA MoreIntervals ==
  ASSUME NEW k \in Nat, k < MaxAttempts
  PROVE  /\ k * MinInterval \in Nat
         /\ k * MinInterval + MinInterval = (k + 1) * MinInterval
         /\ (k + 1) * MinInterval <= Horizon
<1>1. /\ k * MinInterval \in Nat
      /\ k * MinInterval + MinInterval = (k + 1) * MinInterval
  OBVIOUS
<1>2. (k + 1) * MinInterval <= MaxAttempts * MinInterval
  OBVIOUS
<1> QED
  BY <1>1, <1>2, HorizonAssumption

LEMMA SpreadInit == Init => SpreadInv
BY DEF Init, SpreadInv

LEMMA SpreadStep == TypeOK /\ SpreadInv /\ [Next]_vars => SpreadInv'
<1> SUFFICES ASSUME TypeOK, SpreadInv, [Next]_vars PROVE SpreadInv'
  OBVIOUS
<1>0. /\ sent \in Nat /\ replan_attempts \in Nat /\ elapsed \in 0..Horizon
      /\ request_age \in 0..MinInterval
  BY DEF TypeOK
<1>1. CASE RequestReceived
  <2>1. sent' = 1 /\ replan_attempts' = 1 /\ request_age' = 0 /\ elapsed' = 0
    BY <1>1 DEF RequestReceived
  <2> QED
    BY <2>1 DEF SpreadInv
<1>2. CASE FeedbackReplans
  <2>1. request_age = MinInterval /\ request_age' = 0 /\ elapsed' = elapsed
        /\ replan_attempts' = Least(replan_attempts + 1, MaxAttempts + 1)
    BY <1>0, <1>2 DEF FeedbackReplans, TooSoon, Attempt
  <2>2. CASE CanSend(replan_attempts)
    <3>1. replan_attempts < MaxAttempts
      BY <1>0, <2>2 DEF CanSend, Exhausted
    <3>2. sent' = sent + 1 /\ sent' <= MaxAttempts /\ sent' <= replan_attempts'
      BY <1>0, <1>2, <2>1, <2>2, <3>1 DEF FeedbackReplans, SpreadInv, Least
    <3>3. sent * MinInterval <= elapsed
      <4>1. CASE sent = 0
        BY <1>0, <4>1
      <4>2. CASE sent > 0
        <5>1. (sent - 1) * MinInterval + MinInterval = sent * MinInterval
          BY <1>0, <4>2, <3>2
        <5> QED
          BY <2>1, <4>2, <5>1 DEF SpreadInv
      <4> QED
        BY <1>0, <4>1, <4>2
    <3>4. (sent' - 1) * MinInterval + request_age' <= elapsed'
      <4>1. sent' - 1 = sent
        BY <1>0, <3>2
      <4>2. sent * MinInterval \in Nat
        BY <1>0
      <4> QED
        BY <1>0, <2>1, <3>3, <4>1, <4>2
    <3> QED
      BY <3>2, <3>4 DEF SpreadInv
  <2>3. CASE ~CanSend(replan_attempts)
    <3>1. sent' = sent
      BY <1>2, <2>3 DEF FeedbackReplans
    <3>2. sent' <= MaxAttempts /\ sent' <= replan_attempts'
      BY <1>0, <2>1, <3>1 DEF SpreadInv, Least
    <3>3. ASSUME sent > 0 PROVE (sent - 1) * MinInterval + 0 <= elapsed
      <4>1. (sent - 1) * MinInterval \in Nat
        BY <1>0, <3>3
      <4> QED
        BY <1>0, <3>3, <4>1 DEF SpreadInv
    <3> QED
      BY <2>1, <3>1, <3>2, <3>3 DEF SpreadInv
  <2> QED
    BY <2>2, <2>3
<1>3. CASE Tick
  <2>1. /\ sent' = sent /\ replan_attempts' = replan_attempts
        /\ request_age' = Least(request_age + 1, MinInterval)
        /\ elapsed' = Least(elapsed + 1, Horizon)
    BY <1>3 DEF Tick
  <2>2. ASSUME sent > 0 PROVE (sent - 1) * MinInterval + request_age' <= elapsed'
    <3> DEFINE before == (sent - 1) * MinInterval
    <3>1. before \in Nat /\ before + MinInterval <= Horizon
      <4>1. sent - 1 \in Nat /\ sent - 1 < MaxAttempts
        BY <1>0, <2>2 DEF SpreadInv
      <4> QED
        BY <4>1, MoreIntervals
    <3>2. before + request_age <= elapsed
      BY <2>2 DEF SpreadInv
    <3> HIDE DEF before
    <3>3. before + Least(request_age + 1, MinInterval) <= Least(elapsed + 1, Horizon)
      BY <1>0, <3>1, <3>2 DEF Least
    <3> QED
      BY <2>1, <3>3 DEF before
  <2> QED
    BY <2>1, <2>2 DEF SpreadInv
<1>4. CASE UNCHANGED <<sent, replan_attempts, request_age, elapsed>>
  BY <1>4 DEF SpreadInv
<1>5. \/ RequestReceived \/ FeedbackReplans \/ Tick
      \/ UNCHANGED <<sent, replan_attempts, request_age, elapsed>>
  BY DEF Next, Feedback, CancelRequested, GlobalSuccessful, GlobalAborted, ResultLost,
         FeedbackIgnored, LocalEnds, vars, logic
<1> QED
  BY <1>1, <1>2, <1>3, <1>4, <1>5

\* However the events come, the requests of a goal are bounded in number and
\* spread over time.
THEOREM RetriesSpread == Spec => []RetriesAreSpread
<1>1. Init => TypeInv /\ SpreadInv
  BY TypeInit, SpreadInit
<1>2. TypeInv /\ SpreadInv /\ [Next]_vars => (TypeInv /\ SpreadInv)'
  BY TypeStep, SpreadStep DEF TypeInv
<1>3. TypeInv /\ SpreadInv => RetriesAreSpread
  <2> SUFFICES ASSUME TypeInv, SpreadInv, sent > 0
               PROVE  (sent - 1) * MinInterval <= elapsed
    BY DEF SpreadInv, RetriesAreSpread
  <2>1. sent - 1 \in Nat /\ request_age \in Nat /\ elapsed \in Nat
    BY DEF TypeInv, TypeOK
  <2>2. (sent - 1) * MinInterval \in Nat
    BY <2>1
  <2> QED
    BY <2>1, <2>2 DEF SpreadInv
<1> QED
  BY <1>1, <1>2, <1>3, PTL DEF Spec

----------------------------------------------------------------------------
(* NoPreemption and OneAnswerUnlessGivenUp, where results are prompt and    *)
(* goals do not overlap.                                                    *)

GivenUp == replan_attempts > MaxAttempts \/ stopping

\* Of the requests worked on, only the last is not given up, the flag is up
\* for it and its age is the one the watchdog looks at.
FlightInv ==
  \A q \in Waiting : outstanding[q] <= Timeout =>
    /\ global_planning_in_flight
    /\ q = <<goal, replan_attempts>>
    /\ outstanding[q] = sent_age

\* A local planner that runs has its solution; until something answers the
\* goal and after that nothing is left that could.
AnswerInv ==
  /\ local = "running" => local_planner_started
  /\ answers > 1 => GivenUp
  /\ answers > 0 /\ ~GivenUp =>
       /\ local = "idle"
       /\ ~local_planner_started => \A q \in Waiting : outstanding[q] > Timeout

LEMMA AnswerInit == Init => FlightInv /\ AnswerInv
BY DEF Init, FlightInv, AnswerInv, Waiting

\* What an orderly step leaves behind, if no goal is received: it starts from
\* an orderly state.
LEMMA OrderlyBefore ==
  [Next]_vars /\ ~RequestReceived /\ orderly' => orderly
BY DEF Next, vars, Feedback, CancelRequested, GlobalSuccessful, GlobalAborted,
       ResultLost, FeedbackIgnored, FeedbackReplans, LocalEnds, Tick

\* An orderly goal finds nothing of the last one.
LEMMA OrderlyGoal ==
  TypeInv /\ RequestReceived /\ orderly' => FlightInv' /\ AnswerInv'
<1> SUFFICES ASSUME TypeInv, RequestReceived, orderly'
             PROVE  FlightInv' /\ AnswerInv'
  OBVIOUS
<1>0. TypeOK
  BY DEF TypeInv
<1>1. <<goal + 1, 1>> \in RequestIds
  BY <1>0 DEF RequestReceived, TypeOK, RequestIds
<1>a. Waiting = {} /\ local' = "idle"
  BY Zenon DEF RequestReceived
<1>2. Waiting' = {<<goal + 1, 1>>} /\ outstanding'[<<goal + 1, 1>>] = 0
  BY <1>0, <1>1, <1>a, SendType DEF RequestReceived
<1>3. FlightInv'
  BY <1>2 DEF RequestReceived, FlightInv
<1>4. AnswerInv'
  BY <1>a DEF RequestReceived, AnswerInv
<1> QED
  BY <1>3, <1>4

LEMMA FlightStep ==
  TypeInv /\ FlightInv /\ [Next]_vars /\ ~RequestReceived /\ orderly' => FlightInv'
<1> SUFFICES ASSUME TypeInv, FlightInv, [Next]_vars, ~RequestReceived, orderly'
             PROVE  FlightInv'
  OBVIOUS
<1>0. TypeOK /\ \A q \in Waiting : outstanding[q] \in 0..Timeout + 1
  BY DEF TypeInv, TypeOK
<1>2. CASE CancelRequested
  BY <1>2 DEF CancelRequested, FlightInv, Waiting, logic
<1>3. ASSUME NEW r \in Waiting, Forget(r), Prompt(r) PROVE FlightInv'
  <2>1. /\ Waiting' = Waiting \ {r}
        /\ \A q \in Waiting' : outstanding'[q] = outstanding[q]
    BY <1>0, <1>3, ForgetType
  <2>2. \A q \in Waiting' : outstanding[q] > Timeout
    BY <1>0, <1>3, <2>1 DEF FlightInv, Prompt
  <2> QED
    BY <1>0, <2>1, <2>2 DEF FlightInv
<1>4. ASSUME NEW r \in Waiting, ResultLost(r) PROVE FlightInv'
  <2>1. /\ Waiting' = Waiting \ {r}
        /\ \A q \in Waiting' : outstanding'[q] = outstanding[q]
    BY <1>0, <1>4, ForgetType DEF ResultLost
  <2> QED
    BY <1>4, <2>1 DEF ResultLost, FlightInv, logic
<1>5. CASE FeedbackIgnored
  <2>1. Waiting' = Waiting /\ outstanding' = outstanding
    BY <1>5 DEF FeedbackIgnored, Waiting, env
  <2>2. \A q \in Waiting : outstanding[q] <= Timeout => Busy
    BY DEF FlightInv, Busy
  <2> QED
    BY <1>5, <2>1, <2>2 DEF FeedbackIgnored, FlightInv, env
<1>6. CASE FeedbackReplans
  <2>1. \A q \in Waiting : outstanding[q] > Timeout
    BY <1>0, <1>6 DEF FeedbackReplans, FlightInv, Busy
  <2>2. CASE CanSend(replan_attempts)
    <3> DEFINE r == <<goal, replan_attempts + 1>>
    <3>0. goal # 0 /\ goal' = goal /\ sent_age' = 0
      BY <1>6, <2>2 DEF FeedbackReplans, Attempt, TypeInv
    <3>1. replan_attempts' = replan_attempts + 1
      BY <1>0, <1>6, <2>2
      DEF FeedbackReplans, Attempt, TypeOK, CanSend, Exhausted, Least
    <3>5. global_planning_in_flight'
      BY <1>6, <2>2 DEF FeedbackReplans, Attempt
    <3>2. r \in RequestIds
      BY <1>0, <3>0, <2>2 DEF CanSend, Exhausted, TypeOK, RequestIds
    <3>3. outstanding' = [q \in Waiting \cup {r} |-> IF q = r THEN 0 ELSE outstanding[q]]
      BY <1>6, <2>2 DEF FeedbackReplans, Attempt, Waiting
    <3> HIDE DEF r
    <3>4. /\ Waiting' = Waiting \cup {r} /\ outstanding'[r] = 0
          /\ \A q \in Waiting' : q # r => outstanding'[q] = outstanding[q]
      BY <1>0, <3>2, <3>3, SendType
    <3> QED
      BY <1>0, <2>1, <3>0, <3>1, <3>4, <3>5 DEF FlightInv, r
  <2>3. CASE ~CanSend(replan_attempts)
    <3>1. Waiting' = Waiting /\ outstanding' = outstanding
      BY <1>6, <2>3 DEF FeedbackReplans, Attempt, Waiting
    <3> QED
      BY <1>0, <2>1, <3>1 DEF FlightInv
  <2> QED
    BY <2>2, <2>3
<1>7. CASE LocalEnds
  BY <1>7 DEF LocalEnds, FlightInv, Waiting, logic
<1>8. CASE Tick
  <2>1. /\ Waiting' = Waiting
        /\ \A q \in Waiting : outstanding'[q] = Least(outstanding[q] + 1, Timeout + 1)
        /\ sent_age' = Least(sent_age + 1, Timeout + 1)
    BY <1>8 DEF Tick, Waiting
  <2> SUFFICES ASSUME NEW q \in Waiting, outstanding'[q] <= Timeout
               PROVE  /\ global_planning_in_flight'
                      /\ q = <<goal, replan_attempts>>'
                      /\ outstanding'[q] = sent_age'
    BY <2>1 DEF FlightInv
  <2>2. outstanding[q] <= Timeout
    BY <1>0, <2>1 DEF Least
  <2> QED
    BY <1>8, <2>1, <2>2 DEF Tick, FlightInv
<1>9. CASE UNCHANGED vars
  BY <1>9 DEF vars, logic, env, FlightInv, Waiting
<1> QED
  BY <1>2, <1>3, <1>4, <1>5, <1>6, <1>7, <1>8, <1>9
  DEF Next, Feedback, GlobalSuccessful, GlobalAborted

LEMMA NoPreemptionStep ==
  TypeInv /\ (orderly => FlightInv) /\ [Next]_vars
    => [orderly' => \A r \in Waiting' \ Waiting :
                      \A q \in Waiting : outstanding[q] > Timeout]_vars
<1> SUFFICES ASSUME TypeInv, orderly => FlightInv, Next, orderly',
                    NEW r \in Waiting' \ Waiting, NEW q \in Waiting
             PROVE  outstanding[q] > Timeout
  OBVIOUS
<1>0. TypeOK /\ outstanding[q] \in 0..Timeout + 1
  BY DEF TypeInv, TypeOK
<1>1. RequestReceived \/ FeedbackReplans
  <2>1. \A p \in Waiting : Forget(p) => Waiting' \subseteq Waiting
    BY DEF Forget, Waiting
  <2>2. CASE UNCHANGED outstanding
    BY <2>2 DEF Waiting
  <2>3. CASE Tick
    BY <2>3 DEF Tick, Waiting
  <2> QED
    BY <2>1, <2>2, <2>3
    DEF Next, Feedback, CancelRequested, GlobalSuccessful, GlobalAborted, ResultLost,
        FeedbackIgnored, LocalEnds, env
<1>2. CASE RequestReceived
  BY <1>2 DEF RequestReceived
<1>3. CASE FeedbackReplans
  BY <1>0, <1>3 DEF FeedbackReplans, FlightInv, Busy
<1> QED
  BY <1>1, <1>2, <1>3

LEMMA OrderlyInit == Init => TypeInv /\ (orderly => FlightInv /\ AnswerInv)
BY TypeInit, AnswerInit

LEMMA AnswerStep ==
  TypeInv /\ FlightInv /\ AnswerInv /\ [Next]_vars /\ ~RequestReceived /\ orderly'
    => AnswerInv'
<1> SUFFICES ASSUME TypeInv, FlightInv, AnswerInv, [Next]_vars,
                    ~RequestReceived, orderly'
             PROVE  AnswerInv'
  OBVIOUS
<1>0. /\ TypeOK
      /\ answers \in 0..2 /\ replan_attempts \in 0..MaxAttempts + 1
      /\ stopping \in BOOLEAN /\ local_planner_started \in BOOLEAN
      /\ \A q \in Waiting : outstanding[q] \in 0..Timeout + 1
  BY DEF TypeInv, TypeOK
<1>2. CASE CancelRequested
  BY <1>2 DEF CancelRequested, AnswerInv, GivenUp, Waiting, logic
<1>3. ASSUME NEW r \in Waiting, GlobalSuccessful(r) PROVE AnswerInv'
  BY <1>0, <1>3 DEF GlobalSuccessful, Prompt, Respond, Least, AnswerInv, GivenUp
<1>4. ASSUME NEW r \in Waiting, GlobalAborted(r) PROVE AnswerInv'
  <2>1. /\ Waiting' = Waiting \ {r}
        /\ \A q \in Waiting' : outstanding'[q] = outstanding[q]
    BY <1>0, <1>4, ForgetType DEF GlobalAborted
  <2>2. Prompt(r)
    BY <1>4 DEF GlobalAborted
  <2>3. \A q \in Waiting' : outstanding'[q] > Timeout
    BY <1>0, <2>1, <2>2 DEF FlightInv, Prompt
  <2>4. answers > 0 /\ ~GivenUp => local_planner_started
    BY <1>0, <2>2 DEF AnswerInv, Prompt
  <2>5. CASE local_planner_started
    BY <1>4, <2>3, <2>5 DEF GlobalAborted, AnswerInv, GivenUp
  <2>6. CASE ~local_planner_started
    <3>0. local = "idle" /\ (answers > 0 => GivenUp)
      BY <2>4, <2>6, <1>0 DEF AnswerInv, TypeOK
    <3>1. local = "idle" /\ local' = local /\ (answers > 0 => GivenUp)
      BY <1>4, <3>0 DEF GlobalAborted
    <3>2. answers' = Least(answers + 1, 2) /\ GivenUp' = GivenUp
      BY <1>4, <2>6 DEF GlobalAborted, Respond, GivenUp
    <3>3. answers' > 1 => GivenUp'
      BY <1>0, <3>1, <3>2 DEF Least
    <3> QED
      BY <2>3, <3>1, <3>3 DEF AnswerInv
  <2> QED
    BY <2>5, <2>6
<1>5. ASSUME NEW r \in Waiting, ResultLost(r) PROVE AnswerInv'
  <2>1. /\ Waiting' = Waiting \ {r}
        /\ \A q \in Waiting' : outstanding'[q] = outstanding[q]
    BY <1>0, <1>5, ForgetType DEF ResultLost
  <2> QED
    BY <1>5, <2>1 DEF ResultLost, AnswerInv, GivenUp, logic
<1>6. CASE FeedbackIgnored
  BY <1>6 DEF FeedbackIgnored, AnswerInv, GivenUp, Waiting, env
<1>7. CASE FeedbackReplans
  <2>1. local = "running" /\ local' = "running" /\ local_planner_started
        /\ local_planner_started' = local_planner_started /\ stopping' = stopping
    BY <1>7 DEF FeedbackReplans, AnswerInv
  <2>2. CASE CanSend(replan_attempts)
    BY <1>0, <1>7, <2>1, <2>2
    DEF FeedbackReplans, Attempt, CanSend, Exhausted, Least, AnswerInv, GivenUp
  <2>3. CASE ~CanSend(replan_attempts)
    <3>1. GivenUp'
      BY <1>0, <1>7, <2>1, <2>3
      DEF FeedbackReplans, Attempt, CanSend, Exhausted, Least, GivenUp
    <3> QED
      BY <2>1, <3>1 DEF AnswerInv
  <2> QED
    BY <2>2, <2>3
<1>8. CASE LocalEnds
  BY <1>0, <1>8 DEF LocalEnds, Respond, Least, AnswerInv, GivenUp, Waiting, logic
<1>9. CASE Tick
  <2>1. Waiting' = Waiting
    BY <1>9 DEF Tick, Waiting
  <2>2. \A q \in Waiting : outstanding[q] > Timeout => outstanding'[q] > Timeout
    BY <1>0, <1>9 DEF Tick, Least
  <2> QED
    BY <1>9, <2>1, <2>2 DEF Tick, AnswerInv, GivenUp
<1>10. CASE UNCHANGED vars
  BY <1>10 DEF vars, logic, env, AnswerInv, GivenUp, Waiting
<1> QED
  BY <1>2, <1>3, <1>4, <1>5, <1>6, <1>7, <1>8, <1>9, <1>10 DEF Next, Feedback

LEMMA OrderlyStep ==
  TypeInv /\ (orderly => FlightInv /\ AnswerInv) /\ [Next]_vars
    => (TypeInv /\ (orderly => FlightInv /\ AnswerInv))'
BY TypeStep, OrderlyBefore, OrderlyGoal, FlightStep, AnswerStep

\* "Exclusion mutua" (lines 45-46): as long as results come before their
\* request is given up, no request preempts another, however many feedback
\* events ask for one.
THEOREM MutualExclusion == Spec => NoPreemption
<1>1. TypeInv /\ (orderly => FlightInv /\ AnswerInv) /\ [Next]_vars
      => [orderly' => \A r \in Waiting' \ Waiting :
                        \A q \in Waiting : outstanding[q] > Timeout]_vars
  BY NoPreemptionStep
<1> QED
  BY OrderlyInit, OrderlyStep, <1>1, PTL DEF Spec, NoPreemption

\* Then also no goal is answered twice, unless it was cancelled or the
\* attempts are used up (lines 62-73, 106-135).
THEOREM OneAnswer == Spec => []OneAnswerUnlessGivenUp
<1>1. (orderly => FlightInv /\ AnswerInv) => OneAnswerUnlessGivenUp
  BY DEF AnswerInv, GivenUp, OneAnswerUnlessGivenUp
<1> QED
  BY OrderlyInit, OrderlyStep, <1>1, PTL DEF Spec

=============================================================================
