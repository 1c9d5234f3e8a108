------------------------------- MODULE HybridDemo -------------------------------
(***************************************************************************)
(* xarm_scripts/hybrid_planning_demo.py: the client of the hybrid planner   *)
(* that changes the world while its goal is carried out.  It is one thread  *)
(* that spins; a callback that waits for a service keeps all the others     *)
(* out, the service's answer included, until it gives up waiting.           *)
(***************************************************************************)
EXTENDS Sequences, Naturals, FiniteSets

CONSTANT MaxRuns        \* bound: how often the demo is run

ASSUME HybridDemoAssumption == MaxRuns \in Nat \ {0}

VARIABLES
  demo,           \* the step run() is at, "off" before and "ended" after
  runs,           \* how often it was run
  answer,         \* run() waits for the scene service's answer
  in_callback,    \* on_global_solution waits for it
  surprise_sent,
  walls,          \* the demo's walls in move_group's scene
  updates,        \* scene updates that move_group has not applied yet
  hybrid,         \* the planner's goal: "none" | "running" | "over"
  solution,       \* a global solution is in the queue of the subscription
  clean           \* history: this run is the first, or has sent its clearing

demoVars == <<demo, runs, answer, in_callback, surprise_sent, walls, updates, hybrid, solution,
              clean>>
planner  == <<hybrid, solution>>
scene    == <<walls, updates, clean>>

Updates == {"clear", "static", "swap"}

\* The thread is free to run callbacks and to go on in run().
Free == ~in_callback

----------------------------------------------------------------------------
(* run()                                                                    *)

\* Run again, a goal of the last run that was given up may still be executed.
StartDemo ==
  /\ demo \in {"off", "ended"} /\ Free /\ runs < MaxRuns
  /\ demo' = "server" /\ runs' = runs + 1
  /\ solution' = FALSE
  /\ clean' = (demo = "off")
  /\ UNCHANGED <<answer, in_callback, surprise_sent, walls, updates, hybrid>>

\* wait_for_server, 20 s
AwaitServer ==
  /\ demo = "server"
  /\ demo' \in {"clear", "ended"}
  /\ UNCHANGED <<runs, answer, in_callback, surprise_sent, scene, planner>>

\* apply_objects: nothing is sent when the service is not found in 10 s, be
\* move_group there or not.  run() looks at what the static wall's returns, not
\* at the clearing's.
ApplyObjects(groupUp) ==
  /\ demo \in {"clear", "static"} /\ ~answer
  /\ \/ /\ groupUp
        /\ updates' = Append(updates, demo) /\ answer' = TRUE
        /\ clean' = (clean \/ demo = "clear")
        /\ UNCHANGED demo
     \/ /\ demo' = IF demo = "clear" THEN "reset" ELSE "ended"
        /\ UNCHANGED <<updates, answer, clean>>
  /\ UNCHANGED <<runs, in_callback, surprise_sent, walls, planner>>

BugApplyTimesOut ==
  /\ answer
  /\ answer' = FALSE
  /\ demo' = IF demo = "clear" THEN "reset" ELSE "send"
  /\ UNCHANGED <<runs, in_callback, surprise_sent, scene, planner>>

\* No answer in 10 s; the update may still be applied.
ApplyTimesOut ==
  /\ answer
  /\ answer' = FALSE
  /\ demo' = IF demo = "clear" THEN "reset" ELSE "ended"
  /\ UNCHANGED <<runs, in_callback, surprise_sent, scene, planner>>

\* reset_without_planning commands a ramp and waits 3 s; an arm that did not
\* get there is good enough, joint states that never came are not.
Reset ==
  /\ demo = "reset"
  /\ demo' \in {"static", "ended"}
  /\ UNCHANGED <<runs, answer, in_callback, surprise_sent, scene, planner>>

\* send_goal_and_wait has enabled the surprise; it spins until there are
\* joint states, and only then sends the goal.
SendGoal ==
  /\ demo = "send" /\ Free
  /\ \/ demo' = "await" /\ hybrid' = "running"
     \/ demo' = "ended" /\ UNCHANGED hybrid
  /\ UNCHANGED <<runs, answer, in_callback, surprise_sent, scene, solution>>

\* on_result, or on_goal_response of a goal that is refused
OnResult ==
  /\ demo = "await" /\ Free /\ hybrid = "over"
  /\ demo' = "ended" /\ hybrid' = "none"
  /\ UNCHANGED <<runs, answer, in_callback, surprise_sent, scene, solution>>

BugAwaitTimesOut ==
  /\ demo = "await" /\ Free /\ surprise_sent
  /\ demo' = "ended"
  /\ UNCHANGED <<runs, answer, in_callback, surprise_sent, scene, planner>>

\* 120 s: the goal is not cancelled.
AwaitTimesOut ==
  /\ demo = "await" /\ Free
  /\ demo' = "ended"
  /\ UNCHANGED <<runs, answer, in_callback, surprise_sent, scene, planner>>

----------------------------------------------------------------------------
(* on_global_solution: it runs whenever the thread spins, and changes the   *)
(* scene once after the surprise was enabled, whichever goal it is for.     *)

OnGlobalSolution(groupUp) ==
  /\ Free /\ solution
  /\ demo \in {"reset", "send", "await"} \/ answer
  /\ solution' = FALSE
  /\ IF demo \in {"send", "await"} /\ ~surprise_sent
     THEN /\ surprise_sent' = TRUE
          /\ \/ groupUp /\ updates' = Append(updates, "swap") /\ in_callback' = TRUE
             \/ UNCHANGED <<updates, in_callback>>
     ELSE UNCHANGED <<surprise_sent, updates, in_callback>>
  /\ UNCHANGED <<demo, runs, answer, walls, clean, hybrid>>

\* The answer waits behind the very callback that awaits it: 10 s.
CallbackGivesUp ==
  /\ in_callback
  /\ in_callback' = FALSE
  /\ UNCHANGED <<demo, runs, answer, surprise_sent, scene, planner>>

----------------------------------------------------------------------------
(* External: move_group applies the updates in the order they came in, the  *)
(* static wall may be refused.  The hybrid planner.                         *)

Changed(update) ==
  CASE update = "clear"  -> walls \ {"static", "surprise"}
    [] update = "static" -> walls \cup {"static"}
    [] update = "swap"   -> (walls \ {"static"}) \cup {"surprise"}

ApplyUpdate(groupUp) ==
  /\ groupUp /\ updates # <<>>
  /\ updates' = Tail(updates)
  /\ LET mine == answer /\ Len(updates) = 1
     IN \/ /\ walls' = Changed(Head(updates))
           /\ demo' = CASE ~mine -> demo
                        [] mine /\ demo = "clear" -> "reset"
                        [] OTHER -> "send"
           /\ answer' = (answer /\ ~mine)
           /\ surprise_sent' = (surprise_sent /\ ~(mine /\ demo = "static"))
        \/ /\ Head(updates) = "static"
           /\ UNCHANGED <<walls, surprise_sent>>
           /\ demo' = IF mine THEN "ended" ELSE demo
           /\ answer' = (answer /\ ~mine)
  /\ UNCHANGED <<runs, in_callback, clean, planner>>

PlannerStep ==
  /\ hybrid = "running"
  /\ \/ solution' = TRUE /\ UNCHANGED hybrid
     \/ hybrid' = "over" /\ UNCHANGED solution
  /\ UNCHANGED <<demo, runs, answer, in_callback, surprise_sent, scene>>

----------------------------------------------------------------------------

DemoInit ==
  /\ demo = "off" /\ runs = 0 /\ answer = FALSE
  /\ in_callback = FALSE /\ surprise_sent = FALSE
  /\ walls = {} /\ updates = <<>>
  /\ hybrid = "none" /\ solution = FALSE
  /\ clean = TRUE

DemoStep(groupUp) ==
  \/ AwaitServer \/ ApplyObjects(groupUp) \/ ApplyTimesOut \/ Reset
  \/ SendGoal \/ OnResult \/ AwaitTimesOut \/ CallbackGivesUp

DemoEnvironment(groupUp) == ApplyUpdate(groupUp) \/ PlannerStep

----------------------------------------------------------------------------
(* Properties.                                                              *)

\* While the goal is awaited there is exactly one wall: the static one from
\* the moment the goal is sent, the surprise in its place after the first
\* global solution.  "Para que la escena no acumule obstaculos", and also when
\* an update of this run or of an earlier one is applied late.  A run after the
\* first owes that to its clearing, whose result it ignores (lines 431-433):
\* when the service is not found in time, the last run's wall stays beside the
\* static one.
OneWallAtATime ==
  demo = "await" /\ clean =>
    /\ Cardinality(walls) = 1
    /\ walls = {"surprise"} => surprise_sent

\* The demo ends, whoever answers, though the answer to its own callback never
\* reaches it.
DemoEnds == demo = "server" ~> demo = "ended"
=============================================================================
