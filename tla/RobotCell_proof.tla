--------------------------- MODULE RobotCell_proof ---------------------------
(***************************************************************************)
(* The bring-up and the scripts of the second terminal.                     *)
(*                                                                          *)
(* The arm never carries the cube along a plan that does not know of it,    *)
(* places it, keeps its scenes in step and plans around one wall, for every *)
(* set-up the cell may be launched with and whatever answers come late,     *)
(* come after their time limit or never come.                               *)
(*                                                                          *)
(* Whatever is launched, MoveIt's parameters cover its arms and agree with  *)
(* a script's own, and once the bring-up has completed its controllers      *)
(* serve MoveIt: DeferredAgrees, ConfigCoversArms, MoveItIsServed.          *)
(***************************************************************************)
EXTENDS RobotCell, FiniteSetTheorems, TLAPS

\* Where the script is tells what it has done: the fingers are first closed in
\* step 3, the cube is in the script's scene from step 5 to 12, and from step
\* 12 on it has been let go and no order to close is left, if opening worked.
CarryInv ==
  /\ pc \in 1..14
  /\ asked = "sync" => pc \in {5, 8, 13}
  /\ asked \in {"goal", "result"} => pc = 3
  /\ asked = "motion" => pc \in {1, 2, 6, 9, 10, 11, 14}
  /\ asked = "motion" /\ pc = 11 => goal = "none"
  /\ asked \in {"none", "sync", "goal", "result", "motion"}
  /\ goal # "none" \/ cube = "held" => pc >= 3
  /\ pc \in 5..12 => "attached" \in local
  /\ pc >= 12 => "set_gripper_state" \in failed \/ (goal = "none" /\ cube # "held")
  /\ at # "held"
  /\ script = "ended" => pc = 14

\* Which operation each step of main() is.
LEMMA StepsAre ==
  /\ Len(Steps) = 14
  /\ \A n \in 1..14 :
       /\ Steps[n].op = "move" => n \in {1, 2, 6, 10, 14}
       /\ Steps[n].op = "plan" => n = 9
       /\ Steps[n].op = "set_gripper" => n = 3
       /\ Steps[n].op = "set_gripper_state" <=> n = 11
       /\ Steps[n].op = "attach" => n = 4
       /\ Steps[n].op = "add" => n = 7
       /\ Steps[n].op = "detach" => n = 12
       /\ Steps[n].op = "sync" => n \in {5, 8, 13}
       /\ n \in {1, 2, 6, 9, 10, 14} => Steps[n].arg # "held"
BY DEF Steps, Step

\* What GoOn does to the step the script is at.
LEMMA NextStep ==
  ASSUME CarryInv, GoOn
  PROVE  /\ pc' \in 1..14
         /\ pc' = (IF pc < 14 THEN pc + 1 ELSE pc)
         /\ script' = (IF pc < 14 THEN script ELSE "ended")
         /\ asked' = "none"
BY StepsAre DEF GoOn, CarryInv

LEMMA CarryInit == CellInit => CarryInv
BY DEF CellInit, PickInit, CarryInv

\* A motion is sent to its controller, or the script goes on without one.
LEMMA MoveStep ==
  ASSUME CarryInv, NEW up, Move(up) \/ PlanAcross(up)
  PROVE  CarryInv'
<1>1. /\ pc \in {1, 2, 6, 9, 10, 14}
      /\ at' \in {at, "astray"}
      /\ failed \subseteq failed'
      /\ AwaitMotion \/ GoOn
      /\ UNCHANGED <<cube, goal, local>>
  BY StepsAre DEF Move, PlanAcross, AwaitMotion, At, Failed, scenes, CarryInv
<1>2. at' # "held"
  BY <1>1 DEF CarryInv
<1>3. CASE AwaitMotion
  BY <1>1, <1>2, <1>3 DEF AwaitMotion, CarryInv
<1>4. CASE GoOn
  BY <1>1, <1>2, <1>4, NextStep DEF CarryInv
<1> QED
  BY <1>1, <1>3, <1>4

\* It takes the arm to the argument of its step or leaves it on the way.
LEMMA MotionKeeps ==
  ASSUME CarryInv, NEW a, NEW g, Motion(a, g)
  PROVE  CarryInv'
<1>1. CASE MotionEnds(a)
  <2>1. /\ pc \in {1, 2, 6, 9, 10, 14} /\ at' \in {at, Steps[pc].arg}
        /\ failed \subseteq failed' /\ GoOn /\ UNCHANGED <<cube, goal, local>>
    BY <1>1, StepsAre DEF MotionEnds, Failed, scenes, CarryInv
  <2>2. at' # "held"
    BY <2>1, StepsAre DEF CarryInv
  <2> QED
    BY <2>1, <2>2, NextStep DEF CarryInv
<1>2. CASE OpeningEnds(g)
  <2>1. pc = 11 /\ pc' = 12 /\ asked' = "none" /\ script' = script
    BY <1>2, NextStep, StepsAre DEF OpeningEnds, CarryInv
  <2>2. UNCHANGED <<at, local, goal>> /\ goal = "none"
    BY <1>2, <2>1 DEF OpeningEnds, scenes, CarryInv
  <2>3. "set_gripper_state" \in failed' \/ cube' # "held"
    BY <1>2, <2>1, StepsAre DEF OpeningEnds, Failed, CarryInv
  <2> QED
    BY <2>1, <2>2, <2>3 DEF CarryInv
<1> QED
  BY <1>1, <1>2 DEF Motion

\* The other steps of the script.
LEMMA ScriptKeeps ==
  ASSUME CarryInv, NEW a, NEW g, NEW m, ScriptStep(a, g, m)
  PROVE  CarryInv'
<1>1. CASE Move(a) \/ PlanAcross(a)
  BY <1>1, MoveStep
<1>2. CASE SendGripperGoal
  <2>1. pc = 3
    BY <1>2, StepsAre DEF SendGripperGoal, At, CarryInv
  <2> QED
    BY <1>2, <2>1 DEF SendGripperGoal, scenes, CarryInv
<1>3. CASE GripperGoalTimesOut
  BY <1>3 DEF GripperGoalTimesOut, Failed, world, scenes, CarryInv
<1>4. CASE GripperResultTimesOut
  BY <1>4, NextStep DEF GripperResultTimesOut, Failed, world, scenes, CarryInv
<1>5. CASE OpenGripper(g)
  <2>1. pc = 11 /\ UNCHANGED <<at, cube, local>>
    BY <1>5, StepsAre DEF OpenGripper, At, scenes, CarryInv
  <2>2. CASE goal' = "none" /\ AwaitMotion
    BY <2>1, <2>2 DEF AwaitMotion, CarryInv
  <2>3. CASE GoOn /\ Failed /\ UNCHANGED goal
    <3>1. pc' = 12 /\ asked' = "none" /\ script' = script /\ "set_gripper_state" \in failed'
      BY <2>1, <2>3, NextStep, StepsAre DEF Failed
    <3> QED
      BY <2>1, <2>3, <3>1 DEF CarryInv
  <2> QED
    BY <1>5, <2>2, <2>3 DEF OpenGripper
<1>6. CASE ChangeScene
  <2>1. /\ GoOn /\ UNCHANGED <<at, cube, goal, failed>>
        /\ \/ pc = 4 /\ local' = local \cup {"attached"}
           \/ pc = 7 /\ local' = local \cup {"obstacle"}
           \/ pc = 12
    BY <1>6, StepsAre DEF ChangeScene, At, world, CarryInv
  <2> QED
    BY <2>1, NextStep DEF CarryInv
<1>7. CASE Sync(m)
  <2>1. pc \in {5, 8, 13} /\ UNCHANGED <<at, cube, goal, local>>
    BY <1>7, StepsAre DEF Sync, At, world, CarryInv
  <2>2. failed \subseteq failed'
    BY <1>7 DEF Sync, Failed
  <2>3. (UNCHANGED <<script, pc>> /\ asked' = "sync") \/ GoOn
    BY <1>7 DEF Sync
  <2> QED
    BY <2>1, <2>2, <2>3, NextStep DEF CarryInv
<1>8. CASE SyncTimesOut
  BY <1>8, NextStep DEF SyncTimesOut, Failed, world, scenes, CarryInv
<1> QED
  BY <1>1, <1>2, <1>3, <1>4, <1>5, <1>6, <1>7, <1>8 DEF ScriptStep

\* Answers of move_group and of the gripper, in their time or late.
LEMMA AnswersKeep ==
  ASSUME CarryInv, NEW g, NEW m, Answers(g, m)
  PROVE  CarryInv'
<1>1. CASE \E r \in requests : ApplyScene(m, r)
  <2>1. /\ UNCHANGED <<at, cube, goal, local, failed>>
        /\ (asked = "sync" /\ GoOn) \/ UNCHANGED <<script, pc, asked>>
    BY <1>1 DEF ApplyScene, world
  <2> QED
    BY <2>1, NextStep DEF CarryInv
<1>2. CASE AnswerGripperGoal(g)
  <2>1. /\ goal = "sent" /\ UNCHANGED <<at, cube, local>>
        /\ failed \subseteq failed'
        /\ \/ UNCHANGED <<script, pc>> /\ asked' \in {asked, "result"} /\ (asked' # asked => asked = "goal")
           \/ asked = "goal" /\ GoOn
    BY <1>2 DEF AnswerGripperGoal, Failed, scenes
  <2>2. goal # "none" /\ pc >= 3
    BY <2>1 DEF CarryInv
  <2> QED
    BY <2>1, <2>2, NextStep DEF CarryInv
<1>3. CASE CloseGripper(g)
  <2>1. /\ goal = "closing" /\ goal' = "none" /\ UNCHANGED <<at, local, failed>>
        /\ (asked = "result" /\ GoOn) \/ UNCHANGED <<script, pc, asked>>
    BY <1>3 DEF CloseGripper, scenes
  <2> QED
    BY <2>1, NextStep DEF CarryInv
<1> QED
  BY <1>1, <1>2, <1>3 DEF Answers

LEMMA CarryStep == CarryInv /\ [CellNext]_cell => CarryInv'
<1> SUFFICES ASSUME CarryInv, [CellNext]_cell PROVE CarryInv'
  OBVIOUS
<1>1. CASE BringUpStep
  BY <1>1 DEF BringUpStep, scenes, CarryInv
<1>2. CASE Start
  BY <1>2 DEF Start, StartScript, world, scenes, CarryInv
<1>3. CASE Run
  BY <1>3, ScriptKeeps DEF Run
<1>4. CASE Answer
  BY <1>4, AnswersKeep DEF Answer
<1>5. CASE Execution
  BY <1>5, MotionKeeps DEF Execution
<1>6. CASE UNCHANGED pickVars
  BY <1>6 DEF pickVars, CarryInv
<1> QED
  BY <1>1, <1>2, <1>3, <1>4, <1>5, <1>6 DEF CellNext, RunDemo, Demo, Callback, Planner, cell

\* Only motions move the arm, and the invariant says what is known there.
LEMMA CarriedStep ==
  CarryInv /\ [CellNext]_cell =>
    [at' # at /\ cube = "held" => "attached" \in local \/ "set_gripper_state" \in failed]_pickVars
<1> SUFFICES ASSUME CarryInv, [CellNext]_cell, at' # at, cube = "held"
             PROVE  "attached" \in local \/ "set_gripper_state" \in failed
  OBVIOUS
<1>1. \E up : Move(up) \/ PlanAcross(up) \/ MotionEnds(up)
  BY DEF CellNext, BringUpStep, Start, StartScript, Run, ScriptStep, Answer, Answers, Execution,
         Motion, RunDemo, Demo, Callback, Planner, cell, pickVars, world, SendGripperGoal,
         GripperGoalTimesOut, GripperResultTimesOut, OpenGripper, ChangeScene, Sync, SyncTimesOut,
         ApplyScene, AnswerGripperGoal, CloseGripper, OpeningEnds
<1>2. pc \in {1, 2, 6, 9, 10, 14}
  BY <1>1, StepsAre DEF Move, PlanAcross, MotionEnds, At, CarryInv
<1> QED
  BY <1>2 DEF CarryInv

\* Whatever is launched, answered late or lost: a held cube is in the scene
\* that the script plans with, unless the gripper failed to let go of it
\* (pick_and_place.py, lines 61-178).
THEOREM CarriedCubeIsKnown == CellSpec => CarriedCubeIsInScene
<1>1. CellInit => CarryInv
  BY CarryInit
<1>2. CarryInv /\ [CellNext]_cell => CarryInv'
  BY CarryStep
<1>3. CarryInv /\ [CellNext]_cell =>
        [at' # at /\ cube = "held" => "attached" \in local \/ "set_gripper_state" \in failed]_pickVars
  BY CarriedStep
<1> QED
  BY <1>1, <1>2, <1>3, PTL DEF CellSpec, CarriedCubeIsInScene

----------------------------------------------------------------------------
(* CubeIsPlaced.                                                            *)

\* Where the cube, the fingers and the arm are when every step worked so far:
\* only step 3 has a goal outstanding, and the fingers close around the cube.
PlacedInv ==
  failed = {} =>
    /\ goal # "none" => pc = 3 /\ asked = IF goal = "sent" THEN "goal" ELSE "result"
    /\ pc <= 3 => cube = "pick"
    /\ pc \in 4..11 => cube = "held" /\ gripper = "closed"
    /\ pc >= 12 => cube = "place" /\ gripper = "open"
    /\ pc = 3 => at = "pick"
    /\ pc = 11 => at = "place"
    /\ script = "ended" => at = "retract"

\* Where the motions that matter lead to.
LEMMA MotionsLeadTo ==
  /\ Steps[2].arg = "pick" /\ Steps[10].arg = "place" /\ Steps[14].arg = "retract"
  /\ Steps[5].arg = "attach" /\ Steps[8].arg = "add" /\ Steps[13].arg = "remove"
BY DEF Steps, Step

LEMMA PlacedInit == CellInit => PlacedInv
BY DEF CellInit, PickInit, PlacedInv

LEMMA PlacedScript ==
  ASSUME CarryInv, PlacedInv, NEW a, NEW g, NEW m, ScriptStep(a, g, m)
  PROVE  PlacedInv'
<1>1. CASE Move(a) \/ PlanAcross(a)
  <2>1. /\ pc \in {1, 2, 6, 9, 10, 14} /\ script = "running"
        /\ UNCHANGED <<cube, goal, gripper>>
        /\ AwaitMotion \/ failed' # {}
    BY <1>1, StepsAre DEF Move, PlanAcross, At, Failed, CarryInv
  <2> QED
    BY <2>1 DEF AwaitMotion, PlacedInv
<1>2. CASE SendGripperGoal
  <2>1. pc = 3
    BY <1>2, StepsAre DEF SendGripperGoal, At, CarryInv
  <2> QED
    BY <1>2, <2>1 DEF SendGripperGoal, PlacedInv
<1>3. CASE GripperGoalTimesOut \/ GripperResultTimesOut \/ SyncTimesOut
  <2>1. failed' # {}
    BY <1>3 DEF GripperGoalTimesOut, GripperResultTimesOut, SyncTimesOut, Failed
  <2> QED
    BY <2>1 DEF PlacedInv
<1>4. CASE OpenGripper(g)
  <2>1. pc = 11 /\ script = "running" /\ UNCHANGED <<at, gripper, cube>>
    BY <1>4, StepsAre DEF OpenGripper, At, CarryInv
  <2>2. (goal' = "none" /\ AwaitMotion) \/ failed' # {}
    BY <1>4 DEF OpenGripper, Failed
  <2> QED
    BY <2>1, <2>2 DEF AwaitMotion, PlacedInv
<1>5. CASE ChangeScene \/ Sync(m)
  <2>1. /\ pc \in {4, 5, 7, 8, 12, 13} /\ UNCHANGED <<at, gripper, cube, goal>>
        /\ script = "running"
        /\ failed' = {} => failed = {}
        /\ GoOn \/ UNCHANGED <<script, pc>>
    BY <1>5, StepsAre DEF ChangeScene, Sync, At, world, Failed, CarryInv
  <2> QED
    BY <2>1, NextStep DEF PlacedInv
<1> QED
  BY <1>1, <1>2, <1>3, <1>4, <1>5 DEF ScriptStep

LEMMA PlacedMotion ==
  ASSUME CarryInv, PlacedInv, NEW a, NEW g, Motion(a, g)
  PROVE  PlacedInv'
<1>1. CASE MotionEnds(a)
  <2>1. /\ pc \in {1, 2, 6, 9, 10, 14} /\ GoOn /\ UNCHANGED <<cube, goal, gripper>>
        /\ failed' = {} => failed = {} /\ at' = Steps[pc].arg
    BY <1>1, StepsAre DEF MotionEnds, Failed, CarryInv
  <2> QED
    BY <2>1, NextStep, MotionsLeadTo DEF PlacedInv, CarryInv
<1>2. CASE OpeningEnds(g)
  <2>1. pc = 11 /\ pc' = 12 /\ script' = script /\ script # "ended"
    BY <1>2, NextStep, StepsAre DEF OpeningEnds, CarryInv
  <2>2. failed' = {} =>
          /\ failed = {} /\ gripper' = "open" /\ goal' = goal /\ goal = "none" /\ at' = at
          /\ cube' = IF cube = "held" THEN at ELSE cube
    BY <1>2, <2>1 DEF OpeningEnds, Failed, CarryInv
  <2> QED
    BY <2>1, <2>2 DEF PlacedInv
<1> QED
  BY <1>1, <1>2 DEF Motion

LEMMA PlacedAnswers ==
  ASSUME CarryInv, PlacedInv, NEW g, NEW m, Answers(g, m)
  PROVE  PlacedInv'
<1>1. CASE \E r \in requests : ApplyScene(m, r)
  <2>1. /\ UNCHANGED <<at, gripper, cube, goal, failed>>
        /\ (asked = "sync" /\ GoOn) \/ UNCHANGED <<script, pc, asked>>
    BY <1>1 DEF ApplyScene, world
  <2> QED
    BY <2>1, NextStep DEF PlacedInv, CarryInv
<1>2. CASE AnswerGripperGoal(g)
  <2>1. /\ goal = "sent" /\ UNCHANGED <<at, gripper, cube>>
        /\ \/ /\ goal' = "closing" /\ UNCHANGED <<script, pc, failed>>
              /\ asked' = IF asked = "goal" THEN "result" ELSE asked
           \/ goal' = "none" /\ UNCHANGED <<script, pc, asked, failed>> /\ asked # "goal"
           \/ failed' # {}
    BY <1>2 DEF AnswerGripperGoal, Failed
  <2> QED
    BY <2>1 DEF PlacedInv
<1>3. CASE CloseGripper(g)
  <2>1. /\ goal = "closing" /\ goal' = "none" /\ UNCHANGED <<at, failed>>
        /\ gripper' = "closed" /\ cube' = IF cube = at THEN "held" ELSE cube
        /\ IF asked = "result" THEN GoOn ELSE UNCHANGED <<script, pc, asked>>
    BY <1>3 DEF CloseGripper
  <2> QED
    BY <2>1, NextStep DEF PlacedInv
<1> QED
  BY <1>1, <1>2, <1>3 DEF Answers

LEMMA PlacedStep == CarryInv /\ PlacedInv /\ [CellNext]_cell => PlacedInv'
<1> SUFFICES ASSUME CarryInv, PlacedInv, [CellNext]_cell PROVE PlacedInv'
  OBVIOUS
<1>1. CASE BringUpStep
  BY <1>1 DEF BringUpStep, PlacedInv
<1>2. CASE Start
  BY <1>2 DEF Start, StartScript, world, PlacedInv
<1>3. CASE Run
  BY <1>3, PlacedScript DEF Run
<1>4. CASE Answer
  BY <1>4, PlacedAnswers DEF Answer
<1>5. CASE Execution
  BY <1>5, PlacedMotion DEF Execution
<1>6. CASE UNCHANGED pickVars
  BY <1>6 DEF pickVars, PlacedInv
<1> QED
  BY <1>1, <1>2, <1>3, <1>4, <1>5, <1>6 DEF CellNext, RunDemo, Demo, Callback, Planner, cell

\* A script none of whose steps failed has carried the cube over and let go of
\* it: an answer that came too late counts as a failure of its step (set_gripper,
\* moveit_utils.py:263-314; main, pick_and_place.py:61-178).
THEOREM CubeArrives == CellSpec => []CubeIsPlaced
<1>1. CellInit => CarryInv /\ PlacedInv
  BY CarryInit, PlacedInit
<1>2. CarryInv /\ PlacedInv /\ [CellNext]_cell => (CarryInv /\ PlacedInv)'
  BY CarryStep, PlacedStep
<1>3. CarryInv /\ PlacedInv => CubeIsPlaced
  BY DEF CarryInv, PlacedInv, CubeIsPlaced
<1> QED
  BY <1>1, <1>2, <1>3, PTL DEF CellSpec

----------------------------------------------------------------------------
(* ScenesAgree.                                                             *)

\* What each scene holds at each step when every update was answered in time.
SceneInv ==
  "sync" \notin failed =>
    /\ local = (IF pc \in 5..12 THEN {"attached"} ELSE {}) \cup
               (IF pc >= 8 THEN {"obstacle"} ELSE {})
    /\ group = (IF pc \in 6..13 THEN {"attached"} ELSE {}) \cup
               (IF pc >= 9 THEN {"obstacle"} ELSE {})
    /\ requests = IF asked = "sync" THEN {Steps[pc].arg} ELSE {}

LEMMA SceneInit == CellInit => SceneInv
BY DEF CellInit, PickInit, SceneInv

\* A step that leaves the scenes alone and is not one that changes them.
LEMMA SceneKept ==
  ASSUME CarryInv, SceneInv, UNCHANGED scenes, "sync" \notin failed' => "sync" \notin failed,
         \/ UNCHANGED <<pc, asked>>
         \/ pc \notin {4, 5, 7, 8, 12, 13} /\ asked # "sync" /\ asked' # "sync" /\
            (pc' = pc \/ pc' = pc + 1)
  PROVE  SceneInv'
BY DEF SceneInv, CarryInv, scenes

LEMMA SceneScript ==
  ASSUME CarryInv, SceneInv, NEW a, NEW g, NEW m, ScriptStep(a, g, m)
  PROVE  SceneInv'
<1>1. CASE Move(a) \/ PlanAcross(a) \/ OpenGripper(g)
  <2>1. /\ pc \in {1, 2, 6, 9, 10, 11, 14} /\ asked = "none" /\ UNCHANGED scenes
        /\ AwaitMotion \/ GoOn
        /\ "sync" \notin failed' => "sync" \notin failed
    BY <1>1, StepsAre DEF Move, PlanAcross, OpenGripper, AwaitMotion, At, Failed, CarryInv
  <2>2. asked' \in {"none", "motion"} /\ (pc' = pc \/ pc' = pc + 1)
    BY <2>1, NextStep DEF AwaitMotion
  <2> QED
    BY <2>1, <2>2, SceneKept
<1>2. CASE SendGripperGoal \/ GripperGoalTimesOut \/ GripperResultTimesOut
  <2>1. pc = 3 /\ UNCHANGED scenes /\ asked # "sync" /\ ("sync" \notin failed' => "sync" \notin failed)
    BY <1>2, StepsAre DEF SendGripperGoal, GripperGoalTimesOut, GripperResultTimesOut, Failed,
                          At, scenes, CarryInv
  <2>2. asked' # "sync" /\ (pc' = pc \/ pc' = pc + 1)
    BY <1>2, <2>1, NextStep DEF SendGripperGoal, GripperGoalTimesOut, GripperResultTimesOut
  <2> QED
    BY <2>1, <2>2, SceneKept
<1>3. CASE ChangeScene
  <2>1. /\ asked = "none" /\ UNCHANGED <<group, requests, failed>> /\ GoOn
        /\ \/ pc = 4 /\ local' = local \cup {"attached"}
           \/ pc = 7 /\ local' = local \cup {"obstacle"}
           \/ pc = 12 /\ local' = local \ {"attached", "picked_object"}
    BY <1>3, StepsAre DEF ChangeScene, At, CarryInv
  <2>2. pc' = pc + 1 /\ asked' = "none"
    BY <2>1, NextStep
  <2> QED
    BY <2>1, <2>2 DEF SceneInv
<1>4. CASE Sync(m)
  <2>1. pc \in {5, 8, 13} /\ asked = "none" /\ UNCHANGED <<local, group>>
    BY <1>4, StepsAre DEF Sync, At, CarryInv
  <2>2. CASE /\ requests' = requests \cup {Steps[pc].arg}
             /\ asked' = "sync" /\ UNCHANGED <<script, pc, failed>>
    BY <2>1, <2>2 DEF SceneInv
  <2>3. CASE Failed
    <3>1. Steps[pc].op = "sync"
      BY <1>4 DEF Sync, At
    <3> QED
      BY <2>3, <3>1 DEF Failed, SceneInv
  <2> QED
    BY <1>4, <2>2, <2>3 DEF Sync
<1>5. CASE SyncTimesOut
  <2>1. pc \in {5, 8, 13} /\ failed' = failed \cup {Steps[pc].op}
    BY <1>5 DEF SyncTimesOut, Failed, CarryInv
  <2>2. Steps[pc].op = "sync"
    BY <2>1 DEF Steps, Step
  <2> QED
    BY <2>1, <2>2 DEF SceneInv
<1> QED
  BY <1>1, <1>2, <1>3, <1>4, <1>5 DEF ScriptStep

\* A motion has nothing to do with the scenes.
LEMMA SceneMotion ==
  ASSUME CarryInv, SceneInv, NEW a, NEW g, Motion(a, g)
  PROVE  SceneInv'
<1>1. /\ asked = "motion" /\ GoOn /\ UNCHANGED scenes
      /\ "sync" \notin failed' => "sync" \notin failed
  BY DEF Motion, MotionEnds, OpeningEnds, Failed
<1>2. pc \in {1, 2, 6, 9, 10, 11, 14}
  BY <1>1 DEF CarryInv
<1>3. asked' = "none" /\ (pc' = pc \/ pc' = pc + 1)
  BY <1>1, NextStep
<1> QED
  BY <1>1, <1>2, <1>3, SceneKept

LEMMA SceneAnswers ==
  ASSUME CarryInv, SceneInv, NEW g, NEW m, Answers(g, m)
  PROVE  SceneInv'
<1>1. ASSUME NEW r \in requests, ApplyScene(m, r) PROVE SceneInv'
  <2> SUFFICES ASSUME "sync" \notin failed PROVE SceneInv'
    BY <1>1 DEF ApplyScene, SceneInv
  <2>1. asked = "sync" /\ r = Steps[pc].arg /\ requests = {r} /\ pc \in {5, 8, 13}
    BY <1>1 DEF SceneInv, CarryInv
  <2>2. /\ GoOn /\ group' = Applied(r, group) /\ requests' = {} /\ local' = local
    BY <1>1, <2>1 DEF ApplyScene
  <2>3. pc' = pc + 1 /\ asked' = "none"
    BY <2>1, <2>2, NextStep
  <2>4. CASE pc = 5
    BY <2>1, <2>2, <2>3, <2>4, MotionsLeadTo DEF Applied, SceneInv
  <2>5. CASE pc = 8
    BY <2>1, <2>2, <2>3, <2>5, MotionsLeadTo DEF Applied, SceneInv
  <2>6. CASE pc = 13
    BY <2>1, <2>2, <2>3, <2>6, MotionsLeadTo DEF Applied, SceneInv
  <2> QED
    BY <2>1, <2>4, <2>5, <2>6
<1>2. CASE AnswerGripperGoal(g) \/ CloseGripper(g)
  <2>1. /\ UNCHANGED scenes /\ ("sync" \notin failed' => "sync" \notin failed)
        /\ \/ UNCHANGED <<pc, asked>>
           \/ asked = "goal" /\ pc' = pc /\ asked' = "result"
           \/ asked \in {"goal", "result"} /\ GoOn
    BY <1>2 DEF AnswerGripperGoal, CloseGripper, Failed, scenes
  <2>2. asked \in {"goal", "result"} => pc = 3
    BY DEF CarryInv
  <2> QED
    BY <2>1, <2>2, NextStep, SceneKept
<1> QED
  BY <1>1, <1>2 DEF Answers

LEMMA SceneStep == CarryInv /\ SceneInv /\ [CellNext]_cell => SceneInv'
<1> SUFFICES ASSUME CarryInv, SceneInv, [CellNext]_cell PROVE SceneInv'
  OBVIOUS
<1>1. CASE BringUpStep
  BY <1>1 DEF BringUpStep, scenes, SceneInv
<1>2. CASE Start
  BY <1>2 DEF Start, StartScript, scenes, SceneInv
<1>3. CASE Run
  BY <1>3, SceneScript DEF Run
<1>4. CASE Answer
  BY <1>4, SceneAnswers DEF Answer
<1>5. CASE Execution
  BY <1>5, SceneMotion DEF Execution
<1>6. CASE UNCHANGED pickVars
  BY <1>6 DEF pickVars, SceneInv
<1> QED
  BY <1>1, <1>2, <1>3, <1>4, <1>5, <1>6 DEF CellNext, RunDemo, Demo, Callback, Planner, cell

\* If every update of the scene was answered in time, move_group plans in the end
\* with the script's scene: the obstacle and nothing of the cube
\* (sync_scene_to_move_group, moveit_utils.py:183-244).
THEOREM ScenesStayInStep == CellSpec => []ScenesAgree
<1>1. CellInit => CarryInv /\ SceneInv
  BY CarryInit, SceneInit
<1>2. CarryInv /\ SceneInv /\ [CellNext]_cell => (CarryInv /\ SceneInv)'
  BY CarryStep, SceneStep
<1>3. CarryInv /\ SceneInv => ScenesAgree
  BY DEF CarryInv, SceneInv, ScenesAgree
<1> QED
  BY <1>1, <1>2, <1>3, PTL DEF CellSpec
----------------------------------------------------------------------------
(* OneWallAtATime.                                                          *)

DemoSteps == {"off", "server", "clear", "reset", "static", "send", "await", "ended"}

\* No wall is left in move_group's scene once it has applied n updates.
Emptied(n) == IF n = 0 THEN walls = {} ELSE updates[n] = "clear"

\* Once the scene was cleared, or the clearing is on its way, everything before
\* the static wall leaves it empty; the goal is only sent when nothing is on
\* its way, and from then on there is one swap at most.  Nothing is known of a
\* later run that has not sent its clearing.
WallInv ==
  /\ demo \in DemoSteps
  /\ updates \in Seq(Updates) /\ walls \subseteq {"static", "surprise"}
  /\ demo = "off" => walls = {} /\ updates = <<>>
  /\ answer => demo \in {"clear", "static"} /\ updates # <<>> /\ updates[Len(updates)] = demo
  /\ in_callback => demo \in {"send", "await"}
  /\ clean /\ demo \in {"server", "clear", "reset", "static"} /\ ~answer => Emptied(Len(updates))
  /\ clean /\ demo = "static" /\ answer => Emptied(Len(updates) - 1)
  /\ clean /\ demo \in {"send", "await"} =>
       \/ updates = <<>> /\ walls = {"static"}
       \/ surprise_sent /\ updates = <<>> /\ walls = {"surprise"}
       \/ surprise_sent /\ updates = <<"swap">> /\ walls = {"static"}

LEMMA WallInit == CellInit => WallInv
BY DEF CellInit, DemoInit, WallInv, DemoSteps

\* A step of the demo that leaves the updates and the walls alone.
LEMMA WallDemo ==
  ASSUME WallInv, NEW m, DemoStep(m), ~ApplyObjects(m)
  PROVE  WallInv'
<1>1. UNCHANGED <<updates, walls, surprise_sent, clean>>
  BY DEF DemoStep, AwaitServer, ApplyTimesOut, Reset, SendGoal, OnResult, AwaitTimesOut,
         CallbackGivesUp, scene, planner
<1>2. CASE AwaitServer \/ Reset
  BY <1>1, <1>2 DEF AwaitServer, Reset, WallInv, DemoSteps, Emptied
<1>3. CASE ApplyTimesOut
  BY <1>1, <1>3 DEF ApplyTimesOut, WallInv, DemoSteps, Emptied
<1>4. CASE SendGoal \/ OnResult \/ AwaitTimesOut
  BY <1>1, <1>4 DEF SendGoal, OnResult, AwaitTimesOut, Free, WallInv, DemoSteps, Emptied
<1>5. CASE CallbackGivesUp
  BY <1>1, <1>5 DEF CallbackGivesUp, WallInv, DemoSteps, Emptied
<1> QED
  BY <1>2, <1>3, <1>4, <1>5 DEF DemoStep

LEMMA WallApplyObjects ==
  ASSUME WallInv, NEW m, ApplyObjects(m)
  PROVE  WallInv'
<1>1. /\ demo \in {"clear", "static"} /\ ~answer
      /\ UNCHANGED <<walls, surprise_sent, in_callback>>
  BY DEF ApplyObjects
<1>2. CASE /\ updates' = Append(updates, demo) /\ answer' = TRUE
           /\ clean' = (clean \/ demo = "clear") /\ demo' = demo
  <2>1. updates' = Append(updates, demo) /\ answer' = TRUE /\ demo' = demo
    BY <1>2
  <2>2. /\ updates' \in Seq(Updates) /\ updates' # <<>>
        /\ Len(updates') = Len(updates) + 1
        /\ updates'[Len(updates')] = demo
        /\ Len(updates) # 0 => updates'[Len(updates)] = updates[Len(updates)]
    BY <1>1, <2>1 DEF WallInv, Updates
  <2>3. demo = "static" /\ clean' => Emptied(Len(updates))
    BY <1>1, <1>2 DEF WallInv
  <2>4. (clean /\ demo = "static" /\ answer => Emptied(Len(updates) - 1))'
    BY <1>1, <2>1, <2>2, <2>3 DEF Emptied, WallInv
  <2> QED
    BY <1>1, <2>1, <2>2, <2>4 DEF WallInv
<1>3. CASE /\ demo' = IF demo = "clear" THEN "reset" ELSE "ended"
           /\ UNCHANGED <<updates, answer, clean>>
  BY <1>1, <1>3 DEF WallInv, DemoSteps, Emptied
<1> QED
  BY <1>2, <1>3 DEF ApplyObjects

LEMMA WallCallback ==
  ASSUME WallInv, NEW m, OnGlobalSolution(m)
  PROVE  WallInv'
<1>1. UNCHANGED <<demo, answer, walls, clean>>
  BY DEF OnGlobalSolution
<1>2. CASE UNCHANGED <<surprise_sent, updates, in_callback>>
  BY <1>1, <1>2 DEF WallInv, Emptied
<1>3. CASE ~UNCHANGED <<surprise_sent, updates, in_callback>>
  <2>1. /\ demo \in {"send", "await"} /\ ~surprise_sent /\ surprise_sent' = TRUE
        /\ \/ updates' = Append(updates, "swap")
           \/ UNCHANGED <<updates, in_callback>>
    BY <1>3 DEF OnGlobalSolution
  <2>2. ~answer /\ (clean => updates = <<>> /\ walls = {"static"})
    BY <2>1 DEF WallInv
  <2>3. clean => updates' \in {<<>>, <<"swap">>}
    BY <2>1, <2>2
  <2>4. updates' \in Seq(Updates)
    BY <2>1 DEF WallInv, Updates
  <2> QED
    BY <1>1, <2>1, <2>2, <2>3, <2>4 DEF WallInv
<1> QED
  BY <1>2, <1>3

\* move_group applies the oldest update.
LEMMA WallApply ==
  ASSUME WallInv, NEW m, ApplyUpdate(m)
  PROVE  WallInv'
<1> DEFINE mine == answer /\ Len(updates) = 1
<1>1. /\ updates # <<>> /\ updates' = Tail(updates) /\ in_callback' = in_callback
      /\ answer' <=> answer /\ ~mine
      /\ clean' = clean
  BY Zenon DEF ApplyUpdate
<1>2. /\ updates' \in Seq(Updates) /\ Len(updates') = Len(updates) - 1 /\ Len(updates) \in Nat \ {0}
      /\ \A n \in 1..Len(updates') : updates'[n] = updates[n + 1]
      /\ Head(updates) = updates[1] /\ updates[1] \in Updates
  BY <1>1 DEF WallInv
<1>3. \/ /\ walls' = Changed(updates[1])
         /\ ~mine => demo' = demo
         /\ mine => demo' = IF demo = "clear" THEN "reset" ELSE "send"
      \/ /\ updates[1] = "static"
         /\ walls' = walls
         /\ demo' = IF mine THEN "ended" ELSE demo
  <2>1. \/ /\ walls' = Changed(Head(updates))
           /\ demo' = CASE ~mine -> demo
                        [] mine /\ demo = "clear" -> "reset"
                        [] OTHER -> "send"
        \/ /\ Head(updates) = "static"
           /\ walls' = walls
           /\ demo' = IF mine THEN "ended" ELSE demo
    BY Zenon DEF ApplyUpdate
  <2> HIDE DEF mine
  <2> QED
    BY <1>2, <2>1
<1>4. ~mine => (surprise_sent' <=> surprise_sent)
  BY Zenon DEF ApplyUpdate
<1>5. /\ walls' \subseteq {"static", "surprise"}
      /\ updates[1] = "clear" => walls' = {}
  BY <1>2, <1>3 DEF Changed, WallInv, Updates
<1>6. CASE mine
  <2>1. updates' = <<>> /\ ~answer' /\ updates[1] = demo /\ demo \in {"clear", "static"} /\ ~in_callback
    <3>1. ~answer' /\ answer /\ Len(updates) = 1
      BY <1>1, <1>6, Zenon
    <3>2. updates' = <<>>
      BY <1>2, <3>1
    <3> QED
      BY <1>2, <3>1, <3>2 DEF WallInv
  <2>2. demo = "static" /\ clean => walls = {}
    BY <1>6, <2>1 DEF WallInv, Emptied
  <2>3. demo' = "send" /\ clean => walls' = {"static"}
    BY <1>3, <1>6, <2>1, <2>2 DEF Changed
  <2>4. demo' = "reset" => walls' = {}
    BY <1>3, <1>5, <1>6, <2>1
  <2>5. demo' \in {"reset", "send", "ended"}
    BY <1>3, <1>6
  <2> QED
    BY <1>1, <1>2, <1>3, <1>5, <2>1, <2>3, <2>4, <2>5 DEF WallInv, DemoSteps, Emptied
<1>7. CASE ~mine
  <2>1. /\ demo' = demo
        /\ surprise_sent' <=> surprise_sent
        /\ answer' <=> answer
    BY <1>1, <1>3, <1>7, <1>4, Zenon
  <2> DEFINE EmptiedNext(n) == IF n = 0 THEN walls' = {} ELSE updates'[n] = "clear"
  <2>2. ASSUME NEW n \in 1..Len(updates), Emptied(n)
        PROVE  EmptiedNext(n - 1)
    BY <1>2, <1>5, <2>2 DEF Emptied
  <2>3. Len(updates) - 1 \in 1..Len(updates) \/ ~answer
    BY <1>2, <1>7
  <2>4. (answer => demo \in {"clear", "static"} /\ updates # <<>> /\ updates[Len(updates)] = demo)'
    <3> SUFFICES ASSUME answer PROVE (updates # <<>> /\ updates[Len(updates)] = demo)'
      BY <2>1 DEF WallInv
    <3>1. Len(updates) > 1
      BY <1>2, <1>7
    <3> QED
      BY <1>2, <2>1, <3>1 DEF WallInv
  <2>5. (clean /\ demo \in {"server", "clear", "reset", "static"} /\ ~answer
           => Emptied(Len(updates)))'
    <3> SUFFICES ASSUME clean, demo \in {"server", "clear", "reset", "static"}, ~answer
                 PROVE Emptied(Len(updates))'
      BY <1>1, <2>1
    <3>1. Emptied(Len(updates))
      BY DEF WallInv
    <3>2. EmptiedNext(Len(updates) - 1)
      BY <1>2, <2>2, <3>1
    <3> QED
      BY <1>2, <3>2 DEF Emptied
  <2>6. (clean /\ demo = "static" /\ answer => Emptied(Len(updates) - 1))'
    <3> SUFFICES ASSUME clean, demo = "static", answer PROVE Emptied(Len(updates) - 1)'
      BY <1>1, <2>1
    <3>1. Emptied(Len(updates) - 1) /\ Len(updates) - 1 \in 1..Len(updates)
      BY <2>3 DEF WallInv
    <3>2. EmptiedNext(Len(updates) - 1 - 1)
      BY <1>2, <2>2, <3>1
    <3> QED
      BY <1>2, <3>2 DEF Emptied
  <2>7. ASSUME clean, demo \in {"send", "await"}
        PROVE  surprise_sent /\ updates' = <<>> /\ walls' = {"surprise"}
    <3>1. surprise_sent /\ updates = <<"swap">> /\ walls = {"static"}
      BY <1>1, <2>7 DEF WallInv
    <3>2. updates[1] = "swap" /\ updates' = <<>>
      BY <1>1, <3>1
    <3> QED
      BY <1>3, <3>1, <3>2 DEF Changed
  <2> QED
    BY <1>1, <1>2, <1>5, <2>1, <2>4, <2>5, <2>6, <2>7 DEF WallInv
<1> QED
  BY <1>6, <1>7

LEMMA WallStep == WallInv /\ [CellNext]_cell => WallInv'
<1> SUFFICES ASSUME WallInv, [CellNext]_cell PROVE WallInv'
  OBVIOUS
<1>2. CASE RunDemo
  <2>1. demo \in {"off", "ended"} /\ demo' = "server" /\ clean' = (demo = "off")
    BY <1>2 DEF RunDemo, StartDemo
  <2>2. UNCHANGED <<answer, in_callback, surprise_sent, walls, updates>>
    BY <1>2 DEF RunDemo, StartDemo
  <2> QED
    BY <2>1, <2>2 DEF WallInv, DemoSteps, Emptied
<1>3. CASE Demo
  BY <1>3, WallDemo, WallApplyObjects DEF Demo
<1>4. CASE Callback
  BY <1>4, WallCallback DEF Callback
<1>5. CASE Planner
  <2>1. CASE ApplyUpdate(GroupUp)
    BY <2>1, WallApply
  <2>2. CASE PlannerStep
    BY <2>2 DEF PlannerStep, scene, WallInv, Emptied
  <2> QED
    BY <1>5, <2>1, <2>2 DEF Planner, DemoEnvironment
<1>1. CASE UNCHANGED demoVars
  BY <1>1 DEF demoVars, WallInv, Emptied
<1> QED
  BY <1>1, <1>2, <1>3, <1>4, <1>5 DEF CellNext, BringUpStep, Start, Run, Execution, Answer, cell

\* While a goal of the demo is awaited the scene holds exactly one wall, however
\* late the updates of this run and of earlier ones are applied, wherever the
\* service is missing and whenever the launch ends, unless a later run has not
\* sent its clearing (on_global_solution, hybrid_planning_demo.py:272-290; run, 421-477).
THEOREM OneWall == CellSpec => []OneWallAtATime
<1>1. CellInit => WallInv
  BY WallInit
<1>2. WallInv /\ [CellNext]_cell => WallInv'
  BY WallStep
<1>3. WallInv => OneWallAtATime
  <2> SUFFICES ASSUME WallInv, demo = "await", clean
               PROVE  Cardinality(walls) = 1 /\ (walls = {"surprise"} => surprise_sent)
    BY DEF OneWallAtATime
  <2>1. walls = {"static"} \/ (walls = {"surprise"} /\ surprise_sent)
    BY DEF WallInv
  <2> QED
    BY <2>1, FS_Singleton
<1> QED
  BY <1>1, <1>2, <1>3, PTL DEF CellSpec

----------------------------------------------------------------------------
(* What the launch files work out.  The launch file is evaluated once, so     *)
(* each of the three theorems is about the values it computes; the lemmas go  *)
(* from dictionaries and names to the parameters of one arm, of two, and to   *)
(* the launch files.                                                          *)

\* Only the bring-up moves its own variables: the scripts of the second terminal
\* read them.
LEMMA BringUpMoves == [CellNext]_cell => [Next]_bringUp
BY DEF CellNext, BringUpStep, Start, Run, Execution, Answer, RunDemo, Demo, Callback, Planner, cell, bringUp

\* What a bring-up never changes: what was asked for, and what the launch file
\* worked out of it.
LaunchInv ==
  /\ setup \in Setups
  /\ launch = "running" => Launches(setup) /\ launched = Launched(setup)

\* Before the launch file is evaluated nothing runs.
LEMMA LaunchIsKept == CellInit => LaunchInv
BY DEF CellInit, Init, LaunchInv

\* The launch file is evaluated once (LaunchSetup), and nothing overwrites its
\* parameters afterwards.
LEMMA LaunchStep == LaunchInv /\ [CellNext]_cell => LaunchInv'
<1> SUFFICES ASSUME LaunchInv, [Next]_bringUp PROVE LaunchInv'
  BY BringUpMoves
<1>1. CASE LaunchSetup
  BY <1>1 DEF LaunchSetup, LaunchInv
<1>2. CASE UNCHANGED <<setup, launched>> /\ (launch' = "running" => launch = "running")
  BY <1>2 DEF LaunchInv
<1> QED
  BY <1>1, <1>2 DEF Next, CreatorExits, ControlUp, ControlDies, Spawn, GiveUp, RvizCloses,
                    Interrupted, Down, bringUp

\* dict.update: the keys of both, and the second one wins.
LEMMA UpdatedIs ==
  ASSUME NEW d, NEW e
  PROVE  /\ DOMAIN Updated(d, e) = DOMAIN d \cup DOMAIN e
         /\ \A c \in DOMAIN e : Updated(d, e)[c] = e[c]
         /\ \A c \in DOMAIN d \ DOMAIN e : Updated(d, e)[c] = d[c]
BY DEF Updated

\* A yaml map of one entry.
LEMMA EntryIs ==
  ASSUME NEW c, NEW j
  PROVE  DOMAIN Entry(c, j) = {c} /\ Entry(c, j)[c] = j
BY DEF Entry

\* The parts of any name.
LEMMA TripleIs ==
  ASSUME NEW p, NEW k, NEW o
  PROVE  <<p, k, o>>[1] = p /\ <<p, k, o>>[2] = k /\ <<p, k, o>>[3] = o
OBVIOUS

\* A name of a file with a prefix put before it, the empty prefix included.
LEMMA NameIs ==
  ASSUME NEW p, NEW k, NEW o
  PROVE  WithPrefix(p, Named(k, o)) = <<p, k, o>>
BY DEF WithPrefix, Named

\* controllers_name of the launch files: the driver serves the grippers of its own
\* arm, a simulated or a fake one has a controller for them.
FileOf(mode) == IF mode \in {"real", "demo_real"} THEN "controllers" ELSE "fake_controllers"

\* Every launch file of one arm that starts a move_group gives it what the builder
\* makes of that arm and of the controllers' file of the mode.
LEMMA SingleGroup ==
  ASSUME NEW mode \in SingleModes, NEW a, SingleLaunch(mode, a).group
  PROVE  /\ SingleLaunch(mode, a).moveit = to_moveit_configs(a, FileOf(mode), NoPipelines)
         /\ SingleLaunch(mode, a).driver <=> mode \in {"real", "demo_real", "mbot_real"}
BY DEF SingleLaunch, SingleModes, FakeLaunch, RealLaunch, GazeboLaunch, PyGazeboLaunch,
       DemoFake, DemoRealmove, ServoFake, ServoRealmove, MbotFake, MbotRealmove, MbotGazebo,
       RobotRos2Control, BesideTable, Launch, OnMbot, MbotMoveIt, FileOf

\* The same for two arms.
LEMMA DualGroup ==
  ASSUME NEW mode \in DualModes, NEW a, NEW b, DualLaunch(mode, a, b).group
  PROVE  /\ DualLaunch(mode, a, b).moveit = dual_to_moveit_configs(a, b, FileOf(mode), NoPipelines)
         /\ DualLaunch(mode, a, b).driver <=> mode \in {"real", "demo_real"}
BY DEF DualLaunch, DualModes, DualFakeLaunch, DualRealLaunch, DualGazeboLaunch, DemoDualFake,
       DemoDualRealmove, DualBesideTable, Launch, FileOf

\* What the running move_group was given, whatever is launched.
LEMMA MoveItOf ==
  ASSUME LaunchInv, launch = "running", launched.group
  PROVE  /\ FileOf(setup.mode) =
              IF launched.driver /\ ~OfMbot(setup) THEN "controllers" ELSE "fake_controllers"
         /\ \/ /\ Len(setup.arms) = 1
               /\ launched.moveit =
                    to_moveit_configs(setup.arms[1], FileOf(setup.mode), NoPipelines)
            \/ /\ Len(setup.arms) = 2
               /\ launched.moveit =
                    dual_to_moveit_configs(setup.arms[1], setup.arms[2], FileOf(setup.mode),
                                           NoPipelines)
<1> DEFINE mode == setup.mode  a == setup.arms[1]  b == setup.arms[2]
<1>1. \/ Len(setup.arms) = 1 /\ mode \in SingleModes
      \/ Len(setup.arms) = 2 /\ mode \in DualModes
  BY SetupsAssumption DEF LaunchInv
<1>2. launched = Launched(setup)
  BY DEF LaunchInv
<1>3. OfMbot(setup) <=> mode \in {"mbot_fake", "mbot_real", "mbot_gazebo"}
  BY DEF OfMbot
<1> HIDE DEF mode, a, b
<1>4. CASE Len(setup.arms) = 1
  <2>1. launched = SingleLaunch(mode, a) /\ mode \in SingleModes
    BY <1>1, <1>2, <1>4 DEF Launched, mode, a
  <2>2. /\ launched.moveit = to_moveit_configs(a, FileOf(mode), NoPipelines)
        /\ launched.driver <=> mode \in {"real", "demo_real", "mbot_real"}
    BY <2>1, SingleGroup
  <2> QED
    BY <1>3, <1>4, <2>1, <2>2 DEF FileOf, mode, a
<1>5. CASE Len(setup.arms) = 2
  <2>1. launched = DualLaunch(mode, a, b) /\ mode \in DualModes
    BY <1>1, <1>2, <1>5 DEF Launched, mode, a, b
  <2>2. /\ launched.moveit = dual_to_moveit_configs(a, b, FileOf(mode), NoPipelines)
        /\ launched.driver <=> mode \in {"real", "demo_real"}
    BY <2>1, DualGroup
  <2> QED
    BY <1>3, <1>5, <2>1, <2>2 DEF FileOf, DualModes, mode, a, b
<1> QED
  BY <1>1, <1>4, <1>5

\* The substitutions of one arm put together what the builder does.
LEMMA SingleDeferred ==
  ASSUME NEW a, NEW file
  PROVE  LET m == to_moveit_configs(a, file, NoPipelines)
         IN /\ m.controllers = ControllersYAML(a, file)
            /\ m.limits = JointLimitsYAML(a)
            /\ m.kinematics = KinematicsYAML(a)
            /\ m.pipelines.groups = PlanningPipelinesYAML(a)
BY DEF to_moveit_configs, trajectory_execution, ControllersYAML, joint_limits, JointLimitsYAML,
       robot_description_kinematics, KinematicsYAML, planning_pipelines, PlanningPipelinesYAML,
       NoPipelines, PipelinesOf

\* Those of two arms as well, unless the second one's gripper is looked up in the
\* folder of the first one's.
LEMMA DualDeferred ==
  ASSUME NEW a, NEW b, NEW file
  PROVE  LET m == dual_to_moveit_configs(a, b, file, NoPipelines)
         IN /\ GripperOf2(a, b) = GripperOf(b) => m.controllers = DualControllersYAML(a, b, file)
            /\ GripperOf2(a, b) = GripperOf(b) => m.limits = DualJointLimitsYAML(a, b)
            /\ m.kinematics = DualKinematicsYAML(a, b)
            /\ m.pipelines.groups = DualPlanningPipelinesYAML(a, b)
BY DEF dual_to_moveit_configs, dual_trajectory_execution, trajectory_execution,
       DualControllersYAML, ControllersYAML, dual_joint_limits, joint_limits,
       DualJointLimitsYAML, JointLimitsYAML, dual_robot_description_kinematics,
       robot_description_kinematics, DualKinematicsYAML, KinematicsYAML,
       dual_planning_pipelines, planning_pipelines, DualPlanningPipelinesYAML,
       PlanningPipelinesYAML, NoPipelines, PipelinesOf

\* A script that builds its parameters from substitutions, without a launch
\* context, gets what the launch file gave to the move_group it talks to: the same
\* controllers, limits, solvers and planners
\* (moveit_configs_builder.py: _load_yaml and the *YAML substitutions).
THEOREM ScriptsAgreeWithLaunch == CellSpec => []DeferredAgrees
<1>1. LaunchInv => DeferredAgrees
  <2> SUFFICES ASSUME LaunchInv, launch = "running", launched.group PROVE DeferredAgrees
    BY DEF DeferredAgrees
  <2> DEFINE a == setup.arms[1]  b == setup.arms[2]  file == FileOf(setup.mode)
  <2>1. CASE Len(setup.arms) = 1
    <3>1. launched.moveit = to_moveit_configs(a, file, NoPipelines)
      BY <2>1, MoveItOf
    <3> QED
      BY <2>1, <3>1, MoveItOf, SingleDeferred DEF DeferredAgrees
  <2>2. CASE Len(setup.arms) = 2
    <3>1. launched.moveit = dual_to_moveit_configs(a, b, file, NoPipelines)
      BY <2>2, MoveItOf
    <3> QED
      BY <2>2, <3>1, MoveItOf, DualDeferred DEF DeferredAgrees, SameGrippers
  <2> QED
    BY <2>1, <2>2, MoveItOf
<1> QED
  BY <1>1, LaunchIsKept, LaunchStep, PTL DEF CellSpec
----------------------------------------------------------------------------
(* What MoveIt is told covers the arms.                                       *)

\* A map from controllers to joints, renamed: each key and each joint once, none
\* lost or confused with another.
LEMMA PrefixedIs ==
  ASSUME NEW p, NEW d, \A n \in DOMAIN d : n = Named(n[2], n[3])
  PROVE  /\ DOMAIN PrefixedControllers(p, d) = AllWithPrefix(p, DOMAIN d)
         /\ \A n \in DOMAIN d :
              PrefixedControllers(p, d)[WithPrefix(p, n)] = AllWithPrefix(p, d[n])
<1> DEFINE e == [c \in DOMAIN d |-> AllWithPrefix(p, d[c])]
<1>1. DOMAIN e = DOMAIN d /\ \A n \in DOMAIN d : e[n] = AllWithPrefix(p, d[n])
  OBVIOUS
<1>2. PrefixedControllers(p, d) = Prefixed(p, e)
  BY DEF PrefixedControllers
<1> HIDE DEF e
<1>3. \A n \in DOMAIN d : Named(WithPrefix(p, n)[2], WithPrefix(p, n)[3]) = n
  BY NameIs, TripleIs
<1>4. DOMAIN Prefixed(p, e) = AllWithPrefix(p, DOMAIN d)
  BY <1>1 DEF Prefixed
<1>5. ASSUME NEW n \in DOMAIN d PROVE Prefixed(p, e)[WithPrefix(p, n)] = AllWithPrefix(p, d[n])
  <2>1. WithPrefix(p, n) \in AllWithPrefix(p, DOMAIN e)
    BY <1>1 DEF AllWithPrefix
  <2>2. Prefixed(p, e)[WithPrefix(p, n)] =
          e[Named(WithPrefix(p, n)[2], WithPrefix(p, n)[3])]
    BY <2>1 DEF Prefixed
  <2> QED
    BY <1>1, <1>3, <2>2
<1> QED
  BY <1>2, <1>4, <1>5

\* The controllers of an arm before they are renamed move joints of the arm or of
\* its gripper.
LEMMA ControllersOf ==
  ASSUME NEW a, NEW file
  PROVE  LET d == Updated(RobotYaml(RobotName(a)), GripperYaml(GripperOf(a), file))
         IN /\ \A n \in DOMAIN d : n = Named(n[2], n[3])
            /\ \A n \in DOMAIN d : d[n] \subseteq ArmJoints(RobotName(a)) \cup GripperLimits(GripperOf(a))
<1> DEFINE g == GripperOf(a)  r == RobotName(a)  y == GripperYaml(g, file)
<1>1. /\ DOMAIN RobotYaml(r) = {ArmController(r)}
      /\ RobotYaml(r)[ArmController(r)] = ArmJoints(r)
  BY EntryIs DEF RobotYaml
<1>2. ArmController(r) = Named(ArmController(r)[2], ArmController(r)[3])
  BY DEF ArmController, Named
<1>3. /\ \A n \in DOMAIN y : n = Named(n[2], n[3])
      /\ \A n \in DOMAIN y : y[n] \subseteq GripperLimits(g)
  <2>1. CASE g = "none"
    <3>1. DOMAIN y = {}
      BY <2>1 DEF GripperYaml
    <3> QED
      BY <3>1
  <2>2. CASE g # "none"
    <3>1. PICK k, o : y = Entry(Named(k, o), {MovedJoint(g)})
      <4>1. CASE file = "fake_controllers"
        BY <2>2, <4>1 DEF GripperYaml, GripperController
      <4>2. CASE file # "fake_controllers"
        BY <2>2, <4>2 DEF GripperYaml
      <4> QED
        BY <4>1, <4>2
    <3>2. DOMAIN y = {Named(k, o)} /\ y[Named(k, o)] = {MovedJoint(g)}
      BY <3>1, EntryIs
    <3>3. {MovedJoint(g)} \subseteq GripperLimits(g)
      BY <2>2 DEF GripperLimits
    <3>4. Named(k, o) = Named(Named(k, o)[2], Named(k, o)[3])
      BY DEF Named
    <3> QED
      BY <3>2, <3>3, <3>4
  <2> QED
    BY <2>1, <2>2
<1> DEFINE d == Updated(RobotYaml(r), y)
<1>4. /\ DOMAIN d = DOMAIN RobotYaml(r) \cup DOMAIN y
      /\ \A n \in DOMAIN y : d[n] = y[n]
      /\ \A n \in DOMAIN RobotYaml(r) \ DOMAIN y : d[n] = RobotYaml(r)[n]
  BY UpdatedIs
<1> HIDE DEF d, y, r, g
<1>5. \A n \in DOMAIN d : n = Named(n[2], n[3])
  BY <1>1, <1>2, <1>3, <1>4
<1>6. \A n \in DOMAIN d : d[n] \subseteq ArmJoints(r) \cup GripperLimits(g)
  BY <1>1, <1>3, <1>4
<1> QED
  BY <1>5, <1>6 DEF d, y, r, g

\* So does a renamed one, and its joints have limits.
LEMMA ControllersHaveLimits ==
  ASSUME NEW a, NEW file, NEW c \in DOMAIN trajectory_execution(a, file)
  PROVE  trajectory_execution(a, file)[c] \subseteq joint_limits(a)
<1> DEFINE d == Updated(RobotYaml(RobotName(a)), GripperYaml(GripperOf(a), file))
           limits == ArmJoints(RobotName(a)) \cup GripperLimits(GripperOf(a))
<1>1. /\ \A n \in DOMAIN d : n = Named(n[2], n[3])
      /\ \A n \in DOMAIN d : d[n] \subseteq limits
  BY ControllersOf
<1>2. trajectory_execution(a, file) = PrefixedControllers(a.prefix, d)
  BY DEF trajectory_execution
<1>3. joint_limits(a) = AllWithPrefix(a.prefix, limits)
  BY DEF joint_limits
<1> HIDE DEF d, limits
<1>4. PICK n \in DOMAIN d : c = WithPrefix(a.prefix, n)
  <2>1. c \in AllWithPrefix(a.prefix, DOMAIN d)
    BY <1>1, <1>2, PrefixedIs
  <2> QED
    BY <2>1 DEF AllWithPrefix
<1>5. trajectory_execution(a, file)[c] = AllWithPrefix(a.prefix, d[n])
  BY <1>1, <1>2, <1>4, PrefixedIs
<1>6. AllWithPrefix(a.prefix, d[n]) \subseteq AllWithPrefix(a.prefix, limits)
  BY <1>1, <1>4 DEF AllWithPrefix
<1> QED
  BY <1>3, <1>5, <1>6

\* A robot that has files goes by one name in the builder and in the launch files.
LEMMA RobotOf ==
  ASSUME NEW a, FilesExist(a)
  PROVE  /\ XarmType(a) = RobotName(a)
         /\ a.type \in {"xarm", "lite", "uf850", "xarm7_mirror"}
BY DEF FilesExist, Robots, RobotName, XarmType

\* The group of an arm's gripper in the SRDF, and under which name it has planners.
GripperGroup(g) ==
  CASE g = "bio" -> "bio_gripper" [] g = "uf850" -> "uf850_gripper" [] OTHER -> "xarm_gripper"

\* The groups of an arm in the SRDF, with solvers and with planners.
LEMMA GroupsAre ==
  ASSUME NEW a
  PROVE  LET g == GripperOf(a)
             arm == <<a.prefix, "group", RobotName(a)>>
             semantic == robot_description_semantic(a)
             tool == <<a.prefix, GripperGroup(g), <<"", 0>>>>
             planned == AllWithPrefix(a.prefix, GroupsOf(a, g))
         IN /\ robot_description_kinematics(a) = {arm}
            /\ g = "none" => semantic = {arm}
            /\ g # "none" => semantic = {arm, tool}
            /\ arm \in planned
            /\ g \notin {"none", "bio"} => tool \in planned
<1> DEFINE g == GripperOf(a)  r == RobotName(a)  p == a.prefix
<1>1. robot_description_kinematics(a) = {<<p, "group", r>>}
  BY NameIs DEF robot_description_kinematics
<1>2. g = "none" => robot_description_semantic(a) = {<<p, "group", r>>}
  BY NameIs DEF robot_description_semantic
<1>3. g # "none" => robot_description_semantic(a) =
                      {<<p, "group", r>>, <<p, GripperGroup(g), <<"", 0>>>>}
  <2> SUFFICES ASSUME g # "none" PROVE robot_description_semantic(a) =
                 {<<p, "group", r>>, <<p, GripperGroup(g), <<"", 0>>>>}
    OBVIOUS
  <2>1. robot_description_semantic(a) =
          {WithPrefix(p, Named("group", r))} \cup {WithPrefix(p, Named(GripperGroup(g), <<"", 0>>))}
    <3>1. CASE g = "bio"
      BY <3>1 DEF robot_description_semantic, GripperGroup
    <3>2. CASE g = "uf850"
      BY <3>2 DEF robot_description_semantic, GripperGroup
    <3>3. CASE g \notin {"none", "bio", "uf850"}
      BY <3>3 DEF robot_description_semantic, GripperGroup
    <3> QED
      BY <3>1, <3>2, <3>3
  <2>2. /\ WithPrefix(p, Named("group", r)) = <<p, "group", r>>
        /\ WithPrefix(p, Named(GripperGroup(g), <<"", 0>>)) = <<p, GripperGroup(g), <<"", 0>>>>
    BY DEF WithPrefix, Named
  <2> QED
    BY <2>1, <2>2
<1>4. WithPrefix(p, Named("group", r)) \in AllWithPrefix(p, GroupsOf(a, g))
  BY DEF AllWithPrefix, GroupsOf
<1>5. g \notin {"none", "bio"} =>
        WithPrefix(p, Named(GripperGroup(g), <<"", 0>>)) \in AllWithPrefix(p, GroupsOf(a, g))
  <2>1. g \notin {"none", "bio"} => Named(GripperGroup(g), <<"", 0>>) \in GroupsOf(a, g)
    BY DEF GroupsOf, GripperGroup
  <2> QED
    BY <2>1 DEF AllWithPrefix
<1>6. /\ <<p, "group", r>> \in AllWithPrefix(p, GroupsOf(a, g))
      /\ g \notin {"none", "bio"} =>
           <<p, GripperGroup(g), <<"", 0>>>> \in AllWithPrefix(p, GroupsOf(a, g))
  <2>1. /\ WithPrefix(p, Named("group", r)) = <<p, "group", r>>
        /\ WithPrefix(p, Named(GripperGroup(g), <<"", 0>>)) = <<p, GripperGroup(g), <<"", 0>>>>
    BY DEF WithPrefix, Named
  <2> QED
    BY <1>4, <1>5, <2>1
<1> QED
  BY <1>1, <1>2, <1>3, <1>6

\* An arm has a solver and its groups have planners, except the bio gripper's.
LEMMA ArmIsCovered ==
  ASSUME NEW a, FilesExist(a)
  PROVE  LET semantic == robot_description_semantic(a)
         IN /\ robot_description_kinematics(a) = {n \in semantic : n[2] = "group"}
            /\ {n \in semantic : n[2] # "bio_gripper"}
                 \subseteq AllWithPrefix(a.prefix, GroupsOf(a, GripperOf(a)))
<1> DEFINE g == GripperOf(a)
           arm == <<a.prefix, "group", RobotName(a)>>
           tool == <<a.prefix, GripperGroup(g), <<"", 0>>>>
           semantic == robot_description_semantic(a)
           planned == AllWithPrefix(a.prefix, GroupsOf(a, g))
<1>1. /\ robot_description_kinematics(a) = {arm}
      /\ g = "none" => semantic = {arm}
      /\ g # "none" => semantic = {arm, tool}
      /\ arm \in planned
      /\ g \notin {"none", "bio"} => tool \in planned
  BY GroupsAre
<1>2. arm[2] = "group" /\ tool[2] = GripperGroup(g)
  BY TripleIs
<1>3. GripperGroup(g) # "group" /\ (g = "bio" => GripperGroup(g) = "bio_gripper")
  BY DEF GripperGroup
<1> HIDE DEF arm, tool, semantic, planned, g
<1>4. {arm} = {n \in semantic : n[2] = "group"}
  BY <1>1, <1>2, <1>3
<1>5. {n \in semantic : n[2] # "bio_gripper"} \subseteq planned
  BY <1>1, <1>2, <1>3
<1> QED
  BY <1>1, <1>4, <1>5 DEF semantic, planned, g

\* The group of an arm's own gripper.
LEMMA OwnGripperIsGroup ==
  ASSUME NEW a, FilesExist(a), a.add_gripper, a.type # "lite"
  PROVE  /\ a.type = "uf850" => <<a.prefix, "uf850_gripper", <<"", 0>>>> \in robot_description_semantic(a)
         /\ a.type # "uf850" => <<a.prefix, "xarm_gripper", <<"", 0>>>> \in robot_description_semantic(a)
<1>1. GripperOf(a) = a.type /\ a.type \in {"xarm", "uf850", "xarm7_mirror"}
  BY RobotOf DEF GripperOf
<1> QED
  BY <1>1, GroupsAre DEF GripperGroup

\* What the builder of one arm makes covers that arm.
LEMMA SingleCovered ==
  ASSUME NEW a, FilesExist(a), NEW file
  PROVE  LET m == to_moveit_configs(a, file, NoPipelines)
         IN /\ UNION {m.controllers[c] : c \in DOMAIN m.controllers} \subseteq m.limits
            /\ m.kinematics = {n \in m.semantic : n[2] = "group"}
            /\ {n \in m.semantic : n[2] # "bio_gripper"} \subseteq m.pipelines.groups
            /\ m.pipelines.defaults \subseteq m.pipelines.loaded
<1>1. UNION {trajectory_execution(a, file)[c] : c \in DOMAIN trajectory_execution(a, file)}
        \subseteq joint_limits(a)
  BY ControllersHaveLimits
<1>2. planning_pipelines(a, NoPipelines) =
        [loaded |-> {"ompl"}, defaults |-> {"ompl"},
         groups |-> AllWithPrefix(a.prefix, GroupsOf(a, GripperOf(a)))]
  BY DEF planning_pipelines, NoPipelines, PipelinesOf, DefaultPipelines
<1> QED
  BY <1>1, <1>2, ArmIsCovered DEF to_moveit_configs

\* What the builder of two arms makes covers both.
LEMMA DualCovered ==
  ASSUME NEW a, NEW b, FilesExist(a), FilesExist(b), NEW file
  PROVE  LET m == dual_to_moveit_configs(a, b, file, NoPipelines)
         IN /\ GripperOf2(a, b) = GripperOf(b) =>
                 UNION {m.controllers[c] : c \in DOMAIN m.controllers} \subseteq m.limits
            /\ m.kinematics = {n \in m.semantic : n[2] = "group"}
            /\ {n \in m.semantic : n[2] # "bio_gripper"} \subseteq m.pipelines.groups
            /\ m.pipelines.defaults \subseteq m.pipelines.loaded
<1> DEFINE d == trajectory_execution(a, file)  e == trajectory_execution(b, file)
           both == Updated(d, e)
           m == dual_to_moveit_configs(a, b, file, NoPipelines)
<1>1. ASSUME GripperOf2(a, b) = GripperOf(b), NEW c \in DOMAIN both
      PROVE  both[c] \subseteq dual_joint_limits(a, b)
  <2>1. dual_joint_limits(a, b) = joint_limits(a) \cup joint_limits(b)
    BY <1>1 DEF dual_joint_limits, joint_limits
  <2>2. /\ \A n \in DOMAIN d : d[n] \subseteq joint_limits(a)
        /\ \A n \in DOMAIN e : e[n] \subseteq joint_limits(b)
    BY ControllersHaveLimits
  <2>3. c \in DOMAIN d \/ c \in DOMAIN e
    BY <1>1, UpdatedIs
  <2>4. both[c] = IF c \in DOMAIN e THEN e[c] ELSE d[c]
    BY <2>3 DEF Updated
  <2> HIDE DEF d, e, both
  <2> QED
    BY <2>1, <2>2, <2>3, <2>4
<1>2. \A c \in {a, b} : planning_pipelines(c, NoPipelines) =
        [loaded |-> {"ompl"}, defaults |-> {"ompl"},
         groups |-> AllWithPrefix(c.prefix, GroupsOf(c, GripperOf(c)))]
  BY DEF planning_pipelines, NoPipelines, PipelinesOf, DefaultPipelines
<1>3. /\ m.controllers = both /\ m.limits = dual_joint_limits(a, b)
      /\ m.kinematics = robot_description_kinematics(a) \cup robot_description_kinematics(b)
      /\ m.semantic = robot_description_semantic(a) \cup robot_description_semantic(b)
      /\ m.pipelines = dual_planning_pipelines(a, b, NoPipelines)
  BY DEF dual_to_moveit_configs, dual_trajectory_execution, dual_robot_description_kinematics,
         dual_robot_description_semantic
<1>4. /\ m.pipelines.defaults \subseteq m.pipelines.loaded
      /\ m.pipelines.groups = AllWithPrefix(a.prefix, GroupsOf(a, GripperOf(a))) \cup
                              AllWithPrefix(b.prefix, GroupsOf(b, GripperOf(b)))
  BY <1>2, <1>3 DEF dual_planning_pipelines, DefaultPipelines
<1> HIDE DEF m, both
<1> QED
  BY <1>1, <1>3, <1>4, ArmIsCovered DEF m

\* The groups xarm_planner's nodes ask for are in the SRDF.
LEMMA PlannersAsk ==
  ASSUME LaunchInv, launch = "running", launched.group
  PROVE  PlannerGroups \ Misnamed \subseteq launched.moveit.semantic
<1> DEFINE a == setup.arms[1]  b == setup.arms[2]
           G(c) == <<c.prefix, "group", RobotName(c)>>
<1>1. ASSUME NEW c, FilesExist(c)
      PROVE  ArmGroup(c.prefix, XarmType(c)) = G(c) /\ G(c) \in robot_description_semantic(c)
  <2>1. ArmGroup(c.prefix, XarmType(c)) = G(c)
    BY <1>1, NameIs, RobotOf DEF ArmGroup
  <2>2. G(c) \in robot_description_semantic(c)
    BY GroupsAre
  <2> QED
    BY <2>1, <2>2
<1>2. Launches(setup)
  BY DEF LaunchInv
<1>3. CASE Len(setup.arms) = 1
  <2>1. FilesExist(a)
    BY <1>2, <1>3 DEF Launches
  <2>2. launched.moveit.semantic = robot_description_semantic(a)
    BY <1>3, MoveItOf DEF to_moveit_configs
  <2>3. ASSUME NEW n \in RobotPlanner(a), n \notin Misnamed
        PROVE  n \in robot_description_semantic(a)
    <3>1. CASE n = ArmGroup(a.prefix, XarmType(a))
      BY <1>1, <2>1, <3>1
    <3>2. CASE /\ a.add_gripper /\ a.type # "lite"
               /\ n = Named(IF a.type = "uf850" THEN "uf850_gripper" ELSE "xarm_gripper", <<"", 0>>)
      <4>1. a.prefix = ""
        BY <1>3, <2>3, <3>2 DEF Misnamed
      <4>2. n = <<a.prefix, IF a.type = "uf850" THEN "uf850_gripper" ELSE "xarm_gripper", <<"", 0>>>>
        BY <3>2, <4>1 DEF Named
      <4> QED
        BY <2>1, <3>2, <4>2, OwnGripperIsGroup
    <3> QED
      BY <2>3, <3>1, <3>2 DEF RobotPlanner
  <2> QED
    BY <1>3, <2>2, <2>3 DEF PlannerGroups
<1>4. CASE Len(setup.arms) = 2
  <2>1. FilesExist(a) /\ FilesExist(b)
    BY <1>2, <1>4 DEF Launches
  <2>2. launched.moveit.semantic = robot_description_semantic(a) \cup robot_description_semantic(b)
    BY <1>4, MoveItOf DEF dual_to_moveit_configs, dual_robot_description_semantic
  <2>3. Arms = {a, b}
    BY <1>4 DEF Arms
  <2>4. ASSUME NEW n \in DualRobotPlanner(a, b), n \notin Misnamed
        PROVE  \E c \in {a, b} : n \in robot_description_semantic(c)
    <3>1. CASE \E c \in {a, b} : n = ArmGroup(c.prefix, XarmType(c))
      BY <1>1, <2>1, <3>1
    <3>2. ASSUME NEW c \in {a, b}, c.add_gripper, c.type # "lite",
                 n = WithPrefix(c.prefix, Named(
                       CASE c.type = "xarm" -> "xarm_gripper" [] c.type = "uf850" -> "uf850_gripper"
                         [] OTHER -> "xarm7_mirror_gripper", <<"", 0>>))
          PROVE  n \in robot_description_semantic(c)
      <4>1. c.type \in {"xarm", "uf850"}
        <5>1. Misnamed = {WithPrefix(k.prefix, Named("xarm7_mirror_gripper", <<"", 0>>)) : k \in {a, b}}
          BY <1>4, <2>3 DEF Misnamed
        <5>2. c.type \notin {"xarm", "uf850"} =>
                n = WithPrefix(c.prefix, Named("xarm7_mirror_gripper", <<"", 0>>))
          BY <3>2
        <5> QED
          BY <2>4, <3>2, <5>1, <5>2
      <4>2. n = WithPrefix(c.prefix, Named(IF c.type = "uf850" THEN "uf850_gripper"
                                           ELSE "xarm_gripper", <<"", 0>>))
        BY <3>2, <4>1
      <4>3. n = <<c.prefix, IF c.type = "uf850" THEN "uf850_gripper" ELSE "xarm_gripper", <<"", 0>>>>
        <5> DEFINE k == IF c.type = "uf850" THEN "uf850_gripper" ELSE "xarm_gripper"
        <5>1. n = WithPrefix(c.prefix, Named(k, <<"", 0>>))
          BY <4>2
        <5> HIDE DEF k
        <5>2. WithPrefix(c.prefix, Named(k, <<"", 0>>)) = <<c.prefix, k, <<"", 0>>>>
          BY DEF WithPrefix, Named
        <5> QED
          BY <5>1, <5>2 DEF k
      <4> QED
        BY <2>1, <3>2, <4>1, <4>3, OwnGripperIsGroup
    <3> QED
      BY <2>4, <3>1, <3>2 DEF DualRobotPlanner
  <2> QED
    BY <1>4, <2>2, <2>4 DEF PlannerGroups
<1> QED
  BY <1>3, <1>4, MoveItOf

\* The parameters of a running move_group cover the arms it plans for: joints that
\* its controllers move have limits, arms have solvers, groups have planners, and
\* the groups that xarm_planner's nodes plan for are in the SRDF
\* (moveit_configs_builder.py: joint_limits, robot_description_kinematics,
\* planning_pipelines; _robot_planner.launch.py and _dual_robot_planner.launch.py).
THEOREM MoveItKnowsItsArms == CellSpec => []ConfigCoversArms
<1>1. LaunchInv => ConfigCoversArms
  <2> SUFFICES ASSUME LaunchInv, launch = "running", launched.group PROVE ConfigCoversArms
    BY DEF ConfigCoversArms
  <2> DEFINE a == setup.arms[1]  b == setup.arms[2]  file == FileOf(setup.mode)
  <2>1. Launches(setup) /\ PlannerGroups \ Misnamed \subseteq launched.moveit.semantic
    BY PlannersAsk DEF LaunchInv
  <2>2. CASE Len(setup.arms) = 1
    <3>1. FilesExist(a) /\ launched.moveit = to_moveit_configs(a, file, NoPipelines)
      BY <2>1, <2>2, MoveItOf DEF Launches
    <3> HIDE DEF a, file
    <3> QED
      BY <2>1, <3>1, SingleCovered DEF ConfigCoversArms
  <2>3. CASE Len(setup.arms) = 2
    <3>1. /\ FilesExist(a) /\ FilesExist(b)
          /\ launched.moveit = dual_to_moveit_configs(a, b, file, NoPipelines)
          /\ SameGrippers => GripperOf2(a, b) = GripperOf(b)
      BY <2>1, <2>3, MoveItOf DEF Launches, SameGrippers
    <3> HIDE DEF a, b, file
    <3> QED
      BY <2>1, <3>1, DualCovered DEF ConfigCoversArms
  <2> QED
    BY <2>2, <2>3, MoveItOf
<1> QED
  BY <1>1, LaunchIsKept, LaunchStep, PTL DEF CellSpec
----------------------------------------------------------------------------
(* The parameters of the controller manager.                                  *)

\* The controllers of a manager whose file says u, for an arm with the prefix p.
Renamed(K, p, u) ==
  /\ Broadcaster \in DOMAIN K /\ K[Broadcaster] = {}
  /\ \A n \in DOMAIN u \ {Broadcaster} :
       WithPrefix(p, n) \in DOMAIN K /\ K[WithPrefix(p, n)] = AllWithPrefix(p, u[n])
  /\ \A c \in DOMAIN K \ {Broadcaster} :
       \E n \in DOMAIN u \ {Broadcaster} : c = WithPrefix(p, n)

\* The names of a file have no prefix.
Unprefixed(u) == \A n \in DOMAIN u : n = Named(n[2], n[3])

\* add_prefix_to_ros2_control_params renames all but the broadcaster.
LEMMA PrefixIsAdded ==
  ASSUME NEW p, NEW u, Unprefixed(u)
  PROVE  Renamed(add_prefix_to_ros2_control_params(p, u), p, u)
<1> DEFINE v == [c \in DOMAIN u \ {Broadcaster} |-> u[c]]
           w == PrefixedControllers(p, v)
           K == add_prefix_to_ros2_control_params(p, u)
<1>1. /\ DOMAIN v = DOMAIN u \ {Broadcaster}
      /\ \A n \in DOMAIN v : v[n] = u[n] /\ n = Named(n[2], n[3])
  BY DEF Unprefixed
<1>2. /\ DOMAIN w = AllWithPrefix(p, DOMAIN v)
      /\ \A n \in DOMAIN v : w[WithPrefix(p, n)] = AllWithPrefix(p, v[n])
  <2> HIDE DEF v
  <2> QED
    BY <1>1, PrefixedIs
<1>3. K = Updated(Entry(Broadcaster, {}), w)
  BY DEF add_prefix_to_ros2_control_params
<1> HIDE DEF v, w, K
<1>4. ASSUME NEW n \in DOMAIN v PROVE WithPrefix(p, n) # Broadcaster
  <2>1. n # Broadcaster /\ n = <<"", n[2], n[3]>>
    BY <1>1 DEF Named
  <2>2. WithPrefix(p, n) = <<p, n[2], n[3]>>
    BY <2>1 DEF WithPrefix
  <2>3. Broadcaster = <<"", "joint_state_broadcaster", <<"", 0>>>>
    BY DEF Broadcaster, Named
  <2>4. n[2] # "joint_state_broadcaster" \/ n[3] # <<"", 0>>
    BY <2>1, <2>3
  <2>5. WithPrefix(p, n)[2] = n[2] /\ WithPrefix(p, n)[3] = n[3]
    BY <2>2
  <2>6. Broadcaster[2] = "joint_state_broadcaster" /\ Broadcaster[3] = <<"", 0>>
    BY DEF Broadcaster, Named
  <2> QED
    BY <2>4, <2>5, <2>6
<1>5. /\ DOMAIN K = {Broadcaster} \cup DOMAIN w
      /\ \A c \in DOMAIN K : K[c] = IF c \in DOMAIN w THEN w[c] ELSE {}
  BY <1>3 DEF Updated, Entry
<1>6. Broadcaster \notin DOMAIN w
  BY <1>2, <1>4 DEF AllWithPrefix
<1>7. \A n \in DOMAIN v : WithPrefix(p, n) \in DOMAIN w
  BY <1>2 DEF AllWithPrefix
<1>8. \A c \in DOMAIN w : \E n \in DOMAIN v : c = WithPrefix(p, n)
  BY <1>2 DEF AllWithPrefix
<1>9. Broadcaster \in DOMAIN K /\ K[Broadcaster] = {}
  BY <1>5, <1>6
<1>10. \A n \in DOMAIN v : WithPrefix(p, n) \in DOMAIN K /\ K[WithPrefix(p, n)] = AllWithPrefix(p, u[n])
  BY <1>1, <1>2, <1>5, <1>7
<1> QED
  BY <1>1, <1>5, <1>8, <1>9, <1>10 DEF Renamed, K

\* A file taken as it is.
LEMMA NoPrefixIsAdded ==
  ASSUME NEW u, Unprefixed(u), Broadcaster \in DOMAIN u, u[Broadcaster] = {}
  PROVE  Renamed(u, "", u)
<1>1. \A n \in DOMAIN u : WithPrefix("", n) = n
  BY DEF WithPrefix
<1>2. \A S : AllWithPrefix("", S) = S
  BY DEF AllWithPrefix, WithPrefix
<1> QED
  BY <1>1, <1>2 DEF Renamed

\* The controller of an arm's gripper.
Tool(a) == GripperController(GripperOf(a))

\* What a manager's file says of an arm, its gripper and a base.
FileOfArm(u, a) ==
  /\ Unprefixed(u)
  /\ Broadcaster \in DOMAIN u
  /\ ArmController(RobotName(a)) \in DOMAIN u
  /\ u[ArmController(RobotName(a))] = ArmJoints(RobotName(a))
  /\ GripperOf(a) # "none" => Tool(a) \in DOMAIN u /\ u[Tool(a)] = {MovedJoint(GripperOf(a))}
  /\ MbotController \in DOMAIN u => u[MbotController] = {}

\* ... and what the manager then knows.
Serves(K, a) ==
  /\ Broadcaster \in DOMAIN K /\ K[Broadcaster] = {}
  /\ ArmTrajController(a) \in DOMAIN K
  /\ K[ArmTrajController(a)] = AllWithPrefix(a.prefix, ArmJoints(RobotName(a)))
  /\ GripperOf(a) # "none" =>
       /\ WithPrefix(a.prefix, Tool(a)) \in DOMAIN K
       /\ K[WithPrefix(a.prefix, Tool(a))] = AllWithPrefix(a.prefix, {MovedJoint(GripperOf(a))})

\* No two kinds of controllers share a name.
LEMMA KindsDiffer ==
  ASSUME NEW r, NEW g
  PROVE  /\ Broadcaster # ArmController(r) /\ Broadcaster # GripperController(g)
         /\ Broadcaster # MbotController /\ ArmController(r) # GripperController(g)
         /\ MbotController # ArmController(r) /\ MbotController # GripperController(g)
<1>1. /\ Broadcaster[2] = "joint_state_broadcaster" /\ MbotController[2] = "mbot_traj_controller"
      /\ ArmController(r)[2] = "traj_controller"
      /\ GripperController(g)[2] = "gripper_traj_controller"
  BY DEF Broadcaster, MbotController, ArmController, GripperController, Named
<1> QED
  BY <1>1

\* A manager whose file says what an arm needs serves the arm under its prefix.
LEMMA ManagerServes ==
  ASSUME NEW a, FilesExist(a), NEW K, NEW u, FileOfArm(u, a), Renamed(K, a.prefix, u)
  PROVE  /\ Serves(K, a)
         /\ MbotController \in DOMAIN K => K[MbotController] = {}
<1>1. ArmTrajController(a) = WithPrefix(a.prefix, ArmController(RobotName(a)))
  BY RobotOf DEF ArmTrajController
<1>2. Serves(K, a)
  BY <1>1, KindsDiffer DEF Serves, Renamed, FileOfArm, Tool
<1>3. ASSUME MbotController \in DOMAIN K PROVE K[MbotController] = {}
  <2>1. PICK n \in DOMAIN u \ {Broadcaster} : MbotController = WithPrefix(a.prefix, n)
    BY <1>3, KindsDiffer DEF Renamed
  <2>2. n = <<"", n[2], n[3]>> /\ WithPrefix(a.prefix, n) = <<a.prefix, n[2], n[3]>>
    BY DEF FileOfArm, Unprefixed, Named, WithPrefix
  <2>3. MbotController = <<"", "mbot_traj_controller", <<"", 0>>>>
    BY DEF MbotController, Named
  <2>4. n[2] = "mbot_traj_controller" /\ n[3] = <<"", 0>>
    <3>1. <<a.prefix, n[2], n[3]>>[2] = n[2] /\ <<a.prefix, n[2], n[3]>>[3] = n[3]
      OBVIOUS
    <3>2. MbotController[2] = n[2] /\ MbotController[3] = n[3]
      BY <2>1, <2>2, <3>1
    <3>3. MbotController[2] = "mbot_traj_controller" /\ MbotController[3] = <<"", 0>>
      BY DEF MbotController, Named
    <3> QED
      BY <3>2, <3>3
  <2>5. n = MbotController
    BY <2>2, <2>3, <2>4
  <2>6. K[MbotController] = AllWithPrefix(a.prefix, {})
    BY <2>1, <2>5 DEF Renamed, FileOfArm
  <2> QED
    BY <2>6 DEF AllWithPrefix
<1> QED
  BY <1>2, <1>3

\* The gripper's file that is merged in is that of the gripper MoveIt is told of,
\* or there is none for it.
LEMMA GripperFileIs ==
  ASSUME NEW a, FilesExist(a)
  PROVE  /\ \A n \in DOMAIN GripperFile(a) : \E o : n = GripperController(o)
         /\ GripperOf(a) # "none" =>
              /\ Tool(a) \in DOMAIN GripperFile(a)
              /\ GripperFile(a)[Tool(a)] = {MovedJoint(GripperOf(a))}
         /\ ~a.add_gripper /\ ~a.add_bio_gripper => GripperOf(a) = "none" /\ DOMAIN GripperFile(a) = {}
<1>1. \/ DOMAIN GripperFile(a) = {} /\ GripperOf(a) = "none"
      \/ \E g : /\ GripperFile(a) = Entry(GripperController(g), {MovedJoint(g)})
                /\ a.add_gripper \/ a.add_bio_gripper
                /\ GripperOf(a) \in {"none", g}
  <2>1. CASE a.add_gripper /\ a.type \in Grippers
    BY <2>1 DEF GripperFile, GripperOf
  <2>2. CASE a.add_gripper /\ a.type \notin Grippers
    <3>1. a.type = "lite"
      BY <2>2, RobotOf DEF Grippers
    <3>2. GripperFile(a) = <<>>
      BY <2>2 DEF GripperFile
    <3>3. GripperOf(a) = "none"
      BY <3>1 DEF GripperOf
    <3>4. DOMAIN <<>> = {}
      OBVIOUS
    <3> QED
      BY <3>2, <3>3, <3>4
  <2>3. CASE ~a.add_gripper /\ a.add_bio_gripper
    BY <2>3 DEF GripperFile, GripperOf
  <2>4. CASE ~a.add_gripper /\ ~a.add_bio_gripper
    BY <2>4 DEF GripperFile, GripperOf
  <2> QED
    BY <2>1, <2>2, <2>3, <2>4
<1>2. CASE DOMAIN GripperFile(a) = {} /\ GripperOf(a) = "none"
  BY <1>2
<1>3. ASSUME NEW g, GripperFile(a) = Entry(GripperController(g), {MovedJoint(g)}),
             a.add_gripper \/ a.add_bio_gripper, GripperOf(a) \in {"none", g}
      PROVE  /\ \A n \in DOMAIN GripperFile(a) : \E o : n = GripperController(o)
             /\ GripperOf(a) # "none" =>
                  /\ Tool(a) \in DOMAIN GripperFile(a)
                  /\ GripperFile(a)[Tool(a)] = {MovedJoint(GripperOf(a))}
  <2>1. /\ DOMAIN GripperFile(a) = {GripperController(g)}
        /\ GripperFile(a)[GripperController(g)] = {MovedJoint(g)}
    BY <1>3 DEF Entry
  <2>2. GripperOf(a) # "none" => Tool(a) = GripperController(g) /\ GripperOf(a) = g
    BY <1>3 DEF Tool
  <2> HIDE DEF Tool
  <2> QED
    BY <2>1, <2>2
<1>4. ~a.add_gripper /\ ~a.add_bio_gripper => DOMAIN GripperFile(a) = {} /\ GripperOf(a) = "none"
  BY <1>1
<1>5. CASE \E g : /\ GripperFile(a) = Entry(GripperController(g), {MovedJoint(g)})
                  /\ a.add_gripper \/ a.add_bio_gripper
                  /\ GripperOf(a) \in {"none", g}
  <2>1. PICK g : /\ GripperFile(a) = Entry(GripperController(g), {MovedJoint(g)})
                 /\ a.add_gripper \/ a.add_bio_gripper
                 /\ GripperOf(a) \in {"none", g}
    BY <1>5
  <2> QED
    BY <1>3, <1>4, <2>1
<1> QED
  BY <1>1, <1>2, <1>4, <1>5

\* An arm's file, or the mobile base's for an xArm6, with the gripper's merged in.
LEMMA FileIs ==
  ASSUME NEW a, FilesExist(a), NEW base,
         \/ base = ControllersFile(RobotName(a)).controllers
         \/ base = MbotFile.controllers /\ RobotName(a) = <<"xarm", 6>>
  PROVE  /\ FileOfArm(Updated(base, GripperFile(a)), a)
         /\ ~a.add_gripper /\ ~a.add_bio_gripper => FileOfArm(base, a)
         /\ base[Broadcaster] = {}
<1> DEFINE r == RobotName(a)  arm == ArmController(r)
           y == RobotYaml(r)
           f == Updated(y, Entry(Broadcaster, {}))
           h == Updated(f, Entry(MbotController, {}))
<1>1. base = f \/ base = h
  BY DEF ControllersFile, MbotFile
<1>2. DOMAIN y = {arm} /\ y[arm] = ArmJoints(r)
  BY EntryIs DEF RobotYaml
<1>3. arm = Named(arm[2], arm[3]) /\ Broadcaster = Named(Broadcaster[2], Broadcaster[3])
      /\ MbotController = Named(MbotController[2], MbotController[3])
  BY DEF ArmController, Broadcaster, MbotController, Named
<1>4. arm # Broadcaster /\ arm # MbotController /\ Broadcaster # MbotController
  BY KindsDiffer
<1> HIDE DEF arm, y
<1>5. DOMAIN f = {arm, Broadcaster} /\ f[arm] = ArmJoints(r) /\ f[Broadcaster] = {}
  BY <1>2, <1>4 DEF Updated, Entry
<1> HIDE DEF f
<1>6. /\ DOMAIN h = {arm, Broadcaster, MbotController}
      /\ h[arm] = ArmJoints(r) /\ h[Broadcaster] = {} /\ h[MbotController] = {}
  BY <1>4, <1>5 DEF Updated, Entry
<1> HIDE DEF h
<1>7. /\ {arm, Broadcaster} \subseteq DOMAIN base
      /\ DOMAIN base \subseteq {arm, Broadcaster, MbotController}
      /\ base[arm] = ArmJoints(r) /\ base[Broadcaster] = {}
      /\ MbotController \in DOMAIN base => base[MbotController] = {}
  BY <1>1, <1>4, <1>5, <1>6
<1>8. Unprefixed(base)
  BY <1>3, <1>7 DEF Unprefixed
<1>9. ~a.add_gripper /\ ~a.add_bio_gripper => FileOfArm(base, a)
  BY <1>7, <1>8, GripperFileIs DEF FileOfArm, arm
<1> DEFINE e == GripperFile(a)  u == Updated(base, e)
<1>10. /\ \A n \in DOMAIN e : \E o : n = GripperController(o)
       /\ GripperOf(a) # "none" => Tool(a) \in DOMAIN e /\ e[Tool(a)] = {MovedJoint(GripperOf(a))}
  BY GripperFileIs
<1>11. DOMAIN u = DOMAIN base \cup DOMAIN e
       /\ \A n \in DOMAIN base \cup DOMAIN e : u[n] = IF n \in DOMAIN e THEN e[n] ELSE base[n]
  BY DEF Updated
<1> HIDE DEF e, u
<1>12. \A n \in DOMAIN e : n = Named(n[2], n[3])
  <2> TAKE n \in DOMAIN e
  <2>1. PICK o : n = GripperController(o)
    BY <1>10
  <2> QED
    BY <2>1 DEF GripperController, Named
<1>13. arm \notin DOMAIN e /\ Broadcaster \notin DOMAIN e /\ MbotController \notin DOMAIN e
  <2> USE DEF arm
  <2> QED
    BY <1>10, KindsDiffer
<1>14. Unprefixed(u)
  BY <1>8, <1>11, <1>12 DEF Unprefixed
<1>15. FileOfArm(u, a)
  BY <1>7, <1>10, <1>11, <1>13, <1>14 DEF FileOfArm, arm
<1> QED
  BY <1>7, <1>9, <1>15 DEF u, e

\* A manager that serves an arm, by the clock of a simulation or not.
Manages(K, a, sim) ==
  /\ Serves(K.controllers, a)
  /\ MbotController \in DOMAIN K.controllers => K.controllers[MbotController] = {}
  /\ K.use_sim_time = sim

\* The manager's parameters for one arm.
LEMMA GeneratedServes ==
  ASSUME NEW a, FilesExist(a), NEW file, NEW rate, NEW sim \in BOOLEAN,
         \/ file = ControllersFile(XarmType(a))
         \/ file = MbotFile /\ RobotName(a) = <<"xarm", 6>>,
         rate = 1000 \/ (rate = NoRate /\ ~sim)
  PROVE  Manages(generate_ros2_control_params_temp_file(file, a, rate, sim), a, sim)
<1> DEFINE base == file.controllers  K == generate_ros2_control_params_temp_file(file, a, rate, sim)
           u == Updated(base, GripperFile(a))
<1>1. /\ FileOfArm(u, a)
      /\ ~a.add_gripper /\ ~a.add_bio_gripper => FileOfArm(base, a)
      /\ base[Broadcaster] = {}
  BY FileIs, RobotOf
<1>2. file.use_sim_time = FALSE
  BY DEF ControllersFile, MbotFile
<1>3. CASE a.prefix = "" /\ ~a.add_gripper /\ ~a.add_bio_gripper /\ rate = NoRate
  <2>1. K = file
    BY <1>3 DEF generate_ros2_control_params_temp_file
  <2>2. Renamed(base, a.prefix, base)
    BY <1>1, <1>3, NoPrefixIsAdded DEF FileOfArm
  <2>3. /\ Serves(base, a)
        /\ MbotController \in DOMAIN base => base[MbotController] = {}
    BY <1>1, <1>3, <2>2, ManagerServes
  <2>4. rate # 1000
    <3>1. rate = 0
      BY <1>3 DEF NoRate
    <3> QED
      BY <3>1
  <2>5. K.use_sim_time = FALSE
    BY <1>2, <2>1
  <2> HIDE DEF K
  <2> QED
    BY <2>1, <2>3, <2>4, <2>5 DEF K, Manages
<1>4. CASE ~(a.prefix = "" /\ ~a.add_gripper /\ ~a.add_bio_gripper /\ rate = NoRate)
  <2>1. /\ K.controllers = add_prefix_to_ros2_control_params(a.prefix, u)
        /\ K.use_sim_time = (file.use_sim_time \/ sim)
    BY <1>4 DEF generate_ros2_control_params_temp_file
  <2>2. Renamed(K.controllers, a.prefix, u)
    BY <1>1, <2>1, PrefixIsAdded DEF FileOfArm
  <2>3. /\ Serves(K.controllers, a)
        /\ MbotController \in DOMAIN K.controllers => K.controllers[MbotController] = {}
    BY <1>1, <2>2, ManagerServes
  <2> QED
    BY <1>2, <2>1, <2>3 DEF Manages
<1> QED
  BY <1>3, <1>4

\* ... and for two: neither arm's controllers hide the other's.
LEMMA DualGeneratedServes ==
  ASSUME NEW a, NEW b, FilesExist(a), FilesExist(b), a.prefix # b.prefix,
         NEW rate, NEW sim \in BOOLEAN
  PROVE  /\ Manages(generate_dual_ros2_control_params_temp_file(a, b, rate, sim), a, sim)
         /\ Manages(generate_dual_ros2_control_params_temp_file(a, b, rate, sim), b, sim)
<1> DEFINE File(c) == Updated(ControllersFile(XarmType(c)).controllers, GripperFile(c))
           Of(c) == add_prefix_to_ros2_control_params(c.prefix, File(c))
           K == generate_dual_ros2_control_params_temp_file(a, b, rate, sim)
<1>1. K.controllers = Updated(Of(a), Of(b)) /\ K.use_sim_time = sim
  BY DEF generate_dual_ros2_control_params_temp_file, ControllersFile
<1>2. ASSUME NEW c \in {a, b}
      PROVE  /\ Renamed(Of(c), c.prefix, File(c))
             /\ Serves(Of(c), c)
             /\ MbotController \in DOMAIN Of(c) => Of(c)[MbotController] = {}
  <2>1. FileOfArm(File(c), c)
    BY FileIs, RobotOf
  <2>2. Renamed(Of(c), c.prefix, File(c))
    BY <2>1, PrefixIsAdded DEF FileOfArm
  <2> HIDE DEF Of, File
  <2> QED
    BY <2>1, <2>2, ManagerServes
<1>3. \A n \in DOMAIN Of(b) : n # Broadcaster => n[1] = b.prefix
  <2> TAKE n \in DOMAIN Of(b)
  <2>1. SUFFICES ASSUME n # Broadcaster PROVE n[1] = b.prefix
    OBVIOUS
  <2>2. PICK m \in DOMAIN File(b) : n = WithPrefix(b.prefix, m)
    BY <1>2, <2>1 DEF Renamed
  <2>3. FileOfArm(File(b), b)
    BY FileIs, RobotOf
  <2>4. n = <<b.prefix, m[2], m[3]>>
    BY <2>2, <2>3, NameIs DEF FileOfArm, Unprefixed
  <2> QED
    BY <2>4
<1>4. /\ ArmTrajController(a)[1] = a.prefix /\ ArmTrajController(a) # Broadcaster
      /\ WithPrefix(a.prefix, Tool(a))[1] = a.prefix /\ WithPrefix(a.prefix, Tool(a)) # Broadcaster
  <2>1. /\ ArmTrajController(a) = <<a.prefix, "traj_controller", XarmType(a)>>
        /\ WithPrefix(a.prefix, Tool(a)) = <<a.prefix, "gripper_traj_controller", <<GripperOf(a), 0>>>>
    BY NameIs DEF ArmTrajController, ArmController, Tool, GripperController
  <2>2. Broadcaster[2] = "joint_state_broadcaster"
    BY DEF Broadcaster, Named
  <2> QED
    BY <2>1, <2>2
<1> HIDE DEF Of, K
<1>5. /\ DOMAIN K.controllers = DOMAIN Of(a) \cup DOMAIN Of(b)
      /\ \A n \in DOMAIN Of(b) : K.controllers[n] = Of(b)[n]
      /\ \A n \in DOMAIN Of(a) \ DOMAIN Of(b) : K.controllers[n] = Of(a)[n]
  <2>1. /\ DOMAIN Updated(Of(a), Of(b)) = DOMAIN Of(a) \cup DOMAIN Of(b)
        /\ \A n \in DOMAIN Of(b) : Updated(Of(a), Of(b))[n] = Of(b)[n]
        /\ \A n \in DOMAIN Of(a) \ DOMAIN Of(b) : Updated(Of(a), Of(b))[n] = Of(a)[n]
    BY DEF Updated
  <2> QED
    BY <1>1, <2>1
<1>6. Serves(K.controllers, b)
  BY <1>2, <1>5 DEF Serves
<1>7. ArmTrajController(a) \notin DOMAIN Of(b) /\ WithPrefix(a.prefix, Tool(a)) \notin DOMAIN Of(b)
  BY <1>3, <1>4
<1>8. Serves(K.controllers, a)
  BY <1>2, <1>5, <1>6, <1>7 DEF Serves
<1>9. MbotController \in DOMAIN K.controllers => K.controllers[MbotController] = {}
  BY <1>2, <1>5
<1> QED
  BY <1>1, <1>6, <1>8, <1>9 DEF K, Manages
----------------------------------------------------------------------------
(* The launch files: what is given to the manager, spawned and told.          *)

\* The launch files of mbot_demo, those that simulate and those with the driver.
MbotModes == {"mbot_fake", "mbot_real", "mbot_gazebo"}
Simulated == {"gazebo", "py_gazebo", "table", "mbot_gazebo"}
DriverModes == {"real", "demo_real", "servo_real", "mbot_real", "control"}

\* What a launch file changes of the launch it includes, and what it leaves.
LEMMA TableIs ==
  ASSUME NEW M, NEW S, NEW X
  PROVE  LET T == [Launch(NoMoveIt, M, S) EXCEPT !.group = FALSE, !.sim = TRUE, !.rviz = "none"]
             L == [T EXCEPT !.moveit = X, !.group = TRUE, !.rviz = "stays"]
         IN /\ T.manager = M /\ T.spawned = S /\ T.moveit = NoMoveIt /\ T.servo = NoServo
            /\ ~T.group /\ T.sim = TRUE /\ ~T.driver
            /\ L.manager = M /\ L.spawned = S /\ L.moveit = X /\ L.servo = NoServo
            /\ L.group /\ L.sim = TRUE /\ ~L.driver
BY DEF Launch

\* The simulated launches.
SimulatedLaunch(L, mode, a) ==
  /\ mode = "mbot_gazebo" =>
       /\ L.manager = generate_ros2_control_params_temp_file(MbotFile, a, 1000, TRUE)
       /\ L.spawned = {Broadcaster, MbotController} \cup ArmControllers(a)
  /\ mode # "mbot_gazebo" =>
       /\ L.manager = generate_ros2_control_params_temp_file(
                        ControllersFile(XarmType(a)), a, 1000, TRUE)
       /\ L.spawned = {Broadcaster} \cup ArmControllers(a)
  /\ mode = "table" => L.moveit = NoMoveIt /\ ~L.group
  /\ mode # "table" => L.moveit = to_moveit_configs(a, FileOf(mode), NoPipelines) /\ L.group
  /\ L.servo = NoServo /\ L.sim = TRUE /\ ~L.driver

\* The four launch files that create one arm in Gazebo.
LEMMA SimulatedIs ==
  ASSUME NEW mode \in Simulated, NEW a
  PROVE  SimulatedLaunch(SingleLaunch(mode, a), mode, a)
<1> DEFINE G(file) == generate_ros2_control_params_temp_file(file, a, 1000, TRUE)
           own == ControllersFile(XarmType(a))
           S == {Broadcaster} \cup ArmControllers(a)
           X == to_moveit_configs(a, "fake_controllers", NoPipelines)
           M(given) == IF given # NoParams THEN given ELSE G(own)
           Table(m, s) == [Launch(NoMoveIt, m, s) EXCEPT !.group = FALSE, !.sim = TRUE, !.rviz = "none"]
           L == SingleLaunch(mode, a)
<1>1. M(NoParams) = G(own) /\ M(G(own)) = G(own)
  OBVIOUS
<1>2. FileOf(mode) = "fake_controllers"
  BY DEF FileOf, Simulated
<1>3. CASE mode \in {"gazebo", "py_gazebo"}
  <2>1. L = [Table(M(G(own)), S) EXCEPT !.moveit = X, !.group = TRUE, !.rviz = "stays"]
    BY <1>3, Zenon DEF SingleLaunch, GazeboLaunch, PyGazeboLaunch, BesideTable
  <2> HIDE DEF M, G, S, X, L
  <2>2. /\ L.manager = M(G(own)) /\ L.spawned = S /\ L.moveit = X /\ L.servo = NoServo
        /\ L.group /\ L.sim = TRUE /\ ~L.driver
    BY <2>1, TableIs
  <2>3. mode # "table" /\ mode # "mbot_gazebo"
    BY <1>3
  <2>4. L.manager = G(own)
    BY <1>1, <2>2
  <2> HIDE DEF own
  <2> QED
    BY <1>2, <2>2, <2>3, <2>4 DEF L, X, S, G, own, SimulatedLaunch
<1>4. CASE mode = "table"
  <2>1. L = Table(M(NoParams), S)
    BY <1>4, Zenon DEF SingleLaunch, BesideTable
  <2> HIDE DEF M, G, S, X, L
  <2>2. /\ L.manager = M(NoParams) /\ L.spawned = S /\ L.moveit = NoMoveIt /\ L.servo = NoServo
        /\ ~L.group /\ L.sim = TRUE /\ ~L.driver
    BY <2>1, TableIs
  <2> QED
    BY <1>1, <1>4, <2>2 DEF L, X, S, G, SimulatedLaunch
<1>5. CASE mode = "mbot_gazebo"
  <2> DEFINE B == {Broadcaster, MbotController} \cup ArmControllers(a)
  <2>1. L = [Table(G(MbotFile), B) EXCEPT !.moveit = X, !.group = TRUE, !.rviz = "stays"]
    <3>1. L = MbotGazebo(a)
      BY <1>5 DEF SingleLaunch
    <3> HIDE DEF L
    <3> QED
      BY <3>1, Zenon DEF MbotGazebo, OnMbot, MbotMoveIt
  <2> HIDE DEF M, G, S, X, L, B
  <2>3. /\ L.manager = G(MbotFile) /\ L.spawned = B /\ L.moveit = X /\ L.servo = NoServo
        /\ L.group /\ L.sim = TRUE /\ ~L.driver
    BY <2>1, TableIs
  <2> QED
    BY <1>2, <1>5, <2>3 DEF L, X, B, G, SimulatedLaunch
<1> QED
  BY <1>3, <1>4, <1>5 DEF Simulated

\* Which parameters the manager of a launch gets.
ManagerGiven(L, mode, a) ==
  LET G(file, rate, sim) == generate_ros2_control_params_temp_file(file, a, rate, sim)
      own == ControllersFile(XarmType(a))
  IN \/ L.sim = FALSE /\ L.manager = G(own, NoRate, FALSE)
     \/ L.sim = FALSE /\ L.manager = G(MbotFile, NoRate, FALSE) /\ mode \in MbotModes
     \/ L.sim = TRUE /\ L.manager = G(own, 1000, TRUE)
     \/ L.sim = TRUE /\ L.manager = G(MbotFile, 1000, TRUE) /\ mode \in MbotModes

\* A launch file's manager gets the generated parameters, whether the including
\* file passes them on or the included one generates them.
LEMMA SingleManager ==
  ASSUME NEW mode \in SingleModes, NEW a
  PROVE  ManagerGiven(SingleLaunch(mode, a), mode, a)
<1> DEFINE L == SingleLaunch(mode, a)
           G(file, rate, sim) == generate_ros2_control_params_temp_file(file, a, rate, sim)
           own == ControllersFile(XarmType(a))
<1>1. CASE mode \in {"fake", "real", "demo_fake", "demo_real", "servo_fake", "servo_real", "control"}
  <2>1. L.manager = G(own, NoRate, FALSE) /\ L.sim = FALSE
    BY <1>1 DEF SingleLaunch, FakeLaunch, RealLaunch, DemoFake, DemoRealmove, ServoFake,
                ServoRealmove, RobotRos2Control, Ros2Control, Launch
  <2> HIDE DEF L, G, own
  <2> QED
    BY <2>1 DEF ManagerGiven, L, G, own
<1>2. CASE mode \in Simulated
  <2>1. SimulatedLaunch(L, mode, a)
    BY <1>2, SimulatedIs
  <2> HIDE DEF L
  <2> QED
    BY <2>1 DEF MbotModes, SimulatedLaunch, ManagerGiven, L
<1>3. CASE mode \in {"mbot_fake", "mbot_real"}
  <2>1. L.manager \in {G(own, NoRate, FALSE), G(MbotFile, NoRate, FALSE)} /\ L.sim = FALSE
    BY <1>3 DEF SingleLaunch, MbotFake, MbotRealmove, Ros2Control, Launch
  <2>2. mode \in MbotModes
    BY <1>3 DEF MbotModes
  <2> HIDE DEF L, G, own
  <2> QED
    BY <2>1, <2>2 DEF ManagerGiven, L, G, own
<1> QED
  BY <1>1, <1>2, <1>3 DEF SingleModes, Simulated

\* Which controllers a launch spawns.
LEMMA SingleSpawned ==
  ASSUME NEW mode \in SingleModes, NEW a
  PROVE  LET L == SingleLaunch(mode, a)
         IN /\ L.spawned \subseteq {Broadcaster, MbotController} \cup ArmControllers(a)
            /\ L.driver <=> mode \in DriverModes
            /\ ~L.driver => {Broadcaster} \cup ArmControllers(a) \subseteq L.spawned
            /\ L.driver => L.sources = {a.prefix}
            /\ L.driver /\ mode # "control" => ArmTrajController(a) \in L.spawned
<1>1. CASE mode \in Simulated
  <2> DEFINE L == SingleLaunch(mode, a)
  <2>1. SimulatedLaunch(L, mode, a)
    BY <1>1, SimulatedIs
  <2>2. mode \notin DriverModes
    BY <1>1 DEF Simulated, DriverModes
  <2> HIDE DEF L
  <2> QED
    BY <2>1, <2>2 DEF L, SimulatedLaunch
<1>2. CASE mode \in {"fake", "demo_fake", "servo_fake", "mbot_fake"}
  BY <1>2 DEF SingleLaunch, FakeLaunch, DemoFake, ServoFake, MbotFake, Launch, DriverModes
<1>3. CASE mode \in DriverModes
  BY <1>3 DEF SingleLaunch, RealLaunch, DemoRealmove, ServoRealmove, MbotRealmove,
       RobotRos2Control, Launch, DriverModes, ArmControllers
<1> QED
  BY <1>1, <1>2, <1>3 DEF SingleModes, Simulated, DriverModes

\* What move_group and the servo server are told.
LEMMA SingleTold ==
  ASSUME NEW mode \in SingleModes, NEW a
  PROVE  LET L == SingleLaunch(mode, a)
         IN /\ L.group => L.moveit.controllers = trajectory_execution(a, FileOf(mode))
            /\ ~L.group => L.moveit.controllers = <<>>
            /\ mode = "control" => ~L.group
            /\ mode \in MbotModes => L.group
            /\ \/ L.servo = NoServo
               \/ /\ L.servo = ServoOf(a) /\ mode # "control"
                  /\ L.moveit.semantic = robot_description_semantic(a)
<1>1. CASE mode \in {"servo_fake", "servo_real"}
  BY <1>1 DEF SingleLaunch, ServoFake, ServoRealmove, ServoMoveIt, Launch, to_moveit_configs, MbotModes
<1>2. CASE mode \in Simulated
  <2> DEFINE L == SingleLaunch(mode, a)
  <2>1. SimulatedLaunch(L, mode, a)
    BY <1>2, SimulatedIs
  <2>2. mode # "control"
    BY <1>2 DEF Simulated
  <2> HIDE DEF L
  <2> QED
    BY <2>1, <2>2 DEF L, SimulatedLaunch, to_moveit_configs, NoMoveIt, MbotModes
<1>3. CASE mode \in {"fake", "real", "demo_fake", "demo_real", "mbot_fake", "mbot_real"}
  BY <1>3 DEF SingleLaunch, FakeLaunch, RealLaunch, DemoFake, DemoRealmove, MbotFake,
       MbotRealmove, MbotMoveIt, Launch, FileOf, to_moveit_configs
<1>4. CASE mode = "control"
  BY <1>4 DEF SingleLaunch, RobotRos2Control, NoMoveIt, Launch, MbotModes
<1> QED
  BY <1>1, <1>2, <1>3, <1>4 DEF SingleModes, Simulated

\* The joints of an arm and of its gripper, as the manager knows them.
LEMMA ArmJointsOf ==
  ASSUME NEW p, NEW r, NEW j \in AllWithPrefix(p, ArmJoints(r))
  PROVE  j[1] = p /\ j[2] = "joint"
<1>1. PICK i : j = WithPrefix(p, <<"", "joint", i>>)
  BY DEF AllWithPrefix, ArmJoints
<1> QED
  BY <1>1 DEF WithPrefix

\* The joint of its gripper.
LEMMA ToolJointOf ==
  ASSUME NEW p, NEW g, NEW j \in AllWithPrefix(p, {MovedJoint(g)})
  PROVE  j[1] = p /\ j[2] \in {"drive_joint", "right_finger_joint"}
<1>1. PICK k \in {"drive_joint", "right_finger_joint"} : j = WithPrefix(p, <<"", k, 0>>)
  BY DEF AllWithPrefix, MovedJoint
<1> QED
  BY <1>1 DEF WithPrefix

\* No two controllers of C that the manager K knows move a joint in common.
Apart(K, C) ==
  \A c, d \in C \cap DOMAIN K : c # d => K[c] \cap K[d] = {}

\* The controllers of an arm and of its gripper share no joint.
LEMMA ArmApart ==
  ASSUME NEW a, NEW K, Serves(K, a)
  PROVE  /\ Apart(K, ArmControllers(a))
         /\ \A c \in ArmControllers(a) : c \in DOMAIN K /\ \A j \in K[c] : j[1] = a.prefix
<1> DEFINE arm == ArmTrajController(a)  tool == WithPrefix(a.prefix, Tool(a))
<1>1. /\ ArmControllers(a) = {arm} \cup (IF GripperOf(a) = "none" THEN {} ELSE {tool})
      /\ arm \in DOMAIN K
      /\ GripperOf(a) # "none" => tool \in DOMAIN K
  BY DEF ArmControllers, Serves, Tool
<1>2. \A j \in K[arm] : j[1] = a.prefix /\ j[2] = "joint"
  BY ArmJointsOf DEF Serves
<1>3. GripperOf(a) # "none" =>
        \A j \in K[tool] : j[1] = a.prefix /\ j[2] \in {"drive_joint", "right_finger_joint"}
  BY ToolJointOf DEF Serves
<1> HIDE DEF arm, tool
<1>4. GripperOf(a) # "none" => K[arm] \cap K[tool] = {}
  BY <1>2, <1>3
<1> QED
  BY <1>1, <1>2, <1>3, <1>4 DEF Apart

\* Nor do the broadcaster and the base's, which claim none.
LEMMA SingleApart ==
  ASSUME NEW a, NEW K, Serves(K, a),
         MbotController \in DOMAIN K => K[MbotController] = {}
  PROVE  Apart(K, {Broadcaster, MbotController} \cup ArmControllers(a))
BY ArmApart DEF Apart, Serves

\* The joints of two arms differ by their prefixes.
LEMMA DualApart ==
  ASSUME NEW a, NEW b, a.prefix # b.prefix, NEW K, Serves(K, a), Serves(K, b)
  PROVE  Apart(K, {Broadcaster} \cup ArmControllers(a) \cup ArmControllers(b))
<1> DEFINE A == ArmControllers(a)  B == ArmControllers(b)
<1>1. Apart(K, A) /\ Apart(K, B)
  BY ArmApart
<1>2. /\ \A c \in A : \A j \in K[c] : j[1] = a.prefix
      /\ \A c \in B : \A j \in K[c] : j[1] = b.prefix
      /\ K[Broadcaster] = {}
  BY ArmApart DEF Serves
<1> HIDE DEF A, B
<1>3. \A c \in A, d \in B : K[c] \cap K[d] = {}
  BY <1>2
<1> QED
  BY <1>1, <1>2, <1>3 DEF Apart, A, B

\* Which controllers MoveIt is told of, and their joints.
LEMMA Wanted ==
  ASSUME NEW a, FilesExist(a), NEW file \in {"controllers", "fake_controllers"}
  PROVE  LET W == trajectory_execution(a, file)
         IN /\ ArmTrajController(a) \in DOMAIN W
            /\ W[ArmTrajController(a)] = AllWithPrefix(a.prefix, ArmJoints(RobotName(a)))
            /\ \A c \in DOMAIN W \ {ArmTrajController(a)} :
                 /\ GripperOf(a) # "none"
                 /\ file = "fake_controllers" =>
                      /\ c = WithPrefix(a.prefix, Tool(a))
                      /\ W[c] = AllWithPrefix(a.prefix, {MovedJoint(GripperOf(a))})
                 /\ file = "controllers" =>
                      c = WithPrefix(a.prefix,
                            Named(IF GripperOf(a) = "bio" THEN "bio_gripper" ELSE "xarm_gripper",
                                  <<"", 0>>))
<1> DEFINE g == GripperOf(a)  r == RobotName(a)  y == GripperYaml(g, file)
           d == Updated(RobotYaml(r), y)
           W == trajectory_execution(a, file)
           arm == ArmController(r)
           tool == IF file = "fake_controllers" THEN Tool(a)
                   ELSE Named(IF g = "bio" THEN "bio_gripper" ELSE "xarm_gripper", <<"", 0>>)
<1>1. /\ DOMAIN RobotYaml(r) = {arm}
      /\ RobotYaml(r)[arm] = ArmJoints(r)
  BY EntryIs DEF RobotYaml
<1>2. /\ g = "none" => DOMAIN y = {}
      /\ g # "none" => DOMAIN y = {tool} /\ y[tool] = {MovedJoint(g)}
  <2>1. CASE g = "none"
    BY <2>1 DEF GripperYaml
  <2>2. CASE g # "none"
    <3>1. y = Entry(tool, {MovedJoint(g)})
      BY <2>2 DEF GripperYaml, Tool
    <3> QED
      BY <2>2, <3>1, EntryIs
  <2> QED
    BY <2>1, <2>2
<1>3. arm # tool
  <2>1. arm[2] = "traj_controller"
    BY DEF ArmController, Named
  <2>2. tool[2] \in {"gripper_traj_controller", "bio_gripper", "xarm_gripper"}
    BY DEF Tool, GripperController, Named
  <2> QED
    BY <2>1, <2>2
<1>4. /\ DOMAIN d = {arm} \cup DOMAIN y
      /\ d[arm] = ArmJoints(r)
      /\ g # "none" => d[tool] = {MovedJoint(g)}
  <2> HIDE DEF y, tool, arm, r, g
  <2> QED
    BY <1>1, <1>2, <1>3 DEF Updated
<1>5. \A n \in DOMAIN d : n = Named(n[2], n[3])
  BY ControllersOf
<1>6. W = PrefixedControllers(a.prefix, d)
  BY DEF trajectory_execution
<1>7. WithPrefix(a.prefix, arm) = ArmTrajController(a)
  BY RobotOf DEF ArmTrajController
<1> HIDE DEF d, W, y, arm, tool, g, r
<1>8. /\ DOMAIN W = AllWithPrefix(a.prefix, DOMAIN d)
      /\ \A n \in DOMAIN d : W[WithPrefix(a.prefix, n)] = AllWithPrefix(a.prefix, d[n])
  BY <1>5, <1>6, PrefixedIs
<1>9. ArmTrajController(a) \in DOMAIN W
      /\ W[ArmTrajController(a)] = AllWithPrefix(a.prefix, ArmJoints(r))
  BY <1>4, <1>7, <1>8 DEF AllWithPrefix
<1>10. ASSUME NEW c \in DOMAIN W, c # ArmTrajController(a)
       PROVE  /\ g # "none"
              /\ c = WithPrefix(a.prefix, tool)
              /\ W[c] = AllWithPrefix(a.prefix, {MovedJoint(g)})
  <2>1. PICK n \in DOMAIN d : c = WithPrefix(a.prefix, n)
    BY <1>8 DEF AllWithPrefix
  <2>2. n # arm
    BY <1>7, <1>10, <2>1
  <2>3. g # "none" /\ n = tool
    BY <1>2, <1>4, <2>2
  <2> QED
    BY <1>4, <1>8, <2>1, <2>3
<1>11. file = "fake_controllers" => tool = Tool(a)
  BY DEF tool
<1>12. file = "controllers" =>
         tool = Named(IF g = "bio" THEN "bio_gripper" ELSE "xarm_gripper", <<"", 0>>)
  BY DEF tool
<1> QED
  BY <1>9, <1>10, <1>11, <1>12 DEF W, g, r

\* The controllers of two arms.
DualControllers(a, b) == {Broadcaster} \cup ArmControllers(a) \cup ArmControllers(b)

\* The launch files of two arms: what the manager is given and what is spawned.
DualSet(L, mode, a, b) ==
  /\ \/ L.manager = generate_dual_ros2_control_params_temp_file(a, b, NoRate, FALSE) /\ L.sim = FALSE
     \/ L.manager = generate_dual_ros2_control_params_temp_file(a, b, 1000, TRUE) /\ L.sim = TRUE
     \/ L.manager = generate_dual_ros2_control_params_temp_file(a, b, 1000, FALSE) /\ ~L.group
  /\ L.driver => /\ L.sources = {a.prefix, b.prefix}
                 /\ L.spawned = {ArmTrajController(a), ArmTrajController(b)}
  /\ ~L.driver => L.spawned = DualControllers(a, b)
  /\ L.driver <=> mode \in {"real", "demo_real"}
  /\ L.group => L.moveit.controllers = dual_trajectory_execution(a, b, FileOf(mode))
  /\ ~L.group => L.moveit.controllers = <<>>
  /\ L.servo = NoServo

\* Every launch file of two arms.
LEMMA DualSetting ==
  ASSUME NEW mode \in DualModes, NEW a, NEW b
  PROVE  DualSet(DualLaunch(mode, a, b), mode, a, b)
<1> DEFINE L == DualLaunch(mode, a, b)
           G(rate, sim) == generate_dual_ros2_control_params_temp_file(a, b, rate, sim)
           S == DualControllers(a, b)
           X(file) == dual_to_moveit_configs(a, b, file, NoPipelines)
           M(given) == IF given # NoParams THEN given ELSE G(NoRate, FALSE)
           N(given) == IF given # NoParams THEN given ELSE G(1000, FALSE)
           Table(m) == [Launch(NoMoveIt, m, S) EXCEPT !.group = FALSE, !.sim = TRUE, !.rviz = "none"]
<1>1. \A file : X(file).controllers = dual_trajectory_execution(a, b, file)
  BY DEF dual_to_moveit_configs
<1>2. CASE mode \in {"fake", "demo_fake"}
  <2>1. /\ L.manager = G(NoRate, FALSE) /\ L.sim = FALSE /\ ~L.driver /\ L.group
        /\ L.spawned = S /\ L.servo = NoServo /\ L.moveit = X("fake_controllers")
    BY <1>2 DEF DualLaunch, DualFakeLaunch, DemoDualFake, DualRos2Control, Launch,
                DualControllers
  <2>2. mode \notin {"real", "demo_real"} /\ FileOf(mode) = "fake_controllers"
    BY <1>2 DEF FileOf
  <2> HIDE DEF L, X, S
  <2> QED
    BY <1>1, <2>1, <2>2 DEF DualSet, L, S
<1>3. CASE mode \in {"real", "demo_real"}
  <2>1. /\ L.manager = G(NoRate, FALSE) /\ L.sim = FALSE /\ L.driver /\ L.group
        /\ L.sources = {a.prefix, b.prefix}
        /\ L.spawned = {ArmTrajController(a), ArmTrajController(b)}
        /\ L.servo = NoServo /\ L.moveit = X("controllers")
    BY <1>3 DEF DualLaunch, DualRealLaunch, DemoDualRealmove, DualRos2Control, Launch
  <2>2. FileOf(mode) = "controllers"
    BY <1>3 DEF FileOf
  <2> HIDE DEF L, X, S
  <2> QED
    BY <1>1, <1>3, <2>1, <2>2 DEF DualSet, L
<1>4. CASE mode = "gazebo"
  <2> DEFINE given == G(1000, TRUE)
             T == DualBesideTable(a, b, given, TRUE)
             Y == X("fake_controllers")
  <2>1. T = Table(N(given))
    <3> HIDE DEF given
    <3> QED
      BY Zenon DEF DualBesideTable, DualControllers
  <2>2. L = [T EXCEPT !.moveit = Y, !.group = TRUE, !.rviz = "stays"]
    BY <1>4 DEF DualLaunch, DualGazeboLaunch
  <2>3. N(given) = given
    <3>1. "controllers" \in DOMAIN given /\ DOMAIN NoParams = {}
      BY DEF generate_dual_ros2_control_params_temp_file, NoParams
    <3> HIDE DEF given
    <3> QED
      BY <3>1
  <2> HIDE DEF L, X, S, N, G, T, Y, given
  <2>4. /\ L.manager = N(given) /\ L.spawned = S /\ L.moveit = Y
        /\ L.servo = NoServo /\ L.group /\ L.sim = TRUE /\ ~L.driver
    BY <2>1, <2>2, TableIs
  <2>5. mode \notin {"real", "demo_real"} /\ FileOf(mode) = "fake_controllers"
    BY <1>4 DEF FileOf
  <2>6. L.manager = G(1000, TRUE)
    BY <2>3, <2>4 DEF given
  <2>7. L.moveit.controllers = dual_trajectory_execution(a, b, "fake_controllers")
    BY <1>1, <2>4 DEF Y
  <2> QED
    BY <2>4, <2>5, <2>6, <2>7 DEF DualSet, L, S, G
<1>5. CASE mode = "table"
  <2>1. L = Table(N(NoParams))
    <3>1. L = DualBesideTable(a, b, NoParams, TRUE)
      BY <1>5 DEF DualLaunch
    <3> HIDE DEF L
    <3> QED
      BY <3>1, Zenon DEF DualBesideTable, DualControllers
  <2>3. N(NoParams) = G(1000, FALSE)
    OBVIOUS
  <2> HIDE DEF L, X, S, N, G
  <2>4. /\ L.manager = N(NoParams) /\ L.spawned = S /\ L.moveit = NoMoveIt
        /\ L.servo = NoServo /\ ~L.group /\ L.sim = TRUE /\ ~L.driver
    BY <2>1, TableIs
  <2>5. mode \notin {"real", "demo_real"} /\ NoMoveIt.controllers = <<>>
    BY <1>5 DEF NoMoveIt
  <2> QED
    BY <2>3, <2>4, <2>5 DEF DualSet, L, S, G
<1> QED
  BY <1>2, <1>3, <1>4, <1>5 DEF DualModes

\* What MoveIt is told of one arm is spawned with the same joints or is the driver's.
Delivered(L, c, a, W) ==
  \/ c \in L.spawned /\ c \in DOMAIN L.manager.controllers /\ L.manager.controllers[c] = W[c]
  \/ L.driver /\ c \in ServedByDriver(a)

\* Of each arm MoveIt is told what is spawned or what the driver serves.
LEMMA ArmIsTold ==
  ASSUME NEW L, NEW a, FilesExist(a), NEW file,
         Serves(L.manager.controllers, a),
         \/ file = "fake_controllers" /\ ArmControllers(a) \subseteq L.spawned
         \/ file = "controllers" /\ L.driver /\ ArmTrajController(a) \in L.spawned,
         NEW c \in DOMAIN trajectory_execution(a, file)
  PROVE  Delivered(L, c, a, trajectory_execution(a, file))
<1> DEFINE W == trajectory_execution(a, file)  K == L.manager.controllers
           tool == WithPrefix(a.prefix, Tool(a))
           joints == AllWithPrefix(a.prefix, ArmJoints(RobotName(a)))
           driven == Named(IF GripperOf(a) = "bio" THEN "bio_gripper" ELSE "xarm_gripper", <<"", 0>>)
<1>1. /\ W[ArmTrajController(a)] = joints
      /\ \A d \in DOMAIN W \ {ArmTrajController(a)} :
           /\ GripperOf(a) # "none"
           /\ file = "fake_controllers" =>
                d = tool /\ W[d] = AllWithPrefix(a.prefix, {MovedJoint(GripperOf(a))})
           /\ file = "controllers" => d = WithPrefix(a.prefix, driven)
  BY Wanted
<1>2. /\ ArmTrajController(a) \in DOMAIN K /\ K[ArmTrajController(a)] = joints
      /\ GripperOf(a) # "none" =>
           tool \in DOMAIN K /\ K[tool] = AllWithPrefix(a.prefix, {MovedJoint(GripperOf(a))})
  BY DEF Serves
<1>3. /\ ArmTrajController(a) \in ArmControllers(a)
      /\ GripperOf(a) # "none" => tool \in ArmControllers(a)
  BY DEF ArmControllers, Tool
<1>4. ASSUME GripperOf(a) # "none" PROVE WithPrefix(a.prefix, driven) \in ServedByDriver(a)
  <2>1. a.type # "lite" /\ a.type # "bio"
    BY <1>4, RobotOf DEF GripperOf
  <2>2. \/ a.add_gripper /\ driven = Named("xarm_gripper", <<"", 0>>)
        \/ a.add_bio_gripper /\ driven = Named("bio_gripper", <<"", 0>>)
    BY <1>4, <2>1 DEF GripperOf
  <2> HIDE DEF driven
  <2> QED
    BY <2>1, <2>2 DEF ServedByDriver
<1> HIDE DEF W, K, tool, joints, driven
<1>5. CASE c = ArmTrajController(a)
  BY <1>1, <1>2, <1>3, <1>5 DEF Delivered, W, K
<1>6. CASE c # ArmTrajController(a)
  <2>1. c \in DOMAIN W \ {ArmTrajController(a)}
    BY <1>6 DEF W
  <2>2. CASE file = "fake_controllers"
    BY <1>1, <1>2, <1>3, <2>1, <2>2 DEF Delivered, W, K
  <2>3. CASE file = "controllers" /\ L.driver
    BY <1>1, <1>4, <2>1, <2>3 DEF Delivered, W
  <2> QED
    BY <2>2, <2>3
<1> QED
  BY <1>5, <1>6

\* A launch file is in order: MoveIt's controllers are spawned with joints of
\* their own, the clocks agree and every joint's state is published.
InOrder(L, own, arms) ==
  LET known == L.manager.controllers
  IN /\ Apart(known, L.spawned)
     /\ \A c \in own : \E a \in arms : Delivered(L, c, a, L.moveit.controllers)
     /\ L.group => L.manager.use_sim_time = L.sim
     /\ \/ Broadcaster \in L.spawned /\ Broadcaster \in DOMAIN known
        \/ L.driver /\ L.sources = {a.prefix : a \in arms}
     /\ L.servo.out \in L.spawned => L.servo.out \in DOMAIN known

\* The controllers MoveIt can count on: on the real mobile base the arm's.
Own(L, mbot, arms) ==
  IF mbot /\ L.driver THEN {ArmTrajController(a) : a \in arms} ELSE DOMAIN L.moveit.controllers

\* The manager of every launch of one arm serves it, by the right clock.
LEMMA SingleServes ==
  ASSUME NEW mode \in SingleModes, NEW a, FilesExist(a),
         mode \in MbotModes => RobotName(a) = <<"xarm", 6>>
  PROVE  LET L == SingleLaunch(mode, a) IN Manages(L.manager, a, L.sim)
<1> DEFINE L == SingleLaunch(mode, a)
           G(file, rate, sim) == generate_ros2_control_params_temp_file(file, a, rate, sim)
           own == ControllersFile(XarmType(a))
<1>1. ManagerGiven(L, mode, a)
  BY SingleManager
<1>2. Manages(G(own, NoRate, FALSE), a, FALSE) /\ Manages(G(own, 1000, TRUE), a, TRUE)
  BY GeneratedServes
<1>3. mode \in MbotModes =>
        Manages(G(MbotFile, NoRate, FALSE), a, FALSE) /\ Manages(G(MbotFile, 1000, TRUE), a, TRUE)
  BY GeneratedServes
<1>4. Manages(L.manager, a, L.sim)
  <2> HIDE DEF L
  <2>1. CASE L.sim = FALSE /\ Manages(L.manager, a, FALSE)
    BY <2>1 DEF Manages
  <2>2. CASE L.sim = TRUE /\ Manages(L.manager, a, TRUE)
    BY <2>2 DEF Manages
  <2>3. \/ L.sim = FALSE /\ L.manager = G(own, NoRate, FALSE)
        \/ L.sim = FALSE /\ L.manager = G(MbotFile, NoRate, FALSE) /\ mode \in MbotModes
        \/ L.sim = TRUE /\ L.manager = G(own, 1000, TRUE)
        \/ L.sim = TRUE /\ L.manager = G(MbotFile, 1000, TRUE) /\ mode \in MbotModes
    BY <1>1 DEF ManagerGiven
  <2>4. \/ L.sim = FALSE /\ Manages(L.manager, a, FALSE)
        \/ L.sim = TRUE /\ Manages(L.manager, a, TRUE)
    <3> HIDE DEF G, own
    <3>1. CASE L.sim = FALSE /\ L.manager = G(own, NoRate, FALSE)
      BY <1>2, <3>1
    <3>2. CASE L.sim = FALSE /\ L.manager = G(MbotFile, NoRate, FALSE) /\ mode \in MbotModes
      BY <1>3, <3>2
    <3>3. CASE L.sim = TRUE /\ L.manager = G(own, 1000, TRUE)
      BY <1>2, <3>3
    <3>4. CASE L.sim = TRUE /\ L.manager = G(MbotFile, 1000, TRUE) /\ mode \in MbotModes
      BY <1>3, <3>4
    <3> QED
      BY <2>3, <3>1, <3>2, <3>3, <3>4
  <2> QED
    BY <2>1, <2>2, <2>4
<1> QED
  BY <1>4

\* A controller's name is not the one of a servo server that is not started.
LEMMA NamesAreTriples ==
  ASSUME NEW a, NEW c \in {Broadcaster, MbotController} \cup ArmControllers(a)
  PROVE  c # <<>>
<1>1. PICK p, k, o : c = <<p, k, o>>
  <2>1. CASE c \in {Broadcaster, MbotController}
    BY <2>1 DEF Broadcaster, MbotController, Named
  <2>2. CASE c \in ArmControllers(a)
    <3>1. PICK k, o : c = WithPrefix(a.prefix, Named(k, o))
      BY <2>2 DEF ArmControllers, ArmTrajController, ArmController, GripperController
    <3> QED
      BY <3>1, NameIs
  <2> QED
    BY <2>1, <2>2
<1>2. Len(c) = 3
  BY <1>1
<1> QED
  BY <1>2

\* A manager of the mobile base knows the base's controller by the name its
\* spawner asks for if and only if there is no prefix.
LEMMA BaseIsKnown ==
  ASSUME NEW a, FilesExist(a), RobotName(a) = <<"xarm", 6>>, NEW rate, NEW sim
  PROVE  LET K == generate_ros2_control_params_temp_file(MbotFile, a, rate, sim).controllers
         IN MbotController \in DOMAIN K <=> a.prefix = ""
<1> DEFINE base == MbotFile.controllers  u == Updated(base, GripperFile(a))
           G == generate_ros2_control_params_temp_file(MbotFile, a, rate, sim)
           K == G.controllers
<1>1. MbotController \in DOMAIN base /\ MbotController \in DOMAIN u
  <2>1. MbotController \in DOMAIN base
    BY DEF MbotFile, Updated, Entry
  <2> HIDE DEF base
  <2> QED
    BY <2>1, UpdatedIs
<1>2. CASE a.prefix = "" /\ ~a.add_gripper /\ ~a.add_bio_gripper /\ rate = NoRate
  <2>1. G = MbotFile
    BY <1>2 DEF generate_ros2_control_params_temp_file
  <2> QED
    BY <1>1, <1>2, <2>1
<1>3. CASE ~(a.prefix = "" /\ ~a.add_gripper /\ ~a.add_bio_gripper /\ rate = NoRate)
  <2>1. FileOfArm(u, a)
    BY FileIs
  <2>2. K = add_prefix_to_ros2_control_params(a.prefix, u)
    BY <1>3 DEF generate_ros2_control_params_temp_file
  <2>3. Renamed(K, a.prefix, u)
    BY <2>1, <2>2, PrefixIsAdded DEF FileOfArm
  <2> HIDE DEF K, u, base, G
  <2>4. a.prefix = "" => MbotController \in DOMAIN K
    <3>1. WithPrefix("", MbotController) = MbotController
      BY DEF WithPrefix
    <3> QED
      BY <1>1, <2>3, <3>1, KindsDiffer DEF Renamed
  <2>5. ASSUME MbotController \in DOMAIN K PROVE a.prefix = ""
    <3>1. PICK n \in DOMAIN u \ {Broadcaster} : MbotController = WithPrefix(a.prefix, n)
      BY <2>3, <2>5, KindsDiffer DEF Renamed
    <3>2. WithPrefix(a.prefix, n) = <<a.prefix, n[2], n[3]>>
      BY <2>1, NameIs DEF FileOfArm, Unprefixed
    <3>3. MbotController[1] = ""
      BY DEF MbotController, Named
    <3>4. <<a.prefix, n[2], n[3]>>[1] = a.prefix
      OBVIOUS
    <3> QED
      BY <3>1, <3>2, <3>3, <3>4
  <2> QED
    BY <2>4, <2>5 DEF K, G
<1> QED
  BY <1>2, <1>3

\* The base's controller is none of an arm's.
LEMMA BaseIsNoArm ==
  ASSUME NEW a
  PROVE  MbotController \notin {Broadcaster} \cup ArmControllers(a)
<1>1. MbotController[2] = "mbot_traj_controller"
  BY DEF MbotController, Named
<1>2. ASSUME NEW c \in ArmControllers(a) PROVE c[2] \in {"traj_controller", "gripper_traj_controller"}
  <2>1. PICK k, o : /\ k \in {"traj_controller", "gripper_traj_controller"}
                    /\ c = WithPrefix(a.prefix, Named(k, o))
    BY DEF ArmControllers, ArmTrajController, ArmController, GripperController
  <2> QED
    BY <2>1, NameIs, TripleIs
<1> QED
  BY <1>1, <1>2, KindsDiffer

\* Only the launch files of mbot_demo spawn it.
LEMMA BaseIsSpawned ==
  ASSUME NEW mode \in SingleModes, NEW a, MbotController \in SingleLaunch(mode, a).spawned
  PROVE  /\ mode \in MbotModes
         /\ \E rate, sim : SingleLaunch(mode, a).manager =
                             generate_ros2_control_params_temp_file(MbotFile, a, rate, sim)
<1> DEFINE L == SingleLaunch(mode, a)
           G(rate, sim) == generate_ros2_control_params_temp_file(MbotFile, a, rate, sim)
<1>1. MbotController \notin {Broadcaster} \cup ArmControllers(a)
  BY BaseIsNoArm
<1>2. CASE mode = "mbot_gazebo"
  <2>1. SimulatedLaunch(L, mode, a)
    BY <1>2, SimulatedIs DEF Simulated
  <2> QED
    BY <1>2, <2>1 DEF SimulatedLaunch, MbotModes
<1>3. CASE mode \in Simulated \ {"mbot_gazebo"}
  <2>1. SimulatedLaunch(L, mode, a)
    BY <1>3, SimulatedIs
  <2> QED
    BY <1>1, <1>3, <2>1 DEF SimulatedLaunch
<1>4. CASE mode \in {"mbot_fake", "mbot_real"}
  <2> DEFINE given == G(NoRate, FALSE)
  <2>1. L.manager = Ros2Control(a, given)
    BY <1>4 DEF SingleLaunch, MbotFake, MbotRealmove, Launch
  <2>2. given # NoParams
    <3>1. "controllers" \in DOMAIN given /\ DOMAIN NoParams = {}
      BY DEF generate_ros2_control_params_temp_file, MbotFile, NoParams
    <3> HIDE DEF given
    <3> QED
      BY <3>1
  <2> HIDE DEF given, L
  <2>3. L.manager = given
    BY <2>1, <2>2 DEF Ros2Control
  <2> QED
    BY <1>4, <2>3 DEF L, given, MbotModes
<1>5. CASE mode \in {"fake", "demo_fake", "servo_fake"}
  <2>1. L.spawned = {Broadcaster} \cup ArmControllers(a)
    BY <1>5 DEF SingleLaunch, FakeLaunch, DemoFake, ServoFake, Launch
  <2> QED
    BY <1>1, <2>1
<1>6. CASE mode \in {"real", "demo_real", "servo_real", "control"}
  <2>1. L.spawned \subseteq ArmControllers(a)
    BY <1>6 DEF SingleLaunch, RealLaunch, DemoRealmove, ServoRealmove, RobotRos2Control, Launch,
                ArmControllers
  <2> QED
    BY <1>1, <2>1
<1> QED
  BY <1>2, <1>3, <1>4, <1>5, <1>6 DEF SingleModes, Simulated

\* The manager of every launch of two arms serves both, and knows what is spawned.
LEMMA DualServes ==
  ASSUME NEW mode \in DualModes, NEW a, NEW b, FilesExist(a), FilesExist(b), a.prefix # b.prefix
  PROVE  LET L == DualLaunch(mode, a, b)
         IN /\ Serves(L.manager.controllers, a) /\ Serves(L.manager.controllers, b)
            /\ L.group => L.manager.use_sim_time = L.sim
            /\ L.spawned \subseteq DualControllers(a, b)
<1> DEFINE L == DualLaunch(mode, a, b)
           K == L.manager.controllers
           G(rate, sim) == generate_dual_ros2_control_params_temp_file(a, b, rate, sim)
<1>1. DualSet(L, mode, a, b)
  BY DualSetting
<1> HIDE DEF L
<1>2. Serves(K, a) /\ Serves(K, b) /\ (L.group => L.manager.use_sim_time = L.sim)
  <2> DEFINE fast == 1000
  <2>1. \/ L.manager = G(NoRate, FALSE) /\ L.sim = FALSE
        \/ L.manager = G(fast, TRUE) /\ L.sim = TRUE
        \/ L.manager = G(fast, FALSE) /\ ~L.group
    BY <1>1 DEF DualSet
  <2>2. ASSUME NEW rate, NEW sim \in BOOLEAN
        PROVE  Manages(G(rate, sim), a, sim) /\ Manages(G(rate, sim), b, sim)
    BY DualGeneratedServes
  <2> HIDE DEF G, fast
  <2>3. ASSUME NEW rate, NEW sim \in BOOLEAN, L.manager = G(rate, sim), L.group => L.sim = sim
        PROVE  Serves(K, a) /\ Serves(K, b) /\ (L.group => L.manager.use_sim_time = L.sim)
    BY <2>2, <2>3 DEF Manages
  <2> QED
    BY <2>1, <2>3
<1>3. L.spawned \subseteq DualControllers(a, b)
  BY <1>1 DEF DualSet, DualControllers, ArmControllers
<1> QED
  BY <1>2, <1>3 DEF L

\* Every launch of one arm is in order.
LEMMA SingleInOrder ==
  ASSUME NEW mode \in SingleModes, NEW a, FilesExist(a),
         mode \in MbotModes => RobotName(a) = <<"xarm", 6>>
  PROVE  LET L == SingleLaunch(mode, a)
         IN /\ InOrder(L, Own(L, mode \in MbotModes, {a}), {a})
            /\ L.servo.out \in L.spawned =>
                 (a.prefix = "" => L.servo.group \in L.moveit.semantic)
<1> DEFINE L == SingleLaunch(mode, a)
           K == L.manager.controllers
           W == trajectory_execution(a, FileOf(mode))
           own == Own(L, mode \in MbotModes, {a})
<1>1. Manages(L.manager, a, L.sim)
  BY SingleServes
<1>2. /\ L.spawned \subseteq {Broadcaster, MbotController} \cup ArmControllers(a)
      /\ L.driver <=> mode \in DriverModes
      /\ ~L.driver => {Broadcaster} \cup ArmControllers(a) \subseteq L.spawned
      /\ L.driver => L.sources = {a.prefix}
      /\ L.driver /\ mode # "control" => ArmTrajController(a) \in L.spawned
  BY SingleSpawned
<1>3. /\ L.group => L.moveit.controllers = W
      /\ ~L.group => L.moveit.controllers = <<>>
      /\ mode = "control" => ~L.group
      /\ mode \in MbotModes => L.group
      /\ \/ L.servo = NoServo
         \/ /\ L.servo = ServoOf(a) /\ mode # "control"
            /\ L.moveit.semantic = robot_description_semantic(a)
  BY SingleTold
<1>4. L.group => (L.driver <=> mode \in {"real", "demo_real", "mbot_real"})
  BY SingleGroup
<1> HIDE DEF L
<1>5. Serves(K, a) /\ (MbotController \in DOMAIN K => K[MbotController] = {})
  BY <1>1 DEF Manages
<1>6. Apart(K, L.spawned)
  <2>1. Apart(K, {Broadcaster, MbotController} \cup ArmControllers(a))
    BY <1>5, SingleApart
  <2> QED
    BY <1>2, <2>1 DEF Apart
<1>7. ASSUME NEW c \in own PROVE Delivered(L, c, a, L.moveit.controllers)
  <2>1. L.group
    <3>1. CASE mode \in MbotModes /\ L.driver
      BY <1>3, <3>1
    <3>2. CASE ~(mode \in MbotModes /\ L.driver)
      <4>1. c \in DOMAIN L.moveit.controllers
        BY <3>2 DEF Own
      <4> QED
        BY <1>3, <4>1
    <3> QED
      BY <3>1, <3>2
  <2>2. L.moveit.controllers = W
    BY <1>3, <2>1
  <2>3. CASE mode = "mbot_real"
    <3>1. c = ArmTrajController(a)
      BY <1>2, <2>3 DEF Own, MbotModes, DriverModes
    <3>2. W[c] = AllWithPrefix(a.prefix, ArmJoints(RobotName(a)))
      <4>1. FileOf(mode) = "fake_controllers"
        BY <2>3 DEF FileOf
      <4> QED
        BY <3>1, <4>1, Wanted
    <3>3. c \in L.spawned
      BY <1>2, <2>3, <3>1 DEF DriverModes
    <3> QED
      BY <1>5, <2>2, <3>1, <3>2, <3>3 DEF Delivered, Serves
  <2>4. CASE mode # "mbot_real"
    <3>1. c \in DOMAIN W
      <4>1. ~(mode \in MbotModes /\ L.driver)
        BY <1>4, <2>1, <2>4 DEF MbotModes
      <4> QED
        BY <2>2, <4>1 DEF Own
    <3>2. \/ FileOf(mode) = "fake_controllers" /\ ArmControllers(a) \subseteq L.spawned
          \/ FileOf(mode) = "controllers" /\ L.driver /\ ArmTrajController(a) \in L.spawned
      BY <1>2, <1>3, <1>4, <2>1, <2>4 DEF FileOf
    <3> QED
      BY <1>5, <2>2, <3>1, <3>2, ArmIsTold
  <2> QED
    BY <2>3, <2>4
<1>8. L.servo.out \in L.spawned =>
        /\ L.servo.out \in DOMAIN K
        /\ a.prefix = "" => L.servo.group \in L.moveit.semantic
  <2> SUFFICES ASSUME L.servo.out \in L.spawned
               PROVE  /\ L.servo.out \in DOMAIN K
                      /\ a.prefix = "" => L.servo.group \in L.moveit.semantic
    OBVIOUS
  <2>1. L.servo.out # <<>>
    BY <1>2, NamesAreTriples
  <2>2. /\ L.servo = ServoOf(a) /\ L.moveit.semantic = robot_description_semantic(a)
    BY <1>3, <2>1 DEF NoServo
  <2>3. L.servo.out = ArmTrajController(a) /\ L.servo.group = Named("group", RobotName(a))
    BY <2>2, RobotOf DEF ServoOf
  <2> QED
    BY <1>5, <2>2, <2>3 DEF Serves, robot_description_semantic, WithPrefix
<1>9. \/ Broadcaster \in L.spawned /\ Broadcaster \in DOMAIN K
      \/ L.driver /\ L.sources = {x.prefix : x \in {a}}
  BY <1>2, <1>5 DEF Serves
<1>10. L.group => L.manager.use_sim_time = L.sim
  BY <1>1 DEF Manages
<1>11. InOrder(L, own, {a})
  <2> HIDE DEF own
  <2> QED
    BY <1>6, <1>7, <1>8, <1>9, <1>10 DEF InOrder
<1> QED
  BY <1>8, <1>11 DEF L

\* Every launch of two arms with different prefixes is in order.
LEMMA DualInOrder ==
  ASSUME NEW mode \in DualModes, NEW a, NEW b, FilesExist(a), FilesExist(b), a.prefix # b.prefix
  PROVE  LET L == DualLaunch(mode, a, b)
         IN /\ InOrder(L, DOMAIN L.moveit.controllers, {a, b})
            /\ L.servo.out \notin L.spawned
<1> DEFINE L == DualLaunch(mode, a, b)
           K == L.manager.controllers
           V == trajectory_execution(a, FileOf(mode))
           W == trajectory_execution(b, FileOf(mode))
<1>1. DualSet(L, mode, a, b)
  BY DualSetting
<1> HIDE DEF L
<1>2. Serves(K, a) /\ Serves(K, b) /\ (L.group => L.manager.use_sim_time = L.sim)
  BY DualServes DEF L
<1>3. L.spawned \subseteq DualControllers(a, b)
  BY DualServes DEF L
<1>4. Apart(K, L.spawned)
  <2>1. Apart(K, DualControllers(a, b))
    BY <1>2, DualApart DEF DualControllers
  <2> QED
    BY <1>3, <2>1 DEF Apart
<1>5. ASSUME NEW c \in DOMAIN L.moveit.controllers
      PROVE  \E x \in {a, b} : Delivered(L, c, x, L.moveit.controllers)
  <2>1. L.moveit.controllers = Updated(V, W)
    BY <1>1, <1>5 DEF DualSet, dual_trajectory_execution
  <2>2. \/ /\ FileOf(mode) = "fake_controllers"
           /\ ArmControllers(a) \subseteq L.spawned /\ ArmControllers(b) \subseteq L.spawned
        \/ /\ FileOf(mode) = "controllers" /\ L.driver
           /\ ArmTrajController(a) \in L.spawned /\ ArmTrajController(b) \in L.spawned
    BY <1>1 DEF DualSet, FileOf, DualControllers
  <2> HIDE DEF V, W
  <2>3. \/ c \in DOMAIN W /\ L.moveit.controllers[c] = W[c]
        \/ c \in DOMAIN V /\ L.moveit.controllers[c] = V[c]
    BY <1>5, <2>1 DEF Updated
  <2>4. CASE c \in DOMAIN W /\ L.moveit.controllers[c] = W[c]
    <3>1. Delivered(L, c, b, W)
      BY <1>2, <2>2, <2>4, ArmIsTold DEF W
    <3> QED
      BY <2>4, <3>1 DEF Delivered
  <2>5. CASE c \in DOMAIN V /\ L.moveit.controllers[c] = V[c]
    <3>1. Delivered(L, c, a, V)
      BY <1>2, <2>2, <2>5, ArmIsTold DEF V
    <3> QED
      BY <2>5, <3>1 DEF Delivered
  <2> QED
    BY <2>3, <2>4, <2>5
<1>6. L.servo.out \notin L.spawned
  <2>1. L.servo.out = <<>>
    BY <1>1 DEF DualSet, NoServo
  <2> QED
    BY <1>3, <2>1, NamesAreTriples DEF DualControllers
<1>7. \/ Broadcaster \in L.spawned /\ Broadcaster \in DOMAIN K
      \/ L.driver /\ L.sources = {x.prefix : x \in {a, b}}
  <2>1. CASE L.driver
    BY <1>1, <2>1 DEF DualSet
  <2>2. CASE ~L.driver
    BY <1>1, <1>2, <2>2 DEF DualSet, DualControllers, Serves
  <2> QED
    BY <2>1, <2>2
<1>8. InOrder(L, DOMAIN L.moveit.controllers, {a, b})
  BY <1>2, <1>4, <1>5, <1>6, <1>7 DEF InOrder
<1> QED
  BY <1>6, <1>8 DEF L
----------------------------------------------------------------------------
(* The bring-up: from what is launched to what is active.                     *)

\* What is launched is in order.
LEMMA LaunchInOrder ==
  ASSUME NamesDiffer, LaunchInv, launch = "running"
  PROVE  /\ InOrder(launched, Own(launched, OfMbot(setup), Arms), Arms)
         /\ launched.servo.out \in launched.spawned =>
              (setup.arms[1].prefix = "" => launched.servo.group \in launched.moveit.semantic)
<1> DEFINE mode == setup.mode  a == setup.arms[1]  b == setup.arms[2]
<1>1. /\ setup \in Setups /\ launched = Launched(setup)
      /\ \A i \in 1..Len(setup.arms) : FilesExist(setup.arms[i])
  BY DEF LaunchInv, Launches
<1>2. OfMbot(setup) <=> mode \in MbotModes
  BY DEF OfMbot, MbotModes
<1>3. \/ /\ Len(setup.arms) = 1 /\ mode \in SingleModes
         /\ mode \in MbotModes => RobotName(a) = <<"xarm", 6>>
      \/ Len(setup.arms) = 2 /\ mode \in DualModes /\ a.prefix # b.prefix
  BY <1>1, <1>2, SetupsAssumption DEF NamesDiffer
<1>4. CASE Len(setup.arms) = 1
  <2>1. launched = SingleLaunch(mode, a) /\ Arms = {a} /\ FilesExist(a)
    BY <1>1, <1>4 DEF Launched, Arms
  <2>2. mode \in SingleModes /\ (mode \in MbotModes => RobotName(a) = <<"xarm", 6>>)
    BY <1>3, <1>4
  <2> HIDE DEF mode, a
  <2>3. /\ InOrder(launched, Own(launched, mode \in MbotModes, {a}), {a})
        /\ launched.servo.out \in launched.spawned =>
             (a.prefix = "" => launched.servo.group \in launched.moveit.semantic)
    BY <2>1, <2>2, SingleInOrder
  <2>4. Own(launched, OfMbot(setup), Arms) = Own(launched, mode \in MbotModes, {a})
    BY <1>2, <2>1 DEF Own
  <2> QED
    BY <2>1, <2>3, <2>4 DEF a
<1>5. CASE Len(setup.arms) = 2
  <2>1. launched = DualLaunch(mode, a, b) /\ Arms = {a, b} /\ FilesExist(a) /\ FilesExist(b)
    BY <1>1, <1>5 DEF Launched, Arms
  <2>2. mode \in DualModes /\ a.prefix # b.prefix
    BY <1>3, <1>5
  <2>3. ~OfMbot(setup)
    BY <2>2 DEF OfMbot, DualModes
  <2> HIDE DEF mode, a, b
  <2>4. /\ InOrder(launched, DOMAIN launched.moveit.controllers, {a, b})
        /\ launched.servo.out \notin launched.spawned
    BY <2>1, <2>2, DualInOrder
  <2>5. Own(launched, OfMbot(setup), Arms) = DOMAIN launched.moveit.controllers
    BY <2>3 DEF Own
  <2> QED
    BY <2>1, <2>4, <2>5
<1> QED
  BY <1>3, <1>4, <1>5

\* What is spawned is known to the manager, but for the base's controller with a
\* prefix.
LEMMA SpawnedIsKnown ==
  ASSUME NamesDiffer, LaunchInv, launch = "running"
  PROVE  launched.spawned \cap DOMAIN launched.manager.controllers = launched.spawned \ Unknown
<1> DEFINE mode == setup.mode  a == setup.arms[1]  b == setup.arms[2]
           K == launched.manager.controllers
<1>1. /\ setup \in Setups /\ launched = Launched(setup)
      /\ \A i \in 1..Len(setup.arms) : FilesExist(setup.arms[i])
  BY DEF LaunchInv, Launches
<1>2. OfMbot(setup) <=> mode \in MbotModes
  BY DEF OfMbot, MbotModes
<1>3. \/ /\ Len(setup.arms) = 1 /\ mode \in SingleModes
         /\ mode \in MbotModes => RobotName(a) = <<"xarm", 6>>
      \/ Len(setup.arms) = 2 /\ mode \in DualModes /\ a.prefix # b.prefix
  BY <1>1, <1>2, SetupsAssumption DEF NamesDiffer
<1>4. Unknown = IF mode \in MbotModes /\ a.prefix # "" THEN {MbotController} ELSE {}
  BY <1>2 DEF Unknown
<1>5. CASE Len(setup.arms) = 1
  <2>1. launched = SingleLaunch(mode, a) /\ FilesExist(a) /\ mode \in SingleModes
        /\ (mode \in MbotModes => RobotName(a) = <<"xarm", 6>>)
    BY <1>1, <1>3, <1>5 DEF Launched
  <2> HIDE DEF mode, a
  <2>2. Serves(K, a)
    BY <2>1, SingleServes DEF Manages
  <2>3. launched.spawned \subseteq {Broadcaster, MbotController} \cup ArmControllers(a)
    BY <2>1, SingleSpawned
  <2>4. {Broadcaster} \cup ArmControllers(a) \subseteq DOMAIN K
    BY <2>2, ArmApart DEF Serves
  <2>5. MbotController \notin {Broadcaster} \cup ArmControllers(a)
    BY BaseIsNoArm
  <2>6. ASSUME MbotController \in launched.spawned
        PROVE  mode \in MbotModes /\ (MbotController \in DOMAIN K <=> a.prefix = "")
    <3>1. /\ mode \in MbotModes
          /\ \E rate, sim : launched.manager =
                              generate_ros2_control_params_temp_file(MbotFile, a, rate, sim)
      BY <2>1, <2>6, BaseIsSpawned
    <3>2. PICK rate, sim :
            launched.manager = generate_ros2_control_params_temp_file(MbotFile, a, rate, sim)
      BY <3>1
    <3> QED
      BY <2>1, <3>1, <3>2, BaseIsKnown
  <2> HIDE DEF K
  <2> QED
    BY <1>4, <2>3, <2>4, <2>5, <2>6 DEF K
<1>6. CASE Len(setup.arms) = 2
  <2>1. launched = DualLaunch(mode, a, b) /\ FilesExist(a) /\ FilesExist(b)
        /\ mode \in DualModes /\ a.prefix # b.prefix
    BY <1>1, <1>3, <1>6 DEF Launched
  <2>2. mode \notin MbotModes
    BY <2>1 DEF DualModes, MbotModes
  <2> HIDE DEF mode, a, b
  <2>3. launched.spawned \subseteq DualControllers(a, b) /\ Serves(K, a) /\ Serves(K, b)
    BY <2>1, DualServes
  <2>4. DualControllers(a, b) \subseteq DOMAIN K
    BY <2>3, ArmApart DEF Serves, DualControllers
  <2> QED
    BY <1>4, <2>2, <2>3, <2>4
<1> QED
  BY <1>3, <1>5, <1>6

\* How far the bring-up has got.
StartInv ==
  LET known == launched.manager.controllers
  IN /\ launch = "reading" =>
          control = "off" /\ entity = "none" /\ spawner = <<>> /\ servo = "off" /\ active = {}
     /\ launch = "running" =>
          /\ entity = "creating" => control = "off" /\ DOMAIN spawner = {} /\ servo = "off"
          /\ entity # "creating" => DOMAIN spawner = launched.spawned
          /\ control # "up" => active = {}
          /\ control = "starting" => \A c \in DOMAIN spawner : spawner[c] = "waiting"
          /\ control = "up" =>
               /\ active \subseteq {c \in DOMAIN spawner \cap DOMAIN known : spawner[c] # "waiting"}
               /\ \A c \in DOMAIN spawner :
                    spawner[c] = "waiting" \/ c \in active \/ c \notin DOMAIN known
          /\ servo = "running" => launched.servo.out \in DOMAIN spawner

\* At first nothing runs.
LEMMA StartIsKept == CellInit => StartInv
BY DEF CellInit, Init, StartInv

\* A spawner that finds its manager up has the controller activated if the manager
\* knows it: nothing that is active holds its joints.
LEMMA StartStep == NamesDiffer /\ LaunchInv /\ StartInv /\ [CellNext]_cell => StartInv'
<1> SUFFICES ASSUME NamesDiffer, LaunchInv, StartInv, [Next]_bringUp PROVE StartInv'
  BY BringUpMoves
<1>1. CASE LaunchSetup
  BY <1>1 DEF LaunchSetup, StartInv, StartSpawners
<1>2. CASE CreatorExits
  BY <1>2 DEF CreatorExits, StartInv, StartSpawners
<1>3. CASE ControlUp
  BY <1>3 DEF ControlUp, StartInv
<1>4. CASE ControlDies
  BY <1>4 DEF ControlDies, StartInv
<1>5. ASSUME NEW c \in DOMAIN spawner, Spawn(c) PROVE StartInv'
  <2> DEFINE known == launched.manager.controllers
  <2>1. /\ launch = "running" /\ control = "up" /\ entity # "creating"
        /\ DOMAIN spawner = launched.spawned /\ c \notin active
        /\ active \subseteq {d \in DOMAIN spawner \cap DOMAIN known : spawner[d] # "waiting"}
    BY <1>5 DEF Spawn, StartInv
  <2>2. Apart(known, launched.spawned)
    BY <2>1, LaunchInOrder DEF InOrder
  <2>3. c \in DOMAIN known => Spawnable(c)
    BY <2>1, <2>2 DEF Apart, Spawnable
  <2>4. Spawnable(c) => c \in DOMAIN known
    BY DEF Spawnable
  <2>5. /\ UNCHANGED <<launched, launch, control, entity>>
        /\ DOMAIN spawner' = DOMAIN spawner
        /\ \A d \in DOMAIN spawner : d # c => spawner'[d] = spawner[d]
        /\ spawner'[c] \in {"done", "failed"}
        /\ active' = IF Spawnable(c) THEN active \cup {c} ELSE active
        /\ servo' = IF c = launched.servo.out THEN "running" ELSE servo
    BY <1>5 DEF Spawn, ServoStarts
  <2> QED
    BY <2>1, <2>3, <2>4, <2>5 DEF StartInv
<1>6. ASSUME NEW c \in DOMAIN spawner, GiveUp(c) PROVE StartInv'
  <2>1. /\ launch = "running" /\ control \in {"off", "dead"}
        /\ UNCHANGED <<launched, launch, control, entity, active>>
        /\ DOMAIN spawner' = DOMAIN spawner
        /\ servo' = IF c = launched.servo.out THEN "running" ELSE servo
    BY <1>6 DEF GiveUp, ServoStarts
  <2> QED
    BY <1>6, <2>1 DEF StartInv
<1>7. CASE RvizCloses \/ Interrupted
  BY <1>7 DEF RvizCloses, Interrupted, Down, StartInv
<1>8. CASE UNCHANGED bringUp
  BY <1>8 DEF bringUp, StartInv
<1> QED
  BY <1>1, <1>2, <1>3, <1>4, <1>5, <1>6, <1>7, <1>8 DEF Next

\* A bring-up that has completed serves MoveIt, for every arm, gripper, prefix and
\* launch file: what MoveIt may send to is active with the joints MoveIt counts on
\* or is the driver's, clocks and joint states agree, and a servo server's
\* controller is active (uf_robot_utils.py: the manager's parameters;
\* moveit_configs_builder.py: trajectory_execution; the controllers' lists in the
\* launch files).  Two arms must have different prefixes, as the defaults L_ and
\* R_: with one prefix their joints would have the same names.
THEOREM CompletedBringUpServes == NamesDiffer /\ CellSpec => []MoveItIsServed
<1>1. NamesDiffer /\ LaunchInv /\ StartInv => MoveItIsServed
  <2> SUFFICES ASSUME NamesDiffer, LaunchInv, StartInv, Complete PROVE MoveItIsServed
    BY DEF MoveItIsServed
  <2> DEFINE known == launched.manager.controllers
             own == Own(launched, OfMbot(setup), Arms)
  <2>1. launch = "running" /\ \A c \in launched.spawned \cap DOMAIN known : c \in active
    BY DEF Complete, StartInv
  <2>2. servo = "running" => launched.servo.out \in launched.spawned
    BY DEF Complete, StartInv
  <2>3. /\ InOrder(launched, own, Arms)
        /\ launched.servo.out \in launched.spawned =>
             (setup.arms[1].prefix = "" => launched.servo.group \in launched.moveit.semantic)
    BY <2>1, LaunchInOrder
  <2>4. \A c \in own :
          \/ c \in active /\ known[c] = launched.moveit.controllers[c]
          \/ launched.driver /\ \E a \in Arms : c \in ServedByDriver(a)
    <3> TAKE c \in own
    <3>1. PICK a \in Arms : Delivered(launched, c, a, launched.moveit.controllers)
      BY <2>3 DEF InOrder
    <3> QED
      BY <2>1, <3>1 DEF Delivered
  <2>5. launched.group => launched.manager.use_sim_time = launched.sim
    BY <2>3 DEF InOrder
  <2>6. \/ Broadcaster \in active
        \/ launched.driver /\ launched.sources = {a.prefix : a \in Arms}
    BY <2>1, <2>3 DEF InOrder
  <2>7. servo = "running" =>
          /\ launched.servo.out \in active
          /\ setup.arms[1].prefix = "" => launched.servo.group \in launched.moveit.semantic
    BY <2>1, <2>2, <2>3 DEF InOrder
  <2> QED
    BY <2>4, <2>5, <2>6, <2>7 DEF MoveItIsServed, Own
<1>2. NamesDiffer /\ LaunchInv /\ StartInv /\ [CellNext]_cell => LaunchInv' /\ StartInv'
  BY LaunchStep, StartStep
<1>3. NamesDiffer => NamesDiffer'
  BY DEF NamesDiffer
<1> QED
  BY <1>1, <1>2, <1>3, LaunchIsKept, StartIsKept, PTL DEF CellSpec

\* A completed bring-up has every controller active that its launch file spawns,
\* but for the base's where it has a prefix: the spawners ask for it by the name of
\* the file, and add_prefix_to_ros2_control_params has renamed it (Unknown). It is
\* the safety half of ControllersComeUp.
THEOREM CompletedBringUpIsWhole ==
  NamesDiffer /\ CellSpec => [](Complete => active = launched.spawned \ Unknown)
<1> DEFINE Whole == Complete => active = launched.spawned \ Unknown
<1>1. NamesDiffer /\ LaunchInv /\ StartInv => Whole
  <2> SUFFICES ASSUME NamesDiffer, LaunchInv, StartInv, Complete
               PROVE  active = launched.spawned \ Unknown
    OBVIOUS
  <2> DEFINE known == launched.manager.controllers
  <2>1. /\ launch = "running" /\ DOMAIN spawner = launched.spawned
        /\ active \subseteq launched.spawned \cap DOMAIN known
        /\ \A c \in launched.spawned : c \in active \/ c \notin DOMAIN known
    BY DEF Complete, StartInv
  <2>2. launched.spawned \cap DOMAIN known = launched.spawned \ Unknown
    BY <2>1, SpawnedIsKnown
  <2> HIDE DEF known
  <2> QED
    BY <2>1, <2>2
<1>2. NamesDiffer /\ LaunchInv /\ StartInv /\ [CellNext]_cell => LaunchInv' /\ StartInv'
  BY LaunchStep, StartStep
<1>3. NamesDiffer => NamesDiffer'
  BY DEF NamesDiffer
<1> QED
  BY <1>1, <1>2, <1>3, LaunchIsKept, StartIsKept, PTL DEF CellSpec
=============================================================================
