------------------------------- MODULE PickPlace -------------------------------
(***************************************************************************)
(* xarm_scripts/pick_and_place.py and the helpers of moveit_utils.py: a     *)
(* script that moves a cube over an obstacle with MoveItPy.  It plans with  *)
(* its own planning scene and keeps move_group's in step with it through    *)
(* the service /apply_planning_scene, which may be missing, slow or late.   *)
(* It looks at the outcome of almost nothing it asks for, and waits without *)
(* a time limit only for the end of a motion.                               *)
(***************************************************************************)
EXTENDS Sequences, Naturals

VARIABLES
  script,     \* "waiting" | "running" | "ended" | "raised"
  pc,         \* the step it is at
  asked,      \* it waits for an answer: "none" | "sync" | "goal" | "result" | "motion"
  at,         \* where the arm is, "astray" between the places
  gripper,    \* "open" | "closed"
  cube,       \* "held", or where it lies
  local,      \* the script's planning scene: which of Objects are in it
  group,      \* move_group's
  requests,   \* scene updates on their way to move_group
  goal,       \* of the gripper's controller: "none" | "sent" | "closing"
  failed      \* history: the kinds of steps that did not do what they are for

pickVars == <<script, pc, asked, at, gripper, cube, local, group, requests, goal, failed>>
world    == <<at, gripper, cube, goal>>
scenes   == <<local, group, requests>>

\* The cube as attached to the arm, the cube as an object of its own, and the
\* obstacle.
Objects == {"attached", "picked_object", "obstacle"}

Step(op, arg) == [op |-> op, arg |-> arg]

\* main() of pick_and_place.py
Steps ==
  << Step("move", "approach"), Step("move", "pick"),
     Step("set_gripper", "closed"), Step("attach", "attached"), Step("sync", "attach"),
     Step("move", "lift"),
     Step("add", "obstacle"), Step("sync", "add"),
     Step("plan", "place_approach"),
     Step("move", "place"),
     Step("set_gripper_state", "open"), Step("detach", "attached"), Step("sync", "remove"),
     Step("move", "retract") >>

At(op) == script = "running" /\ asked = "none" /\ Steps[pc].op = op

\* On to the next step; the last one ends the script.
GoOn ==
  /\ IF pc < Len(Steps) THEN pc' = pc + 1 /\ UNCHANGED script
     ELSE script' = "ended" /\ UNCHANGED pc
  /\ asked' = "none"

Failed == failed' = failed \cup {Steps[pc].op}

----------------------------------------------------------------------------
(* The script.                                                              *)

\* MoveItPy is configured and the gripper's server waited for, 5 s.
StartScript ==
  /\ script = "waiting"
  /\ script' = "running"
  /\ UNCHANGED <<pc, asked, world, scenes, failed>>

\* execute(blocking=True): MoveIt sends the motion to its controller and waits
\* for the result, without a time limit (execution_duration_monitoring is off).
AwaitMotion ==
  /\ asked' = "motion"
  /\ UNCHANGED <<script, pc, failed>>

\* move_to_pose, whose result is not used: without a plan nothing is executed,
\* and an execution may be refused.
Move(armUp) ==
  /\ At("move")
  /\ \/ armUp /\ at' = "astray" /\ AwaitMotion
     \/ GoOn /\ Failed /\ UNCHANGED at
  /\ UNCHANGED <<gripper, cube, goal, scenes>>

\* The motion over the obstacle is planned with three planners; the one with
\* the shortest motion plans again, and that plan, if any, is executed.
PlanAcross(armUp) ==
  /\ At("plan")
  /\ \E found \in SUBSET {"RRTConnect", "RRTstar", "PRM"} :
       \/ found # {} /\ armUp /\ at' = "astray" /\ AwaitMotion
       \/ GoOn /\ Failed /\ UNCHANGED at
  /\ UNCHANGED <<gripper, cube, goal, scenes>>

BugSendGripperGoal ==
  /\ At("set_gripper")
  /\ goal' = "sent"
  /\ GoOn
  /\ UNCHANGED <<at, gripper, cube, scenes, failed>>

\* set_gripper
SendGripperGoal ==
  /\ At("set_gripper")
  /\ goal' = "sent"
  /\ asked' = "goal"
  /\ UNCHANGED <<script, pc, at, gripper, cube, scenes, failed>>

\* Not accepted within 5 s: there is no goal handle to ask, an AttributeError.
GripperGoalTimesOut ==
  /\ asked = "goal"
  /\ script' = "raised" /\ asked' = "none" /\ Failed
  /\ UNCHANGED <<pc, world, scenes>>

\* No result within 10 s.
GripperResultTimesOut ==
  /\ asked = "result"
  /\ GoOn /\ Failed
  /\ UNCHANGED <<world, scenes>>

\* set_gripper_state plans and executes with MoveItPy; the controller drops
\* the goal it had.
OpenGripper(gripperUp) ==
  /\ At("set_gripper_state")
  /\ \/ gripperUp /\ goal' = "none" /\ AwaitMotion
     \/ GoOn /\ Failed /\ UNCHANGED goal
  /\ UNCHANGED <<at, gripper, cube, scenes>>

BugChangeScene ==
  /\ \/ At("attach") /\ UNCHANGED local
     \/ At("add")    /\ local' = local \cup {"obstacle"}
     \/ At("detach") /\ local' = local \ {"attached", "picked_object"}
  /\ GoOn
  /\ UNCHANGED <<world, group, requests, failed>>

\* process_attached_collision_object, apply_collision_object
ChangeScene ==
  /\ \/ At("attach") /\ local' = local \cup {"attached"}
     \/ At("add")    /\ local' = local \cup {"obstacle"}
     \/ At("detach") /\ local' = local \ {"attached", "picked_object"}
  /\ GoOn
  /\ UNCHANGED <<world, group, requests, failed>>

\* sync_scene_to_move_group: without the service, in 5 s, nothing is sent.
Sync(groupUp) ==
  /\ At("sync")
  /\ \/ /\ groupUp
        /\ requests' = requests \cup {Steps[pc].arg}
        /\ asked' = "sync"
        /\ UNCHANGED <<script, pc, failed>>
     \/ GoOn /\ Failed /\ UNCHANGED requests
  /\ UNCHANGED <<world, local, group>>

BugSyncTimesOut ==
  /\ asked = "sync" /\ requests = {}
  /\ GoOn /\ Failed
  /\ UNCHANGED <<world, scenes>>

\* No answer in 5 s: the request may still be on its way.
SyncTimesOut ==
  /\ asked = "sync"
  /\ GoOn /\ Failed
  /\ UNCHANGED <<world, scenes>>

----------------------------------------------------------------------------
(* External: move_group's service and the controllers.                      *)

BugApplied(request, scene) ==
  CASE request = "attach" -> scene \cup {"attached"}
    [] request = "add"    -> scene \cup {"obstacle"}
    [] request = "remove" -> (scene \ {"attached"}) \cup
                             (IF "attached" \in scene THEN {"picked_object"} ELSE {})

\* The removal names the cube twice: what is taken off the arm stays in the
\* scene as an object of its own, which is then removed.
Applied(request, scene) ==
  CASE request = "attach" -> scene \cup {"attached"}
    [] request = "add"    -> scene \cup {"obstacle"}
    [] request = "remove" -> scene \ {"attached", "picked_object"}

\* Requests of different clients have no order among each other.
ApplyScene(groupUp, r) ==
  /\ groupUp /\ r \in requests
  /\ group' = Applied(r, group)
  /\ requests' = requests \ {r}
  /\ IF asked = "sync" /\ Steps[pc].arg = r THEN GoOn ELSE UNCHANGED <<script, pc, asked>>
  /\ UNCHANGED <<world, local, failed>>

AnswerGripperGoal(gripperUp) ==
  /\ gripperUp /\ goal = "sent"
  /\ \/ /\ goal' = "closing"
        /\ asked' = IF asked = "goal" THEN "result" ELSE asked
        /\ UNCHANGED <<script, pc, failed>>
     \/ /\ goal' = "none"
        /\ IF asked = "goal" THEN GoOn /\ Failed ELSE UNCHANGED <<script, pc, asked, failed>>
  /\ UNCHANGED <<at, gripper, cube, scenes>>

\* The fingers close, around the cube if it is between them.
CloseGripper(gripperUp) ==
  /\ gripperUp /\ goal = "closing"
  /\ goal' = "none"
  /\ gripper' = "closed"
  /\ cube' = IF cube = at THEN "held" ELSE cube
  /\ IF asked = "result" THEN GoOn ELSE UNCHANGED <<script, pc, asked>>
  /\ UNCHANGED <<at, scenes, failed>>

\* A controller carries the motion out, or ends it on the way; one that dies
\* with the motion under way never answers.
MotionEnds(armUp) ==
  /\ asked = "motion" /\ Steps[pc].op # "set_gripper_state" /\ armUp
  /\ \/ at' = Steps[pc].arg /\ UNCHANGED failed
     \/ UNCHANGED at /\ Failed
  /\ GoOn
  /\ UNCHANGED <<gripper, cube, goal, scenes>>

OpeningEnds(gripperUp) ==
  /\ asked = "motion" /\ Steps[pc].op = "set_gripper_state" /\ gripperUp
  /\ \/ /\ gripper' = "open"
        /\ cube' = IF cube = "held" THEN at ELSE cube
        /\ UNCHANGED failed
     \/ Failed /\ UNCHANGED <<gripper, cube>>
  /\ GoOn
  /\ UNCHANGED <<at, goal, scenes>>

----------------------------------------------------------------------------

PickInit ==
  /\ script = "waiting" /\ pc = 1 /\ asked = "none"
  /\ at = "home" /\ gripper = "open" /\ cube = "pick"
  /\ local = {} /\ group = {} /\ requests = {}
  /\ goal = "none"
  /\ failed = {}

\* What the script does by itself: every wait but that for a motion has a
\* time limit.
ScriptStep(armUp, gripperUp, groupUp) ==
  \/ Move(armUp) \/ PlanAcross(armUp)
  \/ SendGripperGoal \/ GripperGoalTimesOut \/ GripperResultTimesOut
  \/ OpenGripper(gripperUp)
  \/ ChangeScene
  \/ Sync(groupUp) \/ SyncTimesOut

\* A motion that is executed ends while its controller lives.
Motion(armUp, gripperUp) == MotionEnds(armUp) \/ OpeningEnds(gripperUp)

Answers(gripperUp, groupUp) ==
  \/ \E r \in requests : ApplyScene(groupUp, r)
  \/ AnswerGripperGoal(gripperUp)
  \/ CloseGripper(gripperUp)

----------------------------------------------------------------------------
(* Properties.                                                              *)

\* An arm that carries the cube is moved along a plan that knows it does, so
\* the cube is not taken through the obstacle, whichever answers come late or
\* not at all (unless the gripper failed to let go of it).
CarriedCubeIsInScene ==
  [][at' # at /\ cube = "held" => "attached" \in local \/ "set_gripper_state" \in failed]_pickVars

\* A script all of whose steps worked has carried the cube over and let go.
CubeIsPlaced ==
  script = "ended" /\ failed = {} => cube = "place" /\ gripper = "open" /\ at = "retract"

\* What RViz shows and move_group plans with is the script's scene in the end,
\* the obstacle and nothing of the cube, if every update was answered in time.
ScenesAgree ==
  script = "ended" /\ "sync" \notin failed =>
    group = local /\ local = {"obstacle"} /\ requests = {}
=============================================================================
