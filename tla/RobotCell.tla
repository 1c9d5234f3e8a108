------------------------------- MODULE RobotCell -------------------------------
(***************************************************************************)
(* A bring-up (BringUp) and, in the simulated cell with one xArm6 and its   *)
(* gripper, a script run against it from a second terminal: pick and place  *)
(* (PickPlace) or the client of the hybrid planner (HybridDemo).  Nothing   *)
(* makes the user wait for the bring-up to complete, and the launch may be  *)
(* ended under the script.                                                  *)
(***************************************************************************)
EXTENDS BringUp, PickPlace, HybridDemo

cell == <<bringUp, pickVars, demoVars>>

\* setup_moveit_config: the arm the script is written for.
ScriptArm == MoveItConfigsBuilder(<<"xarm", 6>>, "", TRUE, FALSE)

\* The controllers the script's own MoveItPy and its action client send to.
Sends == DOMAIN ControllersYAML(ScriptArm, "fake_controllers")
ArmUp     == ArmController(<<"xarm", 6>>) \in active \cap Sends
GripperUp == GripperController("xarm") \in active \cap Sends
GroupUp   == launch = "running"

CellInit == Init /\ PickInit /\ DemoInit

\* The controllers drop their goals when they go.
BringUpStep ==
  /\ Next
  /\ goal' = IF GripperController("xarm") \in active \ active' THEN "none" ELSE goal
  /\ UNCHANGED <<script, pc, asked, at, gripper, cube, scenes, failed, demoVars>>

\* The scripts are written for one cell.
Cell == setup = [mode |-> "gazebo", arms |-> <<ScriptArm>>] /\ launch = "running"

Start ==
  /\ Cell
  /\ StartScript /\ demo = "off"
  /\ UNCHANGED <<bringUp, demoVars>>

RunDemo ==
  /\ Cell
  /\ StartDemo /\ script = "waiting"
  /\ UNCHANGED <<bringUp, pickVars>>

Run    == ScriptStep(ArmUp, GripperUp, GroupUp) /\ UNCHANGED <<bringUp, demoVars>>
Answer == Answers(GripperUp, GroupUp) /\ UNCHANGED <<bringUp, demoVars>>
Execution == Motion(ArmUp, GripperUp) /\ UNCHANGED <<bringUp, demoVars>>

Demo     == DemoStep(GroupUp) /\ UNCHANGED <<bringUp, pickVars>>
Callback == OnGlobalSolution(GroupUp) /\ UNCHANGED <<bringUp, pickVars>>
Planner  == DemoEnvironment(GroupUp) /\ UNCHANGED <<bringUp, pickVars>>

CellNext == BringUpStep \/ Start \/ Run \/ Execution \/ Answer
            \/ RunDemo \/ Demo \/ Callback \/ Planner

\* The script's and the demo's threads get on; a controller that lives ends the
\* motion it was given.
CellSpec ==
  /\ CellInit /\ [][CellNext]_cell /\ Fairness
  /\ WF_cell(Run) /\ WF_cell(Execution) /\ WF_cell(Demo)

----------------------------------------------------------------------------
(* Properties.                                                              *)

\* The manager died, or the launch was ended, with a motion of the script under
\* way: execute(blocking=True) never returns.
Orphaned == asked = "motion" /\ control # "up"

\* The script ends, or raises, whoever answers: the one thing it may wait for
\* for ever is the end of a motion whose controllers are gone.
ScriptEnds == script = "running" ~> script \in {"ended", "raised"} \/ Orphaned
=============================================================================
