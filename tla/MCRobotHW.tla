----------------------------- MODULE MCRobotHW -----------------------------
(* The sites of the model-checked instances of RobotHW.                     *)
EXTENDS RobotHW

CONSTANTS jsb, jtc   \* joint_state_broadcaster, ..._traj_controller

\* Calls are lost, nobody waits, spawners come at any time.
Adverse == [controllers |-> {jtc}, reliable |-> FALSE,
            operatorWaits |-> FALSE, spawnerRaces |-> TRUE]

\* Two controllers, spawned at start-up, and an operator who waits.
Careful == [controllers |-> {jsb, jtc}, reliable |-> TRUE,
            operatorWaits |-> TRUE, spawnerRaces |-> FALSE]

\* The same with a second spawner, as _dual_robot_moveit_realmove starts.
TwoSpawners == [Careful EXCEPT !.spawnerRaces = TRUE]

\* Two controllers, and calls are answered; the rest is as bad as it may be.
Answering == [Adverse EXCEPT !.controllers = {jsb, jtc}, !.reliable = TRUE]

AdverseAndCareful == {Adverse, Careful}
OnlyTwoSpawners   == {TwoSpawners}
OnlyAnswering     == {Answering}
=============================================================================
