------------------------------ MODULE MCRobotCell ------------------------------
(***************************************************************************)
(* RobotCell for every robot, gripper and launch file, alone and in every    *)
(* pair.                                                                    *)
(***************************************************************************)
EXTENDS RobotCell

Fittings(prefixes) ==
  {MoveItConfigsBuilder(r, p, own, bio) :
     r \in Robots, p \in prefixes, own \in BOOLEAN, bio \in BOOLEAN}

\* In a pair no arm asks for both grippers.
OneTool(fittings) == {a \in fittings : ~(a.add_gripper /\ a.add_bio_gripper)}

\* The mobile base carries an xArm6.  A pair of unlike arms is launched in the
\* modes that have files of their own, the others repeat them.
Singles == {<<a>> : a \in Fittings({"", "A_"})}
Pairs   == {DualMoveItConfigsBuilder(a, b) :
              a \in OneTool(Fittings({"L_"})), b \in OneTool(Fittings({"R_"}))}
OnXArm6(arms) == \A i \in 1..Len(arms) : arms[i].type = "xarm" /\ arms[i].dof = 6
Alike(arms) == arms[2] = [arms[1] EXCEPT !.prefix = "R_"]

MCSetups ==
  {s \in [mode : SingleModes, arms : Singles] : OfMbot(s) => OnXArm6(s.arms)} \cup
  {s \in [mode : DualModes, arms : Pairs] :
     s.mode \notin {"fake", "real", "gazebo"} => Alike(s.arms)}

ASSUME NamesOfThePairs == NamesDiffer
=============================================================================
