------------------------------- MODULE MCRobot -------------------------------
(* The whole robot, a robot whose arms are never moved once they are        *)
(* lowered, and one that is an attacker with one kind of kick or stopped.   *)
EXTENDS Robot

AllPositions == {Raised, Lowered, Neutral}
AttackOrStop == {Lowered, Neutral}
JustAttack == {Lowered}
AllKicks == BOOLEAN
WalkKick == {FALSE}
=============================================================================
