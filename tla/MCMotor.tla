------------------------------- MODULE MCMotor -------------------------------
(* Instances of MotorCtrl for TLC; the other constants are given in the .cfg   *)
(* files.  The arguments of a command are below, within and above the range.   *)
EXTENDS MotorCtrl

MCArguments == {-1, 3, 5}
=============================================================================
