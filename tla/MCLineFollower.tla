---------------------------- MODULE MCLineFollower ----------------------------
(* Instances of LineFollower for TLC; the constants are given in the .cfg     *)
(* files.  The code has HistoryLen = DerailCount = 10, CheckN = 5 and          *)
(* Threshold = 3; the instances keep HistoryLen = DerailCount and              *)
(* Threshold > CheckN / 2.                                                     *)
EXTENDS LineFollower
=============================================================================
