------------------------------ MODULE MCVehicle -------------------------------
(* Instances of VehicleApp for TLC; the other constants are given in the .cfg  *)
(* files.  Codes: 2 on the line, 5 its end, 7 a node.  A route of two steps    *)
(* has a first, a next and an end; the numbers are a turn and one that stands  *)
(* for no action.                                                              *)
EXTENDS VehicleApp

MCOrders == {<<3, 0>>}
=============================================================================
