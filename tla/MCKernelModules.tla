--------------------------- MODULE MCKernelModules ---------------------------
(* Instances of KernelModules for TLC; the constants are in the .cfg files. *)
EXTENDS KernelModules
=============================================================================
