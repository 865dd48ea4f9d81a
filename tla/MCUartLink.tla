----------------------------- MODULE MCUartLink ------------------------------
(* Instances of UartLink for TLC; the constants are given in the .cfg files. *)
EXTENDS UartLink
=============================================================================
