----------------------------- MODULE MCChangeIP -----------------------------
(***************************************************************************)
(* ChangeIP with two runs of two attempts each, so that the watchdog that  *)
(* a crash or a failed call of the first leaves behind meets the second,   *)
(* and one change of WARP by itself.                                       *)
(***************************************************************************)
EXTENDS ChangeIP
=============================================================================
