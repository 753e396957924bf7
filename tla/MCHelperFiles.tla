---------------------------- MODULE MCHelperFiles ----------------------------
(***************************************************************************)
(* HelperFiles with two helpers: each job alone, after one that ended,     *)
(* failed or died at any step, and beside one that was given up.           *)
(***************************************************************************)
EXTENDS HelperFiles, TLC

MCJobs   == {"xray", "xui", "upgrade"}
Symmetry == Permutations(Helpers)
=============================================================================
