--------------------------- MODULE MCEnrollment ---------------------------
(***************************************************************************)
(* Enrollment with two tokens, enough credentials for both registrations   *)
(* and a rotation, two websockets at a time and one fault.                 *)
(***************************************************************************)
EXTENDS Enrollment
=============================================================================
