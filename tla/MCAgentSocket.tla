--------------------------- MODULE MCAgentSocket ---------------------------
(***************************************************************************)
(* AgentSocket with the heartbeat, a command that acknowledges or, in the  *)
(* second instance, the loop of results, and the reader, whose pong clears *)
(* the deadline of the others.                                             *)
(***************************************************************************)
EXTENDS AgentSocket
=============================================================================
