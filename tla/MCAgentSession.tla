--------------------------- MODULE MCAgentSession ---------------------------
(***************************************************************************)
(* AgentSession with one action that changes routes and one that does not, *)
(* a new connection beside the one it replaces, and a journal that can     *)
(* outgrow a hello.                                                        *)
(***************************************************************************)
EXTENDS AgentSession
=============================================================================
