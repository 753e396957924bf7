--------------------------- MODULE MCAgentExecutor ---------------------------
(***************************************************************************)
(* AgentExecutor with a journal of at most two entries and four bytes.  A  *)
(* result weighs 1 or 3, and one more in the file, where it is indented:   *)
(* two small ones fit, two large ones make room by dropping the older one, *)
(* a small and a large one fit the list but not the file.                  *)
(***************************************************************************)
EXTENDS AgentExecutor

CONSTANTS getIp, restartXui

MCActions       == {getIp, restartXui}
MCStateChanging == {restartXui}
MCWeights       == {1, 3}
MCIndented      == [w \in MCWeights |-> w + 1]
=============================================================================
