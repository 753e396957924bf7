--------------------------- MODULE MCAgentGateway ---------------------------
(***************************************************************************)
(* AgentGateway with two handler slots for one node, so that a connection  *)
(* is replaced while it reconciles, dispatches a backlog or serves, and    *)
(* two handlers go through the same backlog.                               *)
(***************************************************************************)
EXTENDS AgentGateway

CONSTANTS getIp, changeIp

MCCalls         == {getIp, changeIp}
MCStateChanging == {changeIp}
MCIpChanging    == {changeIp}
=============================================================================
