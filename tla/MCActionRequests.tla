-------------------------- MODULE MCActionRequests --------------------------
(***************************************************************************)
(* ActionRequests on two requests and two nodes: two state-changing        *)
(* requests meet on one node or stay apart, and one sweep settles both.    *)
(***************************************************************************)
EXTENDS ActionRequests

CONSTANTS getIp, restartXui, changeIp

MCCalls         == {getIp, restartXui, changeIp}
MCStateChanging == {restartXui, changeIp}
MCIpChanging    == {changeIp}
=============================================================================
