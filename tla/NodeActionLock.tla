--------------------------- MODULE NodeActionLock ---------------------------
(***************************************************************************)
(* What the request service promises, without its tables: every node has   *)
(* a lock that a state-changing request holds from the moment it is taken  *)
(* in until it is settled, a request leaves the server at most once and    *)
(* never after it is settled, and a settled request stays settled.         *)
(***************************************************************************)
CONSTANTS
  Nodes,       \* the nodes, each with its lock
  RequestIds,  \* the requests
  None         \* the holder of a free lock

VARIABLES
  phase,  \* "new", "waiting", "sent" or "settled", for each request
  holder  \* the state-changing request that holds each node, or None

vars == <<phase, holder>>

LockTypeOK ==
  /\ phase \in [RequestIds -> {"new", "waiting", "sent", "settled"}]
  /\ holder \in [Nodes -> RequestIds \cup {None}]

Init ==
  /\ phase = [r \in RequestIds |-> "new"]
  /\ holder = [n \in Nodes |-> None]

\* A request that only reads is taken in, or sent at once, or refused for good.
Read(r) ==
  /\ phase[r] = "new"
  /\ \E p \in {"waiting", "sent", "settled"} : phase' = [phase EXCEPT ![r] = p]
  /\ UNCHANGED holder

\* A state-changing request takes the free lock of its node.
Take(r, n) ==
  /\ phase[r] = "new"
  /\ holder[n] = None
  /\ \E p \in {"waiting", "sent"} : phase' = [phase EXCEPT ![r] = p]
  /\ holder' = [holder EXCEPT ![n] = r]

\* A waiting request leaves the server.
Send(r) ==
  /\ phase[r] = "waiting"
  /\ phase' = [phase EXCEPT ![r] = "sent"]
  /\ UNCHANGED holder

\* Requests are settled, one by an answer or many by a sweep, and release.
Settle(rs) ==
  /\ \A r \in rs : phase[r] \in {"waiting", "sent"}
  /\ phase' = [r \in RequestIds |-> IF r \in rs THEN "settled" ELSE phase[r]]
  /\ holder' = [n \in Nodes |-> IF holder[n] \in rs THEN None ELSE holder[n]]

Next ==
  \/ \E r \in RequestIds : Read(r) \/ Send(r)
  \/ \E r \in RequestIds, n \in Nodes : Take(r, n)
  \/ \E rs \in SUBSET RequestIds : Settle(rs)

Spec == Init /\ [][Next]_vars
=============================================================================
