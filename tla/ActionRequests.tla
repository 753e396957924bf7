--------------------------- MODULE ActionRequests ---------------------------
(***************************************************************************)
(* The life of an action request on the control plane: ActionService       *)
(* (server/app/action_service.py) over the tables action_requests,         *)
(* action_results and ip_change_history.                                   *)
(*                                                                         *)
(* The server is one asyncio loop and SQLite calls are synchronous, so the *)
(* code between two awaits is one action.  Each action here is one such    *)
(* stretch of a method; who calls it, and when, is left open: whether a    *)
(* node is online is a parameter, a send may fail at any time, and an      *)
(* agent may speak of any request that was once sent to it.  AgentGateway  *)
(* extends this module with the connections that decide these things.      *)
(*                                                                         *)
(* Data abstracted: an action with its validated parameters is one element *)
(* of Calls; a deadline is the fact that it has passed (overdue); error    *)
(* codes, timestamps, sources and audit rows are left out.  The created_at *)
(* of an ip_change_history row, in microseconds, is its place in the       *)
(* node's sequence: the clock is not set back and does not stand still.    *)
(***************************************************************************)
EXTENDS Naturals, Sequences, SequencesExt

CONSTANTS
  Nodes,          \* the nodes that exist
  RequestIds,     \* request ids, chosen by the client or uuid4
  Calls,          \* an action and its normalized parameters
  StateChanging,  \* the calls whose action is in STATE_CHANGING_ACTIONS
  IpChanging,     \* the calls whose action is change_ip
  HistoryLimit,   \* ip_change_history rows a node keeps (100)
  None            \* the node and the call of a row that does not exist

ASSUME ActionRequestsAssumption ==
  /\ IpChanging \subseteq StateChanging
  /\ StateChanging \subseteq Calls
  /\ None \notin Nodes
  /\ None \notin Calls
  /\ HistoryLimit \in Nat \ {0}

VARIABLES
  status,    \* action_requests.status, "absent" where there is no row
  node,      \* action_requests.node_id
  call,      \* action_requests.action with parameters_json
  attempts,  \* action_requests.attempts
  overdue,   \* the requests whose deadline_at has passed
  results,   \* the action_results rows of each request, oldest first
  history    \* the requests with an ip_change_history row of each node, oldest first

tables == <<status, node, call, attempts, overdue, results, history>>

-----------------------------------------------------------------------------
InFlight == {"dispatched", "accepted", "running"}
Active   == {"queued", "unknown"} \cup InFlight
Terminal == {"succeeded", "failed", "timed_out", "expired",
             "skipped_offline", "canceled"}
Statuses == {"absent"} \cup Active \cup Terminal

ResultRows == [node : Nodes, success : BOOLEAN]

RequestsTypeOK ==
  /\ status \in [RequestIds -> Statuses]
  /\ node \in [RequestIds -> Nodes \cup {None}]
  /\ call \in [RequestIds -> Calls \cup {None}]
  /\ attempts \in [RequestIds -> Nat]
  /\ overdue \subseteq RequestIds
  /\ results \in [RequestIds -> Seq(ResultRows)]
  /\ history \in [Nodes -> Seq(RequestIds)]
  /\ \A n \in Nodes : Len(history[n]) <= HistoryLimit

RequestsInit ==
  /\ status = [r \in RequestIds |-> "absent"]
  /\ node = [r \in RequestIds |-> None]
  /\ call = [r \in RequestIds |-> None]
  /\ attempts = [r \in RequestIds |-> 0]
  /\ overdue = {}
  /\ results = [r \in RequestIds |-> << >>]
  /\ history = [n \in Nodes |-> << >>]

-----------------------------------------------------------------------------
\* The state-changing requests of node n that are in an ACTIVE status.
ActiveChanges(n) ==
  {r \in RequestIds : /\ node[r] = n
                      /\ call[r] \in StateChanging
                      /\ status[r] \in Active}

\* Mutant of Busy: a request the server lost sight of no longer blocks its node.
BusyUnlessUnknown(n, c) ==
  c \in StateChanging /\ \E r \in ActiveChanges(n) : status[r] # "unknown"

\* The action_busy check of create_request.
Busy(n, c) == c \in StateChanging /\ ActiveChanges(n) # {}

\* create_request up to the await of its dispatch, which does not yield before
\* the row of an online node is 'dispatched'.  A known request_id is refused or
\* answered with the existing row: no table changes.
CreateRequest(r, n, c, isOnline, queueIfOffline) ==
  /\ status[r] = "absent"
  /\ ~Busy(n, c)
  /\ status' = [status EXCEPT ![r] = IF isOnline THEN "dispatched"
                                     ELSE IF queueIfOffline THEN "queued"
                                     ELSE "skipped_offline"]
  /\ node' = [node EXCEPT ![r] = n]
  /\ call' = [call EXCEPT ![r] = c]
  /\ attempts' = [attempts EXCEPT ![r] = IF isOnline THEN 1 ELSE 0]
  /\ UNCHANGED <<overdue, results, history>>

\* Mutant of Dispatchable: a row that went unknown is sent again.
DispatchableAgain(r) == status[r] \in {"queued", "unknown"}

\* dispatch_request on a row read earlier by dispatch_pending, up to its await:
\* it re-reads the row and goes on only if that is still queued ...
Dispatchable(r) == status[r] = "queued"

\* ... finds the deadline behind it (_mark_expired) ...
DispatchExpires(r) ==
  /\ Dispatchable(r)
  /\ r \in overdue
  /\ status' = [status EXCEPT ![r] = "expired"]
  /\ UNCHANGED <<node, call, attempts, overdue, results, history>>

\* ... or commits 'dispatched' and begins the send.
DispatchSends(r) ==
  /\ Dispatchable(r)
  /\ r \notin overdue
  /\ status' = [status EXCEPT ![r] = "dispatched"]
  /\ attempts' = [attempts EXCEPT ![r] = @ + 1]
  /\ UNCHANGED <<node, call, overdue, results, history>>

\* Mutant of MarkUnknown: only what the agent has not acknowledged is marked.
MarkUnacknowledged(rs) ==
  /\ status' = [r \in RequestIds |->
                  IF r \in rs /\ status[r] = "dispatched" THEN "unknown" ELSE status[r]]
  /\ UNCHANGED <<node, call, attempts, overdue, results, history>>

\* mark_unknown and mark_unknown_for_node, on the rows rs.
MarkUnknown(rs) ==
  /\ status' = [r \in RequestIds |->
                  IF r \in rs /\ status[r] \in InFlight THEN "unknown" ELSE status[r]]
  /\ UNCHANGED <<node, call, attempts, overdue, results, history>>

RequestsOf(n) == {r \in RequestIds : node[r] = n}

-----------------------------------------------------------------------------
\* A command_ack with accepted = true, from the agent of node n.
Acceptable(n, r) == node[r] = n /\ status[r] \in {"dispatched", "unknown"}

AcceptRequest(n, r) ==
  /\ Acceptable(n, r)
  /\ status' = [status EXCEPT ![r] = "accepted"]
  /\ UNCHANGED <<node, call, attempts, overdue, results, history>>

\* Mutant of Rejectable: a late rejection overrides the sweep.
RejectableLate(n, r) ==
  node[r] = n /\ status[r] \notin {"succeeded", "failed", "expired", "canceled"}

\* A command_ack with accepted = false.  The statuses it leaves alone are not
\* TERMINAL_STATUSES: skipped_offline is missing.
Rejectable(n, r) ==
  /\ node[r] = n
  /\ status[r] \notin {"succeeded", "failed", "timed_out", "expired", "canceled"}

RejectRequest(n, r) ==
  /\ Rejectable(n, r)
  /\ status' = [status EXCEPT ![r] = "failed"]
  /\ UNCHANGED <<node, call, attempts, overdue, results, history>>

\* A command_progress.
Progressable(n, r) == node[r] = n /\ status[r] \in {"dispatched", "accepted", "unknown"}

ProgressRequest(n, r) ==
  /\ Progressable(n, r)
  /\ status' = [status EXCEPT ![r] = "running"]
  /\ UNCHANGED <<node, call, attempts, overdue, results, history>>

\* What finish_request asks of the row before it writes.
Finishable(n, r) == node[r] = n /\ status[r] \notin Terminal

\* The history rows of a node after record_ip_change: the row of r, a new one
\* because a request is finished once, and the newest HistoryLimit rows only.
IpChangeRecorded(rows, r) ==
  IF Len(rows) < HistoryLimit THEN Append(rows, r) ELSE Append(Tail(rows), r)

\* finish_request: a command_result, or a reconcile item of agent_hello.  A
\* result over 64 KiB is recorded as a failure, so success is the recorded
\* outcome.  record_ip_change runs after the commit, in a transaction of its
\* own: a crash between the two (recorded = FALSE) loses the history row.
FinishRequest(n, r, success, recorded) ==
  /\ Finishable(n, r)
  /\ status' = [status EXCEPT ![r] = IF success THEN "succeeded" ELSE "failed"]
  /\ results' = [results EXCEPT ![r] = Append(@, [node |-> n, success |-> success])]
  /\ history' = IF recorded /\ call[r] \in IpChanging
                  THEN [history EXCEPT ![n] = IpChangeRecorded(@, r)]
                  ELSE history
  /\ UNCHANGED <<node, call, attempts, overdue>>

-----------------------------------------------------------------------------
\* Mutants of Swept: overdue rows are queued for another attempt; a running
\* action has no deadline.
SweptForRetry(r) ==
  IF r \in overdue /\ status[r] \in InFlight THEN "queued" ELSE status[r]

SweptUnlessRunning(r) ==
  IF r \notin overdue THEN status[r]
  ELSE IF status[r] = "queued" THEN "expired"
  ELSE IF status[r] \in InFlight \ {"running"} THEN "timed_out"
  ELSE status[r]

\* What the sweep makes of a row: unknown rows are in neither UPDATE.
Swept(r) ==
  IF r \notin overdue THEN status[r]
  ELSE IF status[r] = "queued" THEN "expired"
  ELSE IF status[r] \in InFlight THEN "timed_out"
  ELSE status[r]

\* expire_requests, called by the scheduler loop: both UPDATEs in one transaction.
ExpireRequests ==
  /\ status' = [r \in RequestIds |-> Swept(r)]
  /\ UNCHANGED <<node, call, attempts, overdue, results, history>>

\* Time passes the deadline_at of r.
DeadlinePasses(r) ==
  /\ status[r] \in Active
  /\ overdue' = overdue \cup {r}
  /\ UNCHANGED <<status, node, call, attempts, results, history>>

-----------------------------------------------------------------------------
\* An agent only speaks of requests that were sent to it (and a re-enrolled one
\* may do so under another node id, which the handlers refuse).
Sent(r) == attempts[r] > 0

RequestsNext ==
  \/ \E r \in RequestIds, n \in Nodes, c \in Calls, isOnline, queue \in BOOLEAN :
       CreateRequest(r, n, c, isOnline, queue)
  \/ \E r \in RequestIds : \/ DispatchExpires(r)
                           \/ DispatchSends(r)
                           \/ MarkUnknown({r})
                           \/ DeadlinePasses(r)
  \/ \E n \in Nodes : MarkUnknown(RequestsOf(n))
  \/ \E r \in RequestIds, n \in Nodes :
       /\ Sent(r)
       /\ \/ AcceptRequest(n, r)
          \/ RejectRequest(n, r)
          \/ ProgressRequest(n, r)
          \/ \E success, recorded \in BOOLEAN : FinishRequest(n, r, success, recorded)
  \/ ExpireRequests

RequestsSpec == RequestsInit /\ [][RequestsNext]_tables

\* The scheduler loop sweeps every few seconds for as long as the server runs,
\* and clocks advance.
RequestsFairness ==
  /\ WF_tables(ExpireRequests)
  /\ \A r \in RequestIds : WF_tables(DeadlinePasses(r))

FairRequestsSpec == RequestsSpec /\ RequestsFairness

-----------------------------------------------------------------------------
\* At most one state-changing action is active on a node at a time: whatever
\* the order of creation, loss of contact, late answers and sweeps, no second
\* one gets past the action_busy check (server README, section on actions).
OneActiveChange ==
  \A r, s \in RequestIds :
    /\ r # s
    /\ {status[r], status[s]} \subseteq Active
    /\ {call[r], call[s]} \subseteq StateChanging
    => node[r] # node[s]

\* A command is put on the wire at most once: two handlers of one node visit the
\* same queued row, and a row that went unknown is never sent again.
SentAtMostOnce == \A r \in RequestIds : attempts[r] <= 1

\* A request that expired or was skipped never left the server, so its action
\* cannot have run; one that is anything else after the queue did leave it.
UnsentNeverRan ==
  \A r \in RequestIds :
    /\ status[r] \in {"queued", "expired", "skipped_offline"} => attempts[r] = 0
    /\ status[r] \in InFlight \cup {"unknown", "timed_out", "succeeded", "failed"}
         => attempts[r] = 1

\* The result table and the request row agree: a request has a result row
\* exactly when an agent's result decided it (a rejection leaves none), there is
\* only one, it comes from the request's own node and bears its outcome, and
\* only a finished change_ip has an IP history row, under its own node.
ResultRowAgrees ==
  \A r \in RequestIds :
    /\ Len(results[r]) <= 1
    /\ Len(results[r]) = 1 =>
         /\ results[r][1].node = node[r]
         /\ status[r] = IF results[r][1].success THEN "succeeded" ELSE "failed"
    /\ status[r] = "succeeded" => Len(results[r]) = 1
    /\ \A n \in Nodes : r \in ToSet(history[n]) =>
         node[r] = n /\ Len(results[r]) = 1 /\ call[r] \in IpChanging

\* What a terminal request keeps in a step: its status and its result rows.  An
\* IP history row it has not got it does not get, and the one it has goes only as
\* the oldest of its node, when as many newer ones as a node keeps are there.
TerminalKept ==
  \A r \in RequestIds :
    status[r] \in Terminal =>
      /\ status'[r] = status[r]
      /\ results'[r] = results[r]
      /\ \A n \in Nodes :
           /\ r \in ToSet(history'[n]) => r \in ToSet(history[n])
           /\ r \in ToSet(history[n]) \ ToSet(history'[n]) =>
                r = Head(history[n]) /\ Len(history'[n]) = HistoryLimit

\* Once a request is terminal its status and its result rows stay as they are: a
\* late acknowledgement, progress report, result or sweep does not touch it,
\* whatever the handler that processes it believed.  No IP history row is added
\* for it later, and its own is removed only by the node's limit, oldest first.
TerminalIsFinal == [][TerminalKept]_tables

\* An active request does not stay as it is for ever: it reaches a terminal
\* status, or the server loses sight of it.
ActiveMovesOn ==
  \A r \in RequestIds :
    (status[r] \in Active) ~> (status[r] \in Terminal \cup {"unknown"})

-----------------------------------------------------------------------------
\* The lock view of the tables: unknown still holds the node, as the busy check
\* counts it.
PhaseOf(r) ==
  CASE status[r] = "absent" -> "new"
    [] status[r] = "queued" -> "waiting"
    [] status[r] \in InFlight \cup {"unknown"} -> "sent"
    [] status[r] \in Terminal -> "settled"

HolderOf(n) ==
  IF ActiveChanges(n) = {} THEN None ELSE CHOOSE r \in ActiveChanges(n) : TRUE

Lock == INSTANCE NodeActionLock
          WITH phase <- [r \in RequestIds |-> PhaseOf(r)],
               holder <- [n \in Nodes |-> HolderOf(n)]

\* The service implements one lock per node: every handler, sweep and late
\* answer is a step of NodeActionLock or leaves its phases and holders alone.
ImplementsNodeActionLock == Lock!Spec
=============================================================================
