---------------------------- MODULE AgentGateway ----------------------------
(***************************************************************************)
(* The connections that drive the request tables: ConnectionManager        *)
(* (server/app/gateway.py), its handler coroutines, and the coroutines of  *)
(* ActionService that await a send.                                        *)
(*                                                                         *)
(* One asyncio loop runs them all.  A coroutine that does not suspend      *)
(* keeps the loop: loop is the handler that is between two awaits with     *)
(* several transactions to run (reconciling, or skipping rows), and        *)
(* everything but the clock and a crash waits for it.  _lock and           *)
(* _connections are never held over an await, so they need no variable.    *)
(*                                                                         *)
(* Data abstracted: a websocket is its handler; what a message says beyond *)
(* its effect on the tables; enrollment and credentials.                   *)
(***************************************************************************)
EXTENDS ActionRequests, FiniteSets

CONSTANTS
  Handlers,      \* handler coroutines that may exist at a time, one per websocket
  PendingLimit,  \* LIMIT of dispatch_pending (100)
  MaxRestarts    \* bound on the crashes of the server

ASSUME AgentGatewayAssumption ==
  /\ None \notin Handlers \cup RequestIds
  /\ PendingLimit \in Nat \ {0}
  /\ MaxRestarts \in Nat

VARIABLES
  connections,  \* ConnectionManager._connections: the handler registered for a node
  stage,        \* where each handler is in ConnectionManager.handle
  peer,         \* connection.node_id of each handler
  closed,       \* handlers whose websocket was closed by register or disconnect_node
  recent,       \* handlers whose last_received_at is within the heartbeat timeout
  todo,         \* reconcile items, then rows of dispatch_pending, left to a handler
  cursor,       \* the row whose send a dispatching handler awaits
  sending,      \* the rows whose send_command is awaited, by anyone
  loop,         \* the handler that keeps the event loop, or None
  restarts      \* crashes so far

sockets == <<connections, stage, peer, closed, recent, todo, cursor, sending, loop>>
gateway == <<tables, sockets, restarts>>

-----------------------------------------------------------------------------
\* "last" is a receive that was pending when the websocket was closed: it may
\* still deliver one message, the next receive raises.  "ending" is a handler
\* that has failed and awaits its close.
Stages == {"idle", "greeting", "reconciling", "dispatching", "serving", "last", "ending"}

SocketsTypeOK ==
  /\ connections \in [Nodes -> Handlers \cup {None}]
  /\ stage \in [Handlers -> Stages]
  /\ peer \in [Handlers -> Nodes \cup {None}]
  /\ closed \subseteq Handlers
  /\ recent \subseteq Handlers
  /\ todo \in [Handlers -> SUBSET RequestIds]
  /\ cursor \in [Handlers -> RequestIds \cup {None}]
  /\ sending \subseteq RequestIds
  /\ loop \in Handlers \cup {None}
  /\ restarts \in Nat

GatewayTypeOK == RequestsTypeOK /\ SocketsTypeOK

SocketsGone ==
  /\ connections' = [n \in Nodes |-> None]
  /\ stage' = [h \in Handlers |-> "idle"]
  /\ peer' = [h \in Handlers |-> None]
  /\ closed' = {}
  /\ recent' = {}
  /\ todo' = [h \in Handlers |-> {}]
  /\ cursor' = [h \in Handlers |-> None]
  /\ sending' = {}
  /\ loop' = None

GatewayInit ==
  /\ RequestsInit
  /\ connections = [n \in Nodes |-> None]
  /\ stage = [h \in Handlers |-> "idle"]
  /\ peer = [h \in Handlers |-> None]
  /\ closed = {}
  /\ recent = {}
  /\ todo = [h \in Handlers |-> {}]
  /\ cursor = [h \in Handlers |-> None]
  /\ sending = {}
  /\ loop = None
  /\ restarts = 0

-----------------------------------------------------------------------------
Online(n) == connections[n] # None /\ connections[n] \in recent

\* What closing the websocket of h from outside does to its handler.
StageOnClose(h) == IF stage[h] = "serving" THEN "last" ELSE stage[h]

\* The handler that awaits the send of r, if it is not an API call or the
\* scheduler that does.
Waiting(r) == {h \in Handlers : cursor[h] = r}

\* handle, up to the send of agent_authenticated: h is registered for node n and
\* the connection it replaces is closed, its requests left as they are.
Accept(h, n) ==
  /\ loop = None
  /\ stage[h] = "idle"
  /\ LET old == connections[n] IN
       /\ stage' = [g \in Handlers |-> IF g = h THEN "greeting"
                                       ELSE IF g = old THEN StageOnClose(g) ELSE stage[g]]
       /\ closed' = closed \cup ({old} \ {None})
  /\ connections' = [connections EXCEPT ![n] = h]
  /\ peer' = [peer EXCEPT ![h] = n]
  /\ recent' = recent \cup {h}
  /\ UNCHANGED <<tables, todo, cursor, sending, loop, restarts>>

\* The notice is sent: h goes on to the results its agent_hello brought, which
\* may be about any request that was ever sent.
Greeted(h) ==
  /\ loop = None
  /\ stage[h] = "greeting"
  /\ stage' = [stage EXCEPT ![h] = "reconciling"]
  /\ \E rs \in SUBSET {r \in RequestIds : Sent(r)} : todo' = [todo EXCEPT ![h] = rs]
  /\ loop' = h
  /\ UNCHANGED <<tables, connections, peer, closed, recent, cursor, sending, restarts>>

\* One item of _reconcile: reconcile_result records it or ignores it.
Reconcile(h, r) ==
  /\ loop = h
  /\ stage[h] = "reconciling"
  /\ r \in todo[h]
  /\ todo' = [todo EXCEPT ![h] = @ \ {r}]
  /\ \/ \E success \in BOOLEAN : FinishRequest(peer[h], r, success, TRUE)
     \/ ~Finishable(peer[h], r) /\ UNCHANGED tables
  /\ UNCHANGED <<connections, stage, peer, closed, recent, cursor, sending, loop, restarts>>

\* dispatch_pending reads the rows it will visit: the oldest PendingLimit ones.
\* Which ones are the oldest is left open.
ListPending(h) ==
  LET queued == {r \in RequestsOf(peer[h]) : status[r] = "queued"} IN
  /\ loop = h
  /\ stage[h] = "reconciling"
  /\ todo[h] = {}
  /\ \E rs \in SUBSET queued :
       /\ rs = queued \/ Cardinality(rs) = PendingLimit
       /\ Cardinality(rs) <= PendingLimit
       /\ todo' = [todo EXCEPT ![h] = rs]
  /\ stage' = [stage EXCEPT ![h] = "dispatching"]
  /\ UNCHANGED <<tables, connections, peer, closed, recent, cursor, sending, loop, restarts>>

-----------------------------------------------------------------------------
\* dispatch_request for a listed row that it leaves alone: it is no longer
\* queued, or the node is not online (any more).
SkipPending(h, r) ==
  /\ loop = h
  /\ stage[h] = "dispatching"
  /\ r \in todo[h]
  /\ \/ ~Dispatchable(r)
     \/ r \notin overdue /\ ~Online(peer[h])
  /\ todo' = [todo EXCEPT ![h] = @ \ {r}]
  /\ UNCHANGED <<tables, connections, stage, peer, closed, recent, cursor, sending, loop,
                 restarts>>

\* ... for a listed row whose deadline has passed ...
ExpirePending(h, r) ==
  /\ loop = h
  /\ stage[h] = "dispatching"
  /\ r \in todo[h]
  /\ DispatchExpires(r)
  /\ todo' = [todo EXCEPT ![h] = @ \ {r}]
  /\ UNCHANGED <<connections, stage, peer, closed, recent, cursor, sending, loop, restarts>>

\* ... and for one it sends, over whichever connection the node has now: the
\* handler suspends and others run.
SendPending(h, r) ==
  /\ loop = h
  /\ stage[h] = "dispatching"
  /\ r \in todo[h]
  /\ Online(peer[h])
  /\ DispatchSends(r)
  /\ todo' = [todo EXCEPT ![h] = @ \ {r}]
  /\ cursor' = [cursor EXCEPT ![h] = r]
  /\ sending' = sending \cup {r}
  /\ loop' = None
  /\ UNCHANGED <<connections, stage, peer, closed, recent, restarts>>

\* Mutant of PendingDone: the message loop polls and never suspends.
PendingDonePolls(h) ==
  /\ loop = h
  /\ stage[h] = "dispatching"
  /\ todo[h] = {}
  /\ stage' = [stage EXCEPT ![h] = IF h \in closed THEN "ending" ELSE "serving"]
  /\ UNCHANGED <<tables, connections, peer, closed, recent, todo, cursor, sending, loop, restarts>>

\* dispatch_pending returns and the message loop begins; on a websocket that was
\* closed meanwhile the first receive raises.
PendingDone(h) ==
  /\ loop = h
  /\ stage[h] = "dispatching"
  /\ todo[h] = {}
  /\ stage' = [stage EXCEPT ![h] = IF h \in closed THEN "ending" ELSE "serving"]
  /\ loop' = None
  /\ UNCHANGED <<tables, connections, peer, closed, recent, todo, cursor, sending, restarts>>

\* A send returns, or raises and its row is marked unknown; whatever has become
\* of the row and of the connection in the meantime.
SendEnds(r) ==
  /\ loop = None
  /\ r \in sending
  /\ UNCHANGED tables \/ MarkUnknown({r})
  /\ sending' = sending \ {r}
  /\ IF Waiting(r) = {} THEN UNCHANGED <<cursor, loop>>
     ELSE \E h \in Waiting(r) : /\ cursor' = [cursor EXCEPT ![h] = None]
                                /\ loop' = h
  /\ UNCHANGED <<connections, stage, peer, closed, recent, todo, restarts>>

-----------------------------------------------------------------------------
\* What a message of the agent behind h about request r does to the tables.
Answers(h, r) ==
  \/ AcceptRequest(peer[h], r)
  \/ RejectRequest(peer[h], r)
  \/ ProgressRequest(peer[h], r)
  \/ \E success \in BOOLEAN : FinishRequest(peer[h], r, success, TRUE)

\* One round of _message_loop.  A heartbeat, a status report or an answer the
\* tables refuse changes nothing but last_received_at.
Receive(h) ==
  /\ loop = None
  /\ stage[h] \in {"serving", "last"}
  /\ recent' = recent \cup {h}
  /\ \/ UNCHANGED tables
     \/ \E r \in RequestIds : Sent(r) /\ Answers(h, r)
  /\ stage' = [stage EXCEPT ![h] = IF @ = "last" THEN "ending" ELSE @]
  /\ UNCHANGED <<connections, peer, closed, todo, cursor, sending, loop, restarts>>

\* A protocol error or an exception: the handler awaits an error notice and the
\* close while it is still registered.
Fail(h) ==
  /\ loop = None
  /\ stage[h] \in {"greeting", "serving", "last"}
  /\ stage' = [stage EXCEPT ![h] = "ending"]
  /\ UNCHANGED <<tables, connections, peer, closed, recent, todo, cursor, sending, loop,
                 restarts>>

\* Mutant of Deregistered: remove does not ask whose registration it deletes.
DeregisteredBlindly(h) == connections[peer[h]] # None

\* The identity test of remove.
Deregistered(h) == connections[peer[h]] = h

\* The handler leaves: remove deregisters it, if it still is the registered one,
\* and only then marks the requests of its node.
End(h) ==
  /\ loop = None
  /\ stage[h] \in {"greeting", "serving", "last", "ending"}
  /\ IF Deregistered(h)
     THEN /\ connections' = [connections EXCEPT ![peer[h]] = None]
          /\ MarkUnknown(RequestsOf(peer[h]))
     ELSE UNCHANGED <<tables, connections>>
  /\ stage' = [stage EXCEPT ![h] = "idle"]
  /\ peer' = [peer EXCEPT ![h] = None]
  /\ closed' = closed \ {h}
  /\ recent' = recent \ {h}
  /\ UNCHANGED <<todo, cursor, sending, loop, restarts>>

\* disconnect_node, when an administrator deletes a node or its credentials.
DisconnectNode(n) ==
  /\ loop = None
  /\ connections[n] # None
  /\ connections' = [connections EXCEPT ![n] = None]
  /\ MarkUnknown(RequestsOf(n))
  /\ stage' = [stage EXCEPT ![connections[n]] = StageOnClose(connections[n])]
  /\ closed' = closed \cup {connections[n]}
  /\ UNCHANGED <<peer, recent, todo, cursor, sending, loop, restarts>>

\* The heartbeat timeout of h elapses.
Lapse(h) ==
  /\ h \in recent
  /\ recent' = recent \ {h}
  /\ UNCHANGED <<tables, connections, stage, peer, closed, todo, cursor, sending, loop,
                 restarts>>

-----------------------------------------------------------------------------
\* An API call or a task run creates a request and, if the node is online,
\* awaits its send.
Create(r, n, c, queueIfOffline) ==
  /\ loop = None
  /\ CreateRequest(r, n, c, Online(n), queueIfOffline)
  /\ sending' = IF Online(n) THEN sending \cup {r} ELSE sending
  /\ UNCHANGED <<connections, stage, peer, closed, recent, todo, cursor, loop, restarts>>

\* The scheduler's turn.
Sweep ==
  /\ loop = None
  /\ ExpireRequests
  /\ UNCHANGED <<sockets, restarts>>

Tick(r) == DeadlinePasses(r) /\ UNCHANGED <<sockets, restarts>>

\* The server dies and starts again: the tables are all it keeps.  It may die
\* inside finish_request, between the result's commit and record_ip_change.
Restart ==
  /\ restarts < MaxRestarts
  /\ restarts' = restarts + 1
  /\ SocketsGone
  /\ \/ UNCHANGED tables
     \/ \E h \in Handlers, r \in RequestIds, success \in BOOLEAN :
          /\ Sent(r)
          /\ \/ loop = None /\ stage[h] \in {"serving", "last"}
             \/ loop = h /\ stage[h] = "reconciling" /\ r \in todo[h]
          /\ FinishRequest(peer[h], r, success, FALSE)

GatewayNext ==
  \/ \E h \in Handlers, n \in Nodes : Accept(h, n)
  \/ \E h \in Handlers :
       \/ Greeted(h) \/ ListPending(h) \/ PendingDone(h)
       \/ Receive(h) \/ Fail(h) \/ End(h) \/ Lapse(h)
  \/ \E h \in Handlers, r \in RequestIds :
       Reconcile(h, r) \/ SkipPending(h, r) \/ ExpirePending(h, r) \/ SendPending(h, r)
  \/ \E r \in RequestIds : SendEnds(r) \/ Tick(r)
  \/ \E n \in Nodes : DisconnectNode(n)
  \/ \E r \in RequestIds, n \in Nodes, c \in Calls, queue \in BOOLEAN : Create(r, n, c, queue)
  \/ Sweep
  \/ Restart

GatewaySpec == GatewayInit /\ [][GatewayNext]_gateway

\* A coroutine that can run does run: the loop serves its ready queue in order,
\* so one that is ready again and again gets its turn, however often another has
\* the loop in between (strong fairness).  Sends end because uvicorn drops a peer that
\* answers no ping; a closed websocket ends the receive that waits on it.
Step(h) ==
  \/ Greeted(h) \/ ListPending(h) \/ PendingDone(h)
  \/ \E r \in RequestIds :
       Reconcile(h, r) \/ SkipPending(h, r) \/ ExpirePending(h, r) \/ SendPending(h, r)

GatewayFairness ==
  /\ \A h \in Handlers : /\ SF_gateway(Step(h))
                         /\ SF_gateway(h \in closed /\ End(h))
  /\ \A r \in RequestIds : /\ SF_gateway(SendEnds(r))
                           /\ WF_gateway(Tick(r))
  /\ SF_gateway(Sweep)

FairGatewaySpec == GatewaySpec /\ GatewayFairness

-----------------------------------------------------------------------------
\* A node's registration and its handlers agree: every handler that was not
\* closed from outside is the registered one of its node, every other is not.
\* So a reconnect never leaves two live connections, the end of a replaced
\* handler never takes down its successor, and no registration outlives its
\* handler (register, remove and disconnect_node, in any interleaving).
RegistrationMatches ==
  /\ \A h \in Handlers : stage[h] # "idle" => ((connections[peer[h]] = h) <=> (h \notin closed))
  /\ \A n \in Nodes : connections[n] # None =>
       stage[connections[n]] # "idle" /\ peer[connections[n]] = n

\* A handler awaits the send of a row that it took to 'dispatched' itself, and
\* the sends in progress are of rows that left the queue: no row is in the hands
\* of two coroutines, and no coroutine keeps the loop while it is suspended.
SendsAreOwned ==
  /\ \A h, g \in Handlers : h # g /\ cursor[h] # None => cursor[h] # cursor[g]
  /\ \A h \in Handlers : cursor[h] # None =>
       cursor[h] \in sending /\ stage[h] = "dispatching" /\ loop # h
  /\ \A r \in sending : Sent(r)
  /\ loop # None => stage[loop] \in {"reconciling", "dispatching"}

\* A step that takes a node's connection away, other than a crash.
LosesConnection(n) ==
  connections[n] # None /\ connections'[n] = None /\ restarts' = restarts

\* When a node's last connection goes, none of its requests stays in flight
\* (server README: on disconnect dispatched, accepted and running requests are
\* marked unknown), whichever of the handlers of the node is the one to leave.
DepartureMarks ==
  [][\A n \in Nodes : LosesConnection(n) =>
       \A r \in RequestIds : node[r] = n => status'[r] \notin InFlight]_gateway

\* The gateway keeps the promises of the request tables, those about progress
\* included: no coroutine that keeps the loop or hangs in a send keeps the
\* scheduler's sweep away for ever.
KeepsRequestPromises == FairRequestsSpec
=============================================================================
