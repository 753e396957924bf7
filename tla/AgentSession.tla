---------------------------- MODULE AgentSession ----------------------------
(***************************************************************************)
(* One agent and the control plane over the websockets between them:       *)
(* runConnectionWithResultQueue and its loops (cmd/vps-agent/main.go), the *)
(* frames they exchange, and the gateway's side (server/app/gateway.py),   *)
(* from an action's command to the row that holds its result.              *)
(*                                                                         *)
(* Of the executor (AgentExecutor) only the Result counts that it returns  *)
(* for a command, which comes once: whether its State is what the action   *)
(* did is the executor's affair.  It journals the Result, or answers that  *)
(* it could not.  A row's status is what the messages can change: "sent"   *)
(* is dispatched, accepted or running.                                     *)
(*                                                                         *)
(* Bounds: MaxFaults lost connections, timeouts, crashes and results that  *)
(* could not be journaled.                                                 *)
(***************************************************************************)
EXTENDS Integers, Sequences, SequencesExt, FiniteSets

CONSTANTS
  Requests, Rerouting,  \* actions; those requiresSessionReconnect names
  Conns,                \* websockets that may exist at a time
  JournalMax,           \* journalMaxEntries (256)
  HelloLimit,           \* max_length of agent_hello.reconcile (200)
  QueueMax,             \* resultQueueSize (128)
  MaxFaults, None

ASSUME AgentSessionAssumption ==
  /\ Rerouting \subseteq Requests /\ Conns # {}
  /\ IsFiniteSet(Requests) /\ Requests \cap {"notice", "denied"} = {}
  /\ None \notin Requests \cup Conns
  /\ {JournalMax, HelloLimit, QueueMax} \subseteq Nat \ {0} /\ MaxFaults \in Nat

VARIABLES
  row,         \* action_requests.status
  registered,  \* the node's connection in ConnectionManager._connections
  conn,        \* websockets: server's handler, whether bytes pass, what is under way
  agent,       \* the agent's loop: phase and connection
  handler,     \* handleCommand of each request: phase and connection
  outcome,     \* State of the Result that Execute returned
  journal,     \* the results that are in the journal, oldest first
  queue,       \* resultCh
  faults

session == <<row, registered, conn, agent, handler, outcome, journal, queue, faults>>
plane   == <<row, registered>>
node    == <<agent, handler, outcome, journal, queue>>

Settled  == {"succeeded", "failed", "lapsed"}
Verdicts == Requests \X BOOLEAN
Messages == [kind : {"hello", "ack", "reject", "result"}, request : Requests \cup {None},
             verdicts : SUBSET Verdicts]
Websockets == [state : {"free", "hello", "greeting", "serving", "closed"}, up : BOOLEAN,
               toAgent : Seq({"notice", "denied"} \cup Requests), toServer : Seq(Messages)]
Idle     == [state |-> "free", up |-> FALSE, toAgent |-> << >>, toServer |-> << >>]
NoOne    == [phase |-> "none", conn |-> None]
Loose    == [phase |-> "idle", link |-> None]

SessionTypeOK ==
  /\ row \in [Requests -> {"new", "queued", "sent", "unknown"} \cup Settled]
  /\ registered \in Conns \cup {None}
  /\ conn \in [Conns -> Websockets]
  /\ agent \in [phase : {"idle", "waiting", "session"}, link : Conns \cup {None}]
  /\ handler \in [Requests -> [phase : {"none", "started", "executing", "reporting"},
                               conn : Conns \cup {None}]]
  /\ outcome \in [Requests -> {"none", "succeeded", "failed"}]
  /\ journal \in BoundedSeq(Requests, JournalMax)
  /\ queue \in BoundedSeq(Requests, QueueMax)
  /\ faults \in 0 .. MaxFaults

SessionInit ==
  /\ row = [r \in Requests |-> "new"]
  /\ registered = None
  /\ conn = [c \in Conns |-> Idle]
  /\ agent = Loose
  /\ handler = [r \in Requests |-> NoOne]
  /\ outcome = [r \in Requests |-> "none"]
  /\ journal = << >> /\ queue = << >>
  /\ faults = 0

-----------------------------------------------------------------------------
\* WriteMessage: bytes put on a websocket that is gone are lost, or the write
\* fails; ToServer and ToAgent are the websocket after the writes.
ToServer(w, messages) == [w EXCEPT !.toServer = IF w.up THEN w.toServer \o messages ELSE w.toServer]
ToAgent(w, messages)  == [w EXCEPT !.toAgent = IF w.up THEN w.toAgent \o messages ELSE w.toAgent]

With(c, w) == [conn EXCEPT ![c] = w]

About(kind, r) == [kind |-> kind, request |-> r, verdicts |-> {}]

\* Mutant of Payload: whatever was not a failure is reported as a success.
PayloadUnlessFailed(r) == <<r, outcome[r] # "none">>

\* commandResultPayload, and the list of them that Recent gives.
Payload(r) == <<r, outcome[r] = "succeeded">>
Recent     == {Payload(r) : r \in ToSet(journal)}
Hello      == [kind |-> "hello", request |-> None, verdicts |-> Recent]
Result(r)  == [kind |-> "result", request |-> r, verdicts |-> {Payload(r)}]

\* The websocket as its server end closes it: a receive that is pending may still
\* return one message; a handler that is not receiving is done.
Closed(w) ==
  [w EXCEPT !.state = "closed", !.up = FALSE,
            !.toServer = IF w.state = "serving" /\ w.toServer # << >> THEN <<Head(w.toServer)>> ELSE << >>]

\* ... as its handler leaves it, and as its agent does.
Freed(w)     == [state |-> "free", up |-> FALSE, toAgent |-> w.toAgent, toServer |-> << >>]
Abandoned(w) == IF w.state = "free" THEN Idle ELSE w

\* Its hello is refused; it is welcomed with the commands that waited; the agent has
\* read a message from it.
Denied(w) == [state |-> "closed", up |-> FALSE, toAgent |-> ToAgent(w, <<"denied">>).toAgent,
              toServer |-> << >>]
Welcomed(w, commands) ==
  [state |-> "serving", up |-> w.up, toServer |-> Tail(w.toServer),
   toAgent |-> ToAgent(w, <<"notice">> \o SetToSeq(commands)).toAgent]
Taken(w) == [w EXCEPT !.toAgent = Tail(w.toAgent)]

-----------------------------------------------------------------------------
\* Mutant of Recorded: a row that went unknown is not in flight any more.
RecordedInFlight(verdicts) ==
  [r \in Requests |-> IF row[r] # "sent" \/ r \notin {v[1] : v \in verdicts} THEN row[r]
                      ELSE IF <<r, TRUE>> \in verdicts THEN "succeeded" ELSE "failed"]

\* Mutant of Recorded: the sweep's verdict gives way to one of the agent.
RecordedOverLapsed(verdicts) ==
  [r \in Requests |-> IF row[r] \in Settled \ {"lapsed"} \/ r \notin {v[1] : v \in verdicts} THEN row[r]
                      ELSE IF <<r, TRUE>> \in verdicts THEN "succeeded" ELSE "failed"]

\* finish_request and reconcile_result on rows: a settled row keeps its verdict.
Recorded(verdicts) ==
  [r \in Requests |-> IF row[r] \in Settled \/ r \notin {v[1] : v \in verdicts} THEN row[r]
                      ELSE IF <<r, TRUE>> \in verdicts THEN "succeeded" ELSE "failed"]

\* create_request: sent if the node is online, queued if it is not or has missed
\* its heartbeats.  A send on a dead connection may raise.
Create(r) ==
  /\ row[r] = "new"
  /\ \/ row' = [row EXCEPT ![r] = "queued"] /\ UNCHANGED conn
     \/ /\ registered # None
        /\ conn' = With(registered, ToAgent(conn[registered], <<r>>))
        /\ \/ row' = [row EXCEPT ![r] = "sent"]
           \/ ~conn[registered].up /\ row' = [row EXCEPT ![r] = "unknown"]
  /\ UNCHANGED <<registered, node, faults>>

\* The scheduler's sweep, once the deadline has passed.
Lapse(r) ==
  /\ row[r] \in {"queued", "sent"}
  /\ row' = [row EXCEPT ![r] = "lapsed"]
  /\ UNCHANGED <<registered, conn, node, faults>>

\* handle after register: the notice, _reconcile, and dispatch_pending, whose
\* sends (one at a time in AgentGateway) are taken together.
Welcome(c) ==
  LET rows == Recorded(Head(conn[c].toServer).verdicts)
      pending == {r \in Requests : rows[r] = "queued"} IN
  /\ row' = [r \in Requests |-> IF r \in pending THEN "sent" ELSE rows[r]]
  /\ conn' = With(c, Welcomed(conn[c], pending))

\* handle up to register: a hello that fails validation is refused; otherwise the
\* handler goes on at once, or first awaits the close of the connection it replaces.
Handshake(c) ==
  /\ conn[c].state = "hello"
  /\ conn[c].toServer # << >>
  /\ IF Cardinality(Head(conn[c].toServer).verdicts) > HelloLimit
     THEN /\ conn' = With(c, Denied(conn[c]))
          /\ UNCHANGED plane
     ELSE /\ registered' = c
          /\ IF registered = None THEN Welcome(c)
             ELSE /\ conn' = [conn EXCEPT ![registered] = Closed(conn[registered]),
                                          ![c] = [conn[c] EXCEPT !.state = "greeting"]]
                  /\ UNCHANGED row
  /\ UNCHANGED <<node, faults>>

Greet(c) ==
  /\ conn[c].state = "greeting"
  /\ Welcome(c)
  /\ UNCHANGED <<registered, node, faults>>

\* _message_loop: accept_request, its rejection, finish_request.
Receive(c) ==
  /\ conn[c].state \in {"serving", "closed"} /\ conn[c].toServer # << >>
  /\ conn' = With(c, [conn[c] EXCEPT !.toServer = Tail(conn[c].toServer)])
  /\ LET message == Head(conn[c].toServer)  r == message.request IN
       row' = CASE message.kind = "ack" /\ row[r] = "unknown" -> [row EXCEPT ![r] = "sent"]
                [] message.kind = "reject" /\ row[r] \notin Settled -> [row EXCEPT ![r] = "failed"]
                [] message.kind = "result" -> Recorded(message.verdicts)
                [] OTHER -> row
  /\ UNCHANGED <<registered, node, faults>>

\* The handler of a connection that is over: remove and mark_unknown_for_node.
Leave(c) ==
  /\ conn[c].state # "free"
  /\ conn[c].state = "closed" \/ agent.link # c
  /\ IF registered = c
     THEN /\ registered' = None
          /\ row' = [r \in Requests |-> IF row[r] = "sent" THEN "unknown" ELSE row[r]]
     ELSE UNCHANGED plane
  /\ conn' = With(c, IF agent.link = c THEN Freed(conn[c]) ELSE Idle)
  /\ UNCHANGED <<node, faults>>

-----------------------------------------------------------------------------
\* Dial, and agent_hello with the journal's results.
Dial ==
  /\ agent.phase = "idle"
  /\ \E c \in {CHOOSE d \in Conns : \/ conn[d].state = "free"
                                    \/ \A e \in Conns : conn[e].state # "free"} :
       /\ conn[c].state = "free"
       /\ agent' = [phase |-> "waiting", link |-> c]
       /\ conn' = With(c, [state |-> "hello", up |-> TRUE, toAgent |-> << >>, toServer |-> <<Hello>>])
  /\ UNCHANGED <<plane, handler, outcome, journal, queue, faults>>

Inbox == IF agent.link = None THEN << >> ELSE conn[agent.link].toAgent

\* waitForAuthentication, and the replay of the journal before the loops start.
Authenticate ==
  /\ agent.phase = "waiting" /\ Inbox # << >>
  /\ Head(Inbox) = "notice"
  /\ agent' = [agent EXCEPT !.phase = "session"]
  /\ conn' = With(agent.link, ToServer(Taken(conn[agent.link]),
                                       [i \in DOMAIN journal |-> Result(journal[i])]))
  /\ UNCHANGED <<plane, handler, outcome, journal, queue, faults>>

\* The session is over: the other end has closed it, a write failed, or the answer
\* to agent_hello is not a notice of success, or never comes.
Drop ==
  /\ agent.link # None
  /\ \/ conn[agent.link].state \in {"closed", "free"}
     \/ agent.phase = "waiting" /\ Inbox # << >> /\ Head(Inbox) # "notice"
     \/ agent.phase = "waiting" /\ ~conn[agent.link].up
  /\ agent' = Loose
  /\ conn' = With(agent.link, Abandoned(conn[agent.link]))
  /\ UNCHANGED <<plane, handler, outcome, journal, queue, faults>>

\* readLoop starts a handler.
Read ==
  /\ agent.phase = "session" /\ Inbox # << >>
  /\ conn' = With(agent.link, Taken(conn[agent.link]))
  /\ handler' = [handler EXCEPT ![Head(Inbox)] = [phase |-> "started", conn |-> agent.link]]
  /\ UNCHANGED <<plane, agent, outcome, journal, queue, faults>>

Held(r) == agent.link = handler[r].conn

\* handleCommand up to Execute: a command that fails validation is rejected; one
\* whose acknowledgement cannot be written is not carried out.
Acknowledge(r) ==
  /\ handler[r].phase = "started"
  /\ \/ /\ Held(r)
        /\ \E kind \in {"ack", "reject"} :
             /\ conn' = With(agent.link, ToServer(conn[agent.link], <<About(kind, r)>>))
             /\ handler' = [handler EXCEPT ![r] = IF kind = "ack" THEN [@ EXCEPT !.phase = "executing"]
                                                  ELSE NoOne]
     \/ /\ ~Held(r) \/ ~conn[handler[r].conn].up
        /\ handler' = [handler EXCEPT ![r] = NoOne]
        /\ UNCHANGED conn
  /\ UNCHANGED <<plane, agent, outcome, journal, queue, faults>>

HalfOpen(w) ==
  [w EXCEPT !.up = FALSE, !.toAgent = << >>,
            !.toServer = IF w.state = "greeting" THEN w.toServer ELSE << >>]

\* Record, within the limit of the journal.
Journaled(r) == LET entries == Append(journal, r) IN
                  IF Len(entries) > JournalMax THEN Tail(entries) ELSE entries

\* Execute: the Result is journaled, or else it is a failure (journal_failed),
\* whatever the action did.  An action that changes routes may leave the session
\* half-open: no byte passes and neither end notices.
Execute(r) ==
  /\ handler[r].phase = "executing"
  /\ \E state \in {"succeeded", "failed"} :
       /\ outcome' = [outcome EXCEPT ![r] = state]
       /\ \/ journal' = Journaled(r) /\ UNCHANGED faults
          \/ /\ state = "failed" /\ UNCHANGED journal
             /\ faults < MaxFaults /\ faults' = faults + 1
  /\ handler' = [handler EXCEPT ![r].phase = "reporting"]
  /\ \/ UNCHANGED conn
     \/ /\ r \in Rerouting /\ agent.link # None
        /\ conn' = With(agent.link, HalfOpen(conn[agent.link]))
  /\ UNCHANGED <<plane, agent, queue>>

\* Mutant of Reconnects: the session that brought the command stays.
ReconnectsNever(r) == FALSE

\* requiresSessionReconnect; cancel ends the session the command came with.
Reconnects(r) == r \in Rerouting /\ Held(r) /\ agent.phase = "session"

\* Mutant of Queued: the queue has no limit.
QueuedAlways(r) == Append(queue, r)

\* queueResult gives up when the queue stays full for ten seconds.
Queued(r) == IF Len(queue) < QueueMax THEN Append(queue, r) ELSE queue

\* The rest of handleCommand: queueResult, and the reconnect.
Report(r) ==
  /\ handler[r].phase = "reporting"
  /\ queue' = Queued(r)
  /\ agent' = IF Reconnects(r) THEN Loose ELSE agent
  /\ conn' = IF Reconnects(r) THEN With(agent.link, Abandoned(conn[agent.link])) ELSE conn
  /\ handler' = [handler EXCEPT ![r] = NoOne]
  /\ UNCHANGED <<plane, outcome, journal, faults>>

\* resultLoop; when a write fails the session ends and the result is requeued, or
\* dropped if a handler has filled the queue meanwhile.
SendResult ==
  /\ agent.phase = "session" /\ queue # << >>
  /\ LET r == Head(queue) IN
       \/ /\ conn' = With(agent.link, ToServer(conn[agent.link], <<Result(r)>>))
          /\ queue' = Tail(queue)
          /\ UNCHANGED agent
       \/ /\ ~conn[agent.link].up
          /\ \/ queue' = Append(Tail(queue), r)
             \/ queue' = Tail(queue) /\ \E q \in Requests : handler[q].phase = "reporting"
          /\ agent' = Loose
          /\ conn' = With(agent.link, Abandoned(conn[agent.link]))
  /\ UNCHANGED <<plane, handler, outcome, journal, faults>>

-----------------------------------------------------------------------------
\* The network loses a connection; messages under way arrive up to some point, and
\* a handshake that has its hello goes on until the handler notices.
Break(c) ==
  /\ conn[c].up
  /\ \E toAgent \in Prefixes(conn[c].toAgent), toServer \in Prefixes(conn[c].toServer) :
       /\ conn[c].state = "greeting" => toServer = conn[c].toServer
       /\ conn' = With(c, [state |-> IF conn[c].state = "serving" \/ toServer = << >> THEN "closed"
                                      ELSE conn[c].state,
                            up |-> FALSE, toAgent |-> toAgent, toServer |-> toServer])
  /\ UNCHANGED <<plane, node>>

\* The answer to agent_hello takes more than 20 seconds.
GiveUp ==
  /\ agent.phase = "waiting"
  /\ agent' = Loose
  /\ conn' = With(agent.link, Abandoned(conn[agent.link]))
  /\ UNCHANGED <<plane, handler, outcome, journal, queue>>

\* The agent dies and starts again: only the journal is left.
CrashAgent ==
  /\ agent' = Loose
  /\ conn' = [c \in Conns |-> Abandoned(conn[c])]
  /\ handler' = [r \in Requests |-> NoOne]
  /\ queue' = << >>
  /\ UNCHANGED <<plane, outcome, journal>>

\* The server dies and starts again: only the rows are left.
CrashServer ==
  /\ registered' = None
  /\ conn' = [c \in Conns |-> IF agent.link = c THEN Freed(conn[c]) ELSE Idle]
  /\ UNCHANGED <<row, node>>

Fault ==
  /\ faults < MaxFaults
  /\ faults' = faults + 1
  /\ GiveUp \/ CrashAgent \/ CrashServer \/ \E c \in Conns : Break(c)

AgentStep ==
  \/ Dial \/ Authenticate \/ Drop \/ Read \/ SendResult
  \/ \E r \in Requests : Acknowledge(r) \/ Execute(r) \/ Report(r)

ServerStep == \E c \in Conns : Handshake(c) \/ Greet(c) \/ Receive(c) \/ Leave(c)

SessionNext ==
  \/ \E r \in Requests : Create(r) \/ Lapse(r)
  \/ AgentStep \/ ServerStep \/ Fault

SessionSpec == SessionInit /\ [][SessionNext]_session

\* The agent's loop redials for ever, its goroutines and the server's coroutines
\* run on; nobody has to create a request, and faults owe nothing.
FairSessionSpec == SessionSpec /\ WF_session(AgentStep) /\ WF_session(ServerStep)

-----------------------------------------------------------------------------
\* A verdict on the control plane is the Result that the agent's executor returned
\* for this action, whichever message it came by: the row of a success never says
\* failed nor the other way round, and an action that was rejected is not carried
\* out afterwards.  (It is not always what the action did: see Execute, and the
\* report of change_ip.)
VerdictIsTheResult ==
  \A r \in Requests : /\ row[r] = "succeeded" => outcome[r] = "succeeded"
                      /\ row[r] = "failed" => outcome[r] # "succeeded"

Open(r) == row[r] \in {"sent", "unknown"}

\* The row of r waits for a result that is in the journal, of which the control plane
\* takes a hello.
Owed(r) == Open(r) /\ r \in ToSet(journal) /\ Len(journal) <= HelloLimit

\* Results that are in the journal when the agent is without a connection reach
\* their rows, unless the journal drops them or grows past what a hello may hold:
\* there comes a time when no row waits for any.
ResultIsReplayed ==
  (agent.phase = "idle" /\ \E r \in Requests : Owed(r)) ~> (\A r \in Requests : ~Owed(r))

\* The result of an action that may leave its session half-open reaches the row
\* all the same: the session that brought the command is given up after it.
RouteChangeIsReported ==
  \A r \in Rerouting : (handler[r].phase = "reporting" /\ Held(r) /\ Owed(r)) ~> ~Owed(r)

\* Without the messages: every action is carried out at most once and never after a
\* verdict of failure, and its row gets one verdict, which is the executor's own or
\* that its time was over, whatever is sent again, lost, replayed or late
\* (finish_request, handleCommand).
Promise == INSTANCE ActionVerdicts
             WITH verdict <- [r \in Requests |-> IF row[r] \in Settled THEN row[r] ELSE "open"],
                  result <- outcome

ImplementsActionVerdicts == Promise!Spec

\* Stronger, and false: every result of the journal is replayed after a reconnect.
JournalIsReplayed ==
  \A r \in Requests :
    (agent.phase = "idle" /\ r \in ToSet(journal) /\ Open(r)) ~> (~Open(r) \/ r \notin ToSet(journal))
=============================================================================
