---------------------------- MODULE AgentSocket ----------------------------
(***************************************************************************)
(* The agent's end of one websocket (agent/internal/wsclient) under the    *)
(* goroutines that share it: the loops that runConnection starts and       *)
(* commands that report (agent/cmd/vps-agent).                             *)
(*                                                                         *)
(* All writers share writeMu and one write deadline of the connection,     *)
(* which writeFrame sets before it has the mutex; context.AfterFunc moves  *)
(* it to the past when the context of a call is done.  A blocked write     *)
(* ends if the deadline is past when its goroutine gets to run: the Go     *)
(* runtime lets it go on if another call has moved the deadline by then.   *)
(*                                                                         *)
(* Of a frame only its two writes are kept, of a message that it was read, *)
(* of time that limits run out.  A command that cannot be decoded is       *)
(* answered by a handler here, though in the code by the reader, which     *)
(* ends with it.                                                           *)
(***************************************************************************)
EXTENDS Naturals

CONSTANTS
  Tickers,   \* heartbeatLoop and statusLoop, which write at intervals
  Results,   \* resultLoop, which writes when there is a result
  Handlers,  \* commands under way, which acknowledge
  Reader,    \* readLoop, which answers pings
  MaxLate,   \* bound on the calls of SetWriteDeadline that are late at a time
  None       \* no goroutine

Senders == Tickers \cup Results \cup Handlers
Writers == Senders \cup {Reader}
Loops   == Tickers \cup Results \cup {Reader}

ASSUME AgentSocketAssumption ==
  /\ Reader \notin Senders
  /\ Handlers \cap Loops = {}
  /\ MaxLate \in Nat
  /\ None \notin Writers

VARIABLES
  at,        \* where each goroutine is
  context,   \* the context of its call of writeFrame; "over" when it is done, "fired"
             \* when its AfterFunc has run, too
  mu,        \* who has writeMu
  deadline,  \* the write deadline: none, ahead or past
  late,      \* AfterFuncs that were under way when their call returned
  wire,      \* who has begun a frame that is not whole yet, or None
  broken,    \* a write failed: TLS refuses all later ones
  reading,   \* the read deadline and the AfterFunc of ReadMessage
  session    \* "up", "cancelled" or "closed"

socket == <<at, context, mu, deadline, late, wire, broken, reading, session>>

-----------------------------------------------------------------------------
HoldsMutex == {"header", "payload"}
Limited    == {"lock"} \cup HoldsMutex
InWrite    == {"call"} \cup Limited
InRead     == {"begin", "read"}

SocketTypeOK ==
  /\ at \in [Writers -> InWrite \cup InRead \cup {"idle", "done"}]
  /\ context \in [Writers -> {"live", "over", "fired"}]
  /\ mu \in Writers \cup {None}
  /\ deadline \in {"none", "ahead", "past"}
  /\ late \in 0 .. MaxLate
  /\ wire \in Writers \cup {None}
  /\ broken \in BOOLEAN
  /\ reading \in [past : BOOLEAN, fired : BOOLEAN]
  /\ session \in {"up", "cancelled", "closed"}

SocketInit ==
  /\ at = [w \in Writers |-> "idle"]
  /\ context = [w \in Writers |-> "live"]
  /\ mu = None
  /\ deadline \in {"ahead", "past"}
  /\ late = 0
  /\ wire = None
  /\ broken = FALSE
  /\ reading = [past |-> FALSE, fired |-> FALSE]
  /\ session = "up"

-----------------------------------------------------------------------------
Goes(w, place) == at' = [at EXCEPT ![w] = place]

\* The context of w's call is done: its own limit, or the session's.
Over(w) == context[w] # "live" \/ session # "up"

\* WriteMessage, or a pong: AfterFunc is registered.
Call(w) ==
  /\ Goes(w, "call")
  /\ UNCHANGED <<context, mu, deadline, late, wire, broken, reading, session>>

\* A loop, or a command, sends.  A loop whose context is done as well may send once
\* more, which is as if it had been cancelled just after.
Send(w) ==
  /\ w \in Senders
  /\ at[w] = "idle"
  /\ w \in Loops => session = "up"
  /\ Call(w)

\* writeFrame sets the deadline before it asks for the mutex.  The context of
\* ReadMessage, which is that of a pong, has none.
SetDeadline(w) ==
  /\ at[w] = "call"
  /\ deadline' = IF w = Reader THEN "none" ELSE "ahead"
  /\ Goes(w, "lock")
  /\ UNCHANGED <<context, mu, late, wire, broken, reading, session>>

\* Mutant of Lock: each caller has a mutex of its own.
LockOwn(w) ==
  /\ at[w] = "lock"
  /\ mu' = w
  /\ Goes(w, "header")
  /\ UNCHANGED <<context, deadline, late, wire, broken, reading, session>>

Lock(w) ==
  /\ at[w] = "lock"
  /\ mu = None
  /\ mu' = w
  /\ Goes(w, "header")
  /\ UNCHANGED <<context, deadline, late, wire, broken, reading, session>>

Writable == ~broken /\ session # "closed" /\ deadline # "past"

\* The first write of a frame.
WriteHeader(w) ==
  /\ at[w] = "header"
  /\ Writable
  /\ wire' = w
  /\ Goes(w, "payload")
  /\ UNCHANGED <<context, mu, deadline, late, broken, reading, session>>

\* Mutant of Continues: a loop tries again.
ContinuesAnyway(w, ok) == Goes(w, IF w = Reader THEN "read" ELSE "idle")

\* Where a goroutine goes on after writeFrame: a loop ends with its error, a
\* handler drops it, the reader reads on.
Continues(w, ok) ==
  Goes(w, IF ~ok /\ w \in Loops THEN "done" ELSE IF w = Reader THEN "read" ELSE "idle")

\* Mutant of Returns: an early return forgets to unlock.
ReturnsLocked(w, ok) ==
  /\ mu' = IF ok THEN None ELSE mu
  /\ context' = [context EXCEPT ![w] = "live"]
  /\ UNCHANGED late
  /\ Continues(w, ok)

\* writeFrame returns: it unlocks and stops its AfterFunc, which may be under way.
Returns(w, ok) ==
  /\ mu' = None
  /\ context' = [context EXCEPT ![w] = "live"]
  /\ \/ UNCHANGED late
     \/ Over(w) /\ context[w] # "fired" /\ late < MaxLate /\ late' = late + 1
  /\ Continues(w, ok)

\* The second one; the frame is whole.
WritePayload(w) ==
  /\ at[w] = "payload"
  /\ Writable
  /\ wire' = None
  /\ Returns(w, TRUE)
  /\ UNCHANGED <<deadline, broken, reading, session>>

\* A write fails, perhaps with a part of its bytes on the wire.
WriteFails(w) ==
  /\ at[w] \in HoldsMutex
  /\ ~Writable
  /\ broken' = TRUE
  /\ wire' = w
  /\ Returns(w, FALSE)
  /\ UNCHANGED <<deadline, reading, session>>

-----------------------------------------------------------------------------
\* The limit of a call runs out; the deadline that it set is the same instant.
Expire(w) ==
  /\ w \in Senders
  /\ at[w] \in Limited
  /\ context[w] = "live"
  /\ context' = [context EXCEPT ![w] = "over"]
  /\ UNCHANGED <<at, mu, deadline, late, wire, broken, reading, session>>

\* The AfterFunc of a call whose context is done.
Interrupt(w) ==
  /\ at[w] \in InWrite
  /\ Over(w)
  /\ context[w] # "fired"
  /\ context' = [context EXCEPT ![w] = "fired"]
  /\ deadline' = "past"
  /\ UNCHANGED <<at, mu, late, wire, broken, reading, session>>

\* One that its call could not stop.
InterruptLate ==
  /\ late > 0
  /\ late' = late - 1
  /\ deadline' = "past"
  /\ UNCHANGED <<at, context, mu, wire, broken, reading, session>>

\* The deadline of the connection is reached.
Lapse ==
  /\ deadline = "ahead"
  /\ deadline' = "past"
  /\ UNCHANGED <<at, context, mu, late, wire, broken, reading, session>>

\* The network or the server resets the connection.
Reset ==
  /\ ~broken
  /\ broken' = TRUE
  /\ UNCHANGED <<at, context, mu, deadline, late, wire, reading, session>>

-----------------------------------------------------------------------------
\* ReadMessage registers its AfterFunc, ...
BeginRead ==
  /\ at[Reader] = "idle"
  /\ Goes(Reader, "begin")
  /\ UNCHANGED <<context, mu, deadline, late, wire, broken, reading, session>>

\* ... and clears the read deadline, as its context has none.
ClearDeadline ==
  /\ at[Reader] = "begin"
  /\ Goes(Reader, "read")
  /\ reading' = [past |-> FALSE, fired |-> reading.fired]
  /\ UNCHANGED <<context, mu, deadline, late, wire, broken, session>>

\* The AfterFunc of ReadMessage, which also waits for the session's end while a
\* pong is written.
InterruptRead ==
  /\ at[Reader] \in InRead \cup InWrite
  /\ session # "up"
  /\ ~reading.fired
  /\ reading' = [past |-> TRUE, fired |-> TRUE]
  /\ UNCHANGED <<at, context, mu, deadline, late, wire, broken, session>>

\* A message is complete, and the next call of ReadMessage has an AfterFunc of its
\* own; a command in it starts a handler.
ReadReturns ==
  /\ at[Reader] = "read"
  /\ ~reading.past
  /\ session # "closed"
  /\ Goes(Reader, "idle")
  /\ reading' = [past |-> FALSE, fired |-> FALSE]
  /\ UNCHANGED <<context, mu, deadline, late, wire, broken, session>>

\* A ping, perhaps between the fragments of a message.
Ping ==
  /\ at[Reader] = "read"
  /\ ~reading.past
  /\ session # "closed"
  /\ Call(Reader)

\* The read fails: interrupted, ...
ReadFails ==
  /\ at[Reader] = "read"
  /\ reading.past \/ session = "closed"
  /\ Goes(Reader, "done")
  /\ UNCHANGED <<context, mu, deadline, late, wire, broken, reading, session>>

\* ... or by a close frame, one that is invalid or over a limit, a message that
\* cannot be decoded, or a connection that was lost.
ReadEnds ==
  /\ at[Reader] = "read"
  /\ Goes(Reader, "done")
  /\ UNCHANGED <<context, mu, deadline, late, wire, broken, reading, session>>

-----------------------------------------------------------------------------
\* A loop between two sends sees that its context is done.
Stop(w) ==
  /\ w \in Tickers \cup Results
  /\ at[w] = "idle"
  /\ session # "up"
  /\ Goes(w, "done")
  /\ UNCHANGED <<context, mu, deadline, late, wire, broken, reading, session>>

Ended == \E w \in Loops : at[w] = "done"

\* A command that changed routes asks for a new connection, or the agent stops.
Reconnect ==
  /\ session = "up"
  /\ session' = "cancelled"
  /\ UNCHANGED <<at, context, mu, deadline, late, wire, broken, reading>>

\* runConnection has the error of a loop, and cancels the others.
Cancel == Ended /\ Reconnect

\* Mutant of Close: the connection is closed only after the loops have returned.
CloseAfterWait ==
  /\ session = "cancelled"
  /\ \A w \in Loops : at[w] = "done"
  /\ session' = "closed"
  /\ UNCHANGED <<at, context, mu, deadline, late, wire, broken, reading>>

\* Then it closes the connection, before it waits for them.
Close ==
  /\ session = "cancelled"
  /\ Ended
  /\ session' = "closed"
  /\ UNCHANGED <<at, context, mu, deadline, late, wire, broken, reading>>

Proceed(w) ==
  SetDeadline(w) \/ WriteFails(w) \/ Expire(w) \/ Interrupt(w) \/ Stop(w)

ReadLoop == BeginRead \/ ClearDeadline \/ InterruptRead \/ ReadFails

SocketNext ==
  \/ \E w \in Writers : Send(w) \/ WriteHeader(w) \/ WritePayload(w) \/ Lock(w) \/ Proceed(w)
  \/ ReadLoop \/ ReadReturns \/ Ping \/ ReadEnds
  \/ InterruptLate \/ Lapse \/ Reset
  \/ Reconnect \/ Cancel \/ Close

SocketSpec == SocketInit /\ [][SocketNext]_socket

\* Goroutines are scheduled, time passes, and a mutex of Go does not starve a waiter.
\* The heartbeat and the status report go on; nothing is assumed of the server, of
\* the other writers or of a write that nothing interrupts.
SocketFairness ==
  /\ \A w \in Writers : WF_socket(Proceed(w)) /\ SF_socket(Lock(w))
  /\ \A w \in Tickers : WF_socket(Send(w))
  /\ WF_socket(ReadLoop)
  /\ WF_socket(InterruptLate)
  /\ WF_socket(Lapse)
  /\ WF_socket(Cancel)
  /\ WF_socket(Close)

FairSocketSpec == SocketSpec /\ SocketFairness

-----------------------------------------------------------------------------
\* The server gets whole frames, one after another, whoever writes, is interrupted
\* or fails: none begins within another, and only the last may be cut short
\* (writeFrame writes each in two pieces).
FramesAreWhole ==
  [][\A w \in Writers : /\ WriteHeader(w) => wire = None
                        /\ WritePayload(w) => wire = w]_socket

\* The writes have lost their limits: a pong has cleared the deadline after the last
\* of them had run out, and before the writer that it interrupted got to run.
Unlimited ==
  /\ Writable /\ deadline = "none" /\ late = 0
  /\ \A w \in Tickers : at[w] \in Limited
  /\ \A w \in Senders : at[w] \in InWrite => at[w] \in Limited /\ context[w] = "fired"

\* No writer hangs, unless all do; a write whose deadline a pong has cleared is ended
\* by the limit of the next sender (sendEnvelope gives each message ten seconds).
WritesEnd == \A w \in Writers : (at[w] \in InWrite) ~> (at[w] \notin InWrite \/ Unlimited)

\* A connection that refuses writes is given up, although a command drops the error
\* of its acknowledgement.
BrokenIsClosed == broken ~> session = "closed"

\* A session that is cancelled ends with all its loops, even if the reader cleared
\* its deadline after it was interrupted (runConnection).
SessionEnds ==
  session # "up" ~> (session = "closed" /\ \A w \in Loops : at[w] = "done") \/ Unlimited

\* False: a session that is cancelled makes room for a new one (handleCommand forces a
\* new dial instead of waiting for the kernel's TCP timeout).
ReconnectIsForced == session = "cancelled" ~> session = "closed"
=============================================================================
