# Verification of vps-tool

vps-tool is a control plane (Python, `src/server`) that sends commands over
WebSockets to agents (Go, `src/agent`) on remote machines, which switch WARP,
change its exit address, restart and back up x-ui, or upgrade themselves through
a privileged helper. This directory holds TLA+ modules of the parts whose
correctness depends on order, failure and time, the TLC configurations that check
them on small instances, and TLAPS proofs for every value of the constants.

`PROJECT.json` lists components, runs, mutants, the source lines of every
definition, findings, hazards and theorems.

    tlc -workers 2 -config MCActionRequests.cfg MCActionRequests   # a run
    tlapm AgentGatewayProofs.tla                                   # a proof

## 1. The system

### Components

| Component | Source | State | Operations |
|---|---|---|---|
| Action requests | `server/app/action_service.py`, `actions.py` | tables `action_requests`, `action_results`, `ip_change_history` | create, dispatch, accept, reject, progress, finish, reconcile, mark unknown, expire |
| Agent gateway | `server/app/gateway.py` | `_connections`, one coroutine per websocket | register, reconcile, dispatch backlog, message loop, remove, disconnect |
| Nodes, enrollment | `server/app/nodes.py` | nodes, one-time tokens, credentials, IP history | create, delete, consume token, rotate, revoke, record IP |
| Scheduler | `server/app/scheduler.py` | tasks, task runs, lease | create, change, delete a task; lease, claim due tasks, start a run, sweep |
| Backup files | `server/app/backups.py` | backup rows and files | prepare, upload, download, delete |
| HTTP API, login | `server/app/main.py`, `security.py` | admin sessions, login limiter | forward to the services |
| Agent session | `agent/cmd/vps-agent/main.go`, `wsclient`, `protocol`, `backoff` | the connection, its four loops, the result queue | connect, authenticate, replay, handle commands, send results |
| Agent configuration | `agent/internal/config`, the installer | the token or credential in file and environment | load, store the credential |
| Executor, journal | `agent/internal/action`, `internal/journal` | active ids, `stateMu`, the list of results in memory and in its file | execute, record, look up, open |
| IP change | `agent/internal/warpchange`, `internal/warp`, helper watchdog | the run of `change_ip`, its watchdog, WARP | stop/start attempts, recovery, arm, disarm |
| Privileged helper | `agent/cmd/vps-agent-helper`, `internal/helper` | services and files of x-ui, xray and WARP | backup, restore, roll back, install, restart |
| Upgrade | `agent/cmd/vps-agent-helper/upgrade.go` | two binaries, their backups | prepare, commit, roll back, restart |
| Status, artifacts | `agent/internal/status`, `artifacts` | address cache | measure, transfer |

Not part of the running system: `server/app/database.py` beyond its transactions,
`utils.py`, `agent/internal/agent`, `ipcheck`, `adapter` (nothing imports them), the
web panel and the demo tools.

### How they interact

The API and the scheduler create requests. For an online node the service writes
`dispatched` and sends the command over the node's registered connection; for an
offline node the row is queued or skipped. The agent acknowledges, reports
progress and sends a result; each message is one conditional `UPDATE`. When a
connection goes, the node's requests in flight become `unknown`. The next
`agent_hello` brings the results of the agent's journal, which the server
reconciles before it dispatches the backlog. The scheduler's loop claims the tasks
that are due, creates a request for each of their nodes, and then sweeps rows whose
deadline has passed.

An agent dials with a one-time token, gets a credential in `agent_authenticated`,
stores it in its configuration and uses it from then on; administrators replace or
revoke either at any time, which also closes the node's connection.

On the agent, a goroutine per command calls `Execute`, which shares the journal,
the set of active ids and one mutex with the others. The action runs even when
the session ends; its result is recorded in the journal, queued, and sent over
whatever connection there is. `change_ip` runs a state machine over calls of the
helper and arms a watchdog, which systemd or OpenRC runs as a process of its own.
Restores and upgrades are single calls of the helper, which rolls back by itself.

### What is hard

* One asyncio loop: code between two `await`s is atomic, code around one is not.
  Two coroutines of one node, an old and a new connection, interleave at every send.
* Several writers of one row: sweep, answer, reconcile, loss of contact, each with
  its own list of statuses it accepts.
* Messages that were received before a connection was closed and are handled after;
  results that reach the server twice, by another connection or not at all.
* A one-time token is used up before the answer to it arrives.
* Rows that a scheduler selected, and that were claimed or changed since; clocks
  that repeat an hour.
* Goroutines with duplicates of one command, a journal with two limits, crashes
  between action and record.
* Calls that time out but take effect; a watchdog that outlives its run.
* Replacing several files so that a failure or a crash at any step leaves a set that
  works; rollbacks whose own steps fail.

The hazards, each at its line and with the properties that would catch it, are in
`PROJECT.json`.

## 2. The modules

    NodeActionLock            what the request service promises
      ^ implemented by
    ActionRequests            the request tables
      ^ extended by
    AgentGateway              connections and coroutines             AgentGatewayProofs (of both)
    ActionVerdicts            what an agent and the server promise
      ^ implemented by
    AgentSession              one agent, the server, their websockets  AgentSessionProofs
    AgentSocket               the agent's end of one websocket       AgentSocketProofs
    RequestJournal            the journal's list and file
      ^ extended by
    AgentExecutor             goroutines, claims, stateMu            AgentExecutorProofs
    ChangeIP                  change_ip and its watchdog             ChangeIPProofs
    HelperFiles               restores, upgrade and their rollbacks  HelperFilesProofs
    Enrollment                tokens, credentials, the agent's key   EnrollmentProofs
    ScheduleTimes             next_run and the fallback cron
      ^ extended by
    TaskScheduler             lease, claims, runs, changes of tasks  TaskSchedulerProofs
    MC...                     instances for TLC

### NodeActionLock and ActionRequests

A row is `status[r]`, `node[r]`, `call[r]`, `attempts[r]`; `overdue` is the set of
requests whose `deadline_at` has passed, `results` the rows of `action_results`,
`history` that of `ip_change_history`, of which a node keeps the newest
`HistoryLimit`, in the order they were written. An action is one stretch of a method of
`ActionService` between two awaits: `CreateRequest` is `create_request` with the
busy check and the dispatch of an online node, `DispatchSends` is the part of
`dispatch_request` that re-reads the row and commits `dispatched`, `MarkUnknown`
both `mark_unknown`s, `ExpireRequests` both updates of the sweep. Who calls, and
when, is open: any message may arrive for any request that was sent, from any
node, at any time. Parameters, error codes and timestamps are abstracted.

NodeActionLock states what this amounts to: a node has a lock that one
state-changing request holds until it is settled, and a request leaves the server
at most once. `ImplementsNodeActionLock` is the refinement, `unknown` still
holding the lock.

### AgentGateway

Extends ActionRequests with the coroutines: `stage[h]` says where handler `h` is in
`ConnectionManager.handle`, `connections[n]` is the registered handler, `sending`
the sends that are awaited, `loop` the handler that keeps the event loop because
it runs several transactions without an await. Register, remove, disconnect,
reconcile, the snapshot of `dispatch_pending` with its `LIMIT`, each send and its
end, every message and a crash of the server are actions. `GatewaySpec` implements
`RequestsSpec` (proved), `FairGatewaySpec` implements `FairRequestsSpec` (checked).

### AgentSession

Composes both ends of the websockets for one agent: `conn[c]` holds the frames
under way in each direction, in order, and the state of the server's handler;
`agent` is `runConnectionWithResultQueue` with its loops, `handler[r]` the goroutine
of a command, `queue` the result queue, `journal` what survives a restart. A
connection may break and lose a suffix of what is under way, it may go half-open
when an action changes routes (`up` is FALSE and nobody notices), and either end
may die. AgentGateway takes the tables and every interleaving of the server's
coroutines, AgentExecutor the goroutines of the agent; here each is reduced to what
the frames can do to a row (`row[r]`) and to the Result that `Executor.Execute`
returns (`outcome[r]`). That is a success or a failure which is in the journal from
then on, or the failure `journal_failed`, which is not. Whether it is what the action
did is left to the executor: an action that succeeded may be reported as
`journal_failed`, a failed `change_ip` is reported as `succeeded`. A result is
taken to be within 64 KiB (a helper's output is at most 16 KiB); FinishRequest of
ActionRequests has the one that is not.

ActionVerdicts is the same without messages: an action is carried out at most once
and never after it was declared failed, and what is declared of it, once, is the
executor's result or that its time was over. `ImplementsActionVerdicts` is the
refinement: `outcome` is the result, a row that is settled has a verdict.

### AgentSocket

One websocket below AgentSession, whose frames are whole by assumption: `at[w]` is
where each goroutine is in `WriteMessage`, `ReadMessage` or between two calls, `mu` is
`writeMu`, `deadline` the one write deadline that all calls share and set before
they have the mutex, `context[w]` the context of a call with its `AfterFunc`, `late`
the `AfterFunc`s that were under way when their call returned, `wire` the goroutine
that has written a part of a frame. Every
return of `writeFrame` is `Returns`; `Cancel` and `Close` are the end of
`runConnectionWithResultQueue`, which closes the connection before it waits for its
loops. What is read is only that something was: a message, a ping, an end. Two
deviations are named in the module: a loop that could see its context done may send
once more, and a command that cannot be decoded is answered by a handler.

### Enrollment

One node: `token` and `credential` are the two tables, `conn` the websockets with
the secret that was presented and the key they act under, `config` what the next start of the
agent reads (`file` and `env`), `held` the secret an administrator was shown last.
`Handshake` is the handler up to `register`, without an await in the code;
`SendNotice` comes after one. `Enroll` is the agent's half: `PersistCredential`
first, then the session.

### RequestJournal and AgentExecutor

`entries` is the journal in memory and `file` its file; an entry has an id, an
action, an outcome (`refused` is the failure of a command that validation turned
away, the only one that a run of the command does not stand behind) and a size, which is larger in the indented file than in the
compact text that trimming measures. `Execute` is cut where it touches a shared
object: `Lookup`, `Refuse` (validation), `Claim`, `Lock` (stateMu and the second
lookup), `Run`, `Finish` (with `Record`), `Leave` (the deferred releases). A failed
write leaves the old file or none, a crash drops everything but the file.
`runs`, `reported` and `forgotten` are history variables.

### ChangeIP

`stage` follows `Machine.Run` call by call: precheck, old address, arm, for each
attempt off, wait, on, wait, new address, final state, then disarm, or the
recovery and its disarm, or the deferred disarm. Every helper call may fail, with
or without its effect. Time is two events: the run's context expires, a watchdog
reaches its deadline. `dog[r]` is the watchdog of run `r`, a process that survives
the agent. `lastly` is a history variable: the last toggle that was attempted, or
that WARP was seen on since; so is `dismissed`: a Disarm of this run was answered
with success. On systemd that stops the watchdog's service, not the timer that is to
start it, so `Disarms` may leave an armed watchdog behind. `ReportOf` is what `Executor.execute` makes of the
result.

### HelperFiles

A helper is a process with one job; `pc[p]` names the step of `restoreXrayConfig`,
`restoreXUIDatabase` or the upgrade that comes next, `file` maps paths to contents,
which say only where they come from (`Old`, `New`, `Given(p)`, `Torn(p)`). An upgrade
first compares versions and downloads (`Download`), which ends with verified copies,
with nothing to do, or fails. Every
step may fail, the helper may die before each, and the next one starts from the
files it left. A second helper may run beside one whose agent was restarted;
`overlapped` collects the jobs that did.

### ScheduleTimes and TaskScheduler

ScheduleTimes computes `next_run` as the code does: a search by wall time, minute by
minute for cron, by day for daily and weekly, and a conversion back to UTC with
the choices `ZoneInfo` makes where a clock time happens twice or never. The calendar
is a parameter. `OnSchedule` is the reference: what a schedule means.

TaskScheduler has several schedulers over one database. `Begin` is the lease with
the select of due rows, `Claim` the transaction that moves `next_run_at` and inserts
the run, `StartOn` one node of `_start_task_run`, `Sweep` the end of the iteration;
tasks are created, changed and deleted at any time, the lease runs out at any time,
and a process may die or a statement fail.

## 3. What the runs check

| Run | Instance | Shows |
|---|---|---|
| `requests` | 2 nodes, 2 requests, 3 calls (a reading, a changing, an IP changing one) | one active state-changing request per node, one send per command, terminal is final, the lock refinement; every active request settles or becomes unknown |
| `gateway` | 1 node, 2 handlers, 1 request, `LIMIT` 1, 1 crash, fair | registrations match handlers, a departure marks the node's requests, the gateway keeps all promises of the request tables, those of progress included |
| `executor` | 2 workers, 2 requests, 2 actions, 3 deliveries, a journal of 2 entries or 4 bytes, 1 fault | actions are serialized, the file always opens, a state-changing command runs again only if its result was forgotten, a reported success is a success in the file unless it was lost or something else was recorded before it, every command is answered or dies with the agent |
| `change_ip` | 2 runs of 2 attempts, WARP changes once by itself | WARP off is guarded by a watchdog, a run that leaves WARP off names its recovery, one that ends without an answered Disarm is no success and names an error, a run ends, a crash with WARP down is recovered |
| `scheduler` | 2 schedulers, 1 task, 2 schedules, 6 slots in an hour that is repeated, 1 fault | a run has one starter, claims go from one occurrence to the next, a changed schedule is followed, due runs are claimed, the sweep goes on |
| `enrollment` | 2 tokens, 2 credentials, 2 websockets, 1 fault | commands go to the holder of the only active credential, an agent keeps its key unless it is taken or lost in the exchange, and comes back with it |
| `session` | 2 actions, 1 of them changes routes, 2 websockets, a journal of 2 with a hello of 1, 1 fault (a loss, a crash, or a result that cannot be journaled) | what a row says is the result that the agent's executor returned, and is said once, results of the journal arrive, also those of an action that cut its own session |
| `socket` | the heartbeat, a command and the reader, 1 late interrupt | frames follow each other whole, writes, broken connections and cancelled sessions come to an end unless a pong has taken the limit of every write |
| `files` | 2 helpers, 3 jobs | xray never starts with an untested configuration, agent and helper can always start, a failed job puts back what was there, a successful one is complete |

Three runs end in a violation. Each checks a sentence of the repository's own
documentation that the code does not keep:

| Run | What happens |
|---|---|
| `change_ip_report` | a `change_ip` that fails is reported as `succeeded` with code `ok` |
| `session_refused` | `agent_hello` may hold 200 results and the journal keeps 256: an agent with more is refused at every reconnect, and its results are not replayed |
| `socket_hangs` | a session that an action cancels may stay: a pong clears the deadline by which the cancellation interrupted the writes, before they have run |

### Bounds, and why they are enough

* Two requests meet on one node or stay apart; OneActiveChange and the lock are
  about pairs. Rows do not influence each other otherwise, and the proofs cover
  any number. `HistoryLimit` 1 is the 100 rows of a node's history: a second
  `change_ip` removes the first one's row.
* Two handlers of one node is replacement; a third would replace the second the
  same way. `gateway` has one request: pairs are checked in `requests`, whose tables
  it extends, and every safety property of both is proved. `MaxRestarts` bounds
  crashes: after one, everything but the tables is as in the initial state.
* Three deliveries are the original, a duplicate and a second request, the least
  with which a duplicate of a trimmed result arrives. `Weights` {1, 3}, one more
  when indented, against 4 bytes let two small results fit, two large ones drop the
  older, and a small with a large one fit the list but not the file. `MaxFaults`
  bounds crashes and failed writes.
* Two runs let a watchdog left by the first meet the second; two attempts make one
  that fails before one that is last. `MaxDrops` is the number of times WARP changes
  without the machine.
* The calendar of `scheduler` has 2 slots a day, 4 days a week and 8 a month; a
  `Window` of 4 slots lets the cron schedule, which restricts both day fields, find
  its next day at first and nothing later. The clock starts at `Start`, in the
  second pass of the slots that `Fall` repeats, and runs to `MaxTime`. One task is
  enough for two schedulers to meet over; that the claims of several keep apart is
  proved. `DueLimit` is then 1.
* In `enrollment` one credential answers a registration and one a rotation or a
  second registration; two websockets are one that is replaced and its successor.
  When the credentials are used up, the liveness property claims nothing.
* `HelloLimit` 1 below `JournalMax` 2 is 200 below 256, and `QueueMax` 1 makes a
  second result find the queue full. One fault is one loss, crash or failed Record;
  their combinations are left to the proofs.
* In `socket` two writers and the reader are the least in which one holds the mutex,
  one waits, and a pong changes the deadline of both; `MaxLate` 1 lets one interrupt of
  a call that is over hit another. Results are one more ticker to a safety property;
  `socket_hangs` has them in place of the command.
* Two helpers are a job and the one before or beside it; each may be any of the three.
* CHECK_DEADLOCK is off for the executor, `change_ip`, `enrollment`, `session`,
  `socket` and `files`: once all deliveries, runs, secrets, requests or jobs are used up,
  or the connection is closed, nothing is left to do.
* Symmetry is used in `files` only, which has no liveness, over its two helpers.

### Fairness, and why the code justifies it

* `RequestsFairness`: the scheduler loop sweeps for as long as the server runs, and
  clocks advance. `SweepsGoOn` of `scheduler` says when that is so.
* `GatewayFairness`: asyncio serves its ready queue in order, so a coroutine that
  becomes ready again and again gets its turn (strong fairness for handlers, sends and
  the sweep, which wait for `loop`). A send ends because uvicorn drops a peer that
  answers no ping. Nothing is assumed about the agent: it may never answer.
* `ExecutorFairness`: the Go scheduler runs every goroutine; actions end because
  every helper call has a timeout; `sync.Mutex` hands itself to a starved waiter
  (strong fairness for `Lock`). Deliveries and crashes are not fair.
* `SocketFairness`: goroutines are scheduled, limits run out and their `AfterFunc`s run,
  `sync.Mutex` hands itself to a starved waiter, the heartbeat goes on. Nothing is
  assumed of the server, the other writers, or a write that nothing interrupts: it
  may block for ever.
* `ChangeFairness`: calls end, the context of a run expires, timers fire, the
  watchdog process is scheduled. Nothing makes WARP connect.
* `FairSchedulerSpec`: a lease that is not renewed runs out, and some scheduler's
  iteration goes on (a process that died is started again). Nothing is assumed of
  administrators or the clock.
* `FairEnrollSpec`, `FairSessionSpec`: the agent's loop redials for ever and its service
  is restarted, the server's handlers run on; each side as a whole, not each of its
  steps. Commands, administrators and faults owe nothing, and faults are bounded:
  these properties speak of what happens once the network holds.

## 4. What is proved

All proofs hold for every value of the constants that meets the named assumptions
(`ActionRequestsAssumption`, `AgentGatewayAssumption`, `AgentSessionAssumption`,
`AgentSocketAssumption`, `RequestJournalAssumption`,
`AgentExecutorAssumption`, `ChangeIPAssumption`, `EnrollmentAssumption`,
`HelperFilesAssumption`, `ScheduleTimesAssumption`, `TaskSchedulerAssumption`,
`SchedulesAssumption`), which TLC evaluates in the runs.

* **AgentGatewayProofs**, the tables: types; `OneActiveChange`, inductive with the types
  since `Busy` looks at every status a live action can be in; `RowInvariant`, the
  relation of status to attempts, from which `SentAtMostOnce`, `UnsentNeverRan` (a
  request that was never sent has no result) and
  `TerminalIsFinal` follow. The last needs it because `reject_request`'s list of final
  statuses misses `skipped_offline`: only that such a row was never sent keeps a
  rejection away. `ResultRowAgrees` (a result row belongs to a row of its outcome) is
  inductive with both. The lock refinement
  rests on `OneActiveChange`, which makes the holder of a node unique.
* **AgentGatewayProofs**, the connections: `GatewayInv` (types, handlers that run have a
  node and only reconcile what was sent, registrations match) is inductive. With it every step of
  the gateway is a step of the tables, so that `RequestsSpec` and all that is proved
  of it holds under the gateway; `DepartureMarks` and `SendsAreOwned` (no two
  coroutines send one row) follow with invariants of their own.
* **AgentExecutorProofs**: `ExecutorInv` joins the types, `JournalInv` (memory equals
  file unless the file was lost, ids are distinct, the file opens), `ClaimsInv` (who
  is past the claim owns its request, who executes a change owns `stateMu`) and
  `HistoryInv` (a state-changing command that ran is running, recorded or forgotten).
  That trimming yields a suffix within the limits is a lemma of its own.
* **ChangeIPProofs**: `ChangeInv` joins the types, `WatchdogInv` (a watchdog is armed by
  its own run only and stays until that run disarms it), `LastlyInv` (what the machine
  knows of WARP where it goes on without looking again) and `ResultInv` (a run that is
  to disarm once more has named what failed) with the three safety properties.
* **TaskSchedulerProofs**: `NextRunIsNext`: what `next_run` returns is the first time of
  the schedule that the clocks show after the reference, for cron within its window
  and for daily and weekly schedules without one. It needs the least element of a set
  of numbers, taken from well-foundedness, since `Min` is a CHOOSE. `SchedulerInv`
  joins the types, `LiveRows` (the next run of an enabled task is on its schedule),
  `ReadRows` and `StaleRows`: a scheduler claims with the schedule it read, and what
  makes that harmless is that a row whose `next_run_at` is still the one that was read
  has not got another schedule since, because every change computes a time later than
  now, and the row was due. The ambiguous hour is the exception.
  `RunsHaveOneStarter` counts runs that nobody works on against `faults`.
* **AgentSessionProofs**: `SessionInv` joins the types with `PlaceInv` (a command is
  waiting, under way, with its handler, refused or carried out, one at a time; a row
  with a verdict agrees), `OnceInv` (it is under way once), `ReportInv` (every verdict
  in a frame is the executor's result, and only what has one is in journal and queue) and `GreetInv` (a
  handshake that awaits has its hello). Most steps only drain websockets, leave
  handlers and change rows to what frames say: `Drains`, `Calm` and `CalmInv` treat
  these once; `Bring` the two that send commands, and `RejectInv`, `ExecuteInv` and
  `ReadInv` move a command on. A rejected action cannot have succeeded only because
  no second copy of its command exists. The refinement of ActionVerdicts rests on three
  facts: a settled row stays (`SettledStays`), only `Execute` changes an outcome
  (`OneRuns`), and it does so where `PlaceInv` says that there is none yet and nothing
  was declared failed (`ExecuteRuns`).
* **AgentSocketProofs**: `SocketInv` joins the types, `MutexInv` (between lock and unlock
  is exactly the owner), `WireInv` (a frame that is not whole is the owner's, who is
  about to write its rest, or the connection refuses all writes) and `RolesInv` (only
  the reader reads). `FramesAreWhole` says of every step what it needs of the wire, and
  follows. The mutex alone is not enough: a failed write releases it with a part of a
  frame out, and only that the connection is broken from then on keeps the next away.
* **EnrollmentProofs**: `EnrollInv` joins the types, `AccessIsCurrent`, `Serving` (the
  registered connection serves) and `Keyed` (who serves has a key). `KeyInv` adds
  `Exchanged` (a token that was exchanged stays spent), `Hellos` and `Linked` (which
  key is under way and at whom) and `Stored` (what the agent presents it will find
  again after a restart); `KeyIsKept` follows step by step.
* **HelperFilesProofs**: `FilesInv` says for every label what is known of the files
  there: what was tested is what is copied while nobody shares the directory, each
  backup holds what was found, what an upgrade has linked is what it found. All four
  properties of `files` follow.

Type invariants are proved as theorems rather than run; `SessionTypeOK`, which holds the
limits of journal and queue, is both.

Only model-checked: all liveness (`ActiveMovesOn`, `KeepsRequestPromises`,
`EveryCommandAnswered`, `RunEnds`, `CrashIsRecovered`, `DueIsClaimed`, `SweepsGoOn`,
`AgentComesBack`, `ResultIsReplayed`, `RouteChangeIsReported`, `WritesEnd`,
`BrokenIsClosed`, `SessionEnds`), which is out of the prover's reach. The safety half of
`KeepsRequestPromises` is proved.

## 5. What the properties do not say

Requests and gateway:

* A request that became `unknown` is in neither update of the sweep: its deadline
  never ends it, and it blocks the node's state-changing actions until its agent
  reports. `ActiveMovesOn` therefore counts `unknown` as moved on.
* A message already received when `disconnect_node` closes the connection may put a
  request back in flight on a node without one; the next departure or the sweep gets it.
* A command may overtake the notice of authentication, and the agent then drops the
  session; AgentSession puts the notice first.

Scheduler:

* A task whose next run cannot be computed (a cron beyond the two-year window) raises
  in every iteration, starves the sweep and can only be changed, paused or deleted:
  `Blocked` in `DueIsClaimed` and `SweepsGoOn`.
* In an hour that the clocks repeat `next_run` takes the first pass. An update in the
  second gives a `next_run_at` that is past, starts at once, and a stale claim may
  follow the old schedule once more; `Ambiguous` excepts this. In one that the clocks
  skip, order is that of the wall times.
* Saying "enabled": true of an enabled task moves it past the runs it missed.
* The fallback cron takes Monday for 0, `croniter` Sunday. The fallback is modelled.
* A run whose scheduler died stays `running`: its requests are not made up for.

Agent:

* A read-only command may run twice: only state-changing ones are looked up again
  under their claim. The agent README says that a duplicate never executes a second
  time; `ChangeRunsOnce` claims it for state-changing ones, with the exceptions that
  `forgotten` collects.
* Near the byte limit trimming leaves a list that fits compact but not indented: the
  journal then refuses new results instead of dropping old ones.
* `Unlimited` in `WritesEnd` and `SessionEnds`: a pong's context has no deadline, so
  answering one sets the connection's to none. When every other writer's interrupt has
  fired by then but its goroutine has not run, the Go runtime lets the blocked write go
  on, and `runConnectionWithResultQueue` waits for a loop that only TCP can end. It takes
  a server that pings and does not read.
* A hello larger than 256 KiB cannot be written at all, and the journal may have 512;
  `HelloLimit` stands for either limit.
* A lost notice or a failed `PersistCredential` locks the agent out until it is given a
  new token, and the installer keeps an existing configuration when it is given one.
* `CrashIsRecovered` excludes a crash in the last second before the watchdog's
  deadline, which is cut to whole seconds, and a watchdog whose attempts all fail. A
  status call that hangs uses up the recovery's only 20 seconds.
* A `Disarm` that succeeds may leave systemd's timer armed, and no result tells it;
  `ArmedIsDismissedOrReported` is about runs without an answered `Disarm`. Even there it
  claims an error, not one that names the watchdog: after a failed recovery the error of
  the last Disarm is dropped, and only the recovery's is left.
* `VerdictIsTheResult` compares a row with the Result of the executor, which is not
  always what the action did (`journal_failed`, `change_ip_report`).
* `SuccessIsDurable` excepts what the journal lost (`forgotten`) and what was there
  first: `Record` keeps an entry it has and reports no error, so that a success may stand
  in the file as the refusal of a duplicate that came too late while it ran, or, for a
  command that only reads, as the failure of an earlier run.
* A stop of x-ui that fails after it took effect leaves x-ui stopped; a rollback of
  xray drops its backups even when it could not copy them. `unrestored` excepts the
  second.
* The helper is always asked for `warp install` with two arguments while its dispatch
  wants three, so that `install_warp` fails; its refusal is one of a helper call's ends.

Platform: SQLite's transactions are taken to be atomic and durable, the loop to be
single, `rename` to replace a file whole, removal of a file not to fail.

## 6. Not modelled

* Backup files: a row and a file per backup, written by one upload and read by one
  download. A crash between the file and its row leaves a digest that does not match,
  which the next restore refuses.
* HTTP API, sessions, login limiter: endpoints forward to the services, whose calls are
  actions; sessions are lookups by time.
* Parameter validation, wording, audit rows, read-only queries, what heartbeats say
  (measurements) and the version checks of `agent_hello`; of the websocket the
  reassembly of fragments and the checks of a frame's header.
* Package installation, taking backups, the dialects of service managers and the
  transfer of artifacts: sequences of programs that succeed or fail as a whole.
* The address cache of `warp/manager.go`: it may show an address of before a change for
  its lifetime of seconds; no decision depends on it.
* Status measurements, settings and conversions, which have no state; the web panel and
  code that nothing imports.

## 7. What is left

The single switches of WARP with their cache (the manager's, and the pid files of the
OpenRC watchdog, of which `Disarms` keeps the outcome); the files of backups together
with their rows.
