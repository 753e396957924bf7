---------------------------- MODULE AgentExecutor ----------------------------
(***************************************************************************)
(* How the agent runs commands (agent/internal/action/executor.go):        *)
(* goroutines that share the journal, the set of active request ids and    *)
(* the mutex of the state-changing actions.                                *)
(*                                                                         *)
(* Execute takes one step per shared object it touches; between them the   *)
(* goroutines interleave and the process may die.  Data abstracted: what   *)
(* an action does (AgentExecutor only counts that it ran) and what its     *)
(* result says beyond success and size.                                    *)
(***************************************************************************)
EXTENDS RequestJournal, FiniteSets

CONSTANTS
  Workers,         \* handleCommand goroutines that may exist at a time
  StateChanging,   \* the actions for which IsStateChanging holds
  None,            \* no worker, no job, no answer
  MaxDeliveries,   \* bound on the commands delivered
  MaxFaults        \* bound on crashes and failed file writes

ASSUME AgentExecutorAssumption ==
  /\ StateChanging \subseteq Actions
  /\ None \notin Workers
  /\ MaxDeliveries \in Nat
  /\ MaxFaults \in Nat

VARIABLES
  at,          \* where each worker is in Execute
  job,         \* the command of each worker
  answer,      \* the outcome it is about to return
  active,      \* Executor.active
  deferred,    \* the workers that claimed their request and will release it
  stateMu,     \* the worker that holds Executor.stateMu, or None
  runs,        \* history: how often each command was run
  reported,    \* history: the commands whose success was returned
  forgotten,   \* history: requests whose result the journal lost or never got
  deliveries,  \* commands delivered so far
  faults       \* crashes and failed writes so far

journal  == <<entries, file>>
workers  == <<at, job, answer>>
locks    == <<active, deferred, stateMu>>
histories == <<runs, reported, forgotten>>
executor == <<journal, workers, locks, histories, deliveries, faults>>

-----------------------------------------------------------------------------
Jobs == [id : RequestIds, action : Actions]

\* The outcomes of Execute: the state of its result, with the codes that say
\* the result is not the action's own.
Outcomes == {"succeeded", "failed", "running", "request_conflict", "journal_failed"}

Places == {"idle", "lookup", "refuse", "claim", "lock", "run", "running", "leave"}

ExecutorTypeOK ==
  /\ entries \in Seq(Entries)
  /\ file \in Seq(Entries)
  /\ at \in [Workers -> Places]
  /\ job \in [Workers -> Jobs \cup {None}]
  /\ answer \in [Workers -> Outcomes \cup {None}]
  /\ active \subseteq RequestIds
  /\ deferred \subseteq Workers
  /\ stateMu \in Workers \cup {None}
  /\ runs \in [Jobs -> Nat]
  /\ reported \subseteq Jobs
  /\ forgotten \subseteq RequestIds
  /\ deliveries \in Nat
  /\ faults \in Nat

ExecutorInit ==
  /\ entries = << >>
  /\ file = << >>
  /\ at = [w \in Workers |-> "idle"]
  /\ job = [w \in Workers |-> None]
  /\ answer = [w \in Workers |-> None]
  /\ active = {}
  /\ deferred = {}
  /\ stateMu = None
  /\ runs = [c \in Jobs |-> 0]
  /\ reported = {}
  /\ forgotten = {}
  /\ deliveries = 0
  /\ faults = 0

-----------------------------------------------------------------------------
Changes(w) == job[w].action \in StateChanging

\* fromJournal: the result of an earlier execution.
Persisted(r) == IF EntryOf(r).outcome = "succeeded" THEN "succeeded" ELSE "failed"

Goes(w, place) == at' = [at EXCEPT ![w] = place]

\* Worker w is about to return an outcome.
Answers(w, outcome) ==
  /\ Goes(w, "leave")
  /\ answer' = [answer EXCEPT ![w] = outcome]

\* Mutant of ReleasesMu: only a success unlocks.
ReleasesMuOnSuccess(w) == stateMu = w /\ answer[w] = "succeeded"

\* The deferred Unlock runs on every way out.
ReleasesMu(w) == stateMu = w

\* A command arrives, was acknowledged and gets a goroutine.
Deliver(w, c) ==
  /\ deliveries < MaxDeliveries
  /\ at[w] = "idle"
  /\ Goes(w, "lookup")
  /\ job' = [job EXCEPT ![w] = c]
  /\ deliveries' = deliveries + 1
  /\ UNCHANGED <<journal, answer, locks, histories, faults>>

\* Execute begins: a recorded result is the answer, if it is of this action.
\* Else the command is validated (again: its deadline may have passed since).
Lookup(w) ==
  /\ at[w] = "lookup"
  /\ IF Recorded(job[w].id)
     THEN Answers(w, IF EntryOf(job[w].id).action = job[w].action
                     THEN Persisted(job[w].id) ELSE "request_conflict")
     ELSE /\ \E place \in {"claim", "refuse"} : Goes(w, place)
          /\ UNCHANGED answer
  /\ UNCHANGED <<journal, job, locks, histories, deliveries, faults>>

\* persist: Record of worker w's result; what the journal does not keep of it or
\* drops for it is forgotten.
Persist(w, outcome, ok) ==
  LET r == job[w].id IN
  \E weight \in Weights :
    LET e == [id |-> r, action |-> job[w].action, outcome |-> outcome, weight |-> weight] IN
    \/ /\ RecordKnown(e, ok)
       /\ UNCHANGED <<forgotten, faults>>
    \/ /\ ~ok
       /\ RecordRefused(e)
       /\ forgotten' = forgotten \cup {r}
       /\ UNCHANGED faults
    \/ /\ ok
       /\ RecordInstalled(e)
       /\ forgotten' = forgotten \cup (Ids(entries) \ Ids(entries'))
       /\ UNCHANGED faults
    \/ /\ faults < MaxFaults
       /\ faults' = faults + 1
       /\ ~ok
       /\ RecordFails(e)
       /\ forgotten' = forgotten \cup {r} \cup (Ids(file) \ Ids(file'))

\* An invalid command is answered and recorded as failed.
Refuse(w) ==
  /\ at[w] = "refuse"
  /\ \E ok \in BOOLEAN : /\ Answers(w, IF ok THEN "failed" ELSE "journal_failed")
                         /\ Persist(w, "refused", ok)
  /\ UNCHANGED <<job, locks, runs, reported, deliveries>>

\* claim: a request that is active is not run again.
Claim(w) ==
  /\ at[w] = "claim"
  /\ IF job[w].id \in active
     THEN Answers(w, "running") /\ UNCHANGED <<active, deferred>>
     ELSE /\ active' = active \cup {job[w].id}
          /\ deferred' = deferred \cup {w}
          /\ Goes(w, IF Changes(w) THEN "lock" ELSE "run")
          /\ UNCHANGED answer
  /\ UNCHANGED <<journal, job, stateMu, histories, deliveries, faults>>

\* Mutant of RunAlready: the result is not looked up again under stateMu.
RunAlreadyUnchecked(r) == FALSE

\* The second Lookup, under stateMu.
RunAlready(r) == Recorded(r)

\* A state-changing action waits for stateMu; if its request was recorded
\* meanwhile, that result is the answer, whatever its action.
Lock(w) ==
  /\ at[w] = "lock"
  /\ stateMu = None
  /\ stateMu' = w
  /\ IF RunAlready(job[w].id)
     THEN Answers(w, Persisted(job[w].id))
     ELSE Goes(w, "run") /\ UNCHANGED answer
  /\ UNCHANGED <<journal, job, active, deferred, histories, deliveries, faults>>

\* The action starts.
Run(w) ==
  /\ at[w] = "run"
  /\ Goes(w, "running")
  /\ runs' = [runs EXCEPT ![job[w]] = @ + 1]
  /\ UNCHANGED <<journal, job, answer, locks, reported, forgotten, deliveries, faults>>

\* The action ends, and its result is recorded.
Finish(w) ==
  /\ at[w] = "running"
  /\ \E outcome \in {"succeeded", "failed"}, ok \in BOOLEAN :
       /\ Answers(w, IF ok THEN outcome ELSE "journal_failed")
       /\ Persist(w, outcome, ok)
  /\ UNCHANGED <<job, locks, runs, reported, deliveries>>

\* Mutant of Releases: a worker that found its request active gives away the
\* claim of the one that runs it.
ReleasesAlways(w) == TRUE

\* release is deferred by the worker that claimed the request only.
Releases(w) == w \in deferred

\* Execute returns: stateMu and the claim are released, and handleCommand queues
\* the result.
Leave(w) ==
  /\ at[w] = "leave"
  /\ Goes(w, "idle")
  /\ job' = [job EXCEPT ![w] = None]
  /\ answer' = [answer EXCEPT ![w] = None]
  /\ stateMu' = IF ReleasesMu(w) THEN None ELSE stateMu
  /\ active' = IF Releases(w) THEN active \ {job[w].id} ELSE active
  /\ deferred' = deferred \ {w}
  /\ reported' = IF answer[w] = "succeeded" THEN reported \cup {job[w]} ELSE reported
  /\ UNCHANGED <<journal, runs, forgotten, deliveries, faults>>

\* The agent dies and starts again, with the journal it finds: what was running
\* has no result.
Crash ==
  /\ faults < MaxFaults
  /\ faults' = faults + 1
  /\ Reopen
  /\ at' = [w \in Workers |-> "idle"]
  /\ job' = [w \in Workers |-> None]
  /\ answer' = [w \in Workers |-> None]
  /\ active' = {}
  /\ deferred' = {}
  /\ stateMu' = None
  /\ forgotten' = forgotten \cup {job[w].id : w \in {v \in Workers : at[v] = "running"}}
  /\ UNCHANGED <<runs, reported, deliveries>>

Work(w) ==
  \/ Lookup(w) \/ Refuse(w) \/ Claim(w) \/ Lock(w) \/ Run(w) \/ Finish(w) \/ Leave(w)

ExecutorNext ==
  \/ \E w \in Workers, c \in Jobs : Deliver(w, c)
  \/ \E w \in Workers : Work(w)
  \/ Crash

ExecutorSpec == ExecutorInit /\ [][ExecutorNext]_executor

\* Goroutines are scheduled fairly, actions end (every helper call has a
\* timeout), and a mutex of Go does not starve a waiter: fairness is strong,
\* which matters for Lock, the one step that others can disable.
ExecutorFairness == \A w \in Workers : SF_executor(Work(w))

FairExecutorSpec == ExecutorSpec /\ ExecutorFairness

-----------------------------------------------------------------------------
Executing(w) == at[w] \in {"run", "running"}

\* State-changing actions run one at a time, and no request is run by two
\* workers at once, whatever was delivered twice (agent README: same-node
\* state-changing actions are serialized).
ActionsAreSerialized ==
  \A v, w \in Workers :
    v # w /\ Executing(v) /\ Executing(w) =>
      job[v].id # job[w].id /\ ~(Changes(v) /\ Changes(w))

\* The journal file can be opened again, whenever the agent dies: a file over
\* one of its limits would keep the agent from starting for good.
FileOpens == Openable(file)

\* A state-changing command runs a second time only if the journal lost the
\* result of the first run: trimmed it, could not write it, or died with it.
\* (A read-only one may run twice: it is not looked up again under its claim.)
ChangeRunsOnce ==
  \A c \in Jobs : c.action \in StateChanging /\ runs[c] > 1 => c.id \in forgotten

\* What the journal file says of command c after its success was reported, if the
\* journal did not lose the result: that it succeeded, or what was recorded first.
\* That is the refusal of a duplicate that came too late to be valid while c was
\* running, or the failure of an earlier run of the same read-only command; Record
\* keeps it and says that all is well.
Durable(c) ==
  \/ c.id \in forgotten
  \/ \E e \in ToSet(file) :
       /\ e.id = c.id
       /\ \/ e.outcome \in {"succeeded", "refused"}
          \/ c.action \notin StateChanging /\ runs[c] > 1

\* A success that was reported survives a restart of the agent: the entry in the
\* journal file is a success, unless it was trimmed or lost since, a refused
\* duplicate was recorded before it, or the command only reads and ran before.
SuccessIsDurable == \A c \in reported : Durable(c)

\* Every command that was delivered is answered, or dies with the agent: no
\* worker waits for a claim or the mutex for ever.
EveryCommandAnswered == \A w \in Workers : (at[w] = "lookup") ~> (at[w] = "idle")

=============================================================================
