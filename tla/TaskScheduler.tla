--------------------------- MODULE TaskScheduler ---------------------------
(***************************************************************************)
(* Scheduled tasks: TaskService and Scheduler (server/app/scheduler.py).   *)
(*                                                                         *)
(* Every server process has a scheduler; they share the database, and a    *)
(* lease that lets one of them work.  The lease may run out while its      *)
(* holder awaits the sends of a run, so two may be at work: each           *)
(* transaction is a step.  What create_request does for a node is in       *)
(* ActionRequests; here it leaves a request open or it does not.           *)
(*                                                                         *)
(* Bounds: the clock runs from Start to MaxTime; MaxFaults crashes or      *)
(* failed iterations.                                                      *)
(***************************************************************************)
EXTENDS ScheduleTimes

CONSTANTS
  Tasks, Schedulers,
  Schedules,   \* what a task's schedule may be
  Targets,     \* node_ids of every task
  DueLimit,    \* LIMIT of claim_due_tasks (50)
  Start, MaxTime, MaxFaults,
  Never        \* next_run_at NULL; no lease; no run

Instants == 0 .. MaxTime
Works    == [task : Tasks, at : Instants, left : SUBSET Targets, open : BOOLEAN]

ASSUME TaskSchedulerAssumption ==
  /\ MaxTime \in Nat /\ Start \in 0 .. MaxTime /\ MaxFaults \in Nat /\ DueLimit \in Nat \ {0}
  /\ Never \notin Int \cup Schedulers \cup Works
  /\ IsFiniteSet(Tasks) /\ IsFiniteSet(Targets)

\* No zone repeats a time that is before instant 0.
ASSUME SchedulesAssumption ==
  \A s \in Schedules :
    /\ s.zone \in [shift : Int, before : Int, after : Int]
    /\ s.zone.before - s.zone.after <= s.zone.shift
    /\ s.type \in {"daily", "weekly", "cron"}
    /\ s.type # "cron" => s.clock \in Int

VARIABLES
  now,
  task,      \* tasks: [life, enabled, schedule, next]
  runs,      \* task_runs: the status of the run of a task at an instant
  lease,     \* scheduler_leases: its owner, "gone" if that process died, or Never
  due,       \* rows that a scheduler selected and has not visited
  work,      \* the run a scheduler starts: [task, at, left, open], or Never
  busy,      \* schedulers inside an iteration
  faults

scheduling == <<now, task, runs, lease, due, work, busy, faults>>

TaskRows  == [life : {"unborn", "live", "deleted"}, enabled : BOOLEAN,
              schedule : Schedules, next : Nat \cup {Never}]
DueRows   == [task : Tasks, at : Instants, schedule : Schedules]
RunStates == {"none", "running", "dispatched", "completed"}

SchedulerTypeOK ==
  /\ now \in Instants
  /\ task \in [Tasks -> TaskRows]
  /\ runs \in [Tasks -> [Instants -> RunStates]]
  /\ lease \in Schedulers \cup {"gone", Never}
  /\ DOMAIN due = Schedulers /\ \A s \in Schedulers : \A r \in due[s] : r \in DueRows
  /\ work \in [Schedulers -> Works \cup {Never}]
  /\ busy \subseteq Schedulers
  /\ faults \in 0 .. MaxFaults

SchedulerInit ==
  /\ now = Start
  /\ \E s \in [Tasks -> Schedules] :
       task = [t \in Tasks |-> [life |-> "unborn", enabled |-> FALSE, schedule |-> s[t], next |-> Never]]
  /\ runs = [t \in Tasks |-> [i \in Instants |-> "none"]]
  /\ lease = Never
  /\ due = [s \in Schedulers |-> {}]
  /\ work = [s \in Schedulers |-> Never]
  /\ busy = {}
  /\ faults = 0

-----------------------------------------------------------------------------
\* A schedule is refused if it is invalid, or if no next run can be computed for it.
Accepts(s, enabled) == IsValidSchedule(s, now) /\ (enabled => NextRun(s, now) # NoRun)

\* create_task
CreateTask(t, s, enabled) ==
  /\ task[t].life = "unborn"
  /\ Accepts(s, enabled)
  /\ task' = [task EXCEPT ![t] = [life |-> "live", enabled |-> enabled, schedule |-> s,
                                  next |-> IF enabled THEN NextRun(s, now) ELSE Never]]
  /\ UNCHANGED <<now, runs, lease, due, work, busy, faults>>

\* Mutant of NextOnUpdate: a new schedule waits for the next claim.
NextOnUpdateLazy(row, s, enabled, says) ==
  IF says THEN (IF enabled THEN NextRun(s, now) ELSE Never) ELSE row.next

\* next_run_at after an update that says "enabled" or changes the schedule only:
\* counted from now if the task is enabled, whether it is resumed or was so before.
NextOnUpdate(row, s, enabled, says) ==
  IF enabled THEN NextRun(s, now) ELSE IF says THEN Never ELSE row.next

\* update_task of the fields enabled and schedule: a request that says "enabled"
\* of an enabled task moves its next run past the ones that were missed.
UpdateTask(t, s, enabled, says) ==
  /\ task[t].life = "live"
  /\ says \/ enabled = task[t].enabled
  /\ Accepts(s, enabled)
  /\ task' = [task EXCEPT ![t] = [@ EXCEPT !.schedule = s, !.enabled = enabled,
                                           !.next = NextOnUpdate(task[t], s, enabled, says)]]
  /\ UNCHANGED <<now, runs, lease, due, work, busy, faults>>

\* delete_task
DeleteTask(t) ==
  /\ task[t].life = "live"
  /\ task' = [task EXCEPT ![t] = [@ EXCEPT !.life = "deleted", !.enabled = FALSE]]
  /\ UNCHANGED <<now, runs, lease, due, work, busy, faults>>

\* soft_delete of a node stops the tasks it is a target of, and leaves their
\* next_run_at.
DeleteTarget ==
  /\ \E t \in Tasks : task[t].enabled
  /\ task' = [t \in Tasks |-> [task[t] EXCEPT !.enabled = FALSE]]
  /\ UNCHANGED <<now, runs, lease, due, work, busy, faults>>

-----------------------------------------------------------------------------
IsDue(t) ==
  task[t].enabled /\ task[t].life = "live" /\ task[t].next # Never /\ task[t].next <= now

\* _acquire_lease, and the select of claim_due_tasks: the rows due longest.
Begin(s) ==
  LET rows == {[task |-> t, at |-> task[t].next, schedule |-> task[t].schedule] :
                 t \in {u \in Tasks : IsDue(u)}}
  IN
  /\ s \notin busy
  /\ lease \in {s, Never}
  /\ UNCHANGED <<now, task, runs, work, faults>>
  /\ lease' = s
  /\ busy' = busy \cup {s}
  /\ \E chosen \in SUBSET rows :
       /\ Cardinality(chosen) = IF Cardinality(rows) < DueLimit THEN Cardinality(rows) ELSE DueLimit
       /\ \A r \in chosen, q \in rows \ chosen : r.at <= q.at
       /\ due' = [due EXCEPT ![s] = chosen]

\* The lease runs out, whatever its owner is doing.
LeaseExpires ==
  /\ lease # Never
  /\ lease' = Never
  /\ UNCHANGED <<now, task, runs, due, work, busy, faults>>

\* The transaction's look at the row it selected before.
Claimable(r) == task[r.task].life = "live" /\ task[r.task].enabled /\ task[r.task].next = r.at

\* Mutant of Starts: the row is trusted as it was selected.
StartsAsSelected(r) == TRUE

\* The claim wins if the row is as it was selected and INSERT OR IGNORE inserted a
\* run: nobody has claimed it.
Starts(r) == Claimable(r) /\ runs[r.task][r.at] = "none"

\* The run after the one claimed: missed ones are made up for one by one.
NextAfterClaim(r) == NextRun(r.schedule, r.at)

\* Mutant of DueAfter: a row that has changed is tried again.
DueAfterRetry(s, r) == IF Claimable(r) THEN due[s] \ {r} ELSE due[s]

\* Every row is visited once.
DueAfter(s, r) == due[s] \ {r}

\* The row a scheduler is about to claim: the oldest one it selected.
Visits(s, r) == s \in busy /\ work[s] = Never /\ r \in due[s] /\ \A q \in due[s] : r.at <= q.at

\* claim_due_tasks for one row: next_run, then the claim.
Claim(s, r) ==
  /\ Visits(s, r)
  /\ UNCHANGED <<now, lease, busy, faults>>
  /\ NextAfterClaim(r) # NoRun
  /\ due' = [due EXCEPT ![s] = DueAfter(s, r)]
  /\ IF Claimable(r) THEN task' = [task EXCEPT ![r.task].next = NextAfterClaim(r)]
                     ELSE UNCHANGED task
  /\ IF Starts(r)
     THEN /\ runs' = [runs EXCEPT ![r.task][r.at] = "running"]
          /\ work' = [work EXCEPT ![s] = [task |-> r.task, at |-> r.at,
                                          left |-> Targets, open |-> FALSE]]
     ELSE UNCHANGED <<runs, work>>

\* _start_task_run for one node: the request is open (queued or sent), or it was
\* refused, skipped or has ended already.
StartOn(s, n) ==
  /\ work[s] # Never /\ n \in work[s].left
  /\ UNCHANGED <<now, task, runs, lease, due, busy, faults>>
  /\ \E open \in BOOLEAN :
       work' = [work EXCEPT ![s].left = work[s].left \ {n}, ![s].open = work[s].open \/ open]

\* ... and its end.
EndRun(s) ==
  /\ work[s] # Never /\ work[s].left = {}
  /\ runs' = [runs EXCEPT ![work[s].task][work[s].at] =
                IF work[s].open THEN "dispatched" ELSE "completed"]
  /\ work' = [work EXCEPT ![s] = Never]
  /\ UNCHANGED <<now, task, lease, due, busy, faults>>

\* The iteration ends with expire_requests.
Sweep(s) ==
  /\ s \in busy /\ work[s] = Never /\ due[s] = {}
  /\ busy' = busy \ {s}
  /\ UNCHANGED <<now, task, runs, lease, due, work, faults>>

\* What an iteration leaves behind when it does not end: its run, if it has one,
\* stays as it is, and there is no sweep.
Abandon(s) ==
  /\ busy' = busy \ {s}
  /\ due' = [due EXCEPT ![s] = {}]
  /\ work' = [work EXCEPT ![s] = Never]
  /\ UNCHANGED <<now, task, runs>>

\* next_run raises for a row: the exception ends the iteration.
Poisoned(s, r) ==
  /\ Visits(s, r)
  /\ UNCHANGED <<lease, faults>>
  /\ Abandon(s)
  /\ NextAfterClaim(r) = NoRun

\* The process dies, and starts again as another owner; or a statement fails.
Fault(s) ==
  /\ s \in busy
  /\ faults < MaxFaults
  /\ faults' = faults + 1
  /\ Abandon(s)
  /\ \/ UNCHANGED lease
     \/ lease' = IF lease = s THEN "gone" ELSE lease

Tick ==
  /\ now < MaxTime
  /\ now' = now + 1
  /\ UNCHANGED <<task, runs, lease, due, work, busy, faults>>

Iteration(s) ==
  \/ Begin(s) \/ EndRun(s) \/ Sweep(s)
  \/ \E n \in Targets : StartOn(s, n)
  \/ \E r \in due[s] : Claim(s, r) \/ Poisoned(s, r)

SchedulerNext ==
  \/ \E t \in Tasks, s \in Schedules, enabled \in BOOLEAN :
       \/ CreateTask(t, s, enabled)
       \/ \E says \in BOOLEAN : UpdateTask(t, s, enabled, says)
  \/ \E t \in Tasks : DeleteTask(t)
  \/ DeleteTarget
  \/ LeaseExpires
  \/ \E s \in Schedulers : Iteration(s) \/ Fault(s)
  \/ Tick

SchedulerSpec == SchedulerInit /\ [][SchedulerNext]_scheduling

\* A lease that is not renewed runs out, and some scheduler goes on: its loop
\* runs, and the sends it awaits end.
FairSchedulerSpec ==
  /\ SchedulerSpec
  /\ WF_scheduling(LeaseExpires)
  /\ WF_scheduling(\E s \in Schedulers : Iteration(s))

-----------------------------------------------------------------------------
\* A run has one starter: no two schedulers work on the same run, what one works
\* on is 'running', and nobody else's claim touches it.  A run that is 'running'
\* with nobody at work was left by a crash or a failed iteration, one each.
RunsHaveOneStarter ==
  /\ \A s \in Schedulers : work[s] # Never => runs[work[s].task][work[s].at] = "running"
  /\ \A s, p \in Schedulers : s # p /\ work[s] # Never /\ work[p] # Never =>
       <<work[s].task, work[s].at>> # <<work[p].task, work[p].at>>
  /\ Cardinality({r \in Tasks \X Instants :
       /\ runs[r[1]][r[2]] = "running"
       /\ \A s \in Schedulers : work[s] # Never => <<work[s].task, work[s].at>> # r}) <= faults

\* next is the instant of a time of the schedule.
IsOn(s, next) ==
  \E w \in {WallOf(s.zone, next), next + s.zone.before} :
    InstantOf(s.zone, w) = next /\ OnSchedule(s, w)

\* ... and of the first one that the clocks show after the instant at.
IsNextOf(s, at, next) ==
  \E w \in {WallOf(s.zone, next), next + s.zone.before} :
    /\ InstantOf(s.zone, w) = next /\ OnSchedule(s, w) /\ w > WallOf(s.zone, at)
    /\ \A x \in WallOf(s.zone, at) + 1 .. w - 1 : ~OnSchedule(s, x)

\* The clocks of a zone in use show this time twice.
Ambiguous(u) ==
  \E s \in Schedules :
    LET zone == s.zone IN
    /\ zone.shift - (zone.before - zone.after) <= u
    /\ u < zone.shift + (zone.before - zone.after)

\* Every change of an enabled task leaves it a next_run_at of the schedule it has
\* now, even a claim that works from a row read before the schedule was changed:
\* an update computes a time later than any that is due.  In an hour that the
\* clocks repeat it may compute an earlier one, and the claim be taken in.
KeepsToSchedule(t) ==
  task'[t] # task[t] /\ task'[t].life = "live" /\ task'[t].enabled =>
    \/ IsOn(task'[t].schedule, task'[t].next)
    \/ task[t].enabled /\ Ambiguous(task[t].next)

NextFollowsSchedule == [][\A t \in Tasks : KeepsToSchedule(t)]_scheduling

\* A claim moves a task from its next_run_at to the soonest later one, and only a
\* due run of a live task starts: no occurrence is skipped, however late the
\* scheduler is, none comes back, and none starts after the task was stopped.
ClaimsInOrder(t) ==
  LET starts == \E i \in Instants : runs[t][i] = "none" /\ runs'[t][i] = "running"
      moves  == due' # due /\ task'[t] # task[t]
  IN
  /\ starts => IsDue(t) /\ runs'[t][task[t].next] = "running"
  /\ starts \/ moves =>
       \/ /\ task'[t].next > task[t].next
          /\ IsNextOf(task[t].schedule, task[t].next, task'[t].next)
       \/ Ambiguous(task[t].next)

ClaimsAreInOrder == [][\A t \in Tasks : ClaimsInOrder(t)]_scheduling

\* A due row that makes every iteration raise: its schedule has no next run
\* within the window, though it had one when it was set.
Blocked == \E t \in Tasks : IsDue(t) /\ NextRun(task[t].schedule, task[t].next) = NoRun

\* A task does not stay overdue: its due runs, the missed ones included, are all
\* claimed in the end or the task is stopped, whichever scheduler dies on the way.
\* Only a row that cannot be advanced keeps the others waiting.
DueIsClaimed == \A t \in Tasks : IsDue(t) ~> (~IsDue(t) \/ Blocked)

\* Requests past their deadline are looked for again and again: a failed claim, a
\* crash or a long backlog postpones expire_requests, and only a row that cannot
\* be advanced keeps it away for good.
SweepsGoOn == []<>Blocked \/ []<><<\E s \in Schedulers : Sweep(s)>>_scheduling
=============================================================================
