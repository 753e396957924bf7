------------------------------ MODULE ChangeIP ------------------------------
(***************************************************************************)
(* change_ip: the state machine that takes WARP down and up again until    *)
(* the exit address changes (agent/internal/warpchange), the watchdog it   *)
(* arms as a process of its own (agent/cmd/vps-agent-helper), and what     *)
(* Executor.execute makes of its result.                                   *)
(*                                                                         *)
(* Every call of the helper is one step that may fail, with or without     *)
(* having had its effect, since a timeout kills the caller only.  Time is  *)
(* abstracted to two events: the context of the run expires, and the       *)
(* deadline of its watchdog is reached (up to a second earlier, as it is   *)
(* cut to whole seconds).  A poll that finds nothing new is a stutter.  Of *)
(* the addresses only their comparison is kept, of the codes that name a   *)
(* failure only which of the recovery's parts failed.                      *)
(***************************************************************************)
EXTENDS Integers

CONSTANTS
  MaxAttempts,  \* options.MaxAttempts
  MaxRuns,      \* bound on the runs
  MaxDrops      \* bound on the times WARP changes its state by itself

ASSUME ChangeIPAssumption ==
  /\ MaxAttempts \in Nat \ {0}
  /\ MaxRuns \in Nat
  /\ MaxDrops \in Nat

VARIABLES
  stage,    \* where the machine is in Run; "idle" when it returned
  run,      \* the number of the current run, whose watchdog is dog[run]
  attempt,  \* result.Attempts
  result,   \* result.Success and which errors it names
  report,   \* the state of the Result that Executor.execute returns
  lastly,   \* history: the last call that toggled WARP, or that WARP was seen on since
  expired,  \* the context of the run is done
  due,      \* the runs whose watchdog has reached its deadline
  dog,      \* where the watchdog of each run is
  tries,    \* the attempts that are left to it
  dismissed, \* history: a Disarm of this run was answered with success
  warp,     \* what WARP really does
  drops     \* changes of WARP by itself so far

machine  == <<stage, run, attempt, result, report, lastly, expired>>
watchdog == <<due, dog, tries, dismissed>>
tunnel   == <<warp, drops>>
change   == <<machine, watchdog, tunnel>>

-----------------------------------------------------------------------------
Runs == 1 .. MaxRuns

Stages == {"idle", "precheck", "old_ip", "arm", "attempt", "off", "wait_off", "on", "wait_on",
           "new_ip", "final", "disarm", "settle", "recover", "recover_on", "recover_late",
           "recover_wait", "recover_state", "disarm_after", "deferred", "dead"}

Active == stage \notin {"idle", "dead"}

WarpStates == {"on", "off", "degraded"}

Results == [success : BOOLEAN, errors : SUBSET {"arm", "recovery", "watchdog"}]

\* Where a watchdog may be; it is armed, or at work.
AtWork == {"armed", "check", "switch", "verify"}
Places == AtWork \cup {"none", "done", "gave_up", "disarmed"}

Pending(r) == dog[r] \in AtWork

ChangeTypeOK ==
  /\ stage \in Stages
  /\ run \in 0 .. MaxRuns
  /\ attempt \in 0 .. MaxAttempts
  /\ result \in Results
  /\ report \in {"none", "succeeded", "failed"}
  /\ lastly \in {"none", "off", "on", "saw_on"}
  /\ expired \in BOOLEAN
  /\ due \subseteq Runs
  /\ dog \in [Runs -> Places]
  /\ tries \in [Runs -> 0 .. MaxAttempts]
  /\ dismissed \in BOOLEAN
  /\ warp \in WarpStates
  /\ drops \in Nat

NoResult == [success |-> FALSE, errors |-> {}]

ChangeInit ==
  /\ stage = "idle"
  /\ run = 0
  /\ attempt = 0
  /\ result = NoResult
  /\ report = "none"
  /\ lastly = "none"
  /\ expired = FALSE
  /\ due = {}
  /\ dog = [r \in Runs |-> "none"]
  /\ tries = [r \in Runs |-> 0]
  /\ dismissed = FALSE
  /\ warp \in WarpStates
  /\ drops = 0

-----------------------------------------------------------------------------
\* What a status call may read: an error, or the truth if its context is alive.
StatusReads(alive) == {"error"} \cup (IF alive THEN {warp} ELSE {})

\* A call to turn WARP on, or off.  A dead context keeps it from starting; a
\* failed one may have had its effect, a successful one may still be under way.
TurnsOn(alive, ok) ==
  /\ ok => alive
  /\ warp' \in IF ~alive THEN {warp} ELSE {"on", "degraded"} \cup (IF ok THEN {} ELSE {warp})

TurnsOff(alive, ok) ==
  /\ ok => alive
  /\ warp' \in IF alive THEN {warp, "off"} ELSE {warp}

\* A call of Disarm; it may find that the watchdog has gone by itself.  On OpenRC
\* it kills the watchdog's process.  On systemd it stops the service, which ends a
\* watchdog at work; the timer that systemd-run --on-active armed for it stays, so
\* that an armed watchdog may outlive a Disarm that succeeded.
Disarms(alive, ok) ==
  /\ ok => alive
  /\ IF alive /\ Pending(run)
     THEN \E state \in {"disarmed"} \cup (IF ok /\ dog[run] # "armed" THEN {} ELSE {dog[run]}) :
            dog' = [dog EXCEPT ![run] = state]
     ELSE UNCHANGED dog
  /\ dismissed' = (dismissed \/ ok)
  /\ UNCHANGED <<due, tries>>

Goes(next) == stage' = next /\ UNCHANGED <<run, attempt, result, report, expired>>

\* Mutant of Names: the error is only logged.
NamesNothing(error) == [result EXCEPT !.success = FALSE]

\* The result names what failed.
Names(error) == [result EXCEPT !.success = FALSE, !.errors = @ \cup {error}]

\* execute: a ChangeIP without success only sets code and message; err is nil, so
\* that the common ending overwrites both.
ReportOf(r) == "succeeded"

\* Run returns r, and execute makes a report of it.
Returns(r) ==
  /\ stage' = "idle"
  /\ result' = r
  /\ report' = ReportOf(r)
  /\ UNCHANGED <<run, attempt, expired>>

\* Run is about to return with the watchdog still armed, as far as it knows.
Defers(r) ==
  /\ stage' = "deferred"
  /\ result' = r
  /\ UNCHANGED <<run, attempt, report, expired>>

\* The attempt failed.
NextAttempt ==
  /\ IF attempt < MaxAttempts
     THEN stage' = "attempt" /\ attempt' = attempt + 1
     ELSE stage' = "settle" /\ UNCHANGED attempt
  /\ UNCHANGED <<run, result, report, expired>>

-----------------------------------------------------------------------------
Begin ==
  /\ stage \in {"idle", "dead"}
  /\ run < MaxRuns
  /\ stage' = "precheck"
  /\ run' = run + 1
  /\ attempt' = 0
  /\ result' = NoResult
  /\ report' = "none"
  /\ lastly' = "none"
  /\ expired' = FALSE
  /\ dismissed' = FALSE
  /\ UNCHANGED <<due, dog, tries, tunnel>>

Precheck ==
  /\ stage = "precheck"
  /\ \E state \in StatusReads(~expired) :
       IF state \in {"on", "degraded"} THEN Goes("old_ip") ELSE Returns(result)
  /\ UNCHANGED <<lastly, watchdog, tunnel>>

OldIP ==
  /\ stage = "old_ip"
  /\ \/ ~expired /\ Goes("arm")
     \/ Returns(result)
  /\ UNCHANGED <<lastly, watchdog, tunnel>>

\* Mutant of Arm: its error is ignored.
ArmIgnored ==
  /\ stage = "arm"
  /\ \E effect \in BOOLEAN :
       /\ effect => ~expired
       /\ dog' = [dog EXCEPT ![run] = IF effect THEN "armed" ELSE @]
       /\ tries' = [tries EXCEPT ![run] = MaxAttempts]
       /\ stage' = "attempt"
       /\ attempt' = 1
       /\ UNCHANGED <<run, result, report, expired>>
  /\ UNCHANGED <<lastly, due, dismissed, tunnel>>

\* A failed Arm may leave a watchdog behind.
Arm ==
  /\ stage = "arm"
  /\ \E ok, effect \in BOOLEAN :
       /\ ok => effect
       /\ effect => ~expired
       /\ dog' = [dog EXCEPT ![run] = IF effect THEN "armed" ELSE @]
       /\ tries' = [tries EXCEPT ![run] = MaxAttempts]
       /\ IF ok
          THEN /\ stage' = "attempt"
               /\ attempt' = 1
               /\ UNCHANGED <<run, result, report, expired>>
          ELSE Returns(Names("arm"))
  /\ UNCHANGED <<lastly, due, dismissed, tunnel>>

Attempt ==
  /\ stage = "attempt"
  /\ Goes(IF expired THEN "settle" ELSE "off")
  /\ UNCHANGED <<lastly, watchdog, tunnel>>

Off ==
  /\ stage = "off"
  /\ \E ok \in BOOLEAN : /\ TurnsOff(~expired, ok)
                         /\ IF ok THEN Goes("wait_off") ELSE NextAttempt
  /\ lastly' = IF expired THEN lastly ELSE "off"
  /\ UNCHANGED <<watchdog, drops>>

\* Mutant of WaitOff: the poll does not look at its context.
WaitOffPatient ==
  /\ stage = "wait_off"
  /\ warp = "off"
  /\ IF expired THEN NextAttempt ELSE Goes("on")
  /\ UNCHANGED <<lastly, watchdog, tunnel>>

WaitOff ==
  /\ stage = "wait_off"
  /\ \/ ~expired /\ warp = "off" /\ Goes("on")
     \/ expired /\ NextAttempt
  /\ UNCHANGED <<lastly, watchdog, tunnel>>

On ==
  /\ stage = "on"
  /\ \E ok \in BOOLEAN : /\ TurnsOn(~expired, ok)
                         /\ IF ok THEN Goes("wait_on") ELSE NextAttempt
  /\ lastly' = IF expired THEN lastly ELSE "on"
  /\ UNCHANGED <<watchdog, drops>>

WaitOn ==
  /\ stage = "wait_on"
  /\ \/ ~expired /\ warp = "on" /\ Goes("new_ip") /\ lastly' = "saw_on"
     \/ expired /\ NextAttempt /\ UNCHANGED lastly
  /\ UNCHANGED <<watchdog, tunnel>>

\* The new address is read and differs, or not.
NewIP ==
  /\ stage = "new_ip"
  /\ \/ ~expired /\ Goes("final")
     \/ NextAttempt
  /\ UNCHANGED <<lastly, watchdog, tunnel>>

Final ==
  /\ stage = "final"
  /\ \E state \in StatusReads(~expired) :
       IF state = "on" THEN Goes("disarm") ELSE NextAttempt
  /\ UNCHANGED <<lastly, watchdog, tunnel>>

Disarm ==
  /\ stage = "disarm"
  /\ \E ok \in BOOLEAN :
       /\ Disarms(~expired, ok)
       /\ IF ok THEN Returns([result EXCEPT !.success = TRUE]) ELSE Defers(Names("watchdog"))
  /\ UNCHANGED <<lastly, tunnel>>

-----------------------------------------------------------------------------
\* Mutant of NeedsRecovery: an error is not a reason to recover.
NeedsRecoveryIfOff(state) == state = "off"

\* After the last attempt WARP is not known to be on.
NeedsRecovery(state) == state # "on"

Settle ==
  /\ stage = "settle"
  /\ \E state \in StatusReads(~expired) :
       IF NeedsRecovery(state)
       THEN Goes("recover") /\ UNCHANGED lastly
       ELSE Goes("disarm_after") /\ lastly' = IF state = "on" THEN "saw_on" ELSE lastly
  /\ UNCHANGED <<watchdog, tunnel>>

\* recoverOn has a context of its own, which is as long as one call may take: a
\* status call that times out leaves nothing of it.
Recover ==
  /\ stage = "recover"
  /\ \E state \in StatusReads(TRUE) :
       \/ state = "on" /\ Goes("disarm_after") /\ lastly' = "saw_on"
       \/ state # "on" /\ Goes("recover_on") /\ UNCHANGED lastly
       \/ state = "error" /\ Goes("recover_late") /\ UNCHANGED lastly
  /\ UNCHANGED <<watchdog, tunnel>>

RecoverOn ==
  /\ stage \in {"recover_on", "recover_late"}
  /\ \E ok \in BOOLEAN :
       /\ TurnsOn(stage = "recover_on", ok)
       /\ IF ok THEN Goes("recover_wait") ELSE Defers(Names("recovery"))
  /\ lastly' = IF stage = "recover_on" THEN "on" ELSE lastly
  /\ UNCHANGED <<watchdog, drops>>

RecoverWait ==
  /\ stage = "recover_wait"
  /\ \/ warp = "on" /\ Goes("recover_state")
     \/ Defers(Names("recovery"))
  /\ UNCHANGED <<lastly, watchdog, tunnel>>

RecoverState ==
  /\ stage = "recover_state"
  /\ \E state \in StatusReads(TRUE) :
       IF state = "error" THEN Defers(Names("recovery")) ELSE Goes("disarm_after")
  /\ UNCHANGED <<lastly, watchdog, tunnel>>

DisarmAfter ==
  /\ stage = "disarm_after"
  /\ \E ok \in BOOLEAN :
       /\ Disarms(TRUE, ok)
       /\ IF ok THEN Returns(result) ELSE Defers(Names("watchdog"))
  /\ UNCHANGED <<lastly, tunnel>>

\* The deferred function tries to disarm, whatever it is that failed.
Deferred ==
  /\ stage = "deferred"
  /\ \E ok \in BOOLEAN : Disarms(TRUE, ok)
  /\ Returns(result)
  /\ UNCHANGED <<lastly, tunnel>>

Step ==
  \/ Precheck \/ OldIP \/ Arm \/ Attempt \/ Off \/ WaitOff \/ On \/ WaitOn \/ NewIP \/ Final
  \/ Disarm \/ Settle \/ Recover \/ RecoverOn \/ RecoverWait \/ RecoverState \/ DisarmAfter
  \/ Deferred

Expire ==
  /\ Active
  /\ ~expired
  /\ expired' = TRUE
  /\ UNCHANGED <<stage, run, attempt, result, report, lastly, watchdog, tunnel>>

\* Mutant of Crash: the watchdog is a child that dies with the agent.
CrashWithWatchdog ==
  /\ Active
  /\ stage' = "dead"
  /\ dog' = [dog EXCEPT ![run] = IF Pending(run) THEN "disarmed" ELSE @]
  /\ UNCHANGED <<run, attempt, result, report, lastly, expired, due, tries, dismissed, tunnel>>

\* The agent dies.
Crash ==
  /\ Active
  /\ stage' = "dead"
  /\ UNCHANGED <<run, attempt, result, report, lastly, expired, watchdog, tunnel>>

-----------------------------------------------------------------------------
\* The watchdog sleeps until its deadline.
Due(r) ==
  /\ dog[r] = "armed"
  /\ r \notin due
  /\ due' = due \cup {r}
  /\ UNCHANGED <<machine, dog, tries, dismissed, tunnel>>

Fires(r) ==
  /\ dog[r] = "armed"
  /\ r \in due
  /\ dog' = [dog EXCEPT ![r] = "check"]
  /\ UNCHANGED <<machine, due, tries, dismissed, tunnel>>

Moves(r, place) == dog' = [dog EXCEPT ![r] = place] /\ UNCHANGED tries

NextTry(r) ==
  /\ tries' = [tries EXCEPT ![r] = @ - 1]
  /\ dog' = [dog EXCEPT ![r] = IF tries[r] > 1 THEN "check" ELSE "gave_up"]

Check(r) ==
  /\ dog[r] = "check"
  /\ \E state \in StatusReads(TRUE) : Moves(r, IF state = "on" THEN "done" ELSE "switch")
  /\ UNCHANGED <<machine, due, dismissed, tunnel>>

Switch(r) ==
  /\ dog[r] = "switch"
  /\ \E ok \in BOOLEAN : /\ TurnsOn(TRUE, ok)
                         /\ IF ok THEN Moves(r, "verify") ELSE NextTry(r)
  /\ UNCHANGED <<machine, due, dismissed, drops>>

Verify(r) ==
  /\ dog[r] = "verify"
  /\ \E state \in StatusReads(TRUE) : IF state = "on" THEN Moves(r, "done") ELSE NextTry(r)
  /\ UNCHANGED <<machine, due, dismissed, tunnel>>

WatchdogRuns(r) == Fires(r) \/ Check(r) \/ Switch(r) \/ Verify(r)

\* WARP finishes connecting.
Connects ==
  /\ warp = "degraded"
  /\ warp' = "on"
  /\ UNCHANGED <<machine, watchdog, drops>>

\* WARP changes by itself, or by another action once the machine is idle.
Drops ==
  /\ drops < MaxDrops
  /\ drops' = drops + 1
  /\ warp' \in WarpStates \ {warp}
  /\ UNCHANGED <<machine, watchdog>>

ChangeNext ==
  \/ Begin \/ Step \/ Expire \/ Crash
  \/ \E r \in Runs : Due(r) \/ WatchdogRuns(r)
  \/ Connects \/ Drops

ChangeSpec == ChangeInit /\ [][ChangeNext]_change

\* Time passes, every call has a timeout, and processes are scheduled.
ChangeFairness ==
  /\ WF_change(Step)
  /\ WF_change(Expire)
  /\ \A r \in Runs : WF_change(Due(r)) /\ WF_change(WatchdogRuns(r))

FairChangeSpec == ChangeSpec /\ ChangeFairness

-----------------------------------------------------------------------------
\* While the machine has WARP down, or if the agent died then, there is a watchdog
\* to bring it up, or that has tried (agent README: it arms a finite recovery
\* watchdog before the first attempt).
OffIsGuarded ==
  stage # "idle" /\ lastly = "off" => dog[run] \notin {"none", "disarmed"}

\* A run that ends without having tried to turn WARP on again says that its
\* recovery failed (Machine.Run, recoverOn).
LeftOffIsReported == stage = "idle" /\ lastly = "off" => "recovery" \in result.errors

\* A run that armed a watchdog, and returns without a Disarm that was answered
\* with success, is no success and names an error: that arming or disarming failed,
\* which is to say that the watchdog may still be there, or that the recovery
\* failed; of the Disarm after that nobody tells the outcome (Machine.Run).  What
\* an answered Disarm leaves behind, systemd's timer, no result tells.
ArmedIsDismissedOrReported ==
  stage = "idle" /\ run \in Runs /\ dog[run] # "none" /\ ~dismissed =>
    /\ ~result.success
    /\ "arm" \in result.errors \/ "watchdog" \in result.errors \/ "recovery" \in result.errors

\* Whatever hangs, a run comes to its end: the polls stop when the context expires.
RunEnds == Active ~> ~Active

\* If the agent dies while it has WARP down, before the deadline of its watchdog,
\* WARP comes up again or the watchdog has used up its attempts.  (In the last
\* second the watchdog may have looked already, and left.)
CrashIsRecovered ==
  \A r \in Runs : (stage = "dead" /\ run = r /\ r \notin due /\ lastly = "off")
                    ~> (warp = "on" \/ dog[r] = "gave_up")

\* False: the terminal result of a run that failed says so (agent README: it
\* records the stage-specific code).
ReportTellsFailure == report = "succeeded" => result.success
=============================================================================
