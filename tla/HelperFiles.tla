----------------------------- MODULE HelperFiles -----------------------------
(***************************************************************************)
(* What the privileged helper (cmd/vps-agent-helper) does to files: the    *)
(* restore of an xray configuration, the restore of an x-ui database and   *)
(* the upgrade of the two binaries, step by step, with the rollback of     *)
(* each.                                                                   *)
(*                                                                         *)
(* A helper is one process with one job.  The agent runs one job that      *)
(* changes state at a time and, timeout or not, waits until the helper has *)
(* closed its output.  A helper whose agent is restarted dies with it, or, *)
(* where the service manager ends the agent alone, goes on as an orphan    *)
(* beside the next agent's job.  The machine may go down at any step.      *)
(*                                                                         *)
(* copyFile and the activation of a binary write a temporary file and      *)
(* rename it, so that a file is replaced or not, never torn; files that    *)
(* are unpacked can be.  Backups are named by the second they are taken in *)
(* and so belong to one helper.                                            *)
(***************************************************************************)
EXTENDS Naturals, FiniteSets

CONSTANTS Helpers, Jobs

ASSUME HelperFilesAssumption == Jobs \subseteq {"xray", "xui", "upgrade"}

VARIABLES
  pc,          \* where each helper is
  job,         \* what it was started for
  file,        \* the files, by path
  kept,        \* the backups ".before-vps-tool-<time>" of each helper
  saved,       \* the live files of the job as the helper found them
  changed,     \* binaryUpdate.changed: the binaries an upgrade replaces
  service,     \* whether x-ui runs
  archive,     \* of each helper: is its configuration sound, has it a node.env
  overlapped,  \* the jobs that were begun beside an orphan with the same job
  unrestored   \* helpers a step of whose rollback failed

work  == <<job, kept, saved, changed, service, archive, overlapped, unrestored>>
disks == <<pc, file, work>>

None == <<"none">>
Old  == <<"old">>
New  == <<"new">>
Late == <<"late">>  \* what x-ui has written since
Given(p) == <<"given", p>>
Torn(p)  == <<"torn", p>>

Contents == {None, Old, New, Late} \cup {Given(p) : p \in Helpers} \cup {Torn(p) : p \in Helpers}

Staging == {"staged config", "staged env", "test config"}
Kept    == {"config", "env", "db"}
Paths   == {"config", "env", "db", "db.part", "agent", "helper", "agent.previous", "helper.previous"}
             \cup Staging

Archives == [sound : BOOLEAN, env : BOOLEAN]

Live(j) == CASE j = "xray" -> {"config", "env"} [] j = "xui" -> {"db"}
             [] j = "upgrade" -> {"agent", "helper"} [] OTHER -> {}

Ended  == {"done", "failed", "dead"}
Labels == {"idle", "clear", "extract", "fill", "stage", "test", "keep", "config", "env", "restart",
           "undo", "undo env", "won", "lost", "keep db", "stop", "stage db", "swap", "start",
           "undo db", "start again", "download", "prepare", "link agent", "link helper", "agent", "helper", "schedule", "roll back"}

FilesTypeOK ==
  /\ pc \in [Helpers -> Labels \cup Ended]
  /\ job \in [Helpers -> Jobs \cup {"none"}]
  /\ file \in [Paths -> Contents]
  /\ kept \in [Helpers -> [Kept -> Contents]]
  /\ \A p \in Helpers : saved[p] \in [Live(job[p]) -> Contents]
  /\ changed \in [Helpers -> SUBSET {"agent", "helper"}]
  /\ service \in {"up", "down"}
  /\ archive \in [Helpers -> Archives]
  /\ overlapped \subseteq Jobs /\ unrestored \subseteq Helpers

FilesInit ==
  /\ pc = [p \in Helpers |-> "idle"]
  /\ job = [p \in Helpers |-> "none"]
  /\ \E found \in SUBSET {"config", "env"} :
       file = [f \in Paths |-> IF f \in found \cup {"db", "agent", "helper"} THEN Old ELSE None]
  /\ kept = [p \in Helpers |-> [f \in Kept |-> None]]
  /\ saved = [p \in Helpers |-> [f \in {} |-> None]]
  /\ changed = [p \in Helpers |-> {}]
  /\ service = "up"
  /\ archive = [p \in Helpers |-> [sound |-> FALSE, env |-> FALSE]]
  /\ overlapped = {} /\ unrestored = {}

-----------------------------------------------------------------------------
At(p, label)   == pc[p] = label
Move(p, label) == pc' = [pc EXCEPT ![p] = label]
Running        == {p \in Helpers : pc[p] \notin Ended \cup {"idle"}}

Put(f, content) == [file EXCEPT ![f] = content]

Without(fs)     == [f \in Paths |-> IF f \in fs THEN None ELSE file[f]]
Keeping(p, fs)  == [kept EXCEPT ![p] = [f \in Kept |-> IF f \in fs THEN file[f] ELSE @[f]]]

\* copyFile: a failure comes before the rename or, from chmod, after it.
Copies(source, target) == IF file[source] = None THEN {} ELSE {Put(target, file[source])}

CopyFile(p, source, target, next, otherwise) ==
  \/ /\ file' \in Copies(source, target)
     /\ Move(p, next)
  \/ /\ file' \in Copies(source, target) \cup {file}
     /\ Move(p, otherwise)

\* The executor holds stateMu until its call of the helper returns: a job begins
\* beside another only when the agent of the other is gone.
Begin(p, j) ==
  /\ At(p, "idle")
  /\ job' = [job EXCEPT ![p] = j]
  /\ saved' = [saved EXCEPT ![p] = [f \in Live(j) |-> file[f]]]
  /\ overlapped' = IF \E q \in Running : job[q] = j THEN overlapped \cup {j} ELSE overlapped
  /\ \/ j = "xray" /\ \E found \in Archives : archive' = [archive EXCEPT ![p] = found]
     \/ j # "xray" /\ UNCHANGED archive
  /\ Move(p, CASE j = "xray" -> "clear" [] j = "xui" -> "keep db" [] j = "upgrade" -> "download")
  /\ UNCHANGED <<file, kept, changed, service, unrestored>>

\* The helper is killed with its agent, or the machine goes down and comes up again.
Die(p) ==
  /\ p \in Running
  /\ Move(p, "dead")
  /\ service' \in {service, "up"}
  /\ UNCHANGED <<file, job, kept, saved, changed, archive, overlapped, unrestored>>

-----------------------------------------------------------------------------
\* restoreXrayConfig empties its directory, which all its runs share, and unpacks
\* the archive in it.
Clear(p) == At(p, "clear") /\ file' = Without(Staging) /\ Move(p, "extract") /\ UNCHANGED work

Extract(p) ==
  /\ At(p, "extract")
  /\ \/ file' = Put("staged config", Torn(p)) /\ Move(p, "fill")
     \/ UNCHANGED file /\ Move(p, "lost")
  /\ UNCHANGED work

Unpacked(p) ==
  [f \in Paths |-> CASE f = "staged config" -> Given(p)
                     [] f = "staged env" -> IF archive[p].env THEN Given(p) ELSE None
                     [] OTHER -> file[f]]

Fill(p) ==
  /\ At(p, "fill")
  /\ \/ /\ file' = IF file["staged config"] = Torn(p) THEN Unpacked(p) ELSE file
        /\ Move(p, "stage")
     \/ UNCHANGED file /\ Move(p, "lost")
  /\ UNCHANGED work

Stage(p) ==
  At(p, "stage") /\ CopyFile(p, "staged config", "test config", "test", "lost") /\ UNCHANGED work

Sound(content) == \E p \in Helpers : content = Given(p) /\ archive[p].sound

\* Mutant of Test: what is tested is only whether there is a configuration.
TestPresence(p) ==
  /\ At(p, "test")
  /\ \/ file["test config"] # None /\ Move(p, "keep")
     \/ Move(p, "lost")
  /\ UNCHANGED <<file, work>>

Test(p) ==
  /\ At(p, "test")
  /\ \/ Sound(file["test config"]) /\ Move(p, "keep")
     \/ Move(p, "lost")
  /\ UNCHANGED <<file, work>>

\* The backups, then the two files; an archive without node.env removes it.
Keep(p) ==
  /\ At(p, "keep")
  /\ \/ kept' = Keeping(p, {"config", "env"}) /\ Move(p, "config")
     \/ UNCHANGED kept /\ Move(p, "lost")
  /\ UNCHANGED <<file, job, saved, changed, service, archive, overlapped, unrestored>>

Config(p) ==
  At(p, "config") /\ CopyFile(p, "staged config", "config", "env", "undo") /\ UNCHANGED work

\* Mutant of Env: a node.env that the archive has not is left as it is.
EnvKept(p) ==
  /\ At(p, "env")
  /\ IF archive[p].env THEN CopyFile(p, "staged env", "env", "restart", "undo")
     ELSE UNCHANGED file /\ Move(p, "restart")
  /\ UNCHANGED work

Env(p) ==
  /\ At(p, "env")
  /\ IF archive[p].env THEN CopyFile(p, "staged env", "env", "restart", "undo")
     ELSE file' = Without({"env"}) /\ Move(p, "restart")
  /\ UNCHANGED work

Restart(p) ==
  /\ At(p, "restart")
  /\ \E next \in {"won", "undo"} : Move(p, next)
  /\ UNCHANGED <<file, work>>

\* A step of a rollback: the file gets its backup, and the backup goes, whether or
\* not it could be copied.
PutBack(p, f) ==
  /\ kept' = [kept EXCEPT ![p][f] = None]
  /\ \/ file' = Put(f, kept[p][f]) /\ UNCHANGED unrestored
     \/ UNCHANGED file /\ unrestored' = unrestored \cup {p}

\* rollbackXrayRestore: a configuration that was not there is not removed.
Undo(p) ==
  /\ At(p, "undo")
  /\ IF kept[p]["config"] # None THEN PutBack(p, "config") ELSE UNCHANGED <<kept, file, unrestored>>
  /\ Move(p, "undo env")
  /\ UNCHANGED <<job, saved, changed, service, archive, overlapped>>

\* Mutant of UndoEnv: only a node.env that was there is put back.
UndoEnvIfKept(p) ==
  /\ At(p, "undo env")
  /\ IF kept[p]["env"] # None THEN PutBack(p, "env") ELSE UNCHANGED <<kept, file, unrestored>>
  /\ Move(p, "lost")
  /\ UNCHANGED <<job, saved, changed, service, archive, overlapped>>

UndoEnv(p) ==
  /\ At(p, "undo env")
  /\ IF kept[p]["env"] # None THEN PutBack(p, "env")
     ELSE file' = Without({"env"}) /\ UNCHANGED <<kept, unrestored>>
  /\ Move(p, "lost")
  /\ UNCHANGED <<job, saved, changed, service, archive, overlapped>>

\* The directory goes with the return, the backups go with success.
Return(p) ==
  /\ file' = Without(Staging)
  /\ \/ /\ At(p, "won")
        /\ kept' = [kept EXCEPT ![p] = [f \in Kept |-> None]]
        /\ Move(p, "done")
     \/ At(p, "lost") /\ UNCHANGED kept /\ Move(p, "failed")
  /\ UNCHANGED <<job, saved, changed, service, archive, overlapped, unrestored>>

XrayStep(p) ==
  \/ Clear(p) \/ Extract(p) \/ Fill(p) \/ Stage(p) \/ Test(p) \/ Keep(p) \/ Config(p) \/ Env(p)
  \/ Restart(p) \/ Undo(p) \/ UndoEnv(p) \/ Return(p)

-----------------------------------------------------------------------------
\* restoreXUIDatabase: the copy is taken while x-ui still runs and perhaps writes.
KeepDb(p) ==
  /\ At(p, "keep db")
  /\ \/ kept' = Keeping(p, {"db"}) /\ Move(p, "stop")
     \/ service = "up" /\ kept' = [kept EXCEPT ![p]["db"] = Torn(p)] /\ Move(p, "stop")
     \/ kept' \in {kept, Keeping(p, {"db"})} /\ Move(p, "failed")
  /\ UNCHANGED <<file, job, saved, changed, service, archive, overlapped, unrestored>>

XuiWrites ==
  /\ service = "up" /\ file["db"] = Old
  /\ file' = Put("db", Late)
  /\ UNCHANGED <<pc, work>>

\* A stop that fails, or takes too long, may have stopped it.
Stop(p) ==
  /\ At(p, "stop")
  /\ \/ service' = "down" /\ Move(p, "stage db")
     \/ service' \in {service, "down"} /\ Move(p, "failed")
  /\ UNCHANGED <<file, job, kept, saved, changed, archive, overlapped, unrestored>>

StageDb(p) ==
  /\ At(p, "stage db")
  /\ \/ file' = Put("db.part", Given(p)) /\ Move(p, "swap")
     \/ file' \in {file, Put("db.part", Given(p))} /\ Move(p, "start again")
  /\ UNCHANGED work

Swapped ==
  [f \in Paths |-> CASE f = "db" -> file["db.part"] [] f = "db.part" -> None [] OTHER -> file[f]]

Swap(p) ==
  /\ At(p, "swap")
  /\ \/ /\ file["db.part"] # None
        /\ file' = Swapped
        /\ Move(p, "start")
     \/ file' = Without({"db.part"}) /\ Move(p, "start again")
  /\ UNCHANGED work

StartXui(p) ==
  /\ At(p, "start")
  /\ \/ service' = "up" /\ kept' = [kept EXCEPT ![p]["db"] = None] /\ Move(p, "done")
     \/ UNCHANGED <<service, kept>> /\ Move(p, "undo db")
  /\ UNCHANGED <<file, job, saved, changed, archive, overlapped, unrestored>>

UndoDb(p) ==
  /\ At(p, "undo db")
  /\ \/ file' = Put("db", kept[p]["db"]) /\ UNCHANGED unrestored
     \/ UNCHANGED file /\ unrestored' = unrestored \cup {p}
  /\ Move(p, "start again")
  /\ UNCHANGED <<job, kept, saved, changed, service, archive, overlapped>>

StartAgain(p) ==
  /\ At(p, "start again")
  /\ service' \in {"up", service}
  /\ Move(p, "failed")
  /\ UNCHANGED <<file, job, kept, saved, changed, archive, overlapped, unrestored>>

XuiStep(p) ==
  KeepDb(p) \/ Stop(p) \/ StageDb(p) \/ Swap(p) \/ StartXui(p) \/ UndoDb(p) \/ StartAgain(p)

-----------------------------------------------------------------------------
Previous(t) == IF t = "agent" THEN "agent.previous" ELSE "helper.previous"

\* upgrade: the latest release is found, and its two binaries are downloaded and
\* verified, or nothing is: it may be older, incomplete, too large or not its checksum's.
Download(p) ==
  /\ At(p, "download")
  /\ \E next \in {"prepare", "failed"} : Move(p, next)
  /\ UNCHANGED <<file, work>>

\* prepareBinaryUpdate: a binary that is the release's already is left alone.
Outdated == {t \in {"agent", "helper"} : file[t] # New}

Prepare(p) ==
  /\ At(p, "prepare")
  /\ changed' = [changed EXCEPT ![p] = Outdated]
  /\ \/ Move(p, IF changed'[p] = {} THEN "done" ELSE "link agent")
     \/ Move(p, "failed")
  /\ UNCHANGED <<file, job, kept, saved, service, archive, overlapped, unrestored>>

\* commitBinaryUpdates links the old binaries, then activates agent and helper.
Link(p, t, label, next) ==
  /\ At(p, label)
  /\ \/ file' = (IF t \in changed[p] THEN Put(Previous(t), file[t]) ELSE file) /\ Move(p, next)
     \/ t \in changed[p] /\ file' \in {file, Put(Previous(t), None)} /\ Move(p, "failed")
  /\ UNCHANGED work

Activate(p, t, next) ==
  /\ At(p, t)
  /\ \/ file' = (IF t \in changed[p] THEN Put(t, New) ELSE file) /\ Move(p, next)
     \/ t \in changed[p] /\ UNCHANGED file /\ Move(p, "roll back")
  /\ UNCHANGED work

Schedule(p) ==
  /\ At(p, "schedule")
  /\ \E next \in {"done", "roll back"} : Move(p, next)
  /\ UNCHANGED <<file, work>>

Restorable(p) == {t \in changed[p] : file[Previous(t)] # None}

\* rollbackBinaryUpdates; a rename between two links of one file changes nothing.
RollBack(p) ==
  /\ At(p, "roll back")
  /\ \E ts \in SUBSET Restorable(p) :
       /\ file' = [f \in Paths |-> IF f \in ts THEN file[Previous(f)]
                                   ELSE IF \E t \in ts : f = Previous(t) /\ file[t] # file[f] THEN None
                                   ELSE file[f]]
       /\ unrestored' = IF ts = Restorable(p) THEN unrestored ELSE unrestored \cup {p}
  /\ Move(p, "failed")
  /\ UNCHANGED <<job, kept, saved, changed, service, archive, overlapped>>

UpgradeStep(p) ==
  \/ Download(p) \/ Prepare(p)
  \/ Link(p, "agent", "link agent", "link helper") \/ Link(p, "helper", "link helper", "agent")
  \/ Activate(p, "agent", "helper") \/ Activate(p, "helper", "schedule")
  \/ Schedule(p) \/ RollBack(p)

FilesNext ==
  \/ \E p \in Helpers : \/ \E j \in Jobs : Begin(p, j)
                        \/ Die(p) \/ XrayStep(p) \/ XuiStep(p) \/ UpgradeStep(p)
  \/ XuiWrites

FilesSpec == FilesInit /\ [][FilesNext]_disks

-----------------------------------------------------------------------------
\* The configuration that xray starts with next is the one that was there or one
\* that passed its test whole, at every step of a restore and of its rollback and
\* wherever the machine goes down, unless two restores shared their directory; and
\* an upgrade leaves no moment without an agent or a helper to start.
LiveIsTested ==
  /\ "xray" \in overlapped \/ file["config"] \in {None, Old} \/ Sound(file["config"])
  /\ \A t \in {"agent", "helper"} : file[t] # None

Ends(p, how) == pc[p] # how /\ pc'[p] = how /\ job[p] \notin overlapped

\* A job that fails leaves its live files as it found them, unless a step of its
\* rollback failed too.  The exceptions are the code's: a database is put back as it
\* could be copied from a running x-ui, or left as x-ui has written it since, and a
\* configuration that was not there before is not removed.
FailureRestores ==
  [][\A p \in Helpers :
       Ends(p, "failed") /\ p \notin unrestored'
         => \A f \in Live(job[p]) : \/ file'[f] = saved[p][f]
                                    \/ f = "db" /\ file'[f] \in {Late, Torn(p)}
                                    \/ f = "config" /\ saved[p][f] = None]_disks

\* A job that succeeds leaves what it was to install and nothing else: both files of
\* the archive and no node.env it has not, the database, both binaries of the
\* release, whatever an earlier job or crash left behind.
SuccessInstalls ==
  [][\A p \in Helpers :
       Ends(p, "done")
         => CASE job[p] = "xray" -> /\ file'["config"] = Given(p)
                                    /\ file'["env"] = IF archive[p].env THEN Given(p) ELSE None
              [] job[p] = "xui" -> file'["db"] = Given(p)
              [] job[p] = "upgrade" -> file'["agent"] = New /\ file'["helper"] = New]_disks
=============================================================================
