------------------------- MODULE HelperFilesProofs -------------------------
(***************************************************************************)
(* For any number of helpers and jobs, in any order and killed at any      *)
(* step: the live xray configuration is tested, a job that succeeds has    *)
(* installed what it was to, one that fails has put back what it found.    *)
(*                                                                         *)
(* The inductive invariant says of each job, label by label, what is in    *)
(* its files and backups (XrayInv, XuiInv, UpgradeInv), for as long as no  *)
(* two helpers share the job (Alone).                                      *)
(***************************************************************************)
EXTENDS HelperFiles, TLAPS

XrayLabels    == {"clear", "extract", "fill", "stage", "test", "keep", "config", "env", "restart",
                  "undo", "undo env", "won", "lost"}
XuiLabels     == {"keep db", "stop", "stage db", "swap", "start", "undo db", "start again"}
UpgradeLabels == {"download", "prepare", "link agent", "link helper", "agent", "helper", "schedule", "roll back"}

\* A label belongs to a job, and a helper that has not begun has no archive.
JobInv ==
  /\ saved = [p \in Helpers |-> saved[p]]
  /\ \A p \in Helpers : /\ pc[p] = "idle" => job[p] = "none" /\ ~archive[p].sound
                        /\ pc[p] \in XrayLabels => job[p] = "xray"
                        /\ pc[p] \in XuiLabels => job[p] = "xui"
                        /\ pc[p] \in UpgradeLabels => job[p] = "upgrade"

Alone == \A p, q \in Running : job[p] = job[q] /\ job[p] \notin overlapped => p = q

\* A configuration that may be live.
Good(content) == content \in {None, Old} \/ Sound(content)

LiveInv == "xray" \notin overlapped => Good(file["config"]) /\ \A p \in Helpers : Good(kept[p]["config"])

EnvOf(p) == IF archive[p].env THEN Given(p) ELSE None

Restored(p, f) == \/ file[f] = saved[p][f]
                  \/ p \in unrestored
                  \/ f = "config" /\ saved[p][f] = None

XrayInv(p) ==
  /\ pc[p] = "fill" => file["staged config"] = Torn(p)
  /\ pc[p] \in {"stage", "test", "keep", "config", "env"} =>
       file["staged config"] = Given(p) /\ file["staged env"] = EnvOf(p)
  /\ pc[p] = "test" => file["test config"] = Given(p)
  /\ pc[p] \in {"keep", "config"} => Sound(Given(p))
  /\ pc[p] \in {"clear", "extract", "fill", "stage", "test", "keep", "config"} =>
       file["config"] = saved[p]["config"]
  /\ pc[p] \in {"clear", "extract", "fill", "stage", "test", "keep", "config", "env"} =>
       file["env"] = saved[p]["env"]
  /\ pc[p] \in {"config", "env", "restart", "undo"} => kept[p]["config"] = saved[p]["config"]
  /\ pc[p] \in {"config", "env", "restart", "undo", "undo env"} => kept[p]["env"] = saved[p]["env"]
  /\ pc[p] \in {"env", "restart", "won"} => file["config"] = Given(p)
  /\ pc[p] \in {"restart", "won"} => file["env"] = EnvOf(p)
  /\ pc[p] \in {"undo env", "lost"} => Restored(p, "config")
  /\ pc[p] = "lost" => Restored(p, "env")

Copied(p) == {saved[p]["db"], Late, Torn(p)}

XuiInv(p) ==
  /\ pc[p] \in {"keep db", "stop", "stage db", "swap"} => file["db"] \in {saved[p]["db"], Late}
  /\ pc[p] \in {"stop", "stage db", "swap", "start", "undo db"} => kept[p]["db"] \in Copied(p)
  /\ pc[p] = "swap" => file["db.part"] = Given(p)
  /\ pc[p] = "start" => file["db"] = Given(p)
  /\ pc[p] = "start again" => file["db"] \in Copied(p) \/ p \in unrestored

Binaries == {"agent", "helper"}

Linked(p, t) == t \in changed[p] => file[Previous(t)] = saved[p][t]

UpgradeInv(p) ==
  /\ pc[p] \in UpgradeLabels => \A t \in Binaries : saved[p][t] # None
  /\ pc[p] \in {"download", "prepare", "link agent", "link helper", "agent"} =>
       \A t \in Binaries : file[t] = saved[p][t]
  /\ pc[p] \in {"link agent", "link helper", "agent", "helper", "schedule", "roll back"} =>
       \A t \in Binaries : t \notin changed[p] => file[t] = saved[p][t] /\ file[t] = New
  /\ pc[p] \in {"link helper", "agent", "helper", "schedule", "roll back"} => Linked(p, "agent")
  /\ pc[p] \in {"agent", "helper", "schedule", "roll back"} => Linked(p, "helper")
  /\ pc[p] \in {"helper", "schedule"} => file["agent"] = New
  /\ pc[p] = "schedule" => file["helper"] = New

JobsInv ==
  \A p \in Helpers : /\ "xray" \notin overlapped => XrayInv(p)
                     /\ "xui" \notin overlapped => XuiInv(p)
                     /\ "upgrade" \notin overlapped => UpgradeInv(p)

BinariesThere == \A t \in Binaries : file[t] # None

FilesInv == FilesTypeOK /\ JobInv /\ Alone /\ LiveInv /\ JobsInv /\ BinariesThere

-----------------------------------------------------------------------------
(***************************************************************************)
(* Contents, files, labels.                                                *)
(***************************************************************************)

LEMMA ContentsDiffer ==
  /\ None # Old /\ None # New /\ None # Late /\ Old # New /\ Old # Late /\ New # Late
  /\ \A p \in Helpers : Given(p) \notin {None, Old, New, Late} /\ Torn(p) \notin {None, Old, New, Late}
  /\ {None, Old, New, Late} \subseteq Contents
  /\ \A p \in Helpers : Given(p) \in Contents /\ Torn(p) \in Contents
<1>1. /\ None # Old /\ None # New /\ None # Late /\ Old # New /\ Old # Late /\ New # Late
      /\ \A p \in Helpers : Given(p) \notin {None, Old, New, Late} /\ Torn(p) \notin {None, Old, New, Late}
  BY DEF None, Old, New, Late, Given, Torn
<1>2. /\ {None, Old, New, Late} \subseteq Contents
      /\ \A p \in Helpers : Given(p) \in Contents /\ Torn(p) \in Contents
  BY DEF Contents
<1> QED BY <1>1, <1>2

\* One file changes, or some go.
LEMMA PutFile ==
  ASSUME file \in [Paths -> Contents], NEW f \in Paths, NEW c \in Contents
  PROVE  /\ Put(f, c) \in [Paths -> Contents] /\ Put(f, c)[f] = c
         /\ \A g \in Paths : g # f => Put(f, c)[g] = file[g]
BY DEF Put

LEMMA WithoutFiles ==
  ASSUME file \in [Paths -> Contents], NEW fs
  PROVE  /\ Without(fs) \in [Paths -> Contents]
         /\ \A g \in Paths : Without(fs)[g] = IF g \in fs THEN None ELSE file[g]
BY ContentsDiffer DEF Without

LEMMA CopiesFile ==
  ASSUME file \in [Paths -> Contents], NEW f \in Paths, NEW g \in Paths, NEW x \in Copies(f, g)
  PROVE  /\ x \in [Paths -> Contents] /\ x[g] = file[f]
         /\ \A h \in Paths : h # g => x[h] = file[h]
BY PutFile DEF Copies

-----------------------------------------------------------------------------
(***************************************************************************)
(* A step of one helper: what it leaves alone.                             *)
(***************************************************************************)

\* The files of each job; no two jobs share one.
XrayPaths    == {"config", "env"} \cup Staging
XuiPaths     == {"db", "db.part"}
UpgradePaths == {"agent", "helper", "agent.previous", "helper.previous"}

\* Helper p moves on and changes nothing but these files, its backups and the
\* binaries it is to replace.
Frame(p, paths) ==
  /\ \A q \in Helpers : q # p => pc'[q] = pc[q] /\ kept'[q] = kept[q] /\ changed'[q] = changed[q]
  /\ \A f \in Paths \ paths : file'[f] = file[f]
  /\ unrestored' \in {unrestored, unrestored \cup {p}}
  /\ UNCHANGED <<job, saved, archive, overlapped>>


\* What a helper relies on stays if its files, its backups and its label do.
Untouched(p, paths) ==
  /\ \A f \in paths : file'[f] = file[f]
  /\ pc'[p] = pc[p] /\ kept'[p] = kept[p] /\ changed'[p] = changed[p]
  /\ saved'[p] = saved[p] /\ unrestored \subseteq unrestored'

LEMMA XrayStays ==
  ASSUME NEW p \in Helpers, XrayInv(p), archive' = archive,
         Untouched(p, XrayPaths) \/ pc'[p] \notin XrayLabels
  PROVE  XrayInv(p)'
<1>1. CASE pc'[p] \notin XrayLabels
  BY <1>1 DEF XrayInv, XrayLabels
<1>2. CASE Untouched(p, XrayPaths)
  BY <1>2 DEF Untouched, XrayPaths, Staging, XrayInv, Restored, EnvOf, Sound
<1> QED BY <1>1, <1>2

LEMMA XuiStays ==
  ASSUME NEW p \in Helpers, XuiInv(p), Untouched(p, XuiPaths) \/ pc'[p] \notin XuiLabels
  PROVE  XuiInv(p)'
BY DEF Untouched, XuiPaths, XuiInv, Copied, XuiLabels

LEMMA UpgradeStays ==
  ASSUME NEW p \in Helpers, UpgradeInv(p), Untouched(p, UpgradePaths) \/ pc'[p] \notin UpgradeLabels
  PROVE  UpgradeInv(p)'
BY DEF Untouched, UpgradePaths, UpgradeInv, Binaries, Linked, Previous, UpgradeLabels

LEMMA LabelsKept ==
  ASSUME FilesInv, NEW p \in Helpers, NEW paths, Frame(p, paths), FilesTypeOK',
         pc[p] \notin Ended \cup {"idle"}, pc'[p] # "idle",
         pc'[p] \in XrayLabels => job[p] = "xray",
         pc'[p] \in XuiLabels => job[p] = "xui",
         pc'[p] \in UpgradeLabels => job[p] = "upgrade"
  PROVE  JobInv' /\ Alone'
<1>1. JobInv /\ Alone
  BY DEF FilesInv
<1>2. JobInv'
  BY <1>1 DEF JobInv, Frame
<1>3. Running' \subseteq Running
  BY DEF Running, Frame
<1>4. Alone'
  BY <1>1, <1>3 DEF Alone, Frame
<1> QED BY <1>2, <1>4

LEMMA XrayFrame ==
  ASSUME FilesInv, NEW p \in Helpers, pc[p] \in XrayLabels, pc'[p] \in XrayLabels \cup Ended,
         Frame(p, XrayPaths), FilesTypeOK', LiveInv', BinariesThere',
         "xray" \notin overlapped => XrayInv(p)'
  PROVE  FilesInv'
<1>1. JobInv /\ Alone /\ JobsInv /\ job[p] = "xray"
  BY DEF FilesInv, JobInv
<1>2. /\ pc[p] \notin Ended \cup {"idle"}
      /\ pc'[p] \notin {"idle"} \cup XuiLabels \cup UpgradeLabels
  BY DEF XrayLabels, XuiLabels, UpgradeLabels, Ended
<1>3. JobInv' /\ Alone'
  BY <1>1, <1>2, LabelsKept
<1>4. ASSUME NEW q \in Helpers, "xray" \notin overlapped
      PROVE  XrayInv(q)'
  <2>1. CASE q # p
    <3>1. ASSUME pc[q] \in XrayLabels PROVE FALSE
      <4>1. pc[q] \notin Ended \cup {"idle"}
        BY <3>1 DEF XrayLabels, Ended
      <4>2. p \in Running /\ q \in Running
        BY <1>2, <4>1 DEF Running
      <4>3. job[q] = "xray"
        BY <1>1, <3>1 DEF JobInv
      <4> QED BY <1>1, <1>4, <2>1, <4>2, <4>3 DEF Alone
    <3>2. pc'[q] \notin XrayLabels
      BY <2>1, <3>1 DEF Frame
    <3>3. XrayInv(q)
      BY <1>1, <1>4 DEF JobsInv
    <3> QED BY <3>2, <3>3, XrayStays DEF Frame
  <2> QED BY <1>4, <2>1
<1>5. ASSUME NEW q \in Helpers, "xui" \notin overlapped
      PROVE  XuiInv(q)'
  <2>1. XuiInv(q)
    BY <1>1, <1>5 DEF JobsInv
  <2>2. CASE q = p
    <3>1. pc'[q] \notin XuiLabels
      BY <2>2, <1>2
    <3> QED BY <2>1, <3>1, XuiStays DEF Frame
  <2>3. CASE q # p
    <3>1. Untouched(q, XuiPaths)
      <4>1. \A f \in XuiPaths : f \in Paths \ XrayPaths
        BY DEF XrayPaths, XuiPaths, Paths, Staging
      <4> QED BY <2>3, <4>1 DEF Untouched, Frame
    <3> QED BY <2>1, <3>1, XuiStays DEF Frame
  <2> QED BY <2>2, <2>3
<1>6. ASSUME NEW q \in Helpers, "upgrade" \notin overlapped
      PROVE  UpgradeInv(q)'
  <2>1. UpgradeInv(q)
    BY <1>1, <1>6 DEF JobsInv
  <2>2. CASE q = p
    <3>1. pc'[q] \notin UpgradeLabels
      BY <2>2, <1>2
    <3> QED BY <2>1, <3>1, UpgradeStays DEF Frame
  <2>3. CASE q # p
    <3>1. Untouched(q, UpgradePaths)
      <4>1. \A f \in UpgradePaths : f \in Paths \ XrayPaths
        BY DEF XrayPaths, UpgradePaths, Paths, Staging
      <4> QED BY <2>3, <4>1 DEF Untouched, Frame
    <3> QED BY <2>1, <3>1, UpgradeStays DEF Frame
  <2> QED BY <2>2, <2>3
<1>7. JobsInv'
  BY <1>4, <1>5, <1>6 DEF JobsInv, Frame
<1> QED BY <1>3, <1>7 DEF FilesInv

LEMMA XuiFrame ==
  ASSUME FilesInv, NEW p \in Helpers, pc[p] \in XuiLabels, pc'[p] \in XuiLabels \cup Ended,
         Frame(p, XuiPaths), FilesTypeOK', LiveInv', BinariesThere',
         "xui" \notin overlapped => XuiInv(p)'
  PROVE  FilesInv'
<1>1. JobInv /\ Alone /\ JobsInv /\ job[p] = "xui"
  BY DEF FilesInv, JobInv
<1>2. /\ pc[p] \notin Ended \cup {"idle"}
      /\ pc'[p] \notin {"idle"} \cup XrayLabels \cup UpgradeLabels
  BY DEF XrayLabels, XuiLabels, UpgradeLabels, Ended
<1>3. JobInv' /\ Alone'
  BY <1>1, <1>2, LabelsKept
<1>4. ASSUME NEW q \in Helpers, "xui" \notin overlapped
      PROVE  XuiInv(q)'
  <2>1. CASE q # p
    <3>1. ASSUME pc[q] \in XuiLabels PROVE FALSE
      <4>1. pc[q] \notin Ended \cup {"idle"}
        BY <3>1 DEF XuiLabels, Ended
      <4>2. p \in Running /\ q \in Running
        BY <1>2, <4>1 DEF Running
      <4>3. job[q] = "xui"
        BY <1>1, <3>1 DEF JobInv
      <4> QED BY <1>1, <1>4, <2>1, <4>2, <4>3 DEF Alone
    <3>2. pc'[q] \notin XuiLabels
      BY <2>1, <3>1 DEF Frame
    <3>3. XuiInv(q)
      BY <1>1, <1>4 DEF JobsInv
    <3> QED BY <3>2, <3>3, XuiStays DEF Frame
  <2> QED BY <1>4, <2>1
<1>5. ASSUME NEW q \in Helpers, "xray" \notin overlapped
      PROVE  XrayInv(q)'
  <2>1. XrayInv(q)
    BY <1>1, <1>5 DEF JobsInv
  <2>2. CASE q = p
    <3>1. pc'[q] \notin XrayLabels
      BY <2>2, <1>2
    <3> QED BY <2>1, <3>1, XrayStays DEF Frame
  <2>3. CASE q # p
    <3>1. Untouched(q, XrayPaths)
      <4>1. \A f \in XrayPaths : f \in Paths \ XuiPaths
        BY DEF XuiPaths, XrayPaths, Paths, Staging
      <4> QED BY <2>3, <4>1 DEF Untouched, Frame
    <3> QED BY <2>1, <3>1, XrayStays DEF Frame
  <2> QED BY <2>2, <2>3
<1>6. ASSUME NEW q \in Helpers, "upgrade" \notin overlapped
      PROVE  UpgradeInv(q)'
  <2>1. UpgradeInv(q)
    BY <1>1, <1>6 DEF JobsInv
  <2>2. CASE q = p
    <3>1. pc'[q] \notin UpgradeLabels
      BY <2>2, <1>2
    <3> QED BY <2>1, <3>1, UpgradeStays DEF Frame
  <2>3. CASE q # p
    <3>1. Untouched(q, UpgradePaths)
      <4>1. \A f \in UpgradePaths : f \in Paths \ XuiPaths
        BY DEF XuiPaths, UpgradePaths, Paths, Staging
      <4> QED BY <2>3, <4>1 DEF Untouched, Frame
    <3> QED BY <2>1, <3>1, UpgradeStays DEF Frame
  <2> QED BY <2>2, <2>3
<1>7. JobsInv'
  BY <1>4, <1>5, <1>6 DEF JobsInv, Frame
<1> QED BY <1>3, <1>7 DEF FilesInv

LEMMA UpgradeFrame ==
  ASSUME FilesInv, NEW p \in Helpers, pc[p] \in UpgradeLabels, pc'[p] \in UpgradeLabels \cup Ended,
         Frame(p, UpgradePaths), FilesTypeOK', LiveInv', BinariesThere',
         "upgrade" \notin overlapped => UpgradeInv(p)'
  PROVE  FilesInv'
<1>1. JobInv /\ Alone /\ JobsInv /\ job[p] = "upgrade"
  BY DEF FilesInv, JobInv
<1>2. /\ pc[p] \notin Ended \cup {"idle"}
      /\ pc'[p] \notin {"idle"} \cup XrayLabels \cup XuiLabels
  BY DEF XrayLabels, XuiLabels, UpgradeLabels, Ended
<1>3. JobInv' /\ Alone'
  BY <1>1, <1>2, LabelsKept
<1>4. ASSUME NEW q \in Helpers, "upgrade" \notin overlapped
      PROVE  UpgradeInv(q)'
  <2>1. CASE q # p
    <3>1. ASSUME pc[q] \in UpgradeLabels PROVE FALSE
      <4>1. pc[q] \notin Ended \cup {"idle"}
        BY <3>1 DEF UpgradeLabels, Ended
      <4>2. p \in Running /\ q \in Running
        BY <1>2, <4>1 DEF Running
      <4>3. job[q] = "upgrade"
        BY <1>1, <3>1 DEF JobInv
      <4> QED BY <1>1, <1>4, <2>1, <4>2, <4>3 DEF Alone
    <3>2. pc'[q] \notin UpgradeLabels
      BY <2>1, <3>1 DEF Frame
    <3>3. UpgradeInv(q)
      BY <1>1, <1>4 DEF JobsInv
    <3> QED BY <3>2, <3>3, UpgradeStays DEF Frame
  <2> QED BY <1>4, <2>1
<1>5. ASSUME NEW q \in Helpers, "xray" \notin overlapped
      PROVE  XrayInv(q)'
  <2>1. XrayInv(q)
    BY <1>1, <1>5 DEF JobsInv
  <2>2. CASE q = p
    <3>1. pc'[q] \notin XrayLabels
      BY <2>2, <1>2
    <3> QED BY <2>1, <3>1, XrayStays DEF Frame
  <2>3. CASE q # p
    <3>1. Untouched(q, XrayPaths)
      <4>1. \A f \in XrayPaths : f \in Paths \ UpgradePaths
        BY DEF UpgradePaths, XrayPaths, Paths, Staging
      <4> QED BY <2>3, <4>1 DEF Untouched, Frame
    <3> QED BY <2>1, <3>1, XrayStays DEF Frame
  <2> QED BY <2>2, <2>3
<1>6. ASSUME NEW q \in Helpers, "xui" \notin overlapped
      PROVE  XuiInv(q)'
  <2>1. XuiInv(q)
    BY <1>1, <1>6 DEF JobsInv
  <2>2. CASE q = p
    <3>1. pc'[q] \notin XuiLabels
      BY <2>2, <1>2
    <3> QED BY <2>1, <3>1, XuiStays DEF Frame
  <2>3. CASE q # p
    <3>1. Untouched(q, XuiPaths)
      <4>1. \A f \in XuiPaths : f \in Paths \ UpgradePaths
        BY DEF UpgradePaths, XuiPaths, Paths, Staging
      <4> QED BY <2>3, <4>1 DEF Untouched, Frame
    <3> QED BY <2>1, <3>1, XuiStays DEF Frame
  <2> QED BY <2>2, <2>3
<1>7. JobsInv'
  BY <1>4, <1>5, <1>6 DEF JobsInv, Frame
<1> QED BY <1>3, <1>7 DEF FilesInv

-----------------------------------------------------------------------------
(***************************************************************************)
(* The restore of an xray configuration.                                   *)
(***************************************************************************)

LEMMA Moves ==
  ASSUME FilesTypeOK, NEW p \in Helpers, NEW label \in Labels \cup Ended, Move(p, label)
  PROVE  /\ pc' \in [Helpers -> Labels \cup Ended] /\ pc'[p] = label
         /\ \A q \in Helpers : q # p => pc'[q] = pc[q]
BY DEF FilesTypeOK, Move

\* A step that moves on and changes the files of xray and the backups of its helper.
LEMMA XrayMoves ==
  ASSUME FilesInv, NEW p \in Helpers, pc[p] \in XrayLabels,
         UNCHANGED <<job, saved, changed, service, archive, overlapped>>,
         NEW next \in XrayLabels \cup {"done", "failed"}, Move(p, next),
         kept' \in [Helpers -> [Kept -> Contents]], \A q \in Helpers : q # p => kept'[q] = kept[q],
         unrestored' \in {unrestored, unrestored \cup {p}},
         file' \in [Paths -> Contents], \A f \in Paths : f \notin XrayPaths => file'[f] = file[f],
         "xray" \notin overlapped => Good(file'["config"]) /\ Good(kept'[p]["config"]) /\ XrayInv(p)'
  PROVE  FilesInv'
<1>1. FilesTypeOK /\ LiveInv /\ BinariesThere /\ next \in Labels \cup Ended
  BY DEF FilesInv, XrayLabels, Labels, Ended
<1>2. pc' \in [Helpers -> Labels \cup Ended] /\ pc'[p] = next /\ \A q \in Helpers : q # p => pc'[q] = pc[q]
  BY <1>1, Moves
<1>3. FilesTypeOK'
  BY <1>1, <1>2 DEF FilesTypeOK
<1>4. Frame(p, XrayPaths)
  BY <1>2 DEF Frame
<1>5. LiveInv'
  BY <1>1 DEF LiveInv, Good, Sound
<1>6. BinariesThere'
  BY <1>1 DEF BinariesThere, Binaries, Paths, XrayPaths, Staging
<1>7. pc'[p] \in XrayLabels \cup Ended
  BY <1>2 DEF Ended
<1> QED BY <1>3, <1>4, <1>5, <1>6, <1>7, XrayFrame

\* One that changes files only.
LEMMA XrayFiles ==
  ASSUME FilesInv, NEW p \in Helpers, pc[p] \in XrayLabels, UNCHANGED work,
         NEW next \in XrayLabels \cup {"done", "failed"}, Move(p, next), file' \in [Paths -> Contents],
         \A f \in Paths : f \notin XrayPaths => file'[f] = file[f],
         "xray" \notin overlapped => Good(file'["config"]) /\ XrayInv(p)'
  PROVE  FilesInv'
<1>1. UNCHANGED <<job, kept, saved, changed, service, archive, overlapped, unrestored>>
  BY DEF work
<1>2. /\ kept' \in [Helpers -> [Kept -> Contents]]
      /\ "xray" \notin overlapped => Good(kept'[p]["config"])
  BY <1>1 DEF FilesInv, FilesTypeOK, LiveInv
<1> QED BY <1>1, <1>2, XrayMoves

\* What holds before a step of xray.
LEMMA XrayBefore ==
  ASSUME FilesInv, NEW p \in Helpers
  PROVE  /\ file \in [Paths -> Contents] /\ kept \in [Helpers -> [Kept -> Contents]]
         /\ "xray" \notin overlapped => Good(file["config"]) /\ XrayInv(p)
BY DEF FilesInv, FilesTypeOK, LiveInv, JobsInv

LEMMA ClearInv == ASSUME FilesInv, NEW p \in Helpers, Clear(p) PROVE FilesInv'
<1>1. file' = Without(Staging) /\ Move(p, "extract") /\ UNCHANGED work /\ pc[p] = "clear"
  BY DEF Clear, At
<1>2. /\ file' \in [Paths -> Contents]
      /\ \A f \in Paths : f \notin XrayPaths => file'[f] = file[f]
      /\ file'["config"] = file["config"] /\ file'["env"] = file["env"]
  <2>1. "config" \in Paths \ Staging /\ "env" \in Paths \ Staging /\ Staging \subseteq XrayPaths
    BY DEF Paths, Staging, XrayPaths
  <2>2. file' \in [Paths -> Contents] /\ \A f \in Paths : f \notin Staging => file'[f] = file[f]
    BY <1>1, XrayBefore, WithoutFiles
  <2> QED BY <2>1, <2>2
<1>3. pc'[p] = "extract"
  BY <1>1, Moves DEF FilesInv, Labels
<1>4. ASSUME "xray" \notin overlapped PROVE Good(file'["config"]) /\ XrayInv(p)'
  BY <1>1, <1>2, <1>3, <1>4, XrayBefore DEF XrayInv, work
<1> QED BY <1>1, <1>2, <1>4, XrayFiles DEF XrayLabels

\* A step that fails before a live file is touched.
LEMMA GivesUp ==
  ASSUME FilesInv, NEW p \in Helpers, pc[p] \in {"extract", "fill", "stage", "test", "keep"},
         UNCHANGED work, UNCHANGED file, Move(p, "lost")
  PROVE  FilesInv'
<1>1. pc'[p] = "lost"
  BY Moves DEF FilesInv, Labels
<1>2. ASSUME "xray" \notin overlapped PROVE Good(file'["config"]) /\ XrayInv(p)'
  BY <1>1, <1>2, XrayBefore DEF XrayInv, Restored, work
<1> QED BY <1>2, XrayBefore, XrayFiles DEF XrayLabels

LEMMA ExtractInv == ASSUME FilesInv, NEW p \in Helpers, Extract(p) PROVE FilesInv'
<1>1. /\ UNCHANGED work /\ pc[p] = "extract" /\ file \in [Paths -> Contents]
      /\ \/ file' = Put("staged config", Torn(p)) /\ Move(p, "fill")
         \/ UNCHANGED file /\ Move(p, "lost")
  BY XrayBefore DEF Extract, At
<1>2. CASE file' = Put("staged config", Torn(p)) /\ Move(p, "fill")
  <2>1. /\ file' \in [Paths -> Contents] /\ file'["staged config"] = Torn(p)
        /\ \A f \in Paths : f # "staged config" => file'[f] = file[f]
    <3>1. "staged config" \in Paths
      BY DEF Paths, Staging
    <3>2. Torn(p) \in Contents
      BY ContentsDiffer
    <3> QED BY <1>1, <1>2, <3>1, <3>2, PutFile
  <2>2. pc'[p] = "fill"
    BY <1>2, Moves DEF FilesInv, Labels
  <2>3. ASSUME "xray" \notin overlapped PROVE Good(file'["config"]) /\ XrayInv(p)'
    BY <1>1, <2>1, <2>2, <2>3, XrayBefore DEF XrayInv, work, Paths
  <2> QED BY <1>1, <1>2, <2>1, <2>3, XrayFiles DEF XrayLabels, XrayPaths, Staging
<1>3. CASE UNCHANGED file /\ Move(p, "lost")
  BY <1>1, <1>3, GivesUp
<1> QED BY <1>1, <1>2, <1>3

LEMMA FillInv == ASSUME FilesInv, NEW p \in Helpers, Fill(p) PROVE FilesInv'
<1>1. /\ UNCHANGED work /\ pc[p] = "fill" /\ file \in [Paths -> Contents]
      /\ \/ file' = (IF file["staged config"] = Torn(p) THEN Unpacked(p) ELSE file) /\ Move(p, "stage")
         \/ UNCHANGED file /\ Move(p, "lost")
  BY XrayBefore DEF Fill, At
<1>2. CASE file' = (IF file["staged config"] = Torn(p) THEN Unpacked(p) ELSE file) /\ Move(p, "stage")
  <2>1. /\ Unpacked(p) \in [Paths -> Contents]
        /\ Unpacked(p)["staged config"] = Given(p) /\ Unpacked(p)["staged env"] = EnvOf(p)
        /\ \A f \in Paths : f \notin {"staged config", "staged env"} => Unpacked(p)[f] = file[f]
    BY <1>1, ContentsDiffer DEF Unpacked, EnvOf, Paths, Staging
  <2>2. pc'[p] = "stage"
    BY <1>2, Moves DEF FilesInv, Labels
  <2>3. ASSUME "xray" \notin overlapped PROVE Good(file'["config"]) /\ XrayInv(p)'
    <3>1. file' = Unpacked(p)
      BY <1>1, <1>2, <2>3, XrayBefore DEF XrayInv
    <3> QED BY <1>1, <2>1, <2>2, <2>3, <3>1, XrayBefore DEF XrayInv, EnvOf, work, Paths
  <2>4. /\ file' \in [Paths -> Contents]
        /\ \A f \in Paths : f \notin XrayPaths => file'[f] = file[f]
    BY <1>1, <1>2, <2>1 DEF XrayPaths, Staging
  <2> QED BY <1>1, <1>2, <2>3, <2>4, XrayFiles DEF XrayLabels
<1>3. CASE UNCHANGED file /\ Move(p, "lost")
  BY <1>1, <1>3, GivesUp
<1> QED BY <1>1, <1>2, <1>3

LEMMA StageInv == ASSUME FilesInv, NEW p \in Helpers, Stage(p) PROVE FilesInv'
<1>1. /\ UNCHANGED work /\ pc[p] = "stage" /\ file \in [Paths -> Contents]
      /\ CopyFile(p, "staged config", "test config", "test", "lost")
      /\ "staged config" \in Paths /\ "test config" \in Paths
  BY XrayBefore DEF Stage, At, Paths, Staging
<1>2. CASE UNCHANGED file /\ Move(p, "lost")
  BY <1>1, <1>2, GivesUp
<1>3. ASSUME file' \in Copies("staged config", "test config"), NEW next \in {"test", "lost"}, Move(p, next)
      PROVE  FilesInv'
  <2>1. /\ file' \in [Paths -> Contents] /\ file'["test config"] = file["staged config"]
        /\ \A f \in Paths : f # "test config" => file'[f] = file[f]
    BY <1>1, <1>3, CopiesFile
  <2>2. pc'[p] = next
    BY <1>3, Moves DEF FilesInv, Labels
  <2>3. ASSUME "xray" \notin overlapped PROVE Good(file'["config"]) /\ XrayInv(p)'
    BY <1>1, <1>3, <2>1, <2>2, <2>3, XrayBefore DEF XrayInv, Restored, EnvOf, work, Paths, Staging
  <2> QED BY <1>1, <1>3, <2>1, <2>3, XrayFiles DEF XrayLabels, XrayPaths, Staging
<1> QED BY <1>1, <1>2, <1>3 DEF CopyFile

LEMMA TestInv == ASSUME FilesInv, NEW p \in Helpers, Test(p) PROVE FilesInv'
<1>1. /\ UNCHANGED work /\ UNCHANGED file /\ pc[p] = "test" /\ file \in [Paths -> Contents]
      /\ \/ Sound(file["test config"]) /\ Move(p, "keep")
         \/ Move(p, "lost")
  BY XrayBefore DEF Test, At
<1>2. CASE Sound(file["test config"]) /\ Move(p, "keep")
  <2>1. pc'[p] = "keep"
    BY <1>2, Moves DEF FilesInv, Labels
  <2>2. ASSUME "xray" \notin overlapped PROVE Good(file'["config"]) /\ XrayInv(p)'
    BY <1>1, <1>2, <2>1, <2>2, XrayBefore DEF XrayInv, EnvOf, Sound, work
  <2> QED BY <1>1, <1>2, <2>2, XrayFiles DEF XrayLabels
<1> QED BY <1>1, <1>2, GivesUp

\* The backups of one helper.
LEMMA KeepsFiles ==
  ASSUME FilesTypeOK, NEW p \in Helpers, NEW fs
  PROVE  /\ Keeping(p, fs) \in [Helpers -> [Kept -> Contents]]
         /\ \A f \in Kept : Keeping(p, fs)[p][f] = IF f \in fs THEN file[f] ELSE kept[p][f]
         /\ \A q \in Helpers : q # p => Keeping(p, fs)[q] = kept[q]
<1>1. kept \in [Helpers -> [Kept -> Contents]] /\ \A f \in Kept : file[f] \in Contents
  BY DEF FilesTypeOK, Kept, Paths
<1>2. [f \in Kept |-> IF f \in fs THEN file[f] ELSE kept[p][f]] \in [Kept -> Contents]
  BY <1>1
<1>3. Keeping(p, fs) = [kept EXCEPT ![p] = [f \in Kept |-> IF f \in fs THEN file[f] ELSE kept[p][f]]]
  BY <1>1 DEF Keeping
<1> QED BY <1>1, <1>2, <1>3

LEMMA KeepInv == ASSUME FilesInv, NEW p \in Helpers, Keep(p) PROVE FilesInv'
<1>1. /\ UNCHANGED file /\ pc[p] = "keep" /\ file \in [Paths -> Contents]
      /\ UNCHANGED <<job, saved, changed, service, archive, overlapped, unrestored>>
      /\ \/ kept' = Keeping(p, {"config", "env"}) /\ Move(p, "config")
         \/ UNCHANGED kept /\ Move(p, "lost")
  BY XrayBefore DEF Keep, At
<1>2. CASE kept' = Keeping(p, {"config", "env"}) /\ Move(p, "config")
  <2>1. /\ kept' \in [Helpers -> [Kept -> Contents]]
        /\ kept'[p]["config"] = file["config"] /\ kept'[p]["env"] = file["env"]
        /\ \A q \in Helpers : q # p => kept'[q] = kept[q]
    BY <1>2, KeepsFiles DEF Kept, FilesInv
  <2>2. pc'[p] = "config"
    BY <1>2, Moves DEF FilesInv, Labels
  <2>3. ASSUME "xray" \notin overlapped
        PROVE  Good(file'["config"]) /\ Good(kept'[p]["config"]) /\ XrayInv(p)'
    BY <1>1, <2>1, <2>2, <2>3, XrayBefore DEF XrayInv, EnvOf, Sound
  <2> QED BY <1>1, <1>2, <2>1, <2>3, XrayMoves DEF XrayLabels
<1>3. CASE UNCHANGED kept /\ Move(p, "lost")
  BY <1>1, <1>3, GivesUp DEF work
<1> QED BY <1>1, <1>2, <1>3

LEMMA ConfigInv == ASSUME FilesInv, NEW p \in Helpers, Config(p) PROVE FilesInv'
<1>1. /\ UNCHANGED work /\ pc[p] = "config" /\ file \in [Paths -> Contents]
      /\ CopyFile(p, "staged config", "config", "env", "undo")
      /\ "staged config" \in Paths /\ "config" \in Paths
  BY XrayBefore DEF Config, At, Paths, Staging
<1>2. ASSUME file' \in Copies("staged config", "config"), NEW next \in {"env", "undo"}, Move(p, next)
      PROVE  FilesInv'
  <2>1. /\ file' \in [Paths -> Contents] /\ file'["config"] = file["staged config"]
        /\ \A f \in Paths : f # "config" => file'[f] = file[f]
    BY <1>1, <1>2, CopiesFile
  <2> /\ file'["env"] = file["env"] /\ file'["staged env"] = file["staged env"]
      /\ file'["staged config"] = file["staged config"]
    BY <2>1 DEF Paths, Staging
  <2>2. pc'[p] = next
    BY <1>2, Moves DEF FilesInv, Labels
  <2>3. ASSUME "xray" \notin overlapped PROVE Good(file'["config"]) /\ XrayInv(p)'
    <3>1. Sound(Given(p)) /\ Sound(Given(p))' /\ file["staged config"] = Given(p)
      BY <1>1, <2>3, XrayBefore DEF XrayInv, Sound, work
    <3>2. Good(file'["config"])
      BY <2>1, <3>1 DEF Good
    <3> QED BY <1>1, <1>2, <2>1, <2>2, <2>3, <3>1, <3>2, XrayBefore DEF XrayInv, EnvOf, work
  <2> QED BY <1>1, <1>2, <2>1, <2>3, XrayFiles DEF XrayLabels, XrayPaths
<1>3. CASE UNCHANGED file /\ Move(p, "undo")
  <2>1. pc'[p] = "undo"
    BY <1>3, Moves DEF FilesInv, Labels
  <2>2. ASSUME "xray" \notin overlapped PROVE Good(file'["config"]) /\ XrayInv(p)'
    BY <1>1, <1>3, <2>1, <2>2, XrayBefore DEF XrayInv, work
  <2> QED BY <1>1, <1>3, <2>2, XrayFiles DEF XrayLabels
<1> QED BY <1>1, <1>2, <1>3 DEF CopyFile

LEMMA EnvInv == ASSUME FilesInv, NEW p \in Helpers, Env(p) PROVE FilesInv'
<1>0. file \in [Paths -> Contents] /\ "staged env" \in Paths /\ "env" \in Paths
  BY XrayBefore DEF Paths, Staging
<1>1. /\ UNCHANGED work /\ pc[p] = "env"
      /\ IF archive[p].env THEN CopyFile(p, "staged env", "env", "restart", "undo")
         ELSE file' = Without({"env"}) /\ Move(p, "restart")
  BY DEF Env, At
<1>2. ASSUME archive[p].env, NEW next \in {"restart", "undo"}, Move(p, next),
             file' \in Copies("staged env", "env")
      PROVE  FilesInv'
  <2>1. /\ file' \in [Paths -> Contents] /\ file'["env"] = file["staged env"]
        /\ \A f \in Paths : f # "env" => file'[f] = file[f]
    <3>1. file' \in Copies("staged env", "env")
      BY <1>2
    <3>2. file' = Put("env", file["staged env"]) /\ file["staged env"] \in Contents
      BY <1>0, <3>1 DEF Copies
    <3>3. file' \in [Paths -> Contents]
      BY <1>0, <3>2, PutFile
    <3>4. file'["env"] = file["staged env"]
      BY <1>0, <3>2, PutFile
    <3>5. \A f \in Paths : f # "env" => file'[f] = file[f]
      BY <1>0, <3>2, PutFile
    <3> QED BY <3>3, <3>4, <3>5
  <2>2. pc'[p] = next
    BY <1>2, Moves DEF FilesInv, Labels
  <2>3. ASSUME "xray" \notin overlapped PROVE Good(file'["config"]) /\ XrayInv(p)'
    BY <1>0, <1>1, <1>2, <2>1, <2>2, <2>3, XrayBefore DEF XrayInv, EnvOf, work, Paths, Staging
  <2> QED BY <1>0, <1>1, <1>2, <2>1, <2>3, XrayFiles DEF XrayLabels, XrayPaths
<1>3. CASE UNCHANGED file /\ Move(p, "undo")
  <2>1. pc'[p] = "undo"
    BY <1>3, Moves DEF FilesInv, Labels
  <2>2. ASSUME "xray" \notin overlapped PROVE Good(file'["config"]) /\ XrayInv(p)'
    BY <1>0, <1>1, <1>3, <2>1, <2>2, XrayBefore DEF XrayInv, work
  <2> QED BY <1>0, <1>1, <1>3, <2>2, XrayFiles DEF XrayLabels
<1>4. CASE ~archive[p].env
  <2>1. /\ file' \in [Paths -> Contents] /\ file'["env"] = None
        /\ \A f \in Paths : f # "env" => file'[f] = file[f]
    <3>1. file' = Without({"env"})
      BY <1>0, <1>1, <1>4
    <3> QED BY <1>0, <3>1, WithoutFiles
  <2>2. pc'[p] = "restart"
    BY <1>0, <1>1, <1>4, Moves DEF FilesInv, Labels
  <2>3. ASSUME "xray" \notin overlapped PROVE Good(file'["config"]) /\ XrayInv(p)'
    BY <1>0, <1>1, <1>4, <2>1, <2>2, <2>3, XrayBefore DEF XrayInv, EnvOf, work, Paths, Staging
  <2> QED BY <1>0, <1>1, <1>4, <2>1, <2>3, XrayFiles DEF XrayLabels, XrayPaths
<1> QED BY <1>0, <1>1, <1>2, <1>3, <1>4 DEF CopyFile

LEMMA RestartInv == ASSUME FilesInv, NEW p \in Helpers, Restart(p) PROVE FilesInv'
<1>1. UNCHANGED work /\ UNCHANGED file /\ pc[p] = "restart" /\ file \in [Paths -> Contents]
  BY XrayBefore DEF Restart, At
<1>2. PICK next \in {"won", "undo"} : Move(p, next)
  BY DEF Restart
<1>3. pc'[p] = next
  BY <1>2, Moves DEF FilesInv, Labels
<1>4. ASSUME "xray" \notin overlapped PROVE Good(file'["config"]) /\ XrayInv(p)'
  BY <1>1, <1>2, <1>3, <1>4, XrayBefore DEF XrayInv, EnvOf, work
<1> QED BY <1>1, <1>2, <1>4, XrayFiles DEF XrayLabels

\* A step of a rollback.
LEMMA PutsBack ==
  ASSUME FilesTypeOK, NEW p \in Helpers, NEW f \in Kept, PutBack(p, f)
  PROVE  /\ kept' \in [Helpers -> [Kept -> Contents]] /\ file' \in [Paths -> Contents]
         /\ kept'[p][f] = None /\ \A g \in Kept : g # f => kept'[p][g] = kept[p][g]
         /\ \A q \in Helpers : q # p => kept'[q] = kept[q]
         /\ unrestored' \in {unrestored, unrestored \cup {p}}
         /\ file'[f] = kept[p][f] \/ p \in unrestored'
         /\ \A g \in Paths : g # f => file'[g] = file[g]
         /\ file'[f] \in {file[f], kept[p][f]}
<1>1. /\ kept \in [Helpers -> [Kept -> Contents]] /\ file \in [Paths -> Contents] /\ f \in Paths
      /\ kept[p][f] \in Contents /\ None \in Contents
  BY ContentsDiffer DEF FilesTypeOK, Kept, Paths
<1>2. kept' = [kept EXCEPT ![p] = [kept[p] EXCEPT ![f] = None]]
  BY DEF PutBack
<1>3. [kept[p] EXCEPT ![f] = None] \in [Kept -> Contents]
  BY <1>1
<1>4. CASE file' = Put(f, kept[p][f]) /\ UNCHANGED unrestored
  BY <1>1, <1>2, <1>3, <1>4, PutFile
<1>5. CASE UNCHANGED file /\ unrestored' = unrestored \cup {p}
  BY <1>1, <1>2, <1>3, <1>5
<1> QED BY <1>4, <1>5 DEF PutBack

LEMMA UndoInv == ASSUME FilesInv, NEW p \in Helpers, Undo(p) PROVE FilesInv'
<1>1. /\ pc[p] = "undo" /\ Move(p, "undo env")
      /\ UNCHANGED <<job, saved, changed, service, archive, overlapped>>
      /\ IF kept[p]["config"] # None THEN PutBack(p, "config") ELSE UNCHANGED <<kept, file, unrestored>>
      /\ FilesTypeOK /\ "config" \in Kept /\ "env" \in Kept /\ "config" \in Paths /\ "env" \in Paths
  BY DEF Undo, At, FilesInv, Kept, Paths
<1>2. pc'[p] = "undo env"
  BY <1>1, Moves DEF Labels
<1>3. CASE kept[p]["config"] # None
  <2>1. /\ kept' \in [Helpers -> [Kept -> Contents]] /\ file' \in [Paths -> Contents]
        /\ kept'[p]["config"] = None /\ kept'[p]["env"] = kept[p]["env"]
        /\ \A q \in Helpers : q # p => kept'[q] = kept[q]
        /\ unrestored' \in {unrestored, unrestored \cup {p}}
        /\ file'["config"] = kept[p]["config"] \/ p \in unrestored'
        /\ \A g \in Paths : g # "config" => file'[g] = file[g]
        /\ file'["config"] \in {file["config"], kept[p]["config"]}
    BY <1>1, <1>3, PutsBack
  <2>2. ASSUME "xray" \notin overlapped
        PROVE  Good(file'["config"]) /\ Good(kept'[p]["config"]) /\ XrayInv(p)'
    BY <1>1, <1>2, <2>1, <2>2, XrayBefore DEF XrayInv, Restored, Good, FilesInv, LiveInv
  <2> QED BY <1>1, <2>1, <2>2, XrayMoves DEF XrayLabels, XrayPaths
<1>4. CASE kept[p]["config"] = None
  <2>1. UNCHANGED work /\ UNCHANGED file /\ file \in [Paths -> Contents]
    BY <1>1, <1>4 DEF work, FilesTypeOK
  <2>2. ASSUME "xray" \notin overlapped PROVE Good(file'["config"]) /\ XrayInv(p)'
    BY <1>1, <1>2, <1>4, <2>1, <2>2, XrayBefore DEF XrayInv, Restored, work
  <2> QED BY <1>1, <2>1, <2>2, XrayFiles DEF XrayLabels
<1> QED BY <1>3, <1>4

LEMMA UndoEnvInv == ASSUME FilesInv, NEW p \in Helpers, UndoEnv(p) PROVE FilesInv'
<1>1. /\ pc[p] = "undo env" /\ Move(p, "lost")
      /\ UNCHANGED <<job, saved, changed, service, archive, overlapped>>
      /\ IF kept[p]["env"] # None THEN PutBack(p, "env")
         ELSE file' = Without({"env"}) /\ UNCHANGED <<kept, unrestored>>
      /\ FilesTypeOK /\ "config" \in Kept /\ "env" \in Kept /\ "config" \in Paths /\ "env" \in Paths
  BY DEF UndoEnv, At, FilesInv, Kept, Paths
<1>2. pc'[p] = "lost"
  BY <1>1, Moves DEF Labels
<1>3. CASE kept[p]["env"] # None
  <2>1. /\ kept' \in [Helpers -> [Kept -> Contents]] /\ file' \in [Paths -> Contents]
        /\ kept'[p]["config"] = kept[p]["config"]
        /\ \A q \in Helpers : q # p => kept'[q] = kept[q]
        /\ unrestored' \in {unrestored, unrestored \cup {p}}
        /\ file'["env"] = kept[p]["env"] \/ p \in unrestored'
        /\ \A g \in Paths : g # "env" => file'[g] = file[g]
    BY <1>1, <1>3, PutsBack
  <2>2. ASSUME "xray" \notin overlapped
        PROVE  Good(file'["config"]) /\ Good(kept'[p]["config"]) /\ XrayInv(p)'
    BY <1>1, <1>2, <2>1, <2>2, XrayBefore DEF XrayInv, Restored, Good, FilesInv, LiveInv
  <2> QED BY <1>1, <2>1, <2>2, XrayMoves DEF XrayLabels, XrayPaths
<1>4. CASE kept[p]["env"] = None
  <2>1. UNCHANGED work /\ file' = Without({"env"}) /\ file \in [Paths -> Contents]
    BY <1>1, <1>4 DEF work, FilesTypeOK
  <2>2. /\ file' \in [Paths -> Contents] /\ file'["env"] = None
        /\ \A f \in Paths : f # "env" => file'[f] = file[f]
    BY <1>1, <2>1, WithoutFiles
  <2>3. ASSUME "xray" \notin overlapped PROVE Good(file'["config"]) /\ XrayInv(p)'
    BY <1>1, <1>2, <1>4, <2>1, <2>2, <2>3, XrayBefore DEF XrayInv, Restored, work
  <2> QED BY <1>1, <2>1, <2>2, <2>3, XrayFiles DEF XrayLabels, XrayPaths
<1> QED BY <1>3, <1>4

LEMMA ReturnInv == ASSUME FilesInv, NEW p \in Helpers, Return(p) PROVE FilesInv'
<1>1. /\ file' = Without(Staging) /\ file \in [Paths -> Contents] /\ kept \in [Helpers -> [Kept -> Contents]]
      /\ UNCHANGED <<job, saved, changed, service, archive, overlapped, unrestored>>
      /\ pc[p] \in {"won", "lost"}
  BY XrayBefore DEF Return, At
<1>2. PICK next \in {"done", "failed"} : Move(p, next)
  BY DEF Return
<1>3. pc'[p] = next
  BY <1>2, Moves DEF FilesInv, Ended
<1>4. /\ file' \in [Paths -> Contents] /\ file'["config"] = file["config"]
      /\ \A f \in Paths : f \notin XrayPaths => file'[f] = file[f]
  <2>1. "config" \in Paths \ Staging /\ Staging \subseteq XrayPaths
    BY DEF Paths, Staging, XrayPaths
  <2> QED BY <1>1, <2>1, WithoutFiles
<1>5. /\ kept' \in [Helpers -> [Kept -> Contents]] /\ kept'[p]["config"] \in {None, kept[p]["config"]}
      /\ \A q \in Helpers : q # p => kept'[q] = kept[q]
  <2>1. CASE kept' = [kept EXCEPT ![p] = [f \in Kept |-> None]]
    BY <1>1, <2>1, ContentsDiffer DEF Kept
  <2>2. CASE UNCHANGED kept
    BY <1>1, <2>2
  <2> QED BY <2>1, <2>2 DEF Return
<1>6. ASSUME "xray" \notin overlapped
      PROVE  Good(file'["config"]) /\ Good(kept'[p]["config"]) /\ XrayInv(p)'
  BY <1>1, <1>3, <1>4, <1>5, <1>6, XrayBefore DEF XrayInv, Good, FilesInv, LiveInv
<1> QED BY <1>1, <1>2, <1>4, <1>5, <1>6, XrayMoves DEF XrayLabels

LEMMA XrayStepInv == ASSUME FilesInv, NEW p \in Helpers, XrayStep(p) PROVE FilesInv'
BY ClearInv, ExtractInv, FillInv, StageInv, TestInv, KeepInv, ConfigInv, EnvInv, RestartInv, UndoInv,
   UndoEnvInv, ReturnInv DEF XrayStep

-----------------------------------------------------------------------------
(***************************************************************************)
(* The restore of an x-ui database.                                        *)
(***************************************************************************)

\* A step that moves on and changes the files of x-ui, its service and the backup.
LEMMA XuiMoves ==
  ASSUME FilesInv, NEW p \in Helpers, pc[p] \in XuiLabels, service' \in {"up", "down"},
         UNCHANGED <<job, saved, changed, archive, overlapped>>,
         NEW next \in XuiLabels \cup {"done", "failed"}, Move(p, next),
         kept' \in [Helpers -> [Kept -> Contents]], \A q \in Helpers : q # p => kept'[q] = kept[q],
         kept'[p]["config"] = kept[p]["config"],
         unrestored' \in {unrestored, unrestored \cup {p}},
         file' \in [Paths -> Contents], \A f \in Paths : f \notin XuiPaths => file'[f] = file[f],
         "xui" \notin overlapped => XuiInv(p)'
  PROVE  FilesInv'
<1>1. FilesTypeOK /\ LiveInv /\ BinariesThere /\ next \in Labels \cup Ended
  BY DEF FilesInv, XuiLabels, Labels, Ended
<1>2. pc' \in [Helpers -> Labels \cup Ended] /\ pc'[p] = next /\ \A q \in Helpers : q # p => pc'[q] = pc[q]
  BY <1>1, Moves
<1>3. FilesTypeOK'
  BY <1>1, <1>2 DEF FilesTypeOK
<1>4. Frame(p, XuiPaths)
  BY <1>2 DEF Frame
<1>5. LiveInv'
  BY <1>1 DEF LiveInv, Good, Sound, Paths, XuiPaths
<1>6. BinariesThere'
  BY <1>1 DEF BinariesThere, Binaries, Paths, XuiPaths
<1>7. pc'[p] \in XuiLabels \cup Ended
  BY <1>2 DEF Ended
<1> QED BY <1>3, <1>4, <1>5, <1>6, <1>7, XuiFrame

\* One that changes files only.
LEMMA XuiFiles ==
  ASSUME FilesInv, NEW p \in Helpers, pc[p] \in XuiLabels, UNCHANGED work,
         NEW next \in XuiLabels \cup {"done", "failed"}, Move(p, next), file' \in [Paths -> Contents],
         \A f \in Paths : f \notin XuiPaths => file'[f] = file[f],
         "xui" \notin overlapped => XuiInv(p)'
  PROVE  FilesInv'
<1>1. UNCHANGED <<job, kept, saved, changed, service, archive, overlapped, unrestored>>
  BY DEF work
<1>2. kept' \in [Helpers -> [Kept -> Contents]] /\ service' \in {"up", "down"}
  BY <1>1 DEF FilesInv, FilesTypeOK
<1> QED BY <1>1, <1>2, XuiMoves

LEMMA XuiBefore ==
  ASSUME FilesInv, NEW p \in Helpers
  PROVE  /\ file \in [Paths -> Contents] /\ kept \in [Helpers -> [Kept -> Contents]]
         /\ service \in {"up", "down"} /\ "db" \in Paths /\ "db.part" \in Paths /\ "db" \in Kept
         /\ "config" \in Kept
         /\ "xui" \notin overlapped => XuiInv(p)
BY DEF FilesInv, FilesTypeOK, JobsInv, Paths, Kept

LEMMA KeepDbInv == ASSUME FilesInv, NEW p \in Helpers, KeepDb(p) PROVE FilesInv'
<1>1. /\ UNCHANGED <<file, job, saved, changed, service, archive, overlapped, unrestored>>
      /\ pc[p] = "keep db" /\ FilesTypeOK
  BY DEF KeepDb, At, FilesInv
<1>2. PICK next \in {"stop", "failed"} : Move(p, next)
  BY DEF KeepDb
<1>3. pc'[p] = next
  BY <1>1, <1>2, Moves DEF Labels, Ended
<1>4. /\ kept' \in [Helpers -> [Kept -> Contents]] /\ kept'[p]["config"] = kept[p]["config"]
      /\ \A q \in Helpers : q # p => kept'[q] = kept[q]
      /\ next = "stop" => kept'[p]["db"] \in {file["db"], Torn(p)}
  <2>1. CASE kept' = Keeping(p, {"db"})
    <3>1. "config" \in Kept /\ "db" \in Kept
      BY XuiBefore
    <3>2. FilesTypeOK /\ kept' = Keeping(p, {"db"})
      BY <1>1, <2>1
    <3>3. kept' \in [Helpers -> [Kept -> Contents]] /\ \A q \in Helpers : q # p => kept'[q] = kept[q]
      BY <3>2, KeepsFiles
    <3>4. \A f \in Kept : kept'[p][f] = IF f \in {"db"} THEN file[f] ELSE kept[p][f]
      BY <3>2, KeepsFiles
    <3> QED BY <3>1, <3>3, <3>4
  <2>2. CASE kept' = [kept EXCEPT ![p]["db"] = Torn(p)]
    <3>1. kept' = [kept EXCEPT ![p] = [kept[p] EXCEPT !["db"] = Torn(p)]]
      BY <2>2
    <3>2. [kept[p] EXCEPT !["db"] = Torn(p)] \in [Kept -> Contents]
      BY XuiBefore, ContentsDiffer
    <3> QED BY <3>1, <3>2, XuiBefore
  <2>3. CASE UNCHANGED kept /\ Move(p, "failed")
    <3>1. next = "failed"
      BY <1>1, <1>2, <1>3, <2>3, Moves DEF Ended
    <3> QED BY <2>3, <3>1, XuiBefore
  <2> QED BY <2>1, <2>2, <2>3 DEF KeepDb
<1>5. ASSUME "xui" \notin overlapped PROVE XuiInv(p)'
  BY <1>1, <1>2, <1>3, <1>4, <1>5, XuiBefore DEF XuiInv, Copied
<1> QED BY <1>1, <1>2, <1>4, <1>5, XuiBefore, XuiMoves DEF XuiLabels

LEMMA StopInv == ASSUME FilesInv, NEW p \in Helpers, Stop(p) PROVE FilesInv'
<1>1. /\ UNCHANGED <<file, job, kept, saved, changed, archive, overlapped, unrestored>>
      /\ pc[p] = "stop" /\ service' \in {"up", "down"}
  BY XuiBefore DEF Stop, At
<1>2. PICK next \in {"stage db", "failed"} : Move(p, next)
  BY DEF Stop
<1>3. pc'[p] = next
  BY <1>2, Moves DEF FilesInv, Labels, Ended
<1>4. ASSUME "xui" \notin overlapped PROVE XuiInv(p)'
  BY <1>1, <1>2, <1>3, <1>4, XuiBefore DEF XuiInv, Copied
<1> QED BY <1>1, <1>2, <1>4, XuiBefore, XuiMoves DEF XuiLabels

LEMMA StageDbInv == ASSUME FilesInv, NEW p \in Helpers, StageDb(p) PROVE FilesInv'
<1>1. UNCHANGED work /\ pc[p] = "stage db"
  BY DEF StageDb, At
<1>2. PICK next \in {"swap", "start again"} :
        /\ Move(p, next)
        /\ \/ file' = Put("db.part", Given(p))
           \/ UNCHANGED file /\ next = "start again"
  <2>1. CASE file' = Put("db.part", Given(p)) /\ Move(p, "swap")
    BY <2>1
  <2>2. CASE file' \in {file, Put("db.part", Given(p))} /\ Move(p, "start again")
    BY <2>2
  <2> QED BY <2>1, <2>2 DEF StageDb
<1>3. pc'[p] = next
  BY <1>2, Moves DEF FilesInv, Labels
<1>4. /\ file' \in [Paths -> Contents] /\ \A f \in Paths : f # "db.part" => file'[f] = file[f]
      /\ next = "swap" => file'["db.part"] = Given(p)
  <2>1. Given(p) \in Contents /\ "db.part" \in Paths /\ file \in [Paths -> Contents]
    BY ContentsDiffer, XuiBefore
  <2>2. CASE UNCHANGED file /\ next = "start again"
    BY <2>1, <2>2
  <2>3. CASE file' = Put("db.part", Given(p))
    BY <2>1, <2>3, PutFile
  <2> QED BY <1>2, <2>2, <2>3
<1>5. ASSUME "xui" \notin overlapped PROVE XuiInv(p)'
  BY <1>1, <1>2, <1>3, <1>4, <1>5, XuiBefore DEF XuiInv, Copied, work
<1> QED BY <1>1, <1>2, <1>4, <1>5, XuiFiles DEF XuiLabels, XuiPaths

LEMMA SwapInv == ASSUME FilesInv, NEW p \in Helpers, Swap(p) PROVE FilesInv'
<1>1. UNCHANGED work /\ pc[p] = "swap" /\ file \in [Paths -> Contents] /\ "db" \in Paths /\ "db.part" \in Paths
  BY XuiBefore DEF Swap, At
<1>2. CASE file' = Swapped /\ Move(p, "start")
  <2>1. /\ Swapped \in [Paths -> Contents] /\ Swapped["db"] = file["db.part"]
        /\ \A f \in Paths : f \notin {"db", "db.part"} => Swapped[f] = file[f]
    BY <1>1, ContentsDiffer DEF Swapped
  <2>2. pc'[p] = "start"
    BY <1>2, Moves DEF FilesInv, Labels
  <2>3. ASSUME "xui" \notin overlapped PROVE XuiInv(p)'
    BY <1>1, <1>2, <2>1, <2>2, <2>3, XuiBefore DEF XuiInv, Copied, work
  <2> QED BY <1>1, <1>2, <2>1, <2>3, XuiFiles DEF XuiLabels, XuiPaths
<1>3. CASE file' = Without({"db.part"}) /\ Move(p, "start again")
  <2>1. file' \in [Paths -> Contents] /\ \A f \in Paths : f # "db.part" => file'[f] = file[f]
    BY <1>1, <1>3, WithoutFiles
  <2>2. pc'[p] = "start again"
    BY <1>3, Moves DEF FilesInv, Labels
  <2>3. ASSUME "xui" \notin overlapped PROVE XuiInv(p)'
    BY <1>1, <2>1, <2>2, <2>3, XuiBefore DEF XuiInv, Copied, work
  <2> QED BY <1>1, <1>3, <2>1, <2>3, XuiFiles DEF XuiLabels, XuiPaths
<1> QED BY <1>2, <1>3 DEF Swap

LEMMA StartXuiInv == ASSUME FilesInv, NEW p \in Helpers, StartXui(p) PROVE FilesInv'
<1>1. /\ UNCHANGED <<file, job, saved, changed, archive, overlapped, unrestored>>
      /\ pc[p] = "start" /\ service' \in {"up", "down"}
  BY XuiBefore DEF StartXui, At
<1>2. PICK next \in {"done", "undo db"} :
        /\ Move(p, next)
        /\ \/ UNCHANGED kept
           \/ next = "done" /\ kept' = [kept EXCEPT ![p]["db"] = None]
  <2>1. CASE UNCHANGED <<service, kept>> /\ Move(p, "undo db")
    BY <2>1
  <2>2. CASE kept' = [kept EXCEPT ![p]["db"] = None] /\ Move(p, "done")
    BY <2>2
  <2> QED BY <2>1, <2>2 DEF StartXui
<1>3. pc'[p] = next
  BY <1>2, Moves DEF FilesInv, Labels, Ended
<1>4. /\ kept' \in [Helpers -> [Kept -> Contents]] /\ kept'[p]["config"] = kept[p]["config"]
      /\ \A q \in Helpers : q # p => kept'[q] = kept[q]
      /\ next = "undo db" => kept' = kept
  <2>1. CASE UNCHANGED kept
    BY <2>1, XuiBefore
  <2>2. CASE next = "done" /\ kept' = [kept EXCEPT ![p]["db"] = None]
    <3>1. kept' = [kept EXCEPT ![p] = [kept[p] EXCEPT !["db"] = None]]
      BY <2>2
    <3>2. [kept[p] EXCEPT !["db"] = None] \in [Kept -> Contents]
      BY XuiBefore, ContentsDiffer
    <3> QED BY <2>2, <3>1, <3>2, XuiBefore
  <2> QED BY <1>2, <2>1, <2>2
<1>5. ASSUME "xui" \notin overlapped PROVE XuiInv(p)'
  BY <1>1, <1>2, <1>3, <1>4, <1>5, XuiBefore DEF XuiInv, Copied
<1> QED BY <1>1, <1>2, <1>4, <1>5, XuiBefore, XuiMoves DEF XuiLabels

LEMMA UndoDbInv == ASSUME FilesInv, NEW p \in Helpers, UndoDb(p) PROVE FilesInv'
<1>1. /\ UNCHANGED <<job, kept, saved, changed, service, archive, overlapped>>
      /\ pc[p] = "undo db" /\ Move(p, "start again")
      /\ \/ file' = Put("db", kept[p]["db"]) /\ UNCHANGED unrestored
         \/ UNCHANGED file /\ unrestored' = unrestored \cup {p}
  BY DEF UndoDb, At
<1>2. pc'[p] = "start again"
  BY <1>1, Moves DEF FilesInv, Labels
<1>3. /\ file' \in [Paths -> Contents] /\ \A f \in Paths : f # "db" => file'[f] = file[f]
      /\ file'["db"] = kept[p]["db"] \/ p \in unrestored'
      /\ unrestored' \in {unrestored, unrestored \cup {p}}
  <2>1. kept[p]["db"] \in Contents /\ "db" \in Paths /\ file \in [Paths -> Contents]
    BY XuiBefore
  <2>2. CASE UNCHANGED file /\ unrestored' = unrestored \cup {p}
    BY <2>1, <2>2
  <2>3. CASE file' = Put("db", kept[p]["db"]) /\ UNCHANGED unrestored
    BY <2>1, <2>3, PutFile
  <2> QED BY <1>1, <2>2, <2>3
<1>4. ASSUME "xui" \notin overlapped PROVE XuiInv(p)'
  BY <1>1, <1>2, <1>3, <1>4, XuiBefore DEF XuiInv, Copied
<1> QED BY <1>1, <1>3, <1>4, XuiBefore, XuiMoves DEF XuiLabels, XuiPaths

LEMMA StartAgainInv == ASSUME FilesInv, NEW p \in Helpers, StartAgain(p) PROVE FilesInv'
<1>1. /\ UNCHANGED <<file, job, kept, saved, changed, archive, overlapped, unrestored>>
      /\ pc[p] = "start again" /\ service' \in {"up", "down"} /\ Move(p, "failed")
  BY XuiBefore DEF StartAgain, At
<1>2. pc'[p] = "failed"
  BY <1>1, Moves DEF FilesInv, Ended
<1>3. ASSUME "xui" \notin overlapped PROVE XuiInv(p)'
  BY <1>1, <1>2, <1>3, XuiBefore DEF XuiInv, Copied
<1> QED BY <1>1, <1>3, XuiBefore, XuiMoves DEF XuiLabels

LEMMA XuiStepInv == ASSUME FilesInv, NEW p \in Helpers, XuiStep(p) PROVE FilesInv'
BY KeepDbInv, StopInv, StageDbInv, SwapInv, StartXuiInv, UndoDbInv, StartAgainInv DEF XuiStep

\* x-ui writes to the database that a restore found, at any label of any helper.
LEMMA XuiWritesInv == ASSUME FilesInv, XuiWrites PROVE FilesInv'
<1>1. /\ UNCHANGED <<pc, job, kept, saved, changed, service, archive, overlapped, unrestored>>
      /\ file["db"] = Old /\ file' = Put("db", Late) /\ file \in [Paths -> Contents] /\ "db" \in Paths
  BY DEF XuiWrites, work, FilesInv, FilesTypeOK, Paths
<1>2. /\ file' \in [Paths -> Contents] /\ file'["db"] = Late
      /\ \A f \in Paths : f # "db" => file'[f] = file[f]
  <2>1. Late \in Contents
    BY ContentsDiffer
  <2> QED BY <1>1, <2>1, PutFile
<1>3. FilesTypeOK' /\ JobInv' /\ Alone'
  BY <1>1, <1>2 DEF FilesInv, FilesTypeOK, JobInv, Alone, Running
<1>4. LiveInv'
  BY <1>1, <1>2 DEF FilesInv, LiveInv, Good, Sound, Paths
<1>5. BinariesThere'
  BY <1>1, <1>2 DEF FilesInv, BinariesThere, Binaries, Paths
<1>6. ASSUME NEW p \in Helpers, "xray" \notin overlapped PROVE XrayInv(p)'
  <2>1. Untouched(p, XrayPaths)
    BY <1>1, <1>2 DEF Untouched, XrayPaths, Paths, Staging
  <2> QED BY <1>1, <1>6, <2>1, XrayStays DEF FilesInv, JobsInv
<1>7. ASSUME NEW p \in Helpers, "upgrade" \notin overlapped PROVE UpgradeInv(p)'
  <2>1. Untouched(p, UpgradePaths)
    BY <1>1, <1>2 DEF Untouched, UpgradePaths, Paths
  <2> QED BY <1>7, <2>1, UpgradeStays DEF FilesInv, JobsInv
<1>8. ASSUME NEW p \in Helpers, "xui" \notin overlapped PROVE XuiInv(p)'
  <2>1. Given(p) # Old
    BY ContentsDiffer
  <2>2. XuiInv(p)
    BY <1>8 DEF FilesInv, JobsInv
  <2> QED BY <1>1, <1>2, <2>1, <2>2 DEF XuiInv, Copied, Paths
<1>9. JobsInv'
  BY <1>1, <1>6, <1>7, <1>8 DEF JobsInv
<1> QED BY <1>3, <1>4, <1>5, <1>9 DEF FilesInv

-----------------------------------------------------------------------------
(***************************************************************************)
(* The upgrade.                                                            *)
(***************************************************************************)

\* A step that moves on and changes the binaries.
LEMMA UpgradeMoves ==
  ASSUME FilesInv, NEW p \in Helpers, pc[p] \in UpgradeLabels,
         UNCHANGED <<job, kept, saved, service, archive, overlapped>>,
         NEW next \in UpgradeLabels \cup {"done", "failed"}, Move(p, next),
         changed' \in [Helpers -> SUBSET Binaries], \A q \in Helpers : q # p => changed'[q] = changed[q],
         unrestored' \in {unrestored, unrestored \cup {p}},
         file' \in [Paths -> Contents], \A f \in Paths : f \notin UpgradePaths => file'[f] = file[f],
         \A t \in Binaries : file'[t] # None,
         "upgrade" \notin overlapped => UpgradeInv(p)'
  PROVE  FilesInv'
<1>1. FilesTypeOK /\ LiveInv /\ next \in Labels \cup Ended
  BY DEF FilesInv, UpgradeLabels, Labels, Ended
<1>2. pc' \in [Helpers -> Labels \cup Ended] /\ pc'[p] = next /\ \A q \in Helpers : q # p => pc'[q] = pc[q]
  BY <1>1, Moves
<1>3. FilesTypeOK'
  BY <1>1, <1>2 DEF FilesTypeOK, Binaries
<1>4. Frame(p, UpgradePaths)
  BY <1>2 DEF Frame
<1>5. LiveInv'
  BY <1>1 DEF LiveInv, Good, Sound, Paths, UpgradePaths
<1>6. BinariesThere'
  BY DEF BinariesThere
<1>7. pc'[p] \in UpgradeLabels \cup Ended
  BY <1>2 DEF Ended
<1> QED BY <1>3, <1>4, <1>5, <1>6, <1>7, UpgradeFrame

\* One that changes files only.
LEMMA UpgradeFiles ==
  ASSUME FilesInv, NEW p \in Helpers, pc[p] \in UpgradeLabels, UNCHANGED work,
         NEW next \in UpgradeLabels \cup {"done", "failed"}, Move(p, next), file' \in [Paths -> Contents],
         \A f \in Paths : f \notin UpgradePaths => file'[f] = file[f],
         \A t \in Binaries : file'[t] # None,
         "upgrade" \notin overlapped => UpgradeInv(p)'
  PROVE  FilesInv'
<1>1. UNCHANGED <<job, kept, saved, changed, service, archive, overlapped, unrestored>>
  BY DEF work
<1>2. changed' \in [Helpers -> SUBSET Binaries]
  BY <1>1 DEF FilesInv, FilesTypeOK, Binaries
<1> QED BY <1>1, <1>2, UpgradeMoves

LEMMA UpgradeBefore ==
  ASSUME FilesInv, NEW p \in Helpers
  PROVE  /\ file \in [Paths -> Contents] /\ changed[p] \subseteq Binaries
         /\ \A t \in Binaries : file[t] # None /\ Previous(t) \notin Binaries
         /\ Binaries \subseteq Paths /\ \A t \in Binaries : Previous(t) \in UpgradePaths
         /\ UpgradePaths \subseteq Paths
         /\ "upgrade" \notin overlapped => UpgradeInv(p)
BY DEF FilesInv, FilesTypeOK, JobsInv, BinariesThere, Binaries, Previous, UpgradePaths, Paths

LEMMA PrepareInv == ASSUME FilesInv, NEW p \in Helpers, Prepare(p) PROVE FilesInv'
<1>1. /\ UNCHANGED <<file, job, kept, saved, service, archive, overlapped, unrestored>>
      /\ pc[p] = "prepare" /\ changed \in [Helpers -> SUBSET Binaries]
      /\ changed' = [changed EXCEPT ![p] = {t \in Binaries : file[t] # New}]
  BY DEF Prepare, Outdated, At, FilesInv, FilesTypeOK, Binaries
<1>2. /\ changed' \in [Helpers -> SUBSET Binaries] /\ \A q \in Helpers : q # p => changed'[q] = changed[q]
      /\ changed'[p] = {t \in Binaries : file[t] # New}
  BY <1>1
<1>3. PICK next \in {"done", "link agent", "failed"} : Move(p, next)
  BY DEF Prepare
<1>4. pc'[p] = next
  BY <1>3, Moves DEF FilesInv, Labels, Ended
<1>5. ASSUME "upgrade" \notin overlapped PROVE UpgradeInv(p)'
  <2>1. \A t \in Binaries : file[t] = saved[p][t] /\ saved[p][t] # None
    BY <1>1, <1>5, UpgradeBefore DEF UpgradeInv, UpgradeLabels
  <2> QED BY <1>1, <1>2, <1>3, <1>4, <2>1 DEF UpgradeInv
<1> QED BY <1>1, <1>2, <1>3, <1>5, UpgradeBefore, UpgradeMoves DEF UpgradeLabels

LEMMA LinkInv ==
  ASSUME FilesInv, NEW p \in Helpers, NEW t \in Binaries,
         Link(p, t, IF t = "agent" THEN "link agent" ELSE "link helper",
                    IF t = "agent" THEN "link helper" ELSE "agent")
  PROVE  FilesInv'
<1> DEFINE label == IF t = "agent" THEN "link agent" ELSE "link helper"
           after == IF t = "agent" THEN "link helper" ELSE "agent"
<1>1. UNCHANGED work /\ pc[p] = label
  BY DEF Link, At
<1>2. PICK next \in {after, "failed"} :
        /\ Move(p, next)
        /\ \/ UNCHANGED file /\ (next = after => t \notin changed[p])
           \/ file' = Put(Previous(t), file[t])
           \/ next = "failed" /\ file' = Put(Previous(t), None)
  <2>1. CASE file' = (IF t \in changed[p] THEN Put(Previous(t), file[t]) ELSE file) /\ Move(p, after)
    BY <2>1
  <2>2. CASE file' \in {file, Put(Previous(t), None)} /\ Move(p, "failed")
    BY <2>2 DEF Binaries
  <2> QED BY <2>1, <2>2 DEF Link
<1>3. pc'[p] = next
  BY <1>2, Moves DEF FilesInv, Labels, Ended
<1>4. /\ file' \in [Paths -> Contents] /\ \A f \in Paths : f # Previous(t) => file'[f] = file[f]
      /\ next = after /\ t \in changed[p] => file'[Previous(t)] = file[t]
  <2>1. /\ file[t] \in Contents /\ None \in Contents /\ Previous(t) \in Paths /\ file \in [Paths -> Contents]
        /\ "failed" # after
    BY ContentsDiffer, UpgradeBefore
  <2>2. CASE UNCHANGED file /\ (next = after => t \notin changed[p])
    BY <2>1, <2>2
  <2>3. CASE file' = Put(Previous(t), file[t])
    BY <2>1, <2>3, PutFile
  <2>4. CASE next = "failed" /\ file' = Put(Previous(t), None)
    BY <2>1, <2>4, PutFile
  <2> QED BY <1>2, <2>2, <2>3, <2>4
<1>5. /\ file'["agent"] = file["agent"] /\ file'["helper"] = file["helper"]
      /\ t = "helper" => file'["agent.previous"] = file["agent.previous"]
      /\ Previous("agent") = "agent.previous" /\ Previous("helper") = "helper.previous"
  BY <1>4, UpgradeBefore DEF Previous, Binaries, Paths
<1>6. ASSUME "upgrade" \notin overlapped PROVE UpgradeInv(p)'
  <2>1. UpgradeInv(p) /\ saved' = saved /\ changed' = changed
    BY <1>1, <1>6, UpgradeBefore DEF work
  <2>2. CASE t = "agent"
    BY <1>1, <1>3, <1>4, <1>5, <2>1, <2>2 DEF UpgradeInv, Linked, Binaries, UpgradeLabels
  <2>3. CASE t = "helper"
    BY <1>1, <1>3, <1>4, <1>5, <2>1, <2>3 DEF UpgradeInv, Linked, Binaries, UpgradeLabels
  <2> QED BY <2>2, <2>3 DEF Binaries
<1>7. /\ \A f \in Paths : f \notin UpgradePaths => file'[f] = file[f]
      /\ \A u \in Binaries : file'[u] # None
  BY <1>4, UpgradeBefore
<1>8. label \in UpgradeLabels /\ next \in UpgradeLabels \cup {"done", "failed"}
  BY DEF UpgradeLabels
<1> QED BY <1>1, <1>2, <1>4, <1>6, <1>7, <1>8, UpgradeFiles

LEMMA ActivateInv ==
  ASSUME FilesInv, NEW p \in Helpers, NEW t \in Binaries,
         Activate(p, t, IF t = "agent" THEN "helper" ELSE "schedule")
  PROVE  FilesInv'
<1> DEFINE after == IF t = "agent" THEN "helper" ELSE "schedule"
<1>1. UNCHANGED work /\ pc[p] = t
  BY DEF Activate, At
<1>2. PICK next \in {after, "roll back"} :
        /\ Move(p, next)
        /\ \/ UNCHANGED file /\ (next = after => t \notin changed[p])
           \/ file' = Put(t, New) /\ t \in changed[p]
  <2>1. CASE file' = (IF t \in changed[p] THEN Put(t, New) ELSE file) /\ Move(p, after)
    BY <2>1
  <2>2. CASE UNCHANGED file /\ Move(p, "roll back")
    BY <2>2 DEF Binaries
  <2> QED BY <2>1, <2>2 DEF Activate
<1>3. pc'[p] = next
  BY <1>2, Moves DEF FilesInv, Labels, Ended
<1>4. /\ file' \in [Paths -> Contents] /\ \A f \in Paths : f # t => file'[f] = file[f]
      /\ file'[t] \in {file[t], New}
      /\ t \notin changed[p] => file'[t] = file[t]
      /\ next = after /\ t \in changed[p] => file'[t] = New
  <2>1. New \in Contents /\ t \in Paths /\ file \in [Paths -> Contents]
    BY ContentsDiffer, UpgradeBefore
  <2>2. CASE UNCHANGED file /\ (next = after => t \notin changed[p])
    BY <2>1, <2>2
  <2>3. CASE file' = Put(t, New) /\ t \in changed[p]
    BY <2>1, <2>3, PutFile
  <2> QED BY <1>2, <2>2, <2>3
<1>5. \A u \in Binaries : file'[Previous(u)] = file[Previous(u)]
  BY <1>4, UpgradeBefore
<1>6. ASSUME "upgrade" \notin overlapped PROVE UpgradeInv(p)'
  <2>1. UpgradeInv(p) /\ saved' = saved /\ changed' = changed
    BY <1>1, <1>6, UpgradeBefore DEF work
  <2>2. "agent" \in Paths /\ "helper" \in Paths
    BY UpgradeBefore DEF Binaries
  <2>3. CASE t = "agent"
    BY <1>1, <1>3, <1>4, <1>5, <2>1, <2>2, <2>3 DEF UpgradeInv, Linked, Binaries, UpgradeLabels
  <2>4. CASE t = "helper"
    BY <1>1, <1>3, <1>4, <1>5, <2>1, <2>2, <2>4 DEF UpgradeInv, Linked, Binaries, UpgradeLabels
  <2> QED BY <2>3, <2>4 DEF Binaries
<1>7. /\ \A f \in Paths : f \notin UpgradePaths => file'[f] = file[f]
      /\ \A u \in Binaries : file'[u] # None
  <2>1. t \in UpgradePaths
    BY DEF UpgradePaths, Binaries
  <2> QED BY <1>4, <2>1, UpgradeBefore, ContentsDiffer
<1>8. t \in UpgradeLabels /\ next \in UpgradeLabels \cup {"done", "failed"}
  BY DEF UpgradeLabels, Binaries
<1> QED BY <1>1, <1>2, <1>4, <1>6, <1>7, <1>8, UpgradeFiles

LEMMA DownloadInv == ASSUME FilesInv, NEW p \in Helpers, Download(p) PROVE FilesInv'
<1>1. UNCHANGED work /\ UNCHANGED file /\ pc[p] = "download"
  BY DEF Download, At
<1>2. PICK next \in {"prepare", "failed"} : Move(p, next)
  BY DEF Download
<1>3. pc'[p] = next
  BY <1>2, Moves DEF FilesInv, Labels, Ended
<1>4. ASSUME "upgrade" \notin overlapped PROVE UpgradeInv(p)'
  BY <1>1, <1>2, <1>3, <1>4, UpgradeBefore DEF UpgradeInv, Linked, work, UpgradeLabels
<1> QED BY <1>1, <1>2, <1>4, UpgradeBefore, UpgradeFiles DEF UpgradeLabels

LEMMA ScheduleInv == ASSUME FilesInv, NEW p \in Helpers, Schedule(p) PROVE FilesInv'
<1>1. UNCHANGED work /\ UNCHANGED file /\ pc[p] = "schedule"
  BY DEF Schedule, At
<1>2. PICK next \in {"done", "roll back"} : Move(p, next)
  BY DEF Schedule
<1>3. pc'[p] = next
  BY <1>2, Moves DEF FilesInv, Labels, Ended
<1>4. ASSUME "upgrade" \notin overlapped PROVE UpgradeInv(p)'
  BY <1>1, <1>2, <1>3, <1>4, UpgradeBefore DEF UpgradeInv, Linked, work, UpgradeLabels
<1> QED BY <1>1, <1>2, <1>4, UpgradeBefore, UpgradeFiles DEF UpgradeLabels

LEMMA RollBackInv == ASSUME FilesInv, NEW p \in Helpers, RollBack(p) PROVE FilesInv'
<1>1. /\ UNCHANGED <<job, kept, saved, changed, service, archive, overlapped>>
      /\ pc[p] = "roll back" /\ Move(p, "failed")
  BY DEF RollBack, At
<1>2. PICK ts \in SUBSET Restorable(p) :
        /\ file' = [f \in Paths |-> IF f \in ts THEN file[Previous(f)]
                                    ELSE IF \E t \in ts : f = Previous(t) /\ file[t] # file[f] THEN None
                                    ELSE file[f]]
        /\ unrestored' = IF ts = Restorable(p) THEN unrestored ELSE unrestored \cup {p}
  BY DEF RollBack
<1>3. pc'[p] = "failed"
  BY <1>1, Moves DEF FilesInv, Ended
<1>4. ts \subseteq Binaries /\ \A t \in ts : file[Previous(t)] # None
  BY UpgradeBefore DEF Restorable
<1>5. /\ file' \in [Paths -> Contents] /\ \A u \in Binaries : file'[u] # None
      /\ \A f \in Paths : f \notin UpgradePaths => file'[f] = file[f]
  <2>1. None \in Contents /\ Binaries \subseteq UpgradePaths
    BY ContentsDiffer DEF Binaries, UpgradePaths
  <2> QED BY <1>2, <1>4, <2>1, UpgradeBefore
<1>6. ASSUME "upgrade" \notin overlapped PROVE UpgradeInv(p)'
  BY <1>3 DEF UpgradeInv, UpgradeLabels
<1>7. changed' \in [Helpers -> SUBSET Binaries]
  BY <1>1 DEF FilesInv, FilesTypeOK, Binaries
<1>8. unrestored' \in {unrestored, unrestored \cup {p}}
  BY <1>2
<1> QED BY <1>1, <1>5, <1>6, <1>7, <1>8, UpgradeMoves DEF UpgradeLabels

LEMMA UpgradeStepInv == ASSUME FilesInv, NEW p \in Helpers, UpgradeStep(p) PROVE FilesInv'
<1>1. CASE Link(p, "agent", "link agent", "link helper")
  BY <1>1, LinkInv DEF Binaries
<1>2. CASE Link(p, "helper", "link helper", "agent")
  BY <1>2, LinkInv DEF Binaries
<1>3. CASE Activate(p, "agent", "helper")
  BY <1>3, ActivateInv DEF Binaries
<1>4. CASE Activate(p, "helper", "schedule")
  BY <1>4, ActivateInv DEF Binaries
<1> QED BY <1>1, <1>2, <1>3, <1>4, DownloadInv, PrepareInv, ScheduleInv, RollBackInv DEF UpgradeStep

-----------------------------------------------------------------------------
(***************************************************************************)
(* A helper begins, or dies.                                               *)
(***************************************************************************)

LEMMA BeginInv == ASSUME FilesInv, NEW p \in Helpers, NEW j \in Jobs, Begin(p, j) PROVE FilesInv'
<1> DEFINE label == CASE j = "xray" -> "clear" [] j = "xui" -> "keep db" [] j = "upgrade" -> "download"
<1>1. /\ FilesTypeOK /\ JobInv /\ Alone /\ LiveInv /\ JobsInv /\ BinariesThere
      /\ pc[p] = "idle" /\ j \in {"xray", "xui", "upgrade"}
      /\ UNCHANGED <<file, kept, changed, service, unrestored>>
  BY HelperFilesAssumption DEF FilesInv, Begin, At
<1>2. /\ job' = [job EXCEPT ![p] = j]
      /\ saved' = [saved EXCEPT ![p] = [f \in Live(j) |-> file[f]]]
      /\ overlapped' = IF \E q \in Running : job[q] = j THEN overlapped \cup {j} ELSE overlapped
      /\ \/ j = "xray" /\ \E found \in Archives : archive' = [archive EXCEPT ![p] = found]
         \/ j # "xray" /\ UNCHANGED archive
  BY DEF Begin
<1>3. /\ pc' \in [Helpers -> Labels \cup Ended] /\ pc'[p] = label
      /\ \A q \in Helpers : q # p => pc'[q] = pc[q]
  <2>1. label \in Labels \cup Ended
    BY <1>1 DEF Labels
  <2>2. Move(p, label)
    BY DEF Begin
  <2> QED BY <1>1, <2>1, <2>2, Moves
<1>4. /\ job' \in [Helpers -> Jobs \cup {"none"}] /\ job'[p] = j
      /\ \A q \in Helpers : q # p => job'[q] = job[q]
  BY <1>1, <1>2 DEF FilesTypeOK
<1>5. /\ archive' \in [Helpers -> Archives]
      /\ \A q \in Helpers : q # p => archive'[q] = archive[q]
      /\ \A q \in Helpers : archive[q].sound => archive'[q].sound
  <2>1. archive \in [Helpers -> Archives] /\ ~archive[p].sound
    BY <1>1 DEF FilesTypeOK, JobInv
  <2>2. CASE UNCHANGED archive
    BY <2>1, <2>2
  <2>3. ASSUME NEW found \in Archives, archive' = [archive EXCEPT ![p] = found]
        PROVE  /\ archive' \in [Helpers -> Archives]
               /\ \A q \in Helpers : q # p => archive'[q] = archive[q]
    BY <2>1, <2>3
  <2> QED BY <1>2, <2>1, <2>2, <2>3
<1>6. /\ saved' = [q \in Helpers |-> saved'[q]]
      /\ saved'[p] = [f \in Live(j) |-> file[f]]
      /\ \A q \in Helpers : q # p => saved'[q] = saved[q]
  BY <1>1, <1>2 DEF JobInv
<1>7. overlapped \subseteq overlapped' /\ overlapped' \subseteq Jobs
  BY <1>1, <1>2 DEF FilesTypeOK
<1>8. FilesTypeOK'
  <2>1. \A f \in Live(j) : file[f] \in Contents
    BY <1>1 DEF FilesTypeOK, Live, Paths
  <2>2. saved'[p] \in [Live(job'[p]) -> Contents]
    BY <1>4, <1>6, <2>1
  <2>3. \A q \in Helpers : saved'[q] \in [Live(job'[q]) -> Contents]
    BY <1>1, <1>4, <1>6, <2>2 DEF FilesTypeOK
  <2> QED BY <1>1, <1>3, <1>4, <1>5, <1>7, <2>3 DEF FilesTypeOK
<1>9. JobInv'
  <2>1. /\ pc'[p] # "idle" /\ (pc'[p] \in XrayLabels => j = "xray")
        /\ pc'[p] \in XuiLabels => j = "xui"
        /\ pc'[p] \in UpgradeLabels => j = "upgrade"
    BY <1>1, <1>3 DEF XrayLabels, XuiLabels, UpgradeLabels
  <2>2. ASSUME NEW q \in Helpers
        PROVE  /\ pc'[q] = "idle" => job'[q] = "none" /\ ~archive'[q].sound
               /\ pc'[q] \in XrayLabels => job'[q] = "xray"
               /\ pc'[q] \in XuiLabels => job'[q] = "xui"
               /\ pc'[q] \in UpgradeLabels => job'[q] = "upgrade"
    <3>1. CASE q = p
      BY <1>4, <2>1, <3>1
    <3>2. CASE q # p
      BY <1>1, <1>3, <1>4, <1>5, <3>2 DEF JobInv
    <3> QED BY <3>1, <3>2
  <2> QED BY <1>6, <2>2 DEF JobInv
<1>10. Alone'
  <2>1. ASSUME NEW q \in Helpers, NEW r \in Helpers, q \in Running', r \in Running',
               job'[q] = job'[r], job'[q] \notin overlapped', q # r
        PROVE  FALSE
    <3>1. \A x \in Helpers : x # p /\ x \in Running' => x \in Running
      BY <1>3 DEF Running
    <3>2. CASE q = p
      BY <1>2, <1>4, <2>1, <3>1, <3>2
    <3>3. CASE r = p
      BY <1>2, <1>4, <2>1, <3>1, <3>3
    <3>4. CASE q # p /\ r # p
      BY <1>1, <1>4, <1>7, <2>1, <3>1, <3>4 DEF Alone
    <3> QED BY <3>2, <3>3, <3>4
  <2> QED BY <2>1 DEF Alone, Running
<1>11. LiveInv'
  BY <1>1, <1>5, <1>7 DEF LiveInv, Good, Sound
<1>12. ASSUME NEW q \in Helpers
       PROVE  /\ "xray" \notin overlapped' => XrayInv(q)'
              /\ "xui" \notin overlapped' => XuiInv(q)'
              /\ "upgrade" \notin overlapped' => UpgradeInv(q)'
  <2>1. CASE q = p
    <3>1. CASE j = "xray"
      <4>1. /\ pc'[p] = "clear" /\ file' = file
            /\ saved'[p]["config"] = file["config"] /\ saved'[p]["env"] = file["env"]
        BY <1>1, <1>3, <1>6, <3>1 DEF Live
      <4> QED BY <2>1, <4>1 DEF XrayInv, XuiInv, UpgradeInv, UpgradeLabels
    <3>2. CASE j = "xui"
      <4>1. pc'[p] = "keep db" /\ file' = file /\ saved'[p]["db"] = file["db"]
        BY <1>1, <1>3, <1>6, <3>2 DEF Live
      <4> QED BY <2>1, <4>1 DEF XrayInv, XuiInv, UpgradeInv, UpgradeLabels
    <3>3. CASE j = "upgrade"
      <4>1. pc'[p] = "download" /\ \A t \in Binaries : saved'[p][t] = file[t] /\ file[t] # None
        BY <1>1, <1>3, <1>6, <3>3 DEF Live, Binaries, BinariesThere
      <4> QED BY <1>1, <2>1, <4>1 DEF XrayInv, XuiInv, UpgradeInv
    <3> QED BY <1>1, <3>1, <3>2, <3>3
  <2>2. CASE q # p
    <3>1. /\ pc'[q] = pc[q] /\ saved'[q] = saved[q] /\ archive'[q] = archive[q]
          /\ UNCHANGED <<file, kept, changed, unrestored>>
      BY <1>1, <1>3, <1>5, <1>6, <2>2
    <3>2. Sound(Given(q)) => Sound(Given(q))'
      BY <1>5 DEF Sound
    <3>3. ASSUME "xray" \notin overlapped' PROVE XrayInv(q)'
      BY <1>1, <1>7, <3>1, <3>2, <3>3 DEF JobsInv, XrayInv, Restored, EnvOf
    <3>4. ASSUME "xui" \notin overlapped' PROVE XuiInv(q)'
      BY <1>1, <1>7, <3>1, <3>4 DEF JobsInv, XuiInv, Copied
    <3>5. ASSUME "upgrade" \notin overlapped' PROVE UpgradeInv(q)'
      <4>1. Untouched(q, UpgradePaths) /\ UpgradeInv(q)
        BY <1>1, <1>7, <3>1, <3>5 DEF JobsInv, Untouched
      <4> QED BY <4>1, UpgradeStays
    <3> QED BY <3>3, <3>4, <3>5
  <2> QED BY <2>1, <2>2
<1>13. JobsInv' /\ BinariesThere'
  BY <1>1, <1>12 DEF JobsInv, BinariesThere
<1> QED BY <1>8, <1>9, <1>10, <1>11, <1>13 DEF FilesInv

LEMMA DieInv == ASSUME FilesInv, NEW p \in Helpers, Die(p) PROVE FilesInv'
<1>1. /\ FilesTypeOK /\ JobInv /\ Alone /\ LiveInv /\ JobsInv /\ BinariesThere
      /\ UNCHANGED <<file, job, kept, saved, changed, archive, overlapped, unrestored>>
      /\ p \in Running /\ Move(p, "dead") /\ service' \in {service, "up"}
  BY DEF FilesInv, Die
<1>2. /\ pc' \in [Helpers -> Labels \cup Ended] /\ pc'[p] = "dead"
      /\ \A q \in Helpers : q # p => pc'[q] = pc[q]
  BY <1>1, Moves DEF Ended
<1>3. FilesTypeOK'
  BY <1>1, <1>2 DEF FilesTypeOK
<1>4. JobInv'
  BY <1>1, <1>2 DEF JobInv, XrayLabels, XuiLabels, UpgradeLabels
<1>5. Alone'
  BY <1>1, <1>2 DEF Alone, Running
<1>6. ASSUME NEW q \in Helpers
      PROVE  /\ "xray" \notin overlapped' => XrayInv(q)'
             /\ "xui" \notin overlapped' => XuiInv(q)'
             /\ "upgrade" \notin overlapped' => UpgradeInv(q)'
  <2>1. CASE q = p
    BY <1>2, <2>1 DEF XrayInv, XuiInv, UpgradeInv, UpgradeLabels
  <2>2. CASE q # p
    <3>1. Untouched(q, XrayPaths) /\ Untouched(q, XuiPaths) /\ Untouched(q, UpgradePaths)
      BY <1>1, <1>2, <2>2 DEF Untouched
    <3> QED BY <1>1, <3>1, XrayStays, XuiStays, UpgradeStays DEF JobsInv
  <2> QED BY <2>1, <2>2
<1>7. LiveInv' /\ JobsInv' /\ BinariesThere'
  BY <1>1, <1>6 DEF LiveInv, Good, Sound, JobsInv, BinariesThere
<1> QED BY <1>3, <1>4, <1>5, <1>7 DEF FilesInv

-----------------------------------------------------------------------------
(***************************************************************************)
(* All steps, and what follows.                                            *)
(***************************************************************************)

LEMMA InitInv == FilesInit => FilesInv
<1> SUFFICES ASSUME FilesInit PROVE FilesInv
  OBVIOUS
<1>1. /\ pc = [p \in Helpers |-> "idle"] /\ job = [p \in Helpers |-> "none"]
      /\ kept = [p \in Helpers |-> [f \in Kept |-> None]]
      /\ saved = [p \in Helpers |-> [f \in {} |-> None]]
      /\ changed = [p \in Helpers |-> {}] /\ service = "up"
      /\ archive = [p \in Helpers |-> [sound |-> FALSE, env |-> FALSE]]
      /\ overlapped = {} /\ unrestored = {}
  BY DEF FilesInit
<1>2. PICK found \in SUBSET {"config", "env"} :
        file = [f \in Paths |-> IF f \in found \cup {"db", "agent", "helper"} THEN Old ELSE None]
  BY DEF FilesInit
<1>3. /\ file \in [Paths -> Contents] /\ file["config"] \in {None, Old}
      /\ file["agent"] = Old /\ file["helper"] = Old
  BY <1>2, ContentsDiffer DEF Paths
<1>4. Live("none") = {}
  BY DEF Live
<1>5. FilesTypeOK
  <2>1. kept \in [Helpers -> [Kept -> Contents]]
    BY <1>1, ContentsDiffer
  <2>2. \A p \in Helpers : saved[p] \in [Live(job[p]) -> Contents]
    BY <1>1, <1>4
  <2> QED BY <1>1, <1>3, <2>1, <2>2 DEF FilesTypeOK, Labels, Archives
<1>6. JobInv /\ Alone
  BY <1>1 DEF JobInv, Alone, Running, XrayLabels, XuiLabels, UpgradeLabels
<1>7. LiveInv
  BY <1>1, <1>3 DEF LiveInv, Good, Kept
<1>8. JobsInv
  BY <1>1 DEF JobsInv, XrayInv, XuiInv, UpgradeInv, UpgradeLabels
<1>9. BinariesThere
  BY <1>3, ContentsDiffer DEF BinariesThere, Binaries
<1> QED BY <1>5, <1>6, <1>7, <1>8, <1>9 DEF FilesInv

LEMMA NextInv == FilesInv /\ [FilesNext]_disks => FilesInv'
<1> SUFFICES ASSUME FilesInv, [FilesNext]_disks PROVE FilesInv'
  OBVIOUS
<1>1. CASE UNCHANGED disks
  <2>1. UNCHANGED <<pc, file, job, kept, saved, changed, service, archive, overlapped, unrestored>>
    BY <1>1 DEF disks, work
  <2>2. FilesTypeOK' /\ JobInv' /\ Alone' /\ LiveInv' /\ BinariesThere'
    BY <2>1 DEF FilesInv, FilesTypeOK, JobInv, Alone, Running, LiveInv, Good, Sound, BinariesThere
  <2>3. JobsInv'
    <3>1. \A p \in Helpers : \A fs : Untouched(p, fs)
      BY <2>1 DEF Untouched
    <3> QED BY <2>1, <3>1, XrayStays, XuiStays, UpgradeStays DEF FilesInv, JobsInv
  <2> QED BY <2>2, <2>3 DEF FilesInv
<1>2. ASSUME NEW p \in Helpers,
             (\E j \in Jobs : Begin(p, j)) \/ Die(p) \/ XrayStep(p) \/ XuiStep(p) \/ UpgradeStep(p)
      PROVE  FilesInv'
  BY <1>2, BeginInv, DieInv, XrayStepInv, XuiStepInv, UpgradeStepInv
<1> QED BY <1>1, <1>2, XuiWritesInv DEF FilesNext

-----------------------------------------------------------------------------
(***************************************************************************)
(* How a job ends.                                                         *)
(***************************************************************************)

LEMMA Mover ==
  ASSUME FilesTypeOK, NEW p \in Helpers, [FilesNext]_disks, pc'[p] # pc[p]
  PROVE  (\E j \in Jobs : Begin(p, j)) \/ Die(p) \/ XrayStep(p) \/ XuiStep(p) \/ UpgradeStep(p)
<1>1. ASSUME NEW q \in Helpers, NEW next, Move(q, next)
      PROVE  q = p
  BY <1>1 DEF Move, FilesTypeOK
<1>2. ~XuiWrites /\ ~UNCHANGED disks
  BY DEF XuiWrites, disks
<1>3. ASSUME NEW q \in Helpers,
             (\E j \in Jobs : Begin(q, j)) \/ Die(q) \/ XrayStep(q) \/ XuiStep(q) \/ UpgradeStep(q)
      PROVE  q = p
  <2>1. CASE (\E j \in Jobs : Begin(q, j)) \/ Die(q)
    BY <1>1, <2>1 DEF Begin, Die
  <2>2. CASE XrayStep(q)
    <3>1. CASE Clear(q) \/ Extract(q) \/ Fill(q) \/ Stage(q) \/ Test(q) \/ Keep(q)
      BY <1>1, <3>1 DEF Clear, Extract, Fill, Stage, CopyFile, Test, Keep
    <3>2. CASE Config(q) \/ Env(q) \/ Restart(q) \/ Undo(q) \/ UndoEnv(q) \/ Return(q)
      BY <1>1, <3>2 DEF Config, Env, CopyFile, Restart, Undo, UndoEnv, Return
    <3> QED BY <2>2, <3>1, <3>2 DEF XrayStep
  <2>3. CASE XuiStep(q)
    BY <1>1, <2>3 DEF XuiStep, KeepDb, Stop, StageDb, Swap, StartXui, UndoDb, StartAgain
  <2>4. CASE UpgradeStep(q)
    BY <1>1, <2>4 DEF UpgradeStep, Download, Prepare, Link, Activate, Schedule, RollBack
  <2> QED BY <1>3, <2>1, <2>2, <2>3, <2>4
<1> QED BY <1>2, <1>3 DEF FilesNext

\* The steps that may end a job.
LEMMA Enders ==
  ASSUME FilesTypeOK, NEW p \in Helpers, [FilesNext]_disks, pc'[p] # pc[p], pc'[p] \in {"done", "failed"}
  PROVE  \/ Return(p) \/ KeepDb(p) \/ Stop(p) \/ StartXui(p) \/ StartAgain(p)
         \/ Download(p) \/ Prepare(p) \/ Schedule(p) \/ RollBack(p)
         \/ Link(p, "agent", "link agent", "link helper") \/ Link(p, "helper", "link helper", "agent")
<1>1. ASSUME NEW next, Move(p, next) PROVE next \in {"done", "failed"}
  BY <1>1 DEF Move, FilesTypeOK
<1>2. ~(\E j \in Jobs : Begin(p, j)) /\ ~Die(p)
  <2>1. ASSUME NEW j \in Jobs, Begin(p, j) PROVE FALSE
    <3>1. PICK label \in {"clear", "keep db", "download"} : Move(p, label)
      BY <2>1, HelperFilesAssumption DEF Begin
    <3> QED BY <1>1, <3>1
  <2>2. ASSUME Die(p) PROVE FALSE
    BY <1>1, <2>2 DEF Die
  <2> QED BY <2>1, <2>2
<1>3. ASSUME XrayStep(p) PROVE Return(p)
  <2>1. ~Clear(p) /\ ~Extract(p) /\ ~Fill(p) /\ ~Stage(p) /\ ~Test(p) /\ ~Keep(p)
    BY DEF Clear, Extract, Fill, Stage, CopyFile, Test, Keep, Move, FilesTypeOK
  <2>2. ~Config(p) /\ ~Env(p) /\ ~Restart(p) /\ ~Undo(p) /\ ~UndoEnv(p)
    BY DEF Config, Env, CopyFile, Restart, Undo, UndoEnv, Move, FilesTypeOK
  <2> QED BY <1>3, <2>1, <2>2 DEF XrayStep
<1>4. ~StageDb(p) /\ ~Swap(p) /\ ~UndoDb(p)
  BY DEF StageDb, Swap, UndoDb, Move, FilesTypeOK
<1>5. ~Activate(p, "agent", "helper") /\ ~Activate(p, "helper", "schedule")
  BY DEF Activate, Move, FilesTypeOK
<1> QED BY <1>2, <1>3, <1>4, <1>5, Mover DEF XuiStep, UpgradeStep

LEMMA NoStaging ==
  ASSUME FilesTypeOK, file' = Without(Staging)
  PROVE  file'["config"] = file["config"] /\ file'["env"] = file["env"]
<1>1. "config" \in Paths \ Staging /\ "env" \in Paths \ Staging /\ file \in [Paths -> Contents]
  BY DEF Paths, Staging, FilesTypeOK
<1> QED BY <1>1, WithoutFiles

\* What an upgrade has put back.
LEMMA RolledBack ==
  ASSUME FilesInv, NEW p \in Helpers, RollBack(p), UpgradeInv(p), p \notin unrestored'
  PROVE  \A t \in Binaries : file'[t] = saved[p][t]
<1>1. PICK ts \in SUBSET Restorable(p) :
        /\ file' = [f \in Paths |-> IF f \in ts THEN file[Previous(f)]
                                    ELSE IF \E t \in ts : f = Previous(t) /\ file[t] # file[f] THEN None
                                    ELSE file[f]]
        /\ unrestored' = IF ts = Restorable(p) THEN unrestored ELSE unrestored \cup {p}
  BY DEF RollBack
<1>2. ts = Restorable(p) /\ pc[p] = "roll back"
  BY <1>1 DEF RollBack, At
<1>3. ASSUME NEW t \in Binaries PROVE file'[t] = saved[p][t]
  <2>1. CASE t \in changed[p]
    <3>1. file[Previous(t)] = saved[p][t] /\ saved[p][t] # None
      BY <1>2, <2>1 DEF UpgradeInv, UpgradeLabels, Linked, Binaries
    <3> QED BY <1>1, <1>2, <2>1, <3>1, UpgradeBefore DEF Restorable
  <2>2. CASE t \notin changed[p]
    <3>1. file[t] = saved[p][t]
      BY <1>2, <2>2 DEF UpgradeInv
    <3>2. t \notin ts /\ ts \subseteq Binaries
      BY <1>2, <2>2, UpgradeBefore DEF Restorable
    <3> QED BY <1>1, <3>1, <3>2, UpgradeBefore
  <2> QED BY <2>1, <2>2
<1> QED BY <1>3

LEMMA FailureStep ==
  ASSUME FilesInv, [FilesNext]_disks, NEW p \in Helpers, Ends(p, "failed"), p \notin unrestored',
         NEW f \in Live(job[p])
  PROVE  \/ file'[f] = saved[p][f]
         \/ f = "db" /\ file'[f] \in {Late, Torn(p)}
         \/ f = "config" /\ saved[p][f] = None
<1>1. /\ FilesTypeOK /\ JobInv /\ JobsInv /\ pc'[p] = "failed" /\ pc[p] # "failed" /\ job[p] \notin overlapped
  BY DEF FilesInv, Ends
<1>2. ASSUME NEW next, Move(p, next) PROVE next = "failed"
  BY <1>1, <1>2 DEF Move, FilesTypeOK
<1>3. CASE Return(p)
  <2>1. At(p, "lost") /\ file' = Without(Staging) /\ unrestored' = unrestored
    BY <1>2, <1>3 DEF Return
  <2>2. job[p] = "xray" /\ XrayInv(p)
    BY <1>1, <2>1 DEF JobInv, JobsInv, XrayLabels, At
  <2>3. Restored(p, "config") /\ Restored(p, "env") /\ f \in {"config", "env"}
    BY <2>1, <2>2 DEF XrayInv, At, Live
  <2> QED BY <1>1, <2>1, <2>3, NoStaging DEF Restored
<1>4. CASE KeepDb(p) \/ Stop(p) \/ StartXui(p) \/ StartAgain(p)
  <2>1. pc[p] \in {"keep db", "stop", "start again"} /\ UNCHANGED <<file, unrestored>>
    BY <1>2, <1>4 DEF KeepDb, Stop, StartXui, StartAgain, At
  <2>2. job[p] = "xui" /\ XuiInv(p)
    BY <1>1, <2>1 DEF JobInv, JobsInv, XuiLabels
  <2> QED BY <2>1, <2>2 DEF XuiInv, Copied, Live
<1>5. CASE Download(p) \/ Prepare(p) \/ Schedule(p) \/ RollBack(p)
           \/ Link(p, "agent", "link agent", "link helper") \/ Link(p, "helper", "link helper", "agent")
  <2>1. pc[p] \in UpgradeLabels
    BY <1>5 DEF Download, Prepare, Schedule, RollBack, Link, At, UpgradeLabels
  <2>2. job[p] = "upgrade" /\ UpgradeInv(p) /\ f \in Binaries
    BY <1>1, <2>1 DEF JobInv, JobsInv, Live, Binaries
  <2>3. CASE Download(p) \/ Prepare(p)
    BY <2>2, <2>3 DEF Download, Prepare, At, UpgradeInv
  <2>4. CASE RollBack(p)
    BY <2>2, <2>4, RolledBack
  <2>5. ~Schedule(p)
    BY <1>2 DEF Schedule
  <2>6. ASSUME NEW t \in Binaries, NEW label \in {"link agent", "link helper"}, NEW next \in {"link helper", "agent"},
               Link(p, t, label, next)
        PROVE  file'[f] = saved[p][f]
    <3>1. pc[p] = label /\ file' \in {file, Put(Previous(t), None)}
      BY <1>2, <2>6 DEF Link, At
    <3>2. file'[f] = file[f]
      <4>1. Previous(t) \in Paths /\ f \in Paths /\ f # Previous(t) /\ None \in Contents /\ file \in [Paths -> Contents]
        BY <2>2, UpgradeBefore, ContentsDiffer
      <4>2. CASE file' = Put(Previous(t), None)
        BY <4>1, <4>2 DEF Put
      <4> QED BY <3>1, <4>2
    <3> QED BY <2>2, <3>1, <3>2 DEF UpgradeInv
  <2> QED BY <1>5, <2>3, <2>4, <2>5, <2>6 DEF Binaries
<1> QED BY <1>1, <1>3, <1>4, <1>5, Enders

LEMMA SuccessStep ==
  ASSUME FilesInv, [FilesNext]_disks, NEW p \in Helpers, Ends(p, "done")
  PROVE  CASE job[p] = "xray" -> /\ file'["config"] = Given(p)
                                 /\ file'["env"] = IF archive[p].env THEN Given(p) ELSE None
           [] job[p] = "xui" -> file'["db"] = Given(p)
           [] job[p] = "upgrade" -> file'["agent"] = New /\ file'["helper"] = New
<1>1. FilesTypeOK /\ JobInv /\ JobsInv /\ pc'[p] = "done" /\ pc[p] # "done" /\ job[p] \notin overlapped
  BY DEF FilesInv, Ends
<1>2. ASSUME NEW next, Move(p, next) PROVE next = "done"
  BY <1>1, <1>2 DEF Move, FilesTypeOK
<1>3. CASE Return(p)
  <2>1. At(p, "won") /\ file' = Without(Staging)
    BY <1>2, <1>3 DEF Return
  <2>2. job[p] = "xray" /\ XrayInv(p)
    BY <1>1, <2>1 DEF JobInv, JobsInv, XrayLabels, At
  <2>3. file'["config"] = Given(p) /\ file'["env"] = EnvOf(p)
    BY <1>1, <2>1, <2>2, NoStaging DEF XrayInv, At
  <2> QED BY <2>2, <2>3 DEF EnvOf
<1>4. CASE KeepDb(p) \/ Stop(p) \/ StartXui(p) \/ StartAgain(p)
  <2>1. pc[p] = "start" /\ UNCHANGED file
    BY <1>2, <1>4 DEF KeepDb, Stop, StartXui, StartAgain, At
  <2>2. job[p] = "xui" /\ XuiInv(p)
    BY <1>1, <2>1 DEF JobInv, JobsInv, XuiLabels
  <2> QED BY <2>1, <2>2 DEF XuiInv
<1>5. CASE Download(p) \/ Prepare(p) \/ Schedule(p) \/ RollBack(p)
           \/ Link(p, "agent", "link agent", "link helper") \/ Link(p, "helper", "link helper", "agent")
  <2>1. Prepare(p) \/ Schedule(p)
    BY <1>2, <1>5 DEF Download, RollBack, Link
  <2>2. pc[p] \in UpgradeLabels
    BY <2>1 DEF Prepare, Schedule, At, UpgradeLabels
  <2>3. job[p] = "upgrade" /\ UpgradeInv(p)
    BY <1>1, <2>2 DEF JobInv, JobsInv
  <2>4. CASE Prepare(p)
    <3>1. changed'[p] = {} /\ UNCHANGED file
      BY <1>2, <2>4 DEF Prepare
    <3>2. changed'[p] = {t \in Binaries : file[t] # New}
      BY <1>1, <2>4 DEF Prepare, Outdated, FilesTypeOK, Binaries
    <3>3. file["agent"] = New /\ file["helper"] = New
      BY <3>1, <3>2 DEF Binaries
    <3> QED BY <2>3, <3>1, <3>3
  <2>5. CASE Schedule(p)
    BY <2>3, <2>5 DEF Schedule, At, UpgradeInv
  <2> QED BY <2>1, <2>4, <2>5
<1> QED BY <1>1, <1>3, <1>4, <1>5, Enders

\* The inductive invariant of all jobs, their rollbacks, kills and reboots.
THEOREM FilesSafety == FilesSpec => []FilesInv
<1> QED BY InitInv, NextInv, PTL DEF FilesSpec

\* The types, for any number of helpers.
THEOREM FilesTypes == FilesSpec => []FilesTypeOK
<1>1. FilesInv => FilesTypeOK
  BY DEF FilesInv
<1> QED BY <1>1, FilesSafety, PTL

\* The configuration that xray starts with next was there or passed its test whole,
\* and both binaries are there.
THEOREM LiveConfigIsTested == FilesSpec => []LiveIsTested
<1>1. FilesInv => LiveIsTested
  BY DEF FilesInv, LiveInv, Good, BinariesThere, Binaries, LiveIsTested
<1> QED BY <1>1, FilesSafety, PTL

\* A job that fails has put back what it found, but for what the property names.
THEOREM FailurePutsBack == FilesSpec => FailureRestores
<1>1. FilesInv /\ [FilesNext]_disks =>
        [\A p \in Helpers :
           Ends(p, "failed") /\ p \notin unrestored'
             => \A f \in Live(job[p]) : \/ file'[f] = saved[p][f]
                                        \/ f = "db" /\ file'[f] \in {Late, Torn(p)}
                                        \/ f = "config" /\ saved[p][f] = None]_disks
  BY FailureStep
<1> QED BY <1>1, FilesSafety, PTL DEF FilesSpec, FailureRestores

\* A job that succeeds has installed all it was to install.
THEOREM SuccessIsComplete == FilesSpec => SuccessInstalls
<1>1. FilesInv /\ [FilesNext]_disks =>
        [\A p \in Helpers :
           Ends(p, "done")
             => CASE job[p] = "xray" -> /\ file'["config"] = Given(p)
                                        /\ file'["env"] = IF archive[p].env THEN Given(p) ELSE None
                  [] job[p] = "xui" -> file'["db"] = Given(p)
                  [] job[p] = "upgrade" -> file'["agent"] = New /\ file'["helper"] = New]_disks
  BY SuccessStep
<1> QED BY <1>1, FilesSafety, PTL DEF FilesSpec, SuccessInstalls
=============================================================================
