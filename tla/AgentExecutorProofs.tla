------------------------ MODULE AgentExecutorProofs ------------------------
(***************************************************************************)
(* Proofs about AgentExecutor, for every set of workers and requests, all  *)
(* limits and sizes of the journal, and any number of deliveries and       *)
(* faults.                                                                 *)
(***************************************************************************)
EXTENDS AgentExecutor, SequenceTheorems, WellFoundedInduction, TLAPS

\* The ids of a list are distinct.
DistinctIds(list) == \A i, k \in DOMAIN list : list[i].id = list[k].id => i = k

\* The file is the list in memory, or was lost; what only memory holds counts as
\* forgotten.
JournalInv ==
  /\ Openable(file)
  /\ file = entries \/ file = << >>
  /\ DistinctIds(entries)
  /\ Ids(entries) \subseteq Ids(file) \cup forgotten

\* A worker has a job, and an outcome when it leaves; past claim it owns its
\* request, and stateMu if it executes a state-changing action.
ClaimsInv ==
  /\ \A w \in Workers : at[w] # "idle" => job[w] \in Jobs
  /\ \A w \in Workers : at[w] = "leave" => answer[w] \in Outcomes
  /\ \A w \in Workers : at[w] \in {"lock", "run", "running"} => w \in deferred
  /\ \A w \in deferred : /\ at[w] \in {"lock", "run", "running", "leave"}
                         /\ job[w].id \in active
  /\ \A v, w \in deferred : v # w => job[v].id # job[w].id
  /\ \A w \in Workers : Executing(w) /\ Changes(w) => stateMu = w

\* The command whose result an entry holds.
Command(x) == [id |-> x.id, action |-> x.action]

\* A command that is running was run, and one whose failure is recorded was run
\* before any run of it that still goes on.
RunsInv ==
  /\ \A w \in Workers : at[w] = "running" => runs[job[w]] > 0
  /\ \A x \in ToSet(entries) : x.outcome = "failed" =>
       /\ runs[Command(x)] > 0
       /\ \A w \in Workers : at[w] = "running" /\ job[w] = Command(x) => runs[job[w]] > 1

\* A state-changing command that ran is still running, recorded or forgotten; if it
\* is about to run again, it was forgotten; a success about to be reported is durable.
HistoryInv ==
  /\ \A c \in Jobs : c.action \in StateChanging /\ runs[c] > 0 =>
       \/ c.id \in Ids(entries) \cup forgotten
       \/ \E w \in Workers : at[w] = "running" /\ job[w] = c
  /\ \A w \in Workers : at[w] = "run" /\ Changes(w) /\ runs[job[w]] > 0 => job[w].id \in forgotten
  /\ \A w \in Workers : at[w] = "leave" /\ answer[w] = "succeeded" => Durable(job[w])
  /\ ChangeRunsOnce
  /\ SuccessIsDurable

ExecutorInv == ExecutorTypeOK /\ JournalInv /\ ClaimsInv /\ RunsInv /\ HistoryInv

-----------------------------------------------------------------------------
\* A set of natural numbers that is not empty has a least element.
LEMMA LeastNumber ==
  ASSUME NEW S \in SUBSET Nat, S # {}
  PROVE  \E k \in S : \A i \in S : k <= i
<1>1. PICK k \in S : \A i \in S : ~(<<i, k>> \in OpToRel(<, Nat))
  <2> HIDE DEF OpToRel
  <2> QED
    BY NatLessThanWellFounded, WFMin, Zenon
<1>2. ASSUME NEW i \in S PROVE k <= i
  <2>1. ~(i < k)
    BY <1>1 DEF OpToRel
  <2> QED
    BY <2>1
<1> QED
  BY <1>2

\* The empty list has no bytes.
LEMMA NoBytes ==
  ASSUME NEW size
  PROVE  Bytes(<< >>, size) = 0
<1> DEFINE step(f) == [s \in SUBSET {} |->
                         IF s = {} THEN 0 ELSE f[s \ {Max(s)}] + size[<< >>[Max(s)].weight]]
           sum == CHOOSE f : f = step(f)
<1>1. Bytes(<< >>, size) = sum[{}]
  BY DOMAIN << >> = {} DEF Bytes, FoldLeft, MapThenFoldSet
<1>2. \A f : step(f) = [s \in SUBSET {} |-> 0]
  <2>1. \A s \in SUBSET {} : s = {}
    OBVIOUS
  <2> QED
    BY <2>1, Zenon
<1>3. sum = step(sum)
  BY <1>2, Zenon
<1>4. sum = [s \in SUBSET {} |-> 0]
  BY <1>2, <1>3, Zenon
<1> HIDE DEF sum
<1> QED
  BY <1>1, <1>4

\* Trimming leaves a suffix that is within the limits.
LEMMA TrimmedFacts ==
  ASSUME NEW list \in Seq(Entries)
  PROVE  /\ \E k \in 1 .. Len(list) + 1 : Trimmed(list) = SubSeq(list, k, Len(list))
         /\ WithinLimits(Trimmed(list))
<1> DEFINE n == Len(list) + 1
           Fits(k) == WithinLimits(SubSeq(list, k, Len(list)))
           First(k) == Fits(k) /\ \A i \in 1 .. k - 1 : ~Fits(i)
<1>1. n \in Nat \ {0}
  OBVIOUS
<1>2. Fits(n)
  <2>1. SubSeq(list, Len(list) + 1, Len(list)) = << >>
    OBVIOUS
  <2>2. WithinLimits(<< >>)
    BY NoBytes, RequestJournalAssumption DEF WithinLimits, CompactBytes
  <2> QED
    BY <2>1, <2>2, Zenon
<1> HIDE DEF n, Fits
<1> DEFINE fits == {k \in 1 .. n : Fits(k)}
<1>3. n \in fits /\ fits \in SUBSET Nat
  BY <1>1, <1>2
<1>4. PICK k \in fits : \A i \in fits : k <= i
  BY <1>3, LeastNumber
<1>5. k \in 1 .. n /\ First(k)
  <2>1. ASSUME NEW i \in 1 .. k - 1, Fits(i)
        PROVE  FALSE
    <3>1. i \in fits
      BY <1>1, <1>4, <2>1
    <3> QED
      BY <1>1, <1>4, <3>1
  <2> QED
    BY <1>4, <2>1
<1> DEFINE from == CHOOSE j \in 1 .. n : First(j)
<1>6. from \in 1 .. n /\ First(from)
  <2> HIDE DEF First
  <2> QED
    BY <1>5, Zenon
<1>7. Trimmed(list) = SubSeq(list, from, Len(list))
  BY Zenon DEF Trimmed, n, Fits
<1> HIDE DEF from
<1>8. WithinLimits(Trimmed(list)) /\ from \in 1 .. Len(list) + 1
  BY <1>6, <1>7, Zenon DEF n, Fits
<1> QED
  BY <1>7, <1>8, Zenon

\* What trimming keeps of a list: types, distinct ids, and nothing new.
LEMMA TrimmedKeeps ==
  ASSUME NEW list \in Seq(Entries), DistinctIds(list)
  PROVE  /\ Trimmed(list) \in Seq(Entries)
         /\ Ids(Trimmed(list)) \subseteq Ids(list)
         /\ ToSet(Trimmed(list)) \subseteq ToSet(list)
         /\ DistinctIds(Trimmed(list))
<1>1. PICK k \in 1 .. Len(list) + 1 : Trimmed(list) = SubSeq(list, k, Len(list))
  BY TrimmedFacts
<1>2. /\ Trimmed(list) \in Seq(Entries)
      /\ DOMAIN Trimmed(list) = 1 .. Len(list) - k + 1
      /\ \A i \in DOMAIN Trimmed(list) : Trimmed(list)[i] = list[i + k - 1]
  BY <1>1
<1>3. \A i \in DOMAIN Trimmed(list) : i + k - 1 \in DOMAIN list
  BY <1>2
<1>4. Ids(Trimmed(list)) \subseteq Ids(list)
  BY <1>2, <1>3 DEF Ids
<1>5. DistinctIds(Trimmed(list))
  BY <1>2, <1>3 DEF DistinctIds
<1>6. ToSet(Trimmed(list)) \subseteq ToSet(list)
  BY <1>2, <1>3 DEF ToSet
<1> QED
  BY <1>2, <1>4, <1>5, <1>6

\* Entries of a list with distinct ids are told apart by them.
LEMMA OneEntryPerId ==
  ASSUME NEW list \in Seq(Entries), DistinctIds(list),
         NEW x \in ToSet(list), NEW y \in ToSet(list), x.id = y.id
  PROVE  x = y
<1>1. PICK i \in DOMAIN list : x = list[i]
  BY DEF ToSet
<1>2. PICK k \in DOMAIN list : y = list[k]
  BY DEF ToSet
<1> QED BY <1>1, <1>2 DEF DistinctIds

\* What Lookup finds for a recorded request.
LEMMA EntryFound ==
  ASSUME NEW r, Recorded(r)
  PROVE  EntryOf(r) \in ToSet(entries) /\ EntryOf(r).id = r
<1>1. \E e \in ToSet(entries) : e.id = r
  BY DEF Recorded, Ids, ToSet
<1> QED BY <1>1 DEF EntryOf

\* An entry in memory is in the file, or its request counts as forgotten.
LEMMA KeptInFile ==
  ASSUME JournalInv, NEW x \in ToSet(entries)
  PROVE  x \in ToSet(file) \/ x.id \in forgotten
<1>1. CASE file = entries
  BY <1>1
<1>2. CASE file = << >>
  <2>1. Ids(file) = {} /\ x.id \in Ids(entries)
    BY <1>2 DEF Ids, ToSet
  <2> QED BY <2>1 DEF JournalInv
<1> QED BY <1>1, <1>2 DEF JournalInv

\* A success stays durable while the file keeps its entries or forgets them.
LEMMA DurableKept ==
  ASSUME NEW c, Durable(c),
         forgotten \subseteq forgotten',
         \A x \in ToSet(file) : x \in ToSet(file') \/ x.id \in forgotten',
         runs[c] > 1 => runs'[c] > 1
  PROVE  Durable(c)'
BY DEF Durable

-----------------------------------------------------------------------------
\* What Record leaves behind, whatever it did.
Recording(w, outcome, ok) ==
  /\ entries' \in Seq(Entries)
  /\ file' \in Seq(Entries)
  /\ forgotten' \in SUBSET RequestIds
  /\ faults' \in Nat
  /\ JournalInv'
  /\ forgotten \subseteq forgotten'
  /\ Ids(entries) \subseteq Ids(entries') \cup forgotten'
  /\ Ids(file) \subseteq Ids(file') \cup forgotten'
  /\ job[w].id \in Ids(entries') \cup forgotten'
  /\ ok => job[w].id \in Ids(entries')
  /\ \A x \in ToSet(entries') :
       x \in ToSet(entries) \/ (Command(x) = job[w] /\ x.outcome = outcome)
  /\ \A x \in ToSet(file) : x \in ToSet(file') \/ x.id \in forgotten'
  /\ ok => \E x \in ToSet(entries') :
              /\ x.id = job[w].id
              /\ x.outcome = outcome \/ (x \in ToSet(entries) /\ Command(x) = job[w])

LEMMA PersistRecords ==
  ASSUME ExecutorTypeOK, JournalInv, NEW w \in Workers, job[w] \in Jobs,
         NEW outcome \in Recordable, NEW ok \in BOOLEAN, Persist(w, outcome, ok)
  PROVE  Recording(w, outcome, ok)
<1> USE DEF Recording
<1> DEFINE r == job[w].id
           Entry(weight) == [id |-> r, action |-> job[w].action, outcome |-> outcome, weight |-> weight]
<1>0. r \in RequestIds /\ Ids(entries) \subseteq RequestIds /\ Ids(file) \subseteq RequestIds
  <2>1. ASSUME NEW list \in Seq(Entries), NEW i \in DOMAIN list
        PROVE  list[i].id \in RequestIds
    <3>1. list[i] \in Entries
      OBVIOUS
    <3> QED
      BY <3>1 DEF Entries
  <2>2. Ids(entries) \subseteq RequestIds
    BY <2>1 DEF ExecutorTypeOK, Ids
  <2>3. Ids(file) \subseteq RequestIds
    BY <2>1 DEF ExecutorTypeOK, Ids
  <2> QED
    BY <2>2, <2>3 DEF Jobs
<1>1. PICK weight \in Weights :
        \/ RecordKnown(Entry(weight), ok) /\ UNCHANGED <<forgotten, faults>>
        \/ RecordRefused(Entry(weight)) /\ ~ok /\ forgotten' = forgotten \cup {r} /\ UNCHANGED faults
        \/ /\ RecordInstalled(Entry(weight)) /\ ok
           /\ forgotten' = forgotten \cup (Ids(entries) \ Ids(entries')) /\ UNCHANGED faults
        \/ /\ faults' = faults + 1 /\ RecordFails(Entry(weight)) /\ ~ok
           /\ forgotten' = forgotten \cup {r} \cup (Ids(file) \ Ids(file'))
  BY Zenon DEF Persist
<1> DEFINE e == Entry(weight)
<1>2. e \in Entries /\ e.id = r /\ e.outcome = outcome /\ Command(e) = job[w]
  BY DEF Entries, ExecutorTypeOK, Jobs, Command
<1> HIDE DEF e
<1>3. CASE RecordKnown(e, ok) /\ UNCHANGED <<forgotten, faults>>
  <2>1. UNCHANGED <<entries, file, forgotten>> /\ Recorded(r)
    BY <1>2, <1>3 DEF RecordKnown
  <2>2. EntryOf(r) \in ToSet(entries) /\ EntryOf(r).id = r
    BY <2>1, EntryFound
  <2>3. ok => Command(EntryOf(r)) = job[w]
    BY <1>2, <1>3, <2>2 DEF RecordKnown, Command
  <2> QED
    BY <1>2, <1>3, <2>1, <2>2, <2>3 DEF Recorded, ExecutorTypeOK, JournalInv
<1>4. CASE RecordRefused(e) /\ ~ok /\ forgotten' = forgotten \cup {r} /\ UNCHANGED faults
  BY <1>0, <1>4 DEF RecordRefused, ExecutorTypeOK, JournalInv
<1>5. CASE /\ RecordInstalled(e) /\ ok
           /\ forgotten' = forgotten \cup (Ids(entries) \ Ids(entries')) /\ UNCHANGED faults
  <2> DEFINE list == Append(entries, e)
  <2>1. /\ entries' = Trimmed(list) /\ file' = Trimmed(list)
        /\ Installable(Trimmed(list), e) /\ ~Recorded(e.id)
    BY <1>5 DEF RecordInstalled
  <2>2. list \in Seq(Entries) /\ DistinctIds(list)
    BY <1>2, <2>1 DEF ExecutorTypeOK, JournalInv, DistinctIds, Recorded, Ids
  <2> HIDE DEF list
  <2>3. /\ Trimmed(list) \in Seq(Entries) /\ DistinctIds(Trimmed(list))
        /\ WithinLimits(Trimmed(list))
    BY <2>2, TrimmedKeeps, TrimmedFacts
  <2>4. Openable(Trimmed(list))
    BY <2>1, <2>3 DEF Openable, Installable, WithinLimits, DistinctIds
  <2>5. r \in Ids(entries')
    BY <1>2, <2>1 DEF Installable
  <2>6. Ids(file) \subseteq Ids(entries) /\ ToSet(file) \subseteq ToSet(entries)
    BY DEF JournalInv, Ids, ToSet
  <2>7. ToSet(list) = ToSet(entries) \cup {e} /\ ToSet(entries') \subseteq ToSet(list)
    <3>0. entries \in Seq(Entries)
      BY DEF ExecutorTypeOK
    <3>1. ToSet(list) = ToSet(entries) \cup {e}
      <4>1. Len(list) = Len(entries) + 1 /\ list[Len(entries) + 1] = e
        BY <1>2, <3>0, AppendProperties DEF list
      <4>2. \A i \in 1 .. Len(entries) : list[i] = entries[i]
        BY <1>2, <3>0, AppendProperties DEF list
      <4>3. DOMAIN list = 1 .. Len(entries) + 1 /\ DOMAIN entries = 1 .. Len(entries)
        BY <2>2, <3>0, <4>1, LenProperties
      <4>4. Len(entries) \in Nat
        BY <3>0, LenProperties
      <4>5. ToSet(list) \subseteq ToSet(entries) \cup {e}
        BY <4>1, <4>2, <4>3, <4>4 DEF ToSet
      <4>6. ToSet(entries) \subseteq ToSet(list)
        BY <4>1, <4>2, <4>3, <4>4 DEF ToSet
      <4>7. e \in ToSet(list)
        BY <4>1, <4>3, <4>4 DEF ToSet
      <4> QED BY <4>5, <4>6, <4>7
    <3> QED BY <2>1, <2>2, <3>1, TrimmedKeeps
  <2>8. ASSUME NEW x \in ToSet(list), x.id \in Ids(entries')
        PROVE  x \in ToSet(entries')
    <3>1. PICK y \in ToSet(entries') : y.id = x.id
      BY <2>8 DEF Ids, ToSet
    <3> QED BY <2>2, <2>7, <3>1, OneEntryPerId
  <2>9. e \in ToSet(entries')
    BY <1>2, <2>5, <2>7, <2>8
  <2>10. ASSUME NEW x \in ToSet(file)
         PROVE  x \in ToSet(file') \/ x.id \in forgotten'
    <3>1. x \in ToSet(list) /\ x.id \in Ids(file)
      BY <2>6, <2>7 DEF Ids, ToSet
    <3> QED BY <1>5, <2>1, <2>6, <2>8, <3>1
  <2> QED
    BY <1>0, <1>2, <1>5, <2>1, <2>3, <2>4, <2>5, <2>6, <2>7, <2>9, <2>10 DEF JournalInv, ExecutorTypeOK
<1>6. CASE /\ faults' = faults + 1 /\ RecordFails(e) /\ ~ok
           /\ forgotten' = forgotten \cup {r} \cup (Ids(file) \ Ids(file'))
  <2>1. entries' = entries /\ (file' = file \/ file' = << >>)
    BY <1>6 DEF RecordFails
  <2>2. Openable(<< >>)
    BY NoBytes, RequestJournalAssumption DEF Openable, IndentedBytes
  <2>3. file' \in Seq(Entries) /\ faults' \in Nat
    <3>1. << >> \in Seq(Entries)
      OBVIOUS
    <3>2. file' \in Seq(Entries)
      BY <2>1, <3>1, Zenon DEF ExecutorTypeOK
    <3>3. faults' \in Nat
      BY <1>6 DEF ExecutorTypeOK
    <3> QED
      BY <3>2, <3>3
  <2>4. ASSUME NEW x \in ToSet(file)
        PROVE  x \in ToSet(file') \/ x.id \in forgotten'
    <3>1. x.id \in Ids(file) /\ (file' = << >> => x.id \notin Ids(file'))
      BY DEF Ids, ToSet
    <3> QED BY <1>6, <2>1, <3>1
  <2> QED
    BY <1>0, <1>6, <2>1, <2>2, <2>3, <2>4 DEF JournalInv, ExecutorTypeOK
<1> QED
  BY <1>1, <1>3, <1>4, <1>5, <1>6 DEF e

\* What Refuse and Finish have in common: a result is recorded, then answered.
LEMMA RecordedThenAnswered ==
  ASSUME ExecutorInv, NEW w \in Workers, Refuse(w) \/ Finish(w)
  PROVE  \E recorded \in Recordable, ok \in BOOLEAN, outcome \in Outcomes :
           /\ Recording(w, recorded, ok)
           /\ Answers(w, outcome)
           /\ outcome = "succeeded" => ok /\ recorded = "succeeded" /\ at[w] = "running"
           /\ recorded = "failed" => at[w] = "running"
<1>1. ExecutorTypeOK /\ JournalInv /\ job[w] \in Jobs
  BY DEF Refuse, Finish, ExecutorInv, ClaimsInv
<1>2. CASE Refuse(w)
  <2>1. PICK ok \in BOOLEAN : /\ Persist(w, "refused", ok)
                             /\ Answers(w, IF ok THEN "failed" ELSE "journal_failed")
    BY <1>2 DEF Refuse
  <2>2. Recording(w, "refused", ok)
    BY <1>1, <2>1, PersistRecords DEF Recordable
  <2> QED
    BY <2>1, <2>2 DEF Outcomes, Recordable
<1>3. CASE Finish(w)
  <2>1. PICK outcome \in {"succeeded", "failed"}, ok \in BOOLEAN :
          /\ Persist(w, outcome, ok)
          /\ Answers(w, IF ok THEN outcome ELSE "journal_failed")
    BY <1>3 DEF Finish
  <2>2. Recording(w, outcome, ok) /\ at[w] = "running"
    BY <1>1, <1>3, <2>1, PersistRecords DEF Recordable, Finish
  <2> QED
    BY <2>1, <2>2 DEF Outcomes, Recordable
<1> QED
  BY <1>2, <1>3

LEMMA TypeKept ==
  ASSUME ExecutorInv, [ExecutorNext]_executor
  PROVE  ExecutorTypeOK'
<1> USE DEF ExecutorTypeOK, Places, Goes, Answers, Outcomes
<1>0. ExecutorTypeOK /\ ClaimsInv
  BY DEF ExecutorInv
<1>1. ASSUME NEW w \in Workers, NEW c \in Jobs, Deliver(w, c)
      PROVE  ExecutorTypeOK'
  BY <1>0, <1>1 DEF Deliver, journal, locks, histories
<1>2. ASSUME NEW w \in Workers, Lookup(w)
      PROVE  ExecutorTypeOK'
  <2>1. /\ \E place \in {"leave", "claim", "refuse"} : Goes(w, place)
        /\ UNCHANGED answer \/ \E o \in Outcomes : answer' = [answer EXCEPT ![w] = o]
    BY <1>2 DEF Lookup, Persisted
  <2> QED
    BY <1>0, <1>2, <2>1 DEF Lookup, journal, locks, histories
<1>3. ASSUME NEW w \in Workers, Refuse(w) \/ Finish(w)
      PROVE  ExecutorTypeOK'
  <2>1. PICK recorded \in Recordable, ok \in BOOLEAN, outcome \in Outcomes :
          Recording(w, recorded, ok) /\ Answers(w, outcome)
    BY <1>3, RecordedThenAnswered
  <2> QED
    BY <1>0, <1>3, <2>1 DEF Recording, Refuse, Finish, locks
<1>4. ASSUME NEW w \in Workers, Claim(w)
      PROVE  ExecutorTypeOK'
  <2>1. job[w] \in Jobs
    BY <1>0, <1>4 DEF Claim, ClaimsInv
  <2>2. CASE job[w].id \in active
    BY <1>0, <1>4, <2>2 DEF Claim, journal, histories
  <2>3. CASE job[w].id \notin active
    BY <1>0, <1>4, <2>1, <2>3 DEF Claim, journal, histories, Jobs
  <2> QED
    BY <2>2, <2>3
<1>5. ASSUME NEW w \in Workers, Lock(w)
      PROVE  ExecutorTypeOK'
  BY <1>0, <1>5 DEF Lock, Persisted, journal, histories
<1>6. ASSUME NEW w \in Workers, Run(w)
      PROVE  ExecutorTypeOK'
  <2>1. job[w] \in Jobs
    BY <1>0, <1>6 DEF Run, ClaimsInv
  <2> QED
    BY <1>0, <1>6, <2>1 DEF Run, journal, locks
<1>7. ASSUME NEW w \in Workers, Leave(w)
      PROVE  ExecutorTypeOK'
  <2>1. job[w] \in Jobs
    BY <1>0, <1>7 DEF Leave, ClaimsInv
  <2> QED
    BY <1>0, <1>7, <2>1 DEF Leave, ClaimsInv, journal
<1>8. CASE Crash
  <2>1. \A w \in Workers : at[w] = "running" => job[w].id \in RequestIds
    BY <1>0 DEF ClaimsInv, Jobs
  <2> QED
    BY <1>0, <1>8, <2>1 DEF Crash, Reopen
<1>9. CASE UNCHANGED executor
  BY <1>0, <1>9 DEF executor, journal, workers, locks, histories
<1> QED
  BY <1>1, <1>2, <1>3, <1>4, <1>5, <1>6, <1>7, <1>8, <1>9 DEF ExecutorNext, Work

LEMMA JournalKept ==
  ASSUME ExecutorInv, [ExecutorNext]_executor
  PROVE  JournalInv'
<1>1. CASE UNCHANGED <<journal, forgotten>>
  BY <1>1 DEF ExecutorInv, JournalInv, journal
<1>2. ASSUME NEW w \in Workers, Refuse(w) \/ Finish(w)
      PROVE  JournalInv'
  BY <1>2, RecordedThenAnswered DEF Recording
<1>3. CASE Crash
  <2>1. entries' = file /\ file' = file /\ Openable(file)
    BY <1>3 DEF Crash, Reopen
  <2>2. DistinctIds(file)
    BY <2>1 DEF Openable, DistinctIds
  <2>3. Ids(file) \subseteq Ids(file) \cup forgotten'
    OBVIOUS
  <2> QED
    BY <2>1, <2>2, <2>3 DEF JournalInv
<1> QED
  BY <1>1, <1>2, <1>3
  DEF ExecutorNext, Work, Deliver, Lookup, Claim, Lock, Run, Leave, executor, histories

LEMMA ClaimsKept ==
  ASSUME ExecutorInv, [ExecutorNext]_executor
  PROVE  ClaimsInv'
<1> USE DEF ClaimsInv, Executing, Changes, Goes, Answers
<1>0. ExecutorTypeOK /\ ClaimsInv
  BY DEF ExecutorInv
<1> DEFINE Typed == /\ at \in [Workers -> Places]
                    /\ job \in [Workers -> Jobs \cup {None}]
                    /\ answer \in [Workers -> Outcomes \cup {None}]
                    /\ deferred \subseteq Workers
<1>t. Typed
  BY <1>0 DEF ExecutorTypeOK
<1>1. ASSUME NEW w \in Workers, NEW c \in Jobs, Deliver(w, c)
      PROVE  ClaimsInv'
  <2>1. w \notin deferred
    BY <1>0, <1>1 DEF Deliver
  <2> QED
    BY <1>0, <1>t, <1>1, <2>1 DEF Deliver, locks
<1>2. ASSUME NEW w \in Workers, Lookup(w)
      PROVE  ClaimsInv'
  <2>1. w \notin deferred
    BY <1>0, <1>2 DEF Lookup
  <2>2. CASE \E o \in Outcomes : Answers(w, o)
    BY <1>0, <1>t, <1>2, <2>1, <2>2 DEF Lookup, locks
  <2>3. CASE (\E place \in {"claim", "refuse"} : Goes(w, place)) /\ UNCHANGED answer
    BY <1>0, <1>t, <1>2, <2>1, <2>3 DEF Lookup, locks
  <2> QED
    BY <1>2, <2>2, <2>3 DEF Lookup, Persisted, Outcomes
<1>3. ASSUME NEW w \in Workers, Refuse(w) \/ Finish(w)
      PROVE  ClaimsInv'
  <2>1. PICK outcome \in Outcomes : Answers(w, outcome)
    BY <1>3, RecordedThenAnswered DEF Answers
  <2>2. at[w] \in {"refuse", "running"} /\ UNCHANGED <<job, active, deferred, stateMu>>
    BY <1>3 DEF Refuse, Finish, locks
  <2> QED
    BY <1>0, <1>t, <2>1, <2>2
<1>4. ASSUME NEW w \in Workers, Claim(w)
      PROVE  ClaimsInv'
  <2>1. w \notin deferred /\ job[w] \in Jobs
    BY <1>0, <1>4 DEF Claim
  <2>2. CASE job[w].id \in active
    BY <1>0, <1>t, <1>4, <2>1, <2>2 DEF Claim, Outcomes
  <2>3. CASE job[w].id \notin active
    BY <1>0, <1>t, <1>4, <2>1, <2>3 DEF Claim
  <2> QED
    BY <2>2, <2>3
<1>5. ASSUME NEW w \in Workers, Lock(w)
      PROVE  ClaimsInv'
  <2>0. \A v \in Workers : ~(Executing(v) /\ Changes(v))
    BY <1>0, <1>5, AgentExecutorAssumption DEF Lock
  <2>1. CASE RunAlready(job[w].id)
    BY <1>0, <1>t, <1>5, <2>0, <2>1 DEF Lock, Persisted, Outcomes
  <2>2. CASE ~RunAlready(job[w].id)
    BY <1>0, <1>t, <1>5, <2>0, <2>2 DEF Lock
  <2> QED
    BY <2>1, <2>2
<1>6. ASSUME NEW w \in Workers, Run(w)
      PROVE  ClaimsInv'
  BY <1>0, <1>t, <1>6 DEF Run, locks
<1>7. ASSUME NEW w \in Workers, Leave(w)
      PROVE  ClaimsInv'
  <2>1. \A v \in deferred' : v # w /\ v \in deferred
    BY <1>7 DEF Leave
  <2>2. \A v \in deferred' : job[v].id \in active'
    BY <1>0, <1>7, <2>1 DEF Leave, Releases
  <2> QED
    BY <1>0, <1>t, <1>7, <2>1, <2>2 DEF Leave, ReleasesMu
<1>8. CASE Crash
  BY <1>8 DEF Crash
<1>9. CASE UNCHANGED executor
  BY <1>0, <1>9 DEF executor, workers, locks
<1> QED
  BY <1>1, <1>2, <1>3, <1>4, <1>5, <1>6, <1>7, <1>8, <1>9 DEF ExecutorNext, Work

LEMMA RunsKept ==
  ASSUME ExecutorInv, [ExecutorNext]_executor
  PROVE  RunsInv'
<1> USE DEF RunsInv, Goes, Answers
<1>0. ExecutorTypeOK /\ JournalInv /\ ClaimsInv /\ RunsInv
  BY DEF ExecutorInv
<1> DEFINE Typed == /\ at \in [Workers -> Places]
                    /\ job \in [Workers -> Jobs \cup {None}]
                    /\ runs \in [Jobs -> Nat]
<1>t. Typed
  BY <1>0 DEF ExecutorTypeOK
<1>c. ASSUME NEW x \in ToSet(entries)
      PROVE  Command(x) \in Jobs
  <2>1. PICK i \in DOMAIN entries : x = entries[i]
    BY DEF ToSet
  <2>2. x \in Entries
    BY <1>0, <2>1 DEF ExecutorTypeOK
  <2> QED BY <2>2 DEF Entries, Command, Jobs
<1>1. ASSUME NEW w \in Workers,
             (\E c \in Jobs : Deliver(w, c)) \/ Lookup(w) \/ Claim(w) \/ Lock(w) \/ Leave(w)
      PROVE  RunsInv'
  <2>1. /\ UNCHANGED <<entries, runs>>
        /\ \A v \in Workers : at'[v] = "running" => at[v] = "running" /\ job'[v] = job[v]
    BY <1>t, <1>1 DEF Deliver, Lookup, Claim, Lock, Leave, Places, journal, histories
  <2> QED BY <1>0, <2>1
<1>2. ASSUME NEW w \in Workers, Refuse(w) \/ Finish(w)
      PROVE  RunsInv'
  <2>1. PICK recorded \in Recordable, ok \in BOOLEAN, outcome \in Outcomes :
           /\ Recording(w, recorded, ok)
           /\ Answers(w, outcome)
           /\ outcome = "succeeded" => ok /\ recorded = "succeeded" /\ at[w] = "running"
           /\ recorded = "failed" => at[w] = "running"
    BY <1>2, RecordedThenAnswered, Zenon
  <2>2. UNCHANGED <<job, runs>> /\ at' = [at EXCEPT ![w] = "leave"]
    BY <1>2, <2>1 DEF Refuse, Finish, locks
  <2>3. \A v \in Workers : at'[v] = "running" => v # w /\ at[v] = "running"
    BY <1>t, <2>2
  <2>4. ASSUME NEW x \in ToSet(entries'), x.outcome = "failed", x \notin ToSet(entries)
        PROVE  /\ runs[Command(x)] > 0
               /\ \A v \in Workers : at'[v] = "running" => job[v] # Command(x)
    <3>1. Command(x) = job[w] /\ at[w] = "running"
      BY <2>1, <2>4 DEF Recording
    <3>2. \A v \in Workers : v # w /\ at[v] = "running" => job[v].id # job[w].id
      BY <1>0, <3>1 DEF ClaimsInv
    <3> QED BY <1>0, <2>3, <3>1, <3>2
  <2>5. ToSet(entries)' = ToSet(entries')
    BY DEF ToSet
  <2> QED BY <1>0, <2>2, <2>3, <2>4, <2>5 DEF Command
<1>3. ASSUME NEW w \in Workers, Run(w)
      PROVE  RunsInv'
  <2>1. /\ UNCHANGED <<entries, job>> /\ at' = [at EXCEPT ![w] = "running"]
        /\ at[w] = "run" /\ runs' = [runs EXCEPT ![job[w]] = @ + 1]
    BY <1>3 DEF Run, journal
  <2>2. job[w] \in Jobs
    BY <1>0, <2>1 DEF ClaimsInv
  <2>3. \A c \in Jobs : runs'[c] \in Nat /\ runs[c] \in Nat /\ runs'[c] >= runs[c]
    BY <1>t, <2>1, <2>2
  <2>4. runs'[job[w]] = runs[job[w]] + 1 /\ runs[job[w]] \in Nat
    BY <1>t, <2>1, <2>2
  <2>5. ASSUME NEW v \in Workers, at'[v] = "running"
        PROVE  runs'[job[v]] > 0
    <3>1. CASE v = w
      BY <2>4, <3>1
    <3>2. CASE v # w
      <4>1. at[v] = "running" /\ job[v] \in Jobs
        BY <1>0, <1>t, <2>1, <2>5, <3>2 DEF ClaimsInv
      <4>2. runs[job[v]] > 0
        BY <1>0, <4>1
      <4> QED BY <2>3, <4>1, <4>2
    <3> QED BY <3>1, <3>2
  <2>6. ASSUME NEW x \in ToSet(entries), x.outcome = "failed"
        PROVE  /\ runs'[Command(x)] > 0
               /\ \A v \in Workers : at'[v] = "running" /\ job[v] = Command(x) => runs'[job[v]] > 1
    <3>1. runs[Command(x)] > 0 /\ Command(x) \in Jobs
      BY <1>0, <1>c, <2>6
    <3>2. ASSUME NEW v \in Workers, at'[v] = "running", job[v] = Command(x)
          PROVE  runs'[job[v]] > 1
      <4>1. CASE v = w
        BY <2>4, <3>1, <3>2, <4>1
      <4>2. CASE v # w
        <5>1. at[v] = "running"
          BY <1>t, <2>1, <3>2, <4>2
        <5>2. runs[job[v]] > 1
          BY <1>0, <2>6, <3>2, <5>1
        <5>3. job[v] \in Jobs
          BY <3>1, <3>2
        <5> QED BY <2>3, <5>2, <5>3
      <4> QED BY <4>1, <4>2
    <3>3. runs'[Command(x)] > 0
      BY <2>3, <3>1
    <3> QED BY <3>2, <3>3
  <2> QED BY <2>1, <2>5, <2>6 DEF Command
<1>4. CASE Crash
  <2>1. entries' = file /\ runs' = runs /\ \A v \in Workers : at'[v] = "idle"
    BY <1>4 DEF Crash, Reopen
  <2>2. ToSet(entries') \subseteq ToSet(entries)
    BY <1>0, <2>1 DEF JournalInv, ToSet
  <2> QED BY <1>0, <2>1, <2>2 DEF Command
<1>5. CASE UNCHANGED executor
  BY <1>0, <1>5 DEF executor, journal, workers, histories
<1> QED
  BY <1>1, <1>2, <1>3, <1>4, <1>5 DEF ExecutorNext, Work

LEMMA HistoryKept ==
  ASSUME ExecutorInv, [ExecutorNext]_executor
  PROVE  HistoryInv'
<1> USE DEF HistoryInv, ChangeRunsOnce, SuccessIsDurable, Changes, Goes, Answers
<1>0. ExecutorTypeOK /\ JournalInv /\ ClaimsInv /\ RunsInv /\ HistoryInv
  BY DEF ExecutorInv
<1> DEFINE Typed == /\ at \in [Workers -> Places]
                    /\ job \in [Workers -> Jobs \cup {None}]
                    /\ answer \in [Workers -> Outcomes \cup {None}]
                    /\ runs \in [Jobs -> Nat]
                    /\ reported \subseteq Jobs
<1>t. Typed
  BY <1>0 DEF ExecutorTypeOK
<1>s. ASSUME UNCHANGED <<file, forgotten, runs>>, NEW c
      PROVE  Durable(c)' = Durable(c)
  BY <1>s DEF Durable
<1>f. ASSUME NEW w \in Workers, Recorded(job[w].id), Persisted(job[w].id) = "succeeded"
      PROVE  Durable(job[w])
  <2>1. /\ EntryOf(job[w].id) \in ToSet(entries) /\ EntryOf(job[w].id).id = job[w].id
        /\ EntryOf(job[w].id).outcome = "succeeded"
    BY <1>f, EntryFound DEF Persisted
  <2> QED BY <1>0, <2>1, KeptInFile DEF Durable
<1>1. ASSUME NEW w \in Workers, NEW c \in Jobs, Deliver(w, c)
      PROVE  HistoryInv'
  BY <1>0, <1>t, <1>1, <1>s DEF Deliver, journal, histories
<1>2. ASSUME NEW w \in Workers, Lookup(w)
      PROVE  HistoryInv'
  <2>1. CASE Recorded(job[w].id)
    <3>1. \E o \in Outcomes : Answers(w, o) /\ (o = "succeeded" => Durable(job[w]))
      BY <1>2, <1>f, <2>1 DEF Lookup, Persisted, Outcomes
    <3> QED
      BY <1>0, <1>t, <1>s, <1>2, <3>1 DEF Lookup, journal, histories
  <2>2. CASE ~Recorded(job[w].id)
    BY <1>0, <1>t, <1>s, <1>2, <2>2 DEF Lookup, journal, histories
  <2> QED
    BY <2>1, <2>2
<1>3. ASSUME NEW w \in Workers, Refuse(w) \/ Finish(w)
      PROVE  HistoryInv'
  <2>1. PICK recorded \in Recordable, ok \in BOOLEAN, outcome \in Outcomes :
           /\ Recording(w, recorded, ok)
           /\ Answers(w, outcome)
           /\ outcome = "succeeded" => ok /\ recorded = "succeeded" /\ at[w] = "running"
           /\ recorded = "failed" => at[w] = "running"
    BY <1>3, RecordedThenAnswered, Zenon
  <2>2. UNCHANGED <<job, runs, reported>> /\ at[w] \in {"refuse", "running"}
    BY <1>3 DEF Refuse, Finish, locks
  <2>3. \A c : Durable(c) => Durable(c)'
    BY <2>1, <2>2, DurableKept DEF Recording
  <2>4. /\ forgotten \subseteq forgotten'
        /\ Ids(entries) \subseteq Ids(entries') \cup forgotten'
        /\ job[w].id \in Ids(entries') \cup forgotten'
        /\ at' = [at EXCEPT ![w] = "leave"]
        /\ answer' = [answer EXCEPT ![w] = outcome]
    BY <2>1 DEF Recording
  <2>5. Ids(entries') = Ids(entries)'
    BY DEF Ids
  <2>6. ASSUME outcome = "succeeded"
        PROVE  Durable(job[w])'
    <3>1. PICK x \in ToSet(entries') :
            /\ x.id = job[w].id
            /\ x.outcome = "succeeded" \/ (x \in ToSet(entries) /\ Command(x) = job[w])
      BY <2>1, <2>6 DEF Recording
    <3>2. x \in ToSet(file') \/ x.id \in forgotten'
      <4>1. JournalInv'
        BY <2>1 DEF Recording
      <4>2. file' = entries' \/ (file' = << >> /\ x.id \in forgotten')
        <5>1. x.id \in Ids(entries')
          BY DEF Ids, ToSet
        <5>2. file' = << >> => Ids(file)' = {}
          BY DEF Ids
        <5> QED BY <4>1, <5>1, <5>2, <2>5 DEF JournalInv
      <4> QED BY <4>2
    <3>3. CASE x.outcome \in {"succeeded", "refused"}
      BY <2>2, <3>1, <3>2, <3>3 DEF Durable
    <3>4. CASE x.outcome \notin {"succeeded", "refused"}
      <4>1. x \in ToSet(entries) /\ Command(x) = job[w] /\ at[w] = "running"
        BY <2>1, <2>6, <3>1, <3>4
      <4>2. x.outcome = "failed"
        <5>1. PICK i \in DOMAIN entries : x = entries[i]
          BY <4>1 DEF ToSet
        <5>2. x \in Entries
          BY <1>0, <5>1 DEF ExecutorTypeOK
        <5> QED BY <3>4, <5>2 DEF Entries, Recordable
      <4>3. runs[job[w]] > 1 /\ job[w] \in Jobs
        BY <1>0, <4>1, <4>2 DEF RunsInv, ClaimsInv
      <4>4. job[w].action \in StateChanging => job[w].id \in forgotten
        BY <1>0, <4>3
      <4> QED BY <2>2, <2>4, <3>1, <3>2, <4>3, <4>4 DEF Durable
    <3> QED BY <3>3, <3>4
  <2> QED
    BY <1>0, <1>t, <2>2, <2>3, <2>4, <2>5, <2>6
<1>4. ASSUME NEW w \in Workers, Claim(w)
      PROVE  HistoryInv'
  BY <1>0, <1>t, <1>s, <1>4 DEF Claim, journal, histories
<1>5. ASSUME NEW w \in Workers, Lock(w)
      PROVE  HistoryInv'
  <2>1. job[w] \in Jobs /\ w \in deferred
    BY <1>0, <1>5 DEF Lock, ClaimsInv
  <2>2. CASE RunAlready(job[w].id)
    <3>1. Persisted(job[w].id) = "succeeded" => Durable(job[w])
      BY <1>f, <2>2 DEF RunAlready
    <3> QED
      BY <1>0, <1>t, <1>s, <1>5, <2>2, <3>1 DEF Lock, journal, histories
  <2>3. CASE ~RunAlready(job[w].id)
    <3>1. ~\E v \in Workers : at[v] = "running" /\ job[v] = job[w]
      BY <1>0, <1>5, <2>1 DEF Lock, ClaimsInv
    <3>2. Changes(w) /\ runs[job[w]] > 0 => job[w].id \in forgotten
      BY <1>0, <2>1, <2>3, <3>1 DEF RunAlready, Recorded
    <3> QED
      BY <1>0, <1>t, <1>s, <1>5, <2>3, <3>2 DEF Lock, journal, histories
  <2> QED
    BY <2>2, <2>3
<1>6. ASSUME NEW w \in Workers, Run(w)
      PROVE  HistoryInv'
  <2>1. job[w] \in Jobs /\ w \in deferred
    BY <1>0, <1>6 DEF Run, ClaimsInv
  <2>2. \A c \in Jobs : Durable(c) => Durable(c)'
    <3>1. \A c \in Jobs : runs[c] > 1 => runs'[c] > 1
      BY <1>t, <1>6, <2>1 DEF Run
    <3> QED BY <1>6, <3>1, DurableKept DEF Run, journal
  <2>3. \A v \in Workers : at'[v] = "leave" => at[v] = "leave" /\ job[v] \in Jobs
    BY <1>0, <1>t, <1>6 DEF Run, ClaimsInv
  <2> QED
    BY <1>0, <1>t, <1>6, <2>1, <2>2, <2>3 DEF Run, journal, ClaimsInv
<1>7. ASSUME NEW w \in Workers, Leave(w)
      PROVE  HistoryInv'
  <2>1. job[w] \in Jobs
    BY <1>0, <1>7 DEF Leave, ClaimsInv
  <2> QED
    BY <1>0, <1>t, <1>s, <1>7, <2>1 DEF Leave, journal
<1>8. CASE Crash
  <2>1. entries' = file /\ file' = file
    BY <1>8 DEF Crash, Reopen
  <2>2. \A c \in Jobs, w \in Workers : at[w] = "running" /\ job[w] = c => c.id \in forgotten'
    BY <1>8 DEF Crash
  <2>3. forgotten \subseteq forgotten' /\ UNCHANGED <<runs, reported>>
    BY <1>8 DEF Crash
  <2>4. \A w \in Workers : at'[w] = "idle"
    BY <1>8 DEF Crash
  <2>5. Ids(entries)' = Ids(file) /\ Ids(file)' = Ids(file)
    BY <2>1 DEF Ids
  <2>6. \A c : Durable(c) => Durable(c)'
    BY <2>1, <2>3, DurableKept
  <2> QED
    BY <1>0, <1>t, <2>2, <2>3, <2>4, <2>5, <2>6 DEF JournalInv
<1>9. CASE UNCHANGED executor
  BY <1>0, <1>s, <1>9 DEF executor, journal, workers, locks, histories
<1> QED
  BY <1>1, <1>2, <1>3, <1>4, <1>5, <1>6, <1>7, <1>8, <1>9 DEF ExecutorNext, Work

-----------------------------------------------------------------------------
LEMMA InvariantInit ==
  ASSUME ExecutorInit
  PROVE  ExecutorInv
<1>1. Openable(<< >>) /\ Ids(<< >>) = {}
  BY NoBytes, RequestJournalAssumption DEF Openable, IndentedBytes, Ids
<1>2. ExecutorTypeOK
  BY DEF ExecutorInit, ExecutorTypeOK, Places
<1>3. JournalInv
  BY <1>1 DEF ExecutorInit, JournalInv, DistinctIds
<1>4. ClaimsInv /\ HistoryInv
  BY DEF ExecutorInit, ClaimsInv, HistoryInv, Executing, ChangeRunsOnce, SuccessIsDurable
<1>5. RunsInv
  BY DEF ExecutorInit, RunsInv, ToSet
<1> QED
  BY <1>2, <1>3, <1>4, <1>5 DEF ExecutorInv

\* The inductive invariant: it relates the journal's memory and file, the claims and
\* what was run, recorded and reported.
THEOREM ExecutorInvHolds == ExecutorSpec => []ExecutorInv
<1>1. ExecutorInv /\ [ExecutorNext]_executor => ExecutorInv'
  BY TypeKept, JournalKept, ClaimsKept, RunsKept, HistoryKept DEF ExecutorInv
<1> QED
  BY <1>1, InvariantInit, PTL DEF ExecutorSpec

\* The executor keeps its types.
THEOREM ExecutorTypeCorrect == ExecutorSpec => []ExecutorTypeOK
<1>1. ExecutorInv => ExecutorTypeOK
  BY DEF ExecutorInv
<1> QED
  BY <1>1, ExecutorInvHolds, PTL

\* State-changing actions never overlap, and no request runs twice at the same
\* time, for any number of workers and duplicates (Executor.claim, stateMu).
THEOREM ActionsAreSerializedHolds == ExecutorSpec => []ActionsAreSerialized
<1>1. ExecutorInv => ActionsAreSerialized
  BY DEF ExecutorInv, ClaimsInv, ActionsAreSerialized, Executing
<1> QED
  BY <1>1, ExecutorInvHolds, PTL

\* Whatever was recorded, trimmed, refused or failed to be written, Open accepts
\* the file (Journal.Record, Open).
THEOREM FileOpensHolds == ExecutorSpec => []FileOpens
<1>1. ExecutorInv => FileOpens
  BY DEF ExecutorInv, JournalInv, FileOpens
<1> QED
  BY <1>1, ExecutorInvHolds, PTL

\* A state-changing command runs again only if its result was forgotten
\* (Executor.Execute).
THEOREM ChangeRunsOnceHolds == ExecutorSpec => []ChangeRunsOnce
<1>1. ExecutorInv => ChangeRunsOnce
  BY DEF ExecutorInv, HistoryInv
<1> QED
  BY <1>1, ExecutorInvHolds, PTL

\* A reported success is a success in the journal file, unless it was forgotten, a
\* refused duplicate was recorded first, or the command only reads and ran before
\* (Executor.Execute, Journal.Record).
THEOREM SuccessIsDurableHolds == ExecutorSpec => []SuccessIsDurable
<1>1. ExecutorInv => SuccessIsDurable
  BY DEF ExecutorInv, HistoryInv
<1> QED
  BY <1>1, ExecutorInvHolds, PTL
=============================================================================
