--------------------------- MODULE RequestJournal ---------------------------
(***************************************************************************)
(* The agent's journal of terminal results (agent/internal/journal): a     *)
(* list bounded in entries and in bytes, rewritten to its file as a whole  *)
(* on every Record.  Journal.mu is held for a whole method, so each method *)
(* is one step.                                                            *)
(*                                                                         *)
(* Data abstracted: of an entry's JSON only its size, a member of Weights; *)
(* the few bytes around the list are counted in MaxBytes.                  *)
(***************************************************************************)
EXTENDS Integers, Sequences, SequencesExt

CONSTANTS
  RequestIds,  \* request ids
  Actions,     \* the supported actions
  Weights,     \* sizes of an entry as json.Marshal writes it
  Indented,    \* size of an entry in the file, as MarshalIndent writes it
  MaxEntries,  \* journalMaxEntries (256)
  MaxBytes     \* journalMaxBytes (512 KiB)

ASSUME RequestJournalAssumption ==
  /\ Weights \subseteq Nat
  /\ Indented \in [Weights -> Nat]
  /\ \A w \in Weights : w <= Indented[w]
  /\ MaxEntries \in Nat \ {0}
  /\ MaxBytes \in Nat

VARIABLES
  entries,  \* j.data.Entries; j.index holds the position of each id in it
  file      \* the entries in the journal file, << >> when there is none

\* The State of an entry, with the Code that tells the failure of a command that
\* ran from the refusal of one that did not pass validation.
Recordable == {"succeeded", "failed", "refused"}

Entries == [id : RequestIds, action : Actions, outcome : Recordable, weight : Weights]

Ids(list) == {list[i].id : i \in DOMAIN list}

Bytes(list, size) == FoldLeft(LAMBDA sum, e : sum + size[e.weight], 0, list)

\* The list as json.Marshal writes it, and as MarshalIndent does.
CompactBytes(list)  == Bytes(list, [w \in Weights |-> w])
IndentedBytes(list) == Bytes(list, Indented)

-----------------------------------------------------------------------------
Recorded(r) == r \in Ids(entries)

\* Lookup of a recorded request.
EntryOf(r) == CHOOSE e \in ToSet(entries) : e.id = r

\* What trimLocked compares.
WithinLimits(list) == Len(list) <= MaxEntries /\ CompactBytes(list) <= MaxBytes

\* Mutant of Trimmed: the size alone decides.
TrimmedBySize(list) ==
  LET from == CHOOSE k \in 1 .. Len(list) + 1 :
                /\ CompactBytes(SubSeq(list, k, Len(list))) <= MaxBytes
                /\ \A i \in 1 .. k - 1 : CompactBytes(SubSeq(list, i, Len(list))) > MaxBytes
  IN  SubSeq(list, from, Len(list))

\* trimLocked: the oldest entries go until the rest is within the limits.
Trimmed(list) ==
  LET from == CHOOSE k \in 1 .. Len(list) + 1 :
                /\ WithinLimits(SubSeq(list, k, Len(list)))
                /\ \A i \in 1 .. k - 1 : ~WithinLimits(SubSeq(list, i, Len(list)))
  IN  SubSeq(list, from, Len(list))

\* Mutant of Installable: what was trimmed is taken to fit the file.
InstallableUnmeasured(list, e) == e.id \in Ids(list)

\* Record goes on to the file: the new entry was not trimmed away itself, and
\* the list, as MarshalIndent writes it, is within the limit of the file.
Installable(list, e) == e.id \in Ids(list) /\ IndentedBytes(list) <= MaxBytes

\* Record of a request that the journal has: nothing is written, and it is an
\* error if the action differs.
RecordKnown(e, ok) ==
  /\ Recorded(e.id)
  /\ ok = (EntryOf(e.id).action = e.action)
  /\ UNCHANGED <<entries, file>>

\* Record of a new result that the trimmed list has no room for.
RecordRefused(e) ==
  /\ ~Recorded(e.id)
  /\ ~Installable(Trimmed(Append(entries, e)), e)
  /\ UNCHANGED <<entries, file>>

\* Mutant of RecordInstalled: the file is not written.
RecordInMemory(e) ==
  LET list == Trimmed(Append(entries, e)) IN
  /\ ~Recorded(e.id)
  /\ Installable(list, e)
  /\ entries' = list
  /\ UNCHANGED file

\* Record of a new result: file and list are replaced together.
RecordInstalled(e) ==
  LET list == Trimmed(Append(entries, e)) IN
  /\ ~Recorded(e.id)
  /\ Installable(list, e)
  /\ entries' = list
  /\ file' = list

\* Record of a new result whose file cannot be written: the list is restored.
\* replaceFile removes the old file when the first rename fails, so that a
\* second failure leaves none.
RecordFails(e) ==
  /\ ~Recorded(e.id)
  /\ Installable(Trimmed(Append(entries, e)), e)
  /\ file' \in {file, << >>}
  /\ UNCHANGED entries

\* Open accepts what it reads: otherwise the agent does not start.
Openable(list) ==
  /\ IndentedBytes(list) <= MaxBytes
  /\ Len(list) <= MaxEntries
  /\ \A i, k \in DOMAIN list : list[i].id = list[k].id => i = k

\* Open after the process died.
Reopen ==
  /\ Openable(file)
  /\ entries' = file
  /\ UNCHANGED file
=============================================================================
