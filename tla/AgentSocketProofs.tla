------------------------- MODULE AgentSocketProofs -------------------------
(***************************************************************************)
(* Proofs about AgentSocket, for any loops and commands and any number of  *)
(* late interrupts: the mutex has one owner, and the server gets whole     *)
(* frames.                                                                 *)
(***************************************************************************)
EXTENDS AgentSocket, TLAPS

\* Who is between the lock and the unlock of writeFrame owns the mutex.
MutexInv == \A w \in Writers : at[w] \in HoldsMutex <=> mu = w

\* A frame that is not whole is the owner's, or nothing can follow it.
WireInv ==
  /\ \A w \in Writers : at[w] = "payload" => wire = w
  /\ wire # None => broken \/ (wire = mu /\ at[wire] = "payload")

\* Only the reader reads.
RolesInv == \A w \in Senders : at[w] \notin InRead

SocketInv == SocketTypeOK /\ MutexInv /\ WireInv /\ RolesInv

-----------------------------------------------------------------------------
\* Every step keeps the types.
LEMMA SocketTypeKept == SocketTypeOK /\ [SocketNext]_socket => SocketTypeOK'
<1> SUFFICES ASSUME SocketTypeOK, [SocketNext]_socket
             PROVE  SocketTypeOK'
  OBVIOUS
<1> USE AgentSocketAssumption DEF SocketTypeOK, Writers, InWrite, Limited, HoldsMutex, InRead, Goes
<1>1. ASSUME NEW w \in Writers, Send(w)
      PROVE  SocketTypeOK'
  BY <1>1 DEF Send, Call
<1>2. ASSUME NEW w \in Writers, WriteHeader(w)
      PROVE  SocketTypeOK'
  BY <1>2 DEF WriteHeader
<1>3. ASSUME NEW w \in Writers, WritePayload(w)
      PROVE  SocketTypeOK'
  BY <1>3 DEF WritePayload, Returns, Continues
<1>4. ASSUME NEW w \in Writers, Lock(w)
      PROVE  SocketTypeOK'
  BY <1>4 DEF Lock
<1>5. ASSUME NEW w \in Writers, SetDeadline(w)
      PROVE  SocketTypeOK'
  BY <1>5 DEF SetDeadline
<1>6. ASSUME NEW w \in Writers, WriteFails(w)
      PROVE  SocketTypeOK'
  BY <1>6 DEF WriteFails, Returns, Continues
<1>7. ASSUME NEW w \in Writers, Expire(w) \/ Interrupt(w)
      PROVE  SocketTypeOK'
  BY <1>7 DEF Expire, Interrupt
<1>8. ASSUME NEW w \in Writers, Stop(w)
      PROVE  SocketTypeOK'
  BY <1>8 DEF Stop
<1>9. ASSUME BeginRead \/ ClearDeadline \/ ReadReturns \/ Ping \/ ReadFails \/ ReadEnds
      PROVE  SocketTypeOK'
  <2>1. reading' \in [past : BOOLEAN, fired : BOOLEAN]
    <3>1. CASE ClearDeadline
      <4> DEFINE r == reading.fired
      <4>1. r \in BOOLEAN
        OBVIOUS
      <4>2. reading' = [past |-> FALSE, fired |-> r]
        BY <3>1 DEF ClearDeadline
      <4> HIDE DEF r
      <4> QED
        BY <4>1, <4>2
    <3>2. CASE ReadReturns
      BY <3>2 DEF ReadReturns
    <3>3. CASE BeginRead \/ Ping \/ ReadFails \/ ReadEnds
      BY <3>3 DEF BeginRead, Ping, Call, ReadFails, ReadEnds
    <3> QED
      BY <1>9, <3>1, <3>2, <3>3
  <2>2. \E place \in {"begin", "read", "idle", "call", "done"} : Goes(Reader, place)
    BY <1>9 DEF BeginRead, ClearDeadline, ReadReturns, Ping, Call, ReadFails, ReadEnds
  <2>3. UNCHANGED <<context, mu, deadline, late, wire, broken, session>>
    BY <1>9 DEF BeginRead, ClearDeadline, ReadReturns, Ping, Call, ReadFails, ReadEnds
  <2> QED
    BY <2>1, <2>2, <2>3
<1>10. ASSUME InterruptRead \/ InterruptLate \/ Lapse \/ Reset
       PROVE  SocketTypeOK'
  <2>1. CASE InterruptRead
    BY <2>1 DEF InterruptRead
  <2>2. CASE InterruptLate
    BY <2>2 DEF InterruptLate
  <2>3. CASE Lapse \/ Reset
    BY <2>3 DEF Lapse, Reset
  <2> QED
    BY <1>10, <2>1, <2>2, <2>3
<1>11. ASSUME Reconnect \/ Cancel \/ Close
       PROVE  SocketTypeOK'
  BY <1>11 DEF Reconnect, Cancel, Close
<1>12. CASE UNCHANGED socket
  BY <1>12 DEF socket
<1> QED
  BY <1>1, <1>2, <1>3, <1>4, <1>5, <1>6, <1>7, <1>8, <1>9, <1>10, <1>11, <1>12
  DEF SocketNext, Proceed, ReadLoop

\* A step that leaves mutex and wire alone, moves nobody in or out of the mutex and
\* makes no sender read keeps the invariant.
LEMMA QuietInv ==
  ASSUME SocketInv, SocketTypeOK',
         UNCHANGED <<mu, wire>>, broken => broken',
         \A w \in Writers : at'[w] # at[w] => at[w] \notin HoldsMutex /\ at'[w] \notin HoldsMutex,
         \A w \in Senders : at'[w] # at[w] => at'[w] \notin InRead
  PROVE  SocketInv'
<1> USE DEF SocketInv, HoldsMutex
<1>1. MutexInv'
  BY DEF MutexInv
<1>2. WireInv'
  BY AgentSocketAssumption DEF WireInv, SocketTypeOK
<1>3. RolesInv'
  BY DEF RolesInv, Writers, InRead
<1> QED
  BY <1>1, <1>2, <1>3

\* A write that returns gives the mutex back and leaves no frame to be ended, unless
\* it failed.
LEMMA ReturnInv ==
  ASSUME SocketInv, SocketTypeOK', NEW w \in Writers, NEW ok \in BOOLEAN,
         at[w] \in HoldsMutex, Returns(w, ok),
         (ok /\ wire' = None /\ broken' = broken) \/ (~ok /\ broken')
  PROVE  SocketInv'
<1>1. at' = [at EXCEPT ![w] = at'[w]] /\ at'[w] \in {"done", "read", "idle"}
  BY DEF Returns, Continues, Goes, SocketInv, SocketTypeOK
<1>2. w \in Senders => at'[w] # "read"
  BY AgentSocketAssumption DEF Returns, Continues, Goes, SocketInv, SocketTypeOK
<1>3. mu = w /\ mu' = None
  BY DEF SocketInv, MutexInv, Returns
<1>4. MutexInv'
  BY <1>1, <1>3, AgentSocketAssumption DEF SocketInv, SocketTypeOK, MutexInv, HoldsMutex
<1>5. \A v \in Writers : at'[v] # "payload"
  BY <1>1, <1>3 DEF SocketInv, SocketTypeOK, MutexInv, HoldsMutex
<1>6. WireInv'
  BY <1>5 DEF WireInv
<1>7. RolesInv'
  BY <1>1, <1>2 DEF SocketInv, SocketTypeOK, RolesInv, InRead, HoldsMutex, Writers
<1> QED
  BY <1>4, <1>6, <1>7 DEF SocketInv

\* Every step keeps the invariant.
LEMMA SocketInvKept == SocketInv /\ [SocketNext]_socket => SocketInv'
<1> SUFFICES ASSUME SocketInv, [SocketNext]_socket
             PROVE  SocketInv'
  OBVIOUS
<1>t. SocketTypeOK'
  BY SocketTypeKept DEF SocketInv
<1> USE AgentSocketAssumption, <1>t
<1> USE DEF SocketTypeOK, Goes, HoldsMutex, InRead, Writers
<1>1. ASSUME NEW w \in Writers, Send(w)
      PROVE  SocketInv'
  BY <1>1, QuietInv DEF SocketInv, Send, Call
<1>2. ASSUME NEW w \in Writers, WriteHeader(w)
      PROVE  SocketInv'
  <2>1. mu = w /\ \A v \in Writers : v # w => at[v] \notin HoldsMutex
    BY <1>2 DEF WriteHeader, SocketInv, MutexInv
  <2>2. MutexInv'
    BY <1>2, <2>1 DEF WriteHeader, SocketInv, MutexInv
  <2>3. WireInv'
    BY <1>2, <2>1 DEF WriteHeader, SocketInv, WireInv
  <2>4. RolesInv'
    BY <1>2 DEF WriteHeader, SocketInv, RolesInv
  <2> QED
    BY <2>2, <2>3, <2>4 DEF SocketInv
<1>3. ASSUME NEW w \in Writers, WritePayload(w)
      PROVE  SocketInv'
  BY <1>3, ReturnInv, TRUE \in BOOLEAN DEF WritePayload
<1>4. ASSUME NEW w \in Writers, Lock(w)
      PROVE  SocketInv'
  <2>1. \A v \in Writers : at[v] \notin HoldsMutex
    BY <1>4 DEF Lock, SocketInv, MutexInv
  <2>2. MutexInv'
    BY <1>4, <2>1 DEF Lock, SocketInv, MutexInv
  <2>3. WireInv'
    BY <1>4, <2>1 DEF Lock, SocketInv, WireInv
  <2>4. RolesInv'
    BY <1>4 DEF Lock, SocketInv, RolesInv
  <2> QED
    BY <2>2, <2>3, <2>4 DEF SocketInv
<1>5. ASSUME NEW w \in Writers, SetDeadline(w)
      PROVE  SocketInv'
  BY <1>5, QuietInv DEF SocketInv, SetDeadline
<1>6. ASSUME NEW w \in Writers, WriteFails(w)
      PROVE  SocketInv'
  BY <1>6, ReturnInv, FALSE \in BOOLEAN DEF WriteFails
<1>7. ASSUME NEW w \in Writers, Expire(w) \/ Interrupt(w)
      PROVE  SocketInv'
  BY <1>7, QuietInv DEF SocketInv, Expire, Interrupt
<1>8. ASSUME NEW w \in Writers, Stop(w)
      PROVE  SocketInv'
  BY <1>8, QuietInv DEF SocketInv, Stop
<1>9. ASSUME BeginRead \/ ClearDeadline \/ ReadReturns \/ Ping \/ ReadFails \/ ReadEnds
      PROVE  SocketInv'
  BY <1>9, QuietInv
  DEF SocketInv, BeginRead, ClearDeadline, ReadReturns, Ping, Call, ReadFails, ReadEnds
<1>10. ASSUME InterruptRead \/ InterruptLate \/ Lapse \/ Reset \/ Reconnect \/ Cancel \/ Close
       PROVE  SocketInv'
  BY <1>10, QuietInv DEF InterruptRead, InterruptLate, Lapse, Reset, Reconnect, Cancel, Close
<1>11. CASE UNCHANGED socket
  BY <1>11, QuietInv DEF socket
<1> QED
  BY <1>1, <1>2, <1>3, <1>4, <1>5, <1>6, <1>7, <1>8, <1>9, <1>10, <1>11
  DEF SocketNext, Proceed, ReadLoop

\* The invariant holds in every state.
THEOREM SocketInvHolds == SocketSpec => []SocketInv
<1>1. SocketInit => SocketInv
  <2> SUFFICES ASSUME SocketInit PROVE SocketInv
    OBVIOUS
  <2>0. reading \in [past : BOOLEAN, fired : BOOLEAN] /\ broken \in BOOLEAN
    BY DEF SocketInit
  <2>1. SocketTypeOK
    BY <2>0, AgentSocketAssumption DEF SocketInit, SocketTypeOK
  <2>2. MutexInv /\ WireInv /\ RolesInv
    BY AgentSocketAssumption
    DEF SocketInit, MutexInv, WireInv, RolesInv, Writers, HoldsMutex, InRead
  <2> QED
    BY <2>1, <2>2 DEF SocketInv
<1> QED
  BY <1>1, SocketInvKept, PTL DEF SocketSpec

\* The connection and its goroutines keep their types.
THEOREM SocketTypeCorrect == SocketSpec => []SocketTypeOK
BY SocketInvHolds, PTL DEF SocketInv

\* The server gets whole frames: none begins within another, whatever is interrupted.
THEOREM FramesAreWholeHolds == SocketSpec => FramesAreWhole
<1>1. SocketInv /\ [SocketNext]_socket =>
        [\A w \in Writers : /\ WriteHeader(w) => wire = None
                            /\ WritePayload(w) => wire = w]_socket
  BY DEF SocketInv, MutexInv, WireInv, HoldsMutex, WriteHeader, WritePayload, Writable
<1> QED
  BY <1>1, SocketInvHolds, PTL DEF SocketSpec, FramesAreWhole
=============================================================================
