------------------------- MODULE AgentGatewayProofs -------------------------
(***************************************************************************)
(* Proofs about ActionRequests and AgentGateway, for every set of nodes,   *)
(* handlers, requests and calls and any PendingLimit.  First the request   *)
(* tables alone: they keep their types, at most one state-changing action  *)
(* is active on a node, and a command is sent at most once.  Then the      *)
(* gateway: each of its steps is a step of the tables, so that all that is *)
(* proved about these holds under it, and registrations and handlers       *)
(* agree.                                                                  *)
(***************************************************************************)
EXTENDS AgentGateway, SequenceTheorems, TLAPS

\* What record_ip_change makes of a node's history rows: no more than the limit,
\* none but r is new, and if one goes it is the oldest and the limit is reached.
LEMMA IpChangeRecordedKeeps ==
  ASSUME NEW rows \in Seq(RequestIds), Len(rows) <= HistoryLimit, NEW r \in RequestIds
  PROVE  /\ IpChangeRecorded(rows, r) \in Seq(RequestIds)
         /\ Len(IpChangeRecorded(rows, r)) <= HistoryLimit
         /\ ToSet(IpChangeRecorded(rows, r)) \subseteq ToSet(rows) \cup {r}
         /\ \A q \in ToSet(rows) \ ToSet(IpChangeRecorded(rows, r)) :
              q = Head(rows) /\ Len(IpChangeRecorded(rows, r)) = HistoryLimit
<1> DEFINE new == IpChangeRecorded(rows, r)
<1>0. HistoryLimit \in Nat \ {0}
  BY ActionRequestsAssumption
<1>1. CASE Len(rows) < HistoryLimit
  <2>1. new = Append(rows, r) /\ new \in Seq(RequestIds) /\ Len(new) = Len(rows) + 1
    BY <1>1, AppendProperties DEF IpChangeRecorded
  <2>2. /\ \A i \in 1..Len(rows) : new[i] = rows[i]
        /\ new[Len(rows) + 1] = r
    BY <2>1, AppendProperties
  <2>3. ToSet(new) \subseteq ToSet(rows) \cup {r}
    BY <2>1, <2>2, LenProperties DEF ToSet
  <2>4. ToSet(rows) \subseteq ToSet(new)
    BY <2>1, <2>2, LenProperties DEF ToSet
  <2> QED BY <1>0, <1>1, <2>1, <2>3, <2>4
<1>2. CASE ~(Len(rows) < HistoryLimit)
  <2> DEFINE rest == Tail(rows)
  <2>1. rows # << >> /\ Len(rows) = HistoryLimit
    BY <1>0, <1>2, EmptySeq, LenProperties
  <2>2. rest \in Seq(RequestIds) /\ Len(rest) = Len(rows) - 1
    BY <2>1, HeadTailProperties
  <2>3. \A i \in 1..Len(rest) : rest[i] = rows[i + 1]
    BY <2>1, <2>2, HeadTailProperties
  <2>4. new = Append(rest, r) /\ new \in Seq(RequestIds) /\ Len(new) = HistoryLimit
    BY <1>0, <1>2, <2>1, <2>2, AppendProperties DEF IpChangeRecorded
  <2>5. /\ \A i \in 1..Len(rest) : new[i] = rest[i]
        /\ new[Len(rest) + 1] = r
    BY <2>2, <2>4, AppendProperties
  <2>6. ToSet(new) \subseteq ToSet(rows) \cup {r}
    BY <1>0, <2>1, <2>2, <2>3, <2>4, <2>5, LenProperties DEF ToSet
  <2>7. ASSUME NEW q \in ToSet(rows) \ ToSet(new)
        PROVE  q = Head(rows)
    <3>1. PICK i \in 1..Len(rows) : q = rows[i]
      BY LenProperties DEF ToSet
    <3>2. CASE i = 1
      BY <2>1, <3>1, <3>2, HeadTailProperties
    <3>3. CASE i # 1
      <4>1. i - 1 \in 1..Len(rest) /\ new[i - 1] = q
        BY <1>0, <2>1, <2>2, <2>3, <2>5, <3>1, <3>3
      <4>2. i - 1 \in DOMAIN new
        BY <1>0, <2>1, <2>2, <2>4, <4>1, LenProperties
      <4> QED BY <2>7, <4>1, <4>2 DEF ToSet
    <3> QED BY <3>2, <3>3
  <2> QED BY <1>0, <2>4, <2>6, <2>7
<1> QED BY <1>1, <1>2

\* Every step keeps the types of the tables.
LEMMA RequestsTypeKept == RequestsTypeOK /\ [RequestsNext]_tables => RequestsTypeOK'
<1> SUFFICES ASSUME RequestsTypeOK, [RequestsNext]_tables
             PROVE  RequestsTypeOK'
  OBVIOUS
<1> USE DEF RequestsTypeOK, Statuses, Active, Terminal, InFlight
<1>1. ASSUME NEW r \in RequestIds, NEW n \in Nodes, NEW c \in Calls,
             NEW isOnline \in BOOLEAN, NEW queue \in BOOLEAN,
             CreateRequest(r, n, c, isOnline, queue)
      PROVE  RequestsTypeOK'
  BY <1>1 DEF CreateRequest
<1>2. ASSUME NEW r \in RequestIds, DispatchExpires(r)
      PROVE  RequestsTypeOK'
  BY <1>2 DEF DispatchExpires
<1>3. ASSUME NEW r \in RequestIds, DispatchSends(r)
      PROVE  RequestsTypeOK'
  BY <1>3 DEF DispatchSends
<1>4. ASSUME NEW rs, MarkUnknown(rs)
      PROVE  RequestsTypeOK'
  BY <1>4 DEF MarkUnknown
<1>5. ASSUME NEW r \in RequestIds, DeadlinePasses(r)
      PROVE  RequestsTypeOK'
  BY <1>5 DEF DeadlinePasses
<1>6. ASSUME NEW r \in RequestIds, NEW n \in Nodes, AcceptRequest(n, r)
      PROVE  RequestsTypeOK'
  BY <1>6 DEF AcceptRequest
<1>7. ASSUME NEW r \in RequestIds, NEW n \in Nodes, RejectRequest(n, r)
      PROVE  RequestsTypeOK'
  BY <1>7 DEF RejectRequest
<1>8. ASSUME NEW r \in RequestIds, NEW n \in Nodes, ProgressRequest(n, r)
      PROVE  RequestsTypeOK'
  BY <1>8 DEF ProgressRequest
<1>9. ASSUME NEW r \in RequestIds, NEW n \in Nodes,
             NEW success \in BOOLEAN, NEW recorded \in BOOLEAN,
             FinishRequest(n, r, success, recorded)
      PROVE  RequestsTypeOK'
  <2>1. [node |-> n, success |-> success] \in ResultRows
    BY DEF ResultRows
  <2>2. results' \in [RequestIds -> Seq(ResultRows)]
    BY <1>9, <2>1 DEF FinishRequest
  <2>3. /\ history' \in [Nodes -> Seq(RequestIds)]
        /\ \A m \in Nodes : Len(history'[m]) <= HistoryLimit
    BY <1>9, IpChangeRecordedKeeps DEF FinishRequest
  <2> QED
    BY <1>9, <2>2, <2>3 DEF FinishRequest
<1>10. ASSUME ExpireRequests
       PROVE  RequestsTypeOK'
  BY <1>10 DEF ExpireRequests, Swept
<1>11. CASE UNCHANGED tables
  BY <1>11 DEF tables
<1> HIDE DEF RequestsTypeOK, Statuses, Active, Terminal, InFlight
<1> QED
  BY <1>1, <1>2, <1>3, <1>4, <1>5, <1>6, <1>7, <1>8, <1>9, <1>10, <1>11
  DEF RequestsNext

\* The tables are empty at first.
LEMMA RequestsTypeInit == RequestsInit => RequestsTypeOK
<1>1. << >> \in Seq(RequestIds) /\ Len(<< >>) <= HistoryLimit
  BY ActionRequestsAssumption, EmptySeq
<1>2. << >> \in Seq(ResultRows)
  OBVIOUS
<1> QED
  BY <1>1, <1>2 DEF RequestsInit, RequestsTypeOK, Statuses, Active, Terminal, InFlight

\* The tables always hold values of their types.
THEOREM RequestsTypeCorrect == RequestsSpec => []RequestsTypeOK
BY RequestsTypeInit, RequestsTypeKept, PTL DEF RequestsSpec

-----------------------------------------------------------------------------
\* A step that activates nothing and moves nothing to another node or call
\* cannot bring two active changes together.
LEMMA ActiveOnlyShrinks ==
  ASSUME OneActiveChange,
         node' = node,
         call' = call,
         \A r \in RequestIds : status'[r] \in Active => status[r] \in Active
  PROVE  OneActiveChange'
BY DEF OneActiveChange, Active, InFlight

\* Only create_request activates a request, and only past the busy check.
LEMMA CreateKeepsOneActiveChange ==
  ASSUME RequestsTypeOK, OneActiveChange,
         NEW r \in RequestIds, NEW n \in Nodes, NEW c \in Calls,
         NEW isOnline \in BOOLEAN, NEW queue \in BOOLEAN,
         CreateRequest(r, n, c, isOnline, queue)
  PROVE  OneActiveChange'
<1> SUFFICES ASSUME NEW p \in RequestIds, NEW q \in RequestIds, p # q,
                    {status'[p], status'[q]} \subseteq Active,
                    {call'[p], call'[q]} \subseteq StateChanging
             PROVE  node'[p] # node'[q]
  BY DEF OneActiveChange, Active, InFlight
<1>1. /\ \A s \in RequestIds \ {r} : /\ status'[s] = status[s]
                                     /\ node'[s] = node[s]
                                     /\ call'[s] = call[s]
      /\ node'[r] = n
      /\ call'[r] = c
  BY DEF CreateRequest, RequestsTypeOK
<1>2. CASE r \notin {p, q}
  BY <1>1, <1>2 DEF OneActiveChange
<1>3. ASSUME NEW s \in RequestIds \ {r}, status'[s] \in Active,
             call'[s] \in StateChanging, call'[r] \in StateChanging
      PROVE  node'[s] # node'[r]
  <2>1. ActiveChanges(n) = {}
    BY <1>1, <1>3 DEF CreateRequest, Busy
  <2> QED
    BY <1>1, <1>3, <2>1 DEF ActiveChanges
<1> QED
  BY <1>2, <1>3

\* At most one state-changing action is active on a node, in every reachable
\* state and for any number of nodes, requests and calls.
THEOREM OneActiveChangeHolds == RequestsSpec => []OneActiveChange
<1>1. RequestsInit => OneActiveChange
  BY DEF RequestsInit, OneActiveChange, Active, InFlight
<1>2. RequestsTypeOK /\ OneActiveChange /\ [RequestsNext]_tables => OneActiveChange'
  <2> SUFFICES ASSUME RequestsTypeOK, OneActiveChange, [RequestsNext]_tables
               PROVE  OneActiveChange'
    OBVIOUS
  <2>1. ASSUME NEW r \in RequestIds, NEW n \in Nodes, NEW c \in Calls,
               NEW isOnline \in BOOLEAN, NEW queue \in BOOLEAN,
               CreateRequest(r, n, c, isOnline, queue)
        PROVE  OneActiveChange'
    BY <2>1, CreateKeepsOneActiveChange
  <2>2. ASSUME NEW r \in RequestIds,
               DispatchExpires(r) \/ DispatchSends(r) \/ DeadlinePasses(r)
        PROVE  OneActiveChange'
    <3>1. node' = node /\ call' = call
      BY <2>2 DEF DispatchExpires, DispatchSends, DeadlinePasses
    <3>2. ASSUME NEW s \in RequestIds, status'[s] \in Active
          PROVE  status[s] \in Active
      BY <2>2, <3>2 DEF DispatchExpires, DispatchSends, DeadlinePasses, Dispatchable,
                        RequestsTypeOK, Active, InFlight
    <3> QED
      BY <3>1, <3>2, ActiveOnlyShrinks
  <2>3. ASSUME NEW rs, MarkUnknown(rs)
        PROVE  OneActiveChange'
    <3>1. \A s \in RequestIds : status'[s] \in Active => status[s] \in Active
      BY <2>3 DEF MarkUnknown, Active, InFlight
    <3> QED
      BY <2>3, <3>1, ActiveOnlyShrinks DEF MarkUnknown
  <2>4. ASSUME NEW r \in RequestIds, NEW n \in Nodes,
               \/ AcceptRequest(n, r)
               \/ RejectRequest(n, r)
               \/ ProgressRequest(n, r)
               \/ \E success, recorded \in BOOLEAN :
                    FinishRequest(n, r, success, recorded)
        PROVE  OneActiveChange'
    <3>1. node' = node /\ call' = call
      BY <2>4 DEF AcceptRequest, RejectRequest, ProgressRequest, Acceptable, Rejectable,
      Progressable, FinishRequest
    <3>2. ASSUME NEW s \in RequestIds, status'[s] \in Active
          PROVE  status[s] \in Active
      BY <2>4, <3>2 DEF AcceptRequest, RejectRequest, ProgressRequest, Acceptable, Rejectable,
      Progressable, FinishRequest,
                        RequestsTypeOK, Active, InFlight
    <3> QED
      BY <3>1, <3>2, ActiveOnlyShrinks
  <2>5. ASSUME ExpireRequests
        PROVE  OneActiveChange'
    <3>1. \A s \in RequestIds : status'[s] \in Active => status[s] \in Active
      BY <2>5 DEF ExpireRequests, Swept, Active, InFlight
    <3> QED
      BY <2>5, <3>1, ActiveOnlyShrinks DEF ExpireRequests
  <2>6. CASE UNCHANGED tables
    BY <2>6 DEF tables, OneActiveChange
  <2> QED
    BY <2>1, <2>2, <2>3, <2>4, <2>5, <2>6 DEF RequestsNext
<1> QED
  BY <1>1, <1>2, RequestsTypeCorrect, PTL DEF RequestsSpec

-----------------------------------------------------------------------------
(***************************************************************************)
(* The row invariant: what relates the columns of a request to its status  *)
(* and to the result table.  The properties need the last two conjuncts to *)
(* be inductive: a row that does not exist is empty, and a request that no *)
(* agent has decided has no result row.                                    *)
(***************************************************************************)
Logged(r) == \E n \in Nodes : r \in ToSet(history[n])

RowOK(r) ==
  /\ status[r] = "absent" => attempts[r] = 0 /\ node[r] = None
  /\ status[r] \in {"queued", "expired", "skipped_offline"} => attempts[r] = 0
  /\ status[r] \in InFlight \cup {"unknown", "timed_out", "succeeded", "failed"}
       => attempts[r] = 1
  /\ status[r] # "canceled"
  /\ status[r] = "succeeded" => results[r] = <<[node |-> node[r], success |-> TRUE]>>
  /\ status[r] = "failed" =>
       \/ results[r] = <<[node |-> node[r], success |-> FALSE]>>
       \/ results[r] = << >> /\ ~Logged(r)
  /\ status[r] \notin {"succeeded", "failed"} => results[r] = << >> /\ ~Logged(r)
  /\ \A n \in Nodes : r \in ToSet(history[n]) => node[r] = n /\ call[r] \in IpChanging

RowInvariant == \A r \in RequestIds : RowOK(r)

\* A request whose columns a step leaves alone keeps its invariant.
LEMMA UntouchedRow ==
  ASSUME NEW r \in RequestIds, RowOK(r),
         status'[r] = status[r], node'[r] = node[r], call'[r] = call[r],
         attempts'[r] = attempts[r], results'[r] = results[r],
         \A n \in Nodes : r \in ToSet(history'[n]) => r \in ToSet(history[n])
  PROVE  RowOK(r)'
BY DEF RowOK, Logged

\* What a finished request does to the history rows of any request.
LEMMA FinishedHistory ==
  ASSUME RequestsTypeOK, NEW r \in RequestIds, NEW m \in Nodes,
         NEW success, NEW recorded, FinishRequest(m, r, success, recorded), NEW n \in Nodes
  PROVE  /\ \A q \in ToSet(history'[n]) :
              q \in ToSet(history[n]) \/ (q = r /\ n = m /\ call[r] \in IpChanging)
         /\ \A q \in ToSet(history[n]) \ ToSet(history'[n]) :
              q = Head(history[n]) /\ Len(history'[n]) = HistoryLimit
<1>1. history[n] \in Seq(RequestIds) /\ Len(history[n]) <= HistoryLimit
  BY DEF RequestsTypeOK
<1>2. \/ history'[n] = history[n]
      \/ n = m /\ call[r] \in IpChanging /\ history'[n] = IpChangeRecorded(history[n], r)
  BY DEF FinishRequest, RequestsTypeOK
<1>3. CASE history'[n] = history[n]
  <2>1. ASSUME NEW q \in ToSet(history'[n])
        PROVE  q \in ToSet(history[n])
    BY <1>3
  <2>2. ASSUME NEW q \in ToSet(history[n]) \ ToSet(history'[n])
        PROVE  FALSE
    BY <1>3
  <2> QED BY <2>1, <2>2, Zenon
<1>4. CASE n = m /\ call[r] \in IpChanging /\ history'[n] = IpChangeRecorded(history[n], r)
  <2>1. /\ ToSet(history'[n]) \subseteq ToSet(history[n]) \cup {r}
        /\ \A q \in ToSet(history[n]) \ ToSet(history'[n]) :
             q = Head(history[n]) /\ Len(history'[n]) = HistoryLimit
    BY <1>1, <1>4, IpChangeRecordedKeeps
  <2> QED BY <1>4, <2>1
<1> QED BY <1>2, <1>3, <1>4

\* Every step keeps the row invariant.
LEMMA RowInvariantStep ==
  RequestsTypeOK /\ RowInvariant /\ [RequestsNext]_tables => RowInvariant'
<1> SUFFICES ASSUME RequestsTypeOK, RowInvariant, [RequestsNext]_tables,
                    NEW q \in RequestIds
             PROVE  RowOK(q)'
  BY DEF RowInvariant
<1>0. RowOK(q)
  BY DEF RowInvariant
<1>1. ASSUME NEW r \in RequestIds, NEW n \in Nodes, NEW c \in Calls,
             NEW isOnline \in BOOLEAN, NEW queue \in BOOLEAN,
             CreateRequest(r, n, c, isOnline, queue)
      PROVE  RowOK(q)'
  <2>1. CASE q = r
    BY <1>0, <1>1, <2>1 DEF CreateRequest, RowOK, Logged, RequestsTypeOK, InFlight
  <2>2. CASE q # r
    BY <1>0, <1>1, <2>2, UntouchedRow DEF CreateRequest, RequestsTypeOK
  <2> QED
    BY <2>1, <2>2
<1>2. ASSUME NEW r \in RequestIds, DispatchExpires(r) \/ DispatchSends(r)
      PROVE  RowOK(q)'
  <2>1. CASE q = r
    BY <1>0, <1>2, <2>1 DEF DispatchExpires, DispatchSends, Dispatchable, RowOK, Logged,
                            RequestsTypeOK, InFlight
  <2>2. CASE q # r
    BY <1>0, <1>2, <2>2, UntouchedRow DEF DispatchExpires, DispatchSends, RequestsTypeOK
  <2> QED
    BY <2>1, <2>2
<1>3. ASSUME NEW rs, MarkUnknown(rs)
      PROVE  RowOK(q)'
  BY <1>0, <1>3 DEF MarkUnknown, RowOK, Logged, InFlight
<1>4. ASSUME NEW r \in RequestIds, DeadlinePasses(r)
      PROVE  RowOK(q)'
  BY <1>0, <1>4, UntouchedRow DEF DeadlinePasses
<1>5. ASSUME NEW r \in RequestIds, NEW n \in Nodes, Sent(r),
             AcceptRequest(n, r) \/ RejectRequest(n, r) \/ ProgressRequest(n, r)
      PROVE  RowOK(q)'
  <2>1. CASE q = r
    BY <1>0, <1>5, <2>1 DEF AcceptRequest, RejectRequest, ProgressRequest, Acceptable, Rejectable,
      Progressable, Sent, RowOK, Logged,
                            RequestsTypeOK, InFlight, Statuses, Active, Terminal
  <2>2. CASE q # r
    BY <1>0, <1>5, <2>2, UntouchedRow DEF AcceptRequest, RejectRequest, ProgressRequest, Acceptable, Rejectable,
      Progressable,
                                          RequestsTypeOK
  <2> QED
    BY <2>1, <2>2
<1>6. ASSUME NEW r \in RequestIds, NEW n \in Nodes, Sent(r),
             NEW success \in BOOLEAN, NEW recorded \in BOOLEAN,
             FinishRequest(n, r, success, recorded)
      PROVE  RowOK(q)'
  <2>1. CASE q = r
    <3>1. results[q] = << >> /\ ~Logged(q) /\ attempts[q] = 1 /\ node[q] = n
      BY <1>0, <1>6, <2>1 DEF FinishRequest, Finishable, Sent, RowOK, RequestsTypeOK,
                              InFlight, Statuses, Active, Terminal
    <3>2. results'[q] = <<[node |-> n, success |-> success]>>
      BY <1>6, <2>1, <3>1 DEF FinishRequest, RequestsTypeOK
    <3>3. /\ node'[q] = n /\ attempts'[q] = 1 /\ call'[q] = call[q]
          /\ status'[q] = IF success THEN "succeeded" ELSE "failed"
      BY <1>6, <2>1, <3>1 DEF FinishRequest, RequestsTypeOK
    <3>4. \A m \in Nodes : q \in ToSet(history'[m]) => m = n /\ call[q] \in IpChanging
      BY <1>6, <2>1, <3>1, FinishedHistory DEF Logged
    <3> QED
      BY <3>2, <3>3, <3>4 DEF RowOK, InFlight
  <2>2. CASE q # r
    <3>1. status'[q] = status[q] /\ results'[q] = results[q]
      BY <1>6, <2>2 DEF FinishRequest, RequestsTypeOK
    <3>3. \A m \in Nodes : q \in ToSet(history'[m]) => q \in ToSet(history[m])
      BY <1>6, <2>2, FinishedHistory
    <3>2. node' = node /\ call' = call /\ attempts' = attempts
      BY <1>6 DEF FinishRequest
    <3> QED
      BY <1>0, <3>1, <3>2, <3>3, UntouchedRow
  <2> QED
    BY <2>1, <2>2
<1>7. ASSUME ExpireRequests
      PROVE  RowOK(q)'
  BY <1>0, <1>7 DEF ExpireRequests, Swept, RowOK, Logged, InFlight
<1>8. CASE UNCHANGED tables
  BY <1>0, <1>8, UntouchedRow DEF tables
<1> QED
  BY <1>1, <1>2, <1>3, <1>4, <1>5, <1>6, <1>7, <1>8 DEF RequestsNext

\* At first every row is absent and empty.
LEMMA RowInvariantInit == RequestsInit => RowInvariant
<1>1. RequestsInit => \A r \in RequestIds : ~Logged(r)
  BY EmptySeq, LenProperties DEF RequestsInit, Logged, ToSet
<1> QED BY <1>1 DEF RequestsInit, RowInvariant, RowOK, Logged, InFlight

\* The row invariant holds in every reachable state.
THEOREM RowInvariantHolds == RequestsSpec => []RowInvariant
BY RowInvariantInit, RowInvariantStep, RequestsTypeCorrect, PTL DEF RequestsSpec

\* What was sent stays sent: no row is reset or created over.
LEMMA SentStays ==
  ASSUME RequestsTypeOK, RowInvariant, [RequestsNext]_tables, NEW q \in RequestIds, Sent(q)
  PROVE  Sent(q)'
<1> USE DEF Sent, RequestsTypeOK
<1>1. ASSUME NEW r \in RequestIds, NEW n \in Nodes, NEW c \in Calls,
             NEW isOnline \in BOOLEAN, NEW queue \in BOOLEAN,
             CreateRequest(r, n, c, isOnline, queue)
      PROVE  Sent(q)'
  <2>1. q # r
    BY <1>1 DEF CreateRequest, RowInvariant, RowOK
  <2> QED
    BY <1>1, <2>1 DEF CreateRequest
<1>2. ASSUME NEW r \in RequestIds, DispatchSends(r)
      PROVE  Sent(q)'
  BY <1>2 DEF DispatchSends
<1>3. CASE attempts' = attempts
  BY <1>3
<1> QED
  BY <1>1, <1>2, <1>3
  DEF RequestsNext, DispatchExpires, MarkUnknown, DeadlinePasses, AcceptRequest,
      RejectRequest, ProgressRequest, FinishRequest, ExpireRequests, tables

\* No command is sent twice, for any number of handlers, sweeps and answers.
THEOREM SentAtMostOnceHolds == RequestsSpec => []SentAtMostOnce
<1>1. ASSUME RequestsTypeOK, RowInvariant, NEW r \in RequestIds
      PROVE  attempts[r] <= 1
  <2>1. RowOK(r) /\ status[r] \in Statuses
    BY <1>1 DEF RowInvariant, RequestsTypeOK
  <2>2. attempts[r] = 0 \/ attempts[r] = 1
    BY <2>1 DEF RowOK, Statuses, Active, Terminal, InFlight
  <2> QED
    BY <2>2
<1>2. RequestsTypeOK /\ RowInvariant => SentAtMostOnce
  BY <1>1 DEF SentAtMostOnce
<1> QED
  BY <1>2, RowInvariantHolds, RequestsTypeCorrect, PTL

\* An expired or skipped request was never sent, and any other was.
THEOREM UnsentNeverRanHolds == RequestsSpec => []UnsentNeverRan
<1>1. RowInvariant => UnsentNeverRan
  BY DEF RowInvariant, RowOK, UnsentNeverRan, InFlight
<1> QED
  BY <1>1, RowInvariantHolds, PTL

\* A terminal request keeps its status and results, and its history row but for
\* the node's limit: the one handler whose guard lets a terminal status through (a
\* rejection of a skipped_offline request) is never called for it, because such a
\* request was not sent.
THEOREM TerminalIsFinalHolds == RequestsSpec => TerminalIsFinal
<1>1. ASSUME RequestsTypeOK, RowInvariant, RequestsNext,
             NEW q \in RequestIds, status[q] \in Terminal
      PROVE  /\ status'[q] = status[q]
             /\ results'[q] = results[q]
             /\ \A n \in Nodes :
                  /\ q \in ToSet(history'[n]) => q \in ToSet(history[n])
                  /\ q \in ToSet(history[n]) \ ToSet(history'[n]) =>
                       q = Head(history[n]) /\ Len(history'[n]) = HistoryLimit
  <2>0. RowOK(q)
    BY <1>1 DEF RowInvariant
  <2>1. ASSUME NEW r \in RequestIds, NEW n \in Nodes, NEW c \in Calls,
               NEW isOnline \in BOOLEAN, NEW queue \in BOOLEAN,
               CreateRequest(r, n, c, isOnline, queue)
        PROVE  q # r /\ status'[q] = status[q] /\ UNCHANGED <<results, history>>
    BY <1>1, <2>1 DEF CreateRequest, RequestsTypeOK, Terminal
  <2>2. ASSUME NEW r \in RequestIds,
               DispatchExpires(r) \/ DispatchSends(r) \/ DeadlinePasses(r)
        PROVE  status'[q] = status[q] /\ UNCHANGED <<results, history>>
    BY <1>1, <2>2 DEF DispatchExpires, DispatchSends, DeadlinePasses, Dispatchable,
                      RequestsTypeOK, Terminal
  <2>3. ASSUME NEW rs, MarkUnknown(rs)
        PROVE  status'[q] = status[q] /\ UNCHANGED <<results, history>>
    BY <1>1, <2>3 DEF MarkUnknown, Terminal, InFlight
  <2>4. ASSUME NEW r \in RequestIds, NEW n \in Nodes, Sent(r),
               AcceptRequest(n, r) \/ RejectRequest(n, r) \/ ProgressRequest(n, r)
        PROVE  status'[q] = status[q] /\ UNCHANGED <<results, history>>
    BY <1>1, <2>0, <2>4 DEF AcceptRequest, RejectRequest, ProgressRequest, Acceptable, Rejectable,
      Progressable, Sent, RowOK,
                            RequestsTypeOK, Terminal
  <2>5. ASSUME NEW r \in RequestIds, NEW n \in Nodes,
               NEW success \in BOOLEAN, NEW recorded \in BOOLEAN,
               FinishRequest(n, r, success, recorded)
        PROVE  /\ status'[q] = status[q] /\ results'[q] = results[q]
               /\ \A m \in Nodes :
                    /\ q \in ToSet(history'[m]) => q \in ToSet(history[m])
                    /\ q \in ToSet(history[m]) \ ToSet(history'[m]) =>
                         q = Head(history[m]) /\ Len(history'[m]) = HistoryLimit
    <3>1. q # r
      BY <1>1, <2>5 DEF FinishRequest, Finishable
    <3>2. status'[q] = status[q] /\ results'[q] = results[q]
      BY <1>1, <2>5, <3>1 DEF FinishRequest, RequestsTypeOK
    <3> QED BY <1>1, <2>5, <3>1, <3>2, FinishedHistory
  <2>6. ASSUME ExpireRequests
        PROVE  status'[q] = status[q] /\ UNCHANGED <<results, history>>
    BY <1>1, <2>6 DEF ExpireRequests, Swept, Terminal, InFlight
  <2> QED
    BY <1>1, <2>1, <2>2, <2>3, <2>4, <2>5, <2>6 DEF RequestsNext
<1>2. RequestsTypeOK /\ RowInvariant /\ [RequestsNext]_tables => [TerminalKept]_tables
  BY <1>1 DEF TerminalKept
<1> QED
  BY <1>2, RowInvariantHolds, RequestsTypeCorrect, PTL DEF RequestsSpec, TerminalIsFinal

\* The result table and the request rows agree.
THEOREM ResultRowAgreesHolds == RequestsSpec => []ResultRowAgrees
<1>1. ASSUME RequestsTypeOK, RowInvariant, NEW r \in RequestIds
      PROVE  /\ Len(results[r]) <= 1
             /\ Len(results[r]) = 1 =>
                  /\ results[r][1].node = node[r]
                  /\ status[r] = IF results[r][1].success THEN "succeeded" ELSE "failed"
             /\ status[r] = "succeeded" => Len(results[r]) = 1
             /\ \A n \in Nodes : r \in ToSet(history[n]) =>
                  node[r] = n /\ Len(results[r]) = 1 /\ call[r] \in IpChanging
  <2>1. RowOK(r)
    BY <1>1 DEF RowInvariant
  <2>2. CASE results[r] = << >>
    <3>1. Len(results[r]) = 0
      BY <2>2
    <3> QED
      BY <2>1, <3>1, <2>2 DEF RowOK, Logged
  <2>3. CASE results[r] = <<[node |-> node[r], success |-> TRUE]>>
    <3>1. status[r] = "succeeded"
      BY <2>1, <2>3 DEF RowOK
    <3> QED
      BY <2>1, <2>3, <3>1 DEF RowOK
  <2>4. CASE results[r] = <<[node |-> node[r], success |-> FALSE]>>
    <3>1. status[r] = "failed"
      BY <2>1, <2>4 DEF RowOK
    <3> QED
      BY <2>1, <2>4, <3>1 DEF RowOK
  <2> QED
    BY <2>1, <2>2, <2>3, <2>4 DEF RowOK
<1>2. RequestsTypeOK /\ RowInvariant => ResultRowAgrees
  BY <1>1 DEF ResultRowAgrees
<1> QED
  BY <1>2, RowInvariantHolds, RequestsTypeCorrect, PTL

-----------------------------------------------------------------------------
(***************************************************************************)
(* The refinement of NodeActionLock.  The holder of a node is well defined *)
(* because of OneActiveChange.                                             *)
(***************************************************************************)

\* A row is active exactly while its phase is waiting or sent.
LEMMA ActivePhase ==
  ASSUME RequestsTypeOK, NEW r \in RequestIds
  PROVE  /\ status[r] \in Active <=> PhaseOf(r) \in {"waiting", "sent"}
         /\ PhaseOf(r) = "new" <=> status[r] = "absent"
BY DEF RequestsTypeOK, PhaseOf, Statuses, Active, Terminal, InFlight

\* The one active change of a node is its holder.
LEMMA HolderIsTheActiveChange ==
  ASSUME OneActiveChange, NEW n, NEW r \in ActiveChanges(n)
  PROVE  HolderOf(n) = r
<1>1. \A s \in ActiveChanges(n) : s = r
  BY DEF OneActiveChange, ActiveChanges, Active, InFlight
<1> QED
  BY <1>1 DEF HolderOf

\* With the same active changes before and after, the holder is the same.
LEMMA SameHolder ==
  ASSUME NEW n, ActiveChanges(n)' = ActiveChanges(n)
  PROVE  HolderOf(n)' = HolderOf(n)
BY DEF HolderOf

\* A step that only settles rows is a Settle step of the lock.
LEMMA SettlesRows ==
  ASSUME RequestsTypeOK, RequestsTypeOK', OneActiveChange, OneActiveChange',
         node' = node, call' = call,
         \A r \in RequestIds :
           \/ PhaseOf(r)' = PhaseOf(r)
           \/ PhaseOf(r) \in {"waiting", "sent"} /\ PhaseOf(r)' = "settled"
  PROVE  \E rs \in SUBSET RequestIds : Lock!Settle(rs)
<1> DEFINE rs == {r \in RequestIds : PhaseOf(r)' # PhaseOf(r)}
<1>1. ASSUME NEW n \in Nodes
      PROVE  HolderOf(n)' = IF HolderOf(n) \in rs THEN None ELSE HolderOf(n)
  <2>1. ActiveChanges(n)' = ActiveChanges(n) \ rs
    <3>0. ASSUME NEW r \in RequestIds
          PROVE  status'[r] \in Active <=> PhaseOf(r)' \in {"waiting", "sent"}
      BY DEF RequestsTypeOK, PhaseOf, Statuses, Active, Terminal, InFlight
    <3>1. \A r \in RequestIds :
            status'[r] \in Active <=> status[r] \in Active /\ r \notin rs
      BY <3>0, ActivePhase
    <3> QED
      BY <3>1 DEF ActiveChanges, Active, InFlight
  <2>2. CASE ActiveChanges(n) = {}
    <3>1. HolderOf(n) = None /\ ActiveChanges(n)' = {}
      BY <2>1, <2>2 DEF HolderOf
    <3>2. HolderOf(n)' = None
      BY <3>1 DEF HolderOf
    <3> QED
      BY <3>1, <3>2
  <2>3. ASSUME NEW r \in ActiveChanges(n)
        PROVE  HolderOf(n)' = IF HolderOf(n) \in rs THEN None ELSE HolderOf(n)
    <3>1. HolderOf(n) = r /\ \A s \in ActiveChanges(n) : s = r
      BY HolderIsTheActiveChange
    <3>2. CASE r \in rs
      <4>1. ActiveChanges(n)' = {}
        BY <2>1, <3>1, <3>2
      <4>2. HolderOf(n)' = None
        BY <4>1 DEF HolderOf
      <4> QED
        BY <3>1, <3>2, <4>2
    <3>3. CASE r \notin rs
      <4>1. ActiveChanges(n)' = ActiveChanges(n)
        BY <2>1, <3>1, <3>3
      <4> QED
        BY <3>1, <3>3, <4>1, SameHolder
    <3> QED
      BY <3>2, <3>3
  <2> QED
    BY <2>2, <2>3
<1>2. \A r \in RequestIds : PhaseOf(r)' = IF r \in rs THEN "settled" ELSE PhaseOf(r)
  OBVIOUS
<1>3. \A r \in rs : PhaseOf(r) \in {"waiting", "sent"}
  OBVIOUS
<1> HIDE DEF rs
<1>4. rs \subseteq RequestIds
  BY DEF rs
<1>5. Lock!Settle(rs)
  BY <1>1, <1>2, <1>3, <1>4 DEF Lock!Settle
<1> QED
  BY <1>4, <1>5

\* create_request takes the lock of the node, or reads past it.
LEMMA CreateTakesOrReads ==
  ASSUME RequestsTypeOK, RequestsTypeOK', OneActiveChange, OneActiveChange',
         NEW r \in RequestIds, NEW n \in Nodes, NEW c \in Calls,
         NEW isOnline \in BOOLEAN, NEW queue \in BOOLEAN,
         CreateRequest(r, n, c, isOnline, queue)
  PROVE  Lock!Read(r) \/ Lock!Take(r, n)
<1>1. /\ \A s \in RequestIds \ {r} : /\ status'[s] = status[s]
                                     /\ node'[s] = node[s]
                                     /\ call'[s] = call[s]
      /\ node'[r] = n
      /\ call'[r] = c
      /\ status[r] = "absent"
      /\ status'[r] \in {"dispatched", "queued", "skipped_offline"}
  BY DEF CreateRequest, RequestsTypeOK
<1>2. /\ PhaseOf(r) = "new"
      /\ PhaseOf(r)' \in {"waiting", "sent", "settled"}
      /\ PhaseOf(r)' = "settled" <=> status'[r] = "skipped_offline"
      /\ \A s \in RequestIds \ {r} : PhaseOf(s)' = PhaseOf(s)
  BY <1>1 DEF PhaseOf, InFlight, Terminal
<1>3. [s \in RequestIds |-> PhaseOf(s)]'
        = [[s \in RequestIds |-> PhaseOf(s)] EXCEPT ![r] = PhaseOf(r)']
  BY <1>2
<1>4. \A m \in Nodes \ {n} : ActiveChanges(m)' = ActiveChanges(m)
  BY <1>1 DEF ActiveChanges, Active, InFlight
<1>5. r \notin ActiveChanges(n)
  BY <1>1 DEF ActiveChanges, Active, InFlight
<1>6. CASE c \in StateChanging /\ status'[r] # "skipped_offline"
  <2>1. ActiveChanges(n) = {}
    BY <1>6 DEF CreateRequest, Busy
  <2>2. HolderOf(n) = None
    BY <2>1 DEF HolderOf
  <2>3. r \in ActiveChanges(n)'
    BY <1>1, <1>6 DEF ActiveChanges, Active, InFlight
  <2>4. HolderOf(n)' = r
    <3>1. \A s \in ActiveChanges(n)' : s = r
      BY <1>1, <2>1 DEF ActiveChanges
    <3> QED
      BY <2>3, <3>1 DEF HolderOf
  <2>5. \A m \in Nodes \ {n} : HolderOf(m)' = HolderOf(m)
    BY <1>4, SameHolder
  <2>6. Lock!Take(r, n)
    BY <1>2, <1>3, <1>6, <2>2, <2>4, <2>5 DEF Lock!Take
  <2> QED
    BY <2>6
<1>7. CASE ~(c \in StateChanging /\ status'[r] # "skipped_offline")
  <2>1. ActiveChanges(n)' = ActiveChanges(n)
    BY <1>1, <1>5, <1>7 DEF ActiveChanges, Active, InFlight
  <2>2. \A m \in Nodes : HolderOf(m)' = HolderOf(m)
    BY <1>4, <2>1, SameHolder
  <2>3. Lock!Read(r)
    BY <1>2, <1>3, <2>2 DEF Lock!Read
  <2> QED
    BY <2>3
<1> QED
  BY <1>6, <1>7

\* The service implements the lock: the initial tables are a free lock, and every
\* step of the service is one of the lock or leaves it alone.
THEOREM ImplementsNodeActionLockHolds == RequestsSpec => ImplementsNodeActionLock
<1>1. RequestsInit => Lock!Init
  <2> SUFFICES ASSUME RequestsInit PROVE Lock!Init
    OBVIOUS
  <2>1. \A r \in RequestIds : PhaseOf(r) = "new"
    BY DEF RequestsInit, PhaseOf, InFlight, Terminal
  <2>2. \A n \in Nodes : HolderOf(n) = None
    BY DEF RequestsInit, HolderOf, ActiveChanges, Active, InFlight
  <2> QED
    BY <2>1, <2>2 DEF Lock!Init
<1>2. /\ RequestsTypeOK /\ RequestsTypeOK'
      /\ OneActiveChange /\ OneActiveChange'
      /\ RowInvariant
      /\ [RequestsNext]_tables
      => [Lock!Next]_(Lock!vars)
  <2> SUFFICES ASSUME RequestsTypeOK, RequestsTypeOK', OneActiveChange, OneActiveChange',
                      RowInvariant, [RequestsNext]_tables
               PROVE  Lock!Next \/ UNCHANGED Lock!vars
    OBVIOUS
  <2> DEFINE OnlySettles ==
        /\ node' = node /\ call' = call
        /\ \A s \in RequestIds :
             \/ PhaseOf(s)' = PhaseOf(s)
             \/ PhaseOf(s) \in {"waiting", "sent"} /\ PhaseOf(s)' = "settled"
  <2>0. OnlySettles => Lock!Next
    BY SettlesRows DEF Lock!Next
  <2>1. ASSUME NEW r \in RequestIds, NEW n \in Nodes, NEW c \in Calls,
               NEW isOnline \in BOOLEAN, NEW queue \in BOOLEAN,
               CreateRequest(r, n, c, isOnline, queue)
        PROVE  Lock!Next
    BY <2>1, CreateTakesOrReads DEF Lock!Next
  <2>2. ASSUME NEW r \in RequestIds, DispatchSends(r)
        PROVE  Lock!Next
    <3>1. \A n \in Nodes : ActiveChanges(n)' = ActiveChanges(n)
      BY <2>2 DEF DispatchSends, Dispatchable, ActiveChanges, Active, InFlight,
                  RequestsTypeOK
    <3>2. \A n \in Nodes : HolderOf(n)' = HolderOf(n)
      BY <3>1, SameHolder
    <3>3. /\ PhaseOf(r) = "waiting" /\ PhaseOf(r)' = "sent"
          /\ \A s \in RequestIds \ {r} : PhaseOf(s)' = PhaseOf(s)
      <4>1. /\ status[r] = "queued" /\ status'[r] = "dispatched"
            /\ \A s \in RequestIds \ {r} : status'[s] = status[s]
        BY <2>2 DEF DispatchSends, Dispatchable, RequestsTypeOK
      <4> QED
        BY <4>1 DEF PhaseOf, InFlight, Terminal
    <3>4. Lock!Send(r)
      BY <3>2, <3>3 DEF Lock!Send
    <3> QED
      BY <3>4 DEF Lock!Next
  <2>3. ASSUME NEW r \in RequestIds, DispatchExpires(r) \/ DeadlinePasses(r)
        PROVE  OnlySettles
    BY <2>3 DEF DispatchExpires, DeadlinePasses, Dispatchable, PhaseOf, InFlight,
                Terminal, RequestsTypeOK
  <2>4. ASSUME NEW rs, MarkUnknown(rs)
        PROVE  OnlySettles
    BY <2>4 DEF MarkUnknown, PhaseOf, InFlight, Terminal
  <2>5. ASSUME NEW r \in RequestIds, NEW n \in Nodes,
               AcceptRequest(n, r) \/ ProgressRequest(n, r)
        PROVE  OnlySettles
    BY <2>5 DEF AcceptRequest, ProgressRequest, Acceptable, Progressable, PhaseOf, InFlight, Terminal,
                RequestsTypeOK
  <2>6. ASSUME NEW r \in RequestIds, NEW n \in Nodes, Sent(r),
               \/ RejectRequest(n, r)
               \/ \E success, recorded \in BOOLEAN :
                    FinishRequest(n, r, success, recorded)
        PROVE  OnlySettles
    <3>1. status[r] \in Statuses /\ RowOK(r)
      BY DEF RequestsTypeOK, RowInvariant
    <3>2. status[r] # "absent"
      BY <2>6, <3>1 DEF RowOK, Sent
    <3>3. PhaseOf(r) \in {"waiting", "sent", "settled"}
      BY <3>1, <3>2 DEF PhaseOf, Statuses, Active, Terminal, InFlight
    <3>4. /\ status'[r] \in Terminal
          /\ \A s \in RequestIds \ {r} : status'[s] = status[s]
          /\ node' = node /\ call' = call
      BY <2>6 DEF RejectRequest, Rejectable, FinishRequest, RequestsTypeOK, Terminal
    <3>5. PhaseOf(r)' = "settled"
      BY <3>4 DEF PhaseOf, Terminal, InFlight
    <3>6. \A s \in RequestIds \ {r} : PhaseOf(s)' = PhaseOf(s)
      BY <3>4 DEF PhaseOf
    <3> QED
      BY <3>3, <3>4, <3>5, <3>6
  <2>7. ASSUME ExpireRequests
        PROVE  OnlySettles
    BY <2>7 DEF ExpireRequests, Swept, PhaseOf, InFlight, Terminal
  <2>8. CASE UNCHANGED tables
    <3>1. \A n \in Nodes : ActiveChanges(n)' = ActiveChanges(n)
      BY <2>8 DEF tables, ActiveChanges
    <3>2. \A n \in Nodes : HolderOf(n)' = HolderOf(n)
      BY <3>1, SameHolder
    <3>3. \A r \in RequestIds : PhaseOf(r)' = PhaseOf(r)
      BY <2>8 DEF tables, PhaseOf
    <3> QED
      BY <3>2, <3>3 DEF Lock!vars
  <2> HIDE DEF OnlySettles
  <2> QED
    BY <2>0, <2>1, <2>2, <2>3, <2>4, <2>5, <2>6, <2>7, <2>8 DEF RequestsNext
<1> QED
  BY <1>1, <1>2, RequestsTypeCorrect, OneActiveChangeHolds, RowInvariantHolds, PTL
  DEF RequestsSpec, ImplementsNodeActionLock, Lock!Spec
-----------------------------------------------------------------------------
\* A handler that runs has a node, one that is closed runs, and what an
\* agent_hello brought is about requests that were sent: what the request
\* tables assume of their callers.
HandlersOK ==
  /\ \A h \in Handlers : stage[h] # "idle" => peer[h] \in Nodes
  /\ \A h \in closed : stage[h] # "idle"
  /\ \A h \in Handlers : stage[h] = "reconciling" => \A r \in todo[h] : Sent(r)

\* What a handler does to the tables for one request is a step of theirs.
LEMMA AnswerIsRequestStep ==
  ASSUME NEW n \in Nodes, NEW r \in RequestIds, Sent(r),
         \/ AcceptRequest(n, r)
         \/ RejectRequest(n, r)
         \/ ProgressRequest(n, r)
         \/ \E success, recorded \in BOOLEAN : FinishRequest(n, r, success, recorded)
  PROVE  RequestsNext
BY DEF RequestsNext

\* Every step of the gateway is a step of the request tables or leaves them alone.
LEMMA GatewayStepIsRequestStep ==
  ASSUME SocketsTypeOK, HandlersOK, [GatewayNext]_gateway
  PROVE  [RequestsNext]_tables
<1> USE DEF SocketsTypeOK
<1>1. ASSUME NEW h \in Handlers, NEW r \in RequestIds, Reconcile(h, r)
      PROVE  [RequestsNext]_tables
  <2>1. peer[h] \in Nodes /\ Sent(r)
    BY <1>1 DEF Reconcile, HandlersOK
  <2>2. UNCHANGED tables \/ \E success, recorded \in BOOLEAN :
                              FinishRequest(peer[h], r, success, recorded)
    BY <1>1 DEF Reconcile
  <2> QED
    BY <2>1, <2>2, AnswerIsRequestStep
<1>2. ASSUME NEW h \in Handlers, NEW r \in RequestIds, ExpirePending(h, r) \/ SendPending(h, r)
      PROVE  [RequestsNext]_tables
  BY <1>2 DEF ExpirePending, SendPending, RequestsNext
<1>3. ASSUME NEW r \in RequestIds, SendEnds(r)
      PROVE  [RequestsNext]_tables
  BY <1>3 DEF SendEnds, RequestsNext
<1>4. ASSUME NEW h \in Handlers, Receive(h)
      PROVE  [RequestsNext]_tables
  <2>1. peer[h] \in Nodes
    BY <1>4 DEF Receive, HandlersOK
  <2>2. CASE UNCHANGED tables
    BY <2>2
  <2>3. CASE \E r \in RequestIds : Sent(r) /\ Answers(h, r)
    <3>1. PICK r \in RequestIds : Sent(r) /\ Answers(h, r)
      BY <2>3
    <3> QED
      BY <2>1, <3>1, AnswerIsRequestStep DEF Answers
  <2> QED
    BY <1>4, <2>2, <2>3 DEF Receive
<1>5. ASSUME NEW h \in Handlers, End(h)
      PROVE  [RequestsNext]_tables
  <2>1. peer[h] \in Nodes
    BY <1>5 DEF End, HandlersOK
  <2> QED
    BY <1>5, <2>1 DEF End, RequestsNext
<1>6. ASSUME NEW n \in Nodes, DisconnectNode(n)
      PROVE  [RequestsNext]_tables
  BY <1>6 DEF DisconnectNode, RequestsNext
<1>7. ASSUME NEW r \in RequestIds, NEW n \in Nodes, NEW c \in Calls, NEW queue \in BOOLEAN,
             Create(r, n, c, queue)
      PROVE  [RequestsNext]_tables
  <2>1. Online(n) \in BOOLEAN
    BY DEF Online
  <2> QED
    BY <1>7, <2>1 DEF Create, RequestsNext
<1>8. ASSUME Restart
      PROVE  [RequestsNext]_tables
  <2>1. CASE UNCHANGED tables
    BY <2>1
  <2>2. CASE ~UNCHANGED tables
    <3>1. PICK h \in Handlers, r \in RequestIds, success \in BOOLEAN :
            /\ Sent(r)
            /\ stage[h] \in {"serving", "last", "reconciling"}
            /\ FinishRequest(peer[h], r, success, FALSE)
      BY <1>8, <2>2 DEF Restart
    <3>2. peer[h] \in Nodes
      BY <3>1 DEF HandlersOK
    <3> QED
      BY <3>1, <3>2, AnswerIsRequestStep
  <2> QED
    BY <2>1, <2>2
<1>9. ASSUME NEW r \in RequestIds, Tick(r)
      PROVE  [RequestsNext]_tables
  BY <1>9 DEF Tick, RequestsNext
<1>10. CASE Sweep
  BY <1>10 DEF Sweep, RequestsNext
<1>11. CASE UNCHANGED tables
  BY <1>11
<1> QED
  BY <1>1, <1>2, <1>3, <1>4, <1>5, <1>6, <1>7, <1>8, <1>9, <1>10, <1>11
  DEF GatewayNext, gateway, Accept, Greeted, ListPending, PendingDone, Fail, Lapse, SkipPending

-----------------------------------------------------------------------------
\* Every step keeps the types of the sockets.
LEMMA SocketsTypeKept ==
  ASSUME SocketsTypeOK, HandlersOK, [GatewayNext]_gateway
  PROVE  SocketsTypeOK'
<1> USE AgentGatewayAssumption DEF SocketsTypeOK, Stages
<1>1. ASSUME NEW h \in Handlers, NEW n \in Nodes, Accept(h, n)
      PROVE  SocketsTypeOK'
  BY <1>1 DEF Accept, StageOnClose
<1>2. ASSUME NEW h \in Handlers, Greeted(h) \/ ListPending(h) \/ PendingDone(h)
      PROVE  SocketsTypeOK'
  <2>1. CASE Greeted(h)
    BY <2>1 DEF Greeted
  <2>2. CASE ListPending(h)
    BY <2>2 DEF ListPending, RequestsOf
  <2>3. CASE PendingDone(h)
    BY <2>3 DEF PendingDone
  <2> QED
    BY <1>2, <2>1, <2>2, <2>3
<1>3. ASSUME NEW h \in Handlers, Receive(h) \/ Fail(h) \/ Lapse(h)
      PROVE  SocketsTypeOK'
  BY <1>3 DEF Receive, Fail, Lapse
<1>4. ASSUME NEW h \in Handlers, End(h)
      PROVE  SocketsTypeOK'
  BY <1>4 DEF End
<1>5. ASSUME NEW h \in Handlers, NEW r \in RequestIds,
             \/ Reconcile(h, r) \/ SkipPending(h, r)
             \/ ExpirePending(h, r) \/ SendPending(h, r)
      PROVE  SocketsTypeOK'
  <2>1. todo' \in [Handlers -> SUBSET RequestIds]
    <3>1. todo' = [todo EXCEPT ![h] = @ \ {r}]
      BY <1>5 DEF Reconcile, SkipPending, ExpirePending, SendPending
    <3> QED
      BY <3>1
  <2>2. CASE SendPending(h, r)
    BY <2>1, <2>2 DEF SendPending
  <2>3. CASE UNCHANGED <<connections, stage, peer, closed, recent, cursor, sending, loop,
                         restarts>>
    BY <2>1, <2>3
  <2> QED
    BY <1>5, <2>2, <2>3 DEF Reconcile, SkipPending, ExpirePending
<1>6. ASSUME NEW r \in RequestIds, SendEnds(r)
      PROVE  SocketsTypeOK'
  BY <1>6 DEF SendEnds, Waiting
<1>7. ASSUME NEW n \in Nodes, DisconnectNode(n)
      PROVE  SocketsTypeOK'
  BY <1>7 DEF DisconnectNode, StageOnClose
<1>8. ASSUME NEW r \in RequestIds, NEW n \in Nodes, NEW c \in Calls, NEW queue \in BOOLEAN,
             Create(r, n, c, queue)
      PROVE  SocketsTypeOK'
  BY <1>8 DEF Create
<1>9. CASE Restart
  BY <1>9 DEF Restart, SocketsGone
<1>10. CASE UNCHANGED <<sockets, restarts>>
  BY <1>10 DEF sockets
<1> QED
  BY <1>1, <1>2, <1>3, <1>4, <1>5, <1>6, <1>7, <1>8, <1>9, <1>10
  DEF GatewayNext, gateway, Sweep, Tick

\* Every step keeps what the request tables assume of the handlers.
LEMMA HandlersKept ==
  ASSUME RequestsTypeOK, RowInvariant, SocketsTypeOK, HandlersOK, RegistrationMatches,
         [GatewayNext]_gateway
  PROVE  HandlersOK'
<1>1. \A q \in RequestIds : Sent(q) => Sent(q)'
  BY GatewayStepIsRequestStep, SentStays
<1>2. HandlersOK'
  <2> USE <1>1 DEF SocketsTypeOK, HandlersOK
  <2>1. ASSUME NEW h \in Handlers, NEW n \in Nodes, Accept(h, n)
        PROVE  HandlersOK'
    <3>1. connections[n] # None => stage[connections[n]] # "idle"
      BY DEF RegistrationMatches
    <3>2. \A g \in closed' : stage'[g] # "idle"
      BY <2>1, <3>1 DEF Accept, StageOnClose
    <3> QED
      BY <2>1, <3>2 DEF Accept, StageOnClose
  <2>2. ASSUME NEW h \in Handlers, Greeted(h)
        PROVE  HandlersOK'
    <3>1. PICK rs \in SUBSET {q \in RequestIds : Sent(q)} : todo' = [todo EXCEPT ![h] = rs]
      BY <2>2 DEF Greeted
    <3> QED
      BY <2>2, <3>1 DEF Greeted
  <2>3. ASSUME NEW h \in Handlers, ListPending(h) \/ PendingDone(h)
        PROVE  HandlersOK'
    BY <2>3 DEF ListPending, PendingDone
  <2>4. ASSUME NEW h \in Handlers, Receive(h) \/ Fail(h) \/ Lapse(h)
        PROVE  HandlersOK'
    BY <2>4 DEF Receive, Fail, Lapse
  <2>5. ASSUME NEW h \in Handlers, End(h)
        PROVE  HandlersOK'
    BY <2>5 DEF End
  <2>6. ASSUME NEW h \in Handlers, NEW r \in RequestIds,
               \/ Reconcile(h, r) \/ SkipPending(h, r)
               \/ ExpirePending(h, r) \/ SendPending(h, r)
        PROVE  HandlersOK'
    BY <2>6 DEF Reconcile, SkipPending, ExpirePending, SendPending
  <2>7. ASSUME NEW n \in Nodes, DisconnectNode(n)
        PROVE  HandlersOK'
    <3>1. stage[connections[n]] # "idle"
      BY <2>7 DEF DisconnectNode, RegistrationMatches
    <3>2. \A g \in closed' : stage'[g] # "idle"
      BY <2>7, <3>1 DEF DisconnectNode, StageOnClose
    <3> QED
      BY <2>7, <3>2 DEF DisconnectNode, StageOnClose
  <2>8. CASE Restart
    BY <2>8 DEF Restart, SocketsGone
  <2>9. CASE UNCHANGED <<connections, stage, peer, closed, todo>>
    BY <2>9
  <2> QED
    BY <2>1, <2>2, <2>3, <2>4, <2>5, <2>6, <2>7, <2>8, <2>9
    DEF GatewayNext, gateway, sockets, SendEnds, Tick, Create, Sweep
<1> QED
  BY <1>2

\* Every step keeps registrations and handlers in agreement: Accept registers a
\* handler that was idle, so registered nowhere; the identity test of remove
\* protects the successor of a handler that leaves.
LEMMA RegistrationKept ==
  ASSUME SocketsTypeOK, HandlersOK, RegistrationMatches, [GatewayNext]_gateway
  PROVE  RegistrationMatches'
<1> USE AgentGatewayAssumption DEF SocketsTypeOK, HandlersOK, RegistrationMatches
<1>1. ASSUME NEW h \in Handlers, NEW n \in Nodes, Accept(h, n)
      PROVE  RegistrationMatches'
  BY <1>1 DEF Accept, StageOnClose
<1>2. ASSUME NEW h \in Handlers,
             \/ Greeted(h) \/ ListPending(h) \/ PendingDone(h)
             \/ Receive(h) \/ Fail(h) \/ Lapse(h)
      PROVE  RegistrationMatches'
  BY <1>2 DEF Greeted, ListPending, PendingDone, Receive, Fail, Lapse
<1>3. ASSUME NEW h \in Handlers, End(h)
      PROVE  RegistrationMatches'
  BY <1>3 DEF End, Deregistered
<1>4. ASSUME NEW n \in Nodes, DisconnectNode(n)
      PROVE  RegistrationMatches'
  BY <1>4 DEF DisconnectNode, StageOnClose
<1>5. CASE Restart
  BY <1>5 DEF Restart, SocketsGone
<1>6. CASE UNCHANGED <<connections, stage, peer, closed>>
  BY <1>6
<1> QED
  BY <1>1, <1>2, <1>3, <1>4, <1>5, <1>6
  DEF GatewayNext, gateway, sockets, Reconcile, SkipPending, ExpirePending, SendPending,
      SendEnds, Tick, Create, Sweep

-----------------------------------------------------------------------------
\* The inductive invariant: the row invariant is part of it because what an
\* agent_hello brought must still be about sent requests when it is read.
GatewayInv ==
  /\ RequestsTypeOK
  /\ RowInvariant
  /\ SocketsTypeOK
  /\ HandlersOK
  /\ RegistrationMatches

\* GatewayInv holds in every reachable state.
THEOREM GatewayInvHolds == GatewaySpec => []GatewayInv
<1>1. GatewayInit => GatewayInv
  <2> SUFFICES ASSUME GatewayInit
               PROVE  GatewayInv
    OBVIOUS
  <2>1. RequestsTypeOK /\ RowInvariant
    BY RowInvariantInit, RequestsTypeInit DEF GatewayInit
  <2>2. SocketsTypeOK /\ HandlersOK /\ RegistrationMatches
    BY DEF GatewayInit, SocketsTypeOK, Stages, HandlersOK, RegistrationMatches
  <2> QED
    BY <2>1, <2>2 DEF GatewayInv
<1>2. GatewayInv /\ [GatewayNext]_gateway => GatewayInv'
  <2> SUFFICES ASSUME GatewayInv, [GatewayNext]_gateway
               PROVE  GatewayInv'
    OBVIOUS
  <2>1. [RequestsNext]_tables
    BY GatewayStepIsRequestStep DEF GatewayInv
  <2>2. RequestsTypeOK' /\ RowInvariant'
    BY <2>1, RequestsTypeKept, RowInvariantStep DEF GatewayInv
  <2>3. SocketsTypeOK'
    BY SocketsTypeKept DEF GatewayInv
  <2>4. HandlersOK'
    BY HandlersKept DEF GatewayInv
  <2>5. RegistrationMatches'
    BY RegistrationKept DEF GatewayInv
  <2> QED
    BY <2>2, <2>3, <2>4, <2>5 DEF GatewayInv
<1> QED
  BY <1>1, <1>2, PTL DEF GatewaySpec

\* Tables and sockets always hold values of their types.
THEOREM GatewayTypeCorrect == GatewaySpec => []GatewayTypeOK
<1>1. GatewayInv => GatewayTypeOK
  BY DEF GatewayInv, GatewayTypeOK
<1> QED
  BY <1>1, GatewayInvHolds, PTL

\* Registrations and handlers agree in every reachable state.
THEOREM RegistrationMatchesHolds == GatewaySpec => []RegistrationMatches
<1>1. GatewayInv => RegistrationMatches
  BY DEF GatewayInv
<1> QED
  BY <1>1, GatewayInvHolds, PTL

\* The gateway implements the request tables.
THEOREM GatewayImplementsRequests == GatewaySpec => RequestsSpec
<1>1. GatewayInit => RequestsInit
  BY DEF GatewayInit
<1>2. GatewayInv /\ [GatewayNext]_gateway => [RequestsNext]_tables
  BY GatewayStepIsRequestStep DEF GatewayInv
<1> QED
  BY <1>1, <1>2, GatewayInvHolds, PTL DEF GatewaySpec, RequestsSpec

\* So under the gateway, too, at most one state-changing action is active on a
\* node, ...
THEOREM GatewayKeepsOneActiveChange == GatewaySpec => []OneActiveChange
BY GatewayImplementsRequests, OneActiveChangeHolds, PTL

\* ... and each node is a lock with at most one holder.
THEOREM GatewayImplementsNodeActionLock == GatewaySpec => ImplementsNodeActionLock
BY GatewayImplementsRequests, ImplementsNodeActionLockHolds, PTL

-----------------------------------------------------------------------------
\* Every step that takes a node's connection away, other than a crash, marks the
\* node's requests.
THEOREM DepartureMarksHolds == GatewaySpec => DepartureMarks
<1>1. ASSUME SocketsTypeOK, [GatewayNext]_gateway, NEW n \in Nodes, LosesConnection(n),
             NEW q \in RequestIds, node[q] = n
      PROVE  status'[q] \notin InFlight
  <2> USE AgentGatewayAssumption DEF SocketsTypeOK, LosesConnection
  <2>1. ASSUME MarkUnknown(RequestsOf(n))
        PROVE  status'[q] \notin InFlight
    BY <1>1, <2>1 DEF MarkUnknown, RequestsOf, InFlight
  <2>2. ASSUME NEW h \in Handlers, NEW m \in Nodes, Accept(h, m)
        PROVE  FALSE
    BY <1>1, <2>2 DEF Accept
  <2>3. ASSUME NEW h \in Handlers, End(h)
        PROVE  MarkUnknown(RequestsOf(n))
    BY <1>1, <2>3 DEF End
  <2>4. ASSUME NEW m \in Nodes, DisconnectNode(m)
        PROVE  MarkUnknown(RequestsOf(n))
    BY <1>1, <2>4 DEF DisconnectNode
  <2>5. ASSUME Restart
        PROVE  FALSE
    BY <1>1, <2>5 DEF Restart
  <2>6. ASSUME connections' = connections
        PROVE  FALSE
    BY <1>1, <2>6
  <2> QED
    BY <1>1, <2>1, <2>2, <2>3, <2>4, <2>5, <2>6
    DEF GatewayNext, gateway, sockets, Greeted, ListPending, PendingDone, Receive, Fail, Lapse,
        Reconcile, SkipPending, ExpirePending, SendPending, SendEnds, Tick, Create, Sweep
<1>2. GatewayInv /\ [GatewayNext]_gateway =>
        [\A n \in Nodes : LosesConnection(n) =>
           \A r \in RequestIds : node[r] = n => status'[r] \notin InFlight]_gateway
  BY <1>1 DEF GatewayInv
<1> QED
  BY <1>2, GatewayInvHolds, PTL DEF GatewaySpec, DepartureMarks

\* Every step keeps each send in the hands of one coroutine: a row that is being
\* sent has left the queue, so no second handler finds it queued.
LEMMA SendsKept ==
  ASSUME GatewayInv, SendsAreOwned, [GatewayNext]_gateway
  PROVE  SendsAreOwned'
<1> USE AgentGatewayAssumption DEF SocketsTypeOK, SendsAreOwned
<1>1. \A q \in RequestIds : Sent(q) => Sent(q)'
  BY GatewayStepIsRequestStep, SentStays DEF GatewayInv
<1>2. SocketsTypeOK
  BY DEF GatewayInv
<1>3. \A q \in RequestIds : Dispatchable(q) => q \notin sending
  <2>1. \A q \in RequestIds : Dispatchable(q) => attempts[q] = 0
    BY DEF GatewayInv, RowInvariant, RowOK, Dispatchable
  <2>2. \A q \in sending : attempts[q] > 0
    BY DEF Sent
  <2> QED
    BY <2>1, <2>2
<1>4. ASSUME NEW h \in Handlers, NEW n \in Nodes, Accept(h, n)
      PROVE  SendsAreOwned'
  <2>1. \A g \in Handlers : stage[g] \in {"reconciling", "dispatching"} => stage'[g] = stage[g]
    BY <1>2, <1>4 DEF Accept, StageOnClose
  <2>2. UNCHANGED <<cursor, sending, loop>>
    BY <1>4 DEF Accept
  <2> QED
    BY <1>1, <1>2, <2>1, <2>2
<1>5. ASSUME NEW h \in Handlers, Greeted(h) \/ ListPending(h) \/ PendingDone(h)
      PROVE  SendsAreOwned'
  BY <1>1, <1>2, <1>5 DEF Greeted, ListPending, PendingDone
<1>6. ASSUME NEW h \in Handlers, Receive(h) \/ Fail(h) \/ End(h) \/ Lapse(h)
      PROVE  SendsAreOwned'
  <2>1. \A g \in Handlers : stage[g] \in {"reconciling", "dispatching"} => stage'[g] = stage[g]
    BY <1>2, <1>6 DEF Receive, Fail, End, Lapse
  <2>2. UNCHANGED <<cursor, sending, loop>>
    BY <1>6 DEF Receive, Fail, End, Lapse
  <2> QED
    BY <1>1, <1>2, <2>1, <2>2
<1>7. ASSUME NEW h \in Handlers, NEW r \in RequestIds,
             Reconcile(h, r) \/ SkipPending(h, r) \/ ExpirePending(h, r)
      PROVE  SendsAreOwned'
  BY <1>1, <1>2, <1>7 DEF Reconcile, SkipPending, ExpirePending
<1>8. ASSUME NEW h \in Handlers, NEW r \in RequestIds, SendPending(h, r)
      PROVE  SendsAreOwned'
  <2>1. r \notin sending
    BY <1>3, <1>8 DEF SendPending, DispatchSends
  <2>2. Sent(r)'
    BY <1>8 DEF SendPending, DispatchSends, Sent, GatewayInv, RequestsTypeOK
  <2> QED
    BY <1>1, <1>2, <1>8, <2>1, <2>2 DEF SendPending
<1>9. ASSUME NEW r \in RequestIds, SendEnds(r)
      PROVE  SendsAreOwned'
  <2>1. UNCHANGED stage /\ sending' = sending \ {r}
    BY <1>9 DEF SendEnds
  <2>2. CASE Waiting(r) = {}
    <3>1. \A g \in Handlers : cursor[g] # r
      BY <2>2 DEF Waiting
    <3>2. UNCHANGED <<cursor, loop>>
      BY <1>9, <2>2 DEF SendEnds
    <3> QED
      BY <1>1, <1>2, <2>1, <3>1, <3>2
  <2>3. CASE Waiting(r) # {}
    <3>1. PICK h \in Waiting(r) : cursor' = [cursor EXCEPT ![h] = None] /\ loop' = h
      BY <1>9, <2>3 DEF SendEnds
    <3>2. h \in Handlers /\ cursor[h] = r /\ r \in RequestIds
      BY <3>1 DEF Waiting
    <3>3. \A g \in Handlers : cursor'[g] = IF g = h THEN None ELSE cursor[g]
      BY <1>2, <3>1, <3>2
    <3>4. \A g \in Handlers : g # h => cursor[g] # r
      BY <1>2, <3>2
    <3> QED
      BY <1>1, <1>2, <2>1, <3>1, <3>2, <3>3, <3>4
  <2> QED
    BY <2>2, <2>3
<1>10. ASSUME NEW n \in Nodes, DisconnectNode(n)
       PROVE  SendsAreOwned'
  <2>1. \A g \in Handlers : stage[g] \in {"reconciling", "dispatching"} => stage'[g] = stage[g]
    BY <1>2, <1>10 DEF DisconnectNode, StageOnClose
  <2>2. UNCHANGED <<cursor, sending, loop>>
    BY <1>10 DEF DisconnectNode
  <2> QED
    BY <1>1, <1>2, <2>1, <2>2
<1>11. ASSUME NEW r \in RequestIds, NEW n \in Nodes, NEW c \in Calls, NEW queue \in BOOLEAN,
              Create(r, n, c, queue)
       PROVE  SendsAreOwned'
  <2>1. Online(n) => Sent(r)'
    BY <1>11 DEF Create, CreateRequest, Sent, GatewayInv, RequestsTypeOK
  <2> QED
    BY <1>1, <1>2, <1>11, <2>1 DEF Create
<1>12. CASE Restart
  BY <1>2, <1>12 DEF Restart, SocketsGone
<1>13. CASE UNCHANGED sockets
  BY <1>1, <1>2, <1>13 DEF sockets
<1> QED
  BY <1>4, <1>5, <1>6, <1>7, <1>8, <1>9, <1>10, <1>11, <1>12, <1>13
  DEF GatewayNext, gateway, Tick, Sweep

\* No send is in the hands of two coroutines.
THEOREM SendsAreOwnedHolds == GatewaySpec => []SendsAreOwned
<1>1. GatewayInit => SendsAreOwned
  BY DEF GatewayInit, SendsAreOwned
<1> QED
  BY <1>1, SendsKept, GatewayInvHolds, PTL DEF GatewaySpec
=============================================================================
