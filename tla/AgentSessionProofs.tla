------------------------- MODULE AgentSessionProofs -------------------------
(***************************************************************************)
(* Proofs about AgentSession, for every set of actions and websockets, all *)
(* limits, and any number of faults.                                       *)
(***************************************************************************)
EXTENDS AgentSession, SequenceTheorems, FiniteSetTheorems, TLAPS

\* The commands under way on a websocket, each at most once.
Under(w) == ToSet(w.toAgent) \cap Requests

NoCopies(s) == \A i, k \in DOMAIN s : s[i] = s[k] /\ s[i] \in Requests => i = k

\* Where a command may be: before it is sent, under way, with its handler, refused
\* by it, or answered by the executor (Ran); each excludes the others.
Waiting(r)  == row[r] \in {"new", "queued"}
Arriving(r) == \E c \in Conns : r \in Under(conn[c])
AtWork(r)   == handler[r].phase \in {"started", "executing"}
Refused(r)  == \E c \in Conns : \E m \in ToSet(conn[c].toServer) : m.kind = "reject" /\ m.request = r
Ran(r)      == outcome[r] # "none"

Place(r) ==
  /\ Waiting(r) => ~Arriving(r) /\ ~AtWork(r) /\ ~Refused(r) /\ ~Ran(r)
  /\ Arriving(r) => handler[r].phase = "none" /\ ~Refused(r) /\ ~Ran(r)
  /\ AtWork(r) => ~Refused(r) /\ ~Ran(r)
  /\ Refused(r) => ~Ran(r)
  /\ handler[r].phase = "reporting" => Ran(r)
  /\ row[r] = "failed" => ~Arriving(r) /\ ~AtWork(r) /\ outcome[r] # "succeeded"
  /\ row[r] = "succeeded" => outcome[r] = "succeeded"

PlaceInv == \A r \in Requests : Place(r)

\* A command is under way once.
OnceInv ==
  /\ \A c \in Conns : NoCopies(conn[c].toAgent)
  /\ \A c, d \in Conns : c # d => Under(conn[c]) \cap Under(conn[d]) = {}

\* Every verdict under way is the executor's result, and only what it answered is kept
\* to be reported.
ResultVerdicts(ms) == \A m \in ms : \A v \in m.verdicts : Ran(v[1]) /\ v = Payload(v[1])

ReportInv ==
  /\ \A c \in Conns : ResultVerdicts(ToSet(conn[c].toServer))
  /\ \A r \in ToSet(journal) \cup ToSet(queue) : Ran(r)

\* A handshake that awaits a close has its hello; a registered websocket is past its own.
GreetInv ==
  /\ \A c \in Conns : conn[c].state = "greeting" => conn[c].toServer # << >>
  /\ registered # None => conn[registered].state \notin {"free", "hello"}
  /\ agent.phase = "idle" <=> agent.link = None

SessionInv == SessionTypeOK /\ PlaceInv /\ OnceInv /\ ReportInv /\ GreetInv
-----------------------------------------------------------------------------
(***************************************************************************)
(* Sequences: what is in them, and what is in them twice.                  *)
(***************************************************************************)

LEMMA TailOf ==
  ASSUME NEW S, NEW s \in Seq(S), s # << >>
  PROVE  /\ Tail(s) \in Seq(S) /\ ToSet(Tail(s)) \subseteq ToSet(s)
         /\ Head(s) \in ToSet(s) /\ Head(s) \in S
         /\ NoCopies(s) => /\ NoCopies(Tail(s))
                           /\ Head(s) \in Requests => Head(s) \notin ToSet(Tail(s))
<1>1. /\ Len(s) \in Nat \ {0} /\ DOMAIN s = 1 .. Len(s)
      /\ Head(s) \in S /\ Tail(s) \in Seq(S) /\ Len(Tail(s)) = Len(s) - 1
      /\ \A i \in 1 .. Len(Tail(s)) : Tail(s)[i] = s[i + 1]
      /\ Head(s) = s[1]
  BY EmptySeq, LenProperties, HeadTailProperties
<1>2. DOMAIN Tail(s) = 1 .. Len(s) - 1
  BY <1>1, LenProperties
<1>3. \A i \in DOMAIN Tail(s) : i + 1 \in DOMAIN s /\ Tail(s)[i] = s[i + 1]
  BY <1>1, <1>2
<1>4. ToSet(Tail(s)) \subseteq ToSet(s) /\ Head(s) \in ToSet(s)
  BY <1>1, <1>3 DEF ToSet
<1>5. ASSUME NoCopies(s)
      PROVE  NoCopies(Tail(s)) /\ (Head(s) \in Requests => Head(s) \notin ToSet(Tail(s)))
  <2>1. ASSUME NEW i \in DOMAIN Tail(s), NEW k \in DOMAIN Tail(s),
               Tail(s)[i] = Tail(s)[k], Tail(s)[i] \in Requests
        PROVE  i = k
    <3>1. i + 1 = k + 1
      BY <1>3, <1>5, <2>1 DEF NoCopies
    <3> QED BY <1>2, <3>1
  <2>2. ASSUME NEW i \in DOMAIN Tail(s), Head(s) \in Requests, Tail(s)[i] = Head(s)
        PROVE  FALSE
    <3>1. i + 1 = 1
      BY <1>1, <1>3, <1>5, <2>2 DEF NoCopies
    <3> QED BY <1>2, <3>1
  <2> QED BY <2>1, <2>2 DEF NoCopies, ToSet
<1> QED BY <1>1, <1>4, <1>5

LEMMA Joined ==
  ASSUME NEW S, NEW s \in Seq(S), NEW t \in Seq(S)
  PROVE  /\ s \o t \in Seq(S) /\ ToSet(s \o t) = ToSet(s) \cup ToSet(t)
         /\ NoCopies(s) /\ NoCopies(t) /\ ToSet(s) \cap ToSet(t) \cap Requests = {}
              => NoCopies(s \o t)
         /\ s # << >> => s \o t # << >>
<1>1. /\ Len(s) \in Nat /\ Len(t) \in Nat /\ DOMAIN s = 1 .. Len(s) /\ DOMAIN t = 1 .. Len(t)
  BY LenProperties
<1>2. /\ s \o t \in Seq(S) /\ Len(s \o t) = Len(s) + Len(t)
      /\ \A i \in 1 .. Len(s) + Len(t) : (s \o t)[i] = IF i <= Len(s) THEN s[i] ELSE t[i - Len(s)]
  BY ConcatProperties
<1>3. DOMAIN (s \o t) = 1 .. Len(s) + Len(t)
  BY <1>2, LenProperties
<1>4. \A i \in DOMAIN (s \o t) :
        \/ i \in DOMAIN s /\ (s \o t)[i] = s[i]
        \/ i - Len(s) \in DOMAIN t /\ (s \o t)[i] = t[i - Len(s)]
  <2> SUFFICES ASSUME NEW i \in DOMAIN (s \o t)
               PROVE  \/ i \in DOMAIN s /\ (s \o t)[i] = s[i]
                      \/ i - Len(s) \in DOMAIN t /\ (s \o t)[i] = t[i - Len(s)]
    OBVIOUS
  <2>1. i \in 1 .. Len(s) + Len(t)
    BY <1>3
  <2>2. CASE i <= Len(s)
    <3>1. i \in DOMAIN s
      BY <1>1, <2>1, <2>2
    <3> QED BY <1>2, <2>1, <2>2, <3>1
  <2>3. CASE ~(i <= Len(s))
    <3>1. i - Len(s) \in DOMAIN t
      BY <1>1, <2>1, <2>3
    <3> QED BY <1>2, <2>1, <2>3, <3>1
  <2> QED BY <2>2, <2>3
<1>5. \A i \in DOMAIN s : i \in DOMAIN (s \o t) /\ (s \o t)[i] = s[i]
  BY <1>1, <1>2, <1>3
<1>6. \A i \in DOMAIN t : i + Len(s) \in DOMAIN (s \o t) /\ (s \o t)[i + Len(s)] = t[i]
  BY <1>1, <1>2, <1>3
<1>7. ToSet(s \o t) = ToSet(s) \cup ToSet(t)
  <2>1. ToSet(s \o t) \subseteq ToSet(s) \cup ToSet(t)
    BY <1>4 DEF ToSet
  <2>2. ToSet(s) \subseteq ToSet(s \o t)
    BY <1>5 DEF ToSet
  <2>3. ASSUME NEW i \in DOMAIN t PROVE t[i] \in ToSet(s \o t)
    BY <1>6, <2>3 DEF ToSet
  <2> QED BY <2>1, <2>2, <2>3 DEF ToSet
<1>8. ASSUME NoCopies(s), NoCopies(t), ToSet(s) \cap ToSet(t) \cap Requests = {}
      PROVE  NoCopies(s \o t)
  <2>1. \A i \in DOMAIN s : s[i] \in ToSet(s)
    BY DEF ToSet
  <2>2. \A i \in DOMAIN t : t[i] \in ToSet(t)
    BY DEF ToSet
  <2>3. SUFFICES ASSUME NEW i \in DOMAIN (s \o t), NEW k \in DOMAIN (s \o t),
                        (s \o t)[i] = (s \o t)[k], (s \o t)[i] \in Requests
                 PROVE  i = k
    BY DEF NoCopies
  <2>4. CASE i \in DOMAIN s /\ (s \o t)[i] = s[i] /\ k \in DOMAIN s /\ (s \o t)[k] = s[k]
    BY <1>8, <2>3, <2>4 DEF NoCopies
  <2>5. CASE /\ i - Len(s) \in DOMAIN t /\ (s \o t)[i] = t[i - Len(s)]
             /\ k - Len(s) \in DOMAIN t /\ (s \o t)[k] = t[k - Len(s)]
    <3>1. i - Len(s) = k - Len(s)
      BY <1>8, <2>3, <2>5 DEF NoCopies
    <3> QED BY <1>1, <1>3, <3>1
  <2>6. CASE i \in DOMAIN s /\ (s \o t)[i] = s[i] /\ k - Len(s) \in DOMAIN t /\ (s \o t)[k] = t[k - Len(s)]
    BY <1>8, <2>1, <2>2, <2>3, <2>6
  <2>7. CASE i - Len(s) \in DOMAIN t /\ (s \o t)[i] = t[i - Len(s)] /\ k \in DOMAIN s /\ (s \o t)[k] = s[k]
    BY <1>8, <2>1, <2>2, <2>3, <2>7
  <2> QED BY <1>4, <2>4, <2>5, <2>6, <2>7
<1>9. ASSUME s # << >> PROVE s \o t # << >>
  <2>1. Len(s) > 0
    BY <1>9, EmptySeq, <1>1
  <2>2. Len(s \o t) # 0
    BY <1>1, <1>2, <2>1
  <2> QED BY <2>2, EmptySeq
<1> QED BY <1>2, <1>7, <1>8, <1>9

LEMMA PrefixOf ==
  ASSUME NEW S, NEW s \in Seq(S), NEW p \in Prefixes(s)
  PROVE  /\ p \in Seq(S) /\ ToSet(p) \subseteq ToSet(s)
         /\ NoCopies(s) => NoCopies(p)
<1>1. PICK l \in 0 .. Len(s) : p = SubSeq(s, 1, l)
  BY DEF Prefixes
<1>2. Len(s) \in Nat /\ DOMAIN s = 1 .. Len(s) /\ \A i \in 1 .. l : s[i] \in S
  BY <1>1, LenProperties, ElementOfSeq
<1>3. l \in Int /\ 1 \in Int
  BY <1>1, <1>2
<1>4. p \in Seq(S) /\ Len(p) = l /\ \A i \in 1 .. l : p[i] = s[i]
  <2>1. /\ SubSeq(s, 1, l) \in Seq(S)
        /\ Len(SubSeq(s, 1, l)) = IF 1 <= l THEN l - 1 + 1 ELSE 0
        /\ \A i \in 1 .. l - 1 + 1 : SubSeq(s, 1, l)[i] = s[1 + i - 1]
    BY <1>2, <1>3, SubSeqProperties
  <2> QED BY <1>1, <1>2, <2>1
<1>5. DOMAIN p = 1 .. l
  BY <1>4, LenProperties
<1>6. \A i \in DOMAIN p : i \in DOMAIN s /\ p[i] = s[i]
  BY <1>2, <1>4, <1>5
<1> QED BY <1>4, <1>6 DEF ToSet, NoCopies

LEMMA Single ==
  ASSUME NEW S, NEW x \in S
  PROVE  <<x>> \in Seq(S) /\ ToSet(<<x>>) = {x} /\ NoCopies(<<x>>) /\ <<x>> # << >>
<1>1. <<x>> \in Seq(S) /\ DOMAIN <<x>> = {1} /\ <<x>>[1] = x
  OBVIOUS
<1> QED BY <1>1 DEF ToSet, NoCopies

LEMMA Empty ==
  ASSUME NEW S
  PROVE  << >> \in Seq(S) /\ ToSet(<< >>) = {} /\ NoCopies(<< >>)
<1>1. DOMAIN << >> = {}
  OBVIOUS
<1> QED BY <1>1, EmptySeq DEF ToSet, NoCopies

\* A finite set as a sequence.
LEMMA Listed ==
  ASSUME NEW S, IsFiniteSet(S)
  PROVE  SetToSeq(S) \in Seq(S) /\ ToSet(SetToSeq(S)) \subseteq S /\ NoCopies(SetToSeq(S))
<1>1. Cardinality(S) \in Nat /\ \E f \in [1 .. Cardinality(S) -> S] : IsInjective(f)
  BY FS_CardinalityType DEF ExistsBijection, Bijection, Injection
<1> DEFINE f == SetToSeq(S)
<1>2. f \in [1 .. Cardinality(S) -> S] /\ IsInjective(f)
  BY <1>1 DEF SetToSeq
<1>3. f \in Seq(S)
  BY <1>1, <1>2, SeqDef
<1> QED BY <1>2, <1>3 DEF ToSet, NoCopies, IsInjective

LEMMA Bounded ==
  ASSUME NEW S, NEW n \in Nat, NEW s
  PROVE  s \in BoundedSeq(S, n) <=> s \in Seq(S) /\ Len(s) <= n
<1>1. ASSUME NEW m \in 0 .. n, s \in [1 .. m -> S]
      PROVE  s \in Seq(S) /\ Len(s) <= n
  <2>1. m \in Nat
    OBVIOUS
  <2>2. s \in Seq(S)
    BY <1>1, <2>1, SeqDef
  <2>3. Len(s) \in Nat /\ DOMAIN s = 1 .. Len(s) /\ DOMAIN s = 1 .. m
    BY <1>1, <2>2, LenProperties
  <2> QED BY <2>1, <2>2, <2>3
<1>2. ASSUME s \in Seq(S), Len(s) <= n
      PROVE  Len(s) \in 0 .. n /\ s \in [1 .. Len(s) -> S]
  BY <1>2, LenProperties
<1> QED BY <1>1, <1>2 DEF BoundedSeq, SeqOf

-----------------------------------------------------------------------------
(***************************************************************************)
(* Websockets: v is w without some of what is under way, and with some     *)
(* messages of X for the server.                                           *)
(***************************************************************************)

Follows(w, v, X) ==
  /\ v \in Websockets
  /\ Under(v) \subseteq Under(w) /\ (NoCopies(w.toAgent) => NoCopies(v.toAgent))
  /\ ToSet(v.toServer) \subseteq ToSet(w.toServer) \cup X

LEMMA SameWire == ASSUME NEW w \in Websockets, NEW X PROVE Follows(w, w, X)
BY DEF Follows

LEMMA IdleWire == ASSUME NEW w, NEW X PROVE Follows(w, Idle, X)
<1>1. Idle \in Websockets
  BY Empty DEF Idle, Websockets
<1>2. Idle.toAgent = << >> /\ Idle.toServer = << >>
  BY DEF Idle
<1> QED BY <1>1, <1>2, Empty DEF Follows, Under

LEMMA WireFields ==
  ASSUME NEW w \in Websockets
  PROVE  /\ w.state \in {"free", "hello", "greeting", "serving", "closed"} /\ w.up \in BOOLEAN
         /\ w.toAgent \in Seq({"notice", "denied"} \cup Requests) /\ w.toServer \in Seq(Messages)
BY DEF Websockets

\* A websocket is what its four fields are.
LEMMA Rewired ==
  ASSUME NEW w \in Websockets, NEW v, NEW X,
         v = [state |-> v.state, up |-> v.up, toAgent |-> v.toAgent, toServer |-> v.toServer],
         v.state \in {"free", "hello", "greeting", "serving", "closed"}, v.up \in BOOLEAN,
         v.toAgent \in Seq({"notice", "denied"} \cup Requests), v.toServer \in Seq(Messages),
         ToSet(v.toAgent) \cap Requests \subseteq ToSet(w.toAgent),
         NoCopies(w.toAgent) => NoCopies(v.toAgent),
         ToSet(v.toServer) \subseteq ToSet(w.toServer) \cup X
  PROVE  Follows(w, v, X)
<1>1. v \in Websockets
  BY DEF Websockets
<1> QED BY <1>1 DEF Follows, Under

LEMMA ToServerWire ==
  ASSUME NEW w \in Websockets, NEW X, NEW ms \in Seq(Messages), ToSet(ms) \subseteq X
  PROVE  /\ Follows(w, ToServer(w, ms), X)
         /\ ToServer(w, ms).state = w.state /\ ToServer(w, ms).up = w.up
         /\ ToServer(w, ms).toAgent = w.toAgent
         /\ w.toServer # << >> => ToServer(w, ms).toServer # << >>
<1> DEFINE v == ToServer(w, ms)
           toServer == IF w.up THEN w.toServer \o ms ELSE w.toServer
<1>1. v = [state |-> w.state, up |-> w.up, toAgent |-> w.toAgent, toServer |-> toServer]
  <2> HIDE DEF toServer
  <2>1. v = [w EXCEPT !.toServer = toServer]
    BY DEF ToServer, toServer
  <2> QED BY <2>1 DEF Websockets
<1>2. /\ w.toServer \o ms \in Seq(Messages) /\ ToSet(w.toServer \o ms) = ToSet(w.toServer) \cup ToSet(ms)
      /\ w.toServer # << >> => w.toServer \o ms # << >>
  BY WireFields, Joined
<1>3. v.toServer \in Seq(Messages) /\ ToSet(v.toServer) \subseteq ToSet(w.toServer) \cup X
  BY <1>1, <1>2, WireFields
<1>4. v.state = w.state /\ v.up = w.up /\ v.toAgent = w.toAgent /\ (w.toServer # << >> => v.toServer # << >>)
  BY <1>1, <1>2
<1>5. v = [state |-> v.state, up |-> v.up, toAgent |-> v.toAgent, toServer |-> v.toServer]
  BY <1>1
<1> HIDE DEF v
<1>6. Follows(w, v, X)
  BY <1>3, <1>4, <1>5, WireFields, Rewired
<1> QED BY <1>4, <1>6 DEF v

LEMMA ToAgentWire ==
  ASSUME NEW w \in Websockets, NEW ms \in Seq({"notice", "denied"} \cup Requests)
  PROVE  /\ ToAgent(w, ms) \in Websockets
         /\ ToAgent(w, ms).state = w.state /\ ToAgent(w, ms).toServer = w.toServer
         /\ Under(ToAgent(w, ms)) \subseteq Under(w) \cup ToSet(ms)
         /\ NoCopies(w.toAgent) /\ NoCopies(ms) /\ Under(w) \cap ToSet(ms) = {}
              => NoCopies(ToAgent(w, ms).toAgent)
<1> DEFINE v == ToAgent(w, ms)
           toAgent == IF w.up THEN w.toAgent \o ms ELSE w.toAgent
<1>1. v = [state |-> w.state, up |-> w.up, toAgent |-> toAgent, toServer |-> w.toServer]
  <2> HIDE DEF toAgent
  <2>1. v = [w EXCEPT !.toAgent = toAgent]
    BY DEF ToAgent, toAgent
  <2> QED BY <2>1 DEF Websockets
<1>2. /\ w.toAgent \o ms \in Seq({"notice", "denied"} \cup Requests)
      /\ ToSet(w.toAgent \o ms) = ToSet(w.toAgent) \cup ToSet(ms)
      /\ NoCopies(w.toAgent) /\ NoCopies(ms) /\ ToSet(w.toAgent) \cap ToSet(ms) \cap Requests = {}
           => NoCopies(w.toAgent \o ms)
  BY WireFields, Joined
<1>3. v \in Websockets
  BY <1>1, <1>2, WireFields DEF Websockets
<1>4. Under(w) \cap ToSet(ms) = {} => ToSet(w.toAgent) \cap ToSet(ms) \cap Requests = {}
  BY DEF Under
<1> QED BY <1>1, <1>2, <1>3, <1>4 DEF Under

LEMMA ClosedWire ==
  ASSUME NEW w \in Websockets, NEW X
  PROVE  Follows(w, Closed(w), X) /\ Closed(w).state = "closed"
<1> DEFINE v == Closed(w)
           toServer == IF w.state = "serving" /\ w.toServer # << >> THEN <<Head(w.toServer)>> ELSE << >>
<1>1. v = [state |-> "closed", up |-> FALSE, toAgent |-> w.toAgent, toServer |-> toServer]
  <2> HIDE DEF toServer
  <2>1. v = [w EXCEPT !.state = "closed", !.up = FALSE, !.toServer = toServer]
    BY DEF Closed, toServer
  <2> QED BY <2>1 DEF Websockets
<1>2. toServer \in Seq(Messages) /\ ToSet(toServer) \subseteq ToSet(w.toServer)
  <2>1. CASE w.state = "serving" /\ w.toServer # << >>
    <3>1. Head(w.toServer) \in Messages /\ Head(w.toServer) \in ToSet(w.toServer)
      BY <2>1, WireFields, TailOf
    <3> QED BY <2>1, <3>1, Single
  <2>2. CASE ~(w.state = "serving" /\ w.toServer # << >>)
    BY <2>2, Empty
  <2> QED BY <2>1, <2>2
<1> HIDE DEF toServer
<1>3. /\ v.state = "closed" /\ v.up = FALSE /\ v.toAgent = w.toAgent /\ v.toServer = toServer
      /\ v = [state |-> v.state, up |-> v.up, toAgent |-> v.toAgent, toServer |-> v.toServer]
  BY <1>1
<1> HIDE DEF v
<1>4. Follows(w, v, X)
  BY <1>2, <1>3, WireFields, Rewired
<1> QED BY <1>3, <1>4 DEF v

LEMMA AbandonedWire ==
  ASSUME NEW w \in Websockets, NEW X
  PROVE  /\ Follows(w, Abandoned(w), X)
         /\ Abandoned(w).state = w.state
         /\ w.state = "greeting" => Abandoned(w) = w
<1>1. Idle.state = "free"
  BY DEF Idle
<1> QED BY <1>1, IdleWire, SameWire DEF Abandoned

LEMMA HalfOpenWire ==
  ASSUME NEW w \in Websockets, NEW X
  PROVE  /\ Follows(w, HalfOpen(w), X) /\ HalfOpen(w).state = w.state
         /\ w.state = "greeting" => HalfOpen(w).toServer = w.toServer
<1> DEFINE v == HalfOpen(w)
           toServer == IF w.state = "greeting" THEN w.toServer ELSE << >>
<1>1. v = [state |-> w.state, up |-> FALSE, toAgent |-> << >>, toServer |-> toServer]
  <2> HIDE DEF toServer
  <2>1. v = [w EXCEPT !.up = FALSE, !.toAgent = << >>, !.toServer = toServer]
    BY DEF HalfOpen, toServer
  <2> QED BY <2>1 DEF Websockets
<1>2. toServer \in Seq(Messages) /\ ToSet(toServer) \subseteq ToSet(w.toServer)
  BY WireFields, Empty
<1>3. /\ v.state = w.state /\ v.up = FALSE /\ v.toAgent = << >> /\ v.toServer = toServer
      /\ v = [state |-> v.state, up |-> v.up, toAgent |-> v.toAgent, toServer |-> v.toServer]
  BY <1>1
<1>4. w.state = "greeting" => v.toServer = w.toServer
  BY <1>3
<1> HIDE DEF toServer, v
<1>5. Follows(w, v, X)
  BY <1>2, <1>3, WireFields, Rewired, Empty
<1> QED BY <1>3, <1>4, <1>5 DEF v

-----------------------------------------------------------------------------
(***************************************************************************)
(* Steps that bring no command nearer to its node.                         *)
(***************************************************************************)

Drains(X) == conn' \in [Conns -> Websockets] /\ \A d \in Conns : Follows(conn[d], conn'[d], X)

\* One websocket changes.
LEMMA OneWire ==
  ASSUME SessionTypeOK, NEW X, NEW c \in Conns, NEW v, Follows(conn[c], v, X), conn' = With(c, v)
  PROVE  Drains(X) /\ conn'[c] = v /\ \A d \in Conns : d # c => conn'[d] = conn[d]
<1>1. conn \in [Conns -> Websockets] /\ v \in Websockets
  BY DEF SessionTypeOK, Follows
<1>2. conn' \in [Conns -> Websockets] /\ conn'[c] = v /\ \A d \in Conns : d # c => conn'[d] = conn[d]
  BY <1>1 DEF With
<1>3. \A d \in Conns : Follows(conn[d], conn'[d], X)
  BY <1>1, <1>2, SameWire
<1> QED BY <1>2, <1>3 DEF Drains

LEMMA SameWires ==
  ASSUME SessionTypeOK, NEW X, conn' = conn
  PROVE  Drains(X)
BY SameWire DEF SessionTypeOK, Drains

LEMMA DrainsOnce ==
  ASSUME OnceInv, NEW X, Drains(X)
  PROVE  OnceInv'
<1>1. \A c \in Conns : Under(conn'[c]) \subseteq Under(conn[c]) /\ NoCopies(conn'[c].toAgent)
  BY DEF OnceInv, Drains, Follows
<1>2. \A c, d \in Conns : c # d => Under(conn'[c]) \cap Under(conn'[d]) = {}
  BY <1>1 DEF OnceInv
<1> QED BY <1>1, <1>2 DEF OnceInv

LEMMA DrainsPlaces ==
  ASSUME NEW X, Drains(X), NEW r \in Requests
  PROVE  /\ Arriving(r)' => Arriving(r)
         /\ Refused(r)' => Refused(r) \/ \E m \in X : m.kind = "reject" /\ m.request = r
<1>1. \A c \in Conns : /\ Under(conn'[c]) \subseteq Under(conn[c])
                       /\ ToSet(conn'[c].toServer) \subseteq ToSet(conn[c].toServer) \cup X
  BY DEF Drains, Follows
<1> QED BY <1>1 DEF Arriving, Refused

\* Messages that tell what actions did.
Honest(X) ==
  \A m \in X : /\ m.kind # "reject"
              /\ \A v \in m.verdicts : v[1] \in Requests /\ Ran(v[1]) /\ v = Payload(v[1])

LEMMA MessagesOf ==
  ASSUME NEW w \in Websockets, NEW m \in ToSet(w.toServer), NEW v \in m.verdicts
  PROVE  v[1] \in Requests
<1>1. w.toServer \in Seq(Messages)
  BY WireFields
<1>2. m \in Messages
  BY <1>1, LenProperties, ElementOfSeq DEF ToSet
<1>3. v \in Requests \X BOOLEAN
  BY <1>2 DEF Messages, Verdicts
<1> QED BY <1>3

LEMMA DrainsVerdicts ==
  ASSUME SessionInv, NEW X, Drains(X), ResultVerdicts(X)',
         \A r \in Requests : Ran(r) => outcome'[r] = outcome[r]
  PROVE  \A c \in Conns : ResultVerdicts(ToSet(conn[c].toServer))'
<1> SUFFICES ASSUME NEW c \in Conns, NEW m \in ToSet(conn'[c].toServer), NEW v \in m.verdicts
             PROVE  Ran(v[1])' /\ v = Payload(v[1])'
  BY DEF ResultVerdicts
<1>1. conn[c] \in Websockets /\ (m \in ToSet(conn[c].toServer) \/ m \in X)
  BY DEF Drains, Follows, SessionInv, SessionTypeOK
<1>2. CASE m \in X
  BY <1>2 DEF ResultVerdicts
<1>3. CASE m \in ToSet(conn[c].toServer)
  <2>1. v[1] \in Requests
    BY <1>1, <1>3, MessagesOf
  <2>2. Ran(v[1]) /\ v = Payload(v[1])
    BY <1>3 DEF SessionInv, ReportInv, ResultVerdicts
  <2>3. outcome'[v[1]] = outcome[v[1]]
    BY <2>1, <2>2
  <2> QED BY <2>2, <2>3 DEF Ran, Payload
<1> QED BY <1>1, <1>2, <1>3

\* What happens to an action when nothing brings it on.
Calm(r) ==
  /\ outcome'[r] = outcome[r]
  /\ AtWork(r)' => AtWork(r)
  /\ handler[r].phase = "none" => handler'[r].phase = "none"
  /\ handler'[r].phase = "reporting" => handler[r].phase = "reporting"
  /\ Waiting(r)' => Waiting(r)
  /\ row'[r] = "failed" => \/ row[r] = "failed"
                           \/ outcome[r] # "succeeded" /\ ~Arriving(r) /\ ~AtWork(r)
  /\ row'[r] = "succeeded" => outcome[r] = "succeeded"

LEMMA CalmPlace ==
  ASSUME SessionInv, NEW r \in Requests, Calm(r),
         Arriving(r)' => Arriving(r), Refused(r)' => Refused(r)
  PROVE  Place(r)'
<1>1. Ran(r)' <=> Ran(r)
  BY DEF Calm, Ran
<1>2. Place(r)
  BY DEF SessionInv, PlaceInv
<1> QED BY <1>1, <1>2 DEF Place, Calm

LEMMA CalmStep ==
  ASSUME SessionInv, NEW X, Honest(X), Drains(X), \A r \in Requests : Calm(r),
         \A r \in ToSet(journal') \cup ToSet(queue') : r \in Requests /\ Ran(r)
  PROVE  PlaceInv' /\ OnceInv' /\ ReportInv'
<1>1. OnceInv'
  BY DrainsOnce DEF SessionInv
<1>2. PlaceInv'
  <2> SUFFICES ASSUME NEW r \in Requests PROVE Place(r)'
    BY DEF PlaceInv
  <2>1. (Arriving(r)' => Arriving(r)) /\ (Refused(r)' => Refused(r))
    BY DrainsPlaces DEF Honest
  <2> QED BY <2>1, CalmPlace
<1>3. ReportInv'
  <2>1. ResultVerdicts(X)'
    <3> SUFFICES ASSUME NEW m \in X, NEW v \in m.verdicts PROVE Ran(v[1])' /\ v = Payload(v[1])'
      BY DEF ResultVerdicts
    <3>1. v[1] \in Requests /\ Ran(v[1]) /\ v = Payload(v[1])
      BY DEF Honest
    <3>2. outcome'[v[1]] = outcome[v[1]]
      BY <3>1 DEF Calm
    <3> QED BY <3>1, <3>2 DEF Ran, Payload
  <2>2. \A c \in Conns : ResultVerdicts(ToSet(conn[c].toServer))'
    BY <2>1, DrainsVerdicts DEF Calm
  <2>3. ASSUME NEW r \in ToSet(journal') \cup ToSet(queue') PROVE Ran(r)'
    <3>1. outcome'[r] = outcome[r] /\ Ran(r)
      BY DEF Calm
    <3> QED BY <3>1 DEF Ran
  <2> QED BY <2>2, <2>3 DEF ReportInv
<1> QED BY <1>1, <1>2, <1>3

LEMMA CalmInv ==
  ASSUME SessionInv, NEW X, Honest(X), Drains(X), \A r \in Requests : Calm(r),
         \A r \in ToSet(journal') \cup ToSet(queue') : r \in Requests /\ Ran(r),
         SessionTypeOK', GreetInv'
  PROVE  SessionInv'
BY CalmStep DEF SessionInv

LEMMA NothingNew == Honest({})
BY DEF Honest

\* The journal and the queue hold actions that ran.
LEMMA KeptRan ==
  ASSUME SessionInv
  PROVE  /\ journal \in Seq(Requests) /\ Len(journal) <= JournalMax
         /\ queue \in Seq(Requests) /\ Len(queue) <= QueueMax
         /\ \A r \in ToSet(journal) \cup ToSet(queue) : r \in Requests /\ Ran(r)
<1>1. /\ journal \in Seq(Requests) /\ Len(journal) <= JournalMax
      /\ queue \in Seq(Requests) /\ Len(queue) <= QueueMax
  BY Bounded, AgentSessionAssumption DEF SessionInv, SessionTypeOK
<1>2. ToSet(journal) \subseteq Requests /\ ToSet(queue) \subseteq Requests
  BY <1>1, LenProperties, ElementOfSeq DEF ToSet
<1> QED BY <1>1, <1>2 DEF SessionInv, ReportInv

LEMMA GreetOne ==
  ASSUME SessionInv, NEW c \in Conns,
         \A d \in Conns : d # c => conn'[d] = conn[d],
         conn'[c].state = "greeting" => conn'[c].toServer # << >>,
         registered' \in {registered, None},
         registered' = c => conn'[c].state \notin {"free", "hello"},
         agent'.phase = "idle" <=> agent'.link = None
  PROVE  GreetInv'
<1>1. \A d \in Conns : conn'[d].state = "greeting" => conn'[d].toServer # << >>
  BY DEF SessionInv, GreetInv
<1>2. registered' # None => conn'[registered'].state \notin {"free", "hello"}
  BY DEF SessionInv, GreetInv, SessionTypeOK
<1> QED BY <1>1, <1>2 DEF GreetInv

LEMMA LinkOf ==
  ASSUME SessionInv
  PROVE  /\ agent.phase # "idle" \/ agent.link # None => agent.link \in Conns
         /\ agent.link # None => agent.phase # "idle"
BY DEF SessionInv, SessionTypeOK, GreetInv

LEMMA LooseLink == Loose.phase = "idle" /\ Loose.link = None
                   /\ Loose \in [phase : {"idle", "waiting", "session"}, link : Conns \cup {None}]
BY DEF Loose

Statuses == {"new", "queued", "sent", "unknown"} \cup Settled

\* A verdict settles a row as the action ended.
LEMMA RecordedRows ==
  ASSUME SessionInv, NEW verdicts,
         \A v \in verdicts : v[1] \in Requests /\ Ran(v[1]) /\ v = Payload(v[1])
  PROVE  /\ Recorded(verdicts) \in [Requests -> Statuses]
         /\ \A r \in Requests :
              \/ Recorded(verdicts)[r] = row[r]
              \/ /\ Ran(r) /\ row[r] \notin Settled
                 /\ \/ Recorded(verdicts)[r] = "succeeded" /\ outcome[r] = "succeeded"
                    \/ Recorded(verdicts)[r] = "failed" /\ outcome[r] # "succeeded"
<1> DEFINE rows == Recorded(verdicts)
<1>1. \A r \in Requests : rows[r] \in Statuses
  BY DEF Recorded, Statuses, Settled, SessionInv, SessionTypeOK
<1>2. ASSUME NEW r \in Requests, row[r] \notin Settled, r \in {v[1] : v \in verdicts}
      PROVE  /\ Ran(r)
             /\ \/ rows[r] = "succeeded" /\ outcome[r] = "succeeded"
                \/ rows[r] = "failed" /\ outcome[r] # "succeeded"
  <2>1. PICK v \in verdicts : v[1] = r
    BY <1>2
  <2>2. Ran(r) /\ v = Payload(r)
    BY <2>1
  <2>3. CASE <<r, TRUE>> \in verdicts
    <3>1. <<r, TRUE>>[1] = r
      OBVIOUS
    <3>2. <<r, TRUE>> = Payload(r)
      BY <2>3, <3>1
    <3>3. outcome[r] = "succeeded"
      BY <3>2 DEF Payload
    <3>4. rows[r] = "succeeded"
      BY <1>2, <2>3 DEF Recorded
    <3> QED BY <2>2, <3>3, <3>4
  <2>4. CASE <<r, TRUE>> \notin verdicts
    <3>1. v # <<r, TRUE>>
      BY <2>4
    <3>2. outcome[r] # "succeeded"
      BY <2>2, <3>1 DEF Payload
    <3>3. rows[r] = "failed"
      BY <1>2, <2>4 DEF Recorded
    <3> QED BY <2>2, <3>2, <3>3
  <2> QED BY <2>3, <2>4
<1>3. ASSUME NEW r \in Requests, row[r] \in Settled \/ r \notin {v[1] : v \in verdicts}
      PROVE  rows[r] = row[r]
  BY <1>3 DEF Recorded
<1>4. rows \in [Requests -> Statuses]
  BY <1>1 DEF Recorded
<1> QED BY <1>2, <1>3, <1>4

LEMMA HeadIsTrue ==
  ASSUME SessionInv, NEW c \in Conns, conn[c].toServer # << >>
  PROVE  /\ conn[c] \in Websockets
         /\ Head(conn[c].toServer) \in Messages /\ Head(conn[c].toServer) \in ToSet(conn[c].toServer)
         /\ \A v \in Head(conn[c].toServer).verdicts :
              v[1] \in Requests /\ Ran(v[1]) /\ v = Payload(v[1])
<1>1. conn[c] \in Websockets
  BY DEF SessionInv, SessionTypeOK
<1>2. Head(conn[c].toServer) \in Messages /\ Head(conn[c].toServer) \in ToSet(conn[c].toServer)
  BY <1>1, WireFields, TailOf
<1>3. \A v \in Head(conn[c].toServer).verdicts : v[1] \in Requests
  BY <1>1, <1>2, MessagesOf
<1> QED BY <1>1, <1>2, <1>3 DEF SessionInv, ReportInv, ResultVerdicts

-----------------------------------------------------------------------------
(***************************************************************************)
(* The control plane.                                                      *)
(***************************************************************************)

LEMMA LapseInv == ASSUME SessionInv, NEW r \in Requests, Lapse(r) PROVE SessionInv'
<1>1. /\ row[r] \in {"queued", "sent"} /\ row' = [row EXCEPT ![r] = "lapsed"]
      /\ UNCHANGED <<registered, conn, agent, handler, outcome, journal, queue, faults>>
  BY DEF Lapse, node
<1>2. SessionTypeOK'
  BY <1>1 DEF SessionInv, SessionTypeOK, Settled
<1>3. ASSUME NEW q \in Requests PROVE Calm(q)
  <2>1. row'[q] = row[q] \/ row'[q] = "lapsed"
    BY <1>1 DEF SessionInv, SessionTypeOK
  <2>2. row[q] = "succeeded" => outcome[q] = "succeeded"
    BY DEF SessionInv, PlaceInv, Place
  <2> QED BY <1>1, <2>1, <2>2 DEF Calm, AtWork, Waiting
<1>4. GreetInv'
  BY <1>1 DEF SessionInv, GreetInv
<1>5. Drains({})
  BY <1>1, SameWires DEF SessionInv
<1> QED BY <1>1, <1>2, <1>3, <1>4, <1>5, NothingNew, KeptRan, CalmInv

LEMMA TakenWire ==
  ASSUME NEW w \in Websockets, w.toServer # << >>, NEW X
  PROVE  LET v == [w EXCEPT !.toServer = Tail(w.toServer)] IN
         /\ Follows(w, v, X) /\ v.state = w.state
<1> DEFINE v == [w EXCEPT !.toServer = Tail(w.toServer)]
<1>1. Tail(w.toServer) \in Seq(Messages) /\ ToSet(Tail(w.toServer)) \subseteq ToSet(w.toServer)
  BY WireFields, TailOf
<1>2. v = [state |-> w.state, up |-> w.up, toAgent |-> w.toAgent, toServer |-> Tail(w.toServer)]
  <2> DEFINE toServer == Tail(w.toServer)
  <2> HIDE DEF toServer
  <2>1. v = [w EXCEPT !.toServer = toServer]
    BY DEF toServer
  <2>2. v = [state |-> w.state, up |-> w.up, toAgent |-> w.toAgent, toServer |-> toServer]
    BY <2>1 DEF Websockets
  <2> QED BY <2>2 DEF toServer
<1>3. /\ v.state = w.state /\ v.up = w.up /\ v.toAgent = w.toAgent /\ v.toServer = Tail(w.toServer)
      /\ v = [state |-> v.state, up |-> v.up, toAgent |-> v.toAgent, toServer |-> v.toServer]
  BY <1>2
<1> HIDE DEF v
<1>4. Follows(w, v, X)
  BY <1>1, <1>3, WireFields, Rewired
<1> QED BY <1>3, <1>4 DEF v

LEMMA ReceiveInv == ASSUME SessionInv, NEW c \in Conns, Receive(c) PROVE SessionInv'
<1> DEFINE message == Head(conn[c].toServer)
           v == [conn[c] EXCEPT !.toServer = Tail(conn[c].toServer)]
<1>1. /\ conn[c].state \in {"serving", "closed"} /\ conn[c].toServer # << >>
      /\ conn' = With(c, v)
      /\ UNCHANGED <<registered, agent, handler, outcome, journal, queue, faults>>
  BY DEF Receive, node
<1>2. /\ conn[c] \in Websockets /\ message \in Messages /\ message \in ToSet(conn[c].toServer)
      /\ \A u \in message.verdicts : u[1] \in Requests /\ Ran(u[1]) /\ u = Payload(u[1])
  BY <1>1, HeadIsTrue
<1>3. Follows(conn[c], v, {}) /\ v.state = conn[c].state
  BY <1>1, <1>2, TakenWire
<1> HIDE DEF v
<1>4. Drains({}) /\ conn'[c] = v /\ \A d \in Conns : d # c => conn'[d] = conn[d]
  BY <1>1, <1>3, OneWire DEF SessionInv
<1>5. GreetInv'
  <2>1. registered = c => v.state \notin {"free", "hello"}
    BY <1>1, <1>3
  <2>2. agent'.phase = "idle" <=> agent'.link = None
    BY <1>1 DEF SessionInv, GreetInv
  <2> QED BY <1>1, <1>3, <1>4, <2>1, <2>2, GreetOne
<1>6. \/ /\ message.kind = "ack" /\ row[message.request] = "unknown"
         /\ row' = [row EXCEPT ![message.request] = "sent"]
      \/ /\ message.kind = "reject" /\ row[message.request] \notin Settled
         /\ row' = [row EXCEPT ![message.request] = "failed"]
      \/ row' = Recorded(message.verdicts)
      \/ row' = row
  BY DEF Receive
<1>7. row' \in [Requests -> Statuses] /\ \A q \in Requests : Calm(q)
  <2>1. \A q \in Requests : /\ row[q] = "succeeded" => outcome[q] = "succeeded"
                            /\ Refused(q) => ~Arriving(q) /\ ~AtWork(q) /\ ~Ran(q)
                            /\ Ran(q) => ~Arriving(q) /\ ~AtWork(q)
    BY DEF SessionInv, PlaceInv, Place
  <2>2. row \in [Requests -> Statuses]
    BY DEF SessionInv, SessionTypeOK, Statuses
  <2>3. CASE row' = row
    BY <1>1, <2>1, <2>2, <2>3 DEF Calm, AtWork, Waiting
  <2>4. CASE row' = [row EXCEPT ![message.request] = "sent"]
    <3>1. row' \in [Requests -> Statuses] /\ \A q \in Requests : row'[q] = row[q] \/ row'[q] = "sent"
      BY <2>2, <2>4 DEF Statuses
    <3> QED BY <1>1, <2>1, <3>1 DEF Calm, AtWork, Waiting
  <2>5. CASE message.kind = "reject" /\ row' = [row EXCEPT ![message.request] = "failed"]
    <3>1. /\ row' \in [Requests -> Statuses]
          /\ \A q \in Requests : row'[q] = row[q] \/ (q = message.request /\ row'[q] = "failed")
      BY <2>2, <2>5 DEF Statuses, Settled
    <3>2. ASSUME NEW q \in Requests, q = message.request PROVE Refused(q)
      BY <1>2, <2>5, <3>2 DEF Refused
    <3>3. ASSUME NEW q \in Requests, q = message.request PROVE outcome[q] # "succeeded"
      BY <2>1, <3>2, <3>3 DEF Ran
    <3> QED BY <1>1, <2>1, <3>1, <3>2, <3>3 DEF Calm, AtWork, Waiting
  <2>6. CASE row' = Recorded(message.verdicts)
    <3>1. /\ row' \in [Requests -> Statuses]
          /\ \A q \in Requests :
               \/ row'[q] = row[q]
               \/ /\ Ran(q) /\ row[q] \notin Settled
                  /\ \/ row'[q] = "succeeded" /\ outcome[q] = "succeeded"
                     \/ row'[q] = "failed" /\ outcome[q] # "succeeded"
      BY <1>2, <2>6, RecordedRows
    <3> QED BY <1>1, <2>1, <3>1 DEF Calm, AtWork, Waiting
  <2> QED BY <1>6, <2>3, <2>4, <2>5, <2>6
<1>8. SessionTypeOK'
  BY <1>1, <1>4, <1>7 DEF SessionInv, SessionTypeOK, Drains, Statuses
<1> QED BY <1>1, <1>4, <1>5, <1>7, <1>8, NothingNew, KeptRan, CalmInv

LEMMA FreedWire ==
  ASSUME NEW w \in Websockets, NEW X
  PROVE  Follows(w, Freed(w), X) /\ Freed(w).state = "free"
<1> DEFINE v == Freed(w)
<1>1. /\ v.state = "free" /\ v.up = FALSE /\ v.toAgent = w.toAgent /\ v.toServer = << >>
      /\ v = [state |-> v.state, up |-> v.up, toAgent |-> v.toAgent, toServer |-> v.toServer]
  BY DEF Freed
<1> HIDE DEF v
<1>2. Follows(w, v, X)
  BY <1>1, WireFields, Empty, Rewired
<1> QED BY <1>1, <1>2 DEF v

LEMMA LeaveInv == ASSUME SessionInv, NEW c \in Conns, Leave(c) PROVE SessionInv'
<1> DEFINE v == IF agent.link = c THEN Freed(conn[c]) ELSE Idle
<1>1. /\ conn' = With(c, v)
      /\ UNCHANGED <<agent, handler, outcome, journal, queue, faults>>
      /\ \/ registered = c /\ registered' = None
            /\ row' = [r \in Requests |-> IF row[r] = "sent" THEN "unknown" ELSE row[r]]
         \/ registered # c /\ UNCHANGED <<row, registered>>
  BY DEF Leave, node, plane
<1>2. conn[c] \in Websockets
  BY DEF SessionInv, SessionTypeOK
<1>3. Follows(conn[c], v, {}) /\ v.state = "free"
  <2>1. Idle.state = "free"
    BY DEF Idle
  <2> QED BY <1>2, <2>1, FreedWire, IdleWire
<1> HIDE DEF v
<1>4. Drains({}) /\ conn'[c] = v /\ \A d \in Conns : d # c => conn'[d] = conn[d]
  BY <1>1, <1>3, OneWire DEF SessionInv
<1>5. GreetInv'
  <2>1. agent'.phase = "idle" <=> agent'.link = None
    BY <1>1 DEF SessionInv, GreetInv
  <2>2. c # None
    BY AgentSessionAssumption
  <2> QED BY <1>1, <1>3, <1>4, <2>1, <2>2, GreetOne
<1>6. \A q \in Requests : row'[q] = row[q] \/ row'[q] = "unknown"
  BY <1>1
<1>7. ASSUME NEW q \in Requests PROVE Calm(q)
  <2>1. row[q] = "succeeded" => outcome[q] = "succeeded"
    BY DEF SessionInv, PlaceInv, Place
  <2> QED BY <1>1, <1>6, <2>1 DEF Calm, AtWork, Waiting
<1>8. SessionTypeOK'
  BY <1>1, <1>4 DEF SessionInv, SessionTypeOK, Drains, Settled
<1> QED BY <1>1, <1>4, <1>5, <1>7, <1>8, NothingNew, KeptRan, CalmInv

LEMMA DeniedWire ==
  ASSUME NEW w \in Websockets, NEW X
  PROVE  Follows(w, Denied(w), X) /\ Denied(w).state = "closed"
<1> DEFINE u == ToAgent(w, <<"denied">>)
           v == Denied(w)
<1>1. /\ <<"denied">> \in Seq({"notice", "denied"} \cup Requests) /\ ToSet(<<"denied">>) = {"denied"}
      /\ NoCopies(<<"denied">>)
  BY Single
<1>2. "denied" \notin Requests
  BY AgentSessionAssumption
<1>3. /\ u \in Websockets /\ Under(u) \subseteq Under(w)
      /\ NoCopies(w.toAgent) => NoCopies(u.toAgent)
  <2>1. Under(w) \cap ToSet(<<"denied">>) = {}
    BY <1>1, <1>2 DEF Under
  <2> QED BY <1>1, <1>2, <2>1, ToAgentWire DEF Under
<1> HIDE DEF u
<1>4. v = [state |-> "closed", up |-> FALSE, toAgent |-> u.toAgent, toServer |-> << >>]
  BY DEF Denied, u
<1>5. /\ v.state = "closed" /\ v.up = FALSE /\ v.toAgent = u.toAgent /\ v.toServer = << >>
      /\ v = [state |-> v.state, up |-> v.up, toAgent |-> v.toAgent, toServer |-> v.toServer]
  BY <1>4
<1> HIDE DEF v
<1>6. Follows(w, v, X)
  BY <1>3, <1>5, WireFields, Empty, Rewired DEF Under
<1> QED BY <1>5, <1>6 DEF v

LEMMA GreetingWire ==
  ASSUME NEW w \in Websockets, NEW X
  PROVE  LET v == [w EXCEPT !.state = "greeting"] IN
         Follows(w, v, X) /\ v.toServer = w.toServer /\ v.state = "greeting"
<1> DEFINE v == [w EXCEPT !.state = "greeting"]
<1>1. v = [state |-> "greeting", up |-> w.up, toAgent |-> w.toAgent, toServer |-> w.toServer]
  BY DEF Websockets
<1>2. /\ v.state = "greeting" /\ v.up = w.up /\ v.toAgent = w.toAgent /\ v.toServer = w.toServer
      /\ v = [state |-> v.state, up |-> v.up, toAgent |-> v.toAgent, toServer |-> v.toServer]
  BY <1>1
<1> HIDE DEF v
<1>3. Follows(w, v, X)
  BY <1>2, WireFields, Rewired
<1> QED BY <1>2, <1>3 DEF v

LEMMA DenyInv ==
  ASSUME SessionInv, NEW c \in Conns, conn[c].state = "hello",
         conn' = With(c, Denied(conn[c])),
         UNCHANGED <<plane, node, faults>>
  PROVE  SessionInv'
<1> DEFINE v == Denied(conn[c])
<1>1. UNCHANGED <<row, registered, agent, handler, outcome, journal, queue, faults>>
  BY DEF node, plane
<1>2. conn[c] \in Websockets
  BY DEF SessionInv, SessionTypeOK
<1>3. Follows(conn[c], v, {}) /\ v.state = "closed" /\ conn' = With(c, v)
  BY <1>2, DeniedWire
<1> HIDE DEF v
<1>4. Drains({}) /\ conn'[c] = v /\ \A d \in Conns : d # c => conn'[d] = conn[d]
  BY <1>3, OneWire DEF SessionInv
<1>5. GreetInv'
  <2>1. agent'.phase = "idle" <=> agent'.link = None
    BY <1>1 DEF SessionInv, GreetInv
  <2> QED BY <1>1, <1>3, <1>4, <2>1, GreetOne
<1>6. ASSUME NEW q \in Requests PROVE Calm(q)
  BY <1>1 DEF SessionInv, PlaceInv, Place, Calm, AtWork, Waiting
<1>7. SessionTypeOK'
  BY <1>1, <1>4 DEF SessionInv, SessionTypeOK, Drains
<1> QED BY <1>1, <1>4, <1>5, <1>6, <1>7, NothingNew, KeptRan, CalmInv

LEMMA ReplaceInv ==
  ASSUME SessionInv, NEW c \in Conns, conn[c].state = "hello", conn[c].toServer # << >>,
         registered # None, registered' = c,
         conn' = [conn EXCEPT ![registered] = Closed(conn[registered]),
                              ![c] = [conn[c] EXCEPT !.state = "greeting"]],
         UNCHANGED <<row, node, faults>>
  PROVE  SessionInv'
<1> DEFINE v == [conn[c] EXCEPT !.state = "greeting"]
           u == Closed(conn[registered])
<1>1. UNCHANGED <<row, agent, handler, outcome, journal, queue, faults>>
  BY DEF node
<1>2. registered \in Conns /\ registered # c /\ conn[registered] \in Websockets /\ conn[c] \in Websockets
      /\ conn \in [Conns -> Websockets]
  BY DEF SessionInv, SessionTypeOK, GreetInv
<1>3. /\ Follows(conn[c], v, {}) /\ v.state = "greeting" /\ v.toServer # << >>
      /\ Follows(conn[registered], u, {}) /\ u.state = "closed"
  BY <1>2, GreetingWire, ClosedWire
<1>4. conn' = [conn EXCEPT ![registered] = u, ![c] = v]
  OBVIOUS
<1> HIDE DEF u, v
<1>5. /\ conn'[c] = v /\ conn'[registered] = u /\ \A d \in Conns : d # c /\ d # registered => conn'[d] = conn[d]
      /\ conn' \in [Conns -> Websockets]
  <2>1. u \in Websockets /\ v \in Websockets
    BY <1>3 DEF Follows
  <2> QED BY <1>2, <1>4, <2>1
<1>6. Drains({})
  BY <1>2, <1>3, <1>5, SameWire DEF Drains
<1>7. GreetInv'
  <2>1. \A d \in Conns : conn'[d].state = "greeting" => conn'[d].toServer # << >>
    BY <1>3, <1>5 DEF SessionInv, GreetInv
  <2>2. conn'[registered'].state \notin {"free", "hello"}
    BY <1>3, <1>5
  <2>3. agent'.phase = "idle" <=> agent'.link = None
    BY <1>1 DEF SessionInv, GreetInv
  <2> QED BY <2>1, <2>2, <2>3 DEF GreetInv
<1>8. ASSUME NEW q \in Requests PROVE Calm(q)
  BY <1>1 DEF SessionInv, PlaceInv, Place, Calm, AtWork, Waiting
<1>9. SessionTypeOK'
  BY <1>1, <1>5 DEF SessionInv, SessionTypeOK
<1> QED BY <1>1, <1>6, <1>7, <1>8, <1>9, NothingNew, KeptRan, CalmInv
-----------------------------------------------------------------------------
(***************************************************************************)
(* Connections: the agent dials, reads and leaves; faults.                 *)
(***************************************************************************)

LEMMA TakenFrom ==
  ASSUME NEW w \in Websockets, w.toAgent # << >>, NEW X
  PROVE  /\ Follows(w, Taken(w), X) /\ Taken(w).state = w.state /\ Taken(w).toServer = w.toServer
         /\ Taken(w).toAgent = Tail(w.toAgent)
<1> DEFINE v == Taken(w)
           toAgent == Tail(w.toAgent)
<1>1. /\ toAgent \in Seq({"notice", "denied"} \cup Requests) /\ ToSet(toAgent) \subseteq ToSet(w.toAgent)
      /\ NoCopies(w.toAgent) => NoCopies(toAgent)
  BY WireFields, TailOf
<1>2. v = [w EXCEPT !.toAgent = toAgent]
  BY DEF Taken
<1> HIDE DEF toAgent
<1>3. v = [state |-> w.state, up |-> w.up, toAgent |-> toAgent, toServer |-> w.toServer]
  BY <1>2 DEF Websockets
<1>4. /\ v.state = w.state /\ v.up = w.up /\ v.toAgent = toAgent /\ v.toServer = w.toServer
      /\ v = [state |-> v.state, up |-> v.up, toAgent |-> v.toAgent, toServer |-> v.toServer]
  BY <1>3
<1> HIDE DEF v
<1>5. Follows(w, v, X)
  BY <1>1, <1>4, WireFields, Rewired
<1> QED BY <1>4, <1>5 DEF v, toAgent

LEMMA ThenFollows ==
  ASSUME NEW w, NEW u, NEW v, NEW X, Follows(w, u, {}), Follows(u, v, X)
  PROVE  Follows(w, v, X)
<1>1. ToSet(u.toServer) \subseteq ToSet(w.toServer)
  BY DEF Follows
<1> QED BY <1>1 DEF Follows

LEMMA ResultMessage ==
  ASSUME NEW r \in Requests, Ran(r)
  PROVE  /\ Result(r) \in Messages /\ Result(r).kind = "result"
         /\ \A v \in Result(r).verdicts : v[1] \in Requests /\ Ran(v[1]) /\ v = Payload(v[1])
<1>1. Payload(r) \in Verdicts /\ Payload(r)[1] = r
  BY DEF Payload, Verdicts
<1>2. /\ Result(r).kind = "result" /\ Result(r).verdicts = {Payload(r)}
      /\ Result(r) = [kind |-> "result", request |-> r, verdicts |-> {Payload(r)}]
  BY DEF Result
<1>3. Result(r) \in Messages
  <2> DEFINE verdicts == {Payload(r)}
  <2>1. verdicts \in SUBSET Verdicts
    BY <1>1
  <2> HIDE DEF verdicts
  <2>2. [kind |-> "result", request |-> r, verdicts |-> verdicts] \in Messages
    BY <2>1 DEF Messages
  <2> QED BY <1>2, <2>2 DEF verdicts
<1> QED BY <1>1, <1>2, <1>3

LEMMA HelloMessage ==
  ASSUME SessionInv
  PROVE  /\ Hello \in Messages /\ Hello.kind = "hello"
         /\ \A v \in Hello.verdicts : v[1] \in Requests /\ Ran(v[1]) /\ v = Payload(v[1])
<1>1. \A r \in ToSet(journal) : r \in Requests /\ Ran(r)
  BY KeptRan
<1>2. \A v \in Recent : v \in Verdicts /\ v[1] \in Requests /\ Ran(v[1]) /\ v = Payload(v[1])
  <2> SUFFICES ASSUME NEW r \in ToSet(journal)
               PROVE  /\ Payload(r) \in Verdicts /\ Payload(r)[1] \in Requests /\ Ran(Payload(r)[1])
                      /\ Payload(r) = Payload(Payload(r)[1])
    BY DEF Recent
  <2>1. Payload(r)[1] = r /\ Payload(r) \in Verdicts
    BY <1>1 DEF Payload, Verdicts
  <2> QED BY <1>1, <2>1
<1>3. Hello.kind = "hello" /\ Hello.verdicts = Recent
      /\ Hello = [kind |-> "hello", request |-> None, verdicts |-> Recent]
  BY DEF Hello
<1>4. Recent \in SUBSET Verdicts
  BY <1>2
<1>5. [kind |-> "hello", request |-> None, verdicts |-> Recent] \in Messages
  BY <1>4 DEF Messages
<1> QED BY <1>2, <1>3, <1>5

LEMMA DialInv == ASSUME SessionInv, Dial PROVE SessionInv'
<1>1. PICK c : /\ c = CHOOSE d \in Conns : \/ conn[d].state = "free"
                                           \/ \A e \in Conns : conn[e].state # "free"
               /\ conn[c].state = "free"
               /\ agent' = [phase |-> "waiting", link |-> c]
               /\ conn' = With(c, [state |-> "hello", up |-> TRUE, toAgent |-> << >>, toServer |-> <<Hello>>])
  BY DEF Dial
<1>2. c \in Conns
  <2>1. \E d \in Conns : conn[d].state = "free" \/ \A e \in Conns : conn[e].state # "free"
    BY AgentSessionAssumption
  <2> QED BY <1>1, <2>1
<1> DEFINE v == [state |-> "hello", up |-> TRUE, toAgent |-> << >>, toServer |-> <<Hello>>]
<1>3. UNCHANGED <<row, registered, handler, outcome, journal, queue, faults>>
  BY DEF Dial, plane
<1>4. Follows(conn[c], v, {Hello}) /\ v.state = "hello"
  <2>1. <<Hello>> \in Seq(Messages) /\ ToSet(<<Hello>>) = {Hello}
    BY HelloMessage, Single
  <2>2. << >> \in Seq({"notice", "denied"} \cup Requests) /\ ToSet(<< >>) = {} /\ NoCopies(<< >>)
    BY Empty
  <2> DEFINE toServer == <<Hello>>
             toAgent == << >>
  <2> HIDE DEF toServer, toAgent
  <2>3. /\ v = [state |-> "hello", up |-> TRUE, toAgent |-> toAgent, toServer |-> toServer]
        /\ v.state = "hello" /\ v.up = TRUE /\ v.toAgent = toAgent /\ v.toServer = toServer
        /\ v = [state |-> v.state, up |-> v.up, toAgent |-> v.toAgent, toServer |-> v.toServer]
    BY DEF toServer, toAgent
  <2>4. /\ toServer \in Seq(Messages) /\ ToSet(toServer) = {Hello}
        /\ toAgent \in Seq({"notice", "denied"} \cup Requests) /\ ToSet(toAgent) = {} /\ NoCopies(toAgent)
    BY <2>1, <2>2 DEF toServer, toAgent
  <2>5. conn[c] \in Websockets
    BY <1>2 DEF SessionInv, SessionTypeOK
  <2> HIDE DEF v
  <2>6. Follows(conn[c], v, {Hello})
    BY <2>3, <2>4, <2>5, Rewired
  <2> QED BY <2>3, <2>6
<1> HIDE DEF v
<1>5. Drains({Hello}) /\ conn'[c] = v /\ \A d \in Conns : d # c => conn'[d] = conn[d]
  BY <1>1, <1>2, <1>4, OneWire DEF SessionInv, v
<1>6. agent'.phase = "waiting" /\ agent'.link = c /\ c # None /\ registered # c
  <2>1. registered # None => conn[registered].state \notin {"free", "hello"}
    BY DEF SessionInv, GreetInv
  <2> QED BY <1>1, <1>2, <2>1, AgentSessionAssumption
<1>7. GreetInv'
  BY <1>2, <1>3, <1>4, <1>5, <1>6, GreetOne
<1>8. ASSUME NEW q \in Requests PROVE Calm(q)
  BY <1>3 DEF SessionInv, PlaceInv, Place, Calm, AtWork, Waiting
<1>9. SessionTypeOK'
  BY <1>1, <1>2, <1>3, <1>5 DEF SessionInv, SessionTypeOK, Drains
<1>10. Honest({Hello})
  BY HelloMessage DEF Honest
<1> QED BY <1>3, <1>5, <1>7, <1>8, <1>9, <1>10, KeptRan, CalmInv

\* Drop, GiveUp, and a result that cannot be sent.
LEMMA LetGoInv ==
  ASSUME SessionInv, agent.link # None, agent' = Loose,
         conn' = With(agent.link, Abandoned(conn[agent.link])),
         UNCHANGED <<row, registered, handler, outcome, journal>>,
         queue' \in BoundedSeq(Requests, QueueMax), ToSet(queue') \subseteq ToSet(queue),
         faults' \in 0 .. MaxFaults
  PROVE  SessionInv'
<1> DEFINE c == agent.link
           v == Abandoned(conn[c])
<1>1. c \in Conns /\ conn[c] \in Websockets
  BY LinkOf DEF SessionInv, SessionTypeOK
<1>2. /\ Follows(conn[c], v, {}) /\ v.state = conn[c].state
      /\ v.state = "greeting" => v.toServer = conn[c].toServer
  BY <1>1, AbandonedWire
<1>3. conn' = With(c, v)
  OBVIOUS
<1> HIDE DEF c, v
<1>4. Drains({}) /\ conn'[c] = v /\ \A d \in Conns : d # c => conn'[d] = conn[d]
  BY <1>1, <1>2, <1>3, OneWire DEF SessionInv
<1>5. GreetInv'
  <2>1. agent'.phase = "idle" <=> agent'.link = None
    BY LooseLink
  <2>2. v.state = "greeting" => v.toServer # << >>
    BY <1>1, <1>2 DEF SessionInv, GreetInv
  <2>3. registered = c => v.state \notin {"free", "hello"}
    BY <1>1, <1>2, AgentSessionAssumption DEF SessionInv, GreetInv
  <2> QED BY <1>1, <1>4, <2>1, <2>2, <2>3, GreetOne
<1>6. ASSUME NEW q \in Requests PROVE Calm(q)
  BY DEF SessionInv, PlaceInv, Place, Calm, AtWork, Waiting
<1>7. SessionTypeOK'
  BY <1>4, LooseLink DEF SessionInv, SessionTypeOK, Drains
<1> QED BY <1>4, <1>5, <1>6, <1>7, NothingNew, KeptRan, CalmInv

LEMMA DropInv == ASSUME SessionInv, Drop PROVE SessionInv'
<1>1. /\ agent.link # None /\ agent' = Loose /\ conn' = With(agent.link, Abandoned(conn[agent.link]))
      /\ UNCHANGED <<row, registered, handler, outcome, journal, queue, faults>>
  BY DEF Drop, plane
<1>2. queue' \in BoundedSeq(Requests, QueueMax) /\ faults' \in 0 .. MaxFaults
  BY <1>1 DEF SessionInv, SessionTypeOK
<1> QED BY <1>1, <1>2, LetGoInv

LEMMA GiveUpInv ==
  ASSUME SessionInv, GiveUp, faults' \in 0 .. MaxFaults PROVE SessionInv'
<1>1. /\ agent.phase = "waiting" /\ agent' = Loose /\ conn' = With(agent.link, Abandoned(conn[agent.link]))
      /\ UNCHANGED <<row, registered, handler, outcome, journal, queue>>
  BY DEF GiveUp, plane
<1>2. queue' \in BoundedSeq(Requests, QueueMax)
  BY <1>1 DEF SessionInv, SessionTypeOK
<1>3. agent.link # None
  BY <1>1 DEF SessionInv, GreetInv
<1> QED BY <1>1, <1>2, <1>3, LetGoInv

LEMMA AuthenticateInv == ASSUME SessionInv, Authenticate PROVE SessionInv'
<1> DEFINE c == agent.link
           ms == [i \in DOMAIN journal |-> Result(journal[i])]
           X == {Result(r) : r \in ToSet(journal)}
           u == Taken(conn[c])
           v == ToServer(u, ms)
<1>1. /\ agent.phase = "waiting" /\ agent' = [agent EXCEPT !.phase = "session"]
      /\ conn' = With(c, v) /\ Inbox # << >>
      /\ UNCHANGED <<row, registered, handler, outcome, journal, queue, faults>>
  BY DEF Authenticate, plane
<1>2. c \in Conns /\ conn[c] \in Websockets /\ c # None
  BY <1>1, LinkOf DEF SessionInv, SessionTypeOK, GreetInv
<1>3. conn[c].toAgent # << >>
  BY <1>1, <1>2 DEF Inbox
<1>4. \A r \in ToSet(journal) : r \in Requests /\ Ran(r)
  BY KeptRan
<1>5. ms \in Seq(Messages) /\ ToSet(ms) \subseteq X
  <2>1. /\ Len(journal) \in Nat /\ DOMAIN journal = 1 .. Len(journal)
        /\ \A i \in DOMAIN journal : journal[i] \in ToSet(journal)
    BY KeptRan, LenProperties DEF ToSet
  <2>2. \A i \in 1 .. Len(journal) : Result(journal[i]) \in Messages
    BY <1>4, <2>1, ResultMessage
  <2>3. ms \in Seq(Messages)
    BY <2>1, <2>2, IsASeq
  <2>4. \A i \in DOMAIN ms : ms[i] \in X
    BY <2>1
  <2> QED BY <2>3, <2>4 DEF ToSet
<1>6. Honest(X)
  BY <1>4, ResultMessage DEF Honest
<1> HIDE DEF ms, X, c
<1>7. Follows(conn[c], u, {}) /\ u.state = conn[c].state /\ u.toServer = conn[c].toServer /\ u \in Websockets
  BY <1>2, <1>3, TakenFrom DEF Follows
<1> HIDE DEF u
<1>8. Follows(u, v, X) /\ v.state = u.state /\ (u.toServer # << >> => v.toServer # << >>)
  BY <1>5, <1>7, ToServerWire
<1> HIDE DEF v
<1>9. Follows(conn[c], v, X)
  BY <1>7, <1>8, ThenFollows
<1>10. Drains(X) /\ conn'[c] = v /\ \A d \in Conns : d # c => conn'[d] = conn[d]
  BY <1>1, <1>2, <1>9, OneWire DEF SessionInv
<1>11. /\ agent' \in [phase : {"idle", "waiting", "session"}, link : Conns \cup {None}]
       /\ agent'.phase = "session" /\ agent'.link = c
  BY <1>1, <1>2 DEF SessionInv, SessionTypeOK, c
<1>12. GreetInv'
  <2>1. v.state = "greeting" => v.toServer # << >>
    BY <1>2, <1>7, <1>8 DEF SessionInv, GreetInv
  <2>2. registered = c => v.state \notin {"free", "hello"}
    BY <1>2, <1>7, <1>8 DEF SessionInv, GreetInv
  <2> QED BY <1>1, <1>2, <1>10, <1>11, <2>1, <2>2, GreetOne
<1>13. ASSUME NEW q \in Requests PROVE Calm(q)
  BY <1>1 DEF SessionInv, PlaceInv, Place, Calm, AtWork, Waiting
<1>14. SessionTypeOK'
  BY <1>1, <1>10, <1>11 DEF SessionInv, SessionTypeOK, Drains
<1> QED BY <1>1, <1>6, <1>10, <1>12, <1>13, <1>14, KeptRan, CalmInv

LEMMA SendResultInv == ASSUME SessionInv, SendResult PROVE SessionInv'
<1> DEFINE c == agent.link
           r == Head(queue)
           v == ToServer(conn[c], <<Result(r)>>)
<1>1. /\ agent.phase = "session" /\ queue # << >>
      /\ UNCHANGED <<row, registered, handler, outcome, journal, faults>>
      /\ \/ conn' = With(c, v) /\ queue' = Tail(queue) /\ UNCHANGED agent
         \/ /\ queue' = Append(Tail(queue), r) \/ queue' = Tail(queue)
            /\ agent' = Loose
            /\ conn' = With(agent.link, Abandoned(conn[agent.link]))
  BY DEF SendResult, plane
<1>2. c \in Conns /\ conn[c] \in Websockets /\ c # None
  BY <1>1, LinkOf DEF SessionInv, SessionTypeOK, GreetInv
<1>3. /\ queue \in Seq(Requests) /\ Len(queue) <= QueueMax
      /\ Tail(queue) \in Seq(Requests) /\ ToSet(Tail(queue)) \subseteq ToSet(queue)
      /\ r \in ToSet(queue) /\ r \in Requests /\ Ran(r)
  BY <1>1, KeptRan, TailOf
<1>4. Len(queue) \in Nat \ {0} /\ Len(Tail(queue)) = Len(queue) - 1 /\ QueueMax \in Nat
  BY <1>1, <1>3, EmptySeq, LenProperties, HeadTailProperties, AgentSessionAssumption
<1>5. CASE conn' = With(c, v) /\ queue' = Tail(queue) /\ UNCHANGED agent
  <2> DEFINE X == {Result(r)}
  <2>1. Result(r) \in Messages /\ Honest(X)
    BY <1>3, ResultMessage DEF Honest
  <2>2. <<Result(r)>> \in Seq(Messages) /\ ToSet(<<Result(r)>>) \subseteq X
    BY <2>1, Single
  <2> HIDE DEF X
  <2>3. /\ Follows(conn[c], v, X) /\ v.state = conn[c].state
        /\ conn[c].toServer # << >> => v.toServer # << >>
    BY <1>2, <2>2, ToServerWire
  <2> HIDE DEF v, c
  <2>4. Drains(X) /\ conn'[c] = v /\ \A d \in Conns : d # c => conn'[d] = conn[d]
    BY <1>2, <1>5, <2>3, OneWire DEF SessionInv
  <2>5. GreetInv'
    <3>1. v.state = "greeting" => v.toServer # << >>
      BY <1>2, <2>3 DEF SessionInv, GreetInv
    <3>2. registered = c => v.state \notin {"free", "hello"}
      BY <1>2, <2>3 DEF SessionInv, GreetInv
    <3>3. agent'.phase = "idle" <=> agent'.link = None
      BY <1>5 DEF SessionInv, GreetInv
    <3> QED BY <1>1, <1>2, <2>4, <3>1, <3>2, <3>3, GreetOne
  <2>6. ASSUME NEW q \in Requests PROVE Calm(q)
    BY <1>1 DEF SessionInv, PlaceInv, Place, Calm, AtWork, Waiting
  <2>7. queue' \in BoundedSeq(Requests, QueueMax) /\ ToSet(queue') \subseteq ToSet(queue)
    <3>1. Len(Tail(queue)) <= QueueMax
      BY <1>3, <1>4
    <3>2. Tail(queue) \in BoundedSeq(Requests, QueueMax)
      BY <1>3, <1>4, <3>1, Bounded
    <3> QED BY <1>3, <1>5, <3>2
  <2>8. SessionTypeOK'
    BY <1>1, <1>5, <2>4, <2>7 DEF SessionInv, SessionTypeOK, Drains
  <2>9. \A q \in ToSet(journal') \cup ToSet(queue') : q \in Requests /\ Ran(q)
    BY <1>1, <2>7, KeptRan
  <2> QED BY <2>1, <2>4, <2>5, <2>6, <2>8, <2>9, CalmInv
<1>6. CASE /\ queue' = Append(Tail(queue), r) \/ queue' = Tail(queue)
           /\ agent' = Loose
           /\ conn' = With(agent.link, Abandoned(conn[agent.link]))
  <2>1. /\ queue' \in Seq(Requests) /\ Len(queue') <= Len(queue)
        /\ ToSet(queue') \subseteq ToSet(queue)
    <3> SUFFICES ASSUME queue' = Append(Tail(queue), r)
                 PROVE  /\ queue' \in Seq(Requests) /\ Len(queue') <= Len(queue)
                        /\ ToSet(queue') \subseteq ToSet(queue)
      <4>1. ASSUME queue' = Tail(queue)
            PROVE  /\ queue' \in Seq(Requests) /\ Len(queue') <= Len(queue)
                   /\ ToSet(queue') \subseteq ToSet(queue)
        <5>1. Len(Tail(queue)) <= Len(queue)
          BY <1>4
        <5> HIDE DEF c, r, v
        <5> QED BY <1>3, <4>1, <5>1
      <4> HIDE DEF c, r, v
      <4> QED BY <1>6, <4>1
    <3>1. queue' = Tail(queue) \o <<r>>
      BY <1>3, AppendIsConcat
    <3>2. <<r>> \in Seq(Requests) /\ ToSet(<<r>>) = {r}
      BY <1>3, Single
    <3>3. queue' \in Seq(Requests) /\ ToSet(queue') = ToSet(Tail(queue)) \cup {r}
      <4> DEFINE s == Tail(queue)
                 t == <<r>>
      <4>1. s \in Seq(Requests) /\ t \in Seq(Requests) /\ ToSet(t) = {r} /\ queue' = s \o t
        BY <1>3, <3>1, <3>2
      <4> HIDE DEF r, s, t
      <4>2. s \o t \in Seq(Requests) /\ ToSet(s \o t) = ToSet(s) \cup ToSet(t)
        BY <4>1, Joined
      <4> QED BY <4>1, <4>2 DEF s
    <3>4. Len(queue') = Len(Tail(queue)) + 1
      BY <1>3, AppendProperties
    <3> QED BY <1>3, <1>4, <3>3, <3>4
  <2>2. queue' \in BoundedSeq(Requests, QueueMax)
    BY <1>3, <1>4, <2>1, Bounded
  <2>3. faults' \in 0 .. MaxFaults /\ UNCHANGED <<row, registered, handler, outcome, journal>>
    BY <1>1 DEF SessionInv, SessionTypeOK
  <2> QED BY <1>2, <1>6, <2>1, <2>2, <2>3, LetGoInv
<1> QED BY <1>1, <1>5, <1>6

LEMMA BreakInv ==
  ASSUME SessionInv, NEW c \in Conns, Break(c), faults' \in 0 .. MaxFaults PROVE SessionInv'
<1>1. PICK toAgent \in Prefixes(conn[c].toAgent), toServer \in Prefixes(conn[c].toServer) :
        /\ conn[c].state = "greeting" => toServer = conn[c].toServer
        /\ conn' = With(c, [state |-> IF conn[c].state = "serving" \/ toServer = << >> THEN "closed"
                                      ELSE conn[c].state,
                            up |-> FALSE, toAgent |-> toAgent, toServer |-> toServer])
  BY DEF Break
<1> DEFINE state == IF conn[c].state = "serving" \/ toServer = << >> THEN "closed" ELSE conn[c].state
           v == [state |-> state, up |-> FALSE, toAgent |-> toAgent, toServer |-> toServer]
<1>2. UNCHANGED <<row, registered, agent, handler, outcome, journal, queue>>
  BY DEF Break, plane, node
<1>3. conn[c] \in Websockets
  BY DEF SessionInv, SessionTypeOK
<1>4. /\ toAgent \in Seq({"notice", "denied"} \cup Requests) /\ ToSet(toAgent) \subseteq ToSet(conn[c].toAgent)
      /\ NoCopies(conn[c].toAgent) => NoCopies(toAgent)
      /\ toServer \in Seq(Messages) /\ ToSet(toServer) \subseteq ToSet(conn[c].toServer)
  BY <1>3, WireFields, PrefixOf
<1>5. /\ state \in {"free", "hello", "greeting", "serving", "closed"}
      /\ state = "closed" \/ state = conn[c].state
  BY <1>3, WireFields
<1>6. conn' = With(c, v)
  BY <1>1
<1> HIDE DEF state
<1>7. /\ v.state = state /\ v.up = FALSE /\ v.toAgent = toAgent /\ v.toServer = toServer
      /\ v = [state |-> v.state, up |-> v.up, toAgent |-> v.toAgent, toServer |-> v.toServer]
  OBVIOUS
<1> HIDE DEF v
<1>8. Follows(conn[c], v, {})
  BY <1>3, <1>4, <1>5, <1>7, Rewired
<1>9. Drains({}) /\ conn'[c] = v /\ \A d \in Conns : d # c => conn'[d] = conn[d]
  BY <1>6, <1>8, OneWire DEF SessionInv
<1>10. GreetInv'
  <2>1. v.state = "greeting" => v.toServer # << >>
    BY <1>1, <1>5, <1>7 DEF SessionInv, GreetInv
  <2>2. registered = c => v.state \notin {"free", "hello"}
    BY <1>5, <1>7, AgentSessionAssumption DEF SessionInv, GreetInv
  <2>3. agent'.phase = "idle" <=> agent'.link = None
    BY <1>2 DEF SessionInv, GreetInv
  <2> QED BY <1>2, <1>9, <2>1, <2>2, <2>3, GreetOne
<1>11. ASSUME NEW q \in Requests PROVE Calm(q)
  BY <1>2 DEF SessionInv, PlaceInv, Place, Calm, AtWork, Waiting
<1>12. SessionTypeOK'
  BY <1>2, <1>9 DEF SessionInv, SessionTypeOK, Drains
<1> QED BY <1>2, <1>9, <1>10, <1>11, <1>12, NothingNew, KeptRan, CalmInv

LEMMA CrashAgentInv ==
  ASSUME SessionInv, CrashAgent, faults' \in 0 .. MaxFaults PROVE SessionInv'
<1>1. /\ agent' = Loose /\ conn' = [c \in Conns |-> Abandoned(conn[c])]
      /\ handler' = [r \in Requests |-> NoOne] /\ queue' = << >>
      /\ UNCHANGED <<row, registered, outcome, journal>>
  BY DEF CrashAgent, plane
<1>2. \A c \in Conns : conn[c] \in Websockets /\ conn'[c] = Abandoned(conn[c])
  BY <1>1 DEF SessionInv, SessionTypeOK
<1>3. \A c \in Conns : /\ Follows(conn[c], conn'[c], {}) /\ conn'[c].state = conn[c].state
                       /\ conn[c].state = "greeting" => conn'[c] = conn[c]
  BY <1>2, AbandonedWire
<1>4. Drains({})
  <2>1. \A c \in Conns : Abandoned(conn[c]) \in Websockets
    BY <1>2, <1>3 DEF Follows
  <2> QED BY <1>1, <1>3, <2>1 DEF Drains
<1>5. GreetInv'
  <2>1. registered # None => registered \in Conns
    BY DEF SessionInv, SessionTypeOK
  <2> QED BY <1>1, <1>3, <2>1, LooseLink DEF SessionInv, GreetInv
<1>6. NoOne.phase = "none" /\ NoOne \in [phase : {"none", "started", "executing", "reporting"},
                                         conn : Conns \cup {None}]
  BY DEF NoOne
<1>7. ASSUME NEW q \in Requests PROVE Calm(q)
  BY <1>1, <1>6 DEF SessionInv, PlaceInv, Place, Calm, AtWork, Waiting
<1>8. queue' \in BoundedSeq(Requests, QueueMax) /\ ToSet(queue') = {}
  <2>1. << >> \in Seq(Requests) /\ ToSet(<< >>) = {}
    BY Empty
  <2>2. Len(<< >>) <= QueueMax /\ QueueMax \in Nat
    BY AgentSessionAssumption
  <2>3. << >> \in BoundedSeq(Requests, QueueMax)
    BY <2>1, <2>2, Bounded
  <2> QED BY <1>1, <2>1, <2>3
<1>9. SessionTypeOK'
  BY <1>1, <1>4, <1>6, <1>8, LooseLink DEF SessionInv, SessionTypeOK, Drains
<1>10. \A r \in ToSet(journal') \cup ToSet(queue') : r \in Requests /\ Ran(r)
  BY <1>1, <1>8, KeptRan
<1> QED BY <1>4, <1>5, <1>7, <1>9, <1>10, NothingNew, CalmInv

LEMMA CrashServerInv ==
  ASSUME SessionInv, CrashServer, faults' \in 0 .. MaxFaults PROVE SessionInv'
<1>1. /\ registered' = None /\ conn' = [c \in Conns |-> IF agent.link = c THEN Freed(conn[c]) ELSE Idle]
      /\ UNCHANGED <<row, agent, handler, outcome, journal, queue>>
  BY DEF CrashServer, node
<1>2. \A c \in Conns : conn[c] \in Websockets /\ (conn'[c] = Freed(conn[c]) \/ conn'[c] = Idle)
  BY <1>1 DEF SessionInv, SessionTypeOK
<1>3. \A c \in Conns : Follows(conn[c], conn'[c], {}) /\ conn'[c].state = "free"
  <2>1. Idle.state = "free"
    BY DEF Idle
  <2> QED BY <1>2, <2>1, FreedWire, IdleWire
<1>4. Drains({})
  <2>1. \A c \in Conns : conn'[c] \in Websockets
    BY <1>3 DEF Follows
  <2>2. conn' \in [Conns -> Websockets]
    BY <1>1, <2>1
  <2> QED BY <1>3, <2>2 DEF Drains
<1>5. GreetInv'
  BY <1>1, <1>3 DEF SessionInv, GreetInv
<1>6. ASSUME NEW q \in Requests PROVE Calm(q)
  BY <1>1 DEF SessionInv, PlaceInv, Place, Calm, AtWork, Waiting
<1>7. SessionTypeOK'
  BY <1>1, <1>4 DEF SessionInv, SessionTypeOK, Drains
<1> QED BY <1>1, <1>4, <1>5, <1>6, <1>7, NothingNew, KeptRan, CalmInv
-----------------------------------------------------------------------------
(***************************************************************************)
(* Commands at the node.                                                   *)
(***************************************************************************)

Handlers == [phase : {"none", "started", "executing", "reporting"}, conn : Conns \cup {None}]

\* Only r's handler changes, to h.
LEMMA OneHandler ==
  ASSUME SessionInv, NEW r \in Requests, NEW h \in Handlers, handler' = [handler EXCEPT ![r] = h]
  PROVE  /\ handler' \in [Requests -> Handlers] /\ handler'[r] = h
         /\ \A q \in Requests : q # r => handler'[q] = handler[q]
BY DEF SessionInv, SessionTypeOK, Handlers

LEMMA NoOneHandler == NoOne \in Handlers /\ NoOne.phase = "none"
BY DEF NoOne, Handlers

\* A message of the agent, if it has a connection.
LEMMA Said ==
  ASSUME SessionInv, NEW m \in Messages, conn' = With(agent.link, ToServer(conn[agent.link], <<m>>)),
         UNCHANGED <<registered, agent>>
  PROVE  Drains({m}) /\ GreetInv'
<1> DEFINE c == agent.link
           v == ToServer(conn[c], <<m>>)
<1>1. conn \in [Conns -> Websockets]
  BY DEF SessionInv, SessionTypeOK
<1>2. CASE c \notin Conns
  <2>1. conn' = conn
    BY <1>1, <1>2 DEF With
  <2> QED BY <2>1, SameWires DEF SessionInv, GreetInv
<1>3. CASE c \in Conns
  <2>1. <<m>> \in Seq(Messages) /\ ToSet(<<m>>) \subseteq {m} /\ conn[c] \in Websockets
    BY <1>1, <1>3, Single
  <2>2. /\ Follows(conn[c], v, {m}) /\ v.state = conn[c].state
        /\ conn[c].toServer # << >> => v.toServer # << >>
    BY <2>1, ToServerWire
  <2>3. conn' = With(c, v)
    OBVIOUS
  <2> HIDE DEF v, c
  <2>4. Drains({m}) /\ conn'[c] = v /\ \A d \in Conns : d # c => conn'[d] = conn[d]
    BY <1>3, <2>2, <2>3, OneWire DEF SessionInv
  <2>5. GreetInv'
    <3>1. v.state = "greeting" => v.toServer # << >>
      BY <1>3, <2>2 DEF SessionInv, GreetInv
    <3>2. registered = c => v.state \notin {"free", "hello"}
      BY <1>3, <2>2, AgentSessionAssumption DEF SessionInv, GreetInv
    <3>3. agent'.phase = "idle" <=> agent'.link = None
      BY DEF SessionInv, GreetInv
    <3> QED BY <1>3, <2>4, <3>1, <3>2, <3>3, GreetOne
  <2> QED BY <2>4, <2>5
<1> QED BY <1>2, <1>3

LEMMA AboutMessage ==
  ASSUME NEW kind \in {"ack", "reject"}, NEW r \in Requests
  PROVE  /\ About(kind, r) \in Messages /\ About(kind, r).kind = kind /\ About(kind, r).request = r
         /\ About(kind, r).verdicts = {}
BY DEF About, Messages

LEMMA AckInv ==
  ASSUME SessionInv, NEW r \in Requests, handler[r].phase = "started",
         conn' = With(agent.link, ToServer(conn[agent.link], <<About("ack", r)>>)),
         handler' = [handler EXCEPT ![r] = [@ EXCEPT !.phase = "executing"]],
         UNCHANGED <<row, registered, agent, outcome, journal, queue, faults>>
  PROVE  SessionInv'
<1> DEFINE m == About("ack", r)
           h == [handler[r] EXCEPT !.phase = "executing"]
<1>1. m \in Messages /\ Honest({m})
  BY AboutMessage DEF Honest
<1>2. h \in Handlers /\ h.phase = "executing" /\ handler' = [handler EXCEPT ![r] = h]
  BY DEF SessionInv, SessionTypeOK, Handlers
<1> HIDE DEF m, h
<1>3. Drains({m}) /\ GreetInv'
  BY <1>1, Said DEF m
<1>4. /\ handler' \in [Requests -> Handlers] /\ handler'[r] = h
      /\ \A q \in Requests : q # r => handler'[q] = handler[q]
  BY <1>2, OneHandler
<1>5. ASSUME NEW q \in Requests PROVE Calm(q)
  BY <1>2, <1>4 DEF SessionInv, PlaceInv, Place, Calm, AtWork, Waiting
<1>6. SessionTypeOK'
  BY <1>3, <1>4 DEF SessionInv, SessionTypeOK, Drains, Handlers
<1> QED BY <1>1, <1>3, <1>5, <1>6, KeptRan, CalmInv

LEMMA DropCommandInv ==
  ASSUME SessionInv, NEW r \in Requests, handler[r].phase = "started",
         handler' = [handler EXCEPT ![r] = NoOne],
         UNCHANGED <<row, registered, conn, agent, outcome, journal, queue, faults>>
  PROVE  SessionInv'
<1>1. /\ handler' \in [Requests -> Handlers] /\ handler'[r] = NoOne
      /\ \A q \in Requests : q # r => handler'[q] = handler[q]
  BY NoOneHandler, OneHandler
<1>2. ASSUME NEW q \in Requests PROVE Calm(q)
  BY <1>1, NoOneHandler DEF SessionInv, PlaceInv, Place, Calm, AtWork, Waiting
<1>3. SessionTypeOK' /\ GreetInv'
  BY <1>1 DEF SessionInv, SessionTypeOK, Handlers, GreetInv
<1>4. Drains({})
  BY SameWires DEF SessionInv
<1> QED BY <1>2, <1>3, <1>4, NothingNew, KeptRan, CalmInv

\* A rejection excludes that the command was, or is, carried out.
LEMMA RejectInv ==
  ASSUME SessionInv, NEW r \in Requests, handler[r].phase = "started",
         conn' = With(agent.link, ToServer(conn[agent.link], <<About("reject", r)>>)),
         handler' = [handler EXCEPT ![r] = NoOne],
         UNCHANGED <<row, registered, agent, outcome, journal, queue, faults>>
  PROVE  SessionInv'
<1> DEFINE m == About("reject", r)
<1>1. m \in Messages /\ m.request = r /\ m.verdicts = {}
  BY AboutMessage
<1> HIDE DEF m
<1>2. Drains({m}) /\ GreetInv'
  BY <1>1, Said DEF m
<1>3. /\ handler' \in [Requests -> Handlers] /\ handler'[r] = NoOne
      /\ \A q \in Requests : q # r => handler'[q] = handler[q]
  BY NoOneHandler, OneHandler
<1>4. SessionTypeOK'
  BY <1>2, <1>3 DEF SessionInv, SessionTypeOK, Drains, Handlers
<1>5. OnceInv'
  BY <1>2, DrainsOnce DEF SessionInv
<1>6. ReportInv'
  <2>1. ResultVerdicts({m})'
    BY <1>1 DEF ResultVerdicts
  <2>2. \A c \in Conns : ResultVerdicts(ToSet(conn[c].toServer))'
    BY <1>2, <2>1, DrainsVerdicts
  <2> QED BY <2>2 DEF SessionInv, ReportInv, Ran
<1>7. ASSUME NEW q \in Requests PROVE Place(q)'
  <2>1. (Arriving(q)' => Arriving(q)) /\ (q # r /\ Refused(q)' => Refused(q))
    BY <1>1, <1>2, DrainsPlaces
  <2>2. CASE q # r
    <3>1. Calm(q)
      BY <1>3, <2>2 DEF SessionInv, PlaceInv, Place, Calm, AtWork, Waiting
    <3> QED BY <2>1, <2>2, <3>1, CalmPlace
  <2>3. CASE q = r
    <3>1. AtWork(r) /\ handler'[r].phase = "none" /\ ~AtWork(r)'
      BY <1>3, NoOneHandler DEF AtWork
    <3>2. Place(r)
      BY DEF SessionInv, PlaceInv
    <3>3. (Waiting(r)' <=> Waiting(r)) /\ (Ran(r)' <=> Ran(r))
      BY DEF Waiting, Ran
    <3> QED BY <2>1, <2>3, <3>1, <3>2, <3>3 DEF Place, Ran
  <2> QED BY <2>2, <2>3
<1>8. PlaceInv'
  BY <1>7 DEF PlaceInv
<1> QED BY <1>2, <1>4, <1>5, <1>6, <1>8 DEF SessionInv

LEMMA AcknowledgeInv == ASSUME SessionInv, NEW r \in Requests, Acknowledge(r) PROVE SessionInv'
<1>1. /\ handler[r].phase = "started"
      /\ UNCHANGED <<row, registered, agent, outcome, journal, queue, faults>>
  BY DEF Acknowledge, plane
<1>2. \/ /\ conn' = With(agent.link, ToServer(conn[agent.link], <<About("ack", r)>>))
         /\ handler' = [handler EXCEPT ![r] = [@ EXCEPT !.phase = "executing"]]
      \/ /\ conn' = With(agent.link, ToServer(conn[agent.link], <<About("reject", r)>>))
         /\ handler' = [handler EXCEPT ![r] = NoOne]
      \/ handler' = [handler EXCEPT ![r] = NoOne] /\ UNCHANGED conn
  BY DEF Acknowledge
<1> QED BY <1>1, <1>2, AckInv, RejectInv, DropCommandInv

LEMMA AppendedTo ==
  ASSUME NEW S, NEW s \in Seq(S), NEW x \in S
  PROVE  /\ Append(s, x) \in Seq(S) /\ Len(Append(s, x)) = Len(s) + 1 /\ Append(s, x) # << >>
         /\ ToSet(Append(s, x)) = ToSet(s) \cup {x}
<1>1. /\ Append(s, x) \in Seq(S) /\ Len(Append(s, x)) = Len(s) + 1 /\ Len(s) \in Nat
      /\ Append(s, x) = s \o <<x>>
  BY AppendProperties, AppendIsConcat, LenProperties
<1> DEFINE t == <<x>>
<1>2. t \in Seq(S) /\ ToSet(t) = {x}
  BY Single
<1>3. Append(s, x) = s \o t
  BY <1>1
<1> HIDE DEF t
<1>4. ToSet(s \o t) = ToSet(s) \cup ToSet(t)
  BY <1>2, Joined
<1>5. Append(s, x) # << >>
  <2>1. Len(Append(s, x)) # 0
    BY <1>1
  <2> QED BY <1>1, <2>1, EmptySeq
<1> QED BY <1>1, <1>2, <1>3, <1>4, <1>5

\* The websocket of a rerouting action may go half-open.
LEMMA ExecuteWires ==
  ASSUME SessionInv, UNCHANGED <<registered, agent>>,
         \/ UNCHANGED conn
         \/ agent.link # None /\ conn' = With(agent.link, HalfOpen(conn[agent.link]))
  PROVE  Drains({}) /\ GreetInv'
<1>1. CASE UNCHANGED conn
  BY <1>1, SameWires DEF SessionInv, GreetInv
<1>2. CASE agent.link # None /\ conn' = With(agent.link, HalfOpen(conn[agent.link]))
  <2> DEFINE c == agent.link
             v == HalfOpen(conn[c])
  <2>1. c \in Conns /\ conn[c] \in Websockets
    BY <1>2, LinkOf DEF SessionInv, SessionTypeOK
  <2>2. /\ Follows(conn[c], v, {}) /\ v.state = conn[c].state
        /\ conn[c].state = "greeting" => v.toServer = conn[c].toServer
    BY <2>1, HalfOpenWire
  <2>3. conn' = With(c, v)
    BY <1>2
  <2> HIDE DEF v, c
  <2>4. Drains({}) /\ conn'[c] = v /\ \A d \in Conns : d # c => conn'[d] = conn[d]
    BY <2>1, <2>2, <2>3, OneWire DEF SessionInv
  <2>5. v.state = "greeting" => v.toServer # << >>
    BY <2>1, <2>2 DEF SessionInv, GreetInv
  <2>6. registered = c => v.state \notin {"free", "hello"}
    BY <2>1, <2>2, AgentSessionAssumption DEF SessionInv, GreetInv
  <2>7. agent'.phase = "idle" <=> agent'.link = None
    BY DEF SessionInv, GreetInv
  <2> QED BY <2>1, <2>4, <2>5, <2>6, <2>7, GreetOne
<1> QED BY <1>1, <1>2

LEMMA ExecuteInv == ASSUME SessionInv, NEW r \in Requests, Execute(r) PROVE SessionInv'
<1>1. PICK state \in {"succeeded", "failed"} :
        /\ outcome' = [outcome EXCEPT ![r] = state]
        /\ \/ journal' = Journaled(r) /\ UNCHANGED faults
           \/ UNCHANGED journal /\ faults < MaxFaults /\ faults' = faults + 1
  BY DEF Execute
<1> DEFINE entries == Append(journal, r)
           h == [handler[r] EXCEPT !.phase = "reporting"]
<1>2. /\ handler[r].phase = "executing"
      /\ handler' = [handler EXCEPT ![r] = h]
      /\ \/ UNCHANGED conn
         \/ agent.link # None /\ conn' = With(agent.link, HalfOpen(conn[agent.link]))
      /\ UNCHANGED <<row, registered, agent, queue>>
      /\ Journaled(r) = IF Len(entries) > JournalMax THEN Tail(entries) ELSE entries
  BY DEF Execute, plane, Journaled
<1>3. h \in Handlers /\ h.phase = "reporting"
  BY DEF SessionInv, SessionTypeOK, Handlers
<1>4. /\ entries \in Seq(Requests) /\ Len(entries) = Len(journal) + 1 /\ entries # << >>
      /\ ToSet(entries) = ToSet(journal) \cup {r} /\ Len(journal) \in Nat /\ Len(journal) <= JournalMax
  BY KeptRan, AppendedTo, LenProperties
<1> HIDE DEF entries, h
<1>5. Drains({}) /\ GreetInv'
  BY <1>2, ExecuteWires
<1>6. /\ handler' \in [Requests -> Handlers] /\ handler'[r] = h
      /\ \A q \in Requests : q # r => handler'[q] = handler[q]
  BY <1>2, <1>3, OneHandler
<1>7. /\ outcome' \in [Requests -> {"none", "succeeded", "failed"}] /\ outcome'[r] = state
      /\ \A q \in Requests : q # r => outcome'[q] = outcome[q]
  BY <1>1 DEF SessionInv, SessionTypeOK
<1>8. /\ journal' \in BoundedSeq(Requests, JournalMax)
      /\ ToSet(journal') \subseteq ToSet(journal) \cup {r}
  <2>0. CASE UNCHANGED journal
    BY <2>0 DEF SessionInv, SessionTypeOK
  <2>1. JournalMax \in Nat /\ Len(Tail(entries)) = Len(entries) - 1
    BY <1>4, HeadTailProperties, AgentSessionAssumption
  <2>2. Tail(entries) \in Seq(Requests) /\ ToSet(Tail(entries)) \subseteq ToSet(entries)
    BY <1>4, TailOf
  <2>3. CASE Len(entries) > JournalMax
    <3>1. Journaled(r) = Tail(entries) /\ Len(Tail(entries)) <= JournalMax
      BY <1>2, <1>4, <2>1, <2>3
    <3>2. Tail(entries) \in BoundedSeq(Requests, JournalMax)
      BY <2>1, <2>2, <3>1, Bounded
    <3> QED BY <1>1, <1>4, <2>0, <2>2, <3>1, <3>2
  <2>4. CASE ~(Len(entries) > JournalMax)
    <3>1. Journaled(r) = entries /\ Len(entries) <= JournalMax
      BY <1>2, <1>4, <2>1, <2>4
    <3>2. entries \in BoundedSeq(Requests, JournalMax)
      BY <1>4, <2>1, <3>1, Bounded
    <3> QED BY <1>1, <1>4, <2>0, <3>1, <3>2
  <2> QED BY <2>3, <2>4
<1>9. SessionTypeOK'
  <2>1. faults' \in 0 .. MaxFaults
    BY <1>1, AgentSessionAssumption DEF SessionInv, SessionTypeOK
  <2> QED BY <1>2, <1>5, <1>6, <1>7, <1>8, <2>1 DEF SessionInv, SessionTypeOK, Drains, Handlers
<1>10. Place(r) /\ AtWork(r)
  BY <1>2 DEF SessionInv, PlaceInv, AtWork
<1>11. ~Ran(r) /\ Ran(r)'
  BY <1>7, <1>10 DEF Place, Ran
<1>12. ReportInv'
  <2>1. \A q \in Requests : Ran(q) => outcome'[q] = outcome[q]
    BY <1>7, <1>11
  <2>2. ResultVerdicts({})'
    BY DEF ResultVerdicts
  <2>3. \A c \in Conns : ResultVerdicts(ToSet(conn[c].toServer))'
    BY <1>5, <2>1, <2>2, DrainsVerdicts
  <2>4. ASSUME NEW q \in ToSet(journal') \cup ToSet(queue') PROVE Ran(q)'
    <3>1. q = r \/ (q \in Requests /\ Ran(q))
      BY <1>2, <1>8, KeptRan
    <3> QED BY <1>11, <2>1, <3>1 DEF Ran
  <2> QED BY <2>3, <2>4 DEF ReportInv
<1>13. ASSUME NEW q \in Requests PROVE Place(q)'
  <2>1. (Arriving(q)' => Arriving(q)) /\ (Refused(q)' => Refused(q))
    BY <1>5, DrainsPlaces
  <2>2. CASE q # r
    <3>1. Calm(q)
      BY <1>2, <1>6, <1>7, <2>2 DEF SessionInv, PlaceInv, Place, Calm, AtWork, Waiting
    <3> QED BY <2>1, <3>1, CalmPlace
  <2>3. CASE q = r
    <3>1. handler'[r].phase = "reporting" /\ ~AtWork(r)'
      BY <1>3, <1>6 DEF AtWork
    <3>2. Waiting(r)' <=> Waiting(r)
      BY <1>2 DEF Waiting
    <3>3. row[r] # "failed" /\ row[r] # "succeeded" /\ row'[r] = row[r]
      BY <1>2, <1>10, <1>11 DEF Place, Ran
    <3>4. (Arriving(r)' => Arriving(r)) /\ (Refused(r)' => Refused(r))
      BY <2>1, <2>3
    <3>5. /\ ~Waiting(r) /\ ~Arriving(r) /\ ~Refused(r)
      BY <1>10, <1>11 DEF Place, AtWork
    <3>6. Place(r)'
      BY <1>11, <3>1, <3>2, <3>3, <3>4, <3>5 DEF Place
    <3> QED BY <2>3, <3>6
  <2> QED BY <2>2, <2>3
<1>14. OnceInv' /\ PlaceInv'
  BY <1>5, <1>13, DrainsOnce DEF SessionInv, PlaceInv
<1> QED BY <1>5, <1>9, <1>12, <1>14 DEF SessionInv

LEMMA ReportStep == ASSUME SessionInv, NEW r \in Requests, Report(r) PROVE SessionInv'
<1>1. /\ handler[r].phase = "reporting" /\ queue' = Queued(r)
      /\ agent' = IF Reconnects(r) THEN Loose ELSE agent
      /\ conn' = IF Reconnects(r) THEN With(agent.link, Abandoned(conn[agent.link])) ELSE conn
      /\ handler' = [handler EXCEPT ![r] = NoOne]
      /\ UNCHANGED <<row, registered, outcome, journal, faults>>
  BY DEF Report, plane
<1>2. Ran(r)
  BY <1>1 DEF SessionInv, PlaceInv, Place
<1>3. /\ handler' \in [Requests -> Handlers] /\ handler'[r] = NoOne
      /\ \A q \in Requests : q # r => handler'[q] = handler[q]
  BY <1>1, NoOneHandler, OneHandler
<1>4. queue' \in BoundedSeq(Requests, QueueMax) /\ ToSet(queue') \subseteq ToSet(queue) \cup {r}
  <2>1. /\ queue \in Seq(Requests) /\ Len(queue) <= QueueMax /\ QueueMax \in Nat /\ Len(queue) \in Nat
        /\ queue \in BoundedSeq(Requests, QueueMax)
    BY KeptRan, LenProperties, AgentSessionAssumption DEF SessionInv, SessionTypeOK
  <2>2. CASE Len(queue) < QueueMax
    <3>1. /\ Append(queue, r) \in Seq(Requests) /\ Len(Append(queue, r)) = Len(queue) + 1
          /\ ToSet(Append(queue, r)) = ToSet(queue) \cup {r}
      BY <2>1, AppendedTo
    <3>2. Len(Append(queue, r)) <= QueueMax
      BY <2>1, <2>2, <3>1
    <3>3. Append(queue, r) \in BoundedSeq(Requests, QueueMax)
      BY <2>1, <3>1, <3>2, Bounded
    <3> QED BY <1>1, <2>2, <3>1, <3>3 DEF Queued
  <2>3. CASE ~(Len(queue) < QueueMax)
    BY <1>1, <2>1, <2>3 DEF Queued
  <2> QED BY <2>2, <2>3
<1>5. \A q \in ToSet(journal') \cup ToSet(queue') : q \in Requests /\ Ran(q)
  BY <1>1, <1>2, <1>4, KeptRan
<1>6. ASSUME NEW q \in Requests PROVE Calm(q)
  BY <1>1, <1>3, NoOneHandler DEF SessionInv, PlaceInv, Place, Calm, AtWork, Waiting
<1>7. /\ Drains({}) /\ GreetInv'
      /\ agent' \in [phase : {"idle", "waiting", "session"}, link : Conns \cup {None}]
  <2>1. CASE Reconnects(r)
    <3> DEFINE c == agent.link
               v == Abandoned(conn[c])
    <3>1. c \in Conns /\ conn[c] \in Websockets /\ c # None
      BY <2>1, LinkOf, AgentSessionAssumption DEF Reconnects, SessionInv, SessionTypeOK
    <3>2. /\ Follows(conn[c], v, {}) /\ v.state = conn[c].state
          /\ v.state = "greeting" => v.toServer = conn[c].toServer
      BY <3>1, AbandonedWire
    <3>3. conn' = With(c, v) /\ agent' = Loose
      BY <1>1, <2>1
    <3> HIDE DEF c, v
    <3>4. Drains({}) /\ conn'[c] = v /\ \A d \in Conns : d # c => conn'[d] = conn[d]
      BY <3>1, <3>2, <3>3, OneWire DEF SessionInv
    <3>5. v.state = "greeting" => v.toServer # << >>
      BY <3>1, <3>2 DEF SessionInv, GreetInv
    <3>6. registered = c => v.state \notin {"free", "hello"}
      BY <3>1, <3>2 DEF SessionInv, GreetInv
    <3>7. GreetInv'
      BY <1>1, <3>1, <3>3, <3>4, <3>5, <3>6, LooseLink, GreetOne
    <3> QED BY <3>3, <3>4, <3>7, LooseLink
  <2>2. CASE ~Reconnects(r)
    BY <1>1, <2>2, SameWires DEF SessionInv, SessionTypeOK, GreetInv
  <2> QED BY <2>1, <2>2
<1>8. SessionTypeOK'
  BY <1>1, <1>3, <1>4, <1>7 DEF SessionInv, SessionTypeOK, Drains, Handlers
<1> QED BY <1>5, <1>6, <1>7, <1>8, NothingNew, CalmInv

\* A command leaves its websocket for its handler.
LEMMA ReadInv == ASSUME SessionInv, Read PROVE SessionInv'
<1> DEFINE c == agent.link
           x == Head(conn[c].toAgent)
           v == Taken(conn[c])
           h == [phase |-> "started", conn |-> c]
<1>1. /\ agent.phase = "session" /\ Inbox # << >>
      /\ conn' = With(c, v) /\ handler' = [handler EXCEPT ![Head(Inbox)] = h]
      /\ UNCHANGED <<row, registered, agent, outcome, journal, queue, faults>>
  BY DEF Read, plane
<1>2. c \in Conns /\ conn[c] \in Websockets /\ c # None
  BY <1>1, LinkOf DEF SessionInv, SessionTypeOK, GreetInv
<1>3. Inbox = conn[c].toAgent /\ conn[c].toAgent # << >>
  BY <1>1, <1>2 DEF Inbox
<1>4. handler' = [handler EXCEPT ![x] = h]
  BY <1>1, <1>3
<1>5. h \in Handlers /\ h.phase = "started"
  BY <1>2 DEF Handlers
<1>6. /\ Follows(conn[c], v, {}) /\ v.state = conn[c].state /\ v.toServer = conn[c].toServer
      /\ v.toAgent = Tail(conn[c].toAgent)
  BY <1>2, <1>3, TakenFrom
<1>7. /\ x \in ToSet(conn[c].toAgent)
      /\ x \in Requests => x \in Under(conn[c]) /\ x \notin Under(v)
  <2>1. conn[c].toAgent \in Seq({"notice", "denied"} \cup Requests) /\ NoCopies(conn[c].toAgent)
    BY <1>2, WireFields DEF SessionInv, OnceInv
  <2>2. /\ x \in ToSet(conn[c].toAgent)
        /\ x \in Requests => x \notin ToSet(Tail(conn[c].toAgent))
    BY <1>3, <2>1, TailOf
  <2> QED BY <1>6, <2>2 DEF Under
<1> HIDE DEF c, x, v, h
<1>8. Drains({}) /\ conn'[c] = v /\ \A d \in Conns : d # c => conn'[d] = conn[d]
  BY <1>1, <1>2, <1>6, OneWire DEF SessionInv
<1>9. GreetInv'
  <2>1. v.state = "greeting" => v.toServer # << >>
    BY <1>2, <1>6 DEF SessionInv, GreetInv
  <2>2. registered = c => v.state \notin {"free", "hello"}
    BY <1>2, <1>6 DEF SessionInv, GreetInv
  <2>3. agent'.phase = "idle" <=> agent'.link = None
    BY <1>1 DEF SessionInv, GreetInv
  <2> QED BY <1>1, <1>2, <1>8, <2>1, <2>2, <2>3, GreetOne
<1>10. /\ handler' \in [Requests -> Handlers] /\ (x \in Requests => handler'[x] = h)
       /\ \A q \in Requests : q # x => handler'[q] = handler[q]
  BY <1>4, <1>5 DEF SessionInv, SessionTypeOK, Handlers
<1>11. SessionTypeOK'
  BY <1>1, <1>8, <1>10 DEF SessionInv, SessionTypeOK, Drains, Handlers
<1>12. ReportInv'
  <2>1. ResultVerdicts({})'
    BY DEF ResultVerdicts
  <2>2. \A d \in Conns : ResultVerdicts(ToSet(conn[d].toServer))'
    BY <1>1, <1>8, <2>1, DrainsVerdicts
  <2> QED BY <1>1, <2>2 DEF SessionInv, ReportInv, Ran
<1>13. ASSUME NEW q \in Requests PROVE Place(q)'
  <2>1. (Arriving(q)' => Arriving(q)) /\ (Refused(q)' => Refused(q))
    BY <1>8, DrainsPlaces
  <2>2. CASE q # x
    <3>1. Calm(q)
      BY <1>1, <1>10, <2>2 DEF SessionInv, PlaceInv, Place, Calm, AtWork, Waiting
    <3> QED BY <2>1, <3>1, CalmPlace
  <2>3. CASE q = x
    <3>1. Arriving(q) /\ Place(q)
      BY <1>2, <1>7, <2>3 DEF SessionInv, PlaceInv, Arriving
    <3>2. ~Arriving(q)'
      <4>1. \A d \in Conns : d # c => q \notin Under(conn'[d])
        BY <1>2, <1>7, <1>8, <2>3 DEF SessionInv, OnceInv
      <4> QED BY <1>7, <1>8, <2>3, <4>1 DEF Arriving
    <3>3. handler'[q].phase = "started" /\ AtWork(q)'
      BY <1>5, <1>10, <2>3 DEF AtWork
    <3>4. (Waiting(q)' <=> Waiting(q)) /\ (Ran(q)' <=> Ran(q)) /\ row'[q] = row[q] /\ outcome'[q] = outcome[q]
      BY <1>1 DEF Waiting, Ran
    <3> QED BY <2>1, <3>1, <3>2, <3>3, <3>4 DEF Place
  <2> QED BY <2>2, <2>3
<1>14. OnceInv' /\ PlaceInv'
  BY <1>8, <1>13, DrainsOnce DEF SessionInv, PlaceInv
<1> QED BY <1>9, <1>11, <1>12, <1>14 DEF SessionInv
-----------------------------------------------------------------------------
(***************************************************************************)
(* New commands: only those nobody has sent, one websocket each.           *)
(***************************************************************************)

LEMMA Bring ==
  ASSUME SessionInv, NEW c \in Conns, NEW v \in Websockets, NEW P \in SUBSET Requests,
         conn' = With(c, v), Under(v) \subseteq Under(conn[c]) \cup P, NoCopies(v.toAgent),
         ToSet(v.toServer) \subseteq ToSet(conn[c].toServer),
         \A r \in P : Waiting(r) /\ row'[r] \in {"sent", "unknown"},
         \A r \in Requests \ P : Calm(r),
         UNCHANGED <<handler, outcome, journal, queue>>
  PROVE  /\ PlaceInv' /\ OnceInv' /\ ReportInv' /\ conn' \in [Conns -> Websockets]
         /\ conn'[c] = v /\ \A d \in Conns : d # c => conn'[d] = conn[d]
<1>1. /\ conn' \in [Conns -> Websockets] /\ conn'[c] = v
      /\ \A d \in Conns : d # c => conn'[d] = conn[d]
  BY DEF With, SessionInv, SessionTypeOK
<1>2. \A r \in P : ~Arriving(r) /\ ~AtWork(r) /\ ~Refused(r) /\ ~Ran(r)
  BY DEF SessionInv, PlaceInv, Place
<1>3. \A r \in P : \A d \in Conns : r \notin Under(conn[d])
  BY <1>2 DEF Arriving
<1>4. \A d \in Conns : ToSet(conn'[d].toServer) \subseteq ToSet(conn[d].toServer)
  BY <1>1
<1>5. \A d \in Conns : d # c => Under(conn'[d]) = Under(conn[d])
  BY <1>1
<1>6. Under(conn'[c]) \subseteq Under(conn[c]) \cup P
  BY <1>1
<1>7. OnceInv'
  <2>1. \A d \in Conns : NoCopies(conn'[d].toAgent)
    BY <1>1 DEF SessionInv, OnceInv
  <2>2. ASSUME NEW d \in Conns, NEW e \in Conns, d # e PROVE Under(conn'[d]) \cap Under(conn'[e]) = {}
    <3>1. Under(conn[d]) \cap Under(conn[e]) = {}
      BY <2>2 DEF SessionInv, OnceInv
    <3>2. CASE d = c
      BY <1>3, <1>5, <1>6, <2>2, <3>1, <3>2
    <3>3. CASE e = c
      BY <1>3, <1>5, <1>6, <2>2, <3>1, <3>3
    <3>4. CASE d # c /\ e # c
      BY <1>5, <3>1, <3>4
    <3> QED BY <3>2, <3>3, <3>4
  <2> QED BY <2>1, <2>2 DEF OnceInv
<1>8. \A r \in Requests : Refused(r)' => Refused(r)
  BY <1>4 DEF Refused
<1>9. \A r \in Requests \ P : Arriving(r)' => Arriving(r)
  BY <1>5, <1>6 DEF Arriving
<1>10. ASSUME NEW r \in Requests PROVE Place(r)'
  <2>1. CASE r \notin P
    <3>1. Calm(r) /\ (Arriving(r)' => Arriving(r)) /\ (Refused(r)' => Refused(r))
      BY <1>8, <1>9, <2>1
    <3> QED BY <3>1, CalmPlace
  <2>2. CASE r \in P
    <3>1. ~AtWork(r) /\ ~Refused(r)' /\ ~Ran(r) /\ ~Waiting(r)'
      BY <1>2, <1>8, <2>2 DEF Waiting
    <3>2. handler[r].phase # "reporting"
      BY <3>1 DEF SessionInv, PlaceInv, Place
    <3>3. handler[r].phase = "none"
      BY <3>1, <3>2 DEF SessionInv, SessionTypeOK, AtWork
    <3>4. handler'[r].phase = "none" /\ ~AtWork(r)' /\ ~Ran(r)'
      BY <3>1, <3>3 DEF AtWork, Ran
    <3>5. row'[r] # "failed" /\ row'[r] # "succeeded"
      BY <2>2
    <3> QED BY <3>1, <3>4, <3>5 DEF Place
  <2> QED BY <2>1, <2>2
<1>11. ReportInv'
  <2>1. \A q : Ran(q)' <=> Ran(q)
    BY DEF Ran
  <2>2. \A q : Payload(q)' = Payload(q)
    BY DEF Payload
  <2>3. \A d \in Conns : ResultVerdicts(ToSet(conn[d].toServer))'
    BY <1>4, <2>1, <2>2 DEF SessionInv, ReportInv, ResultVerdicts
  <2> QED BY <2>1, <2>3 DEF SessionInv, ReportInv
<1> QED BY <1>1, <1>7, <1>10, <1>11 DEF PlaceInv

LEMMA CreateInv == ASSUME SessionInv, NEW r \in Requests, Create(r) PROVE SessionInv'
<1>1. /\ row[r] = "new"
      /\ UNCHANGED <<registered, agent, handler, outcome, journal, queue, faults>>
      /\ \/ row' = [row EXCEPT ![r] = "queued"] /\ UNCHANGED conn
         \/ /\ registered # None /\ conn' = With(registered, ToAgent(conn[registered], <<r>>))
            /\ \/ row' = [row EXCEPT ![r] = "sent"]
               \/ row' = [row EXCEPT ![r] = "unknown"]
  BY DEF Create, node
<1>2. row \in [Requests -> Statuses] /\ Waiting(r)
  BY <1>1 DEF SessionInv, SessionTypeOK, Statuses, Waiting
<1>3. ASSUME NEW q \in Requests, row'[q] = row[q] PROVE Calm(q)
  BY <1>1, <1>3 DEF SessionInv, PlaceInv, Place, Calm, AtWork, Waiting
<1>4. CASE row' = [row EXCEPT ![r] = "queued"] /\ UNCHANGED conn
  <2>1. row' \in [Requests -> Statuses] /\ row'[r] = "queued" /\ \A q \in Requests : q # r => row'[q] = row[q]
    BY <1>2, <1>4 DEF Statuses
  <2>2. Calm(r)
    BY <1>1, <1>2, <2>1 DEF Calm, AtWork, Waiting
  <2>3. \A q \in Requests : Calm(q)
    BY <1>3, <2>1, <2>2
  <2>4. Drains({})
    BY <1>4, SameWires DEF SessionInv
  <2>5. SessionTypeOK' /\ GreetInv'
    BY <1>1, <1>4, <2>1 DEF SessionInv, SessionTypeOK, GreetInv, Statuses
  <2> QED BY <1>1, <2>3, <2>4, <2>5, NothingNew, KeptRan, CalmInv
<1>5. CASE /\ registered # None /\ conn' = With(registered, ToAgent(conn[registered], <<r>>))
           /\ \/ row' = [row EXCEPT ![r] = "sent"]
              \/ row' = [row EXCEPT ![r] = "unknown"]
  <2> DEFINE c == registered
             v == ToAgent(conn[c], <<r>>)
  <2>1. c \in Conns /\ conn[c] \in Websockets
    BY <1>5 DEF SessionInv, SessionTypeOK
  <2>2. /\ row' \in [Requests -> Statuses] /\ row'[r] \in {"sent", "unknown"}
        /\ \A q \in Requests : q # r => row'[q] = row[q]
    BY <1>2, <1>5 DEF Statuses
  <2>3. <<r>> \in Seq({"notice", "denied"} \cup Requests) /\ ToSet(<<r>>) = {r} /\ NoCopies(<<r>>)
    BY Single
  <2>4. r \notin Under(conn[c]) /\ NoCopies(conn[c].toAgent)
    BY <1>2, <2>1 DEF SessionInv, PlaceInv, Place, OnceInv, Arriving
  <2>5. /\ v \in Websockets /\ v.state = conn[c].state /\ v.toServer = conn[c].toServer
        /\ Under(v) \subseteq Under(conn[c]) \cup {r} /\ NoCopies(v.toAgent)
    <3>1. Under(conn[c]) \cap ToSet(<<r>>) = {}
      BY <2>3, <2>4
    <3> QED BY <2>1, <2>3, <2>4, <3>1, ToAgentWire
  <2>6. conn' = With(c, v)
    BY <1>5
  <2> HIDE DEF v, c
  <2> DEFINE P == {r}
  <2>7. P \in SUBSET Requests /\ Under(v) \subseteq Under(conn[c]) \cup P
        /\ \A q \in P : Waiting(q) /\ row'[q] \in {"sent", "unknown"}
    BY <1>2, <2>2, <2>5
  <2>8. \A q \in Requests \ P : Calm(q)
    BY <1>3, <2>2
  <2> HIDE DEF P
  <2>9. /\ PlaceInv' /\ OnceInv' /\ ReportInv' /\ conn' \in [Conns -> Websockets]
        /\ conn'[c] = v /\ \A d \in Conns : d # c => conn'[d] = conn[d]
    BY <1>1, <2>1, <2>5, <2>6, <2>7, <2>8, Bring
  <2>10. GreetInv'
    <3>1. v.state = "greeting" => v.toServer # << >>
      BY <2>1, <2>5 DEF SessionInv, GreetInv
    <3>2. registered = c => v.state \notin {"free", "hello"}
      BY <1>5, <2>1, <2>5 DEF SessionInv, GreetInv
    <3>3. agent'.phase = "idle" <=> agent'.link = None
      BY <1>1 DEF SessionInv, GreetInv
    <3> QED BY <1>1, <2>1, <2>9, <3>1, <3>2, <3>3, GreetOne
  <2>11. SessionTypeOK'
    BY <1>1, <2>2, <2>9 DEF SessionInv, SessionTypeOK, Statuses
  <2> QED BY <2>9, <2>10, <2>11 DEF SessionInv
<1> QED BY <1>1, <1>4, <1>5

LEMMA WelcomedWire ==
  ASSUME NEW w \in Websockets, w.toServer # << >>, NoCopies(w.toAgent),
         NEW P \in SUBSET Requests, Under(w) \cap P = {}
  PROVE  /\ Welcomed(w, P) \in Websockets /\ Welcomed(w, P).state = "serving"
         /\ Under(Welcomed(w, P)) \subseteq Under(w) \cup P /\ NoCopies(Welcomed(w, P).toAgent)
         /\ ToSet(Welcomed(w, P).toServer) \subseteq ToSet(w.toServer)
<1> DEFINE commands == SetToSeq(P)
           notice == <<"notice">>
           ms == notice \o commands
           u == ToAgent(w, ms)
           v == Welcomed(w, P)
           toServer == Tail(w.toServer)
<1>1. commands \in Seq(P) /\ ToSet(commands) \subseteq P /\ NoCopies(commands)
  BY Listed, FS_Subset, AgentSessionAssumption
<1>2. commands \in Seq({"notice", "denied"} \cup Requests)
  BY <1>1, SeqMonotonic
<1>3. /\ notice \in Seq({"notice", "denied"} \cup Requests) /\ ToSet(notice) = {"notice"}
      /\ NoCopies(notice)
  BY Single
<1>4. "notice" \notin Requests
  BY AgentSessionAssumption
<1> HIDE DEF commands, notice
<1>5. /\ ms \in Seq({"notice", "denied"} \cup Requests) /\ ToSet(ms) \subseteq {"notice"} \cup P
      /\ NoCopies(ms)
  <2>1. ToSet(notice) \cap ToSet(commands) \cap Requests = {}
    BY <1>3, <1>4
  <2>2. /\ ms \in Seq({"notice", "denied"} \cup Requests) /\ ToSet(ms) = ToSet(notice) \cup ToSet(commands)
        /\ NoCopies(ms)
    BY <1>1, <1>2, <1>3, <2>1, Joined
  <2> QED BY <1>1, <1>3, <2>2
<1> HIDE DEF ms
<1>6. u \in Websockets /\ Under(u) \subseteq Under(w) \cup P /\ NoCopies(u.toAgent)
  <2>1. Under(w) \cap ToSet(ms) = {}
    BY <1>4, <1>5 DEF Under
  <2>2. u \in Websockets /\ Under(u) \subseteq Under(w) \cup ToSet(ms) /\ NoCopies(u.toAgent)
    BY <1>5, <2>1, ToAgentWire
  <2> QED BY <1>4, <1>5, <2>2 DEF Under
<1>7. toServer \in Seq(Messages) /\ ToSet(toServer) \subseteq ToSet(w.toServer)
  BY WireFields, TailOf
<1>8. /\ u.toAgent \in Seq({"notice", "denied"} \cup Requests) /\ w.up \in BOOLEAN
  BY <1>6, WireFields
<1>9. v = [state |-> "serving", up |-> w.up, toServer |-> toServer, toAgent |-> u.toAgent]
  BY DEF Welcomed, commands, notice, ms
<1> HIDE DEF toServer, u, v
<1>10. /\ v \in Websockets /\ v.state = "serving" /\ v.toAgent = u.toAgent /\ v.toServer = toServer
  BY <1>7, <1>8, <1>9 DEF Websockets
<1> QED BY <1>6, <1>7, <1>10 DEF Under, v

LEMMA WelcomeInv ==
  ASSUME SessionInv, NEW c \in Conns, conn[c].toServer # << >>, Welcome(c),
         registered' \in {registered, c}, UNCHANGED <<agent, handler, outcome, journal, queue, faults>>
  PROVE  SessionInv'
<1> DEFINE rows == Recorded(Head(conn[c].toServer).verdicts)
           P == {r \in Requests : rows[r] = "queued"}
           v == Welcomed(conn[c], P)
<1>1. row' = [r \in Requests |-> IF r \in P THEN "sent" ELSE rows[r]] /\ conn' = With(c, v)
  BY DEF Welcome
<1>2. /\ rows \in [Requests -> Statuses]
      /\ \A r \in Requests :
           \/ rows[r] = row[r]
           \/ /\ Ran(r) /\ row[r] \notin Settled
              /\ \/ rows[r] = "succeeded" /\ outcome[r] = "succeeded"
                 \/ rows[r] = "failed" /\ outcome[r] # "succeeded"
  BY HeadIsTrue, RecordedRows
<1> HIDE DEF rows
<1>3. P \in SUBSET Requests /\ \A r \in P : row[r] = "queued" /\ Waiting(r)
  BY <1>2 DEF Waiting
<1>4. /\ \A r \in P : row'[r] \in {"sent", "unknown"}
      /\ \A r \in Requests \ P : row'[r] = rows[r] /\ rows[r] # "queued"
  BY <1>1
<1>5. row' \in [Requests -> Statuses]
  <2>1. \A r \in Requests : (IF r \in P THEN "sent" ELSE rows[r]) \in Statuses
    BY <1>2 DEF Statuses
  <2> QED BY <1>1, <2>1
<1>6. conn[c] \in Websockets /\ NoCopies(conn[c].toAgent) /\ Under(conn[c]) \cap P = {}
  BY <1>3 DEF SessionInv, SessionTypeOK, OnceInv, PlaceInv, Place, Arriving
<1> HIDE DEF P
<1>7. /\ v \in Websockets /\ v.state = "serving"
      /\ Under(v) \subseteq Under(conn[c]) \cup P /\ NoCopies(v.toAgent)
      /\ ToSet(v.toServer) \subseteq ToSet(conn[c].toServer)
  BY <1>3, <1>6, WelcomedWire
<1> HIDE DEF v
<1>8. ASSUME NEW q \in Requests \ P PROVE Calm(q)
  <2>1. Place(q)
    BY DEF SessionInv, PlaceInv
  <2>2. row'[q] = rows[q]
    BY <1>4
  <2>3. CASE rows[q] = row[q]
    BY <2>1, <2>2, <2>3 DEF Place, Calm, AtWork, Waiting
  <2>4. CASE /\ Ran(q) /\ row[q] \notin Settled
             /\ \/ rows[q] = "succeeded" /\ outcome[q] = "succeeded"
                \/ rows[q] = "failed" /\ outcome[q] # "succeeded"
    BY <2>1, <2>2, <2>4 DEF Place, Calm, AtWork, Waiting
  <2> QED BY <1>2, <2>3, <2>4
<1>9. /\ PlaceInv' /\ OnceInv' /\ ReportInv' /\ conn' \in [Conns -> Websockets]
      /\ conn'[c] = v /\ \A d \in Conns : d # c => conn'[d] = conn[d]
  BY <1>1, <1>3, <1>4, <1>7, <1>8, Bring
<1>10. GreetInv'
  <2>1. \A d \in Conns : conn'[d].state = "greeting" => conn'[d].toServer # << >>
    BY <1>7, <1>9 DEF SessionInv, GreetInv
  <2>2. registered' # None => conn'[registered'].state \notin {"free", "hello"}
    <3>1. CASE registered' = c
      BY <1>7, <1>9, <3>1
    <3>2. CASE registered' # c /\ registered' = registered
      BY <1>9, <3>2 DEF SessionInv, GreetInv, SessionTypeOK
    <3> QED BY <3>1, <3>2
  <2>3. agent'.phase = "idle" <=> agent'.link = None
    BY DEF SessionInv, GreetInv
  <2> QED BY <2>1, <2>2, <2>3 DEF GreetInv
<1>11. SessionTypeOK'
  BY <1>5, <1>9 DEF SessionInv, SessionTypeOK, Statuses
<1> QED BY <1>9, <1>10, <1>11 DEF SessionInv

LEMMA HandshakeInv == ASSUME SessionInv, NEW c \in Conns, Handshake(c) PROVE SessionInv'
<1>1. /\ conn[c].state = "hello" /\ conn[c].toServer # << >>
      /\ UNCHANGED <<node, faults>>
      /\ UNCHANGED <<agent, handler, outcome, journal, queue, faults>>
  BY DEF Handshake, node
<1>2. \/ conn' = With(c, Denied(conn[c])) /\ UNCHANGED plane
      \/ registered' = c /\ registered = None /\ Welcome(c)
      \/ /\ registered' = c /\ registered # None
         /\ conn' = [conn EXCEPT ![registered] = Closed(conn[registered]),
                                 ![c] = [conn[c] EXCEPT !.state = "greeting"]]
         /\ UNCHANGED row
  BY DEF Handshake
<1>3. CASE conn' = With(c, Denied(conn[c])) /\ UNCHANGED plane
  <2>1. UNCHANGED <<plane, node, faults>>
    BY <1>1, <1>3
  <2> QED BY <1>1, <1>3, <2>1, DenyInv
<1>4. CASE registered' = c /\ registered = None /\ Welcome(c)
  BY <1>1, <1>4, WelcomeInv
<1>5. CASE /\ registered' = c /\ registered # None
           /\ conn' = [conn EXCEPT ![registered] = Closed(conn[registered]),
                                   ![c] = [conn[c] EXCEPT !.state = "greeting"]]
           /\ UNCHANGED row
  <2>1. UNCHANGED <<row, node, faults>>
    BY <1>1, <1>5
  <2> QED BY <1>1, <1>5, <2>1, ReplaceInv
<1> QED BY <1>2, <1>3, <1>4, <1>5

LEMMA GreetStep == ASSUME SessionInv, NEW c \in Conns, Greet(c) PROVE SessionInv'
<1>1. /\ conn[c].state = "greeting" /\ Welcome(c) /\ registered' \in {registered, c}
      /\ UNCHANGED <<agent, handler, outcome, journal, queue, faults>>
  BY DEF Greet, node
<1>2. conn[c].toServer # << >>
  BY <1>1 DEF SessionInv, GreetInv
<1> QED BY <1>1, <1>2, WelcomeInv

-----------------------------------------------------------------------------
LEMMA FaultInv == ASSUME SessionInv, Fault PROVE SessionInv'
<1>1. faults' \in 0 .. MaxFaults
  BY AgentSessionAssumption DEF Fault, SessionInv, SessionTypeOK
<1>2. GiveUp \/ CrashAgent \/ CrashServer \/ \E c \in Conns : Break(c)
  BY DEF Fault
<1> QED BY <1>1, <1>2, GiveUpInv, CrashAgentInv, CrashServerInv, BreakInv

LEMMA NextInv == ASSUME SessionInv, [SessionNext]_session PROVE SessionInv'
<1>1. CASE \E r \in Requests : Create(r) \/ Lapse(r)
  BY <1>1, CreateInv, LapseInv
<1>2. CASE AgentStep
  BY <1>2, DialInv, AuthenticateInv, DropInv, ReadInv, SendResultInv, AcknowledgeInv, ExecuteInv,
     ReportStep DEF AgentStep
<1>3. CASE ServerStep
  BY <1>3, HandshakeInv, GreetStep, ReceiveInv, LeaveInv DEF ServerStep
<1>4. CASE Fault
  BY <1>4, FaultInv
<1>5. CASE UNCHANGED session
  <2>1. UNCHANGED <<row, registered, conn, agent, handler, outcome, journal, queue, faults>>
    BY <1>5 DEF session
  <2>2. \A q \in Requests : Calm(q)
    BY <2>1 DEF SessionInv, PlaceInv, Place, Calm, AtWork, Waiting
  <2>3. Drains({})
    BY <2>1, SameWires DEF SessionInv
  <2>4. SessionTypeOK' /\ GreetInv'
    BY <2>1 DEF SessionInv, SessionTypeOK, GreetInv
  <2> QED BY <2>1, <2>2, <2>3, <2>4, NothingNew, KeptRan, CalmInv
<1> QED BY <1>1, <1>2, <1>3, <1>4, <1>5 DEF SessionNext

LEMMA InitInv == ASSUME SessionInit PROVE SessionInv
<1>1. /\ row = [r \in Requests |-> "new"] /\ registered = None /\ conn = [c \in Conns |-> Idle]
      /\ agent = Loose /\ handler = [r \in Requests |-> NoOne] /\ outcome = [r \in Requests |-> "none"]
      /\ journal = << >> /\ queue = << >> /\ faults = 0
  BY DEF SessionInit
<1>2. Idle \in Websockets /\ Idle.state = "free" /\ Idle.toAgent = << >> /\ Idle.toServer = << >>
  BY Empty DEF Idle, Websockets
<1>3. ToSet(<< >>) = {} /\ NoCopies(<< >>)
  BY Empty
<1>4. \A c \in Conns : conn[c] = Idle /\ ToSet(conn[c].toServer) = {} /\ Under(conn[c]) = {}
                       /\ NoCopies(conn[c].toAgent)
  BY <1>1, <1>2, <1>3 DEF Under
<1>5. SessionTypeOK
  <2>1. journal \in BoundedSeq(Requests, JournalMax) /\ queue \in BoundedSeq(Requests, QueueMax)
    <3>1. << >> \in Seq(Requests) /\ Len(<< >>) = 0
      BY Empty
    <3>2. JournalMax \in Nat /\ QueueMax \in Nat /\ Len(<< >>) <= JournalMax /\ Len(<< >>) <= QueueMax
      BY <3>1, AgentSessionAssumption
    <3> QED BY <1>1, <3>1, <3>2, Bounded
  <2> QED BY <1>1, <1>2, <2>1, NoOneHandler, LooseLink, AgentSessionAssumption DEF SessionTypeOK, Handlers
<1>6. PlaceInv
  BY <1>1, <1>4, NoOneHandler DEF PlaceInv, Place, Waiting, Arriving, AtWork, Refused, Ran
<1>7. OnceInv
  BY <1>4 DEF OnceInv
<1>8. ReportInv
  BY <1>1, <1>3, <1>4 DEF ReportInv, ResultVerdicts
<1>9. GreetInv
  BY <1>1, <1>2, LooseLink DEF GreetInv
<1> QED BY <1>5, <1>6, <1>7, <1>8, <1>9 DEF SessionInv

\* The invariant behind both properties: where each command and each verdict is.
THEOREM SessionSafety == SessionSpec => []SessionInv
<1>1. SessionInit => SessionInv
  BY InitInv
<1>2. SessionInv /\ [SessionNext]_session => SessionInv'
  BY NextInv
<1> QED BY <1>1, <1>2, PTL DEF SessionSpec

\* Every state is well-typed: the journal, the queue and the websockets stay within
\* their limits whatever is lost and whoever restarts.
THEOREM SessionTypes == SessionSpec => []SessionTypeOK
<1>1. SessionInv => SessionTypeOK
  BY DEF SessionInv
<1> QED BY <1>1, SessionSafety, PTL

\* A verdict on the control plane is the Result that the executor returned for the
\* action, and a rejected action is not carried out.
THEOREM VerdictIsTheResultHolds == SessionSpec => []VerdictIsTheResult
<1>1. SessionInv => VerdictIsTheResult
  BY DEF SessionInv, PlaceInv, Place, VerdictIsTheResult
<1> QED BY <1>1, SessionSafety, PTL
-----------------------------------------------------------------------------
(***************************************************************************)
(* The session implements ActionVerdicts.                                  *)
(***************************************************************************)

LEMMA WelcomeKeeps ==
  ASSUME NEW c \in Conns, Welcome(c), NEW r \in Requests, row[r] \in Settled
  PROVE  row'[r] = row[r]
<1>1. Recorded(Head(conn[c].toServer).verdicts)[r] = row[r]
  BY DEF Recorded
<1> QED BY <1>1 DEF Welcome, Settled

\* A row that is settled keeps its verdict in every step.
LEMMA SettledStays ==
  ASSUME SessionInv, [SessionNext]_session, NEW r \in Requests, row[r] \in Settled
  PROVE  row'[r] = row[r]
<1>0. row \in [Requests -> {"new", "queued", "sent", "unknown"} \cup Settled]
  BY DEF SessionInv, SessionTypeOK
<1>1. ASSUME NEW q \in Requests, Create(q) \/ Lapse(q) PROVE row'[r] = row[r]
  <2>1. row[q] \notin Settled
    BY <1>1 DEF Create, Lapse, Settled
  <2> QED BY <1>0, <1>1, <2>1 DEF Create, Lapse
<1>2. CASE AgentStep
  BY <1>2 DEF AgentStep, Dial, Authenticate, Drop, Read, SendResult, Acknowledge, Execute, Report, plane
<1>3. ASSUME NEW c \in Conns, Handshake(c) PROVE row'[r] = row[r]
  BY <1>3, WelcomeKeeps DEF Handshake, plane
<1>4. ASSUME NEW c \in Conns, Greet(c) PROVE row'[r] = row[r]
  BY <1>4, WelcomeKeeps DEF Greet
<1>5. ASSUME NEW c \in Conns, Receive(c) PROVE row'[r] = row[r]
  <2> DEFINE m == Head(conn[c].toServer)
  <2>1. \/ row[m.request] = "unknown" /\ row' = [row EXCEPT ![m.request] = "sent"]
        \/ row[m.request] \notin Settled /\ row' = [row EXCEPT ![m.request] = "failed"]
        \/ row' = Recorded(m.verdicts)
        \/ row' = row
    BY <1>5 DEF Receive
  <2>2. Recorded(m.verdicts)[r] = row[r]
    BY DEF Recorded
  <2> HIDE DEF m
  <2>3. "unknown" \notin Settled
    BY DEF Settled
  <2> QED BY <1>0, <2>1, <2>2, <2>3
<1>6. ASSUME NEW c \in Conns, Leave(c) PROVE row'[r] = row[r]
  BY <1>6 DEF Leave, plane, Settled
<1>7. CASE Fault
  BY <1>7 DEF Fault, GiveUp, CrashAgent, CrashServer, Break, plane
<1>8. CASE UNCHANGED session
  BY <1>8 DEF session
<1> QED BY <1>1, <1>2, <1>3, <1>4, <1>5, <1>6, <1>7, <1>8 DEF SessionNext, ServerStep

\* Only a handler that has acknowledged its command gets an executor's answer.
LEMMA OneRuns ==
  ASSUME SessionInv, [SessionNext]_session
  PROVE  \/ UNCHANGED outcome
         \/ \E r \in Requests : Execute(r)
<1>1. CASE \E r \in Requests : Create(r) \/ Lapse(r)
  BY <1>1 DEF Create, Lapse, node
<1>2. CASE AgentStep
  BY <1>2 DEF AgentStep, Dial, Authenticate, Drop, Read, SendResult, Acknowledge, Report
<1>3. CASE ServerStep
  BY <1>3 DEF ServerStep, Handshake, Greet, Receive, Leave, node
<1>4. CASE Fault
  BY <1>4 DEF Fault, GiveUp, CrashAgent, CrashServer, Break, node
<1>5. CASE UNCHANGED session
  BY <1>5 DEF session
<1> QED BY <1>1, <1>2, <1>3, <1>4, <1>5 DEF SessionNext

\* What is declared of r, as the refinement maps it.
Declared(r) == IF row[r] \in Settled THEN row[r] ELSE "open"

LEMMA ExecuteRuns ==
  ASSUME SessionInv, NEW r \in Requests, Execute(r)
  PROVE  Promise!Run(r)
<1>1. handler[r].phase = "executing" /\ row' = row
  BY DEF Execute, plane
<1>2. AtWork(r) /\ Place(r)
  BY <1>1 DEF AtWork, SessionInv, PlaceInv
<1>3. outcome[r] = "none" /\ Declared(r) # "failed"
  BY <1>2 DEF Place, Ran, Declared
<1>4. \E state \in {"succeeded", "failed"} : outcome' = [outcome EXCEPT ![r] = state]
  BY DEF Execute
<1> QED BY <1>1, <1>3, <1>4 DEF Promise!Run, Declared

LEMMA RowsDeclare ==
  ASSUME SessionInv, SessionInv', [SessionNext]_session, UNCHANGED outcome
  PROVE  Promise!Declare
<1>1. ASSUME NEW r \in Requests, Declared(r)' # Declared(r)
      PROVE  Declared(r) = "open" /\ Declared(r)' \in Promise!Declarable(r)
  <2>1. row[r] \notin Settled
    BY <1>1, SettledStays DEF Declared
  <2>2. row'[r] \in Settled /\ Declared(r)' = row'[r] /\ Declared(r) = "open"
    BY <1>1, <2>1 DEF Declared
  <2>3. /\ row'[r] = "succeeded" => outcome[r] = "succeeded"
        /\ row'[r] = "failed" => outcome[r] # "succeeded"
    BY DEF SessionInv, PlaceInv, Place
  <2> QED BY <2>2, <2>3 DEF Settled, Promise!Declarable
<1> QED BY <1>1 DEF Promise!Declare, Declared

\* Every step of the session is one of the promise, or leaves it alone: an action is
\* carried out at most once, never after a verdict of failure, and its one verdict is
\* the executor's or that its time was over.
THEOREM ImplementsActionVerdictsHolds == SessionSpec => ImplementsActionVerdicts
<1>1. SessionInit => Promise!Init
  <2>1. "new" \notin Settled
    BY DEF Settled
  <2> QED BY <2>1 DEF SessionInit, Promise!Init
<1>2. SessionInv /\ SessionInv' /\ [SessionNext]_session => [Promise!Next]_(Promise!vars)
  <2> SUFFICES ASSUME SessionInv, SessionInv', [SessionNext]_session PROVE Promise!Next
    OBVIOUS
  <2> QED BY OneRuns, ExecuteRuns, RowsDeclare DEF Promise!Next
<1> QED BY <1>1, <1>2, SessionSafety, PTL DEF SessionSpec, ImplementsActionVerdicts, Promise!Spec
=============================================================================
