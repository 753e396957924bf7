-------------------------- MODULE EnrollmentProofs --------------------------
(***************************************************************************)
(* For any number of secrets, connections and faults: the registered       *)
(* connection acts under the one active credential (AccessIsCurrent), and  *)
(* no crash, restart or lost connection outside an exchange costs the      *)
(* agent its key (KeyIsKept).                                              *)
(*                                                                         *)
(* EnrollInv adds that a registered connection has a handler (Serving),    *)
(* since a free websocket is reused for another hello and its key would be *)
(* forgotten with it, and that whoever is told of its authentication acts  *)
(* under some key (Keyed).  KeyInv follows a key through an exchange: what *)
(* a token was exchanged for is what its holder is told, and what it then  *)
(* presents is what it finds again after a restart.                        *)
(***************************************************************************)
EXTENDS Enrollment, TLAPS

Serving == registered # None => conn[registered].state \in {"serving", "closed"}

Keyed ==
  /\ \A c \in Conns : conn[c].state = "serving" \/ conn[c].notice = "authenticated" => conn[c].key # None
  /\ agent.phase \in {"waiting", "session"} => agent.link # None

EnrollInv == EnrollTypeOK /\ AccessIsCurrent /\ Serving /\ Keyed

\* AnyOf picks a member.
LEMMA AnyOfMember == \A S : AnyOf(S) \subseteq S
BY DEF AnyOf

LEMMA FreshToken == ASSUME EnrollTypeOK PROVE Fresh(token) \subseteq Tokens
BY AnyOfMember DEF Fresh, EnrollTypeOK

LEMMA FreshCredential == ASSUME EnrollTypeOK PROVE Fresh(credential) \subseteq Credentials
BY AnyOfMember DEF Fresh, EnrollTypeOK

\* A websocket with one field changed is a websocket.
LEMMA WebsocketFields ==
  ASSUME NEW w \in Websockets
  PROVE  /\ \A x \in {"free", "hello", "serving", "closed"} :
              /\ [w EXCEPT !.state = x] \in Websockets
              /\ [w EXCEPT !.state = x].key = w.key
              /\ [w EXCEPT !.state = x].notice = w.notice
              /\ [w EXCEPT !.state = x].state = x
         /\ \A x \in {"none", "denied", "authenticated"} :
              /\ [w EXCEPT !.notice = x] \in Websockets
              /\ [w EXCEPT !.notice = x].key = w.key
              /\ [w EXCEPT !.notice = x].state = w.state
              /\ [w EXCEPT !.notice = x].notice = x
         /\ w.key \in Credentials \cup {None} /\ w.secret \in Secrets \cup {None}
         /\ w.notice \in {"none", "denied", "authenticated"}
BY DEF Websockets

LEMMA IdleIsWebsocket == Idle \in Websockets /\ Idle.state = "free" /\ Idle.notice = "none"
BY DEF Idle, Websockets

\* Closing connections keeps the keys they act under.
LEMMA ClosedKeeps ==
  ASSUME EnrollTypeOK, NEW cs
  PROVE  /\ Closed(cs) \in [Conns -> Websockets]
         /\ \A c \in Conns : /\ Closed(cs)[c].key = conn[c].key
                             /\ Closed(cs)[c].notice = conn[c].notice
                             /\ Closed(cs)[c].state \in {conn[c].state, "closed"}
<1>1. ASSUME NEW c \in Conns
      PROVE  /\ Closed(cs)[c] \in Websockets
             /\ Closed(cs)[c].key = conn[c].key
             /\ Closed(cs)[c].notice = conn[c].notice
             /\ Closed(cs)[c].state \in {conn[c].state, "closed"}
  <2>1. conn[c] \in Websockets
    BY DEF EnrollTypeOK
  <2>2. Closed(cs)[c] = IF c \in cs THEN [conn[c] EXCEPT !.state = "closed"] ELSE conn[c]
    BY DEF Closed
  <2>3. CASE c \in cs
    BY <2>1, <2>2, <2>3 DEF Websockets
  <2>4. CASE c \notin cs
    BY <2>1, <2>2, <2>4
  <2> QED BY <2>3, <2>4
<1>2. Closed(cs) \in [Conns -> Websockets]
  <2>1. Closed(cs) = [c \in Conns |-> Closed(cs)[c]]
    BY DEF Closed
  <2> QED BY <1>1, <2>1
<1> QED BY <1>1, <1>2

\* One websocket changes, the others do not.
LEMMA OneChanges ==
  ASSUME EnrollTypeOK, NEW c \in Conns, NEW w \in Websockets, conn' = [conn EXCEPT ![c] = w]
  PROVE  /\ conn' \in [Conns -> Websockets] /\ conn'[c] = w
         /\ \A d \in Conns : d # c => conn'[d] = conn[d]
<1>1. conn \in [Conns -> Websockets]
  BY DEF EnrollTypeOK
<1> QED BY <1>1

\* What the revocation and the replacement of credentials leave active.
LEMMA RevokedActive ==
  ASSUME EnrollTypeOK
  PROVE  /\ Revoked \in [Credentials -> {"fresh", "active", "revoked"}]
         /\ \A k \in Credentials : Revoked[k] # "active"
         /\ \A k \in Credentials :
              /\ Replaced(k) \in [Credentials -> {"fresh", "active", "revoked"}]
              /\ \A l \in Credentials : Replaced(k)[l] = "active" <=> l = k
BY DEF EnrollTypeOK, Revoked, Replaced

LEMMA InitInv == EnrollInit => EnrollInv
<1> SUFFICES ASSUME EnrollInit PROVE EnrollInv
  OBVIOUS
<1> USE EnrollmentAssumption DEF EnrollInit
<1>1. held \in Tokens
  OBVIOUS
<1>2. conn \in [Conns -> Websockets]
  BY IdleIsWebsocket
<1>3. agent \in Processes
  BY DEF Down, Processes
<1>4. token \in [Tokens -> {"fresh", "open", "spent"}]
  OBVIOUS
<1>5. config \in [file : Secrets \cup {"missing", "blank"}, env : Tokens \cup {None}]
  OBVIOUS
<1>6. held \in Secrets \cup {None}
  BY <1>1 DEF Secrets
<1>7. faults \in 0 .. MaxFaults
  OBVIOUS
<1>8. EnrollTypeOK
  BY <1>2, <1>3, <1>4, <1>5, <1>6, <1>7 DEF EnrollTypeOK
<1>9. AccessIsCurrent /\ Serving
  BY DEF AccessIsCurrent, Serving
<1>10. Keyed
  BY DEF Keyed, Idle, Down
<1> QED BY <1>8, <1>9, <1>10 DEF EnrollInv

-----------------------------------------------------------------------------
(***************************************************************************)
(* The server's steps.                                                     *)
(***************************************************************************)

LEMMA HandshakeInv ==
  ASSUME EnrollInv, NEW c \in Conns, Handshake(c)
  PROVE  EnrollInv'
<1> DEFINE secret == conn[c].secret
<1>1. EnrollTypeOK /\ AccessIsCurrent /\ Serving /\ Keyed /\ conn[c] \in Websockets /\ conn[c].state = "hello"
  BY DEF EnrollInv, EnrollTypeOK, Handshake
<1>2. UNCHANGED <<deleted, agent, config, held, faults>>
  BY DEF Handshake
<1>3. CASE Accepts(secret)
  <2>1. PICK k \in IF secret \in Tokens THEN Fresh(credential) ELSE {secret} :
          /\ IF secret \in Tokens
             THEN credential' = Replaced(k) /\ token' = [token EXCEPT ![secret] = "spent"]
             ELSE UNCHANGED <<credential, token>>
          /\ registered' = c
          /\ conn' = [Closed({registered} \ {None}) EXCEPT ![c] = [@ EXCEPT !.state = "serving", !.key = k]]
    BY <1>3 DEF Handshake
  <2>2. k \in Credentials
    <3>1. CASE secret \in Tokens
      BY <2>1, <3>1, <1>1, FreshCredential
    <3>2. CASE secret \notin Tokens
      BY <2>1, <3>2, <1>3 DEF Accepts
    <3> QED BY <3>1, <3>2
  <2>3. Closed({registered} \ {None}) \in [Conns -> Websockets]
    BY <1>1, ClosedKeeps
  <2>4. conn' \in [Conns -> Websockets] /\ conn'[c].key = k /\ conn'[c].state = "serving"
    BY <2>1, <2>2, <2>3 DEF Websockets
  <2>5. /\ credential' \in [Credentials -> {"fresh", "active", "revoked"}]
        /\ \A l \in Credentials : credential'[l] = "active" <=> l = k
    <3>1. CASE secret \in Tokens
      BY <2>1, <2>2, <3>1, <1>1, RevokedActive
    <3>2. CASE secret \notin Tokens
      <4>1. credential' = credential /\ credential[k] = "active"
        BY <2>1, <3>2, <1>3 DEF Accepts
      <4> QED BY <4>1, <1>1, <2>2 DEF AccessIsCurrent, EnrollTypeOK
    <3> QED BY <3>1, <3>2
  <2>6. token' \in [Tokens -> {"fresh", "open", "spent"}]
    BY <2>1, <1>1 DEF EnrollTypeOK
  <2>7. EnrollTypeOK'
    BY <2>1, <2>4, <2>5, <2>6, <1>1, <1>2 DEF EnrollTypeOK
  <2>8. ~deleted'
    BY <1>3, <1>2 DEF Accepts
  <2>9. AccessIsCurrent'
    BY <2>1, <2>2, <2>4, <2>5, <2>8 DEF AccessIsCurrent
  <2>10. Serving'
    BY <2>1, <2>4 DEF Serving
  <2>11. Keyed'
    <3>1. ASSUME NEW d \in Conns, d # c
          PROVE  conn'[d] = Closed({registered} \ {None})[d]
      BY <2>1, <2>3, <3>1
    <3>2. ASSUME NEW d \in Conns, d # c
          PROVE  conn'[d].key = conn[d].key /\ conn'[d].notice = conn[d].notice
                 /\ conn'[d].state \in {conn[d].state, "closed"}
      BY <3>1, <3>2, <1>1, ClosedKeeps
    <3>3. k # None
      BY <2>2, EnrollmentAssumption
    <3> QED BY <3>2, <3>3, <2>4, <1>1, <1>2 DEF Keyed
  <2> QED BY <2>7, <2>9, <2>10, <2>11 DEF EnrollInv
<1>4. CASE ~Accepts(secret)
  <2>1. /\ conn' = [conn EXCEPT ![c] = [@ EXCEPT !.state = "closed", !.notice = "denied"]]
        /\ UNCHANGED <<token, credential, registered>>
    BY <1>4 DEF Handshake
  <2>2. conn' \in [Conns -> Websockets] /\ \A d \in Conns : d # c => conn'[d] = conn[d]
    BY <2>1, <1>1 DEF EnrollTypeOK, Websockets
  <2>3. registered # c
    BY <1>1, EnrollmentAssumption DEF Serving
  <2>4. EnrollTypeOK'
    BY <2>1, <2>2, <1>1, <1>2 DEF EnrollTypeOK
  <2>5. registered' = registered /\ (registered # None => registered \in Conns /\ conn'[registered] = conn[registered])
    BY <2>1, <2>2, <2>3, <1>1 DEF EnrollTypeOK
  <2>6. AccessIsCurrent' /\ Serving'
    BY <2>1, <2>5, <1>1, <1>2 DEF AccessIsCurrent, Serving
  <2>7. conn'[c].state = "closed" /\ conn'[c].notice = "denied"
    BY <2>1, <1>1 DEF EnrollTypeOK, Websockets
  <2>8. Keyed'
    BY <2>2, <2>7, <1>1, <1>2 DEF Keyed
  <2> QED BY <2>4, <2>6, <2>8 DEF EnrollInv
<1> QED BY <1>3, <1>4

\* A step that leaves the credentials, and keeps the key and the handler of the
\* registered connection, keeps the invariant.
LEMMA ConnsOnly ==
  ASSUME EnrollInv, EnrollTypeOK', Keyed', UNCHANGED <<deleted, credential>>,
         registered' \in {registered, None},
         registered' # None => /\ conn'[registered].key = conn[registered].key
                               /\ conn'[registered].state \in {conn[registered].state, "closed"}
  PROVE  EnrollInv'
<1>1. AccessIsCurrent'
  BY DEF EnrollInv, AccessIsCurrent
<1>2. Serving'
  BY DEF EnrollInv, Serving
<1> QED BY <1>1, <1>2 DEF EnrollInv

LEMMA SendNoticeInv ==
  ASSUME EnrollInv, NEW c \in Conns, SendNotice(c)
  PROVE  EnrollInv'
<1>1. EnrollTypeOK /\ conn[c] \in Websockets
  BY DEF EnrollInv, EnrollTypeOK
<1>2. /\ conn' = [conn EXCEPT ![c] = [conn[c] EXCEPT !.notice = "authenticated"]]
      /\ UNCHANGED <<deleted, token, credential, registered, agent, config, held, faults>>
  BY DEF SendNotice, server
<1>3. conn' \in [Conns -> Websockets] /\ \A d \in Conns : conn'[d].key = conn[d].key /\ conn'[d].state = conn[d].state
  <2>1. LET w == [conn[c] EXCEPT !.notice = "authenticated"]
        IN w \in Websockets /\ w.key = conn[c].key /\ w.state = conn[c].state
    BY <1>1, WebsocketFields
  <2> QED BY <2>1, <1>1, <1>2 DEF EnrollTypeOK
<1>4. EnrollTypeOK'
  BY <1>1, <1>2, <1>3 DEF EnrollTypeOK
<1>5. registered \in Conns \cup {None}
  BY <1>1 DEF EnrollTypeOK
<1>6. Keyed'
  <2>1. conn[c].state = "serving" /\ \A d \in Conns : d # c => conn'[d] = conn[d]
    BY <1>1, <1>2 DEF SendNotice, EnrollTypeOK
  <2> QED BY <2>1, <1>2, <1>3 DEF EnrollInv, Keyed
<1> QED BY <1>2, <1>3, <1>4, <1>5, <1>6, ConnsOnly

LEMMA LeaveInv ==
  ASSUME EnrollInv, NEW c \in Conns, Leave(c)
  PROVE  EnrollInv'
<1>1. EnrollTypeOK /\ conn[c] \in Websockets
  BY DEF EnrollInv, EnrollTypeOK
<1>2. /\ conn' = [conn EXCEPT ![c] = IF agent.link = c THEN [conn[c] EXCEPT !.state = "free"] ELSE Idle]
      /\ registered' = IF registered = c THEN None ELSE registered
      /\ UNCHANGED <<deleted, token, credential, agent, config, held, faults>>
  BY DEF Leave
<1> DEFINE w == IF agent.link = c THEN [conn[c] EXCEPT !.state = "free"] ELSE Idle
<1>w. /\ w \in Websockets /\ w.state = "free"
      /\ w.notice = "authenticated" => w.key = conn[c].key /\ conn[c].notice = "authenticated"
  <2>1. CASE agent.link = c
    BY <2>1, <1>1 DEF Websockets
  <2>2. CASE agent.link # c
    BY <2>2, IdleIsWebsocket
  <2> QED BY <2>1, <2>2
<1>3. /\ conn' \in [Conns -> Websockets] /\ conn'[c] = w
      /\ \A d \in Conns : d # c => conn'[d] = conn[d]
  <2> HIDE DEF w
  <2>1. conn' = [conn EXCEPT ![c] = w]
    BY <1>2 DEF w
  <2> QED BY <1>1, <1>w, <2>1, OneChanges
<1>4. EnrollTypeOK'
  BY <1>1, <1>2, <1>3 DEF EnrollTypeOK
<1>5. registered \in Conns \cup {None}
  BY <1>1 DEF EnrollTypeOK
<1>6. Keyed'
  <2> HIDE DEF w
  <2>1. conn'[c].state = "free" /\ (conn'[c].notice = "authenticated" => conn'[c].key = conn[c].key /\ conn[c].notice = "authenticated")
    BY <1>w, <1>3
  <2>2. Keyed /\ agent' = agent
    BY <1>2 DEF EnrollInv
  <2>3. conn'[c].notice = "authenticated" => conn'[c].key # None
    BY <2>1, <2>2 DEF Keyed
  <2> QED BY <2>1, <2>2, <2>3, <1>3 DEF Keyed
<1> QED BY <1>2, <1>3, <1>4, <1>5, <1>6, ConnsOnly

-----------------------------------------------------------------------------
(***************************************************************************)
(* The administrator's steps.                                              *)
(***************************************************************************)

\* disconnect_node deregisters, and closing keeps the types.
LEMMA DisconnectTypes ==
  ASSUME EnrollTypeOK, Disconnect
  PROVE  /\ registered' = None /\ conn' \in [Conns -> Websockets]
         /\ Keyed /\ UNCHANGED agent => Keyed'
<1>1. registered' = None /\ conn' = Closed({registered} \ {None})
  BY DEF Disconnect
<1> QED BY <1>1, ClosedKeeps DEF Keyed

LEMMA CreateTokenInv == ASSUME EnrollInv, CreateToken PROVE EnrollInv'
<1>1. PICK t \in Fresh(token) :
        /\ token' = [u \in Tokens |-> IF u = t THEN "open" ELSE IF token[u] = "open" THEN "spent" ELSE token[u]]
        /\ held' = t
  BY DEF CreateToken
<1>2. EnrollTypeOK /\ t \in Tokens
  BY <1>1, FreshToken DEF EnrollInv
<1>3. UNCHANGED <<deleted, credential, registered, conn, agent, config, faults>>
  BY DEF CreateToken
<1>4. token' \in [Tokens -> {"fresh", "open", "spent"}] /\ held' \in Secrets
  BY <1>1, <1>2 DEF EnrollTypeOK, Secrets
<1>5. EnrollTypeOK' /\ Keyed'
  BY <1>2, <1>3, <1>4 DEF EnrollTypeOK, EnrollInv, Keyed
<1> QED BY <1>3, <1>5, ConnsOnly

LEMMA RotateInv == ASSUME EnrollInv, RotateCredential PROVE EnrollInv'
<1>1. PICK k \in Fresh(credential) : credential' = Replaced(k) /\ held' = k
  BY DEF RotateCredential
<1>2. EnrollTypeOK /\ k \in Credentials
  BY <1>1, FreshCredential DEF EnrollInv
<1>3. ~deleted /\ UNCHANGED <<deleted, token, agent, config, faults>>
  BY DEF RotateCredential
<1>4. registered' = None /\ conn' \in [Conns -> Websockets]
  BY <1>2, DisconnectTypes DEF RotateCredential
<1>5. /\ credential' \in [Credentials -> {"fresh", "active", "revoked"}]
      /\ \A l \in Credentials : credential'[l] = "active" <=> l = k
  BY <1>1, <1>2, RevokedActive
<1>6. EnrollTypeOK'
  BY <1>1, <1>2, <1>3, <1>4, <1>5 DEF EnrollTypeOK, Secrets
<1>7. AccessIsCurrent' /\ Serving'
  BY <1>3, <1>4, <1>5 DEF AccessIsCurrent, Serving
<1>8. Keyed'
  BY <1>2, <1>3, DisconnectTypes DEF RotateCredential, EnrollInv
<1> QED BY <1>6, <1>7, <1>8 DEF EnrollInv

LEMMA RevokeInv == ASSUME EnrollInv, RevokeCredentials PROVE EnrollInv'
<1>1. EnrollTypeOK
  BY DEF EnrollInv
<1>2. /\ credential' = Revoked /\ deleted' \in BOOLEAN
      /\ UNCHANGED <<token, agent, config, held, faults>>
  BY DEF RevokeCredentials
<1>3. registered' = None /\ conn' \in [Conns -> Websockets]
  BY <1>1, DisconnectTypes DEF RevokeCredentials
<1>4. /\ credential' \in [Credentials -> {"fresh", "active", "revoked"}]
      /\ \A l \in Credentials : credential'[l] # "active"
  BY <1>1, <1>2, RevokedActive
<1>5. EnrollTypeOK'
  BY <1>1, <1>2, <1>3, <1>4 DEF EnrollTypeOK
<1>6. AccessIsCurrent' /\ Serving'
  BY <1>3, <1>4 DEF AccessIsCurrent, Serving
<1>7. Keyed'
  BY <1>1, <1>2, DisconnectTypes DEF RevokeCredentials, EnrollInv
<1> QED BY <1>5, <1>6, <1>7 DEF EnrollInv

LEMMA InstallInv == ASSUME EnrollInv, Install PROVE EnrollInv'
<1>1. EnrollTypeOK /\ agent' = Down /\ held' = None
  BY DEF EnrollInv, Install
<1>2. UNCHANGED <<deleted, token, credential, registered, conn, faults>>
  BY DEF Install, server
<1>3. held \in Secrets
  BY <1>1 DEF Install, EnrollTypeOK
<1>4. config' \in [file : Secrets \cup {"missing", "blank"}, env : Tokens \cup {None}]
  <2>1. CASE config' = [file |-> held, env |-> None]
    BY <1>3, <2>1
  <2>2. CASE held \in Tokens /\ \E file \in {"missing", "blank"} : config' = [file |-> file, env |-> held]
    BY <2>2
  <2> QED BY <2>1, <2>2 DEF Install
<1>5. agent' \in Processes
  BY <1>1 DEF Down, Processes
<1>6. EnrollTypeOK'
  BY <1>1, <1>2, <1>4, <1>5 DEF EnrollTypeOK
<1>7. Keyed'
  BY <1>1, <1>2 DEF EnrollInv, Keyed, Down
<1> QED BY <1>2, <1>6, <1>7, ConnsOnly

LEMMA ExpireInv == ASSUME EnrollInv, NEW t \in Tokens, Expire(t) PROVE EnrollInv'
<1>1. EnrollTypeOK /\ token' = [token EXCEPT ![t] = "spent"]
  BY DEF EnrollInv, Expire
<1>2. UNCHANGED <<deleted, credential, registered, conn, agent, config, held, faults>>
  BY DEF Expire
<1>3. EnrollTypeOK' /\ Keyed'
  BY <1>1, <1>2 DEF EnrollTypeOK, EnrollInv, Keyed
<1> QED BY <1>2, <1>3, ConnsOnly

-----------------------------------------------------------------------------
(***************************************************************************)
(* The agent's steps.                                                      *)
(***************************************************************************)

LEMMA StartInv == ASSUME EnrollInv, Start PROVE EnrollInv'
<1>1. EnrollTypeOK /\ UNCHANGED <<deleted, token, credential, registered, conn, config, held, faults>>
  BY DEF EnrollInv, Start, server
<1>2. Loaded \in Secrets \cup {None}
  BY <1>1 DEF Loaded, EnrollTypeOK, Secrets
<1>3. agent' \in Processes
  BY <1>2 DEF Start, Processes
<1>4. EnrollTypeOK'
  BY <1>1, <1>3 DEF EnrollTypeOK
<1>5. Keyed'
  BY <1>1 DEF Start, EnrollInv, Keyed
<1> QED BY <1>1, <1>4, <1>5, ConnsOnly

LEMMA DialInv == ASSUME EnrollInv, NEW c \in Conns, Dial(c) PROVE EnrollInv'
<1>1. EnrollTypeOK /\ UNCHANGED <<deleted, token, credential, registered, config, held, faults>>
  BY DEF EnrollInv, Dial, server
<1>2. /\ agent' = [agent EXCEPT !.phase = "waiting", !.link = c]
      /\ conn' = [conn EXCEPT ![c] = [Idle EXCEPT !.state = "hello", !.secret = agent.secret]]
  BY DEF Dial
<1>3. conn[c].state = "free"
  BY AnyOfMember DEF Dial
<1>4. agent' \in Processes /\ agent.secret \in Secrets \cup {None}
  BY <1>1, <1>2 DEF EnrollTypeOK, Processes
<1>5. [Idle EXCEPT !.state = "hello", !.secret = agent.secret] \in Websockets
  BY <1>4 DEF Idle, Websockets
<1>6. conn' \in [Conns -> Websockets] /\ \A d \in Conns : d # c => conn'[d] = conn[d]
  BY <1>1, <1>2, <1>5 DEF EnrollTypeOK
<1>7. EnrollTypeOK'
  BY <1>1, <1>4, <1>6 DEF EnrollTypeOK
<1>8. registered # c /\ registered \in Conns \cup {None}
  BY <1>1, <1>3, EnrollmentAssumption DEF EnrollInv, Serving, EnrollTypeOK
<1>9. Keyed'
  <2>1. conn'[c].state = "hello" /\ conn'[c].notice = "none" /\ agent'.link = c
    BY <1>1, <1>2 DEF EnrollTypeOK, Idle, Processes
  <2> QED BY <2>1, <1>6, EnrollmentAssumption DEF EnrollInv, Keyed
<1> QED BY <1>1, <1>6, <1>7, <1>8, <1>9, ConnsOnly

LEMMA ResumeInv == ASSUME EnrollInv, Resume PROVE EnrollInv'
<1>1. EnrollTypeOK /\ UNCHANGED <<deleted, token, credential, registered, conn, config, held, faults>>
  BY DEF EnrollInv, Resume, server
<1>2. agent' \in Processes
  BY <1>1 DEF Resume, EnrollTypeOK, Processes
<1>3. EnrollTypeOK'
  BY <1>1, <1>2 DEF EnrollTypeOK
<1>4. Keyed'
  BY <1>1 DEF Resume, EnrollInv, Keyed, EnrollTypeOK, Processes
<1> QED BY <1>1, <1>3, <1>4, ConnsOnly
LEMMA EnrollStepInv == ASSUME EnrollInv, Enroll PROVE EnrollInv'
<1> DEFINE c == agent.link
<1>1. EnrollTypeOK /\ Keyed /\ UNCHANGED <<deleted, token, credential, registered, conn, held>>
  BY DEF EnrollInv, Enroll, server
<1>2. CASE /\ config' = Persisted(conn[c].key)
           /\ agent' = [agent EXCEPT !.phase = "session", !.secret = conn[c].key]
           /\ UNCHANGED faults
  <2>1. c \in Conns /\ conn[c].notice = "authenticated"
    BY <1>1 DEF Enroll, Keyed, EnrollTypeOK, Processes
  <2>2. conn[c].key \in Credentials
    <3>1. conn[c] \in Websockets /\ conn[c].key # None
      BY <2>1, <1>1 DEF Keyed, EnrollTypeOK
    <3> QED BY <3>1 DEF Websockets
  <2>3. agent' \in Processes /\ agent'.link = c
    BY <1>1, <1>2, <2>2 DEF EnrollTypeOK, Processes, Secrets
  <2>4. config' \in [file : Secrets \cup {"missing", "blank"}, env : Tokens \cup {None}]
    BY <1>1, <1>2, <2>2 DEF EnrollTypeOK, Persisted, Secrets
  <2>5. EnrollTypeOK'
    BY <1>1, <1>2, <2>3, <2>4 DEF EnrollTypeOK
  <2>6. Keyed'
    BY <1>1, <2>1, <2>3, EnrollmentAssumption DEF Keyed
  <2> QED BY <1>1, <2>5, <2>6, ConnsOnly
<1>3. CASE /\ config.file = "missing" \/ faults < MaxFaults
           /\ faults' = IF config.file = "missing" THEN faults ELSE faults + 1
           /\ agent' = [agent EXCEPT !.phase = "idle", !.link = None]
           /\ UNCHANGED config
  <2>1. agent' \in Processes /\ agent'.phase = "idle"
    BY <1>1, <1>3 DEF EnrollTypeOK, Processes
  <2>2. faults' \in 0 .. MaxFaults
    BY <1>1, <1>3, EnrollmentAssumption DEF EnrollTypeOK
  <2>3. EnrollTypeOK'
    BY <1>1, <1>3, <2>1, <2>2 DEF EnrollTypeOK
  <2>4. Keyed'
    BY <1>1, <2>1 DEF Keyed
  <2> QED BY <1>1, <2>3, <2>4, ConnsOnly
<1> QED BY <1>2, <1>3 DEF Enroll

LEMMA DropInv == ASSUME EnrollInv, Drop PROVE EnrollInv'
<1> DEFINE c == agent.link
<1>1. /\ EnrollTypeOK /\ Keyed /\ c # None
      /\ agent' = [agent EXCEPT !.phase = "idle", !.link = None]
      /\ UNCHANGED <<deleted, token, credential, registered, config, held, faults>>
  BY DEF EnrollInv, Drop, server
<1>c. conn' = [conn EXCEPT ![c] = IF conn[c].state = "free" THEN Idle ELSE conn[c]]
  BY DEF Drop
<1>2. c \in Conns
  BY <1>1 DEF EnrollTypeOK, Processes
<1>3. agent' \in Processes /\ agent'.phase = "idle"
  BY <1>1 DEF EnrollTypeOK, Processes
<1> HIDE DEF c
<1>4. /\ conn' \in [Conns -> Websockets]
      /\ \A d \in Conns : conn'[d] = conn[d] \/ (conn'[d] = Idle /\ conn[d].state = "free")
  <2>1. CASE conn[c].state = "free"
    <3>1. conn' = [conn EXCEPT ![c] = Idle]
      BY <2>1, <1>c
    <3>2. conn' \in [Conns -> Websockets] /\ conn'[c] = Idle /\ \A d \in Conns : d # c => conn'[d] = conn[d]
      BY <3>1, <1>1, <1>2, IdleIsWebsocket, OneChanges
    <3> QED BY <2>1, <3>2
  <2>2. CASE conn[c].state # "free"
    <3>1. conn' = [conn EXCEPT ![c] = conn[c]]
      BY <2>2, <1>c
    <3>2. conn[c] \in Websockets
      BY <1>1, <1>2 DEF EnrollTypeOK
    <3>3. conn' \in [Conns -> Websockets] /\ conn'[c] = conn[c] /\ \A d \in Conns : d # c => conn'[d] = conn[d]
      BY <3>1, <3>2, <1>1, <1>2, OneChanges
    <3> QED BY <3>3
  <2> QED BY <2>1, <2>2
<1>5. EnrollTypeOK'
  BY <1>1, <1>3, <1>4 DEF EnrollTypeOK
<1>6. Keyed'
  BY <1>1, <1>3, <1>4, IdleIsWebsocket DEF Keyed
<1>7. registered # None => registered \in Conns /\ conn'[registered] = conn[registered]
  BY <1>1, <1>4 DEF EnrollInv, Serving, EnrollTypeOK
<1> QED BY <1>1, <1>5, <1>6, <1>7, ConnsOnly

-----------------------------------------------------------------------------
(***************************************************************************)
(* Faults, and the theorem.                                                *)
(***************************************************************************)

LEMMA FaultInv == ASSUME EnrollInv, Fault PROVE EnrollInv'
<1>1. EnrollTypeOK /\ Keyed /\ faults' \in 0 .. MaxFaults
  BY EnrollmentAssumption DEF EnrollInv, EnrollTypeOK, Fault
<1>2. CASE CrashAgent
  <2>1. /\ agent' = Down
        /\ UNCHANGED <<deleted, token, credential, registered, conn, config, held>>
    BY <1>2 DEF CrashAgent, server
  <2>2. agent' \in Processes /\ agent'.phase = "down"
    BY <2>1 DEF Down, Processes
  <2>3. EnrollTypeOK' /\ Keyed'
    BY <1>1, <2>1, <2>2 DEF EnrollTypeOK, Keyed
  <2> QED BY <2>1, <2>3, ConnsOnly
<1>3. CASE CrashServer
  <2>1. /\ registered' = None
        /\ UNCHANGED <<deleted, token, credential, agent, config, held>>
    BY <1>3 DEF CrashServer
  <2>2. PICK cs \in SUBSET Conns :
          conn' = [c \in Conns |-> IF c \in cs THEN [conn[c] EXCEPT !.state = "free"]
                                   ELSE [conn[c] EXCEPT !.state = "free", !.notice = "none"]]
    BY <1>3 DEF CrashServer
  <2>3. ASSUME NEW c \in Conns
        PROVE  /\ conn'[c] \in Websockets /\ conn'[c].key = conn[c].key /\ conn'[c].state = "free"
               /\ conn'[c].notice \in {conn[c].notice, "none"}
    <3>1. conn[c] \in Websockets
      BY <1>1 DEF EnrollTypeOK
    <3>2. CASE c \in cs
      BY <2>2, <3>1, <3>2 DEF Websockets
    <3>3. CASE c \notin cs
      BY <2>2, <3>1, <3>3 DEF Websockets
    <3> QED BY <3>2, <3>3
  <2>4. conn' \in [Conns -> Websockets]
    BY <2>2, <2>3
  <2>5. EnrollTypeOK'
    BY <1>1, <2>1, <2>4 DEF EnrollTypeOK
  <2>6. Keyed'
    BY <1>1, <2>1, <2>3 DEF Keyed
  <2> QED BY <2>1, <2>5, <2>6, ConnsOnly
<1>4. CASE \E c \in Conns : Break(c)
  <2>1. PICK c \in Conns : Break(c)
    BY <1>4
  <2>2. PICK notice \in {"none", conn[c].notice} :
          conn' = [conn EXCEPT ![c] = [conn[c] EXCEPT !.state = "closed", !.notice = notice]]
    BY <2>1 DEF Break
  <2>3. UNCHANGED <<deleted, token, credential, registered, agent, config, held>>
    BY <2>1 DEF Break, server
  <2>4. conn[c] \in Websockets
    BY <1>1 DEF EnrollTypeOK
  <2>5. LET w == [conn[c] EXCEPT !.state = "closed", !.notice = notice]
        IN /\ w \in Websockets /\ w.key = conn[c].key /\ w.state = "closed"
           /\ w.notice \in {"none", conn[c].notice}
    BY <2>4 DEF Websockets
  <2>6. /\ conn' \in [Conns -> Websockets]
        /\ \A d \in Conns : /\ conn'[d].key = conn[d].key /\ conn'[d].state \in {conn[d].state, "closed"}
                             /\ conn'[d].notice \in {"none", conn[d].notice}
    BY <1>1, <2>2, <2>5 DEF EnrollTypeOK
  <2>7. EnrollTypeOK'
    BY <1>1, <2>3, <2>6 DEF EnrollTypeOK
  <2>8. Keyed'
    BY <1>1, <2>3, <2>6 DEF Keyed
  <2>9. registered \in Conns \cup {None}
    BY <1>1 DEF EnrollTypeOK
  <2> QED BY <2>3, <2>6, <2>7, <2>8, <2>9, ConnsOnly
<1> QED BY <1>2, <1>3, <1>4 DEF Fault

LEMMA NextInv == EnrollInv /\ [EnrollNext]_enrolling => EnrollInv'
<1> SUFFICES ASSUME EnrollInv, [EnrollNext]_enrolling PROVE EnrollInv'
  OBVIOUS
<1>1. CASE Administration
  BY <1>1, CreateTokenInv, RotateInv, RevokeInv, InstallInv DEF Administration
<1>2. CASE Start \/ Resume \/ Enroll \/ Drop
  BY <1>2, StartInv, ResumeInv, EnrollStepInv, DropInv
<1>3. CASE \E c \in Conns : Dial(c) \/ Handshake(c) \/ SendNotice(c) \/ Leave(c)
  BY <1>3, DialInv, HandshakeInv, SendNoticeInv, LeaveInv
<1>4. CASE UNCHANGED enrolling
  BY <1>4 DEF enrolling, EnrollInv, EnrollTypeOK, AccessIsCurrent, Serving, Keyed
<1>5. CASE \E t \in Tokens : Expire(t)
  BY <1>5, ExpireInv
<1> QED BY <1>1, <1>2, <1>3, <1>4, <1>5, FaultInv DEF EnrollNext

\* Whatever the administrators, the agent and the faults do, the types hold and the
\* connection in service acts under the one active credential of a node that exists.
THEOREM EnrollSafety == EnrollSpec => []EnrollInv
<1> QED BY InitInv, NextInv, PTL DEF EnrollSpec

\* The types, for every number of secrets and connections.
THEOREM EnrollTypes == EnrollSpec => []EnrollTypeOK
<1>1. EnrollInv => EnrollTypeOK
  BY DEF EnrollInv
<1> QED BY <1>1, EnrollSafety, PTL

\* No rotation, revocation, deletion or second registration leaves a connection in
\* service under an older key.
THEOREM AccessFollowsCredentials == EnrollSpec => []AccessIsCurrent
<1>1. EnrollInv => AccessIsCurrent
  BY DEF EnrollInv
<1> QED BY <1>1, EnrollSafety, PTL

-----------------------------------------------------------------------------
(***************************************************************************)
(* An agent keeps its key: what it presents is what it will find again, a  *)
(* token that was exchanged stays spent, and a hello that waits for its    *)
(* answer has no key yet.                                                  *)
(***************************************************************************)

Exchanged ==
  \A c \in Conns : conn[c].key # None /\ conn[c].secret \in Tokens => token[conn[c].secret] = "spent"

Hellos ==
  \A c \in Conns : conn[c].state = "hello" => conn[c].key = None /\ conn[c].notice # "authenticated"

Linked ==
  /\ agent.phase \in {"down", "idle"} => agent.link = None
  /\ agent.phase = "waiting" => conn[agent.link].secret = agent.secret
  /\ agent.phase = "session" => conn[agent.link].state # "hello"

Stored == agent.phase # "down" /\ config.env = None => agent.secret = config.file /\ config.file \in Secrets

KeyInv == EnrollInv /\ Exchanged /\ Hellos /\ Linked /\ Stored

\* What a step does to a websocket: it is put away, goes on, is let in, or is dialled.
Moves(c) ==
  \/ conn'[c] = Idle
  \/ /\ conn'[c].secret = conn[c].secret /\ conn'[c].key = conn[c].key
     /\ conn'[c].state \in {conn[c].state, "closed", "free"}
     /\ conn'[c].notice = "authenticated" => conn[c].notice = "authenticated" \/ conn[c].state = "serving"
  \/ /\ conn'[c].secret = conn[c].secret /\ conn'[c].state = "serving"
     /\ conn[c].secret \in Tokens => token'[conn[c].secret] = "spent"
  \/ conn'[c].state = "hello" /\ conn'[c].key = None /\ conn'[c].notice = "none"

SpentStays == \A t \in Tokens : token[t] = "spent" => token'[t] = "spent"

LEMMA MovesInv ==
  ASSUME Exchanged, Hellos, SpentStays, \A c \in Conns : Moves(c)
  PROVE  Exchanged' /\ Hellos'
<1>1. Idle.key = None /\ Idle.state = "free"
  BY DEF Idle
<1>2. ASSUME NEW c \in Conns
      PROVE  /\ conn'[c].key # None /\ conn'[c].secret \in Tokens => token'[conn'[c].secret] = "spent"
             /\ conn'[c].state = "hello" => conn'[c].key = None /\ conn'[c].notice # "authenticated"
  <2>1. CASE conn'[c] = Idle
    BY <1>1, <2>1
  <2>2. CASE /\ conn'[c].secret = conn[c].secret /\ conn'[c].key = conn[c].key
             /\ conn'[c].state \in {conn[c].state, "closed", "free"}
             /\ conn'[c].notice = "authenticated" => conn[c].notice = "authenticated" \/ conn[c].state = "serving"
    BY <2>2 DEF Exchanged, Hellos, SpentStays
  <2>3. CASE /\ conn'[c].secret = conn[c].secret /\ conn'[c].state = "serving"
             /\ conn[c].secret \in Tokens => token'[conn[c].secret] = "spent"
    BY <2>3
  <2>4. CASE conn'[c].state = "hello" /\ conn'[c].key = None /\ conn'[c].notice = "none"
    BY <2>4
  <2> QED BY <2>1, <2>2, <2>3, <2>4 DEF Moves
<1> QED BY <1>2 DEF Exchanged, Hellos

\* The server's steps leave the agent's websocket to it, and its secret.
LEMMA ServerMoves ==
  ASSUME KeyInv, EnrollInv', SpentStays, UNCHANGED <<agent, config>>, \A c \in Conns : Moves(c),
         \A c \in Conns : c = agent.link => /\ conn'[c].secret = conn[c].secret
                                            /\ conn'[c].state \in {conn[c].state, "serving", "closed", "free"}
  PROVE  KeyInv'
<1>1. Exchanged' /\ Hellos'
  BY MovesInv DEF KeyInv
<1>2. agent.phase \in {"waiting", "session"} => agent.link \in Conns
  BY DEF KeyInv, EnrollInv, EnrollTypeOK, Processes, Keyed
<1>3. Linked'
  BY <1>2 DEF KeyInv, Linked
<1>4. Stored'
  BY DEF KeyInv, Stored
<1> QED BY <1>1, <1>3, <1>4 DEF KeyInv

\* Websockets that stay as they are.
LEMMA SameMoves == ASSUME conn' = conn PROVE \A c \in Conns : Moves(c)
BY DEF Moves

LEMMA FreshIsFresh == \A t \in Fresh(token) : token[t] = "fresh"
BY AnyOfMember DEF Fresh

LEMMA ClosedSecrets ==
  ASSUME EnrollTypeOK, NEW cs, NEW c \in Conns
  PROVE  Closed(cs)[c].secret = conn[c].secret
<1>1. conn[c] \in Websockets
  BY DEF EnrollTypeOK
<1>2. Closed(cs)[c] = IF c \in cs THEN [conn[c] EXCEPT !.state = "closed"] ELSE conn[c]
  BY DEF Closed
<1>3. CASE c \in cs
  BY <1>1, <1>2, <1>3 DEF Websockets
<1>4. CASE c \notin cs
  BY <1>2, <1>4
<1> QED BY <1>3, <1>4

LEMMA ClosedMoves ==
  ASSUME EnrollTypeOK, NEW cs, conn' = Closed(cs), NEW c \in Conns
  PROVE  Moves(c) /\ conn'[c].secret = conn[c].secret /\ conn'[c].state \in {conn[c].state, "closed"}
BY ClosedKeeps, ClosedSecrets DEF Moves

LEMMA HandshakeKey == ASSUME KeyInv, NEW c \in Conns, Handshake(c) PROVE KeyInv'
<1> DEFINE secret == conn[c].secret
<1>1. EnrollInv' /\ EnrollTypeOK /\ conn[c] \in Websockets /\ conn[c].state = "hello"
      /\ UNCHANGED <<agent, config>>
  BY HandshakeInv DEF KeyInv, EnrollInv, EnrollTypeOK, Handshake
<1>2. CASE Accepts(secret)
  <2>1. PICK k \in IF secret \in Tokens THEN Fresh(credential) ELSE {secret} :
          /\ IF secret \in Tokens
             THEN credential' = Replaced(k) /\ token' = [token EXCEPT ![secret] = "spent"]
             ELSE UNCHANGED <<credential, token>>
          /\ registered' = c
          /\ conn' = [Closed({registered} \ {None}) EXCEPT ![c] = [@ EXCEPT !.state = "serving", !.key = k]]
    BY <1>2 DEF Handshake
  <2>2. SpentStays /\ (secret \in Tokens => token'[secret] = "spent")
    BY <2>1, <1>1 DEF SpentStays, EnrollTypeOK
  <2> DEFINE closed == Closed({registered} \ {None})
  <2>3. closed \in [Conns -> Websockets] /\ closed[c].secret = secret
    BY <1>1, ClosedKeeps, ClosedSecrets
  <2> DEFINE w == [closed[c] EXCEPT !.state = "serving", !.key = k]
  <2>4. conn' = [closed EXCEPT ![c] = w]
    BY <2>1
  <2> HIDE DEF closed
  <2>5. w.secret = secret /\ w.state = "serving"
    BY <2>3 DEF Websockets
  <2> HIDE DEF w
  <2>6. conn'[c] = w /\ \A d \in Conns : d # c => conn'[d] = closed[d]
    BY <2>3, <2>4
  <2>7. ASSUME NEW d \in Conns, d # c
        PROVE  /\ conn'[d].key = conn[d].key /\ conn'[d].notice = conn[d].notice
               /\ conn'[d].state \in {conn[d].state, "closed"} /\ conn'[d].secret = conn[d].secret
    BY <1>1, <2>6, <2>7, ClosedKeeps, ClosedSecrets DEF closed
  <2>8. \A d \in Conns : Moves(d)
    BY <2>2, <2>5, <2>6, <2>7 DEF Moves
  <2>9. \A d \in Conns : /\ conn'[d].secret = conn[d].secret
                         /\ conn'[d].state \in {conn[d].state, "serving", "closed", "free"}
    BY <2>5, <2>6, <2>7
  <2> QED BY <1>1, <2>2, <2>8, <2>9, ServerMoves
<1>3. CASE ~Accepts(secret)
  <2>1. /\ conn' = [conn EXCEPT ![c] = [conn[c] EXCEPT !.state = "closed", !.notice = "denied"]]
        /\ UNCHANGED token
    BY <1>3 DEF Handshake
  <2> DEFINE w == [conn[c] EXCEPT !.state = "closed", !.notice = "denied"]
  <2>2. w \in Websockets /\ w.secret = secret /\ w.key = conn[c].key /\ w.state = "closed" /\ w.notice = "denied"
    BY <1>1 DEF Websockets
  <2>3. conn' = [conn EXCEPT ![c] = w]
    BY <2>1
  <2> HIDE DEF w
  <2>4. conn'[c] = w /\ \A d \in Conns : d # c => conn'[d] = conn[d]
    BY <1>1, <2>2, <2>3, OneChanges
  <2>5. \A d \in Conns : Moves(d)
    BY <2>2, <2>4 DEF Moves
  <2>6. \A d \in Conns : /\ conn'[d].secret = conn[d].secret
                         /\ conn'[d].state \in {conn[d].state, "serving", "closed", "free"}
    BY <2>2, <2>4
  <2>7. SpentStays
    BY <2>1 DEF SpentStays
  <2> QED BY <1>1, <2>5, <2>6, <2>7, ServerMoves
<1> QED BY <1>2, <1>3

LEMMA SendNoticeKey == ASSUME KeyInv, NEW c \in Conns, SendNotice(c) PROVE KeyInv'
<1> DEFINE w == [conn[c] EXCEPT !.notice = "authenticated"]
<1>1. /\ EnrollInv' /\ EnrollTypeOK /\ conn[c] \in Websockets /\ conn[c].state = "serving"
      /\ conn' = [conn EXCEPT ![c] = w] /\ UNCHANGED <<token, agent, config>>
  BY SendNoticeInv DEF KeyInv, EnrollInv, EnrollTypeOK, SendNotice, server
<1>2. w \in Websockets /\ w.secret = conn[c].secret /\ w.key = conn[c].key /\ w.state = conn[c].state
  BY <1>1 DEF Websockets
<1> HIDE DEF w
<1>3. conn'[c] = w /\ \A d \in Conns : d # c => conn'[d] = conn[d]
  BY <1>1, <1>2, OneChanges
<1>4. \A d \in Conns : Moves(d)
  BY <1>1, <1>2, <1>3 DEF Moves
<1>5. \A d \in Conns : /\ conn'[d].secret = conn[d].secret
                       /\ conn'[d].state \in {conn[d].state, "serving", "closed", "free"}
  BY <1>2, <1>3
<1>6. SpentStays
  BY <1>1 DEF SpentStays
<1> QED BY <1>1, <1>4, <1>5, <1>6, ServerMoves

LEMMA LeaveKey == ASSUME KeyInv, NEW c \in Conns, Leave(c) PROVE KeyInv'
<1> DEFINE w == IF agent.link = c THEN [conn[c] EXCEPT !.state = "free"] ELSE Idle
<1>1. /\ EnrollInv' /\ EnrollTypeOK /\ conn[c] \in Websockets
      /\ conn' = [conn EXCEPT ![c] = w] /\ UNCHANGED <<token, agent, config>>
  BY LeaveInv DEF KeyInv, EnrollInv, EnrollTypeOK, Leave
<1>2. /\ w \in Websockets
      /\ agent.link # c => w = Idle
      /\ agent.link = c => /\ w.secret = conn[c].secret /\ w.key = conn[c].key /\ w.state = "free"
                           /\ w.notice = conn[c].notice
  <2>1. CASE agent.link = c
    BY <1>1, <2>1 DEF Websockets
  <2>2. CASE agent.link # c
    BY <2>2, IdleIsWebsocket
  <2> QED BY <2>1, <2>2
<1> HIDE DEF w
<1>3. conn'[c] = w /\ \A d \in Conns : d # c => conn'[d] = conn[d]
  BY <1>1, <1>2, OneChanges
<1>4. \A d \in Conns : Moves(d)
  BY <1>2, <1>3 DEF Moves
<1>5. \A d \in Conns : d = agent.link => /\ conn'[d].secret = conn[d].secret
                                         /\ conn'[d].state \in {conn[d].state, "serving", "closed", "free"}
  BY <1>2, <1>3
<1>6. SpentStays
  BY <1>1 DEF SpentStays
<1> QED BY <1>1, <1>4, <1>5, <1>6, ServerMoves

LEMMA AdministrationKey == ASSUME KeyInv, Administration PROVE KeyInv'
<1>1. EnrollInv' /\ EnrollTypeOK
  BY CreateTokenInv, RotateInv, RevokeInv, InstallInv DEF Administration, KeyInv, EnrollInv
<1>2. CASE CreateToken
  <2>1. PICK t \in Fresh(token) :
          token' = [u \in Tokens |-> IF u = t THEN "open" ELSE IF token[u] = "open" THEN "spent" ELSE token[u]]
    BY <1>2 DEF CreateToken
  <2>2. token[t] = "fresh" /\ UNCHANGED <<conn, agent, config>>
    BY <1>2, FreshIsFresh DEF CreateToken
  <2>3. SpentStays
    BY <2>1, <2>2 DEF SpentStays
  <2> QED BY <1>1, <2>2, <2>3, SameMoves, ServerMoves
<1>3. CASE RotateCredential \/ RevokeCredentials
  <2>1. conn' = Closed({registered} \ {None}) /\ UNCHANGED <<token, agent, config>>
    BY <1>3 DEF RotateCredential, RevokeCredentials, Disconnect
  <2>2. SpentStays
    BY <2>1 DEF SpentStays
  <2>3. \A c \in Conns : /\ Moves(c) /\ conn'[c].secret = conn[c].secret
                         /\ conn'[c].state \in {conn[c].state, "serving", "closed", "free"}
    BY <1>1, <2>1, ClosedMoves
  <2> QED BY <1>1, <2>1, <2>2, <2>3, ServerMoves
<1>4. CASE Install
  <2>1. agent' = Down /\ UNCHANGED <<token, conn>>
    BY <1>4 DEF Install, server
  <2>2. agent'.phase = "down" /\ agent'.link = None
    BY <2>1 DEF Down
  <2>3. Exchanged' /\ Hellos'
    BY <2>1 DEF KeyInv, Exchanged, Hellos
  <2> QED BY <1>1, <2>2, <2>3 DEF KeyInv, Linked, Stored
<1> QED BY <1>2, <1>3, <1>4 DEF Administration

LEMMA ExpireKey == ASSUME KeyInv, NEW t \in Tokens, Expire(t) PROVE KeyInv'
<1>1. EnrollInv' /\ EnrollTypeOK /\ token' = [token EXCEPT ![t] = "spent"] /\ UNCHANGED <<conn, agent, config>>
  BY ExpireInv DEF KeyInv, EnrollInv, Expire
<1>2. SpentStays
  BY <1>1 DEF SpentStays, EnrollTypeOK
<1> QED BY <1>1, <1>2, SameMoves, ServerMoves

\* The agent's own steps: websockets and tokens stay, or one websocket is dialled or put away.
LEMMA AgentMoves ==
  ASSUME KeyInv, EnrollInv', UNCHANGED token, \A c \in Conns : Moves(c), Linked', Stored'
  PROVE  KeyInv'
<1>1. SpentStays
  BY DEF SpentStays
<1> QED BY <1>1, MovesInv DEF KeyInv

LEMMA StartKey == ASSUME KeyInv, Start PROVE KeyInv'
<1>1. /\ EnrollInv' /\ Loaded # None /\ agent' = [phase |-> "idle", secret |-> Loaded, link |-> None]
      /\ UNCHANGED <<token, conn, config>>
  BY StartInv DEF KeyInv, Start, server
<1>2. config'.env = None => Loaded = config'.file /\ config'.file \in Secrets
  BY <1>1 DEF Loaded
<1>3. agent'.phase = "idle" /\ agent'.secret = Loaded /\ agent'.link = None
  BY <1>1
<1>4. Linked' /\ Stored'
  BY <1>2, <1>3 DEF Linked, Stored
<1> QED BY <1>1, <1>4, SameMoves, AgentMoves

LEMMA DialKey == ASSUME KeyInv, NEW c \in Conns, Dial(c) PROVE KeyInv'
<1> DEFINE w == [Idle EXCEPT !.state = "hello", !.secret = agent.secret]
<1>1. /\ EnrollInv' /\ EnrollTypeOK /\ agent.phase = "idle"
      /\ agent' = [agent EXCEPT !.phase = "waiting", !.link = c] /\ conn' = [conn EXCEPT ![c] = w]
      /\ UNCHANGED <<token, config>>
  BY DialInv DEF KeyInv, EnrollInv, Dial, server
<1>2. agent \in Processes /\ agent.secret \in Secrets \cup {None}
  BY <1>1 DEF EnrollTypeOK, Processes
<1>3. w \in Websockets /\ w.state = "hello" /\ w.key = None /\ w.notice = "none" /\ w.secret = agent.secret
  BY <1>2 DEF Idle, Websockets
<1> HIDE DEF w
<1>4. conn'[c] = w /\ \A d \in Conns : d # c => conn'[d] = conn[d]
  BY <1>1, <1>3, OneChanges
<1>5. agent'.phase = "waiting" /\ agent'.link = c /\ agent'.secret = agent.secret
  BY <1>1, <1>2 DEF Processes
<1>6. \A d \in Conns : Moves(d)
  BY <1>3, <1>4 DEF Moves
<1>7. Linked' /\ Stored'
  BY <1>1, <1>3, <1>4, <1>5 DEF KeyInv, Linked, Stored
<1> QED BY <1>1, <1>6, <1>7, AgentMoves

LEMMA ResumeKey == ASSUME KeyInv, Resume PROVE KeyInv'
<1>1. /\ EnrollInv' /\ EnrollTypeOK /\ agent.phase = "waiting" /\ conn[agent.link].notice = "authenticated"
      /\ agent' = [agent EXCEPT !.phase = "session"] /\ UNCHANGED <<token, conn, config>>
  BY ResumeInv DEF KeyInv, EnrollInv, Resume, server
<1>2. agent.link \in Conns /\ agent \in Processes
  BY <1>1 DEF KeyInv, EnrollInv, EnrollTypeOK, Processes, Keyed
<1>3. agent'.phase = "session" /\ agent'.link = agent.link /\ agent'.secret = agent.secret
  BY <1>1, <1>2 DEF Processes
<1>4. Linked' /\ Stored'
  BY <1>1, <1>2, <1>3 DEF KeyInv, Linked, Stored, Hellos
<1> QED BY <1>1, <1>4, SameMoves, AgentMoves

LEMMA EnrollKey == ASSUME KeyInv, Enroll PROVE KeyInv'
<1> DEFINE key == conn[agent.link].key
<1>1. /\ EnrollInv' /\ EnrollTypeOK /\ agent.phase = "waiting" /\ conn[agent.link].notice = "authenticated"
      /\ UNCHANGED <<token, conn>>
      /\ \/ config' = Persisted(key) /\ agent' = [agent EXCEPT !.phase = "session", !.secret = key]
         \/ agent' = [agent EXCEPT !.phase = "idle", !.link = None] /\ UNCHANGED config
  BY EnrollStepInv DEF KeyInv, EnrollInv, Enroll, server
<1>2. agent.link \in Conns /\ agent \in Processes
  BY <1>1 DEF KeyInv, EnrollInv, EnrollTypeOK, Processes, Keyed
<1>3. key \in Credentials
  <2>1. conn[agent.link] \in Websockets /\ key # None
    BY <1>1, <1>2 DEF KeyInv, EnrollInv, EnrollTypeOK, Keyed
  <2> QED BY <2>1 DEF Websockets
<1> HIDE DEF key
<1>4. CASE config' = Persisted(key) /\ agent' = [agent EXCEPT !.phase = "session", !.secret = key]
  <2>1. agent'.phase = "session" /\ agent'.link = agent.link /\ agent'.secret = key
    BY <1>2, <1>4 DEF Processes
  <2>2. config'.file = key /\ key \in Secrets
    BY <1>1, <1>3, <1>4 DEF Persisted, EnrollTypeOK, Secrets
  <2>3. Linked' /\ Stored'
    BY <1>1, <1>2, <2>1, <2>2 DEF KeyInv, Linked, Stored, Hellos
  <2> QED BY <1>1, <2>3, SameMoves, AgentMoves
<1>5. CASE agent' = [agent EXCEPT !.phase = "idle", !.link = None] /\ UNCHANGED config
  <2>1. agent'.phase = "idle" /\ agent'.link = None /\ agent'.secret = agent.secret
    BY <1>2, <1>5 DEF Processes
  <2>2. Linked' /\ Stored'
    BY <1>1, <1>5, <2>1 DEF KeyInv, Linked, Stored
  <2> QED BY <1>1, <2>2, SameMoves, AgentMoves
<1> QED BY <1>1, <1>4, <1>5

LEMMA DropKey == ASSUME KeyInv, Drop PROVE KeyInv'
<1> DEFINE c == agent.link
           w == IF conn[c].state = "free" THEN Idle ELSE conn[c]
<1>1. /\ EnrollInv' /\ EnrollTypeOK /\ c # None
      /\ agent' = [agent EXCEPT !.phase = "idle", !.link = None] /\ conn' = [conn EXCEPT ![c] = w]
      /\ UNCHANGED <<token, config>>
  BY DropInv DEF KeyInv, EnrollInv, Drop, server
<1>2. c \in Conns /\ agent \in Processes /\ conn[c] \in Websockets
  BY <1>1 DEF EnrollTypeOK, Processes
<1>3. w \in Websockets /\ (w = Idle \/ w = conn[c])
  BY <1>2, IdleIsWebsocket
<1>4. agent'.phase = "idle" /\ agent'.link = None /\ agent'.secret = agent.secret
  BY <1>1, <1>2 DEF Processes
<1>5. agent.phase # "down"
  BY <1>1 DEF KeyInv, Linked
<1> HIDE DEF w, c
<1>6. conn'[c] = w /\ \A d \in Conns : d # c => conn'[d] = conn[d]
  BY <1>1, <1>2, <1>3, OneChanges
<1>7. \A d \in Conns : Moves(d)
  BY <1>3, <1>6 DEF Moves
<1>8. Linked' /\ Stored'
  BY <1>1, <1>4, <1>5 DEF KeyInv, Linked, Stored
<1> QED BY <1>1, <1>7, <1>8, AgentMoves

LEMMA FaultKey == ASSUME KeyInv, Fault PROVE KeyInv'
<1>1. EnrollInv' /\ EnrollTypeOK
  BY FaultInv DEF KeyInv, EnrollInv
<1>2. CASE CrashAgent
  <2>1. agent' = Down /\ UNCHANGED <<token, conn>>
    BY <1>2 DEF CrashAgent, server
  <2>2. agent'.phase = "down" /\ agent'.link = None
    BY <2>1 DEF Down
  <2>3. Exchanged' /\ Hellos'
    BY <2>1 DEF KeyInv, Exchanged, Hellos
  <2> QED BY <1>1, <2>2, <2>3 DEF KeyInv, Linked, Stored
<1>3. CASE CrashServer
  <2>1. UNCHANGED <<token, agent, config>>
    BY <1>3 DEF CrashServer
  <2>2. PICK cs \in SUBSET Conns :
          conn' = [c \in Conns |-> IF c \in cs THEN [conn[c] EXCEPT !.state = "free"]
                                   ELSE [conn[c] EXCEPT !.state = "free", !.notice = "none"]]
    BY <1>3 DEF CrashServer
  <2>3. ASSUME NEW c \in Conns
        PROVE  /\ conn'[c].secret = conn[c].secret /\ conn'[c].key = conn[c].key /\ conn'[c].state = "free"
               /\ conn'[c].notice \in {conn[c].notice, "none"}
    <3>1. conn[c] \in Websockets
      BY <1>1 DEF EnrollTypeOK
    <3>2. CASE c \in cs
      BY <2>2, <3>1, <3>2 DEF Websockets
    <3>3. CASE c \notin cs
      BY <2>2, <3>1, <3>3 DEF Websockets
    <3> QED BY <3>2, <3>3
  <2>4. \A c \in Conns : Moves(c)
    BY <2>3 DEF Moves
  <2>5. SpentStays
    BY <2>1 DEF SpentStays
  <2> QED BY <1>1, <2>1, <2>3, <2>4, <2>5, ServerMoves
<1>4. CASE \E c \in Conns : Break(c)
  <2>1. PICK c \in Conns : Break(c)
    BY <1>4
  <2>2. PICK notice \in {"none", conn[c].notice} :
          conn' = [conn EXCEPT ![c] = [conn[c] EXCEPT !.state = "closed", !.notice = notice]]
    BY <2>1 DEF Break
  <2>3. UNCHANGED <<token, agent, config>> /\ conn[c] \in Websockets
    BY <1>1, <2>1 DEF Break, server, EnrollTypeOK
  <2> DEFINE w == [conn[c] EXCEPT !.state = "closed", !.notice = notice]
  <2>4. /\ w \in Websockets /\ w.secret = conn[c].secret /\ w.key = conn[c].key /\ w.state = "closed"
        /\ w.notice \in {"none", conn[c].notice}
    BY <2>3 DEF Websockets
  <2> HIDE DEF w
  <2>5. conn'[c] = w /\ \A d \in Conns : d # c => conn'[d] = conn[d]
    BY <1>1, <2>2, <2>4, OneChanges DEF w
  <2>6. \A d \in Conns : Moves(d)
    BY <2>4, <2>5 DEF Moves
  <2>7. \A d \in Conns : /\ conn'[d].secret = conn[d].secret
                         /\ conn'[d].state \in {conn[d].state, "serving", "closed", "free"}
    BY <2>4, <2>5
  <2>8. SpentStays
    BY <2>3 DEF SpentStays
  <2> QED BY <1>1, <2>3, <2>6, <2>7, <2>8, ServerMoves
<1> QED BY <1>2, <1>3, <1>4 DEF Fault

LEMMA InitKey == ASSUME EnrollInit PROVE KeyInv
<1>1. conn = [c \in Conns |-> Idle] /\ agent = Down
  BY DEF EnrollInit
<1>2. \A c \in Conns : conn[c].key = None /\ conn[c].state = "free"
  BY <1>1 DEF Idle
<1>3. agent.phase = "down" /\ agent.link = None
  BY <1>1 DEF Down
<1> QED BY <1>2, <1>3, InitInv DEF KeyInv, Exchanged, Hellos, Linked, Stored

LEMMA NextKey == KeyInv /\ [EnrollNext]_enrolling => KeyInv'
<1> SUFFICES ASSUME KeyInv, [EnrollNext]_enrolling PROVE KeyInv'
  OBVIOUS
<1>1. CASE UNCHANGED enrolling
  <2>1. EnrollInv'
    BY <1>1, NextInv DEF KeyInv
  <2> QED BY <1>1, <2>1 DEF enrolling, KeyInv, Exchanged, Hellos, Linked, Stored
<1>2. CASE Start \/ Resume \/ Enroll \/ Drop
  BY <1>2, StartKey, ResumeKey, EnrollKey, DropKey
<1>3. CASE \E c \in Conns : Dial(c) \/ Handshake(c) \/ SendNotice(c) \/ Leave(c)
  BY <1>3, DialKey, HandshakeKey, SendNoticeKey, LeaveKey
<1> QED BY <1>1, <1>2, <1>3, AdministrationKey, ExpireKey, FaultKey DEF EnrollNext

-----------------------------------------------------------------------------
(***************************************************************************)
(* What keeps the key in each step.                                        *)
(***************************************************************************)

LEMMA SameAccess ==
  ASSUME UNCHANGED <<deleted, token, credential, config>>
  PROVE  Accepts(Loaded)' <=> Accepts(Loaded)
BY DEF Accepts, Loaded

\* An exchange goes on while nobody touches its websocket and its credential.
LEMMA SameExchange ==
  ASSUME InExchange, agent' = agent, credential' = credential,
         conn'[agent.link].key = conn[agent.link].key,
         \/ conn'[agent.link].state = "serving"
         \/ conn'[agent.link].notice = "authenticated"
  PROVE  InExchange'
BY DEF InExchange

LEMMA InExchangeOf ==
  ASSUME KeyInv, InExchange
  PROVE  agent.link \in Conns /\ agent.link # None
BY DEF KeyInv, EnrollInv, EnrollTypeOK, Processes, Keyed, InExchange

LEMMA HandshakeKeeps ==
  ASSUME KeyInv, NEW c \in Conns, Handshake(c), HoldsKey, ~Unheard
  PROVE  HoldsKey'
<1> DEFINE secret == conn[c].secret
<1>1. EnrollTypeOK /\ Serving /\ conn[c] \in Websockets /\ conn[c].state = "hello"
      /\ UNCHANGED <<deleted, agent, config>>
  BY DEF KeyInv, EnrollInv, EnrollTypeOK, Handshake
<1>2. CASE ~Accepts(secret)
  <2>1. /\ conn' = [conn EXCEPT ![c] = [conn[c] EXCEPT !.state = "closed", !.notice = "denied"]]
        /\ UNCHANGED <<token, credential>>
    BY <1>2 DEF Handshake
  <2>2. CASE Accepts(Loaded)
    BY <1>1, <2>1, <2>2, SameAccess DEF HoldsKey
  <2>3. CASE InExchange
    <3>1. conn[agent.link].key # None /\ agent.link \in Conns
      BY <2>3, InExchangeOf DEF InExchange
    <3>2. agent.link # c
      BY <1>1, <3>1 DEF KeyInv, Hellos
    <3>3. conn'[agent.link] = conn[agent.link]
      BY <1>1, <2>1, <3>1, <3>2 DEF EnrollTypeOK
    <3>4. InExchange'
      BY <1>1, <2>1, <2>3, <3>3 DEF InExchange
    <3> QED BY <3>4 DEF HoldsKey
  <2> QED BY <2>2, <2>3 DEF HoldsKey
<1>3. CASE Accepts(secret)
  <2>1. PICK k \in IF secret \in Tokens THEN Fresh(credential) ELSE {secret} :
          /\ IF secret \in Tokens
             THEN credential' = Replaced(k) /\ token' = [token EXCEPT ![secret] = "spent"]
             ELSE UNCHANGED <<credential, token>>
          /\ registered' = c
          /\ conn' = [Closed({registered} \ {None}) EXCEPT ![c] = [@ EXCEPT !.state = "serving", !.key = k]]
    BY <1>3 DEF Handshake
  <2>2. registered # c /\ agent.link = c
    <3>1. registered # c
      BY <1>1, EnrollmentAssumption DEF Serving
    <3> QED BY <2>1, <3>1 DEF Unheard
  <2>3. agent.phase = "waiting" /\ agent.secret = secret
    <3>1. agent.phase \in {"down", "idle", "waiting", "session"} /\ c # None
      BY <1>1, EnrollmentAssumption DEF EnrollTypeOK, Processes
    <3> QED BY <1>1, <2>2, <3>1 DEF KeyInv, Linked
  <2>4. CASE secret \in Tokens
    <3>1. k \in Credentials /\ k # None
      BY <1>1, <2>1, <2>4, FreshCredential, EnrollmentAssumption
    <3>2. credential'[k] = "active"
      BY <1>1, <2>1, <2>4, <3>1, RevokedActive
    <3> DEFINE closed == Closed({registered} \ {None})
               w == [closed[c] EXCEPT !.state = "serving", !.key = k]
    <3>3. closed \in [Conns -> Websockets] /\ conn' = [closed EXCEPT ![c] = w]
      BY <1>1, <2>1, ClosedKeeps
    <3> HIDE DEF closed
    <3>4. w.key = k /\ w.state = "serving"
      BY <3>3 DEF Websockets
    <3> HIDE DEF w
    <3>5. conn'[c] = w
      BY <3>3
    <3>6. agent'.phase = "waiting" /\ agent'.secret \in Tokens /\ agent'.link = c
      BY <1>1, <2>2, <2>3, <2>4
    <3>7. InExchange'
      BY <3>1, <3>2, <3>4, <3>5, <3>6 DEF InExchange
    <3> QED BY <3>7 DEF HoldsKey
  <2>5. CASE secret \notin Tokens
    <3>1. Accepts(Loaded) /\ UNCHANGED <<credential, token>>
      BY <2>1, <2>3, <2>5 DEF HoldsKey, InExchange
    <3> QED BY <1>1, <3>1, SameAccess DEF HoldsKey
  <2> QED BY <2>4, <2>5
<1> QED BY <1>2, <1>3

LEMMA SendNoticeKeeps ==
  ASSUME KeyInv, NEW c \in Conns, SendNotice(c), HoldsKey
  PROVE  HoldsKey'
<1> DEFINE w == [conn[c] EXCEPT !.notice = "authenticated"]
<1>1. /\ EnrollTypeOK /\ conn[c] \in Websockets /\ conn[c].state = "serving"
      /\ conn' = [conn EXCEPT ![c] = w] /\ UNCHANGED <<deleted, token, credential, agent, config>>
  BY DEF KeyInv, EnrollInv, EnrollTypeOK, SendNotice, server
<1>2. w \in Websockets /\ w.key = conn[c].key /\ w.notice = "authenticated"
  BY <1>1 DEF Websockets
<1> HIDE DEF w
<1>3. conn'[c] = w /\ \A d \in Conns : d # c => conn'[d] = conn[d]
  BY <1>1, <1>2, OneChanges
<1>4. CASE Accepts(Loaded)
  BY <1>1, <1>4, SameAccess DEF HoldsKey
<1>5. CASE InExchange
  <2>1. agent.link \in Conns
    BY <1>5, InExchangeOf
  <2>2. /\ conn'[agent.link].key = conn[agent.link].key
        /\ conn'[agent.link].state = "serving" \/ conn'[agent.link].notice = "authenticated"
    BY <1>2, <1>3, <1>5, <2>1 DEF InExchange
  <2>3. InExchange'
    BY <1>1, <1>5, <2>2, SameExchange
  <2> QED BY <2>3 DEF HoldsKey
<1> QED BY <1>4, <1>5 DEF HoldsKey

LEMMA LeaveKeeps ==
  ASSUME KeyInv, NEW c \in Conns, Leave(c), HoldsKey
  PROVE  HoldsKey'
<1> DEFINE w == IF agent.link = c THEN [conn[c] EXCEPT !.state = "free"] ELSE Idle
<1>1. /\ EnrollTypeOK /\ conn[c] \in Websockets
      /\ conn[c].state = "closed" \/ agent.link # c
      /\ conn' = [conn EXCEPT ![c] = w] /\ UNCHANGED <<deleted, token, credential, agent, config>>
  BY DEF KeyInv, EnrollInv, EnrollTypeOK, Leave
<1>2. /\ w \in Websockets
      /\ agent.link = c => w.key = conn[c].key /\ w.notice = conn[c].notice
  <2>1. CASE agent.link = c
    BY <1>1, <2>1 DEF Websockets
  <2>2. CASE agent.link # c
    BY <2>2, IdleIsWebsocket
  <2> QED BY <2>1, <2>2
<1> HIDE DEF w
<1>3. conn'[c] = w /\ \A d \in Conns : d # c => conn'[d] = conn[d]
  BY <1>1, <1>2, OneChanges
<1>4. CASE Accepts(Loaded)
  BY <1>1, <1>4, SameAccess DEF HoldsKey
<1>5. CASE InExchange
  <2>1. agent.link \in Conns
    BY <1>5, InExchangeOf
  <2>2. /\ conn'[agent.link].key = conn[agent.link].key
        /\ conn'[agent.link].state = "serving" \/ conn'[agent.link].notice = "authenticated"
    BY <1>1, <1>2, <1>3, <1>5, <2>1 DEF InExchange
  <2>3. InExchange'
    BY <1>1, <1>5, <2>2, SameExchange
  <2> QED BY <2>3 DEF HoldsKey
<1> QED BY <1>4, <1>5 DEF HoldsKey

\* What is stored is what was issued, and that is active until somebody changes it.
LEMMA EnrollKeeps ==
  ASSUME KeyInv, Enroll, HoldsKey, ~(InExchange /\ faults' # faults), config.env = None
  PROVE  HoldsKey'
<1> DEFINE key == conn[agent.link].key
<1>1. /\ EnrollTypeOK /\ agent.phase = "waiting" /\ conn[agent.link].notice = "authenticated"
      /\ agent.secret \in Tokens /\ UNCHANGED <<deleted, token, credential, conn>>
  BY DEF KeyInv, EnrollInv, Enroll, server
<1>2. agent.link \in Conns /\ key # None
  BY <1>1 DEF KeyInv, EnrollInv, EnrollTypeOK, Processes, Keyed
<1>3. key \in Credentials
  <2>1. conn[agent.link] \in Websockets
    BY <1>1, <1>2 DEF EnrollTypeOK
  <2> QED BY <1>2, <2>1 DEF Websockets
<1>4. agent.secret = config.file /\ config.file # "missing" /\ token[agent.secret] = "spent"
  <2>1. agent.secret = config.file
    BY <1>1 DEF KeyInv, Stored
  <2>2. conn[agent.link].secret = agent.secret
    BY <1>1 DEF KeyInv, Linked
  <2>3. token[agent.secret] = "spent"
    BY <1>1, <1>2, <2>2 DEF KeyInv, Exchanged
  <2> QED BY <1>1, <2>1, <2>3, EnrollmentAssumption
<1>5. ~Accepts(Loaded)
  <2>1. Loaded = agent.secret
    BY <1>1, <1>4 DEF Loaded, Secrets
  <2>2. agent.secret \notin Credentials
    BY <1>1, EnrollmentAssumption
  <2> QED BY <1>4, <2>1, <2>2 DEF Accepts
<1>6. InExchange /\ faults' = faults
  BY <1>5 DEF HoldsKey
<1>7. config' = Persisted(key)
  <2>1. faults \in Nat
    BY <1>1, EnrollmentAssumption DEF EnrollTypeOK
  <2> QED BY <1>4, <1>6, <2>1 DEF Enroll
<1> HIDE DEF key
<1>8. config'.file = key /\ config'.env = None
  BY <1>1, <1>7 DEF Persisted, EnrollTypeOK
<1>9. credential'[key] = "active" /\ ~deleted'
  <2>1. credential[key] = "active"
    BY <1>6 DEF InExchange, key
  <2> QED BY <1>1, <1>3, <2>1 DEF KeyInv, EnrollInv, AccessIsCurrent
<1>10. Loaded' = key
  BY <1>3, <1>8 DEF Loaded, Secrets
<1>11. Accepts(Loaded)'
  BY <1>3, <1>9, <1>10 DEF Accepts
<1> QED BY <1>11 DEF HoldsKey

LEMMA AgentKeeps ==
  ASSUME KeyInv, HoldsKey, Start \/ Resume \/ Drop \/ \E c \in Conns : Dial(c)
  PROVE  HoldsKey'
<1>1. UNCHANGED <<deleted, token, credential, config>>
  BY DEF Start, Resume, Drop, Dial, server
<1>2. ~InExchange
  <2>1. CASE Start
    BY <2>1 DEF Start, InExchange
  <2>2. CASE Resume
    BY <2>2, EnrollmentAssumption DEF Resume, InExchange
  <2>3. CASE Drop
    BY <2>3 DEF Drop, Ended, InExchange
  <2>4. CASE \E c \in Conns : Dial(c)
    BY <2>4 DEF Dial, InExchange
  <2> QED BY <2>1, <2>2, <2>3, <2>4
<1> QED BY <1>1, <1>2, SameAccess DEF HoldsKey

LEMMA FaultKeeps ==
  ASSUME KeyInv, HoldsKey, Fault, ~(InExchange /\ faults' # faults)
  PROVE  HoldsKey'
<1>1. UNCHANGED <<deleted, token, credential, config>>
  BY DEF Fault, CrashAgent, CrashServer, Break, server
<1>2. faults' # faults
  BY EnrollmentAssumption DEF Fault, KeyInv, EnrollInv, EnrollTypeOK
<1> QED BY <1>1, <1>2, SameAccess DEF HoldsKey

LEMMA KeyStep == KeyInv /\ [EnrollNext]_enrolling => [KeyStays]_enrolling
<1> SUFFICES ASSUME KeyInv, EnrollNext, HoldsKey, ~HoldsKey', ~MayLoseKey PROVE FALSE
  BY DEF KeyStays
<1>1. /\ ~Administration /\ (~\E t \in Tokens : Expire(t)) /\ ~(InExchange /\ faults' # faults)
      /\ ~Unheard /\ config.env = None
  BY DEF MayLoseKey
<1>2. \/ Fault \/ Start \/ Resume \/ Enroll \/ Drop
      \/ \E c \in Conns : Dial(c) \/ Handshake(c) \/ SendNotice(c) \/ Leave(c)
  BY <1>1 DEF EnrollNext
<1> QED BY <1>1, <1>2, FaultKeeps, AgentKeeps, EnrollKeeps, HandshakeKeeps, SendNoticeKeeps, LeaveKeeps

\* Crashes, restarts and lost connections outside an exchange cost no agent its key,
\* for any number of secrets, websockets and faults.
THEOREM KeyIsKeptHolds == EnrollSpec => KeyIsKept
<1> QED BY InitKey, NextKey, KeyStep, PTL DEF EnrollSpec, KeyIsKept
=============================================================================
