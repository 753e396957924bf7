----------------------------- MODULE Enrollment -----------------------------
(***************************************************************************)
(* How an agent gets and keeps its key: registration tokens and            *)
(* credentials (server/app/nodes.py), the handshake of the gateway, and    *)
(* the agent's config, which holds the key across restarts.                *)
(*                                                                         *)
(* One node.  The server runs on one event loop whose lock is never held   *)
(* across an await: the check of a key with the registration, and a change *)
(* of credentials with disconnect_node, are single steps.  The notice that *)
(* carries an issued credential is sent after an await.                    *)
(*                                                                         *)
(* Bounds: the sets of secrets; MaxFaults losses, crashes, failed writes.  *)
(***************************************************************************)
EXTENDS Naturals, FiniteSets

CONSTANTS Tokens, Credentials, Conns, MaxFaults, None

ASSUME EnrollmentAssumption ==
  /\ MaxFaults \in Nat
  /\ Tokens \cap Credentials = {} /\ None \notin Tokens \cup Credentials \cup Conns
  /\ Tokens # {} /\ {"missing", "blank"} \cap (Tokens \cup Credentials) = {}

VARIABLES
  deleted,     \* nodes.deleted_at
  token,       \* enrollment_tokens: spent when used, superseded or expired
  credential,  \* agent_credentials.status
  registered,  \* the node's entry of Gateway._connections
  conn,        \* websockets: [state, secret of the hello, key they act under, notice]
  agent,       \* the process: [phase, secret it uses, link]
  config,      \* what the next start reads: [file, env]
  held,        \* the secret the administrator was shown last
  faults

enrolling == <<deleted, token, credential, registered, conn, agent, config, held, faults>>
server    == <<deleted, token, credential, registered>>

Secrets == Tokens \cup Credentials
Idle    == [state |-> "free", secret |-> None, key |-> None, notice |-> "none"]
Down    == [phase |-> "down", secret |-> None, link |-> None]

Websockets == [state : {"free", "hello", "serving", "closed"}, secret : Secrets \cup {None},
               key : Credentials \cup {None}, notice : {"none", "denied", "authenticated"}]

Processes == [phase : {"down", "idle", "waiting", "session"}, secret : Secrets \cup {None},
              link : Conns \cup {None}]

EnrollTypeOK ==
  /\ deleted \in BOOLEAN
  /\ token \in [Tokens -> {"fresh", "open", "spent"}]
  /\ credential \in [Credentials -> {"fresh", "active", "revoked"}]
  /\ registered \in Conns \cup {None}
  /\ conn \in [Conns -> Websockets]
  /\ agent \in Processes
  /\ config \in [file : Secrets \cup {"missing", "blank"}, env : Tokens \cup {None}]
  /\ held \in Secrets \cup {None}
  /\ faults \in 0 .. MaxFaults

\* NodeService.create: the node and its first token.
EnrollInit ==
  /\ deleted = FALSE
  /\ held = CHOOSE t \in Tokens : TRUE
  /\ token = [t \in Tokens |-> IF t = held THEN "open" ELSE "fresh"]
  /\ credential = [k \in Credentials |-> "fresh"]
  /\ registered = None
  /\ conn = [c \in Conns |-> Idle]
  /\ agent = Down
  /\ config = [file |-> "missing", env |-> None]
  /\ faults = 0

-----------------------------------------------------------------------------
\* A random secret or a new connection: which one does not matter.
AnyOf(S) == IF S = {} THEN {} ELSE {CHOOSE x \in S : TRUE}

Fresh(secrets) == AnyOf({x \in DOMAIN secrets : secrets[x] = "fresh"})

\* The statements that revoke whatever is active, and the insert of a new one.
Revoked    == [k \in Credentials |-> IF credential[k] = "active" THEN "revoked" ELSE credential[k]]
Replaced(k) == [Revoked EXCEPT ![k] = "active"]

\* consume_enrollment_token and authenticate_credential.
Accepts(secret) ==
  /\ ~deleted
  /\ \/ secret \in Tokens /\ token[secret] = "open"
     \/ secret \in Credentials /\ credential[secret] = "active"

Closed(cs) == [c \in Conns |-> IF c \in cs THEN [conn[c] EXCEPT !.state = "closed"] ELSE conn[c]]

\* Gateway.handle up to register: a token is exchanged for a credential, the
\* connection takes the place of the one before.
Handshake(c) ==
  LET secret == conn[c].secret IN
  /\ conn[c].state = "hello"
  /\ IF Accepts(secret)
     THEN \E k \in IF secret \in Tokens THEN Fresh(credential) ELSE {secret} :
            /\ IF secret \in Tokens
               THEN credential' = Replaced(k) /\ token' = [token EXCEPT ![secret] = "spent"]
               ELSE UNCHANGED <<credential, token>>
            /\ registered' = c
            /\ conn' = [Closed({registered} \ {None}) EXCEPT ![c] =
                          [@ EXCEPT !.state = "serving", !.key = k]]
     ELSE /\ conn' = [conn EXCEPT ![c] = [@ EXCEPT !.state = "closed", !.notice = "denied"]]
          /\ UNCHANGED <<token, credential, registered>>
  /\ UNCHANGED <<deleted, agent, config, held, faults>>

\* agent_authenticated, with the credential that was issued if one was.
SendNotice(c) ==
  /\ conn[c].state = "serving" /\ conn[c].notice = "none"
  /\ conn' = [conn EXCEPT ![c].notice = "authenticated"]
  /\ UNCHANGED <<server, agent, config, held, faults>>

\* The handler ends: remove.
Leave(c) ==
  /\ \/ conn[c].state = "closed"
     \/ conn[c].state = "serving" /\ agent.link # c
  /\ conn' = [conn EXCEPT ![c] = IF agent.link = c THEN [@ EXCEPT !.state = "free"] ELSE Idle]
  /\ registered' = IF registered = c THEN None ELSE registered
  /\ UNCHANGED <<deleted, token, credential, agent, config, held, faults>>

-----------------------------------------------------------------------------
\* Mutant of Disconnect: the connection is left to find out by itself.
DisconnectNobody == UNCHANGED <<registered, conn>>

\* disconnect_node
Disconnect ==
  /\ registered' = None
  /\ conn' = Closed({registered} \ {None})

\* create_enrollment_token: the unused tokens of the node are used up.
CreateToken ==
  /\ ~deleted
  /\ \E t \in Fresh(token) :
       /\ token' = [u \in Tokens |-> IF u = t THEN "open"
                                     ELSE IF token[u] = "open" THEN "spent" ELSE token[u]]
       /\ held' = t
  /\ UNCHANGED <<deleted, credential, registered, conn, agent, config, faults>>

\* rotate_credential
RotateCredential ==
  /\ ~deleted
  /\ \E k \in Fresh(credential) : credential' = Replaced(k) /\ held' = k
  /\ Disconnect
  /\ UNCHANGED <<deleted, token, agent, config, faults>>

\* revoke_credential; soft_delete, which leaves the tokens as they are.
RevokeCredentials ==
  /\ ~deleted
  /\ credential' = Revoked
  /\ deleted' \in BOOLEAN
  /\ Disconnect
  /\ UNCHANGED <<token, agent, config, held, faults>>

\* A secret is put on the node, a token perhaps in the environment (over a file
\* without a secret, or no file); the agent is restarted.
Install ==
  /\ held # None
  /\ \/ config' = [file |-> held, env |-> None]
     \/ held \in Tokens /\ \E file \in {"missing", "blank"} : config' = [file |-> file, env |-> held]
  /\ held' = None
  /\ agent' = Down
  /\ UNCHANGED <<server, conn, faults>>

Expire(t) ==
  /\ token[t] = "open"
  /\ token' = [token EXCEPT ![t] = "spent"]
  /\ UNCHANGED <<deleted, credential, registered, conn, agent, config, held, faults>>

Administration == CreateToken \/ RotateCredential \/ RevokeCredentials \/ Install

-----------------------------------------------------------------------------
\* Load and Validate: exactly one secret, where the environment's token takes the
\* place of the file's.
Loaded ==
  IF config.env = None THEN IF config.file \in Secrets THEN config.file ELSE None
  ELSE IF config.file \in Credentials THEN None ELSE config.env

Start ==
  /\ agent.phase = "down" /\ Loaded # None
  /\ agent' = [phase |-> "idle", secret |-> Loaded, link |-> None]
  /\ UNCHANGED <<server, conn, config, held, faults>>

\* runConnectionWithResultQueue: dial and agent_hello.
Dial(c) ==
  /\ agent.phase = "idle"
  /\ c \in AnyOf({d \in Conns : conn[d].state = "free"})
  /\ agent' = [agent EXCEPT !.phase = "waiting", !.link = c]
  /\ conn' = [conn EXCEPT ![c] = [Idle EXCEPT !.state = "hello", !.secret = agent.secret]]
  /\ UNCHANGED <<server, config, held, faults>>

\* The agent reads the notice of a connection it authenticated with its credential.
Resume ==
  /\ agent.phase = "waiting" /\ conn[agent.link].notice = "authenticated"
  /\ agent.secret \in Credentials
  /\ agent' = [agent EXCEPT !.phase = "session"]
  /\ UNCHANGED <<server, conn, config, held, faults>>

\* Mutant of Persisted: the credential is kept in memory only.
PersistedInMemory(k) == config

\* PersistCredential replaces the token of the file by the credential.
Persisted(k) == [config EXCEPT !.file = k]

\* The agent reads the credential it was issued, and stores it before it uses it.
\* Without a file the write fails, and so it may with one; the session ends then.
Enroll ==
  LET c == agent.link IN
  /\ agent.phase = "waiting" /\ conn[c].notice = "authenticated"
  /\ agent.secret \in Tokens
  /\ \/ /\ config.file # "missing"
        /\ config' = Persisted(conn[c].key)
        /\ agent' = [agent EXCEPT !.phase = "session", !.secret = conn[c].key]
        /\ UNCHANGED faults
     \/ /\ config.file = "missing" \/ faults < MaxFaults
        /\ faults' = IF config.file = "missing" THEN faults ELSE faults + 1
        /\ agent' = [agent EXCEPT !.phase = "idle", !.link = None]
        /\ UNCHANGED config
  /\ UNCHANGED <<server, conn, held>>

\* Mutant of Ended: the server's closing is noticed, its disappearance is not.
EndedByServer(c) == conn[c].state = "closed"

Ended(c) == conn[c].state \in {"closed", "free"}

\* The connection is over, the agent was refused, or a notice never comes.
Drop ==
  /\ agent.link # None /\ Ended(agent.link)
  /\ agent.phase = "session" \/ conn[agent.link].notice # "authenticated"
  /\ agent' = [agent EXCEPT !.phase = "idle", !.link = None]
  /\ conn' = [conn EXCEPT ![agent.link] = IF @.state = "free" THEN Idle ELSE @]
  /\ UNCHANGED <<server, config, held, faults>>

-----------------------------------------------------------------------------
\* The network loses a connection, with a notice that is on its way or without.
Break(c) ==
  /\ conn[c].state \in {"hello", "serving"}
  /\ \E notice \in {"none", conn[c].notice} :
       conn' = [conn EXCEPT ![c] = [@ EXCEPT !.state = "closed", !.notice = notice]]
  /\ UNCHANGED <<server, agent, config, held>>

CrashAgent ==
  /\ agent.phase # "down"
  /\ agent' = Down
  /\ UNCHANGED <<server, conn, config, held>>

\* What the server has sent may still arrive.
CrashServer ==
  /\ \E cs \in SUBSET Conns :
       conn' = [c \in Conns |-> IF c \in cs THEN [conn[c] EXCEPT !.state = "free"]
                                ELSE [conn[c] EXCEPT !.state = "free", !.notice = "none"]]
  /\ registered' = None
  /\ UNCHANGED <<deleted, token, credential, agent, config, held>>

Fault ==
  /\ faults < MaxFaults
  /\ faults' = faults + 1
  /\ CrashAgent \/ CrashServer \/ \E c \in Conns : Break(c)

EnrollNext ==
  \/ Administration \/ Fault
  \/ \E t \in Tokens : Expire(t)
  \/ Start \/ Resume \/ Enroll \/ Drop
  \/ \E c \in Conns : Dial(c) \/ Handshake(c) \/ SendNotice(c) \/ Leave(c)

EnrollSpec == EnrollInit /\ [][EnrollNext]_enrolling

\* The agent's loop redials for ever and its service is restarted; the server's
\* handlers run to their end.  Administrators and faults owe nothing.
FairEnrollSpec ==
  /\ EnrollSpec
  /\ WF_enrolling(Start \/ Resume \/ Enroll \/ Drop \/ \E c \in Conns : Dial(c))
  /\ WF_enrolling(\E c \in Conns : Handshake(c) \/ SendNotice(c) \/ Leave(c))

-----------------------------------------------------------------------------
\* The connection that gets the node's commands acts under the only credential
\* that is active, of a node that exists: neither a rotation, a revocation, a
\* deletion nor a second registration leaves an older key in service.
AccessIsCurrent ==
  /\ registered # None => ~deleted /\ credential[conn[registered].key] = "active"
  /\ \A k, l \in Credentials : credential[k] = "active" /\ credential[l] = "active" => k = l
  /\ deleted => \A k \in Credentials : credential[k] # "active"

\* A token was exchanged, and the credential has not reached the config yet.
InExchange ==
  /\ agent.phase = "waiting" /\ agent.secret \in Tokens
  /\ conn[agent.link].key # None /\ credential[conn[agent.link].key] = "active"
  /\ conn[agent.link].state = "serving" \/ conn[agent.link].notice = "authenticated"

\* The node's config will let an agent in, now or once the exchange is over.
HoldsKey == Accepts(Loaded) \/ InExchange

\* A token is exchanged for a connection that the agent has given up.
Unheard == registered' # registered /\ registered' # agent.link

\* What may cost an agent its key: an administrator, the token's expiry, an exchange
\* that is cut off in the middle or that nobody hears of, a token that is still in the
\* environment.
MayLoseKey ==
  \/ Administration \/ \E t \in Tokens : Expire(t)
  \/ InExchange /\ faults' # faults
  \/ Unheard
  \/ config.env # None

KeyStays == HoldsKey /\ ~HoldsKey' => MayLoseKey

\* An agent keeps its key through crashes, restarts and lost connections of either
\* side, but for what may cost it.
KeyIsKept == [][KeyStays]_enrolling

\* An agent that holds a key gets into a session, however often it is refused,
\* cut off or restarted on the way (while the model has a credential to issue).
AgentComesBack ==
  HoldsKey ~> (agent.phase = "session" \/ ~HoldsKey \/ Fresh(credential) = {})
=============================================================================
