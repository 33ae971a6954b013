--------------------------- MODULE PostgresService ---------------------------
(***************************************************************************)
(* The PostgreSQL service of the agent (internal/domain/postgres): the     *)
(* reconciliation of operator, Cluster, databases and consumer Secret, and *)
(* the relay sessions on the host's loopback.  The relay manager's mutex   *)
(* covers its table only; a session's own mutex covers its connections;    *)
(* state files are written and removed under neither.  Kubernetes moves by *)
(* itself between the commands.  Ports, hosts and SQL are left out; a      *)
(* relay object is the session one start created.                          *)
(***************************************************************************)
EXTENDS ToolCalls, FiniteSets

CONSTANTS Databases, SessionIds, Tokens, RelayObjects, Conns, PgCallers, NoRelay
ASSUME RelayAssumption == NoRelay \notin RelayObjects \cup SessionIds \cup Tokens

VARIABLES
  operator,     \* CloudNativePG: absent, installing, ready (CRD and webhook up)
  cluster,      \* the Cluster: absent, applied, healthy
  databases,    \* databases that exist in it
  consumerSecret,
  pgcall,       \* service calls in progress
  sessions,     \* relay.sessions
  relay,        \* relay objects
  stateFile,    \* the session files: token and persistence of an id
  relayMu,      \* the object whose start holds the manager's mutex
  conn,         \* connections and how far their handler is
  \* What the properties remember and the code does not keep:
  removed,      \* the last removal that reached the Cluster answered success
  raced,        \* another call overlapped the removal of the Cluster, or a relay
                \* was started while a removal ran
  left          \* the ids of which a file outlived its session

pgVars == <<operator, cluster, databases, consumerSecret, pgcall, sessions, relay,
            stateFile, relayMu, conn, removed, raced, left>>
cell == <<operator, cluster, databases, consumerSecret>>
relays == <<sessions, relay, stateFile, relayMu, conn>>
kept == <<removed, raced, left>>

Unused == [st |-> "none", id |-> NoRelay, token |-> NoRelay, persistent |-> FALSE,
           timer |-> "none", by |-> "none"]
Idle == [pc |-> "none", todo |-> {}, relayFor |-> NoRelay]
NoConn == [relay |-> NoRelay, st |-> "none"]

RelayRows ==
  [st : {"none", "open", "closed"}, id : SessionIds \cup {NoRelay}, token : Tokens \cup {NoRelay},
   persistent : BOOLEAN, timer : {"none", "set", "saved", "fired"},
   by : {"none", "handoff", "timer", "unsaved", "owner", "restart", "revoked"}]
PgRows ==
  [pc : {"none", "operator", "profile", "crd", "rolling", "cluster", "await", "databases", "secret", "relay",
         "deleting", "removing", "revoke"},
   todo : SUBSET (Databases \cup SessionIds), relayFor : SessionIds \cup {NoRelay}]

PgTypeOK ==
  /\ operator \in {"absent", "installing", "ready"} /\ cluster \in {"absent", "applied", "healthy"}
  /\ databases \subseteq Databases /\ consumerSecret \in BOOLEAN
  /\ removed \in BOOLEAN /\ raced \in BOOLEAN /\ left \subseteq SessionIds
  /\ pgcall \in [PgCallers -> PgRows] /\ relay \in [RelayObjects -> RelayRows]
  /\ sessions \in [SessionIds -> RelayObjects \cup {NoRelay}]
  /\ stateFile \in [SessionIds -> Tokens \cup {NoRelay}] /\ relayMu \in RelayObjects \cup {NoRelay}
  /\ conn \in [Conns -> [relay : RelayObjects \cup {NoRelay},
                         st : {"none", "accepted", "added", "authenticated", "relaying"}]]

PgInit ==
  \* nothing is there, the operator is, or an earlier call finished
  /\ operator \in {"absent", "ready"} /\ cluster \in {"absent", "healthy"}
  /\ cluster = "healthy" => operator = "ready"
  /\ databases = (IF cluster = "healthy" THEN Databases ELSE {})
  /\ consumerSecret = (cluster = "healthy")
  /\ pgcall = [c \in PgCallers |-> Idle]
  /\ sessions = [s \in SessionIds |-> NoRelay]
  /\ relay = [r \in RelayObjects |-> Unused]
  /\ stateFile = [s \in SessionIds |-> NoRelay]
  /\ relayMu = NoRelay
  /\ conn = [x \in Conns |-> NoConn]
  /\ removed = FALSE /\ raced = FALSE /\ left = {}

PgAt(c, pc) == pgcall[c].pc = pc
PgTo(c, pc) == pgcall' = [pgcall EXCEPT ![c].pc = pc] /\ UNCHANGED budget
PgEnds(c) == pgcall' = [pgcall EXCEPT ![c] = Idle] /\ UNCHANGED budget

----------------------------------------------------------------------------
\* Relay sessions.

\* Mutant of removePersistedSession: a session that ends keeps its file.
KeepsItsFile(id) == UNCHANGED <<stateFile, left, budget>>

\* Every caller of removePersistedSession drops its error: the file may stay.
removePersistedSession(id) ==
  \/ stateFile' = [stateFile EXCEPT ![id] = NoRelay] /\ UNCHANGED <<left, budget>>
  \/ stateFile[id] # NoRelay /\ Trouble /\ left' = left \cup {id} /\ UNCHANGED stateFile

activeConnectionCount(r) == Cardinality({x \in Conns : conn[x].relay = r /\ conn[x].st # "accepted"})

\* session.close: the session refuses new connections and cuts those it has.
Closes(r, by) ==
  /\ relay' = [relay EXCEPT ![r].st = "closed", ![r].by = by]
  /\ conn' = [x \in Conns |-> IF conn[x].relay = r /\ conn[x].st # "accepted" THEN NoConn ELSE conn[x]]

NewRelay(id, token, persistent) ==
  [st |-> "open", id |-> id, token |-> token, persistent |-> persistent,
   timer |-> IF persistent THEN "none" ELSE "set", by |-> "none"]

\* start with an id that is free: registered under the mutex.
Registers(r, id, token, persistent) ==
  /\ relayMu = NoRelay /\ relay[r] = Unused /\ sessions[id] = NoRelay
  /\ sessions' = [sessions EXCEPT ![id] = r]
  /\ relay' = [relay EXCEPT ![r] = NewRelay(id, token, persistent)]
  /\ raced' = (raced \/ \E c \in PgCallers : pgcall[c].pc \in {"deleting", "removing", "revoke"})
  /\ UNCHANGED <<removed, left>>

\* start with an id that is taken by another relay: refused, unless an explicit
\* persistent handoff of an incumbent without connections ...
startReplaces(r, id, token) ==
  /\ relayMu = NoRelay /\ relay[r] = Unused
  /\ \/ cluster = "healthy" /\ Called /\ UNCHANGED pgcall
     \/ \E c \in PgCallers : PgAt(c, "relay") /\ pgcall[c].relayFor = id /\ PgEnds(c)
  /\ LET old == sessions[id] IN
     /\ old # NoRelay /\ relay[old].token # token
     /\ relay[old].persistent /\ activeConnectionCount(old) = 0
  /\ relay' = [relay EXCEPT ![r] = [NewRelay(id, token, TRUE) EXCEPT !.st = "none"]]
  /\ relayMu' = r
  /\ UNCHANGED <<cell, sessions, stateFile, conn, kept>>

\* ... which is closed, its file removed, and its listener taken over, if the
\* address can be bound.
HandsOver(r) ==
  /\ relayMu = r
  /\ \E bound \in BOOLEAN :
       LET id == relay[r].id old == sessions[id] IN
       /\ relay' = [relay EXCEPT ![r].st = IF bound THEN "open" ELSE "closed",
                                 ![r].timer = IF bound THEN @ ELSE "fired",
                                 ![old].st = "closed", ![old].by = "handoff"]
       /\ conn' = [x \in Conns |-> IF conn[x].relay = old /\ conn[x].st # "accepted" THEN NoConn ELSE conn[x]]
       /\ sessions' = [sessions EXCEPT ![id] = IF bound THEN r ELSE NoRelay]
       /\ removePersistedSession(id)
  /\ relayMu' = NoRelay
  /\ UNCHANGED <<cell, pgcall, removed, raced>>

\* persistSession, after the mutex was released: the file names this session
\* whatever happened to it meanwhile.
persistSession(r) ==
  /\ relay[r].persistent /\ relay[r].timer = "none" /\ relay[r].st \in {"open", "closed"}
  /\ relay' = [relay EXCEPT ![r].timer = "saved"]
  /\ stateFile' = [stateFile EXCEPT ![relay[r].id] = relay[r].token]
  /\ left' = left \cup (IF relay[r].st = "closed" THEN {relay[r].id} ELSE {})
  /\ UNCHANGED <<cell, pgcall, sessions, relayMu, conn, removed, raced, budget>>

\* stopIfCurrent stops the session only if it is still the expected one.
Current(id, expected) == IF sessions[id] = expected THEN expected ELSE NoRelay

\* The time to live of a session ends, or its file cannot be written.
stopIfCurrent(r) ==
  /\ relayMu = NoRelay /\ relay[r].st \in {"open", "closed"}
  /\ relay[r].timer = "set" \/ (relay[r].timer = "none" /\ relay[r].persistent)
  /\ LET found == Current(relay[r].id, r)
         why == IF relay[r].persistent THEN "unsaved" ELSE "timer"
     IN IF found = NoRelay
        THEN relay' = [relay EXCEPT ![r].timer = "fired"] /\ UNCHANGED <<sessions, stateFile, conn, left, budget>>
        ELSE /\ sessions' = [sessions EXCEPT ![relay[r].id] = NoRelay]
             /\ relay' = [relay EXCEPT ![r].timer = "fired", ![found].st = "closed", ![found].by = why]
             /\ conn' = [x \in Conns |-> IF conn[x].relay = found /\ conn[x].st # "accepted"
                                         THEN NoConn ELSE conn[x]]
             /\ removePersistedSession(relay[r].id)
  /\ UNCHANGED <<cell, pgcall, relayMu, removed, raced>>

\* stopOwned: the token must be the session's.  The table entry goes first,
\* the session is closed and its file removed after the mutex was released.
stopOwned(id, token) ==
  /\ Called /\ relayMu = NoRelay /\ sessions[id] # NoRelay /\ relay[sessions[id]].token = token
  /\ sessions' = [sessions EXCEPT ![id] = NoRelay]
  /\ relay' = [relay EXCEPT ![sessions[id]].by = "owner"]
  /\ UNCHANGED <<cell, pgcall, stateFile, relayMu, conn, kept>>
StopFinishes(r) ==
  /\ relay[r].by = "owner" /\ relay[r].st = "open"
  /\ Closes(r, "owner")
  /\ removePersistedSession(relay[r].id)
  /\ UNCHANGED <<cell, pgcall, sessions, relayMu, removed, raced>>

\* handleConnection: accepted, registered with the session, token checked,
\* open checked, upstream dialled.
acceptLoop(x, r) ==
  /\ conn[x] = NoConn /\ relay[r].st = "open"
  /\ Called
  /\ conn' = [conn EXCEPT ![x] = [relay |-> r, st |-> "accepted"]]
  /\ UNCHANGED <<cell, pgcall, sessions, relay, stateFile, relayMu, kept>>

\* Mutant of addConnection: a connection is registered with a closed session.
AddsAlways(x) == TRUE

\* addConnection refuses when the session was closed since the accept.
addConnection(x) == relay[conn[x].relay].st = "open"

handleConnection(x) ==
  /\ \/ /\ conn[x].st = "accepted"
        /\ conn' = [conn EXCEPT ![x] = IF addConnection(x) THEN [@ EXCEPT !.st = "added"] ELSE NoConn]
     \/ /\ conn[x].st = "added"
        /\ conn' \in {[conn EXCEPT ![x] = NoConn]} \cup
             {[conn EXCEPT ![x].st = "authenticated"] : y \in {z \in {x} : relay[conn[z].relay].st = "open"}}
     \/ conn[x].st = "authenticated" /\ conn' \in {[conn EXCEPT ![x] = NoConn], [conn EXCEPT ![x].st = "relaying"]}
     \/ conn[x].st = "relaying" /\ conn' = [conn EXCEPT ![x] = NoConn]
  /\ UNCHANGED <<cell, pgcall, sessions, relay, stateFile, relayMu, kept, budget>>

\* Sessions whose table entry went before the agent ended, and not their file.
Stopping == {relay[r].id : r \in {q \in RelayObjects : relay[q].by = "owner" /\ relay[q].st = "open"}}

\* The agent restarts: restore opens a session for every file whose address can
\* be bound, and leaves the other files for the next start.
restore(f, bound) ==
  /\ Trouble /\ f \in [SessionIds -> RelayObjects] /\ bound \subseteq {s \in SessionIds : stateFile[s] # NoRelay}
  /\ \A s, t \in SessionIds : f[s] = f[t] => s = t
  /\ \A s \in SessionIds : relay[f[s]] = Unused
  /\ relay' = [r \in RelayObjects |->
       IF \E s \in bound : f[s] = r
       THEN LET s == CHOOSE t \in SessionIds : f[t] = r IN
            [NewRelay(s, stateFile[s], TRUE) EXCEPT !.timer = "saved"]
       ELSE IF relay[r] = Unused THEN Unused ELSE [relay[r] EXCEPT !.st = "closed", !.by = "restart", !.timer = "fired"]]
  /\ sessions' = [s \in SessionIds |-> IF s \in bound THEN f[s] ELSE NoRelay]
  /\ conn' = [x \in Conns |-> NoConn] /\ relayMu' = NoRelay
  /\ pgcall' = [c \in PgCallers |-> Idle]
  /\ left' = left \cup {s \in SessionIds : stateFile[s] # NoRelay /\ (s \in Stopping \/ s \notin bound)}
  /\ UNCHANGED <<cell, stateFile, removed, raced>>

----------------------------------------------------------------------------
\* The service.

postgresqlServiceInfrastructureReady == operator = "ready" /\ cluster = "healthy"

\* ReconcilePostgreSQLService, up to the choice of the path: repair, or in place
\* when the operator's or the Cluster's resource profile is not the current one;
\* id is the relay asked for, if any.
ReconcilePostgreSQLService(c, id) ==
  /\ PgAt(c, "none") /\ Called
  /\ \E pc \in IF postgresqlServiceInfrastructureReady THEN {"databases", "profile", "cluster"} ELSE {"operator"} :
       pgcall' = [pgcall EXCEPT ![c] = [Idle EXCEPT !.relayFor = id, !.todo = Databases, !.pc = pc]]
  /\ UNCHANGED <<cell, relays, kept>>

\* No node of the K3s cluster reports ready in time.
waitForPostgreSQLServiceK3sReady(c) ==
  /\ PgAt(c, "operator") /\ PgEnds(c)
  /\ UNCHANGED <<cell, relays, kept>>

\* ensurePostgreSQLServiceOrdered: install only what is missing.
ensureOperator(c) ==
  /\ PgAt(c, "operator")
  /\ operator' = IF operator = "ready" THEN operator ELSE "installing"
  /\ PgTo(c, "crd")
  /\ UNCHANGED <<cluster, databases, consumerSecret, relays, kept>>

\* The operator's profile in place; its Deployment may roll.
applyOperatorProfile(c) ==
  /\ PgAt(c, "profile")
  /\ operator' \in {operator, "installing"} /\ PgTo(c, "rolling")
  /\ UNCHANGED <<cluster, databases, consumerSecret, relays, kept>>

\* In place, the Cluster's profile may be the current one already.
waitForPostgreSQLServiceCRD(c) ==
  /\ PgAt(c, "crd") \/ PgAt(c, "rolling")
  /\ \/ operator = "ready" /\ PgTo(c, "cluster")
     \/ operator = "ready" /\ PgAt(c, "rolling") /\ PgTo(c, "databases")
     \/ operator # "ready" /\ PgEnds(c)
  /\ UNCHANGED <<cell, relays, kept>>

\* The webhook admits the Cluster, or refuses it when it went away; instances
\* whose profile changes restart.
applyCluster(c) ==
  /\ PgAt(c, "cluster")
  /\ IF operator = "ready"
     THEN cluster' \in {"applied"} \cup ({cluster} \ {"absent"}) /\ PgTo(c, "await")
     ELSE PgEnds(c) /\ UNCHANGED cluster
  /\ UNCHANGED <<operator, databases, consumerSecret, relays, kept>>

waitForPostgreSQLService(c) ==
  /\ PgAt(c, "await")
  /\ \/ postgresqlServiceInfrastructureReady /\ PgTo(c, "databases")
     \/ ~postgresqlServiceInfrastructureReady /\ PgEnds(c)
  /\ UNCHANGED <<cell, relays, kept>>

\* ensurePostgreSQLServiceDatabase: a database that is absent is created.
ensurePostgreSQLServiceDatabase(c, d) ==
  /\ PgAt(c, "databases") /\ d \in pgcall[c].todo
  /\ IF cluster = "healthy"
     THEN /\ databases' = databases \cup {d}
          /\ pgcall' = [pgcall EXCEPT ![c].todo = @ \ {d}] /\ UNCHANGED budget
     ELSE PgEnds(c) /\ UNCHANGED databases
  /\ UNCHANGED <<operator, cluster, consumerSecret, relays, kept>>

\* The last probe, and the Secret is deleted ...
replacePostgreSQLServiceConsumerSecret(c) ==
  /\ PgAt(c, "databases") /\ pgcall[c].todo = {}
  /\ IF cluster = "healthy" /\ databases = Databases
     THEN consumerSecret' = FALSE /\ PgTo(c, "secret")
     ELSE PgEnds(c) /\ UNCHANGED consumerSecret
  /\ UNCHANGED <<operator, cluster, databases, relays, kept>>

\* ... and applied anew, consumers restarted.
applyConsumerSecret(c) ==
  /\ PgAt(c, "secret")
  /\ consumerSecret' = TRUE
  /\ IF pgcall[c].relayFor = NoRelay THEN PgEnds(c) ELSE PgTo(c, "relay")
  /\ UNCHANGED <<operator, cluster, databases, relays, kept>>

\* GetPostgreSQLServiceStatus of a ready service starts the relay asked for.
GetPostgreSQLServiceStatus(c, id) ==
  /\ PgAt(c, "none") /\ Called
  /\ postgresqlServiceInfrastructureReady /\ databases = Databases /\ consumerSecret
  /\ pgcall' = [pgcall EXCEPT ![c] = [Idle EXCEPT !.pc = "relay", !.relayFor = id]]
  /\ UNCHANGED <<cell, relays, kept>>

\* ensurePostgreSQLServiceRelay: the forward, then start.
ensurePostgreSQLServiceRelay(c, r, token, persistent) ==
  /\ PgAt(c, "relay")
  /\ \/ Registers(r, pgcall[c].relayFor, token, persistent)
     \/ relayMu = NoRelay /\ UNCHANGED <<sessions, relay, kept>>   \* the same session, or refused
  /\ PgEnds(c)
  /\ UNCHANGED <<cell, stateFile, relayMu, conn>>

\* RemovePostgreSQLService: the Cluster, the Secrets, then every relay.
RemovePostgreSQLService(c) ==
  /\ PgAt(c, "none") /\ Called
  /\ pgcall' = [pgcall EXCEPT ![c] = [Idle EXCEPT !.pc = "deleting"]]
  /\ UNCHANGED <<cell, relays, kept>>

\* The delete waits until the Cluster is gone; when it fails or times out the
\* call ends there, whatever became of the Cluster, and every relay stays.
DeletesCluster(c) ==
  /\ PgAt(c, "deleting")
  /\ \/ cluster' = "absent" /\ databases' = {} /\ PgTo(c, "removing")
     \/ /\ Trouble /\ pgcall' = [pgcall EXCEPT ![c] = Idle]
        /\ \/ cluster' = "absent" /\ databases' = {}
           \/ UNCHANGED <<cluster, databases>>
  /\ removed' = FALSE
  /\ raced' = (raced \/ \E d \in PgCallers \ {c} : pgcall[d].pc # "none")
  /\ UNCHANGED <<operator, consumerSecret, relays, left>>
RemovesSecrets(c, retain) ==
  /\ PgAt(c, "removing") /\ relayMu = NoRelay
  /\ consumerSecret' \in {consumerSecret, consumerSecret /\ retain}
  /\ pgcall' = [pgcall EXCEPT ![c].pc = "revoke",
                              ![c].todo = {s \in SessionIds : sessions[s] # NoRelay}]
  /\ UNCHANGED <<operator, cluster, databases, relays, kept, budget>>

\* stopAll: the ids it saw, one by one.
Revoked(c) == pgcall[c].todo
RevokeAllRelays(c) ==
  /\ PgAt(c, "revoke") /\ relayMu = NoRelay
  /\ \/ \E s \in Revoked(c) :
          /\ pgcall' = [pgcall EXCEPT ![c].todo = @ \ {s}]
          /\ removePersistedSession(s)
          /\ sessions' = [sessions EXCEPT ![s] = NoRelay]
          /\ IF sessions[s] = NoRelay THEN UNCHANGED <<relay, conn>> ELSE Closes(sessions[s], "revoked")
          /\ UNCHANGED removed
     \/ /\ Revoked(c) = {} /\ PgEnds(c) /\ removed' = TRUE
        /\ UNCHANGED <<sessions, relay, conn, stateFile, left>>
  /\ UNCHANGED <<cell, relayMu, raced>>

\* A start through a call that names its own relay target.
startRelay(r, id, token, persistent) ==
  /\ cluster = "healthy" /\ Registers(r, id, token, persistent) /\ Called
  /\ UNCHANGED <<cell, pgcall, stateFile, relayMu, conn>>

\* The cluster by itself.
OperatorComesUp ==
  /\ operator = "installing" /\ operator' = "ready"
  /\ UNCHANGED <<cluster, databases, consumerSecret, pgcall, relays, kept, budget>>
OperatorGoesDown ==
  /\ operator = "ready" /\ operator' = "installing" /\ Trouble
  /\ UNCHANGED <<cluster, databases, consumerSecret, pgcall, relays, kept>>
ClusterBecomesHealthy ==
  /\ cluster = "applied" /\ operator = "ready" /\ cluster' = "healthy"
  /\ UNCHANGED <<operator, databases, consumerSecret, pgcall, relays, kept, budget>>

PgNext ==
  \/ \E c \in PgCallers :
       \/ \E id \in SessionIds \cup {NoRelay} : ReconcilePostgreSQLService(c, id)
       \/ \E id \in SessionIds : GetPostgreSQLServiceStatus(c, id)
       \/ waitForPostgreSQLServiceK3sReady(c) \/ ensureOperator(c) \/ waitForPostgreSQLServiceCRD(c) \/ applyCluster(c)
       \/ applyOperatorProfile(c)
       \/ waitForPostgreSQLService(c) \/ replacePostgreSQLServiceConsumerSecret(c)
       \/ applyConsumerSecret(c) \/ \E d \in Databases : ensurePostgreSQLServiceDatabase(c, d)
       \/ \E r \in RelayObjects, k \in Tokens, p \in BOOLEAN : ensurePostgreSQLServiceRelay(c, r, k, p)
       \/ RemovePostgreSQLService(c) \/ DeletesCluster(c) \/ \E retain \in BOOLEAN : RemovesSecrets(c, retain)
       \/ RevokeAllRelays(c)
  \/ \E r \in RelayObjects, id \in SessionIds, k \in Tokens :
       \/ startReplaces(r, id, k) \/ \E p \in BOOLEAN : startRelay(r, id, k, p)
  \/ \E r \in RelayObjects : HandsOver(r) \/ persistSession(r) \/ stopIfCurrent(r) \/ StopFinishes(r)
  \/ \E id \in SessionIds, k \in Tokens : stopOwned(id, k)
  \/ \E x \in Conns : handleConnection(x) \/ \E r \in RelayObjects : acceptLoop(x, r)
  \/ \E f \in [SessionIds -> RelayObjects], bound \in SUBSET SessionIds : restore(f, bound)
  \/ OperatorComesUp \/ OperatorGoesDown \/ ClusterBecomesHealthy

PgSpec == PgInit /\ BudgetInit /\ [][PgNext]_<<pgVars, budget>>

----------------------------------------------------------------------------
\* Once a relay session is closed it carries no connection: one that was
\* accepted before and reaches addConnection after is refused, and the others
\* were cut.
NoRelayAfterClose ==
  \A x \in Conns : conn[x].st \in {"added", "authenticated", "relaying"} => relay[conn[x].relay].st # "closed"

\* The timer of a session ends only that session, never the one that took its
\* id since.
TimerEndsItsOwn ==
  \A r \in RelayObjects : relay[r].by = "timer" => ~relay[r].persistent /\ relay[r].timer = "fired"

\* Once a removal answered that the service is gone, no relay of it is open and
\* none comes back with a restart, unless a file outlived its session (it could
\* not be removed, was written after the session ended, the agent ended between
\* the two, or a start could not bind it), or another call ran into the removal.
RemovedServiceHasNoRelay ==
  removed /\ cluster = "absent" /\ ~raced => \A s \in SessionIds \ left : sessions[s] = NoRelay

\* A relay session ends when it should, and only then: its connections with
\* it, its timer for no other, the sessions of a removed service all.
SessionsEnd == NoRelayAfterClose /\ TimerEndsItsOwn /\ RemovedServiceHasNoRelay
============================================================================
