------------------------ MODULE ProviderGenerations ------------------------
(***************************************************************************)
(* The provider lifecycle manager (internal/cordis/generation.go): which   *)
(* generation of a provider serves new work, which ones are draining, and  *)
(* how many sessions each of them still carries.                           *)
(*                                                                         *)
(* A generation identifier is the text "<provider>-<sequence>"; here it is *)
(* the pair <<provider, sequence>>.  Manifest hashes, endpoints, catalog   *)
(* revisions and time stamps are left out, and Refresh with them.          *)
(*                                                                         *)
(* Every method holds the manager's mutex, so each is one action; Drain    *)
(* releases it between its poll and its call of Dispose and is two.        *)
(***************************************************************************)
EXTENDS Naturals, FiniteSets

CONSTANTS Providers,
          Clients,           \* the callers that can hold a GenerationSession
          CancelOnTimeout,   \* DrainPolicy; FALSE in the agent
          MaxSequence,       \* bound on the sequence counter
          None

GenerationIds == Providers \X (1..MaxSequence)

\* A client holds at most one session in this model.
ASSUME ClientsAssumption == IsFiniteSet(Clients)
ASSUME SequenceAssumption == MaxSequence \in Nat
ASSUME NoneAssumption == None \notin GenerationIds

VARIABLES
  boot,       \* "restoring" rows, "serving", or "refused" to start
  state,      \* generations: the state of every identifier
  sessions,   \* ProviderGeneration.Sessions
  active,     \* the active map
  sequence,
  session,    \* the generation whose GenerationSession a client holds
  drain       \* progress of a Drain call for a generation

vars == <<boot, state, sessions, active, sequence, session, drain>>

provider(g) == g[1]

States == {"candidate", "ready", "active", "draining", "stopped", "failed"}

TypeOK ==
  /\ boot \in {"restoring", "serving", "refused"}
  /\ state \in [GenerationIds -> States \cup {"absent"}]
  /\ sessions \in [GenerationIds -> Nat]
  /\ active \in [Providers -> GenerationIds \cup {None}]
  /\ sequence \in 0..MaxSequence
  /\ session \in [Clients -> GenerationIds \cup {None}]
  /\ drain \in [GenerationIds -> {"none", "polling", "busy", "idle"}]

Init ==
  /\ boot = "restoring"
  /\ state = [g \in GenerationIds |-> "absent"]
  /\ sessions = [g \in GenerationIds |-> 0]
  /\ active = [p \in Providers |-> None]
  /\ sequence = 0
  /\ session = [c \in Clients |-> None]
  /\ drain = [g \in GenerationIds |-> "none"]

\* delete(m.active, provider) when it names g.
DeleteActive(g) ==
  active' = IF active[provider(g)] = g
            THEN [active EXCEPT ![provider(g)] = None] ELSE active

----------------------------------------------------------------------------
\* restoreProviderGenerations hands every stored row to Restore.  The row is
\* stored before a second active generation is noticed; the error then stops
\* the agent from starting.
Restore(g, s) ==
  /\ boot = "restoring"
  /\ state[g] = "absent"
  /\ state' = [state EXCEPT ![g] = s]
  /\ sequence' = IF g[2] > sequence THEN g[2] ELSE sequence
  /\ IF s # "active" THEN UNCHANGED <<active, boot>>
     ELSE IF active[provider(g)] # None
     THEN boot' = "refused" /\ UNCHANGED active
     ELSE /\ active' = [active EXCEPT ![provider(g)] = g]
          /\ UNCHANGED boot
  /\ UNCHANGED <<sessions, session, drain>>

Serve ==
  /\ boot = "restoring"
  /\ boot' = "serving"
  /\ UNCHANGED <<state, sessions, active, sequence, session, drain>>

CreateCandidate(p) ==
  /\ boot = "serving"
  /\ sequence < MaxSequence
  /\ sequence' = sequence + 1
  /\ state' = [state EXCEPT ![<<p, sequence + 1>>] = "candidate"]
  /\ sessions' = [sessions EXCEPT ![<<p, sequence + 1>>] = 0]
  /\ UNCHANGED <<boot, active, session, drain>>

MarkReady(g) ==
  /\ boot = "serving"
  /\ state[g] = "candidate"
  /\ state' = [state EXCEPT ![g] = "ready"]
  /\ UNCHANGED <<boot, sessions, active, sequence, session, drain>>

\* New work switches to g; the generation that was active starts draining.
Activate(g) ==
  /\ boot = "serving"
  /\ state[g] = "ready"
  /\ LET old == active[provider(g)] IN
     state' = [h \in GenerationIds |->
                 IF h = g THEN "active"
                 ELSE IF h = old /\ state[h] = "active" THEN "draining"
                 ELSE state[h]]
  /\ active' = [active EXCEPT ![provider(g)] = g]
  /\ UNCHANGED <<boot, sessions, sequence, session, drain>>

\* The activation of g is taken back, with or without a predecessor.
RollbackActivation(g, previous) ==
  /\ boot = "serving"
  /\ active[provider(g)] = g /\ state[g] = "active"
  /\ sessions[g] = 0
  /\ \/ /\ previous = None
        /\ state' = [state EXCEPT ![g] = "failed"]
     \/ /\ previous \in GenerationIds
        /\ provider(previous) = provider(g)
        /\ state[previous] = "draining"
        /\ state' = [state EXCEPT ![previous] = "active", ![g] = "failed"]
  /\ active' = [active EXCEPT ![provider(g)] = previous]
  /\ UNCHANGED <<boot, sessions, sequence, session, drain>>

Opened(c, g) ==
  /\ sessions' = [sessions EXCEPT ![g] = @ + 1]
  /\ session' = [session EXCEPT ![c] = g]
  /\ UNCHANGED <<boot, state, active, sequence, drain>>

\* A session on whatever generation is active now.
OpenSession(c, p) ==
  /\ boot = "serving" /\ session[c] = None
  /\ active[p] # None
  /\ state[active[p]] = "active"
  /\ Opened(c, active[p])

\* A session on one named generation, for the validation of a candidate.
OpenSessionForGeneration(c, g) ==
  /\ boot = "serving" /\ session[c] = None
  /\ state[g] \in {"candidate", "ready", "active", "draining"}
  /\ Opened(c, g)

\* GenerationSession.Close, once per session.
CloseSession(c) ==
  /\ session[c] # None
  /\ sessions' = [sessions EXCEPT ![session[c]] = IF @ > 0 THEN @ - 1 ELSE @]
  /\ session' = [session EXCEPT ![c] = None]
  /\ UNCHANGED <<boot, state, active, sequence, drain>>

Disposed(g) ==
  /\ state' = [state EXCEPT ![g] = "stopped"]
  /\ DeleteActive(g)

\* Dispose refuses a generation that still carries sessions.
Dispose(g) ==
  /\ boot = "serving"
  /\ state[g] # "absent"
  /\ sessions[g] = 0
  /\ Disposed(g)
  /\ UNCHANGED <<boot, sessions, sequence, session, drain>>

\* Mutant of Fail: the active map keeps naming the failed generation.
FailStaysMapped(g) ==
  /\ boot = "serving"
  /\ state[g] # "absent"
  /\ state' = [state EXCEPT ![g] = "failed"]
  /\ UNCHANGED <<boot, active, sessions, sequence, session, drain>>

\* Fail retires g whatever it was doing.
Fail(g) ==
  /\ boot = "serving"
  /\ state[g] # "absent"
  /\ state' = [state EXCEPT ![g] = "failed"]
  /\ DeleteActive(g)
  /\ UNCHANGED <<boot, sessions, sequence, session, drain>>

DrainStarts(g) ==
  /\ boot = "serving"
  /\ state[g] # "absent" /\ drain[g] = "none"
  /\ drain' = [drain EXCEPT ![g] = "polling"]
  /\ UNCHANGED <<boot, state, sessions, active, sequence, session>>

\* One poll of the counter; the mutex is then released.
DrainPolls(g) ==
  /\ drain[g] = "polling"
  /\ drain' = [drain EXCEPT ![g] = IF sessions[g] = 0 THEN "idle" ELSE "busy"]
  /\ UNCHANGED <<boot, state, sessions, active, sequence, session>>

\* Mutant of DrainDisposes: it relies on the earlier poll.
DrainTrustsPoll(g) ==
  /\ drain[g] = "idle"
  /\ drain' = [drain EXCEPT ![g] = "none"]
  /\ Disposed(g)
  /\ UNCHANGED <<boot, sessions, sequence, session>>

\* The call of Dispose, which checks the counter again and may refuse.
DrainDisposes(g) ==
  /\ drain[g] = "idle"
  /\ drain' = [drain EXCEPT ![g] = "none"]
  /\ IF sessions[g] = 0 THEN Disposed(g) ELSE UNCHANGED <<state, active>>
  /\ UNCHANGED <<boot, sessions, sequence, session>>

\* After a poll that found sessions: poll again, give up because the deadline
\* passed or the context ended, or (CancelOnTimeout) call Dispose anyway.
DrainWaits(g) ==
  /\ drain[g] = "busy"
  /\ \E next \in {"polling", "none"} \cup (IF CancelOnTimeout THEN {"idle"}
                                          ELSE {}) :
       drain' = [drain EXCEPT ![g] = next]
  /\ UNCHANGED <<boot, state, sessions, active, sequence, session>>

Next ==
  \/ Serve
  \/ \E p \in Providers : CreateCandidate(p)
  \/ \E g \in GenerationIds :
       \/ \E s \in States : Restore(g, s)
       \/ MarkReady(g)
       \/ Activate(g)
       \/ \E h \in GenerationIds \cup {None} : RollbackActivation(g, h)
       \/ Dispose(g)
       \/ Fail(g)
       \/ DrainStarts(g)
       \/ DrainPolls(g)
       \/ DrainDisposes(g)
       \/ DrainWaits(g)
  \/ \E c \in Clients :
       \/ \E p \in Providers : OpenSession(c, p)
       \/ \E g \in GenerationIds : OpenSessionForGeneration(c, g)
       \/ CloseSession(c)

Spec == Init /\ [][Next]_vars

----------------------------------------------------------------------------
\* The active map never names a retired generation, or one of another
\* provider: every way out of the active state also clears or moves it.
ActiveMapIsSound ==
  \A p \in Providers :
    active[p] # None => provider(active[p]) = p /\ state[active[p]] = "active"

\* "Activate atomically switches new work": an agent that started has at most
\* one generation of a provider in the active state, the one the map names.
OneActive ==
  boot # "refused" =>
    \A g \in GenerationIds : state[g] = "active" => active[provider(g)] = g

\* The counter that lets Drain and Dispose proceed is the number of sessions
\* callers really hold.
SessionsCounted ==
  \A g \in GenerationIds :
    sessions[g] = Cardinality({c \in Clients : session[c] = g})

\* No generation is stopped under a caller that still holds a session on it,
\* although Drain polls and disposes in two critical sections.
StoppedCarriesNothing ==
  \A c \in Clients : session[c] # None => state[session[c]] # "stopped"

\* States, active map and session counters of the manager agree, whatever
\* order activations, rollbacks, failures, drains and restores came in.
ManagerConsistent ==
  TypeOK /\ ActiveMapIsSound /\ OneActive /\ SessionsCounted /\ StoppedCarriesNothing

\* A sequence number is used once, across restarts too.
SequenceCovers ==
  \A g \in GenerationIds : state[g] # "absent" => g[2] <= sequence

\* A candidate never takes the identifier of a generation that exists.
CandidateIsFresh ==
  [][\A g \in GenerationIds :
       state[g] \notin {"absent", "candidate"} => state'[g] # "candidate"]_vars

\* A generation that was stopped or failed never serves again.
RetiredStaysRetired ==
  [][\A g \in GenerationIds :
       state[g] \in {"stopped", "failed"} =>
         state'[g] \in {"stopped", "failed"}]_vars

\* The manager implements the promise of ServingGenerations: its active map,
\* sessions and retired states, whatever interleaving of drains, polls,
\* restores and rollbacks produced them.
Serving == INSTANCE ServingGenerations WITH
  Generations <- GenerationIds,
  serving <- active,
  work <- session,
  stopped <- {g \in GenerationIds : state[g] = "stopped"},
  failed <- {g \in GenerationIds : state[g] = "failed"}
ImplementsServing == Serving!Spec
============================================================================
