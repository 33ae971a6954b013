----------------------------- MODULE PublicMCP -----------------------------
(***************************************************************************)
(* Publishing the agent's own MCP endpoint (public_mcp.go,                 *)
(* public_mcp_quick.go): a named Cloudflare tunnel with a stored token and *)
(* an ephemeral Quick Tunnel, each a managed file set plus a systemd unit. *)
(* One binding of each kind.  A Quick Tunnel process announces a hostname  *)
(* of its own in the log; only the first hostname of the log is ever read, *)
(* so the log is that hostname.  A command that fails costs a trouble.     *)
(***************************************************************************)
EXTENDS ToolCalls, FiniteSets

CONSTANTS Targets, TunnelTokens, Urls, PubCallers, NoFile, NotOurs, NoProcess, NoUrl
ASSUME FilesAssumption == NoFile \notin Targets \cup {NotOurs} /\ NotOurs \notin Targets

VARIABLES
  quickUnit,   \* the unit file: the target in it
  loadedUnit,  \* the definition the service manager has loaded
  quickProc,   \* the running connector: its target and hostname
  quickLog,    \* first hostname in the log
  quickState,  \* the endpoint file: target and hostname
  usedUrls,    \* hostnames given out
  tokenFile, namedUnit, namedProc,   \* the named tunnel; namedProc: the token it runs with
  pubCall      \* the call of a caller

quickVars == <<quickUnit, loadedUnit, quickProc, quickLog, quickState, usedUrls>>
namedVars == <<tokenFile, namedUnit, namedProc>>
publicVars == <<quickVars, namedVars, pubCall>>

\* alone: no other call has overlapped; served: what the probe reached.
NoPubCall == [pc |-> "idle", target |-> NoFile, changed |-> FALSE, active |-> FALSE,
              url |-> NoUrl, served |-> NoFile, alone |-> TRUE]

PubRows ==
  [pc : {"idle", "supervise", "start", "origin", "restart", "wait", "probe", "ready", "remove", "named"},
   target : Targets \cup TunnelTokens \cup {NoFile}, changed : BOOLEAN, active : BOOLEAN,
   url : Urls \cup {NoUrl}, served : Targets \cup {NoFile}, alone : BOOLEAN]

PublicTypeOK ==
  /\ quickUnit \in Targets \cup {NoFile, NotOurs} /\ loadedUnit \in Targets \cup {NoFile}
  /\ quickProc \in [target : Targets, url : Urls] \cup {NoProcess}
  /\ quickLog \in Urls \cup {NoUrl} /\ usedUrls \subseteq Urls
  /\ quickState \in [target : Targets, url : Urls] \cup {NoFile}
  /\ tokenFile \in TunnelTokens \cup {NoFile, NotOurs} /\ namedUnit \in BOOLEAN
  /\ namedProc \in TunnelTokens \cup {NoProcess}
  /\ pubCall \in [PubCallers -> PubRows]

PublicInit ==
  /\ quickUnit \in {NoFile, NotOurs} /\ loadedUnit = NoFile /\ quickProc = NoProcess
  /\ quickLog = NoUrl /\ quickState = NoFile /\ usedUrls = {}
  /\ tokenFile \in {NoFile, NotOurs} /\ namedUnit = FALSE /\ namedProc = NoProcess
  /\ pubCall = [c \in PubCallers |-> NoPubCall]

PubAt(c, pc) == pubCall[c].pc = pc
PubGoes(c, pc) == pubCall' = [pubCall EXCEPT ![c].pc = pc]
PubEnds(c) == pubCall' = [pubCall EXCEPT ![c] = NoPubCall]
PubBegins(c, pc, t, changed) ==
  LET others == {d \in PubCallers \ {c} : pubCall[d].pc # "idle"} IN
  pubCall' = [d \in PubCallers |->
    IF d = c THEN [NoPubCall EXCEPT !.pc = pc, !.target = t, !.changed = changed, !.alone = others = {}]
    ELSE IF d \in others THEN [pubCall[d] EXCEPT !.alone = FALSE] ELSE pubCall[d]]
\* The step fails and with it the call.
PubFails(c) == Trouble /\ PubEnds(c)

\* A connector started from definition t announces a hostname nobody had.
Launched(t) == \E u \in Urls \ usedUrls :
  quickProc' = [target |-> t, url |-> u] /\ usedUrls' = usedUrls \cup {u}

----------------------------------------------------------------------------
\* A managed path holds nothing or a file with the agent's marker.
requireOwnedManagedFile(f) == f # NotOurs

\* EnsureHostFile replaces the file atomically and reports a change.
EnsureHostFile(file, content) == file # content

\* Up to the unit file.
EnsurePublicMcpQuickTunnel(c, t) ==
  /\ PubAt(c, "idle") /\ Called
  /\ IF requireOwnedManagedFile(quickUnit)
       THEN quickUnit' = t /\ PubBegins(c, "supervise", t, EnsureHostFile(quickUnit, t))
       ELSE UNCHANGED <<quickUnit, pubCall>>
  /\ UNCHANGED <<loadedUnit, quickProc, quickLog, quickState, usedUrls, namedVars>>

\* EnsureHostServiceSupervisor, then InspectHostService; an inspection that
\* fails counts as not active.
EnsureHostServiceSupervisor(c) ==
  /\ PubAt(c, "supervise")
  /\ \/ pubCall' = [pubCall EXCEPT ![c].pc = "start", ![c].active = quickProc # NoProcess]
        /\ UNCHANGED budget
     \/ pubCall' = [pubCall EXCEPT ![c].pc = "start", ![c].active = FALSE] /\ Trouble
     \/ PubFails(c)
  /\ UNCHANGED <<quickVars, namedVars>>

\* Mutant of Reloaded: the manager keeps the definition it has.
KeepsLoaded == IF loadedUnit = NoFile THEN quickUnit ELSE loadedUnit

\* daemon-reload, the first half of every SetHostServiceState.
Reloaded == quickUnit

\* SetHostServiceState: reload, then restart a running service whose unit
\* changed, otherwise start (nothing to do for a running one).
SetHostServiceState(c) ==
  /\ PubAt(c, "start")
  /\ \/ /\ loadedUnit' = Reloaded /\ UNCHANGED budget /\ PubGoes(c, "origin")
        /\ IF quickProc = NoProcess \/ (pubCall[c].active /\ pubCall[c].changed)
             THEN loadedUnit' # NoFile /\ Launched(loadedUnit') ELSE UNCHANGED <<quickProc, usedUrls>>
     \/ UNCHANGED <<loadedUnit, quickProc, usedUrls>> /\ PubFails(c)
  /\ UNCHANGED <<quickUnit, quickLog, quickState, namedVars>>

Live(u) == quickProc # NoProcess /\ quickProc.url = u

readPublicMCPQuickState(c) ==
  IF quickState # NoFile /\ quickState.target = pubCall[c].target THEN quickState.url ELSE NoUrl

\* The origin answers; then the recorded endpoint is reused when the unit was
\* untouched and running and the endpoint still answers; otherwise the log is
\* read, and a log that may be of another process is cleared for a restart.
ProbesOrigin(c) ==
  /\ PubAt(c, "origin")
  /\ LET settled == ~pubCall[c].changed /\ pubCall[c].active
         recorded == readPublicMCPQuickState(c)
     IN  \/ /\ settled /\ recorded # NoUrl /\ Live(recorded)
            /\ pubCall' = [pubCall EXCEPT ![c].pc = "ready", ![c].url = recorded,
                                          ![c].served = quickProc.target]
            /\ UNCHANGED <<quickLog, budget>>
         \/ /\ ~(settled /\ recorded # NoUrl /\ Live(recorded))
            /\ \/ settled /\ quickLog # NoUrl /\ UNCHANGED quickLog
                  /\ pubCall' = [pubCall EXCEPT ![c].pc = "probe", ![c].url = quickLog]
               \/ ~settled /\ quickLog # NoUrl /\ quickLog' = NoUrl /\ PubGoes(c, "restart")
               \/ quickLog = NoUrl /\ UNCHANGED quickLog /\ PubGoes(c, "wait")
            /\ UNCHANGED budget
         \/ UNCHANGED quickLog /\ PubFails(c)
  /\ UNCHANGED <<quickUnit, loadedUnit, quickProc, quickState, usedUrls, namedVars>>

RestartsCleared(c) ==
  /\ PubAt(c, "restart")
  /\ \/ /\ loadedUnit' = Reloaded /\ UNCHANGED budget /\ PubGoes(c, "wait")
        /\ loadedUnit' # NoFile /\ Launched(loadedUnit')
     \/ UNCHANGED <<loadedUnit, quickProc, usedUrls>> /\ PubFails(c)
  /\ UNCHANGED <<quickUnit, quickLog, quickState, namedVars>>

waitForPublicMCPQuickEndpoint(c) ==
  /\ PubAt(c, "wait")
  /\ \/ quickLog # NoUrl /\ UNCHANGED budget
        /\ pubCall' = [pubCall EXCEPT ![c].pc = "probe", ![c].url = quickLog]
     \/ PubFails(c)
  /\ UNCHANGED <<quickVars, namedVars>>

\* probePublicMCPWithRetry, then the endpoint file.
probePublicMCPWithRetry(c) ==
  /\ PubAt(c, "probe")
  /\ \/ /\ Live(pubCall[c].url) /\ UNCHANGED budget
        /\ quickState' = [target |-> pubCall[c].target, url |-> pubCall[c].url]
        /\ pubCall' = [pubCall EXCEPT ![c].pc = "ready", ![c].served = quickProc.target]
     \/ ~Live(pubCall[c].url) /\ UNCHANGED <<quickState, budget>> /\ PubEnds(c)
  /\ UNCHANGED <<quickUnit, loadedUnit, quickProc, quickLog, usedUrls, namedVars>>

PubReturns(c) ==
  /\ PubAt(c, "ready") /\ PubEnds(c) /\ UNCHANGED <<quickVars, namedVars, budget>>

\* RemovePublicMcpQuickTunnel: the service, then the three files and the
\* artifact; a failed stop is reported and the files go all the same.
RemovePublicMcpQuickTunnel(c) ==
  /\ PubAt(c, "idle") /\ Called /\ requireOwnedManagedFile(quickUnit)
  /\ quickProc' = NoProcess
  /\ PubBegins(c, "remove", NoFile, FALSE)
  /\ UNCHANGED <<quickUnit, loadedUnit, quickLog, quickState, usedUrls, namedVars>>

removeOwnedQuickFiles(c) ==
  /\ PubAt(c, "remove")
  /\ quickUnit' = NoFile /\ quickLog' = NoUrl /\ quickState' = NoFile
  /\ PubEnds(c)
  /\ UNCHANGED <<loadedUnit, quickProc, usedUrls, namedVars, budget>>

\* A connector writes its hostname; the log keeps what came first.
ConnectorAnnounces ==
  /\ quickProc # NoProcess /\ quickUnit # NoFile /\ quickLog = NoUrl
  /\ quickLog' = quickProc.url
  /\ UNCHANGED <<quickUnit, loadedUnit, quickProc, quickState, usedUrls, namedVars, pubCall, budget>>

\* Restart=always: a connector that dies comes back under another hostname.
ConnectorRestarts ==
  /\ quickProc # NoProcess /\ loadedUnit # NoFile /\ Trouble
  /\ Launched(loadedUnit)
  /\ UNCHANGED <<quickUnit, loadedUnit, quickLog, quickState, namedVars, pubCall>>

----------------------------------------------------------------------------
\* EnsurePublicMcpTunnel: token file, unit, supervisor, enable and start; a
\* running connector is not restarted.
EnsurePublicMcpTunnel(c, k) ==
  /\ PubAt(c, "idle") /\ Called
  /\ IF requireOwnedManagedFile(tokenFile)
       THEN tokenFile' = k /\ namedUnit' = TRUE /\ PubBegins(c, "named", k, FALSE)
       ELSE UNCHANGED <<tokenFile, namedUnit, pubCall>>
  /\ UNCHANGED <<quickVars, namedProc>>

NamedStarts(c) ==
  /\ PubAt(c, "named")
  /\ \/ namedProc' = (IF namedProc = NoProcess THEN tokenFile ELSE namedProc)
        /\ UNCHANGED budget /\ PubEnds(c)
     \/ UNCHANGED namedProc /\ PubFails(c)
  /\ UNCHANGED <<quickVars, tokenFile, namedUnit>>

PublicNext ==
  \/ \E c \in PubCallers :
       \/ \E t \in Targets : EnsurePublicMcpQuickTunnel(c, t)
       \/ \E k \in TunnelTokens : EnsurePublicMcpTunnel(c, k)
       \/ RemovePublicMcpQuickTunnel(c) \/ removeOwnedQuickFiles(c)
       \/ EnsureHostServiceSupervisor(c) \/ SetHostServiceState(c) \/ ProbesOrigin(c)
       \/ RestartsCleared(c) \/ waitForPublicMCPQuickEndpoint(c) \/ probePublicMCPWithRetry(c)
       \/ PubReturns(c) \/ NamedStarts(c)
  \/ ConnectorAnnounces \/ ConnectorRestarts

PublicSpec == PublicInit /\ BudgetInit /\ [][PublicNext]_<<publicVars, budget>>

----------------------------------------------------------------------------
\* A call that reports a Quick Tunnel ready has published the target it was
\* asked for, when no other call overlapped it and no earlier step failed:
\* unit, loaded definition, process, log and endpoint file agree.
QuickServesTarget ==
  \A c \in PubCallers :
    PubAt(c, "ready") /\ pubCall[c].alone /\ troubles = 0 => pubCall[c].served = pubCall[c].target

============================================================================
