------------------------- MODULE ServingAssignments -------------------------
(***************************************************************************)
(* Reconciling a serving assignment of the process runtime                 *)
(* (internal/domain/serving): the launch markers in memory, the pid file   *)
(* and the state file on disk, and the assignment's transient systemd      *)
(* unit.  One assignment; a contract is its generation with the            *)
(* idempotency key.  A stray is a process of another launcher that serves  *)
(* the declared endpoint.                                                  *)
(***************************************************************************)
EXTENDS ToolCalls

CONSTANTS ServingContracts, ServingCallers, NoServing

VARIABLES
  started,      \* servingLaunches.started: the contracts with a launch marker
  pidFile,      \* the process it names: none, dead, unit (alive) or stray (alive)
  servingState,    \* the contract last recorded
  servingUnit,  \* contract the unit runs, and whether it is active and warm
  stray,        \* a process no unit owns serves the endpoint: none, or one the
                \* pid file named at first (known) or never did (unknown)
  servingCall,  \* the call of a caller: what it asked for and what it has read
  missed        \* a probe failed while the stray served, or the stray came when a
                \* unit or the probe of a call was there before it (not kept by the code)

servingVars == <<started, pidFile, servingState, servingUnit, stray, servingCall, missed>>

NoUnit == [runs |-> NoServing, active |-> FALSE, warm |-> FALSE]
NoServingCall == [pc |-> "idle", contract |-> NoServing, preStart |-> FALSE, ready |-> FALSE,
                  managed |-> FALSE, adopts |-> FALSE, alive |-> FALSE]

ServingUnits == [runs : ServingContracts \cup {NoServing}, active : BOOLEAN, warm : BOOLEAN]
ServingRows ==
  [pc : {"idle", "probe", "owner", "decide", "claim", "prestart", "launch", "run", "poll", "record", "service"},
   contract : ServingContracts \cup {NoServing}, preStart : BOOLEAN, ready : BOOLEAN,
   managed : BOOLEAN, adopts : BOOLEAN, alive : BOOLEAN]

ServingTypeOK ==
  /\ started \subseteq ServingContracts /\ servingState \in ServingContracts \cup {NoServing}
  /\ pidFile \in {"none", "dead", "unit", "stray"} /\ stray \in {"none", "known", "unknown"} /\ missed \in BOOLEAN
  /\ servingUnit \in ServingUnits
  /\ servingCall \in [ServingCallers -> ServingRows]
  /\ \A c \in ServingCallers : servingCall[c].pc # "idle" => servingCall[c].contract \in ServingContracts

ServingInit ==
  /\ started = {} /\ servingState = NoServing /\ servingUnit = NoUnit
  /\ stray \in {"none", "known", "unknown"} /\ pidFile = IF stray = "known" THEN "stray" ELSE "none"
  /\ servingCall = [c \in ServingCallers |-> NoServingCall] /\ missed = FALSE

ServingAt(c, pc) == servingCall[c].pc = pc
ServingGoes(c, pc) == servingCall' = [servingCall EXCEPT ![c].pc = pc]
ServingEnds(c) == servingCall' = [servingCall EXCEPT ![c] = NoServingCall]
servingProcessAlive == pidFile \in {"unit", "stray"}
servingAssignmentStateMatches(g) == servingState = g
EndpointReady == stray # "none" \/ (servingUnit.active /\ servingUnit.warm)

----------------------------------------------------------------------------
\* A malformed contract (version, identifiers, mode, runtime, target,
\* artifact, restart policy, unit) is refused before anything is touched.
validateServingAssignment(c) ==
  /\ ServingAt(c, "idle") /\ Called
  /\ UNCHANGED <<started, pidFile, servingState, servingUnit, stray, servingCall, missed>>

ReconcileServingAssignment(c, g, preStart) ==
  /\ ServingAt(c, "idle") /\ Called
  /\ servingCall' = [servingCall EXCEPT ![c] = [NoServingCall EXCEPT
       !.pc = "probe", !.contract = g, !.preStart = preStart]]
  /\ UNCHANGED <<started, pidFile, servingState, servingUnit, stray, missed>>

\* The readiness probe is the first thing that is read; an endpoint that is
\* served may not answer it in time.
probeServingEndpoint(c) ==
  /\ ServingAt(c, "probe")
  /\ \E ready \in {EndpointReady, FALSE} :
       /\ servingCall' = [servingCall EXCEPT ![c].pc = "owner", ![c].ready = ready]
       /\ IF ready = EndpointReady THEN UNCHANGED <<missed, budget>> ELSE Trouble /\ missed' = (missed \/ stray # "none")
  /\ UNCHANGED <<started, pidFile, servingState, servingUnit, stray>>

\* A ready endpoint without its unit is adopted, and only with a pre-start
\* command or a pid file that names a living process.
AdoptsReady(c) == servingCall[c].ready
Adoptable(c) == servingProcessAlive \/ servingCall[c].preStart
servingSystemdUnitActive(c) ==
  /\ ServingAt(c, "owner")
  /\ LET adopts == servingCall[c].ready /\ ~servingUnit.active
     IN IF adopts /\ ~Adoptable(c) THEN ServingEnds(c)
        ELSE servingCall' = [servingCall EXCEPT ![c].pc = "decide",
               ![c].managed = servingUnit.active, ![c].adopts = adopts]
  /\ UNCHANGED <<started, pidFile, servingState, servingUnit, stray, missed, budget>>

\* Nothing to do, wait for the process that is there, or try to launch.
DecidesLaunch(c) ==
  /\ ServingAt(c, "decide")
  /\ LET call == servingCall[c]
         changed == ~servingAssignmentStateMatches(call.contract)
         settled == call.ready /\ ~call.adopts /\ ~changed
         warming == call.managed /\ ~changed /\ ~call.adopts
         occupied == servingProcessAlive /\ ~call.adopts /\ (~changed \/ ~call.managed)
     IN IF settled \/ warming \/ occupied THEN ServingGoes(c, "service")
        ELSE servingCall' = [servingCall EXCEPT ![c].pc = "claim", ![c].alive = servingProcessAlive]
  /\ UNCHANGED <<started, pidFile, servingState, servingUnit, stray, missed, budget>>

\* Under the mutex; a marker whose process is gone is claimed again.  The
\* pid file of a dead process is removed right after.
claimServingLaunch(c) ==
  /\ ServingAt(c, "claim")
  /\ LET call == servingCall[c]
     IN IF call.contract \in started /\ servingProcessAlive
        THEN ServingGoes(c, "service") /\ UNCHANGED <<started, pidFile>>
        ELSE /\ started' = started \cup {call.contract}
             /\ pidFile' = IF call.alive THEN pidFile ELSE "none"
             /\ ServingGoes(c, IF call.adopts /\ call.preStart THEN "prestart" ELSE "launch")
  /\ UNCHANGED <<servingState, servingUnit, stray, missed, budget>>

releaseServingLaunch(c) == started' = started \ {servingCall[c].contract} /\ ServingEnds(c)

\* The caller's pre-start command is to free the endpoint.
PreStart(c) ==
  /\ ServingAt(c, "prestart")
  /\ \/ /\ ServingGoes(c, "launch") /\ stray' = "none"
        /\ pidFile' = IF pidFile = "stray" THEN "dead" ELSE pidFile
        /\ UNCHANGED <<started, budget>>
     \/ Trouble /\ releaseServingLaunch(c) /\ UNCHANGED <<stray, pidFile>>
  /\ UNCHANGED <<servingState, servingUnit, missed>>

\* The launch command: the unit of an earlier launch is stopped ...
servingLaunchStops(c) ==
  /\ ServingAt(c, "launch") /\ ServingGoes(c, "run")
  /\ servingUnit' = NoUnit /\ pidFile' = "none"
  /\ UNCHANGED <<started, servingState, stray, missed, budget>>

\* ... systemd-run starts it anew, or fails unnoticed when a concurrent
\* launch has already created it ...
servingLaunchRuns(c) ==
  /\ ServingAt(c, "run") /\ ServingGoes(c, "poll")
  /\ \/ /\ servingUnit' = IF servingUnit.active THEN servingUnit
                          ELSE [runs |-> servingCall[c].contract, active |-> TRUE, warm |-> FALSE]
        /\ UNCHANGED budget
     \/ Trouble /\ UNCHANGED servingUnit
  /\ UNCHANGED <<started, pidFile, servingState, stray, missed>>

\* ... and the main pid, once the unit has a living one, goes to the pid file.
servingLaunchPolls(c) ==
  /\ ServingAt(c, "poll") /\ UNCHANGED budget
  /\ IF servingUnit.active THEN pidFile' = "unit" /\ ServingGoes(c, "record") /\ UNCHANGED started
     ELSE releaseServingLaunch(c) /\ UNCHANGED pidFile
  /\ UNCHANGED <<servingState, servingUnit, stray, missed>>

recordServingAssignmentState(c) ==
  /\ ServingAt(c, "record")
  /\ \/ servingState' = servingCall[c].contract /\ ServingGoes(c, "service") /\ UNCHANGED <<started, budget>>
     \/ Trouble /\ releaseServingLaunch(c) /\ UNCHANGED servingState
  /\ UNCHANGED <<pidFile, servingUnit, stray, missed>>

\* SetHostServiceState on a unit of the caller's, and the readiness report.
ReportsReadiness(c) ==
  /\ ServingAt(c, "service") /\ ServingEnds(c)
  /\ UNCHANGED <<started, pidFile, servingState, servingUnit, stray, missed, budget>>

----------------------------------------------------------------------------
\* The process of the unit listens, once nothing else does.
UnitWarms ==
  /\ stray = "none" /\ servingUnit.active /\ ~servingUnit.warm /\ servingUnit' = [servingUnit EXCEPT !.warm = TRUE]
  /\ UNCHANGED <<started, pidFile, servingState, stray, servingCall, missed, budget>>

\* The service dies: systemd restarts it under a new pid, or collects the unit.
UnitDies ==
  /\ servingUnit.active /\ Trouble
  /\ \/ servingUnit' = NoUnit
     \/ servingUnit' = [servingUnit EXCEPT !.warm = FALSE]
  /\ pidFile' = IF pidFile = "unit" THEN "dead" ELSE pidFile
  /\ UNCHANGED <<started, servingState, stray, servingCall, missed>>

\* Another launcher starts a process, which takes the endpoint if it is free;
\* it ends by itself or by the port guard of the one that starts beside it.
StrayComes ==
  /\ Trouble /\ ~EndpointReady /\ stray' = "unknown"
  /\ missed' = (servingUnit.active \/ \E c \in ServingCallers : servingCall[c].pc \notin {"idle", "probe", "service"})
  /\ UNCHANGED <<started, pidFile, servingState, servingUnit, servingCall>>
StrayEnds ==
  /\ Trouble /\ stray # "none" /\ stray' = "none"
  /\ pidFile' = IF pidFile = "stray" THEN "dead" ELSE pidFile
  /\ UNCHANGED <<started, servingState, servingUnit, servingCall, missed>>

\* The agent stops; the units outlive it.
ServingRestart ==
  /\ Trouble /\ started' = {} /\ servingCall' = [c \in ServingCallers |-> NoServingCall]
  /\ UNCHANGED <<pidFile, servingState, servingUnit, stray, missed>>

ServingNext ==
  \/ \E c \in ServingCallers :
       \/ \E g \in ServingContracts, p \in BOOLEAN : ReconcileServingAssignment(c, g, p)
       \/ validateServingAssignment(c) \/ probeServingEndpoint(c) \/ servingSystemdUnitActive(c) \/ DecidesLaunch(c) \/ claimServingLaunch(c) \/ PreStart(c)
       \/ servingLaunchStops(c) \/ servingLaunchRuns(c) \/ servingLaunchPolls(c)
       \/ recordServingAssignmentState(c) \/ ReportsReadiness(c)
  \/ UnitWarms \/ UnitDies \/ StrayComes \/ StrayEnds \/ ServingRestart

ServingSpec == ServingInit /\ BudgetInit /\ [][ServingNext]_<<servingVars, budget>>

----------------------------------------------------------------------------
\* As long as a process that no pid file ever named serves the endpoint, and no
\* probe of a call missed it (it failed, or ran before the process was there),
\* no unit runs and no call is about to start one: whatever calls interleave,
\* die or are retried, the port is taken over only after a pre-start command has
\* freed it ("must be explicitly adopted", assignment.go:428).
AdoptionIsExplicit ==
  stray = "unknown" /\ ~missed =>
    /\ ~servingUnit.active
    /\ \A c \in ServingCallers : servingCall[c].pc \notin {"launch", "run", "poll"}

=============================================================================
