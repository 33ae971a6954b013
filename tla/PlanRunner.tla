------------------------------ MODULE PlanRunner ------------------------------
(***************************************************************************)
(* The execution of a plan document (internal/plan/runner.go): levels,     *)
(* concurrency inside a level, reuse of earlier results, waits,            *)
(* convergence passes, compensation, and what the Sink has stored when the *)
(* process stops.                                                          *)
(*                                                                         *)
(* Nodes are numbered in the order of their IDs, by which a level is       *)
(* sorted.  A tool call is its effect on the host: ready[n] says whether   *)
(* the node's validate assertions would hold, and the host may drift.      *)
(* Outputs, arguments, schemas, timing and forEach are left out; recover   *)
(* is a second chance of Verify.                                           *)
(***************************************************************************)
EXTENDS Integers, FiniteSets

CONSTANTS
  Nodes,
  DependsOn,          \* the dependencies of each node
  Waits,              \* the nodes that wait for an answer
  Validated,          \* the nodes with a validate section
  Probes,             \* those of them with no action
  Recovers,           \* those of them with a recover section
  Guarded,            \* the nodes with a when section
  Targeted,           \* the nodes with a target section
  Continues,          \* continueOnFailure
  Compensable,        \* the nodes with a compensate section
  MaxConcurrency, MaxPasses, MaxAttempts, AbortOnExhaustion,
  MaxLaunches,        \* bound: requests to run the plan
  MaxAnswers,         \* bound: waits that are answered
  MaxDrifts           \* bound: changes of the host behind the plan

\* TopologicalLevels: a node is one level above the highest of its dependencies.
IsLevels(f) ==
  \A n \in Nodes :
    /\ \A m \in DependsOn[n] : f[m] < f[n]
    /\ f[n] = 1 \/ \E m \in DependsOn[n] : f[m] = f[n] - 1

\* Validate refuses a graph with a cycle, and a wait that also acts or validates.
ASSUME DocumentAssumption ==
  /\ Nodes \subseteq Nat \ {0} /\ IsFiniteSet(Nodes) /\ Nodes # {}
  /\ DependsOn \in [Nodes -> SUBSET Nodes]
  /\ \E f \in [Nodes -> 1..Cardinality(Nodes)] : IsLevels(f)
  /\ Waits \cup Validated \cup Guarded \cup Targeted \cup Continues
       \cup Compensable \subseteq Nodes
  /\ Probes \cup Recovers \subseteq Validated
  /\ Waits \cap (Validated \cup Compensable) = {}
  /\ {MaxConcurrency, MaxLaunches, MaxAnswers, MaxDrifts} \subseteq Nat
  /\ {MaxPasses, MaxAttempts} \subseteq Nat \ {0}
  /\ AbortOnExhaustion \in BOOLEAN

LevelOf == CHOOSE f \in [Nodes -> 1..Cardinality(Nodes)] : IsLevels(f)

VARIABLES
  run,       \* the RunState in memory: nodes, status and wait
  stored,    \* what the Sink wrote last
  phase,     \* "idle", "level", "check", "abort" or "compensate"
  pass, level,
  step,      \* where each node is in the current level or sweep
  local,     \* the node states of the level's goroutines
  errs,      \* the nodes of the level that returned an error
  attempt,   \* the attempts of the nodes at work
  ended,     \* the run's context is cancelled
  ready,     \* the host: the assertions of a validated node would hold
  launches, answers, drifts,
  calm       \* history: launched with nothing to do, and since then no drift
             \* and no failed validation that the plan went on after

vars == <<run, stored, phase, pass, level, step, local, errs, attempt, ended,
          ready, launches, answers, drifts, calm>>

NodeStatuses == {"pending", "satisfied", "applied", "skipped", "failed",
                 "unknown", "waiting", "expired", "compensated",
                 "compensation_failed"}
RunStatuses == {"pending", "running", "waiting", "completed", "failed",
                "unknown", "cancelled", "expired"}
Settled == {"applied", "satisfied", "skipped"}

NoWait == [node |-> 0, rev |-> 0]
WaitState == [node : Waits \cup {0}, rev : Nat]

RunState == [nodes : [Nodes -> NodeStatuses], status : RunStatuses,
             wait : WaitState]

TypeOK ==
  /\ run \in RunState /\ stored \in RunState
  /\ phase \in {"idle", "level", "check", "abort", "compensate"}
  /\ pass \in 1..MaxPasses
  /\ level \in 1..Cardinality(Nodes)
  /\ step \in [Nodes -> {"todo", "preflight", "dispatch", "verify", "done",
                         "merged"}]
  /\ local \in [Nodes -> NodeStatuses]
  /\ errs \subseteq Nodes
  /\ attempt \in [Nodes -> 0..MaxAttempts]
  /\ {ended, calm} \subseteq BOOLEAN
  /\ ready \in [Validated -> BOOLEAN]
  /\ launches \in 0..MaxLaunches /\ answers \in 0..MaxAnswers
  /\ drifts \in 0..MaxDrifts

\* initialPlanState
Init ==
  /\ run = [nodes |-> [n \in Nodes |-> "pending"], status |-> "pending",
            wait |-> NoWait]
  /\ stored = run
  /\ phase = "idle"
  /\ pass = 1 /\ level = 1
  /\ step = [n \in Nodes |-> "todo"]
  /\ local = run.nodes
  /\ errs = {}
  /\ attempt = [n \in Nodes |-> 0]
  /\ ended = FALSE
  /\ ready \in [Validated -> BOOLEAN]
  /\ launches = 0 /\ answers = 0 /\ drifts = 0
  /\ calm = FALSE

----------------------------------------------------------------------------
Level == {n \in Nodes : LevelOf[n] = level}
Before(m, n) == LevelOf[m] < LevelOf[n] \/ (LevelOf[m] = LevelOf[n] /\ m < n)

\* runLevel: a wait makes its level serial.
WaitLevel == Level \cap Waits # {}
\* Mutant of Serial: a wait does not make its level serial.
SerialWithoutBarrier == MaxConcurrency = 1 \/ Cardinality(Level) = 1

Serial == WaitLevel \/ MaxConcurrency = 1 \/ Cardinality(Level) = 1
Limit == IF MaxConcurrency = 0 THEN Cardinality(Level) ELSE MaxConcurrency

Busy == {n \in Level : step[n] \in {"preflight", "dispatch", "verify"}}

\* The errors that end the level; in a level with a wait every error does.
Fatal == IF WaitLevel THEN errs ELSE errs \ Continues

\* levelCtx is cancelled by the first fatal error of a concurrent level.
ContextEnded == ended \/ (~Serial /\ Fatal # {})

\* A node's status becomes s.  Serial levels work on the run's state and, with
\* emit, store it; concurrent ones work on clones of it and store nothing.
Records(n, s, emit) ==
  /\ IF Serial
     THEN /\ run' = [run EXCEPT !.nodes[n] = s]
          /\ stored' = IF emit THEN run' ELSE stored
          /\ UNCHANGED local
     ELSE /\ local' = [local EXCEPT ![n] = s]
          /\ UNCHANGED <<run, stored>>

Goes(n, to) == step' = [step EXCEPT ![n] = to]

\* runNode returns: nil or an error.
Returns(n, error) ==
  /\ Goes(n, IF Serial THEN "merged" ELSE "done")
  /\ errs' = IF error THEN errs \cup {n} ELSE errs
  /\ attempt' = [attempt EXCEPT ![n] = 0]

\* What a validate call may report.
Observed(n, seen) == \/ seen = "error"
                     \/ seen = "ready" /\ ready[n]
                     \/ seen = "notReady" /\ ~ready[n]

blockedByDependency(n) ==
  \E m \in DependsOn[n] : run.nodes[m] \in {"failed", "unknown", "skipped",
                            "compensation_failed", "waiting", "expired"}

dependencyApplied(n) == \E m \in DependsOn[n] : run.nodes[m] = "applied"

\* A node starts: in a serial level in the order of the level, when the one before
\* it has returned and no error ended the level; else when the semaphore allows.
Startable(n) ==
  /\ phase = "level" /\ n \in Level /\ step[n] = "todo"
  /\ IF Serial
     THEN /\ \A m \in Level : m < n => step[m] = "merged"
          /\ Fatal = {}
     ELSE Cardinality(Busy) < Limit

----------------------------------------------------------------------------
\* runNodeWithPreconditions.

control == <<phase, pass, level, ended, calm>>
bounds == <<launches, answers, drifts>>
host == <<ready, bounds>>

StartEnded(n) ==
  /\ Startable(n) /\ ContextEnded
  /\ Records(n, "unknown", FALSE)
  /\ Returns(n, TRUE)
  /\ UNCHANGED <<control, host>>

StartBlocked(n) ==
  /\ Startable(n) /\ ~ContextEnded
  /\ blockedByDependency(n)
  /\ Records(n, "skipped", FALSE)
  /\ Returns(n, n \notin Continues)
  /\ UNCHANGED <<control, host>>

Proceeds(n) == Startable(n) /\ ~ContextEnded /\ ~blockedByDependency(n)

StartGuarded(n) ==
  /\ Proceeds(n) /\ n \in Guarded
  /\ Records(n, "skipped", FALSE)
  /\ Returns(n, FALSE)
  /\ UNCHANGED <<control, host>>

\* An earlier result counts unless a dependency was applied in this pass.
Reusable(n) ==
  run.nodes[n] \in {"applied", "satisfied"} /\ ~dependencyApplied(n)

Reuse(n) ==
  /\ Proceeds(n) /\ Reusable(n)
  /\ n \in Validated => Observed(n, "ready")
  /\ Records(n, "satisfied", FALSE)
  /\ Returns(n, FALSE)
  /\ UNCHANGED <<control, host>>

\* The validate call failed: an error, and the node keeps its earlier status.  If
\* that is "applied" and the level goes on, the nodes downstream will act.
ReuseFails(n) ==
  /\ Proceeds(n) /\ Reusable(n) /\ n \in Validated
  /\ Returns(n, TRUE)
  /\ calm' = (calm /\ n \notin Continues)
  /\ UNCHANGED <<run, stored, local, phase, pass, level, ended, host>>

----------------------------------------------------------------------------
\* runNode.
Runs(n) ==
  /\ Proceeds(n)
  /\ Reusable(n) => n \in Validated /\ Observed(n, "notReady")

\* A forced action is not preceded by a validation.
StartNode(n) ==
  /\ Runs(n) /\ n \notin Waits
  /\ Records(n, "pending", TRUE)
  /\ Goes(n, IF n \in Validated /\ ~dependencyApplied(n)
              THEN "preflight" ELSE "dispatch")
  /\ UNCHANGED <<control, host, errs, attempt>>

\* The target is another host, or a wait's correlation cannot be resolved.
StartRefused(n) ==
  /\ Runs(n) /\ n \in Targeted \cup Waits
  /\ Records(n, "failed", TRUE)
  /\ Returns(n, TRUE)
  /\ UNCHANGED <<control, host>>

Preflight(n, seen) ==
  /\ step[n] = "preflight" /\ Observed(n, seen)
  /\ CASE seen = "ready" -> Records(n, "satisfied", TRUE) /\ Returns(n, FALSE)
       [] seen = "error" -> Records(n, "failed", TRUE) /\ Returns(n, TRUE)
       [] seen = "notReady" -> /\ Goes(n, "dispatch")
                              /\ UNCHANGED <<run, stored, local, errs,
                                              attempt>>
  /\ UNCHANGED <<control, host>>

NoAction(n) ==
  /\ step[n] = "dispatch" /\ n \in Probes
  /\ Records(n, "failed", TRUE)
  /\ Returns(n, TRUE)
  /\ UNCHANGED <<control, host>>

Attempts(n) == step[n] = "dispatch" /\ n \notin Probes
Counts(n) == attempt' = [attempt EXCEPT ![n] = @ + 1]

\* A call of the tool, whatever it reports, may have taken effect.
MayTakeEffect(n) ==
  ready' \in IF n \in Validated THEN {ready, [ready EXCEPT ![n] = TRUE]} ELSE {ready}

\* The arguments cannot be resolved: the node stays pending.
ActionUnresolved(n) ==
  /\ Attempts(n)
  /\ Returns(n, TRUE)
  /\ UNCHANGED <<run, stored, local, control, host>>

ActionDone(n) ==
  /\ Attempts(n)
  /\ MayTakeEffect(n)
  /\ IF n \in Validated
     THEN /\ Goes(n, "verify") /\ Counts(n)
          /\ UNCHANGED <<run, stored, local, errs>>
     ELSE Records(n, "applied", TRUE) /\ Returns(n, FALSE)
  /\ UNCHANGED <<control, bounds>>

ActionRetried(n) ==
  /\ Attempts(n) /\ Counts(n) /\ attempt'[n] < MaxAttempts
  /\ MayTakeEffect(n)
  /\ UNCHANGED <<run, stored, local, step, errs, control, bounds>>

\* The last attempt failed, or the output does not have its schema.
ActionFails(n) ==
  /\ Attempts(n)
  /\ MayTakeEffect(n)
  /\ Records(n, "failed", TRUE)
  /\ Returns(n, TRUE)
  /\ UNCHANGED <<control, bounds>>

\* The call failed after its timeout or the end of the context.
ActionStopped(n) ==
  /\ Attempts(n)
  /\ MayTakeEffect(n)
  /\ Records(n, "unknown", TRUE)
  /\ Returns(n, TRUE)
  /\ UNCHANGED <<control, bounds>>

\* Ready, at once or after a recover call.
Verified(n) ==
  /\ step[n] = "verify"
  /\ ready[n] \/ n \in Recovers
  /\ ready' = [ready EXCEPT ![n] = TRUE]
  /\ Records(n, "applied", TRUE)
  /\ Returns(n, FALSE)
  /\ UNCHANGED <<control, bounds>>

\* A recover call may take effect without the node being seen ready.
MayRecover(n) == IF n \in Recovers THEN MayTakeEffect(n) ELSE UNCHANGED ready

VerifyRetried(n) ==
  /\ step[n] = "verify" /\ attempt[n] < MaxAttempts
  /\ MayRecover(n)
  /\ Goes(n, "dispatch")
  /\ UNCHANGED <<run, stored, local, errs, control, bounds, attempt>>

VerifyFails(n) ==
  /\ step[n] = "verify" /\ attempt[n] = MaxAttempts
  /\ MayRecover(n)
  /\ Records(n, "failed", TRUE)
  /\ Returns(n, TRUE)
  /\ UNCHANGED <<control, bounds>>

\* The arguments of recover do not have their schema: the node stays pending.
RecoverUnresolved(n) ==
  /\ step[n] = "verify" /\ n \in Recovers
  /\ Returns(n, TRUE)
  /\ UNCHANGED <<run, stored, local, control, host>>

\* The context ended in a recover call or in the backoff.
VerifyStopped(n) ==
  /\ step[n] = "verify"
  /\ n \in Recovers \/ attempt[n] < MaxAttempts
  /\ MayRecover(n)
  /\ Records(n, "unknown", TRUE)
  /\ Returns(n, TRUE)
  /\ UNCHANGED <<control, bounds>>

----------------------------------------------------------------------------
\* The run stops: what it had in memory besides the stored state is gone.
Stops ==
  /\ phase' = "idle" /\ pass' = 1 /\ level' = 1
  /\ step' = [n \in Nodes |-> "todo"]
  /\ local' = run'.nodes
  /\ errs' = {}
  /\ attempt' = [n \in Nodes |-> 0]
  /\ ended' = FALSE
  /\ calm' = FALSE

\* The revision counts on from a wait of the same node that is still recorded.
ReachWait(n) ==
  /\ Runs(n) /\ n \in Waits
  /\ run' = [nodes |-> [run.nodes EXCEPT ![n] = "waiting"],
             status |-> "waiting",
             wait |-> [node |-> n, rev |-> IF run.wait.node = n
                                           THEN run.wait.rev + 1 ELSE 1]]
  /\ stored' = run'
  /\ Stops
  /\ UNCHANGED host

\* The results of a concurrent level are taken over and stored in order.
Merge(n) ==
  /\ phase = "level" /\ n \in Level /\ step[n] = "done"
  /\ \A m \in Level : step[m] \in {"done", "merged"} /\ (m < n => step[m] = "merged")
  /\ run' = [run EXCEPT !.nodes[n] = local[n]]
  /\ stored' = run'
  /\ Goes(n, "merged")
  /\ UNCHANGED <<control, host, local, errs, attempt>>

\* A new loop over the nodes begins.
Restarts ==
  /\ step' = [n \in Nodes |-> "todo"]
  /\ local' = run'.nodes
  /\ errs' = {}
  /\ attempt' = [n \in Nodes |-> 0]
  /\ UNCHANGED calm

Aborts ==
  /\ phase' = "abort" /\ pass' = 1 /\ level' = 1
  /\ UNCHANGED <<run, stored, ended, host>>
  /\ Restarts

LevelMerged == phase = "level" /\ \A n \in Level : step[n] = "merged"

LevelFails ==
  /\ phase = "level" /\ Fatal # {}
  /\ Serial \/ LevelMerged
  /\ Aborts

LevelEnds ==
  /\ LevelMerged /\ Fatal = {}
  /\ IF \E n \in Nodes : LevelOf[n] > level
     THEN level' = level + 1 /\ UNCHANGED phase
     ELSE phase' = "check" /\ UNCHANGED level
  /\ UNCHANGED <<run, stored>>
  /\ Restarts
  /\ UNCHANGED <<pass, ended, host>>

----------------------------------------------------------------------------
\* checkConverged: the sweep that precedes another pass, and the verdict.
Sweeping(n) ==
  /\ phase = "check" /\ pass < MaxPasses
  /\ step[n] = "todo"
  /\ \A m \in Nodes : Before(m, n) => step[m] = "done"

\* Mutant of NextPass: the pass is not counted.
NextPassUncounted ==
  /\ phase' = "level" /\ level' = 1
  /\ UNCHANGED pass
  /\ Restarts

NextPass ==
  /\ phase' = "level" /\ pass' = pass + 1 /\ level' = 1
  /\ Restarts

\* A validated node is observed again; a node without validation counts as it is.
SweepKeeps(n) ==
  /\ Sweeping(n)
  /\ run.nodes[n] \in Settled
  /\ IF n \in Validated /\ run.nodes[n] # "skipped"
     THEN Observed(n, "ready") /\ run' = [run EXCEPT !.nodes[n] = "satisfied"]
     ELSE UNCHANGED run
  /\ Goes(n, "done")
  /\ UNCHANGED <<stored, local, control, errs, host, attempt>>

SweepRegressed(n) ==
  /\ Sweeping(n)
  /\ IF run.nodes[n] \in Settled
     THEN /\ n \in Validated /\ run.nodes[n] # "skipped" /\ Observed(n, "notReady")
          /\ run' = [run EXCEPT !.nodes[n] = "pending"]
          /\ stored' = run'
     ELSE UNCHANGED <<run, stored>>
  /\ NextPass
  /\ UNCHANGED <<ended, host>>

SweepFails(n) ==
  /\ Sweeping(n)
  /\ n \in Validated /\ run.nodes[n] \in Settled \ {"skipped"}
  /\ Aborts

Swept == phase = "check" /\ (pass < MaxPasses => \A n \in Nodes : step[n] = "done")

\* Converged, or not converged after the last pass of a plan that accepts it.
Completes ==
  /\ Swept
  /\ (\A n \in Nodes : run.nodes[n] \in Settled) \/ ~AbortOnExhaustion
  /\ run' = [run EXCEPT !.status = "completed"]
  /\ stored' = run'
  /\ Stops
  /\ UNCHANGED host

Exhausted ==
  /\ Swept
  /\ AbortOnExhaustion /\ \E n \in Nodes : run.nodes[n] \notin Settled
  /\ Aborts

----------------------------------------------------------------------------
abortRun ==
  /\ phase = "abort"
  /\ run' = [run EXCEPT !.status = IF ended THEN "unknown" ELSE "failed"]
  /\ stored' = run'
  /\ phase' = "compensate"
  /\ Restarts
  /\ UNCHANGED <<pass, level, ended, host>>

\* compensateApplied, in the reverse of the topological order.
ToCompensate == {n \in Compensable : run.nodes[n] = "applied" /\ step[n] = "todo"}

\* Mutant of compensate: in topological order.
compensateForward(n, result) ==
  /\ phase = "compensate" /\ n \in ToCompensate
  /\ \A m \in ToCompensate \ {n} : Before(n, m)
  /\ run' = IF result = "unresolved" THEN run
            ELSE [run EXCEPT !.nodes[n] = result]
  /\ stored' = IF result = "unresolved" THEN stored ELSE run'
  /\ ready' \in IF result # "unresolved" /\ n \in Validated
                THEN {ready, [ready EXCEPT ![n] = FALSE]} ELSE {ready}
  /\ Goes(n, "done")
  /\ UNCHANGED <<control, bounds, local, errs, attempt>>

compensate(n, result) ==
  /\ phase = "compensate" /\ n \in ToCompensate
  /\ \A m \in ToCompensate \ {n} : Before(m, n)
  /\ run' = IF result = "unresolved" THEN run
            ELSE [run EXCEPT !.nodes[n] = result]
  /\ stored' = IF result = "unresolved" THEN stored ELSE run'
  /\ ready' \in IF result # "unresolved" /\ n \in Validated
                THEN {ready, [ready EXCEPT ![n] = FALSE]} ELSE {ready}
  /\ Goes(n, "done")
  /\ UNCHANGED <<control, bounds, local, errs, attempt>>

\* executeHostPlan stores the state that Run returned.
RunReturns ==
  /\ phase = "compensate" /\ ToCompensate = {}
  /\ stored' = run
  /\ UNCHANGED run
  /\ Stops
  /\ UNCHANGED host

----------------------------------------------------------------------------
\* What happens to a run from outside.

\* run_host_plan starts the run from what was stored of it.
Launch ==
  /\ phase = "idle" /\ launches < MaxLaunches
  /\ stored.status # "waiting"
  /\ launches' = launches + 1
  /\ run' = [stored EXCEPT !.status = "running"]
  /\ stored' = run'
  /\ phase' = "level"
  /\ local' = run'.nodes
  /\ calm' = /\ \A n \in Nodes : stored.nodes[n] \in {"applied", "satisfied"}
             /\ \A n \in Validated : ready[n]
  /\ UNCHANGED <<pass, level, step, errs, attempt, ended, ready, answers,
                 drifts>>

\* Resume consumes the wait and stores that before any node runs.
Resume ==
  /\ phase = "idle" /\ stored.status = "waiting" /\ answers < MaxAnswers
  /\ answers' = answers + 1
  /\ run' = [nodes |-> [stored.nodes EXCEPT ![stored.wait.node] = "satisfied"],
             status |-> "running", wait |-> NoWait]
  /\ stored' = run'
  /\ phase' = "level"
  /\ local' = run'.nodes
  /\ UNCHANGED <<pass, level, step, errs, attempt, ended, ready, launches, drifts,
                 calm>>

ResumeExpired ==
  /\ phase = "idle" /\ stored.status = "waiting"
  /\ run' = [stored EXCEPT !.status = "expired",
                           !.nodes[stored.wait.node] = "expired"]
  /\ stored' = run'
  /\ Stops
  /\ UNCHANGED host

\* cancelHostPlan on a run that waits: only the status changes.
CancelWaiting ==
  /\ phase = "idle" /\ stored.status = "waiting"
  /\ run' = [stored EXCEPT !.status = "cancelled"]
  /\ stored' = run'
  /\ Stops
  /\ UNCHANGED host

Cancel ==
  /\ phase # "idle" /\ ~ended
  /\ ended' = TRUE
  /\ UNCHANGED <<run, stored, phase, pass, level, step, local, errs, attempt, host,
                 calm>>

\* The process stops; state.Open settles the run.
Crash ==
  /\ phase # "idle"
  /\ stored' = [stored EXCEPT !.status = IF @ = "running" THEN "unknown" ELSE @]
  /\ run' = stored'
  /\ Stops
  /\ UNCHANGED host

Drift(n) ==
  /\ drifts < MaxDrifts /\ ready[n]
  /\ drifts' = drifts + 1
  /\ ready' = [ready EXCEPT ![n] = FALSE]
  /\ calm' = FALSE
  /\ UNCHANGED <<run, stored, phase, pass, level, ended, step, local, errs, attempt,
                 launches, answers>>

Node(n) ==
  \/ StartEnded(n) \/ StartBlocked(n) \/ StartGuarded(n)
  \/ Reuse(n) \/ ReuseFails(n) \/ StartNode(n) \/ StartRefused(n) \/ ReachWait(n)
  \/ \E seen \in {"ready", "notReady", "error"} : Preflight(n, seen)
  \/ NoAction(n) \/ ActionUnresolved(n) \/ ActionDone(n) \/ ActionRetried(n)
  \/ ActionFails(n) \/ ActionStopped(n)
  \/ Verified(n) \/ VerifyRetried(n) \/ VerifyFails(n) \/ VerifyStopped(n)
  \/ RecoverUnresolved(n)
  \/ Merge(n)
  \/ SweepKeeps(n) \/ SweepRegressed(n) \/ SweepFails(n)
  \/ \E result \in {"compensated", "compensation_failed", "unresolved"} :
       compensate(n, result)

Runner ==
  \/ \E n \in Nodes : Node(n)
  \/ LevelFails \/ LevelEnds \/ Completes \/ Exhausted \/ abortRun \/ RunReturns

Next ==
  \/ Runner
  \/ Launch \/ Resume \/ ResumeExpired \/ CancelWaiting
  \/ Cancel \/ Crash
  \/ \E n \in Validated : Drift(n)

Spec == Init /\ [][Next]_vars

\* Goroutines are scheduled and every tool call returns; where the document sets
\* timeoutMs, the runner itself ends the call.
LiveSpec == Spec /\ WF_vars(Runner)

----------------------------------------------------------------------------
Acting == {n \in Level : phase = "level" /\ step[n] \in {"dispatch", "verify"}}

\* A node acts only on dependencies that were applied or found satisfied.  The one
\* exception is the gap that an unresolved action leaves: the node returns its
\* error without a status of its own, and continueOnFailure lets the plan go on.
DependenciesFirst ==
  \A n \in Acting : \A m \in DependsOn[n] :
    \/ run.nodes[m] \in {"applied", "satisfied"}
    \/ m \in Continues /\ run.nodes[m] = "pending"

\* A run over a plan whose nodes are all done and still hold calls no action
\* ("re-running an already satisfied recipe does not duplicate actions"), unless
\* a validation fails and continueOnFailure lets the plan go on.
NothingToDoNothingDone == calm => Acting = {}

\* Within a pass nothing downstream of an applied node is taken for satisfied.
DownstreamFollows ==
  \A n \in Level : phase = "level" /\ step[n] = "merged"
                     /\ run.nodes[n] = "satisfied" => ~dependencyApplied(n)

\* A wait is a barrier: a node that comes after it, in its level or a later one,
\* acts only when the wait has been answered or was skipped.
WaitIsBarrier ==
  \A n \in Acting : \A w \in Waits :
    Before(w, n) => run.nodes[w] \in {"satisfied", "skipped"}

\* A node is compensated before what it depends on.
CompensatedInReverse ==
  [][\A n \in Nodes :
       run.nodes[n] = "applied" /\ run'.nodes[n] = "compensated" =>
         \A m \in ToCompensate : n \notin DependsOn[m]]_vars

\* A run ends or waits, whatever its tools report.
RunEnds == (phase # "idle") ~> (phase = "idle")

\* What every pass keeps to, whatever the outcomes and the order of the calls:
\* dependencies first, waits are barriers, results are reused exactly when
\* nothing below them changed.
RunnerConsistent ==
  TypeOK /\ DependenciesFirst /\ WaitIsBarrier /\ DownstreamFollows /\ NothingToDoNothingDone
=============================================================================
