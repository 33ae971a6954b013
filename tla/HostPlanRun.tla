----------------------------- MODULE HostPlanRun -----------------------------
(***************************************************************************)
(* The life of one durable plan run (internal/hostmcp/plan_run.go): the    *)
(* requests that start it, the goroutine that executes it, the input that  *)
(* resumes it, cancellation, shutdown and restart.                         *)
(*                                                                         *)
(* One (planId, generation, idempotencyKey) is one row of plan_runs and    *)
(* one task handle with the row's run ID.  What the nodes do is left to    *)
(* the runner: here a run emits "running" any number of times and ends     *)
(* completed, failed or at a wait.  Of the run state that is stored as JSON *)
(* the status and whether a wait is outstanding are kept; waits are not    *)
(* numbered.  Hashes, recipes, activation and redaction are left out, and  *)
(* database errors are not modelled.                                       *)
(*                                                                         *)
(* Slots are the goroutines: a launching request becomes the executor it   *)
(* starts, a resumer is started by an answered wait.  Each slot is used    *)
(* once, so the two sets bound the requests and the answers explored; one  *)
(* cancellation is explored.  Updaters are the tasks/update requests that  *)
(* may be in progress at once.                                             *)
(*                                                                         *)
(* Events are what may happen besides: "cancel", "bind" (bindTask refuses  *)
(* the reservation), "expiry" (a wait passes expiresAt), "catalog" (the    *)
(* catalog changed, or an answer cannot be projected: Resume is refused).  *)
(***************************************************************************)
EXTENDS TaskRegistry, Naturals, FiniteSets

CONSTANTS Launchers, Resumers, Updaters,
          Events,
          MaxCrashes,    \* bound: crashes explored
          None

Slots == Launchers \cup Resumers

ASSUME SlotsAssumption == /\ IsFiniteSet(Slots)
                          /\ Launchers \cap Resumers = {}
                          /\ None \notin Slots
                          /\ Events \subseteq {"cancel", "bind", "expiry", "catalog"}
                          /\ MaxCrashes \in Nat

VARIABLES
  row,          \* the plan_runs row: status and stored run state
  rec,          \* the task record
  snap,         \* the stored task snapshot
  recCancel,    \* the slot whose context the record's cancel function ends
  planCancels,  \* the slot registered for the run
  planWG,
  server,       \* "open", "closing" (closed is set) or "closed" (no store)
  pc,           \* where each slot is
  ended,        \* the context of the slot is cancelled
  mine,         \* the run state a slot carries
  expired,      \* the outstanding wait is past its expiry
  request,      \* planResumeRequests holds an answer
  canceller,    \* where cancelHostPlan is
  cancelRead,   \* the row it read
  updater,      \* where each tasks/update is
  crashes

vars == <<row, rec, snap, recCancel, planCancels, planWG, server, pc, ended,
          mine, expired, request, canceller, cancelRead, updater, crashes>>

InFlight == {"working", "running", "waiting"}
RunStatuses == InFlight \cup {"absent", "completed", "failed", "cancelled",
                               "expired", "unknown"}
RunState == [status : RunStatuses, wait : BOOLEAN]
NoRun == [status |-> "absent", wait |-> FALSE]

\* ValidateResume's first fence.
Waiting(run) == run.status = "waiting" /\ run.wait

Launching == {"begun", "create", "check", "start", "task", "register", "bind"}
Executing == {"taken", "running", "ended", "erred", "commit", "reject", "abandon",
              "complete", "fail", "waited", "persist", "deferred", "leaving"}

TypeOK ==
  /\ row \in RunState
  /\ rec \in Record
  /\ snap \in Snapshot
  /\ {recCancel, planCancels} \subseteq Slots \cup {None}
  /\ planWG \in 0..Cardinality(Slots)
  /\ server \in {"open", "closing", "closed"}
  /\ pc \in [Slots -> {"idle", "done", "resuming", "loaded"} \cup Launching
                      \cup Executing]
  /\ ended \in [Slots -> BOOLEAN]
  /\ mine \in [Slots -> RunState]
  /\ {expired, request} \subseteq BOOLEAN
  /\ canceller \in {"idle", "stop", "task", "row", "persist", "done"}
  /\ cancelRead \in RunState
  /\ updater \in [Updaters -> {"idle", "update", "persist"}]
  /\ crashes \in 0..MaxCrashes

Init ==
  /\ row = NoRun
  /\ rec = Absent
  /\ snap = NoSnapshot
  /\ recCancel = None /\ planCancels = None
  /\ planWG = 0
  /\ server = "open"
  /\ pc = [s \in Slots |-> "idle"]
  /\ ended = [s \in Slots |-> FALSE]
  /\ mine = [s \in Slots |-> NoRun]
  /\ expired = FALSE /\ request = FALSE
  /\ canceller = "idle" /\ cancelRead = NoRun
  /\ updater = [u \in Updaters |-> "idle"]
  /\ crashes = 0

callers == <<canceller, cancelRead, updater>>
cancels == <<recCancel, planCancels>>
waits == <<expired, request>>

Goes(s, to) == pc' = [pc EXCEPT ![s] = to]
Carries(s, run) == mine' = [mine EXCEPT ![s] = run]
CancelContext(c) == ended' = [s \in Slots |-> ended[s] \/ s = c]

\* The deferred planWG.Done.
Returns(s) ==
  /\ Goes(s, "done")
  /\ planWG' = planWG - 1
  /\ Carries(s, NoRun)
  /\ ended' = [ended EXCEPT ![s] = FALSE]

----------------------------------------------------------------------------
\* handleRunHostPlanWithMetadata.

Begin(l) ==
  /\ pc[l] = "idle" /\ server = "open"
  /\ planWG' = planWG + 1
  /\ Goes(l, "begun")
  /\ UNCHANGED <<row, rec, snap, cancels, server, ended, mine, waits, callers,
                 crashes>>

\* Mutant of FindPlan: running is not treated as in flight.
FindPlanAgain(l) ==
  /\ pc[l] = "begun"
  /\ IF row.status \in {"working", "waiting"} THEN Returns(l)
     ELSE /\ Goes(l, IF row.status = "absent" THEN "create" ELSE "check")
          /\ Carries(l, row)
          /\ UNCHANGED <<planWG, ended>>
  /\ UNCHANGED <<row, rec, snap, cancels, server, waits, callers, crashes>>

\* FindPlan: a run in flight is answered with its record.
FindPlan(l) ==
  /\ pc[l] = "begun"
  /\ IF row.status \in InFlight THEN Returns(l)
     ELSE /\ Goes(l, IF row.status = "absent" THEN "create" ELSE "check")
          /\ Carries(l, row)
          /\ UNCHANGED <<planWG, ended>>
  /\ UNCHANGED <<row, rec, snap, cancels, server, waits, callers, crashes>>

\* CreatePlan inserts the row or finds the one another request inserted.
CreatePlan(l) ==
  /\ pc[l] = "create"
  /\ IF row.status \in InFlight THEN Returns(l) /\ UNCHANGED row
     ELSE /\ row' = IF row.status = "absent" THEN [NoRun EXCEPT !.status = "working"]
                    ELSE row
          /\ Goes(l, "check")
          /\ Carries(l, row')
          /\ UNCHANGED <<planWG, ended>>
  /\ UNCHANGED <<rec, snap, cancels, server, waits, callers, crashes>>

\* A live task is answered with its record too, whatever the row says.
CheckTask(l) ==
  /\ pc[l] = "check"
  /\ IF rec.status \in Live THEN Returns(l)
     ELSE Goes(l, "start") /\ UNCHANGED <<planWG, mine, ended>>
  /\ UNCHANGED <<row, rec, snap, cancels, server, waits, callers, crashes>>

StartRow(l) ==
  /\ pc[l] = "start"
  /\ row' = [mine[l] EXCEPT !.status = "running"]
  /\ Carries(l, row')
  /\ Goes(l, "task")
  /\ UNCHANGED <<rec, snap, cancels, planWG, server, ended, waits, callers,
                 crashes>>

\* A reused working record keeps the cancel function it was created with.
CreateTask(l) ==
  /\ pc[l] = "task"
  /\ rec' = CreateWithID(rec)
  /\ recCancel' = IF rec.status = "working" THEN recCancel ELSE l
  /\ Goes(l, "register")
  /\ UNCHANGED <<row, snap, planCancels, planWG, server, ended, mine, waits,
                 callers, crashes>>

Register(l) ==
  /\ pc[l] = "register" /\ server = "open"
  /\ planCancels' = l
  /\ Goes(l, "bind")
  /\ UNCHANGED <<row, rec, snap, recCancel, planWG, server, ended, mine, waits,
                 callers, crashes>>

\* Mutant of RegisterClosed: the row is left as StartRow wrote it.
RegisterClosedSilently(l) ==
  /\ pc[l] = "register" /\ server # "open"
  /\ rec' = Cancel(rec)
  /\ Returns(l)
  /\ UNCHANGED <<row, snap, cancels, server, waits, callers, crashes>>

\* The server was closed meanwhile: the task is cancelled and the row unknown.
RegisterClosed(l) ==
  /\ pc[l] = "register" /\ server # "open"
  /\ rec' = Cancel(rec)
  /\ row' = [mine[l] EXCEPT !.status = "unknown"]
  /\ Returns(l)
  /\ UNCHANGED <<snap, cancels, server, waits, callers, crashes>>

Launch(l) ==
  /\ pc[l] = "bind"
  /\ Goes(l, "running")
  /\ UNCHANGED <<row, rec, snap, cancels, planWG, server, ended, mine, waits,
                 callers, crashes>>

\* bindTask failed after launched was set: nothing calls planWG.Done, and the
\* cancel function stays registered.
BindRefused(l) ==
  /\ pc[l] = "bind" /\ "bind" \in Events
  /\ rec' = Fail(rec)
  /\ snap' = ToGetTaskResult(rec')
  /\ row' = [mine[l] EXCEPT !.status = "failed"]
  /\ ended' = [ended EXCEPT ![l] = FALSE]
  /\ Goes(l, "done")
  /\ Carries(l, NoRun)
  /\ UNCHANGED <<cancels, planWG, server, waits, callers, crashes>>

----------------------------------------------------------------------------
\* executeHostPlan.

\* The Sink stores the state a run carries.
Stores(s, run) == row' = run /\ Carries(s, run)

\* Run stores its progress.
Emit(s) ==
  /\ pc[s] = "running"
  /\ row' = mine[s]
  /\ UNCHANGED <<rec, snap, cancels, planWG, server, pc, ended, mine, waits,
                 callers, crashes>>

\* Run returned: the plan completed, or abortRun stored why it did not and runErr
\* is set.
RunEnds(s, status) ==
  /\ pc[s] = "running"
  /\ status \in {"completed", "failed"}
  /\ Stores(s, [mine[s] EXCEPT
       !.status = IF status = "failed" /\ ended[s] THEN "unknown" ELSE status])
  /\ Goes(s, IF status = "completed" THEN "ended" ELSE "erred")
  /\ UNCHANGED <<rec, snap, cancels, planWG, server, ended, waits, callers,
                 crashes>>

\* Run reached a wait node; the Sink stored it.
RunWaits(s) ==
  /\ pc[s] = "running"
  /\ Stores(s, [status |-> "waiting", wait |-> TRUE])
  /\ expired' = FALSE
  /\ Goes(s, "waited")
  /\ UNCHANGED <<rec, snap, cancels, planWG, server, ended, request, callers,
                 crashes>>

RequireTaskInput(s) ==
  /\ pc[s] = "waited"
  /\ rec' = RequireInput(rec, InputKeys)
  /\ Goes(s, IF rec.status \in Live THEN "persist" ELSE "deferred")
  /\ UNCHANGED <<row, snap, cancels, planWG, server, ended, mine, waits,
                 callers, crashes>>

\* What is stored is the copy RequireInputWithMetadata returned.
PersistWait(s) ==
  /\ pc[s] = "persist"
  /\ snap' = ToGetTaskResult(CreateWithInput(InputKeys))
  /\ Goes(s, "deferred")
  /\ UNCHANGED <<row, rec, cancels, planWG, server, ended, mine, waits, callers,
                 crashes>>

\* A cancelled task decides the status; an error in a run whose context ended
\* is unknown.
ReadTask(s) ==
  /\ pc[s] \in {"ended", "erred"}
  /\ IF rec.status = "cancelled"
     THEN /\ Carries(s, [mine[s] EXCEPT !.status = "cancelled"])
          /\ Goes(s, "abandon")
     ELSE /\ Carries(s, [mine[s] EXCEPT
               !.status = IF pc[s] = "erred" /\ ended[s] THEN "unknown" ELSE @])
          /\ Goes(s, IF pc[s] = "erred" THEN "reject" ELSE "commit")
  /\ UNCHANGED <<row, rec, snap, cancels, planWG, server, ended, waits, callers,
                 crashes>>

Commit(s) ==
  /\ pc[s] \in {"commit", "reject", "abandon"}
  /\ row' = mine[s]
  /\ Goes(s, CASE pc[s] = "commit" -> "complete"
                [] pc[s] = "reject" -> "fail"
                [] pc[s] = "abandon" -> "deferred")
  /\ UNCHANGED <<rec, snap, cancels, planWG, server, ended, mine, waits, callers,
                 crashes>>

\* The task ends in memory; its snapshot is not written.
Settle(s) ==
  /\ pc[s] \in {"complete", "fail"}
  /\ rec' = IF pc[s] = "complete" THEN Complete(rec) ELSE Fail(rec)
  /\ Goes(s, "deferred")
  /\ UNCHANGED <<row, snap, cancels, planWG, server, ended, mine, waits, callers,
                 crashes>>

\* The deferred delete, whoever is registered by now, and cancel().
Deregister(s) ==
  /\ pc[s] = "deferred"
  /\ planCancels' = None
  /\ CancelContext(s)
  /\ Goes(s, "leaving")
  /\ UNCHANGED <<row, rec, snap, recCancel, planWG, server, mine, waits, callers,
                 crashes>>

\* Mutant of Leave: a run that waits keeps its reference to planWG.
LeaveWaiting(s) ==
  /\ pc[s] = "leaving"
  /\ Goes(s, "done")
  /\ planWG' = IF mine[s].wait THEN planWG ELSE planWG - 1
  /\ Carries(s, NoRun)
  /\ ended' = [ended EXCEPT ![s] = FALSE]
  /\ UNCHANGED <<row, rec, snap, cancels, server, waits, callers, crashes>>

\* The deferred planWG.Done.
Leave(s) ==
  /\ pc[s] = "leaving"
  /\ Returns(s)
  /\ UNCHANGED <<row, rec, snap, cancels, server, waits, callers, crashes>>

----------------------------------------------------------------------------
\* tasks/update.  An answer is validated against the stored wait, recorded, and
\* given to the task; its continuation starts a resumer.

WaitExpires ==
  /\ "expiry" \in Events
  /\ Waiting(row) /\ ~expired
  /\ expired' = TRUE
  /\ UNCHANGED <<row, rec, snap, cancels, planWG, server, pc, ended, mine,
                 request, callers, crashes>>

\* validateHostPlanTaskUpdate
AnswerValidated(u) ==
  /\ updater[u] = "idle" /\ server = "open"
  /\ \E r \in Resumers : pc[r] = "idle"
  /\ rec.status = "input_required"
  /\ Waiting(row) /\ ~expired
  /\ request' = TRUE
  /\ updater' = [updater EXCEPT ![u] = "update"]
  /\ UNCHANGED <<row, rec, snap, cancels, planWG, server, pc, ended, mine,
                 expired, canceller, cancelRead, crashes>>

\* Registry.Update and queueHostPlanResume, which starts a goroutine only while
\* the stored state has a wait and the server is open.
AnswerAccepted(u, r) ==
  /\ updater[u] = "update"
  /\ UpdateResumes(rec, InputKeys)
  /\ pc[r] = "idle"
  /\ rec' = Update(rec, InputKeys)
  /\ IF row.wait /\ server = "open"
     THEN Goes(r, "resuming") /\ request' = TRUE
     ELSE UNCHANGED <<pc, request>>
  /\ updater' = [updater EXCEPT ![u] = "persist"]
  /\ UNCHANGED <<row, snap, cancels, planWG, server, ended, mine, expired,
                 canceller, cancelRead, crashes>>

\* Another answer was accepted in between; what this one recorded stays.
AnswerTooLate(u) ==
  /\ updater[u] = "update"
  /\ rec.status # "input_required"
  /\ updater' = [updater EXCEPT ![u] = "idle"]
  /\ UNCHANGED <<row, rec, snap, cancels, planWG, server, pc, ended, mine, waits,
                 canceller, cancelRead, crashes>>

\* The record that Update returned was cloned while it was working.
AnswerPersists(u) ==
  /\ updater[u] = "persist"
  /\ updater' = [updater EXCEPT ![u] = "idle"]
  /\ snap' = IF server = "closed" THEN snap ELSE ToGetTaskResult(newRecord)
  /\ UNCHANGED <<row, rec, cancels, planWG, server, pc, ended, mine, waits,
                 canceller, cancelRead, crashes>>

\* resumeHostPlan reads the row and then, with planMu, takes the run over.
ResumeReads(r) ==
  /\ pc[r] = "resuming"
  /\ IF server = "closed"
     THEN Goes(r, "done") /\ UNCHANGED mine
     ELSE Goes(r, "loaded") /\ Carries(r, row)
  /\ UNCHANGED <<row, rec, snap, cancels, planWG, server, ended, waits, callers,
                 crashes>>

\* The server was closed, or another resumer took the answer and no wait is left.
ResumeRefused(r) ==
  /\ pc[r] = "loaded"
  /\ server # "open" \/ (~request /\ ~mine[r].wait)
  /\ Goes(r, "done")
  /\ Carries(r, NoRun)
  /\ UNCHANGED <<row, rec, snap, cancels, planWG, server, ended, waits, callers,
                 crashes>>

\* Mutant of Resume: the goroutine is not counted.
ResumeUncounted(r) ==
  /\ pc[r] = "loaded" /\ server = "open"
  /\ request \/ mine[r].wait
  /\ planCancels' = r
  /\ request' = FALSE
  /\ Goes(r, "taken")
  /\ UNCHANGED <<row, rec, snap, recCancel, planWG, server, ended, mine, expired,
                 callers, crashes>>

Resume(r) ==
  /\ pc[r] = "loaded" /\ server = "open"
  /\ request \/ mine[r].wait
  /\ planWG' = planWG + 1
  /\ planCancels' = r
  /\ request' = FALSE
  /\ Goes(r, "taken")
  /\ UNCHANGED <<row, rec, snap, recCancel, server, ended, mine, expired, callers,
                 crashes>>

\* Runner.Resume: an outstanding wait is stored as consumed before any node runs.
ResumeRuns(r) ==
  /\ pc[r] = "taken"
  /\ Waiting(mine[r]) /\ ~expired
  /\ Stores(r, [status |-> "running", wait |-> FALSE])
  /\ Goes(r, "running")
  /\ UNCHANGED <<rec, snap, cancels, planWG, server, ended, waits, callers,
                 crashes>>

ResumeExpired(r) ==
  /\ pc[r] = "taken"
  /\ Waiting(mine[r]) /\ expired
  /\ Stores(r, [mine[r] EXCEPT !.status = "expired"])
  /\ Goes(r, "erred")
  /\ UNCHANGED <<rec, snap, cancels, planWG, server, ended, waits, callers,
                 crashes>>

\* The state is not waiting any more, or Validate or the projection of the
\* answer fails: an error, with the state as it was read.
ResumeConflict(r) ==
  /\ pc[r] = "taken"
  /\ Waiting(mine[r]) => "catalog" \in Events
  /\ Goes(r, "erred")
  /\ UNCHANGED <<row, rec, snap, cancels, planWG, server, ended, mine, waits,
                 callers, crashes>>

----------------------------------------------------------------------------
\* cancelHostPlan in the order of its effects, called by tasks/cancel, which
\* persists the handle afterwards, or by the tool cancel_operation.
CancelBegins ==
  /\ "cancel" \in Events
  /\ canceller = "idle" /\ server = "open"
  /\ row.status \notin {"absent", "completed", "failed", "cancelled"}
  /\ canceller' = "stop"
  /\ cancelRead' = row
  /\ UNCHANGED <<row, rec, snap, cancels, planWG, server, pc, ended, mine, waits,
                 updater, crashes>>

CancelStops ==
  /\ canceller = "stop"
  /\ CancelContext(planCancels)
  /\ canceller' = "task"
  /\ UNCHANGED <<row, rec, snap, cancels, planWG, server, pc, mine, waits,
                 cancelRead, updater, crashes>>

\* Only a working task is cancelled, with the context it was created for.
CancelTask ==
  /\ canceller = "task"
  /\ IF rec.status = "working"
     THEN rec' = Cancel(rec) /\ CancelContext(recCancel)
     ELSE UNCHANGED <<rec, ended>>
  /\ canceller' = "row"
  /\ UNCHANGED <<row, snap, cancels, planWG, server, pc, mine, waits, cancelRead,
                 updater, crashes>>

CancelRow ==
  /\ canceller = "row"
  /\ row' = IF server = "closed" THEN row
            ELSE [cancelRead EXCEPT !.status = "cancelled"]
  /\ cancelRead' = NoRun
  /\ canceller' \in {"persist", "done"}
  /\ UNCHANGED <<rec, snap, cancels, planWG, server, pc, ended, mine, waits,
                 updater, crashes>>

CancelPersists ==
  /\ canceller = "persist"
  /\ snap' = IF server = "closed" \/ rec = Absent THEN snap
             ELSE ToGetTaskResult(rec)
  /\ canceller' = "done"
  /\ UNCHANGED <<row, rec, cancels, planWG, server, pc, ended, mine, waits,
                 cancelRead, updater, crashes>>

----------------------------------------------------------------------------
\* Close.
CloseBegins ==
  /\ server = "open"
  /\ server' = "closing"
  /\ CancelContext(planCancels)
  /\ planCancels' = None
  /\ UNCHANGED <<row, rec, snap, recCancel, planWG, pc, mine, waits, callers,
                 crashes>>

CloseReturns ==
  /\ server = "closing" /\ planWG = 0
  /\ server' = "closed"
  /\ UNCHANGED <<row, rec, snap, cancels, planWG, pc, ended, mine, waits,
                 callers, crashes>>

\* A new process: state.Open settles the row, restoreTasks restores the handle
\* and attaches the continuation of a waiting plan.
Restart ==
  /\ crashes < MaxCrashes
  /\ crashes' = crashes + 1
  /\ row' = IF row.status \in {"working", "running"}
            THEN [row EXCEPT !.status = "unknown"] ELSE row
  /\ rec' = SetResume(RestoreSnapshot(snap))
  /\ recCancel' = None /\ planCancels' = None
  /\ planWG' = 0
  /\ server' = "open"
  /\ pc' = [s \in Slots |-> IF pc[s] = "idle" THEN "idle" ELSE "done"]
  /\ ended' = [s \in Slots |-> FALSE]
  /\ mine' = [s \in Slots |-> NoRun]
  /\ request' = FALSE
  /\ canceller' = IF canceller = "idle" THEN "idle" ELSE "done"
  /\ cancelRead' = NoRun
  /\ updater' = [u \in Updaters |-> "idle"]
  /\ UNCHANGED <<snap, expired>>

Launcher(l) ==
  \/ FindPlan(l) \/ CreatePlan(l) \/ CheckTask(l) \/ StartRow(l) \/ CreateTask(l)
  \/ Register(l) \/ RegisterClosed(l) \/ Launch(l) \/ BindRefused(l)

Executor(s) ==
  \/ \E status \in {"completed", "failed"} : RunEnds(s, status)
  \/ RunWaits(s) \/ RequireTaskInput(s) \/ PersistWait(s)
  \/ ReadTask(s) \/ Commit(s) \/ Settle(s) \/ Deregister(s) \/ Leave(s)

Resumer(r) == ResumeReads(r) \/ ResumeRefused(r) \/ Resume(r)
              \/ ResumeRuns(r) \/ ResumeExpired(r) \/ ResumeConflict(r)

Canceller == CancelStops \/ CancelTask \/ CancelRow \/ CancelPersists

Updater(u) == (\E r \in Resumers : AnswerAccepted(u, r)) \/ AnswerTooLate(u)
              \/ AnswerPersists(u)

Next ==
  \/ \E l \in Launchers : Begin(l) \/ Launcher(l)
  \/ \E s \in Slots : Emit(s) \/ Executor(s)
  \/ \E r \in Resumers : Resumer(r)
  \/ CancelBegins \/ Canceller
  \/ WaitExpires
  \/ \E u \in Updaters : AnswerValidated(u) \/ Updater(u)
  \/ CloseBegins \/ CloseReturns
  \/ Restart

Spec == Init /\ [][Next]_vars

\* Goroutines are scheduled, and a run ends: PlanRunner shows it for tools that
\* return.
Fairness ==
  /\ \A l \in Launchers : WF_vars(Launcher(l))
  /\ \A s \in Slots : WF_vars(Executor(s))
  /\ \A r \in Resumers : WF_vars(Resumer(r))
  /\ WF_vars(Canceller)
  /\ \A u \in Updaters : WF_vars(Updater(u))
  /\ WF_vars(CloseReturns)

LiveSpec == Spec /\ Fairness

----------------------------------------------------------------------------
\* The goroutines planWG must wait for.
Active == {s \in Slots : pc[s] \in Launching \cup Executing}

Quiet == /\ \A s \in Slots : pc[s] \in {"idle", "done"}
         /\ canceller \in {"idle", "done"}
         /\ \A u \in Updaters : updater[u] = "idle"

\* planWG never counts fewer than the goroutines that use the store.  It may
\* count more: a refused bindTask is never given back.
WaitGroupCovers == planWG >= Cardinality(Active)

\* Close drops the store only when no request and no executor of a plan is left
\* to write to it (planWG.Add under planMu, planWG.Wait in Close).
ClosedMeansNoExecutor == server = "closed" => Active = {}

\* When nobody works on the run any more, its row does not claim that somebody
\* does: such a row would answer every later request with a run in flight.
RowSettled == Quiet => row.status \notin {"working", "running"}

\* A task that says working has a goroutine that will end it.
WorkingHasOwner == Quiet /\ server = "open" => rec.status # "working"

\* One goroutine at a time executes the nodes of a run.
OneExecutor ==
  \A s, t \in Slots : pc[s] = "running" /\ pc[t] = "running" => s = t

\* Nodes run only after the answered wait was stored as consumed: a crash cannot
\* leave a wait that could be answered again once its successors have acted.
ConsumedBeforeRunning ==
  \A r \in Resumers : pc[r] = "running" => row.status # "waiting"

\* Without a crash the row and the handle agree on a completed run.
CompletedAgrees ==
  Quiet /\ crashes = 0 /\ row.status = "completed" => rec.status = "completed"

\* While the agent runs, a waiting run has a handle that accepts the answer.
WaitIsAnswerable ==
  Quiet /\ server = "open" /\ crashes = 0 /\ row.status = "waiting" =>
    UpdateResumes(rec, InputKeys)

\* Close returns (planWG.Wait ends).
CloseTerminates == (server = "closing") ~> (server = "closed")

\* Row, handle and goroutines of a run agree, however requests, answers,
\* faults, Close and a crash interleave: one executor, an owner for what is
\* working, no wait that is still open once its successors run, and none that
\* cannot be answered.
RunConsistent ==
  /\ TypeOK /\ WorkingHasOwner /\ OneExecutor
  /\ ConsumedBeforeRunning /\ CompletedAgrees /\ WaitIsAnswerable
==============================================================================
