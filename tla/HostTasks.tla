------------------------------ MODULE HostTasks ------------------------------
(***************************************************************************)
(* The life of an MCP task in one Host Agent (internal/hostmcp/server.go): *)
(* creation, the deferred start of delegated work, tasks/get, tasks/cancel *)
(* and tasks/update, the acknowledgement timer, Close, the durable rows of *)
(* the state store, and a restart.                                         *)
(*                                                                         *)
(* Three kinds of task exist.  "async" work starts as soon as its record   *)
(* is stored.  "owned" work was requested by a provider callback and stays *)
(* pending until the caller polls the handle.  "input" tasks wait for one  *)
(* operator response (request_task_input).                                 *)
(*                                                                         *)
(* Goroutines are told apart by what they still have to do: creator[t] is  *)
(* the request that creates t, worker[t] the goroutine that executes it,   *)
(* updater[t] the tasks/update request, and jobs holds the cancellations   *)
(* and the row writes other goroutines have begun.  A job records who runs *)
(* it, because Close waits for some of them and not for others.            *)
(***************************************************************************)
EXTENDS TaskRegistry, FiniteSets, Naturals

CONSTANTS TaskIds,        \* the identifiers uuid.NewString can return
          MaxRestarts     \* bound: restarts explored

ASSUME TasksAssumption == IsFiniteSet(TaskIds) /\ MaxRestarts \in Nat

VARIABLES
  tasks,      \* Registry.tasks, a record for every identifier
  kind,       \* what t is: "none" (not created yet), "async", "owned", "input"
  creator,    \* progress of the handler that creates t
  worker,     \* progress of the goroutine start() launches for t
  ctxDone,    \* the context of t has been cancelled
  updater,    \* progress of a tasks/update call for t
  pending,    \* pendingAsyncTaskStarts, each with its armed timer
  jobs,       \* cancellations and row writes under way
  wg,         \* the counter of asyncTaskStartWG
  closer,     \* progress of Close
  snapshot,   \* column task_snapshot_json of the row of t
  opStatus,   \* column status of the row of t
  restarts

vars == <<tasks, kind, creator, worker, ctxDone, updater, pending, jobs, wg,
          closer, snapshot, opStatus, restarts>>

rows == <<snapshot, opStatus>>

\* asyncTaskStartsClosed: set by Close's first step.
closed == closer # "open"

\* s.state: Close drops it only after every wait.
storeOpen == closer # "closed"

\* Jobs.  "client" requests are not counted by asyncTaskStartWG; "closer" is
\* Close itself; the others hold a reference.
Holders == {"creator", "worker", "expiry", "closer", "client"}
Tracked == {"creator", "worker", "expiry"}

CancelJob(t, by) == [op |-> "cancel", task |-> t, by |-> by,
                     snap |-> NoSnapshot]
SaveJob(t, by, snap) == [op |-> "save", task |-> t, by |-> by, snap |-> snap]

JobsOf(t) == {j \in jobs : j.task = t}

TypeOK ==
  /\ tasks \in [TaskIds -> Record]
  /\ kind \in [TaskIds -> {"none", "async", "owned", "input"}]
  /\ creator \in [TaskIds -> {"none", "accepted", "created", "persisted",
                              "cancelling", "done"}]
  /\ worker \in [TaskIds -> {"none", "running", "reported", "persisting",
                             "done"}]
  /\ ctxDone \in [TaskIds -> BOOLEAN]
  /\ updater \in [TaskIds -> {"none", "resuming", "completed", "returning"}]
  /\ pending \subseteq TaskIds
  /\ jobs \subseteq [op : {"cancel", "save"}, task : TaskIds, by : Holders,
                     snap : Snapshot]
  /\ wg \in Nat
  /\ closer \in {"open", "draining", "sweeping", "waiting", "closed"}
  /\ snapshot \in [TaskIds -> Snapshot]
  /\ opStatus \in [TaskIds -> {"none", "working", "completed", "failed",
                               "cancelled", "unknown"}]
  /\ restarts \in 0..MaxRestarts

Init ==
  /\ tasks = [t \in TaskIds |-> Absent]
  /\ kind = [t \in TaskIds |-> "none"]
  /\ creator = [t \in TaskIds |-> "none"]
  /\ worker = [t \in TaskIds |-> "none"]
  /\ ctxDone = [t \in TaskIds |-> FALSE]
  /\ updater = [t \in TaskIds |-> "none"]
  /\ pending = {}
  /\ jobs = {}
  /\ wg = 0
  /\ closer = "open"
  /\ snapshot = [t \in TaskIds |-> NoSnapshot]
  /\ opStatus = [t \in TaskIds |-> "none"]
  /\ restarts = 0

------------------------------------------------------------------------------
\* The state store.

\* SaveTaskSnapshot.  The row's status column is meant to follow the
\* snapshot, but the value under "status" has the type tasks.Status, so the
\* assertion to string fails and the column always receives "working".
\* A write after Close has dropped the store does nothing.
SaveTaskSnapshot(t, snap) ==
  IF storeOpen
  THEN /\ snapshot' = [snapshot EXCEPT ![t] = snap]
       /\ opStatus' = [opStatus EXCEPT ![t] = "working"]
  ELSE UNCHANGED rows

\* Create, Complete, Fail and Cancel of the legacy operation projection.
WriteOperation(t, status) ==
  opStatus' = IF storeOpen THEN [opStatus EXCEPT ![t] = status] ELSE opStatus

CancelOperation(t) ==
  IF opStatus[t] \in {"working", "unknown"}
  THEN WriteOperation(t, "cancelled")
  ELSE UNCHANGED opStatus

------------------------------------------------------------------------------
\* createAsyncTask, for work the agent itself starts and for delegated work.

\* Mutant of beginAsyncTaskStart: asyncTaskStartsClosed is not tested.
BeginWhenClosed(t, k) ==
  /\ kind[t] = "none"
  /\ kind' = [kind EXCEPT ![t] = k]
  /\ creator' = [creator EXCEPT ![t] = "accepted"]
  /\ wg' = wg + 1
  /\ UNCHANGED <<tasks, worker, ctxDone, updater, pending, jobs, closer, rows,
                 restarts>>

\* beginAsyncTaskStart: admission and the counter share Close's mutex.
beginAsyncTaskStart(t, k) ==
  /\ kind[t] = "none"
  /\ ~closed
  /\ kind' = [kind EXCEPT ![t] = k]
  /\ creator' = [creator EXCEPT ![t] = "accepted"]
  /\ wg' = wg + 1
  /\ UNCHANGED <<tasks, worker, ctxDone, updater, pending, jobs, closer, rows,
                 restarts>>

\* CreateWithCancel stores a working record with a fresh context.
CreateTask(t) ==
  /\ creator[t] = "accepted"
  /\ tasks' = [tasks EXCEPT ![t] = newRecord]
  /\ creator' = [creator EXCEPT ![t] = "created"]
  /\ UNCHANGED <<kind, worker, ctxDone, updater, pending, jobs, wg, closer,
                 rows, restarts>>

\* state.Create, then persistTask of the record as CreateWithCancel or
\* CreateWithInput returned it, whatever happened to it since.
PersistCreated(t) ==
  /\ creator[t] = "created"
  /\ SaveTaskSnapshot(t, ToGetTaskResult(IF kind[t] = "input"
                                         THEN CreateWithInput(InputKeys)
                                         ELSE newRecord))
  /\ creator' = [creator EXCEPT ![t] = IF kind[t] = "input" THEN "done"
                                       ELSE "persisted"]
  /\ UNCHANGED <<tasks, kind, worker, ctxDone, updater, pending, jobs, wg,
                 closer, restarts>>

\* Mutant of startAsyncTaskIfOpen: it starts although Close has begun.
StartEvenIfClosed(t) ==
  /\ creator[t] = "persisted" /\ kind[t] = "async"
  /\ worker' = [worker EXCEPT ![t] = "running"]
  /\ creator' = [creator EXCEPT ![t] = "done"]
  /\ wg' = (wg + 1) - 1
  /\ UNCHANGED <<tasks, kind, ctxDone, updater, pending, jobs, closer, rows,
                 restarts>>

\* startAsyncTaskIfOpen: the worker's reference is taken under the mutex,
\* the creator's own one is dropped when it returns.
startAsyncTaskIfOpen(t) ==
  /\ creator[t] = "persisted" /\ kind[t] = "async"
  /\ ~closed
  /\ worker' = [worker EXCEPT ![t] = "running"]
  /\ creator' = [creator EXCEPT ![t] = "done"]
  /\ wg' = (wg + 1) - 1
  /\ UNCHANGED <<tasks, kind, ctxDone, updater, pending, jobs, closer, rows,
                 restarts>>

\* registerPendingAsyncTaskStart: the start waits for the first poll.
registerPendingAsyncTaskStart(t) ==
  /\ creator[t] = "persisted" /\ kind[t] = "owned"
  /\ ~closed
  /\ pending' = pending \cup {t}
  /\ creator' = [creator EXCEPT ![t] = "done"]
  /\ wg' = wg - 1
  /\ UNCHANGED <<tasks, kind, worker, ctxDone, updater, jobs, closer, rows,
                 restarts>>

\* Mutant of startRefused: it returns without cancelling the record.
RefuseSilently(t) ==
  /\ creator[t] = "persisted"
  /\ closed
  /\ creator' = [creator EXCEPT ![t] = "done"]
  /\ wg' = wg - 1
  /\ UNCHANGED <<tasks, kind, worker, ctxDone, updater, pending, jobs, closer,
                 rows, restarts>>

\* Either of them after Close began: the task is cancelled instead, and the
\* creator keeps its reference until that is persisted.
startRefused(t) ==
  /\ creator[t] = "persisted"
  /\ closed
  /\ jobs' = jobs \cup {CancelJob(t, "creator")}
  /\ creator' = [creator EXCEPT ![t] = "cancelling"]
  /\ UNCHANGED <<tasks, kind, worker, ctxDone, updater, pending, wg, closer,
                 rows, restarts>>

------------------------------------------------------------------------------
\* cancelPendingAsyncTask, on behalf of whoever asked for it.

\* What a goroutine does when its last job for t is finished.
Finished(t, by) ==
  /\ wg' = IF by \in Tracked THEN wg - 1 ELSE wg
  /\ creator' = IF by = "creator" THEN [creator EXCEPT ![t] = "done"]
                ELSE creator
  /\ worker' = IF by = "worker" THEN [worker EXCEPT ![t] = "done"] ELSE worker

\* CancelWithMessage: a live record is cancelled together with its context
\* and is then persisted; a terminal one is left alone.
cancelPendingAsyncTask(j) ==
  /\ j.op = "cancel"
  /\ tasks' = [tasks EXCEPT ![j.task] = Cancel(@)]
  /\ IF CanCancel(tasks[j.task])
     THEN /\ ctxDone' = [ctxDone EXCEPT ![j.task] = TRUE]
          /\ jobs' = (jobs \ {j})
                       \cup {SaveJob(j.task, j.by,
                                     ToGetTaskResult(tasks'[j.task]))}
          /\ UNCHANGED <<wg, creator, worker>>
     ELSE /\ jobs' = jobs \ {j}
          /\ UNCHANGED ctxDone
          /\ Finished(j.task, j.by)
  /\ UNCHANGED <<kind, updater, pending, closer, rows, restarts>>

\* persistTask of a record read earlier.
persistTask(j) ==
  /\ j.op = "save"
  /\ SaveTaskSnapshot(j.task, j.snap)
  /\ jobs' = jobs \ {j}
  /\ Finished(j.task, j.by)
  /\ UNCHANGED <<tasks, kind, ctxDone, updater, pending, closer, restarts>>

------------------------------------------------------------------------------
\* The worker goroutine.

\* DispatchTool returned an error, or a result (a tool-level error included).
WorkerReturns(t, outcome) ==
  /\ worker[t] = "running"
  /\ outcome \in {"failed", "completed"}
  /\ tasks' = [tasks EXCEPT ![t] = IF outcome = "failed" THEN Fail(@)
                                   ELSE Complete(@)]
  /\ WriteOperation(t, outcome)
  /\ worker' = [worker EXCEPT ![t] = "reported"]
  /\ UNCHANGED <<kind, creator, ctxDone, updater, pending, jobs, wg, closer,
                 snapshot, restarts>>

\* Mutant of WorkerPersists: the worker returns without persisting.
WorkerForgetsToPersist(t) ==
  /\ worker[t] = "reported"
  /\ worker' = [worker EXCEPT ![t] = "done"]
  /\ wg' = wg - 1
  /\ UNCHANGED <<tasks, kind, creator, ctxDone, updater, pending, jobs, closer,
                 rows, restarts>>

\* It then reads the record back and persists what it finds.
WorkerPersists(t) ==
  /\ worker[t] = "reported"
  /\ jobs' = jobs \cup {SaveJob(t, "worker", ToGetTaskResult(tasks[t]))}
  /\ worker' = [worker EXCEPT ![t] = "persisting"]
  /\ UNCHANGED <<tasks, kind, creator, ctxDone, updater, pending, wg, closer,
                 rows, restarts>>

------------------------------------------------------------------------------
\* Requests about a task whose handle the client has received.

\* tasks/get: the first poll of a pending task starts it.
startPendingAsyncTask(t) ==
  /\ t \in pending
  /\ pending' = pending \ {t}
  /\ IF ~closed
     THEN /\ wg' = wg + 1
          /\ worker' = [worker EXCEPT ![t] = "running"]
     ELSE UNCHANGED <<wg, worker>>
  /\ UNCHANGED <<tasks, kind, creator, ctxDone, updater, jobs, closer, rows,
                 restarts>>

\* tasks/cancel: discardPendingAsyncTaskStart, then Registry.Cancel; a
\* cancelled record is written to the operation row and persisted.
TasksCancel(t) ==
  /\ creator[t] = "done"
  /\ pending' = pending \ {t}
  /\ IF CanCancel(tasks[t])
     THEN /\ tasks' = [tasks EXCEPT ![t] = Cancel(@)]
          /\ ctxDone' = [ctxDone EXCEPT ![t] = TRUE]
          /\ CancelOperation(t)
          /\ jobs' = jobs \cup {SaveJob(t, "client",
                                        ToGetTaskResult(tasks'[t]))}
     ELSE UNCHANGED <<tasks, ctxDone, opStatus, jobs>>
  /\ UNCHANGED <<kind, creator, worker, updater, wg, closer, snapshot,
                 restarts>>

\* Mutant of expirePendingAsyncTaskStart: the entry is removed, the task is
\* not cancelled.
ExpireForgetsToCancel(t) ==
  /\ t \in pending
  /\ pending' = pending \ {t}
  /\ UNCHANGED <<tasks, kind, creator, worker, ctxDone, updater, jobs, wg,
                 closer, rows, restarts>>

\* The acknowledgement timer: the entry it was armed for is still there.
expirePendingAsyncTaskStart(t) ==
  /\ t \in pending
  /\ pending' = pending \ {t}
  /\ wg' = wg + 1
  /\ jobs' = jobs \cup {CancelJob(t, "expiry")}
  /\ UNCHANGED <<tasks, kind, creator, worker, ctxDone, updater, closer, rows,
                 restarts>>

------------------------------------------------------------------------------
\* request_task_input and tasks/update.

\* createInputRequestTask: no admission, so Close does not refuse it.
createInputRequestTask(t) ==
  /\ kind[t] = "none"
  /\ kind' = [kind EXCEPT ![t] = "input"]
  /\ tasks' = [tasks EXCEPT ![t] = CreateWithInput(InputKeys)]
  /\ creator' = [creator EXCEPT ![t] = "created"]
  /\ UNCHANGED <<worker, ctxDone, updater, pending, jobs, wg, closer, rows,
                 restarts>>

\* Registry.Update: the record becomes working, and the continuation runs
\* after the mutex is released if one is attached.
TasksUpdate(t) ==
  /\ creator[t] = "done" /\ updater[t] = "none"
  /\ tasks[t].status = "input_required"
  /\ tasks' = [tasks EXCEPT ![t] = Update(@, InputKeys)]
  /\ updater' = [updater EXCEPT ![t] = IF UpdateResumes(tasks[t], InputKeys)
                                       THEN "resuming" ELSE "returning"]
  /\ UNCHANGED <<kind, creator, worker, ctxDone, pending, jobs, wg, closer,
                 rows, restarts>>

\* The continuation of request_task_input: Complete in the registry and in
\* the operation row, then persist what the registry holds.
ResumeCompletes(t) ==
  /\ updater[t] = "resuming"
  /\ tasks' = [tasks EXCEPT ![t] = Complete(@)]
  /\ WriteOperation(t, "completed")
  /\ updater' = [updater EXCEPT ![t] = "completed"]
  /\ UNCHANGED <<kind, creator, worker, ctxDone, pending, jobs, wg, closer,
                 snapshot, restarts>>

ResumePersists(t) ==
  /\ updater[t] = "completed"
  /\ SaveTaskSnapshot(t, ToGetTaskResult(tasks[t]))
  /\ updater' = [updater EXCEPT ![t] = "returning"]
  /\ UNCHANGED <<tasks, kind, creator, worker, ctxDone, pending, jobs, wg,
                 closer, restarts>>

\* tasks/update persists the record Update returned: the one it cloned
\* before it called the continuation.
UpdatePersists(t) ==
  /\ updater[t] = "returning"
  /\ SaveTaskSnapshot(t, ToGetTaskResult(newRecord))
  /\ updater' = [updater EXCEPT ![t] = "none"]
  /\ UNCHANGED <<tasks, kind, creator, worker, ctxDone, pending, jobs, wg,
                 closer, restarts>>

------------------------------------------------------------------------------
\* Close.

\* closePendingAsyncTaskStarts: refuse new starts, stop the timers and take
\* over every pending start.
CloseDrains ==
  /\ closer = "open"
  /\ closer' = "draining"
  /\ pending' = {}
  /\ jobs' = jobs \cup {CancelJob(t, "closer") : t \in pending}
  /\ UNCHANGED <<tasks, kind, creator, worker, ctxDone, updater, wg, rows,
                 restarts>>

CloserIdle == \A j \in jobs : j.by # "closer"

\* Then every task List reports as working is cancelled.
CloseSweeps ==
  /\ closer = "draining" /\ CloserIdle
  /\ closer' = "sweeping"
  /\ jobs' = jobs \cup {CancelJob(t, "closer") :
                          t \in {u \in TaskIds : tasks[u].status = "working"}}
  /\ UNCHANGED <<tasks, kind, creator, worker, ctxDone, updater, pending, wg,
                 rows, restarts>>

CloseWaits ==
  /\ closer = "sweeping" /\ CloserIdle
  /\ closer' = "waiting"
  /\ UNCHANGED <<tasks, kind, creator, worker, ctxDone, updater, pending, jobs,
                 wg, rows, restarts>>

\* asyncTaskStartWG.Wait returned; the store is dropped and closed.
CloseReturns ==
  /\ closer = "waiting" /\ wg = 0
  /\ closer' = "closed"
  /\ UNCHANGED <<tasks, kind, creator, worker, ctxDone, updater, pending, jobs,
                 wg, rows, restarts>>

------------------------------------------------------------------------------
\* The process stops, cleanly or not, and a new one opens the same store:
\* Open marks working operations unknown, restoreTasks restores every row.
Restart ==
  /\ restarts < MaxRestarts
  /\ restarts' = restarts + 1
  /\ tasks' = [t \in TaskIds |-> RestoreSnapshot(snapshot[t])]
  /\ opStatus' = [t \in TaskIds |-> IF opStatus[t] = "working" THEN "unknown"
                                    ELSE opStatus[t]]
  /\ kind' = [t \in TaskIds |-> IF snapshot[t].status = "absent" THEN "none"
                                ELSE kind[t]]
  /\ creator' = [t \in TaskIds |-> IF snapshot[t].status = "absent" THEN "none"
                                   ELSE "done"]
  /\ worker' = [t \in TaskIds |-> "none"]
  /\ ctxDone' = [t \in TaskIds |-> FALSE]
  /\ updater' = [t \in TaskIds |-> "none"]
  /\ pending' = {}
  /\ jobs' = {}
  /\ wg' = 0
  /\ closer' = "open"
  /\ UNCHANGED snapshot

------------------------------------------------------------------------------
CreatorSteps(t) ==
  \/ CreateTask(t)
  \/ PersistCreated(t)
  \/ startAsyncTaskIfOpen(t)
  \/ registerPendingAsyncTaskStart(t)
  \/ startRefused(t)

UpdaterSteps(t) ==
  \/ ResumeCompletes(t)
  \/ ResumePersists(t)
  \/ UpdatePersists(t)

JobSteps == \E j \in jobs : cancelPendingAsyncTask(j) \/ persistTask(j)

CloserSteps == CloseSweeps \/ CloseWaits \/ CloseReturns

Requests ==
  \E t \in TaskIds :
    \/ \E k \in {"async", "owned"} : beginAsyncTaskStart(t, k)
    \/ createInputRequestTask(t)
    \/ startPendingAsyncTask(t)
    \/ TasksCancel(t)
    \/ TasksUpdate(t)

Next ==
  \/ Requests
  \/ \E t \in TaskIds :
       \/ CreatorSteps(t)
       \/ UpdaterSteps(t)
       \/ \E outcome \in {"failed", "completed"} : WorkerReturns(t, outcome)
       \/ WorkerPersists(t)
       \/ expirePendingAsyncTaskStart(t)
  \/ JobSteps
  \/ CloseDrains
  \/ CloserSteps
  \/ Restart

\* Started goroutines run and armed timers fire.  A tool is only assumed to
\* return once its context is cancelled; clients, Close and the restart are
\* under no obligation.
Fairness ==
  /\ \A t \in TaskIds :
       /\ WF_vars(CreatorSteps(t))
       /\ WF_vars(UpdaterSteps(t))
       /\ WF_vars(ctxDone[t] /\ WorkerReturns(t, "failed"))
       /\ WF_vars(WorkerPersists(t))
       /\ WF_vars(expirePendingAsyncTaskStart(t))
  /\ WF_vars(JobSteps)
  /\ WF_vars(CloserSteps)

Spec == Init /\ [][Next]_vars /\ Fairness
------------------------------------------------------------------------------
\* Properties.

InFlight(t) ==
  \/ creator[t] \notin {"none", "done"}
  \/ worker[t] \in {"running", "reported", "persisting"}
  \/ updater[t] # "none"
  \/ JobsOf(t) # {}

\* Close waits for everything it accepted: once it has returned and the store
\* is gone, no creator, worker, timer callback or pending start is left
\* (closePendingAsyncTaskStarts: "Wait for that callback before Close releases
\* the durable state store").
ClosedMeansQuiet ==
  closer = "closed" =>
    /\ pending = {}
    /\ \A j \in jobs : j.by \notin Tracked
    /\ \A t \in TaskIds :
         /\ kind[t] \in {"async", "owned"} => creator[t] = "done"
         /\ worker[t] \in {"none", "done"}

\* Work in progress belongs to somebody: an asynchronous task reported as
\* working is being created, is pending acknowledgement, is executing, or is
\* about to be cancelled.  Nobody else would ever make it terminal.
WorkingHasOwner ==
  \A t \in TaskIds :
    kind[t] \in {"async", "owned"} /\ tasks[t].status = "working" =>
      \/ creator[t] \in {"created", "persisted"}
      \/ t \in pending
      \/ worker[t] = "running"
      \/ \E j \in JobsOf(t) : j.op = "cancel"

\* A poll and the acknowledgement timer never both win: work that has started
\* is never cancelled by the expiry of its handle.
StartedNeverExpires ==
  \A t \in TaskIds :
    worker[t] # "none" => \A j \in JobsOf(t) : j.by # "expiry"

\* While the agent is open and no request is in flight for it, the row of a
\* terminal asynchronous task holds the status a restart must bring back,
\* however completion, failure, cancellation and their writes interleaved.
TerminalIsDurable ==
  \A t \in TaskIds :
    /\ ~closed /\ ~InFlight(t)
    /\ kind[t] \in {"async", "owned"}
    /\ tasks[t].status \in Terminal
    => RestoreSnapshot(snapshot[t]).status = tasks[t].status

\* Close returns, whatever was being created or executed when it was called.
CloseTerminates == closer = "draining" ~> closer \in {"closed", "open"}

\* Delegated work never stays pending: it is started by a poll, or it is
\* cancelled by its timer, by a client or by Close.
PendingResolves ==
  \A t \in TaskIds :
    t \in pending ~> \/ worker[t] # "none"
                     \/ tasks[t].status \in Terminal \cup {"absent"}

\* The tables of tasks, pending starts, timers and goroutines agree: work in
\* progress has an owner, and a poll and the timer never both have a task.
TasksConsistent == TypeOK /\ WorkingHasOwner /\ StartedNeverExpires
=============================================================================
