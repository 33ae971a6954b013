-------------------------- MODULE HostTasksProofs --------------------------
(***************************************************************************)
(* Tasks, their goroutines, the counter Close waits for and the rows of    *)
(* the store, for any finite set of task identifiers, any input keys and   *)
(* any number of restarts.                                                 *)
(*                                                                         *)
(* The counter of asyncTaskStartWG says nothing about who holds the        *)
(* references; the invariant below gives every reference a holder, every   *)
(* job the goroutine that runs it, and every terminal task the write that  *)
(* will make its row right.                                                *)
(***************************************************************************)
EXTENDS HostTasks, FiniteSetTheorems, TLAPS

Asynchronous(t) == kind[t] \in {"async", "owned"}

\* Who holds a reference of asyncTaskStartWG: a creator, a worker, or the
\* callback of an acknowledgement timer.
CreatorRefs == {t \in TaskIds : creator[t] \notin {"none", "done"} /\ kind[t] # "input"}
WorkerRefs  == {t \in TaskIds : worker[t] \notin {"none", "done"}}
ExpiryRefs  == {t \in TaskIds : \E j \in jobs : j.task = t /\ j.by = "expiry"}

RefsCounted ==
  wg = Cardinality(CreatorRefs) + Cardinality(WorkerRefs) + Cardinality(ExpiryRefs)

\* How far the goroutines of a task can be, given what the task is.
TaskPlace(t) ==
  /\ creator[t] = "none" <=> kind[t] = "none"
  /\ creator[t] \in {"none", "accepted"} <=> tasks[t].status = "absent"
  /\ creator[t] \in {"accepted", "persisted", "cancelling"} => Asynchronous(t)
  /\ creator[t] = "cancelling" => closed
  /\ ~closed /\ Asynchronous(t) /\ creator[t] \in {"created", "persisted"} =>
       tasks[t].status = "working"
  /\ snapshot[t].status # "absent" => kind[t] # "none"
  /\ Asynchronous(t) => /\ tasks[t].status # "input_required"
                        /\ snapshot[t].status # "input_required"
                        /\ updater[t] = "none"
  /\ worker[t] # "none" => creator[t] = "done" /\ Asynchronous(t)
  /\ worker[t] \in {"reported", "persisting", "done"} => tasks[t].status \in Terminal
  /\ t \in pending => kind[t] = "owned" /\ creator[t] = "done" /\ worker[t] = "none"
  /\ kind[t] = "none" => updater[t] = "none"

\* Who runs a job, and what it will write: a record that was read when it was
\* terminal, which it stays.
JobPlace(j) ==
  LET t == j.task IN
  /\ tasks[t].status # "absent" /\ (closed \/ creator[t] = "done")
  /\ j.by = "creator" => creator[t] = "cancelling"
  /\ j.by = "worker" => worker[t] = "persisting"
  /\ j.by = "expiry" =>
       kind[t] = "owned" /\ creator[t] = "done" /\ worker[t] = "none" /\ t \notin pending
  /\ j.op = "save" /\ Asynchronous(t) =>
       j.snap.status = tasks[t].status /\ tasks[t].status \in Terminal

OneTrackedJob ==
  \A j, k \in jobs : j.by \in Tracked /\ j.by = k.by /\ j.task = k.task => j = k

ClosePlace ==
  /\ closed => pending = {}
  /\ closer = "closed" => CreatorRefs = {} /\ WorkerRefs = {} /\ ExpiryRefs = {}

\* The row of a terminal task is right, or a write that makes it right is
\* still to come.
RowFollows(t) ==
  ~closed /\ Asynchronous(t) /\ tasks[t].status \in Terminal =>
    \/ RestoreSnapshot(snapshot[t]).status = tasks[t].status
    \/ worker[t] = "reported"
    \/ \E j \in JobsOf(t) : j.op = "save"

TasksInv ==
  /\ TypeOK /\ WorkingHasOwner /\ RefsCounted /\ OneTrackedJob /\ ClosePlace
  /\ \A t \in TaskIds : TaskPlace(t) /\ RowFollows(t)
  /\ \A j \in jobs : JobPlace(j)

----------------------------------------------------------------------------
\* What the registry's operators return.
LEMMA RecordFacts ==
  /\ newRecord \in Record /\ newRecord.status = "working"
  /\ Absent \in Record /\ Absent.status = "absent"
  /\ CreateWithInput(InputKeys) \in Record /\ CreateWithInput(InputKeys).status = "input_required"
  /\ NoSnapshot \in Snapshot /\ NoSnapshot.status = "absent"
  /\ \A rec \in Record :
       /\ Complete(rec) \in Record
       /\ Complete(rec).status = IF rec.status = "working" THEN "completed" ELSE rec.status
       /\ Fail(rec) \in Record
       /\ Fail(rec).status = IF rec.status \in Live THEN "failed" ELSE rec.status
       /\ Cancel(rec) \in Record
       /\ Cancel(rec).status = IF rec.status \in Live THEN "cancelled" ELSE rec.status
       /\ Update(rec, InputKeys) \in Record
       /\ rec.status = "input_required" => Update(rec, InputKeys).status = "working"
       /\ ToGetTaskResult(rec) \in Snapshot /\ ToGetTaskResult(rec).status = rec.status
<1> USE DEF Record, Statuses, Terminal, Live
<1>1. /\ newRecord \in Record /\ newRecord.status = "working"
      /\ Absent \in Record /\ Absent.status = "absent"
      /\ CreateWithInput(InputKeys) \in Record /\ CreateWithInput(InputKeys).status = "input_required"
      /\ NoSnapshot \in Snapshot /\ NoSnapshot.status = "absent"
  BY DEF newRecord, Absent, CreateWithInput, NoSnapshot, ToGetTaskResult, Snapshot
<1>2. ASSUME NEW rec \in Record
      PROVE  /\ Complete(rec) \in Record
             /\ Complete(rec).status = IF rec.status = "working" THEN "completed" ELSE rec.status
  BY DEF Complete
<1>3. ASSUME NEW rec \in Record
      PROVE  /\ Fail(rec) \in Record
             /\ Fail(rec).status = IF rec.status \in Live THEN "failed" ELSE rec.status
  BY DEF Fail
<1>4. ASSUME NEW rec \in Record
      PROVE  /\ Cancel(rec) \in Record
             /\ Cancel(rec).status = IF rec.status \in Live THEN "cancelled" ELSE rec.status
  BY DEF Cancel, CanCancel
<1>5. ASSUME NEW rec \in Record
      PROVE  /\ Update(rec, InputKeys) \in Record
             /\ rec.status = "input_required" => Update(rec, InputKeys).status = "working"
  BY DEF Update
<1>6. ASSUME NEW rec \in Record
      PROVE  ToGetTaskResult(rec) \in Snapshot /\ ToGetTaskResult(rec).status = rec.status
  BY DEF ToGetTaskResult, Snapshot
<1> QED
  BY <1>1, <1>2, <1>3, <1>4, <1>5, <1>6

\* What a restart makes of a row.
LEMMA RestoreFacts ==
  ASSUME NEW snap \in Snapshot
  PROVE  /\ RestoreSnapshot(snap) \in Record
         /\ RestoreSnapshot(snap).status =
              IF snap.status = "working" THEN "failed" ELSE snap.status
BY DEF RestoreSnapshot, Snapshot, Record, Absent, Statuses, Terminal, Live

\* Counting the holders of references.
LEMMA RefsFinite ==
  ASSUME NEW S \in SUBSET TaskIds
  PROVE  /\ Cardinality(S) \in Nat /\ (Cardinality(S) = 0 <=> S = {})
         /\ \A t \in TaskIds :
              /\ t \notin S => Cardinality(S \cup {t}) = Cardinality(S) + 1
              /\ t \in S => Cardinality(S) > 0 /\ Cardinality(S \ {t}) = Cardinality(S) - 1
<1>1. IsFiniteSet(S)
  BY TasksAssumption, FS_Subset
<1>2. Cardinality(S) \in Nat /\ (Cardinality(S) = 0 <=> S = {})
  BY <1>1, FS_CardinalityType, FS_EmptySet
<1> QED
  BY <1>1, <1>2, FS_AddElement, FS_RemoveElement

----------------------------------------------------------------------------
\* A task is created.
LEMMA BeginKeepsInv ==
  ASSUME TasksInv, NEW t \in TaskIds, NEW k \in {"async", "owned"}, beginAsyncTaskStart(t, k)
  PROVE  TasksInv'
<1> USE DEF TasksInv, beginAsyncTaskStart, closed, rows
<1>1. CreatorRefs' = CreatorRefs \cup {t} /\ t \notin CreatorRefs
  BY DEF CreatorRefs, TypeOK, TaskPlace
<1>2. WorkerRefs' = WorkerRefs /\ ExpiryRefs' = ExpiryRefs
  BY DEF WorkerRefs, ExpiryRefs
<1>3. RefsCounted'
  BY <1>1, <1>2, RefsFinite DEF RefsCounted, CreatorRefs, WorkerRefs, ExpiryRefs
<1>4. TypeOK'
  BY DEF TypeOK
<1>5. \A u \in TaskIds : (TaskPlace(u) /\ RowFollows(u))'
  BY DEF TypeOK, TaskPlace, RowFollows, Asynchronous, JobsOf, Terminal
<1>6. \A j \in jobs' : JobPlace(j)'
  BY DEF TypeOK, JobPlace, TaskPlace, Asynchronous
<1>7. WorkingHasOwner' /\ OneTrackedJob' /\ ClosePlace'
  BY DEF TypeOK, WorkingHasOwner, OneTrackedJob, ClosePlace, TaskPlace, JobsOf
<1> QED
  BY <1>3, <1>4, <1>5, <1>6, <1>7

\* request_task_input makes a record that waits for its input, and its row.
LEMMA CreateInputKeepsInv ==
  ASSUME TasksInv, NEW t \in TaskIds, createInputRequestTask(t)
  PROVE  TasksInv'
<1> USE DEF TasksInv, createInputRequestTask, closed, rows
<1>1. CreatorRefs' = CreatorRefs
  BY DEF CreatorRefs, TypeOK, TaskPlace
<1>2. WorkerRefs' = WorkerRefs /\ ExpiryRefs' = ExpiryRefs
  BY DEF WorkerRefs, ExpiryRefs
<1>3. RefsCounted'
  BY <1>1, <1>2 DEF RefsCounted
<1>4. TypeOK'
  BY RecordFacts DEF TypeOK
<1>5. \A u \in TaskIds : (TaskPlace(u) /\ RowFollows(u))'
  BY RecordFacts DEF TypeOK, TaskPlace, RowFollows, Asynchronous, JobsOf, Terminal
<1>6. \A j \in jobs' : JobPlace(j)'
  BY RecordFacts DEF TypeOK, JobPlace, TaskPlace, Asynchronous
<1>7. WorkingHasOwner' /\ OneTrackedJob' /\ ClosePlace'
  BY <1>1, <1>2, RecordFacts DEF TypeOK, WorkingHasOwner, OneTrackedJob, ClosePlace, TaskPlace, JobsOf
<1> QED
  BY <1>3, <1>4, <1>5, <1>6, <1>7

\* CreateTask makes a record that its creator has yet to persist and start.
LEMMA CreateTaskKeepsInv ==
  ASSUME TasksInv, NEW t \in TaskIds, CreateTask(t)
  PROVE  TasksInv'
<1> USE DEF TasksInv, CreateTask, closed, rows
<1>1. CreatorRefs' = CreatorRefs
  BY DEF CreatorRefs, TypeOK, TaskPlace
<1>2. WorkerRefs' = WorkerRefs /\ ExpiryRefs' = ExpiryRefs
  BY DEF WorkerRefs, ExpiryRefs
<1>3. RefsCounted'
  BY <1>1, <1>2 DEF RefsCounted
<1>4. TypeOK'
  BY RecordFacts DEF TypeOK
<1>5. \A u \in TaskIds : (TaskPlace(u) /\ RowFollows(u))'
  BY RecordFacts DEF TypeOK, TaskPlace, RowFollows, Asynchronous, JobsOf, Terminal
<1>6. \A j \in jobs' : JobPlace(j)'
  BY RecordFacts DEF TypeOK, JobPlace, TaskPlace, Asynchronous
<1>7. WorkingHasOwner' /\ OneTrackedJob' /\ ClosePlace'
  BY <1>1, <1>2, RecordFacts DEF TypeOK, WorkingHasOwner, OneTrackedJob, ClosePlace, TaskPlace, JobsOf
<1> QED
  BY <1>3, <1>4, <1>5, <1>6, <1>7
\* The row of a new task says what CreateWithCancel or CreateWithInput returned.
LEMMA PersistCreatedKeepsInv ==
  ASSUME TasksInv, NEW t \in TaskIds, PersistCreated(t)
  PROVE  TasksInv'
<1> USE DEF TasksInv, PersistCreated, closed, rows
<1> DEFINE snap == ToGetTaskResult(IF kind[t] = "input" THEN CreateWithInput(InputKeys) ELSE newRecord)
<1>0. /\ snap \in Snapshot
      /\ snap.status = IF kind[t] = "input" THEN "input_required" ELSE "working"
  BY RecordFacts
<1>1. /\ snapshot' \in [TaskIds -> Snapshot]
      /\ \A u \in TaskIds : u # t => snapshot'[u] = snapshot[u]
      /\ snapshot'[t] \in {snapshot[t], snap}
      /\ opStatus' \in [TaskIds -> {"none", "working", "completed", "failed", "cancelled", "unknown"}]
  BY <1>0 DEF SaveTaskSnapshot, TypeOK
<1> HIDE DEF snap
<1>2. CreatorRefs' = CreatorRefs /\ WorkerRefs' = WorkerRefs /\ ExpiryRefs' = ExpiryRefs
  BY DEF CreatorRefs, WorkerRefs, ExpiryRefs, TypeOK, TaskPlace
<1>3. RefsCounted'
  BY <1>2 DEF RefsCounted
<1>4. TypeOK'
  BY <1>1 DEF TypeOK
<1>5. \A u \in TaskIds : (TaskPlace(u) /\ RowFollows(u))'
  <2>1. kind[t] # "input" => snapshot'[t].status # "input_required"
    BY <1>0, <1>1 DEF TypeOK, TaskPlace, Asynchronous
  <2>2. ~closed => \A j \in JobsOf(t) : FALSE
    BY DEF JobPlace, JobsOf
  <2>3. \A u \in TaskIds : TaskPlace(u)'
    BY <1>0, <1>1, <2>1 DEF TypeOK, TaskPlace, Asynchronous
  <2>4. \A u \in TaskIds : RowFollows(u)'
    BY <1>0, <1>1, <2>1 DEF TypeOK, TaskPlace, RowFollows, Asynchronous, JobsOf, Terminal
  <2> QED
    BY <2>3, <2>4
<1>6. \A j \in jobs' : JobPlace(j)'
  BY DEF TypeOK, JobPlace, TaskPlace, Asynchronous
<1>7. WorkingHasOwner' /\ OneTrackedJob' /\ ClosePlace'
  BY <1>2 DEF TypeOK, WorkingHasOwner, OneTrackedJob, ClosePlace, TaskPlace, JobsOf
<1> QED
  BY <1>3, <1>4, <1>5, <1>6, <1>7

\* startAsyncTaskIfOpen hands the reference of the creator to the worker.
LEMMA StartKeepsInv ==
  ASSUME TasksInv, NEW t \in TaskIds, startAsyncTaskIfOpen(t)
  PROVE  TasksInv'
<1> USE DEF TasksInv, startAsyncTaskIfOpen, closed, rows
<1>1. /\ CreatorRefs' = CreatorRefs \ {t} /\ t \in CreatorRefs
      /\ WorkerRefs' = WorkerRefs \cup {t} /\ t \notin WorkerRefs
      /\ ExpiryRefs' = ExpiryRefs
  BY DEF CreatorRefs, WorkerRefs, ExpiryRefs, TypeOK, TaskPlace
<1>2. wg' = wg
  BY DEF TypeOK
<1>3. RefsCounted'
  <2>1. /\ Cardinality(CreatorRefs) \in Nat /\ Cardinality(CreatorRefs \ {t}) = Cardinality(CreatorRefs) - 1
        /\ Cardinality(WorkerRefs) \in Nat /\ Cardinality(WorkerRefs \cup {t}) = Cardinality(WorkerRefs) + 1
        /\ Cardinality(ExpiryRefs) \in Nat
    BY <1>1, RefsFinite DEF CreatorRefs, WorkerRefs, ExpiryRefs
  <2> QED
    BY <1>1, <1>2, <2>1 DEF RefsCounted
<1>4. TypeOK'
  BY <1>2 DEF TypeOK
<1>5. \A u \in TaskIds : (TaskPlace(u) /\ RowFollows(u))'
  BY DEF TypeOK, TaskPlace, RowFollows, Asynchronous, JobsOf, Terminal
<1>6. \A j \in jobs' : JobPlace(j)'
  BY DEF TypeOK, JobPlace, TaskPlace, Asynchronous
<1>7. WorkingHasOwner' /\ OneTrackedJob' /\ ClosePlace'
  BY DEF TypeOK, WorkingHasOwner, OneTrackedJob, ClosePlace, TaskPlace, JobsOf
<1> QED
  BY <1>3, <1>4, <1>5, <1>6, <1>7

\* registerPendingAsyncTaskStart leaves the creator's reference with the table
\* of pending starts.
LEMMA RegisterKeepsInv ==
  ASSUME TasksInv, NEW t \in TaskIds, registerPendingAsyncTaskStart(t)
  PROVE  TasksInv'
<1> USE DEF TasksInv, registerPendingAsyncTaskStart, closed, rows
<1>1. /\ CreatorRefs' = CreatorRefs \ {t} /\ t \in CreatorRefs
      /\ WorkerRefs' = WorkerRefs /\ ExpiryRefs' = ExpiryRefs
  BY DEF CreatorRefs, WorkerRefs, ExpiryRefs, TypeOK, TaskPlace
<1>2. wg' \in Nat /\ RefsCounted'
  BY <1>1, RefsFinite DEF RefsCounted, CreatorRefs, WorkerRefs, ExpiryRefs
<1>4. TypeOK'
  BY <1>2 DEF TypeOK
<1>5. \A u \in TaskIds : (TaskPlace(u) /\ RowFollows(u))'
  BY DEF TypeOK, TaskPlace, RowFollows, Asynchronous, JobsOf, Terminal
<1>6. \A j \in jobs' : JobPlace(j)'
  BY DEF TypeOK, JobPlace, TaskPlace, Asynchronous
<1>7. WorkingHasOwner' /\ OneTrackedJob' /\ ClosePlace'
  BY DEF TypeOK, WorkingHasOwner, OneTrackedJob, ClosePlace, TaskPlace, JobsOf
<1> QED
  BY <1>2, <1>4, <1>5, <1>6, <1>7

\* A job is added.
LEMMA RefuseKeepsInv ==
  ASSUME TasksInv, NEW t \in TaskIds, startRefused(t)
  PROVE  TasksInv'
<1> USE DEF TasksInv, startRefused, closed, rows
<1> DEFINE new == CancelJob(t, "creator")
<1>0. /\ new.task = t /\ new.by = "creator" /\ new.op = "cancel"
      /\ new \in [op : {"cancel", "save"}, task : TaskIds, by : Holders, snap : Snapshot]
      /\ jobs' = jobs \cup {new}
  BY RecordFacts DEF CancelJob, Holders
<1> HIDE DEF new
<1>1. CreatorRefs' = CreatorRefs /\ WorkerRefs' = WorkerRefs /\ ExpiryRefs' = ExpiryRefs
  BY <1>0 DEF CreatorRefs, WorkerRefs, ExpiryRefs, TypeOK, TaskPlace
<1>3. RefsCounted'
  BY <1>1 DEF RefsCounted
<1>4. TypeOK'
  BY <1>0 DEF TypeOK
<1>5. \A u \in TaskIds : (TaskPlace(u) /\ RowFollows(u))'
  BY DEF TypeOK, TaskPlace, RowFollows, Asynchronous, JobsOf, Terminal
<1>6. \A j \in jobs' : JobPlace(j)'
  BY <1>0 DEF TypeOK, JobPlace, TaskPlace, Asynchronous
<1>7. WorkingHasOwner' /\ OneTrackedJob' /\ ClosePlace'
  <2>1. \A j \in jobs : ~(j.by = "creator" /\ j.task = t)
    BY DEF JobPlace
  <2>2. OneTrackedJob'
    BY <1>0, <2>1 DEF OneTrackedJob
  <2> QED
    BY <1>0, <1>1, <2>2 DEF TypeOK, WorkingHasOwner, ClosePlace, TaskPlace, JobsOf
<1> QED
  BY <1>3, <1>4, <1>5, <1>6, <1>7
----------------------------------------------------------------------------
\* The job of a reference is over: the reference goes with it.
LEMMA FinishedRefs ==
  ASSUME TasksInv, NEW j \in jobs, jobs' = jobs \ {j}, Finished(j.task, j.by), kind' = kind
  PROVE  /\ RefsCounted' /\ wg' \in Nat
         /\ CreatorRefs' \subseteq CreatorRefs /\ WorkerRefs' \subseteq WorkerRefs
         /\ ExpiryRefs' \subseteq ExpiryRefs
         /\ creator' = IF j.by = "creator" THEN [creator EXCEPT ![j.task] = "done"] ELSE creator
         /\ worker' = IF j.by = "worker" THEN [worker EXCEPT ![j.task] = "done"] ELSE worker
         /\ j.task \in TaskIds
<1> USE DEF TasksInv, Finished, Tracked
<1> DEFINE t == j.task
<1>0. /\ t \in TaskIds /\ JobPlace(j)
      /\ Cardinality(CreatorRefs) \in Nat /\ Cardinality(WorkerRefs) \in Nat
      /\ Cardinality(ExpiryRefs) \in Nat
  BY RefsFinite DEF TypeOK, CreatorRefs, WorkerRefs, ExpiryRefs
<1>1. CASE j.by = "creator"
  <2>1. /\ CreatorRefs' = CreatorRefs \ {t} /\ t \in CreatorRefs
        /\ WorkerRefs' = WorkerRefs /\ ExpiryRefs' = ExpiryRefs
    BY <1>0, <1>1 DEF JobPlace, CreatorRefs, WorkerRefs, ExpiryRefs, TypeOK, TaskPlace, Asynchronous
  <2>2. Cardinality(CreatorRefs') = Cardinality(CreatorRefs) - 1 /\ Cardinality(CreatorRefs) > 0
    BY <1>0, <2>1, RefsFinite DEF CreatorRefs
  <2> QED
    BY <1>0, <1>1, <2>1, <2>2 DEF RefsCounted
<1>2. CASE j.by = "worker"
  <2>1. /\ WorkerRefs' = WorkerRefs \ {t} /\ t \in WorkerRefs
        /\ CreatorRefs' = CreatorRefs /\ ExpiryRefs' = ExpiryRefs
    BY <1>0, <1>2 DEF JobPlace, CreatorRefs, WorkerRefs, ExpiryRefs, TypeOK
  <2>2. Cardinality(WorkerRefs') = Cardinality(WorkerRefs) - 1 /\ Cardinality(WorkerRefs) > 0
    BY <1>0, <2>1, RefsFinite DEF WorkerRefs
  <2> QED
    BY <1>0, <1>2, <2>1, <2>2 DEF RefsCounted
<1>3. CASE j.by = "expiry"
  <2>1. /\ ExpiryRefs' = ExpiryRefs \ {t} /\ t \in ExpiryRefs
        /\ CreatorRefs' = CreatorRefs /\ WorkerRefs' = WorkerRefs
    BY <1>0, <1>3 DEF OneTrackedJob, CreatorRefs, WorkerRefs, ExpiryRefs, TypeOK
  <2>2. Cardinality(ExpiryRefs') = Cardinality(ExpiryRefs) - 1 /\ Cardinality(ExpiryRefs) > 0
    BY <1>0, <2>1, RefsFinite DEF ExpiryRefs
  <2> QED
    BY <1>0, <1>3, <2>1, <2>2 DEF RefsCounted
<1>4. CASE j.by \notin Tracked
  <2>1. CreatorRefs' = CreatorRefs /\ WorkerRefs' = WorkerRefs /\ ExpiryRefs' = ExpiryRefs
    BY <1>4 DEF CreatorRefs, WorkerRefs, ExpiryRefs, TypeOK
  <2> QED
    BY <1>0, <1>4, <2>1 DEF RefsCounted, TypeOK
<1> QED
  BY <1>1, <1>2, <1>3, <1>4

\* A job that finds its record terminal is over; any other goes on to write it.
LEMMA CancelKeepsInv ==
  ASSUME TasksInv, NEW j \in jobs, cancelPendingAsyncTask(j)
  PROVE  TasksInv'
<1> USE DEF TasksInv, closed, rows
<1> DEFINE t == j.task
<1>0. /\ t \in TaskIds /\ JobPlace(j) /\ tasks[t] \in Record /\ j.by \in Holders
      /\ tasks' = [tasks EXCEPT ![t] = Cancel(tasks[t])]
      /\ \A u \in TaskIds : tasks'[u].status = IF u = t /\ tasks[t].status \in Live
                                                THEN "cancelled" ELSE tasks[u].status
      /\ tasks' \in [TaskIds -> Record]
      /\ UNCHANGED <<kind, updater, pending, closer, rows, restarts>>
  BY RecordFacts DEF cancelPendingAsyncTask, TypeOK
<1>1. CASE CanCancel(tasks[t])
  <2> DEFINE new == SaveJob(t, j.by, ToGetTaskResult(tasks'[t]))
  <2>10. tasks[t].status \in Live /\ tasks'[t].status = "cancelled" /\ tasks'[t] \in Record
    BY <1>0, <1>1 DEF CanCancel
  <2>11. ToGetTaskResult(tasks'[t]) \in Snapshot /\ ToGetTaskResult(tasks'[t]).status = "cancelled"
    BY <2>10, RecordFacts
  <2>12. /\ new.task = t /\ new.by = j.by /\ new.op = "save" /\ new.snap.status = "cancelled"
        /\ new \in [op : {"cancel", "save"}, task : TaskIds, by : Holders, snap : Snapshot]
    BY <1>0, <2>11 DEF SaveJob
  <2>13. /\ jobs' = (jobs \ {j}) \cup {new}
        /\ ctxDone' \in [TaskIds -> BOOLEAN]
        /\ UNCHANGED <<wg, creator, worker>>
    <3>1. /\ jobs' = (jobs \ {j}) \cup {new} /\ ctxDone' = [ctxDone EXCEPT ![t] = TRUE]
          /\ UNCHANGED <<wg, creator, worker>>
      BY <1>1 DEF cancelPendingAsyncTask
    <3> QED
      BY <3>1 DEF TypeOK
  <2>0. /\ new.task = t /\ new.by = j.by /\ new.op = "save" /\ new.snap.status = "cancelled"
        /\ new \in [op : {"cancel", "save"}, task : TaskIds, by : Holders, snap : Snapshot]
        /\ jobs' = (jobs \ {j}) \cup {new}
        /\ ctxDone' \in [TaskIds -> BOOLEAN]
        /\ UNCHANGED <<wg, creator, worker>>
        /\ tasks[t].status \in Live
    BY <2>10, <2>12, <2>13
  <2> HIDE DEF new, t
  <2>1. CreatorRefs' = CreatorRefs /\ WorkerRefs' = WorkerRefs /\ ExpiryRefs' = ExpiryRefs
    BY <1>0, <2>0 DEF CreatorRefs, WorkerRefs, ExpiryRefs, t
  <2>2. RefsCounted'
    BY <2>0, <2>1 DEF RefsCounted
  <2>3. TypeOK'
    BY <1>0, <2>0 DEF TypeOK
  <2>4. \A u \in TaskIds : TaskPlace(u)'
    BY <1>0, <2>0 DEF TypeOK, TaskPlace, Asynchronous, Live, Terminal, JobPlace, t
  <2>5. \A u \in TaskIds : RowFollows(u)'
    <3>1. j.op = "cancel" /\ \A u \in TaskIds : u # t => JobsOf(u)' = JobsOf(u)
      BY <1>0, <2>0 DEF cancelPendingAsyncTask, JobsOf, t
    <3>2. new \in JobsOf(t)'
      BY <2>0 DEF JobsOf
    <3> QED
      BY <1>0, <2>0, <3>1, <3>2 DEF RowFollows, Asynchronous
  <2>6. \A k \in jobs' : JobPlace(k)'
    BY <1>0, <2>0 DEF JobPlace, Asynchronous, Live, Terminal, t
  <2>7. WorkingHasOwner'
    <3>1. \A u \in TaskIds : u # t => JobsOf(u)' = JobsOf(u)
      BY <2>0 DEF JobsOf, t
    <3> QED
      BY <1>0, <2>0, <3>1 DEF WorkingHasOwner
  <2>8. OneTrackedJob'
    BY <2>0 DEF OneTrackedJob, t
  <2>9. ClosePlace'
    BY <1>0, <2>1 DEF ClosePlace
  <2> QED
    BY <2>2, <2>3, <2>4, <2>5, <2>6, <2>7, <2>8, <2>9
<1>2. CASE ~CanCancel(tasks[t])
  <2>0. /\ jobs' = jobs \ {j} /\ Finished(t, j.by) /\ ctxDone' = ctxDone /\ j.op = "cancel"
        /\ tasks[t].status \notin Live
    BY <1>2 DEF cancelPendingAsyncTask, CanCancel
  <2>1. /\ RefsCounted' /\ wg' \in Nat
        /\ CreatorRefs' \subseteq CreatorRefs /\ WorkerRefs' \subseteq WorkerRefs
        /\ ExpiryRefs' \subseteq ExpiryRefs
        /\ creator' = IF j.by = "creator" THEN [creator EXCEPT ![t] = "done"] ELSE creator
        /\ worker' = IF j.by = "worker" THEN [worker EXCEPT ![t] = "done"] ELSE worker
    BY <1>0, <2>0, FinishedRefs
  <2> HIDE DEF t
  <2>2. TypeOK'
    BY <1>0, <2>0, <2>1 DEF TypeOK
  <2>3. \A u \in TaskIds : (TaskPlace(u) /\ RowFollows(u))'
    BY <1>0, <2>0, <2>1 DEF TypeOK, TaskPlace, RowFollows, JobPlace, Asynchronous, JobsOf, Live, Terminal, t
  <2>4. \A k \in jobs' : JobPlace(k)'
    BY <1>0, <2>0, <2>1 DEF TypeOK, JobPlace, OneTrackedJob, Tracked, Asynchronous, t
  <2>5. WorkingHasOwner' /\ OneTrackedJob' /\ ClosePlace'
    BY <1>0, <2>0, <2>1 DEF TypeOK, WorkingHasOwner, OneTrackedJob, ClosePlace, JobPlace, JobsOf, Live, t
  <2> QED
    BY <2>1, <2>2, <2>3, <2>4, <2>5
<1> QED
  BY <1>1, <1>2
\* A write puts the record it carries into the row.
LEMMA PersistKeepsInv ==
  ASSUME TasksInv, NEW j \in jobs, persistTask(j)
  PROVE  TasksInv'
<1> USE DEF TasksInv, closed, rows
<1> DEFINE t == j.task
<1>0. /\ t \in TaskIds /\ JobPlace(j) /\ j.snap \in Snapshot /\ j.by \in Holders /\ j.op = "save"
      /\ jobs' = jobs \ {j} /\ Finished(t, j.by)
      /\ UNCHANGED <<tasks, kind, ctxDone, updater, pending, closer, restarts>>
  BY DEF persistTask, TypeOK
<1>1. /\ snapshot' \in [TaskIds -> Snapshot]
      /\ \A u \in TaskIds : u # t => snapshot'[u] = snapshot[u]
      /\ snapshot'[t] \in {snapshot[t], j.snap} /\ (storeOpen => snapshot'[t] = j.snap)
      /\ opStatus' \in [TaskIds -> {"none", "working", "completed", "failed", "cancelled", "unknown"}]
  BY <1>0 DEF persistTask, SaveTaskSnapshot, TypeOK
<1>2. /\ RefsCounted' /\ wg' \in Nat
      /\ CreatorRefs' \subseteq CreatorRefs /\ WorkerRefs' \subseteq WorkerRefs
      /\ ExpiryRefs' \subseteq ExpiryRefs
      /\ creator' = IF j.by = "creator" THEN [creator EXCEPT ![t] = "done"] ELSE creator
      /\ worker' = IF j.by = "worker" THEN [worker EXCEPT ![t] = "done"] ELSE worker
  BY <1>0, FinishedRefs
<1>3. Asynchronous(t) => j.snap.status = tasks[t].status /\ tasks[t].status \in Terminal
  BY <1>0 DEF JobPlace
<1> HIDE DEF t
<1>4. TypeOK'
  BY <1>0, <1>1, <1>2 DEF TypeOK
<1>5. \A u \in TaskIds : TaskPlace(u)'
  BY <1>0, <1>1, <1>2, <1>3 DEF TypeOK, TaskPlace, JobPlace, Asynchronous, Terminal, t
<1>6. \A u \in TaskIds : RowFollows(u)'
  <2>1. ASSUME NEW u \in TaskIds, u # t
        PROVE  RowFollows(u)'
    <3>1. JobsOf(u)' = JobsOf(u)
      BY <1>0, <2>1 DEF JobsOf, t
    <3> QED
      BY <1>0, <1>1, <1>2, <2>1, <3>1 DEF RowFollows, Asynchronous, TypeOK
  <2>2. RowFollows(t)'
    BY <1>0, <1>1, <1>3, RestoreFacts DEF RowFollows, Asynchronous, storeOpen, Terminal
  <2> QED
    BY <2>1, <2>2
<1>7. \A k \in jobs' : JobPlace(k)'
  BY <1>0, <1>2 DEF TypeOK, JobPlace, OneTrackedJob, Tracked, Asynchronous, t
<1>8. WorkingHasOwner' /\ OneTrackedJob' /\ ClosePlace'
  <2>1. \A u \in TaskIds : \A k \in JobsOf(u) : k.op = "cancel" => k \in JobsOf(u)'
    BY <1>0 DEF JobsOf
  <2> QED
    BY <1>0, <1>2, <2>1 DEF TypeOK, WorkingHasOwner, OneTrackedJob, ClosePlace, JobPlace, t
<1> QED
  BY <1>2, <1>4, <1>5, <1>6, <1>7, <1>8

----------------------------------------------------------------------------
\* The worker reports and persists.
LEMMA WorkerReturnsKeepsInv ==
  ASSUME TasksInv, NEW t \in TaskIds, NEW outcome \in {"failed", "completed"},
         WorkerReturns(t, outcome)
  PROVE  TasksInv'
<1> USE DEF TasksInv, closed, rows
<1>0. /\ worker[t] = "running" /\ creator[t] = "done" /\ Asynchronous(t)
      /\ tasks[t].status \in Terminal \cup {"working"} /\ tasks[t] \in Record
  BY DEF WorkerReturns, TypeOK, TaskPlace, Record, Statuses, Live
<1>1. /\ worker' = [worker EXCEPT ![t] = "reported"]
      /\ opStatus' \in [TaskIds -> {"none", "working", "completed", "failed", "cancelled", "unknown"}]
      /\ UNCHANGED <<kind, creator, ctxDone, updater, pending, jobs, wg, closer, snapshot, restarts>>
  BY DEF WorkerReturns, WriteOperation, TypeOK
<1>2. /\ tasks' \in [TaskIds -> Record]
      /\ \A u \in TaskIds : u # t => tasks'[u] = tasks[u]
      /\ tasks'[t].status \in Terminal
      /\ tasks[t].status \in Terminal => tasks'[t].status = tasks[t].status
  BY <1>0, RecordFacts DEF WorkerReturns, TypeOK, Terminal, Live
<1>3. CreatorRefs' = CreatorRefs /\ WorkerRefs' = WorkerRefs /\ ExpiryRefs' = ExpiryRefs
  BY <1>0, <1>1 DEF CreatorRefs, WorkerRefs, ExpiryRefs, TypeOK
<1>4. RefsCounted' /\ TypeOK'
  BY <1>1, <1>2, <1>3 DEF RefsCounted, TypeOK
<1>5. \A u \in TaskIds : (TaskPlace(u) /\ RowFollows(u))'
  BY <1>0, <1>1, <1>2 DEF TypeOK, TaskPlace, RowFollows, Asynchronous, JobsOf, Terminal
<1>6. \A j \in jobs' : JobPlace(j)'
  BY <1>0, <1>1, <1>2 DEF TypeOK, JobPlace, Asynchronous, Terminal
<1>7. WorkingHasOwner' /\ OneTrackedJob' /\ ClosePlace'
  BY <1>0, <1>1, <1>2, <1>3 DEF TypeOK, WorkingHasOwner, OneTrackedJob, ClosePlace, JobsOf, Terminal
<1> QED
  BY <1>4, <1>5, <1>6, <1>7

\* The worker writes its row and gives its reference back.
LEMMA WorkerPersistsKeepsInv ==
  ASSUME TasksInv, NEW t \in TaskIds, WorkerPersists(t)
  PROVE  TasksInv'
<1> USE DEF TasksInv, closed, rows
<1> DEFINE new == SaveJob(t, "worker", ToGetTaskResult(tasks[t]))
<1>0. /\ worker[t] = "reported" /\ creator[t] = "done" /\ Asynchronous(t)
      /\ tasks[t].status \in Terminal
  BY DEF WorkerPersists, TaskPlace
<1>1. /\ new.task = t /\ new.by = "worker" /\ new.op = "save" /\ new.snap.status = tasks[t].status
      /\ new \in [op : {"cancel", "save"}, task : TaskIds, by : Holders, snap : Snapshot]
  <2>1. tasks[t] \in Record
    BY DEF TypeOK
  <2>2. ToGetTaskResult(tasks[t]) \in Snapshot /\ ToGetTaskResult(tasks[t]).status = tasks[t].status
    BY <2>1, RecordFacts
  <2> QED
    BY <2>2 DEF SaveJob, Holders
<1>2. /\ jobs' = jobs \cup {new} /\ worker' = [worker EXCEPT ![t] = "persisting"]
      /\ UNCHANGED <<tasks, kind, creator, ctxDone, updater, pending, wg, closer, rows, restarts>>
  BY DEF WorkerPersists
<1> HIDE DEF new
<1>3. CreatorRefs' = CreatorRefs /\ WorkerRefs' = WorkerRefs /\ ExpiryRefs' = ExpiryRefs
  BY <1>0, <1>1, <1>2 DEF CreatorRefs, WorkerRefs, ExpiryRefs, TypeOK
<1>4. RefsCounted' /\ TypeOK'
  BY <1>1, <1>2, <1>3 DEF RefsCounted, TypeOK
<1>5. \A u \in TaskIds : (TaskPlace(u) /\ RowFollows(u))'
  BY <1>0, <1>1, <1>2 DEF TypeOK, TaskPlace, RowFollows, Asynchronous, JobsOf, Terminal
<1>6. \A j \in jobs' : JobPlace(j)'
  BY <1>0, <1>1, <1>2 DEF TypeOK, JobPlace, Asynchronous, TaskPlace, Terminal
<1>7. OneTrackedJob'
  <2>1. \A k \in jobs : k.by = "worker" => k.task # t
    BY <1>0 DEF JobPlace
  <2> QED
    BY <1>1, <1>2, <2>1 DEF OneTrackedJob
<1>8. WorkingHasOwner' /\ ClosePlace'
  BY <1>0, <1>1, <1>2, <1>3 DEF TypeOK, WorkingHasOwner, ClosePlace, JobsOf, Terminal
<1> QED
  BY <1>4, <1>5, <1>6, <1>7, <1>8
----------------------------------------------------------------------------
\* Polls, cancellations and timers.
LEMMA PollKeepsInv ==
  ASSUME TasksInv, NEW t \in TaskIds, startPendingAsyncTask(t)
  PROVE  TasksInv'
<1> USE DEF TasksInv, closed, rows
<1>0. /\ ~closed /\ kind[t] = "owned" /\ creator[t] = "done" /\ worker[t] = "none"
      /\ pending' = pending \ {t} /\ wg' = wg + 1 /\ worker' = [worker EXCEPT ![t] = "running"]
      /\ UNCHANGED <<tasks, kind, creator, ctxDone, updater, jobs, closer, rows, restarts>>
  BY DEF startPendingAsyncTask, TaskPlace, ClosePlace
<1>1. /\ WorkerRefs' = WorkerRefs \cup {t} /\ t \notin WorkerRefs
      /\ CreatorRefs' = CreatorRefs /\ ExpiryRefs' = ExpiryRefs
  BY <1>0 DEF CreatorRefs, WorkerRefs, ExpiryRefs, TypeOK
<1>2. RefsCounted'
  <2>1. /\ Cardinality(WorkerRefs) \in Nat /\ Cardinality(WorkerRefs \cup {t}) = Cardinality(WorkerRefs) + 1
        /\ Cardinality(CreatorRefs) \in Nat /\ Cardinality(ExpiryRefs) \in Nat
    BY <1>1, RefsFinite DEF CreatorRefs, WorkerRefs, ExpiryRefs
  <2> QED
    BY <1>0, <1>1, <2>1 DEF RefsCounted
<1>3. TypeOK'
  BY <1>0 DEF TypeOK
<1>4. \A u \in TaskIds : (TaskPlace(u) /\ RowFollows(u))'
  BY <1>0 DEF TypeOK, TaskPlace, RowFollows, Asynchronous, JobsOf, Terminal
<1>5. \A j \in jobs' : JobPlace(j)'
  BY <1>0 DEF TypeOK, JobPlace, Asynchronous, startPendingAsyncTask
<1>6. WorkingHasOwner' /\ OneTrackedJob' /\ ClosePlace'
  BY <1>0, <1>1 DEF TypeOK, WorkingHasOwner, OneTrackedJob, ClosePlace, JobsOf
<1> QED
  BY <1>2, <1>3, <1>4, <1>5, <1>6

\* A cancellation makes the record terminal and begins the write of its row.
LEMMA ClientCancelKeepsInv ==
  ASSUME TasksInv, NEW t \in TaskIds, TasksCancel(t)
  PROVE  TasksInv'
<1> USE DEF TasksInv, closed, rows
<1>0. /\ creator[t] = "done" /\ pending' = pending \ {t}
      /\ UNCHANGED <<kind, creator, worker, updater, wg, closer, snapshot, restarts>>
  BY DEF TasksCancel
<1>1. CASE CanCancel(tasks[t])
  <2> DEFINE new == SaveJob(t, "client", ToGetTaskResult(tasks'[t]))
  <2>1. /\ tasks[t].status \in Live /\ tasks[t] \in Record
        /\ tasks' = [tasks EXCEPT ![t] = Cancel(tasks[t])]
        /\ ctxDone' = [ctxDone EXCEPT ![t] = TRUE] /\ CancelOperation(t)
        /\ jobs' = jobs \cup {new}
    BY <1>1 DEF TasksCancel, CanCancel, TypeOK
  <2>2. /\ tasks' \in [TaskIds -> Record] /\ tasks'[t].status = "cancelled" /\ tasks'[t] \in Record
        /\ \A u \in TaskIds : u # t => tasks'[u] = tasks[u]
        /\ opStatus' \in [TaskIds -> {"none", "working", "completed", "failed", "cancelled", "unknown"}]
    BY <2>1, RecordFacts DEF TypeOK, CancelOperation, WriteOperation
  <2>3. ToGetTaskResult(tasks'[t]) \in Snapshot /\ ToGetTaskResult(tasks'[t]).status = "cancelled"
    BY <2>2, RecordFacts
  <2>4. /\ new.task = t /\ new.by = "client" /\ new.op = "save" /\ new.snap.status = "cancelled"
        /\ new \in [op : {"cancel", "save"}, task : TaskIds, by : Holders, snap : Snapshot]
    BY <2>3 DEF SaveJob, Holders
  <2> HIDE DEF new
  <2>5. CreatorRefs' = CreatorRefs /\ WorkerRefs' = WorkerRefs /\ ExpiryRefs' = ExpiryRefs
    BY <1>0, <2>1, <2>4 DEF CreatorRefs, WorkerRefs, ExpiryRefs
  <2>6. RefsCounted' /\ TypeOK'
    BY <1>0, <2>1, <2>2, <2>4, <2>5 DEF RefsCounted, TypeOK
  <2>7. \A u \in TaskIds : TaskPlace(u)'
    BY <1>0, <2>1, <2>2 DEF TypeOK, TaskPlace, Asynchronous, Live, Terminal
  <2>8. \A u \in TaskIds : RowFollows(u)'
    BY <1>0, <2>1, <2>2, <2>4 DEF RowFollows, Asynchronous, JobsOf
  <2>9. \A j \in jobs' : JobPlace(j)'
    BY <1>0, <2>1, <2>2, <2>4 DEF TypeOK, JobPlace, Asynchronous, Live, Terminal
  <2>10. WorkingHasOwner'
    BY <1>0, <2>1, <2>2 DEF WorkingHasOwner, JobsOf
  <2>11. OneTrackedJob' /\ ClosePlace'
    BY <1>0, <2>1, <2>4, <2>5 DEF OneTrackedJob, ClosePlace, Tracked
  <2> QED
    BY <2>6, <2>7, <2>8, <2>9, <2>10, <2>11
<1>2. CASE ~CanCancel(tasks[t])
  <2>1. tasks[t].status \notin Live /\ UNCHANGED <<tasks, ctxDone, opStatus, jobs>>
    BY <1>2 DEF TasksCancel, CanCancel
  <2>2. CreatorRefs' = CreatorRefs /\ WorkerRefs' = WorkerRefs /\ ExpiryRefs' = ExpiryRefs
    BY <1>0, <2>1 DEF CreatorRefs, WorkerRefs, ExpiryRefs
  <2>3. RefsCounted' /\ TypeOK'
    BY <1>0, <2>1, <2>2 DEF RefsCounted, TypeOK
  <2>4. \A u \in TaskIds : (TaskPlace(u) /\ RowFollows(u))'
    BY <1>0, <2>1 DEF TaskPlace, RowFollows, Asynchronous, JobsOf
  <2>5. \A j \in jobs' : JobPlace(j)'
    BY <1>0, <2>1 DEF JobPlace, Asynchronous
  <2>6. WorkingHasOwner' /\ OneTrackedJob' /\ ClosePlace'
    BY <1>0, <2>1, <2>2 DEF WorkingHasOwner, OneTrackedJob, ClosePlace, JobsOf, Live
  <2> QED
    BY <2>3, <2>4, <2>5, <2>6
<1> QED
  BY <1>1, <1>2

\* The acknowledgement timer takes the start away from the polls before it
\* cancels.
LEMMA ExpireKeepsInv ==
  ASSUME TasksInv, NEW t \in TaskIds, expirePendingAsyncTaskStart(t)
  PROVE  TasksInv'
<1> USE DEF TasksInv, closed, rows
<1> DEFINE new == CancelJob(t, "expiry")
<1>0. /\ t \in pending /\ kind[t] = "owned" /\ creator[t] = "done" /\ worker[t] = "none" /\ ~closed
      /\ \A j \in jobs : j.by = "expiry" => j.task # t
  BY DEF expirePendingAsyncTaskStart, TaskPlace, ClosePlace, JobPlace
<1>1. /\ new.task = t /\ new.by = "expiry" /\ new.op = "cancel"
      /\ new \in [op : {"cancel", "save"}, task : TaskIds, by : Holders, snap : Snapshot]
  BY RecordFacts DEF CancelJob, Holders
<1>2. /\ pending' = pending \ {t} /\ wg' = wg + 1 /\ jobs' = jobs \cup {new}
      /\ UNCHANGED <<tasks, kind, creator, worker, ctxDone, updater, closer, rows, restarts>>
  BY DEF expirePendingAsyncTaskStart
<1> HIDE DEF new
<1>3. /\ ExpiryRefs' = ExpiryRefs \cup {t} /\ t \notin ExpiryRefs
      /\ CreatorRefs' = CreatorRefs /\ WorkerRefs' = WorkerRefs
  BY <1>0, <1>1, <1>2 DEF CreatorRefs, WorkerRefs, ExpiryRefs
<1>4. RefsCounted'
  BY <1>2, <1>3, RefsFinite DEF RefsCounted, CreatorRefs, WorkerRefs, ExpiryRefs
<1>5. TypeOK'
  BY <1>1, <1>2 DEF TypeOK
<1>6. \A u \in TaskIds : (TaskPlace(u) /\ RowFollows(u))'
  BY <1>2 DEF TaskPlace, RowFollows, Asynchronous, JobsOf
<1>7. \A j \in jobs' : JobPlace(j)'
  BY <1>0, <1>1, <1>2 DEF JobPlace, Asynchronous, TaskPlace
<1>8. WorkingHasOwner' /\ OneTrackedJob' /\ ClosePlace'
  BY <1>0, <1>1, <1>2 DEF WorkingHasOwner, OneTrackedJob, ClosePlace, JobsOf
<1> QED
  BY <1>4, <1>5, <1>6, <1>7, <1>8
----------------------------------------------------------------------------
\* tasks/update and its continuation concern input tasks alone.
LEMMA InputKeepsInv ==
  ASSUME TasksInv, NEW t \in TaskIds, kind[t] = "input",
         tasks' \in [TaskIds -> Record], \A u \in TaskIds : u # t => tasks'[u] = tasks[u],
         tasks'[t].status # "absent",
         updater' \in [TaskIds -> {"none", "resuming", "completed", "returning"}],
         \A u \in TaskIds : u # t => updater'[u] = updater[u],
         snapshot' \in [TaskIds -> Snapshot], \A u \in TaskIds : u # t => snapshot'[u] = snapshot[u],
         opStatus' \in [TaskIds -> {"none", "working", "completed", "failed", "cancelled", "unknown"}],
         UNCHANGED <<kind, creator, worker, ctxDone, pending, jobs, wg, closer, restarts>>
  PROVE  TasksInv'
<1> USE DEF TasksInv, closed
<1>1. CreatorRefs' = CreatorRefs /\ WorkerRefs' = WorkerRefs /\ ExpiryRefs' = ExpiryRefs
  BY DEF CreatorRefs, WorkerRefs, ExpiryRefs
<1>2. RefsCounted' /\ TypeOK'
  BY <1>1 DEF RefsCounted, TypeOK
<1>3. \A u \in TaskIds : TaskPlace(u)'
  BY DEF TaskPlace, Asynchronous
<1>4. \A u \in TaskIds : RowFollows(u)'
  BY DEF RowFollows, Asynchronous, JobsOf
<1>5. \A j \in jobs' : JobPlace(j)'
  BY DEF JobPlace, Asynchronous, TypeOK
<1>6. WorkingHasOwner' /\ OneTrackedJob' /\ ClosePlace'
  BY <1>1 DEF WorkingHasOwner, OneTrackedJob, ClosePlace, JobsOf
<1> QED
  BY <1>2, <1>3, <1>4, <1>5, <1>6

\* tasks/update and the goroutine it starts.
LEMMA UpdateKeepsInv ==
  ASSUME TasksInv, NEW t \in TaskIds, TasksUpdate(t) \/ UpdaterSteps(t)
  PROVE  TasksInv'
<1> USE DEF TasksInv, rows
<1>1. CASE TasksUpdate(t)
  <2>1. kind[t] = "input" /\ creator[t] = "done" /\ tasks[t] \in Record
    BY <1>1 DEF TasksUpdate, TaskPlace, Asynchronous, TypeOK
  <2>2. Update(tasks[t], InputKeys) \in Record /\ Update(tasks[t], InputKeys).status = "working"
    BY <1>1, <2>1, RecordFacts DEF TasksUpdate
  <2>3. /\ tasks' \in [TaskIds -> Record] /\ tasks'[t].status # "absent"
        /\ \A u \in TaskIds : u # t => tasks'[u] = tasks[u]
    BY <1>1, <2>1, <2>2 DEF TasksUpdate, TypeOK
  <2>4. updater' \in [TaskIds -> {"none", "resuming", "completed", "returning"}]
    BY <1>1 DEF TasksUpdate, TypeOK
  <2> QED
    BY <1>1, <2>1, <2>3, <2>4, InputKeepsInv DEF TasksUpdate, TypeOK
<1>2. UpdaterSteps(t) => kind[t] = "input" /\ tasks[t] \in Record /\ tasks[t].status # "absent"
  BY DEF UpdaterSteps, ResumeCompletes, ResumePersists, UpdatePersists, TaskPlace, Asynchronous, TypeOK
<1>3. CASE ResumeCompletes(t)
  <2>1. Complete(tasks[t]) \in Record /\ Complete(tasks[t]).status # "absent"
    BY <1>2, <1>3, RecordFacts DEF UpdaterSteps
  <2>2. /\ tasks' \in [TaskIds -> Record] /\ tasks'[t].status # "absent"
        /\ \A u \in TaskIds : u # t => tasks'[u] = tasks[u]
        /\ updater' = [updater EXCEPT ![t] = "completed"]
        /\ opStatus' \in [TaskIds -> {"none", "working", "completed", "failed", "cancelled", "unknown"}]
    BY <1>3, <2>1 DEF ResumeCompletes, WriteOperation, TypeOK
  <2> QED
    BY <1>2, <1>3, <2>2, InputKeepsInv DEF UpdaterSteps, ResumeCompletes, TypeOK
<1>4. ASSUME NEW snap \in Snapshot, SaveTaskSnapshot(t, snap), NEW next \in {"none", "returning"},
             updater' = [updater EXCEPT ![t] = next], kind[t] = "input", tasks[t].status # "absent",
             UNCHANGED <<tasks, kind, creator, worker, ctxDone, pending, jobs, wg, closer, restarts>>
      PROVE  TasksInv'
  <2>1. /\ snapshot' \in [TaskIds -> Snapshot]
        /\ \A u \in TaskIds : u # t => snapshot'[u] = snapshot[u]
        /\ opStatus' \in [TaskIds -> {"none", "working", "completed", "failed", "cancelled", "unknown"}]
    BY <1>4 DEF SaveTaskSnapshot, TypeOK
  <2> QED
    BY <1>4, <2>1, InputKeepsInv DEF TypeOK
<1>5. CASE ResumePersists(t)
  BY <1>2, <1>4, <1>5, RecordFacts DEF UpdaterSteps, ResumePersists
<1>6. CASE UpdatePersists(t)
  BY <1>2, <1>4, <1>6, RecordFacts DEF UpdaterSteps, UpdatePersists
<1> QED
  BY <1>1, <1>3, <1>5, <1>6 DEF UpdaterSteps

----------------------------------------------------------------------------
\* Close takes over what is pending, then what is working.
LEMMA CloserJobsKeepInv ==
  ASSUME TasksInv, NEW S \in SUBSET TaskIds,
         jobs' = jobs \cup {CancelJob(t, "closer") : t \in S},
         \A t \in S : tasks[t].status # "absent",
         pending \ S \subseteq pending', pending' \subseteq pending, closed' => pending' = {},
         closer' \in {"draining", "sweeping"},
         UNCHANGED <<tasks, kind, creator, worker, ctxDone, updater, wg, rows, restarts>>
  PROVE  TasksInv'
<1> USE DEF TasksInv, rows
<1>1. \A t \in S : /\ CancelJob(t, "closer") \in [op : {"cancel", "save"}, task : TaskIds,
                                                   by : Holders, snap : Snapshot]
                   /\ CancelJob(t, "closer").task = t /\ CancelJob(t, "closer").by = "closer"
                   /\ CancelJob(t, "closer").op = "cancel"
  BY RecordFacts DEF CancelJob, Holders
<1>2. CreatorRefs' = CreatorRefs /\ WorkerRefs' = WorkerRefs /\ ExpiryRefs' = ExpiryRefs
  BY <1>1 DEF CreatorRefs, WorkerRefs, ExpiryRefs
<1>3. RefsCounted' /\ TypeOK'
  BY <1>1, <1>2 DEF RefsCounted, TypeOK
<1>4. \A u \in TaskIds : TaskPlace(u)'
  BY DEF TaskPlace, Asynchronous, closed
<1>5. \A u \in TaskIds : RowFollows(u)'
  BY DEF RowFollows, closed
<1>6. \A j \in jobs' : JobPlace(j)'
  BY <1>1 DEF JobPlace, Asynchronous, closed
<1>7. OneTrackedJob'
  BY <1>1 DEF OneTrackedJob, Tracked
<1>8. WorkingHasOwner'
  <2>1. \A u \in TaskIds : JobsOf(u) \subseteq JobsOf(u)'
    BY DEF JobsOf
  <2>2. \A u \in S : CancelJob(u, "closer") \in JobsOf(u)'
    BY <1>1 DEF JobsOf
  <2> QED
    BY <1>1, <2>1, <2>2 DEF WorkingHasOwner
<1>9. ClosePlace'
  BY DEF ClosePlace
<1> QED
  BY <1>3, <1>4, <1>5, <1>6, <1>7, <1>8, <1>9

\* Close cancels what is pending, then what works, and waits.
LEMMA CloseKeepsInv ==
  ASSUME TasksInv, CloseDrains \/ CloserSteps
  PROVE  TasksInv'
<1> USE DEF TasksInv
<1>1. CASE CloseDrains
  <2>1. \A t \in pending : tasks[t].status # "absent"
    BY DEF TypeOK, TaskPlace
  <2>2. pending \in SUBSET TaskIds
    BY DEF TypeOK
  <2> QED
    BY <1>1, <2>1, <2>2, CloserJobsKeepInv DEF CloseDrains
<1>2. CASE CloseSweeps
  <2> DEFINE S == {u \in TaskIds : tasks[u].status = "working"}
  <2>1. /\ jobs' = jobs \cup {CancelJob(t, "closer") : t \in S}
        /\ closer' = "sweeping" /\ pending' = pending /\ pending = {}
        /\ UNCHANGED <<tasks, kind, creator, worker, ctxDone, updater, wg, rows, restarts>>
    BY <1>2 DEF CloseSweeps, ClosePlace, closed
  <2>2. S \in SUBSET TaskIds /\ \A t \in S : tasks[t].status # "absent"
    OBVIOUS
  <2> HIDE DEF S
  <2> QED
    BY <2>1, <2>2, CloserJobsKeepInv
<1>3. CASE CloseWaits \/ CloseReturns
  <2>1. /\ UNCHANGED <<tasks, kind, creator, worker, ctxDone, updater, pending, jobs, wg, rows, restarts>>
        /\ closer # "open" /\ closer' \in {"waiting", "closed"}
        /\ closer' = "closed" => wg = 0
    BY <1>3 DEF CloseWaits, CloseReturns
  <2>2. CreatorRefs' = CreatorRefs /\ WorkerRefs' = WorkerRefs /\ ExpiryRefs' = ExpiryRefs
    BY <2>1 DEF CreatorRefs, WorkerRefs, ExpiryRefs
  <2>3. RefsCounted' /\ TypeOK'
    BY <2>1, <2>2 DEF RefsCounted, TypeOK, rows
  <2>4. \A u \in TaskIds : (TaskPlace(u) /\ RowFollows(u))'
    BY <2>1 DEF TaskPlace, RowFollows, Asynchronous, closed, rows
  <2>5. \A j \in jobs' : JobPlace(j)'
    BY <2>1 DEF JobPlace, Asynchronous, closed
  <2>6. WorkingHasOwner' /\ OneTrackedJob'
    BY <2>1 DEF WorkingHasOwner, OneTrackedJob, JobsOf
  <2>7. ClosePlace'
    <3>1. wg = 0 => CreatorRefs = {} /\ WorkerRefs = {} /\ ExpiryRefs = {}
      <4>1. /\ CreatorRefs \in SUBSET TaskIds /\ WorkerRefs \in SUBSET TaskIds
            /\ ExpiryRefs \in SUBSET TaskIds
        BY DEF CreatorRefs, WorkerRefs, ExpiryRefs
      <4> QED
        BY <4>1, RefsFinite DEF RefsCounted
    <3> QED
      BY <2>1, <2>2, <3>1 DEF ClosePlace, closed
  <2> QED
    BY <2>3, <2>4, <2>5, <2>6, <2>7
<1> QED
  BY <1>1, <1>2, <1>3 DEF CloserSteps

----------------------------------------------------------------------------
\* After a restart nothing runs, and a record says what its row says.
LEMMA RestartKeepsInv ==
  ASSUME TasksInv, Restart
  PROVE  TasksInv'
<1> USE DEF TasksInv, Restart
<1>1. \A t \in TaskIds : /\ snapshot'[t] = snapshot[t] /\ snapshot[t] \in Snapshot
                         /\ RestoreSnapshot(snapshot[t]) \in Record
                         /\ tasks'[t] = RestoreSnapshot(snapshot[t])
                         /\ tasks'[t].status = IF snapshot[t].status = "working" THEN "failed"
                                               ELSE snapshot[t].status
                         /\ kind'[t] = IF snapshot[t].status = "absent" THEN "none" ELSE kind[t]
                         /\ creator'[t] = IF snapshot[t].status = "absent" THEN "none" ELSE "done"
                         /\ worker'[t] = "none" /\ updater'[t] = "none"
  BY RestoreFacts DEF TypeOK
<1>2. CreatorRefs' = {} /\ WorkerRefs' = {} /\ ExpiryRefs' = {}
  BY <1>1 DEF CreatorRefs, WorkerRefs, ExpiryRefs
<1>3. RefsCounted'
  BY <1>2, FS_EmptySet DEF RefsCounted
<1>4. TypeOK'
  <2>1. restarts' \in 0..MaxRestarts
    BY TasksAssumption DEF TypeOK
  <2>2. tasks' \in [TaskIds -> Record]
    BY <1>1
  <2> QED
    BY <1>1, <2>1, <2>2 DEF TypeOK
<1>5. \A t \in TaskIds : (TaskPlace(t) /\ RowFollows(t))'
  BY <1>1 DEF TaskPlace, RowFollows, Asynchronous, closed, Terminal
<1>6. WorkingHasOwner'
  BY <1>1 DEF WorkingHasOwner
<1>7. OneTrackedJob' /\ ClosePlace'
  BY <1>2 DEF OneTrackedJob, ClosePlace
<1> QED
  BY <1>3, <1>4, <1>5, <1>6, <1>7
\* A stuttering step keeps the invariant.
LEMMA StuttersKeepInv ==
  ASSUME TasksInv, UNCHANGED vars
  PROVE  TasksInv'
<1>1. CreatorRefs' = CreatorRefs /\ WorkerRefs' = WorkerRefs /\ ExpiryRefs' = ExpiryRefs
  BY DEF vars, rows, CreatorRefs, WorkerRefs, ExpiryRefs
<1> QED
  BY <1>1 DEF TasksInv, vars, rows, TypeOK, WorkingHasOwner, RefsCounted, OneTrackedJob, ClosePlace,
              TaskPlace, RowFollows, JobPlace, Asynchronous, JobsOf, closed

\* Every step of tasks, goroutines, timers, Close and restarts keeps the
\* invariant.
LEMMA TasksInduction ==
  ASSUME TasksInv, [Next]_vars
  PROVE  TasksInv'
<1>1. CASE Requests
  BY <1>1, BeginKeepsInv, CreateInputKeepsInv, PollKeepsInv, ClientCancelKeepsInv, UpdateKeepsInv
  DEF Requests
<1>2. ASSUME NEW t \in TaskIds, CreatorSteps(t)
      PROVE  TasksInv'
  BY <1>2, CreateTaskKeepsInv, PersistCreatedKeepsInv, StartKeepsInv, RegisterKeepsInv, RefuseKeepsInv
  DEF CreatorSteps
<1>3. ASSUME NEW t \in TaskIds,
             UpdaterSteps(t) \/ WorkerPersists(t) \/ expirePendingAsyncTaskStart(t)
             \/ \E outcome \in {"failed", "completed"} : WorkerReturns(t, outcome)
      PROVE  TasksInv'
  BY <1>3, UpdateKeepsInv, WorkerPersistsKeepsInv, ExpireKeepsInv, WorkerReturnsKeepsInv
<1>4. CASE JobSteps
  BY <1>4, CancelKeepsInv, PersistKeepsInv DEF JobSteps
<1>5. CASE CloseDrains \/ CloserSteps \/ Restart \/ UNCHANGED vars
  BY <1>5, CloseKeepsInv, RestartKeepsInv, StuttersKeepInv
<1> QED
  BY <1>1, <1>2, <1>3, <1>4, <1>5 DEF Next

\* There is no task at first.
LEMMA TasksStart ==
  ASSUME Init
  PROVE  TasksInv
<1>1. CreatorRefs = {} /\ WorkerRefs = {} /\ ExpiryRefs = {}
  BY DEF Init, CreatorRefs, WorkerRefs, ExpiryRefs
<1>2. RefsCounted
  BY <1>1, FS_EmptySet DEF Init, RefsCounted
<1>3. TypeOK
  BY TasksAssumption, RecordFacts DEF Init, TypeOK
<1>4. \A t \in TaskIds : TaskPlace(t) /\ RowFollows(t)
  BY RecordFacts DEF Init, TaskPlace, RowFollows, Asynchronous
<1>5. WorkingHasOwner /\ OneTrackedJob /\ ClosePlace /\ \A j \in jobs : JobPlace(j)
  BY <1>1 DEF Init, WorkingHasOwner, OneTrackedJob, ClosePlace
<1> QED
  BY <1>2, <1>3, <1>4, <1>5 DEF TasksInv

\* Every reference of asyncTaskStartWG has a holder, every job its record, and
\* every terminal record a row that agrees or a write that will make it: the
\* inductive invariant (asyncTaskStartWG, persistTask).
THEOREM TasksInvariant == Spec => []TasksInv
<1>1. Init => TasksInv
  BY TasksStart
<1>2. TasksInv /\ [Next]_vars => TasksInv'
  BY TasksInduction
<1> QED
  BY <1>1, <1>2, PTL DEF Spec

\* Work in progress belongs to a creator, the table of pending starts, a worker
\* or a cancellation, and a poll and the acknowledgement timer never both have
\* the task (startPendingAsyncTask, expirePendingAsyncTaskStart), in every order
\* of requests, workers, timers, Close and restarts.
THEOREM TasksAreConsistent == Spec => []TasksConsistent
<1>1. TasksInv => TasksConsistent
  <2>1. TasksInv => StartedNeverExpires
    BY DEF TasksInv, StartedNeverExpires, JobsOf, JobPlace
  <2> QED
    BY <2>1 DEF TasksInv, TasksConsistent
<1> QED
  BY <1>1, TasksInvariant, PTL

\* Close returns only after everything it accepted is over: when the counter it
\* waits for is zero nobody holds a reference, and nobody takes one later
\* (closePendingAsyncTaskStarts, asyncTaskStartWG.Wait).
THEOREM CloseIsQuiet == Spec => []ClosedMeansQuiet
<1>1. TasksInv => ClosedMeansQuiet
  <2> SUFFICES ASSUME TasksInv, closer = "closed"
               PROVE  /\ pending = {}
                      /\ \A j \in jobs : j.by \notin Tracked
                      /\ \A t \in TaskIds :
                           /\ kind[t] \in {"async", "owned"} => creator[t] = "done"
                           /\ worker[t] \in {"none", "done"}
    BY DEF ClosedMeansQuiet
  <2>1. pending = {} /\ CreatorRefs = {} /\ WorkerRefs = {} /\ ExpiryRefs = {}
    BY DEF TasksInv, ClosePlace, closed
  <2>2. \A t \in TaskIds : /\ kind[t] \in {"async", "owned"} => creator[t] = "done"
                           /\ worker[t] \in {"none", "done"} /\ creator[t] # "cancelling"
    BY <2>1 DEF TasksInv, CreatorRefs, WorkerRefs, TaskPlace, Asynchronous
  <2>3. \A j \in jobs : j.by \notin Tracked
    BY <2>1, <2>2 DEF TasksInv, TypeOK, ExpiryRefs, JobPlace, Tracked
  <2> QED
    BY <2>1, <2>2, <2>3
<1> QED
  BY <1>1, TasksInvariant, PTL

\* However completion, failure, cancellation and the writes they begin
\* interleave, the row of a terminal task brings back its status once nothing is
\* in flight for it: a write carries a record that was terminal when it was read.
THEOREM TerminalSurvives == Spec => []TerminalIsDurable
<1>1. TasksInv => TerminalIsDurable
  BY DEF TasksInv, TerminalIsDurable, RowFollows, InFlight, Asynchronous
<1> QED
  BY <1>1, TasksInvariant, PTL
============================================================================
