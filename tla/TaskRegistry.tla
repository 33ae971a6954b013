---------------------------- MODULE TaskRegistry ----------------------------
(***************************************************************************)
(* The in-memory registry of MCP task handles (internal/tasks/registry.go).*)
(*                                                                         *)
(* Every method of Registry takes the mutex, reads one record and replaces *)
(* it, so each is an operator from a record to the record it leaves.  The  *)
(* state machines that call the registry (HostTasks, HostPlanRun) apply    *)
(* them to the record of the task concerned.                               *)
(*                                                                         *)
(* Arguments, metadata, descriptions, messages, logs and time stamps are   *)
(* left out.  "result" abstracts ToolResult to which kind of result a      *)
(* record carries; "resume" says whether a continuation is attached.       *)
(***************************************************************************)
CONSTANT InputKeys      \* the keys under which a task can request input

Terminal == {"completed", "failed", "cancelled"}
Live     == {"working", "input_required"}
Statuses == Terminal \cup Live

\* A record; "absent" stands for a task identifier the map does not hold.
Record == [status        : Statuses \cup {"absent"},
           inputRequests : SUBSET InputKeys,
           resume        : BOOLEAN,
           result        : {"none", "value", "error"}]

Absent == [status |-> "absent", inputRequests |-> {}, resume |-> FALSE,
           result |-> "none"]

newRecord == [Absent EXCEPT !.status = "working"]

CreateWithInput(keys) ==
  [newRecord EXCEPT !.status = "input_required", !.inputRequests = keys,
                    !.resume = TRUE]

\* A working record is reused, any other is replaced by a fresh one.
CreateWithID(rec) == IF rec.status = "working" THEN rec ELSE newRecord

\* From working or input_required the task becomes (or stays) an input
\* barrier with a new continuation; from any other status nothing changes.
RequireInput(rec, keys) ==
  IF rec.status \in Live
  THEN [rec EXCEPT !.status = "input_required", !.inputRequests = keys,
                   !.resume = TRUE]
  ELSE rec

SetResume(rec) ==
  IF rec.status = "input_required" THEN [rec EXCEPT !.resume = TRUE] ELSE rec

Complete(rec) ==
  IF rec.status = "working"
  THEN [rec EXCEPT !.status = "completed", !.result = "value"]
  ELSE rec

Fail(rec) ==
  IF rec.status \in Live
  THEN [rec EXCEPT !.status = "failed", !.result = "error"]
  ELSE rec

CanCancel(rec) == rec.status \in Live

Cancel(rec) ==
  IF CanCancel(rec)
  THEN [rec EXCEPT !.status = "cancelled", !.result = "error"]
  ELSE rec

\* Update answers the outstanding requests named by "responses".  The task
\* goes back to working when none is left.
Update(rec, responses) ==
  IF rec.status # "input_required" THEN rec
  ELSE LET left == rec.inputRequests \ responses IN
       [rec EXCEPT !.inputRequests = left,
                   !.status = IF left = {} THEN "working" ELSE @]

\* Update calls the continuation, after releasing the mutex, exactly when
\* this call satisfied the last request and a continuation is attached.
UpdateResumes(rec, responses) ==
  /\ rec.status = "input_required"
  /\ rec.inputRequests \subseteq responses
  /\ rec.resume

\* ToGetTaskResult, which is also what is persisted: the result is projected
\* only for a completed task.
ToGetTaskResult(rec) ==
  [status        |-> rec.status,
   inputRequests |-> rec.inputRequests,
   result        |-> IF rec.status = "completed" THEN rec.result ELSE "none"]

Snapshot == [status        : Statuses \cup {"absent"},
             inputRequests : SUBSET InputKeys,
             result        : {"none", "value", "error"}]

\* The row of a task that was never persisted.
NoSnapshot == ToGetTaskResult(Absent)

\* RestoreSnapshot after a restart (nothing is in memory under that id):
\* work that was executing becomes failed, everything else is kept, and no
\* continuation is attached.
RestoreSnapshot(snap) ==
  CASE snap.status = "absent" -> Absent
    [] snap.status = "completed" ->
         [Absent EXCEPT !.status = "completed", !.result = snap.result]
    [] snap.status \in {"cancelled", "failed"} ->
         [Absent EXCEPT !.status = snap.status]
    [] snap.status = "input_required" ->
         [Absent EXCEPT !.status = "input_required",
                        !.inputRequests = snap.inputRequests]
    [] OTHER -> [Absent EXCEPT !.status = "failed"]
=============================================================================
