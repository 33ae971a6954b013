-------------------------- MODULE HostPlanRunProofs --------------------------
(***************************************************************************)
(* What holds of one durable plan run for any number of requests, answers, *)
(* updates and crashes.                                                    *)
(*                                                                         *)
(* First the wait group.  ClosedMeansNoExecutor is not inductive: that     *)
(* planWG = 0 means nobody is left needs WaitGroupCovers, and that         *)
(* planWG.Done never goes below zero needs it too.  An equality would be   *)
(* wrong: a refused bindTask is never given back.                          *)
(*                                                                         *)
(* Then the run itself.  HeadInv says that one slot at a time is at work   *)
(* on the run and what it may still write; OwnerInv how row, handle and    *)
(* that slot fit where nobody cancels; GapInv and FirstInv why two         *)
(* requests, or one, cannot pass the check of the task together.  For each *)
(* there is one lemma about a step of one slot (SlotStep, OwnerStep,       *)
(* GapStep), and every action is shown to be such a step.                  *)
(***************************************************************************)
EXTENDS HostPlanRun, FiniteSetTheorems, TLAPS

Working == Launching \cup Executing
Resting == {"idle", "done", "resuming", "loaded"}

\* The slots that may have added themselves to planWG.
Uncounted == {"idle", "resuming", "loaded"}
Counted == {s \in Slots : pc[s] \notin Uncounted}

CountInv ==
  /\ pc \in [Slots -> Working \cup Resting]
  /\ planWG \in Nat /\ planWG <= Cardinality(Counted)
  /\ server \in {"open", "closing", "closed"}
  /\ WaitGroupCovers
  /\ ClosedMeansNoExecutor

\* What an action can do to the counter.
Enters(s) == /\ server = "open" /\ server' = server
             /\ pc[s] \in Uncounted /\ \E to \in Working : Goes(s, to)
             /\ planWG' = planWG + 1

Moves(s) == /\ server' = server /\ planWG' = planWG
            /\ pc[s] \in Working /\ \E to \in Working : Goes(s, to)

Exits(s) == /\ server' = server
            /\ pc[s] \in Working /\ Goes(s, "done")
            /\ planWG' \in {planWG, planWG - 1}

Waits(s) == /\ server' = server /\ planWG' = planWG
            /\ pc[s] \in Uncounted /\ \E to \in Resting : Goes(s, to)

\* The goroutines counted are finitely many.
LEMMA ActiveFinite == IsFiniteSet(Active) /\ Cardinality(Active) \in Nat
<1>1. IsFiniteSet(Active)
  BY SlotsAssumption, FS_Subset DEF Active
<1> QED
  BY <1>1, FS_CardinalityType

LEMMA CountedFinite ==
  /\ IsFiniteSet(Counted) /\ Cardinality(Counted) \in Nat /\ Cardinality(Slots) \in Nat
  /\ Cardinality(Counted) <= Cardinality(Slots)
<1>1. Counted \subseteq Slots /\ IsFiniteSet(Slots)
  BY SlotsAssumption DEF Counted
<1>2. IsFiniteSet(Counted) /\ Cardinality(Counted) <= Cardinality(Slots)
  BY <1>1, FS_Subset
<1> QED
  BY <1>1, <1>2, FS_CardinalityType

\* No program counter is both inside and outside what planWG counts.
LEMMA Disjoint == Working \cap Resting = {} /\ Uncounted \subseteq Resting
BY DEF Working, Resting, Launching, Executing, Uncounted

\* A request or a resumer that adds itself to planWG keeps the count.
LEMMA EntersKeeps ==
  ASSUME CountInv, NEW s \in Slots, Enters(s)
  PROVE  CountInv'
<1>1. PICK to \in Working : pc' = [pc EXCEPT ![s] = to]
  BY DEF Enters, Goes
<1>2. s \notin Active
  BY Disjoint DEF Enters, Active, Working, Resting
<1>3. Active' = Active \cup {s}
  BY <1>1 DEF CountInv, Active, Working
<1>4. Cardinality(Active') = Cardinality(Active) + 1
  BY <1>2, <1>3, ActiveFinite, FS_AddElement
<1>5. pc' \in [Slots -> Working \cup Resting]
  BY <1>1 DEF CountInv
<1>6. WaitGroupCovers' /\ planWG' \in Nat
  BY <1>4, ActiveFinite DEF CountInv, Enters, WaitGroupCovers
<1>7. ClosedMeansNoExecutor'
  BY DEF Enters, ClosedMeansNoExecutor
<1>8. planWG' <= Cardinality(Counted')
  <2>1. s \notin Counted /\ Counted' = Counted \cup {s}
    BY <1>1, Disjoint DEF CountInv, Counted, Enters, Working, Resting, Uncounted
  <2>2. Cardinality(Counted') = Cardinality(Counted) + 1
    BY <2>1, CountedFinite, FS_AddElement
  <2> QED
    BY <2>2, CountedFinite DEF CountInv, Enters
<1> QED
  BY <1>5, <1>6, <1>7, <1>8 DEF CountInv, Enters

\* A goroutine that goes on keeps the count.
LEMMA MovesKeeps ==
  ASSUME CountInv, NEW s \in Slots, Moves(s)
  PROVE  CountInv'
<1>1. PICK to \in Working : pc' = [pc EXCEPT ![s] = to]
  BY DEF Moves, Goes
<1>2. Active' = Active
  BY <1>1 DEF CountInv, Moves, Active, Working
<1>3. pc' \in [Slots -> Working \cup Resting]
  BY <1>1 DEF CountInv
<1>4. Counted' = Counted
  BY <1>1, Disjoint DEF CountInv, Moves, Counted
<1> QED
  BY <1>2, <1>3, <1>4 DEF CountInv, Moves, WaitGroupCovers, ClosedMeansNoExecutor

\* A goroutine that leaves, with or without planWG.Done, keeps the count.
LEMMA ExitsKeeps ==
  ASSUME CountInv, NEW s \in Slots, Exits(s)
  PROVE  CountInv'
<1>1. pc' = [pc EXCEPT ![s] = "done"]
  BY DEF Exits, Goes
<1>2. s \in Active
  BY DEF Exits, Active, Working
<1>3. Active' = Active \ {s}
  BY <1>1, Disjoint DEF CountInv, Active, Working, Resting
<1>4. Cardinality(Active') = Cardinality(Active) - 1
  BY <1>2, <1>3, ActiveFinite, FS_RemoveElement
<1>5. Cardinality(Active') \in Nat
  BY <1>3, ActiveFinite, FS_RemoveElement, FS_CardinalityType
<1>6. pc' \in [Slots -> Working \cup Resting]
  BY <1>1 DEF CountInv, Resting
<1>7. WaitGroupCovers' /\ planWG' \in Nat
  BY <1>4, <1>5, ActiveFinite DEF CountInv, Exits, WaitGroupCovers
<1>8. ClosedMeansNoExecutor'
  BY <1>2 DEF CountInv, Exits, ClosedMeansNoExecutor
<1>9. Counted' = Counted
  BY <1>1, Disjoint DEF CountInv, Exits, Counted, Uncounted
<1>10. planWG' <= Cardinality(Counted')
  BY <1>9, CountedFinite DEF CountInv, Exits
<1> QED
  BY <1>6, <1>7, <1>8, <1>10 DEF CountInv, Exits

\* A resumer outside the count stays outside.
LEMMA WaitsKeeps ==
  ASSUME CountInv, NEW s \in Slots, Waits(s)
  PROVE  CountInv'
<1>1. PICK to \in Resting : pc' = [pc EXCEPT ![s] = to]
  BY DEF Waits, Goes
<1>2. Active' = Active
  BY <1>1, Disjoint DEF CountInv, Waits, Active, Working
<1>3. pc' \in [Slots -> Working \cup Resting]
  BY <1>1 DEF CountInv
<1>4. Cardinality(Counted) <= Cardinality(Counted') /\ Cardinality(Counted') \in Nat
  <2>1. Counted' = Counted \/ Counted' = Counted \cup {s}
    BY <1>1 DEF CountInv, Waits, Counted
  <2>2. Cardinality(Counted \cup {s}) = Cardinality(Counted)
          \/ Cardinality(Counted \cup {s}) = Cardinality(Counted) + 1
    BY CountedFinite, FS_AddElement
  <2>3. \/ Cardinality(Counted') = Cardinality(Counted)
        \/ Cardinality(Counted') = Cardinality(Counted) + 1
    BY <2>1, <2>2
  <2> QED
    BY <2>3, CountedFinite
<1>5. planWG' <= Cardinality(Counted')
  BY <1>4, CountedFinite DEF CountInv, Waits
<1> QED
  BY <1>2, <1>3, <1>5 DEF CountInv, Waits, WaitGroupCovers, ClosedMeansNoExecutor

\* A step that leaves pc, planWG and server alone keeps the count.
LEMMA IdleKeeps ==
  ASSUME CountInv, UNCHANGED <<pc, planWG, server>>
  PROVE  CountInv'
<1>1. Active' = Active /\ Counted' = Counted
  BY DEF Active, Counted
<1> QED
  BY <1>1 DEF CountInv, WaitGroupCovers, ClosedMeansNoExecutor

\* Every action of a launching request enters, moves or exits.
LEMMA LauncherSteps ==
  ASSUME CountInv, NEW l \in Launchers, Begin(l) \/ Launcher(l)
  PROVE  Enters(l) \/ Moves(l) \/ Exits(l)
<1> USE DEF Goes, Working, Launching, Executing, Resting
<1>1. CASE Begin(l)
  BY <1>1 DEF Begin, Enters, Uncounted
<1>2. CASE FindPlan(l)
  BY <1>2 DEF FindPlan, Returns, Moves, Exits
<1>3. CASE CreatePlan(l)
  BY <1>3 DEF CreatePlan, Returns, Moves, Exits
<1>4. CASE CheckTask(l)
  BY <1>4 DEF CheckTask, Returns, Moves, Exits
<1>5. CASE StartRow(l)
  BY <1>5 DEF StartRow, Moves
<1>6. CASE CreateTask(l)
  BY <1>6 DEF CreateTask, Moves
<1>7. CASE Register(l)
  BY <1>7 DEF Register, Moves
<1>8. CASE RegisterClosed(l)
  BY <1>8 DEF RegisterClosed, Returns, Exits
<1>9. CASE Launch(l)
  BY <1>9 DEF Launch, Moves
<1>10. CASE BindRefused(l)
  BY <1>10 DEF BindRefused, Exits
<1> QED
  BY <1>1, <1>2, <1>3, <1>4, <1>5, <1>6, <1>7, <1>8, <1>9, <1>10 DEF Launcher

\* Every action of an executor moves or exits; Emit leaves pc alone.
LEMMA ExecutorSteps ==
  ASSUME CountInv, NEW s \in Slots, Executor(s)
  PROVE  Moves(s) \/ Exits(s)
<1> USE DEF Goes, Working, Launching, Executing
<1>1. CASE \E status \in {"completed", "failed"} : RunEnds(s, status)
  BY <1>1 DEF RunEnds, Moves
<1>2. CASE RunWaits(s)
  BY <1>2 DEF RunWaits, Moves
<1>3. CASE RequireTaskInput(s)
  BY <1>3 DEF RequireTaskInput, Moves
<1>4. CASE PersistWait(s)
  BY <1>4 DEF PersistWait, Moves
<1>5. CASE ReadTask(s)
  BY <1>5 DEF ReadTask, Moves
<1>6. CASE Commit(s)
  BY <1>6 DEF Commit, Moves
<1>7. CASE Settle(s)
  BY <1>7 DEF Settle, Moves
<1>8. CASE Deregister(s)
  BY <1>8 DEF Deregister, Moves
<1>9. CASE Leave(s)
  BY <1>9 DEF Leave, Returns, Exits
<1> QED
  BY <1>1, <1>2, <1>3, <1>4, <1>5, <1>6, <1>7, <1>8, <1>9 DEF Executor

\* A resumer is counted from the moment it takes the run over.
LEMMA ResumerSteps ==
  ASSUME CountInv, NEW r \in Resumers, Resumer(r)
  PROVE  Enters(r) \/ Moves(r) \/ Waits(r)
<1> USE DEF Goes, Working, Launching, Executing, Resting
<1>1. CASE ResumeReads(r)
  BY <1>1 DEF ResumeReads, Waits, Uncounted
<1>2. CASE ResumeRefused(r)
  BY <1>2 DEF ResumeRefused, Waits, Uncounted
<1>3. CASE Resume(r)
  BY <1>3 DEF Resume, Enters, Uncounted
<1>4. CASE ResumeRuns(r)
  BY <1>4 DEF ResumeRuns, Moves
<1>5. CASE ResumeExpired(r)
  BY <1>5 DEF ResumeExpired, Moves
<1>6. CASE ResumeConflict(r)
  BY <1>6 DEF ResumeConflict, Moves
<1> QED
  BY <1>1, <1>2, <1>3, <1>4, <1>5, <1>6 DEF Resumer

\* Callers of cancel and update start at most a resumer that is not counted yet.
LEMMA CallerSteps ==
  ASSUME CountInv,
         \/ CancelBegins \/ Canceller \/ WaitExpires
         \/ \E u \in Updaters : AnswerValidated(u) \/ Updater(u)
  PROVE  UNCHANGED <<pc, planWG, server>> \/ \E r \in Resumers : Waits(r)
<1>1. CASE CancelBegins
  BY <1>1 DEF CancelBegins
<1>2. CASE Canceller
  BY <1>2 DEF Canceller, CancelStops, CancelTask, CancelRow, CancelPersists
<1>3. CASE WaitExpires
  BY <1>3 DEF WaitExpires
<1>4. CASE \E u \in Updaters : AnswerValidated(u)
  BY <1>4 DEF AnswerValidated
<1>5. CASE \E u \in Updaters : AnswerTooLate(u) \/ AnswerPersists(u)
  BY <1>5 DEF AnswerTooLate, AnswerPersists
<1>6. CASE \E u \in Updaters, r \in Resumers : AnswerAccepted(u, r)
  BY <1>6 DEF AnswerAccepted, Goes, Waits, Resting, Uncounted
<1> QED
  BY <1>1, <1>2, <1>3, <1>4, <1>5, <1>6 DEF Updater

\* Close returns only when the count is zero, and then nobody is counted.
LEMMA CloseKeeps ==
  ASSUME CountInv, CloseBegins \/ CloseReturns
  PROVE  CountInv'
<1>1. Active' = Active /\ Counted' = Counted
  BY DEF CloseBegins, CloseReturns, Active, Counted
<1>2. CASE CloseBegins
  BY <1>1, <1>2 DEF CloseBegins, CountInv, WaitGroupCovers, ClosedMeansNoExecutor
<1>3. CASE CloseReturns
  <2>1. Cardinality(Active) = 0
    BY <1>3, ActiveFinite DEF CloseReturns, CountInv, WaitGroupCovers
  <2>2. Active = {}
    BY <2>1, ActiveFinite, FS_EmptySet
  <2> QED
    BY <1>1, <1>3, <2>2 DEF CloseReturns, CountInv, WaitGroupCovers,
                            ClosedMeansNoExecutor
<1> QED
  BY <1>2, <1>3

\* A new process has no goroutine and a fresh counter.
LEMMA RestartKeeps ==
  ASSUME CountInv, Restart
  PROVE  CountInv'
<1>1. pc' = [s \in Slots |-> IF pc[s] = "idle" THEN "idle" ELSE "done"]
      /\ planWG' = 0 /\ server' = "open"
  BY DEF Restart
<1>2. Active' = {}
  BY <1>1, Disjoint DEF Active, Working, Resting
<1>3. pc' \in [Slots -> Working \cup Resting]
  BY <1>1 DEF Resting
<1>4. Cardinality(Active') = 0
  BY <1>2, FS_EmptySet
<1>5. Cardinality(Counted') \in Nat
  <2>1. Counted' \subseteq Slots
    BY DEF Counted
  <2> QED
    BY <2>1, SlotsAssumption, FS_Subset, FS_CardinalityType
<1> QED
  BY <1>1, <1>2, <1>3, <1>4, <1>5 DEF CountInv, WaitGroupCovers, ClosedMeansNoExecutor

\* The invariant is inductive.
LEMMA CountInduction ==
  ASSUME CountInv, [Next]_vars
  PROVE  CountInv'
<1>1. CASE \E l \in Launchers : Begin(l) \/ Launcher(l)
  BY <1>1, LauncherSteps, EntersKeeps, MovesKeeps, ExitsKeeps DEF Slots
<1>2. CASE \E s \in Slots : Executor(s)
  BY <1>2, ExecutorSteps, MovesKeeps, ExitsKeeps
<1>3. CASE \E s \in Slots : Emit(s)
  BY <1>3, IdleKeeps DEF Emit
<1>4. CASE \E r \in Resumers : Resumer(r)
  BY <1>4, ResumerSteps, EntersKeeps, MovesKeeps, WaitsKeeps DEF Slots
<1>5. CASE \/ CancelBegins \/ Canceller \/ WaitExpires
           \/ \E u \in Updaters : AnswerValidated(u) \/ Updater(u)
  BY <1>5, CallerSteps, IdleKeeps, WaitsKeeps DEF Slots
<1>6. CASE CloseBegins \/ CloseReturns
  BY <1>6, CloseKeeps
<1>7. CASE Restart
  BY <1>7, RestartKeeps
<1>8. CASE UNCHANGED vars
  BY <1>8, IdleKeeps DEF vars
<1> QED
  BY <1>1, <1>2, <1>3, <1>4, <1>5, <1>6, <1>7, <1>8 DEF Next

\* It holds initially.
LEMMA CountInit == Init => CountInv
<1> SUFFICES ASSUME Init PROVE CountInv
  OBVIOUS
<1>1. Active = {}
  BY Disjoint DEF Init, Active, Working, Resting
<1>2. Cardinality(Active) = 0
  BY <1>1, FS_EmptySet
<1>3. planWG = 0 /\ 0 <= Cardinality(Counted)
  BY CountedFinite DEF Init
<1> QED
  BY <1>1, <1>2, <1>3 DEF Init, CountInv, Resting, WaitGroupCovers, ClosedMeansNoExecutor

\* planWG covers every request and executor of plan_run.go, so planWG.Wait in
\* Close waits for all of them.
THEOREM WaitGroupCorrect == Spec => []WaitGroupCovers
<1>1. CountInv => WaitGroupCovers
  BY DEF CountInv
<1> QED
  BY <1>1, CountInit, CountInduction, PTL DEF Spec

\* After Close nothing that executes or launches a plan run is left, for every
\* number of requests, answers and restarts and whatever goes wrong.
THEOREM CloseLeavesNoExecutor == Spec => []ClosedMeansNoExecutor
<1>1. CountInv => ClosedMeansNoExecutor
  BY DEF CountInv
<1> QED
  BY <1>1, CountInit, CountInduction, PTL DEF Spec
----------------------------------------------------------------------------
\* Types.  Every method of the registry leaves a record.
LEMMA RegistryTypes ==
  /\ Absent \in Record /\ newRecord \in Record /\ NoSnapshot \in Snapshot
  /\ CreateWithInput(InputKeys) \in Record
  /\ \A r \in Record :
       /\ CreateWithID(r) \in Record /\ RequireInput(r, InputKeys) \in Record
       /\ SetResume(r) \in Record /\ Complete(r) \in Record /\ Fail(r) \in Record
       /\ Cancel(r) \in Record /\ Update(r, InputKeys) \in Record
       /\ ToGetTaskResult(r) \in Snapshot
  /\ \A s \in Snapshot : RestoreSnapshot(s) \in Record
<1>1. Absent \in Record /\ newRecord \in Record /\ CreateWithInput(InputKeys) \in Record
  BY DEF Absent, newRecord, CreateWithInput, Record, Statuses, Live, Terminal
<1>2. \A r \in Record : ToGetTaskResult(r) \in Snapshot
  BY DEF ToGetTaskResult, Record, Snapshot
<1>3. NoSnapshot \in Snapshot
  BY <1>1, <1>2 DEF NoSnapshot
<1>4. \A r \in Record : /\ CreateWithID(r) \in Record /\ RequireInput(r, InputKeys) \in Record
                        /\ SetResume(r) \in Record
  BY <1>1 DEF CreateWithID, RequireInput, SetResume, Record, Statuses, Live, Terminal
<1>5. \A r \in Record : /\ Complete(r) \in Record /\ Fail(r) \in Record
                        /\ Cancel(r) \in Record
  BY DEF Complete, Fail, Cancel, CanCancel, Record, Statuses, Live, Terminal
<1>6. \A r \in Record : Update(r, InputKeys) \in Record
  BY DEF Update, Record, Statuses, Live, Terminal
<1>7. \A s \in Snapshot : RestoreSnapshot(s) \in Record
  BY <1>1 DEF RestoreSnapshot, Absent, Record, Snapshot, Statuses, Live, Terminal
<1> QED
  BY <1>1, <1>2, <1>3, <1>4, <1>5, <1>6, <1>7

\* What the type invariant says besides the count.
Places == {"idle", "done", "resuming", "loaded"} \cup Launching \cup Executing

LEMMA NoRunTyped == NoRun \in RunState
BY DEF NoRun, RunState, RunStatuses

\* A goroutine that returns.
LEMMA ReturnsTyped ==
  ASSUME NEW s \in Slots, TypeOK, Returns(s)
  PROVE  /\ pc' \in [Slots -> Places] /\ mine' \in [Slots -> RunState]
         /\ ended' \in [Slots -> BOOLEAN]
BY NoRunTyped DEF TypeOK, Returns, Goes, Carries, Places

\* The slots' own steps keep the types.
LEMMA LauncherTyped ==
  ASSUME TypeOK, planWG' \in 0..Cardinality(Slots), NEW l \in Slots, Begin(l) \/ Launcher(l)
  PROVE  TypeOK'
<1> USE NoRunTyped DEF Goes, Carries, Launching, Executing, Places
<1>1. CASE Begin(l)
  BY <1>1 DEF Begin, TypeOK, cancels, waits, callers
<1>2. CASE FindPlan(l)
  <2>1. CASE row.status \in InFlight
    BY <1>2, <2>1, ReturnsTyped DEF FindPlan, TypeOK, cancels, waits, callers
  <2>2. CASE row.status \notin InFlight
    BY <1>2, <2>2 DEF FindPlan, TypeOK, cancels, waits, callers
  <2> QED
    BY <2>1, <2>2
<1>3. CASE CreatePlan(l)
  <2>1. CASE row.status \in InFlight
    BY <1>3, <2>1, ReturnsTyped DEF CreatePlan, TypeOK, cancels, waits, callers
  <2>2. CASE row.status \notin InFlight
    <3>1. row' \in RunState
      BY <1>3, <2>2 DEF CreatePlan, TypeOK, RunState, RunStatuses, InFlight
    <3> QED
      BY <1>3, <2>2, <3>1 DEF CreatePlan, TypeOK, cancels, waits, callers
  <2> QED
    BY <2>1, <2>2
<1>4. CASE CheckTask(l)
  <2>1. CASE rec.status \in Live
    BY <1>4, <2>1, ReturnsTyped DEF CheckTask, TypeOK, cancels, waits, callers
  <2>2. CASE rec.status \notin Live
    BY <1>4, <2>2 DEF CheckTask, TypeOK, cancels, waits, callers
  <2> QED
    BY <2>1, <2>2
<1>5. CASE StartRow(l)
  <2>1. row' \in RunState
    BY <1>5 DEF StartRow, TypeOK, RunState, RunStatuses, InFlight
  <2> QED
    BY <1>5, <2>1 DEF StartRow, TypeOK, cancels, waits, callers
<1>6. CASE CreateTask(l)
  BY <1>6, RegistryTypes DEF CreateTask, TypeOK, waits, callers
<1>7. CASE Register(l)
  BY <1>7 DEF Register, TypeOK, waits, callers
<1>8. CASE RegisterClosed(l)
  <2>1. row' \in RunState
    BY <1>8 DEF RegisterClosed, TypeOK, RunState, RunStatuses
  <2>2. rec' \in Record
    BY <1>8, RegistryTypes DEF RegisterClosed, TypeOK
  <2> QED
    BY <1>8, <2>1, <2>2, ReturnsTyped DEF RegisterClosed, TypeOK, cancels, waits, callers
<1>9. CASE Launch(l)
  BY <1>9 DEF Launch, TypeOK, cancels, waits, callers
<1>10. CASE BindRefused(l)
  <2>1. row' \in RunState
    BY <1>10 DEF BindRefused, TypeOK, RunState, RunStatuses
  <2>2. rec' \in Record /\ snap' \in Snapshot
    BY <1>10, RegistryTypes DEF BindRefused, TypeOK
  <2> QED
    BY <1>10, <2>1, <2>2 DEF BindRefused, TypeOK, cancels, waits, callers
<1> QED
  BY <1>1, <1>2, <1>3, <1>4, <1>5, <1>6, <1>7, <1>8, <1>9, <1>10 DEF Launcher

LEMMA ExecutorTyped ==
  ASSUME TypeOK, planWG' \in 0..Cardinality(Slots), NEW s \in Slots, Emit(s) \/ Executor(s)
  PROVE  TypeOK'
<1> USE NoRunTyped DEF Goes, Carries, Launching, Executing, Places
<1>1. CASE Emit(s)
  BY <1>1 DEF Emit, TypeOK, cancels, waits, callers
<1>2. ASSUME NEW status \in {"completed", "failed"}, RunEnds(s, status)
      PROVE  TypeOK'
  <2>1. row' \in RunState /\ row' = mine'[s]
    BY <1>2 DEF RunEnds, Stores, TypeOK, RunState, RunStatuses
  <2>2. mine' \in [Slots -> RunState]
    BY <1>2, <2>1 DEF RunEnds, Stores, TypeOK
  <2> QED
    BY <1>2, <2>1, <2>2 DEF RunEnds, TypeOK, cancels, waits, callers
<1>3. CASE RunWaits(s)
  <2>1. [status |-> "waiting", wait |-> TRUE] \in RunState
    BY DEF RunState, RunStatuses, InFlight
  <2> QED
    BY <1>3, <2>1 DEF RunWaits, Stores, TypeOK, cancels, callers
<1>4. CASE RequireTaskInput(s)
  <2>1. rec' \in Record
    BY <1>4, RegistryTypes DEF RequireTaskInput, TypeOK
  <2> QED
    BY <1>4, <2>1 DEF RequireTaskInput, TypeOK, cancels, waits, callers
<1>5. CASE PersistWait(s)
  <2>1. snap' \in Snapshot
    BY <1>5, RegistryTypes DEF PersistWait
  <2> QED
    BY <1>5, <2>1 DEF PersistWait, TypeOK, cancels, waits, callers
<1>6. CASE ReadTask(s)
  <2>1. mine' \in [Slots -> RunState]
    BY <1>6 DEF ReadTask, TypeOK, RunState, RunStatuses
  <2> QED
    BY <1>6, <2>1 DEF ReadTask, TypeOK, cancels, waits, callers
<1>7. CASE Commit(s)
  BY <1>7 DEF Commit, TypeOK, cancels, waits, callers
<1>8. CASE Settle(s)
  <2>1. rec' \in Record
    BY <1>8, RegistryTypes DEF Settle, TypeOK
  <2> QED
    BY <1>8, <2>1 DEF Settle, TypeOK, cancels, waits, callers
<1>9. CASE Deregister(s)
  BY <1>9 DEF Deregister, CancelContext, TypeOK, waits, callers
<1>10. CASE Leave(s)
  BY <1>10, ReturnsTyped DEF Leave, TypeOK, cancels, waits, callers
<1> QED
  BY <1>1, <1>2, <1>3, <1>4, <1>5, <1>6, <1>7, <1>8, <1>9, <1>10 DEF Executor

LEMMA ResumerTyped ==
  ASSUME TypeOK, planWG' \in 0..Cardinality(Slots), NEW r \in Slots, Resumer(r)
  PROVE  TypeOK'
<1> USE NoRunTyped DEF Goes, Carries, Launching, Executing, Places
<1>1. CASE ResumeReads(r)
  BY <1>1 DEF ResumeReads, TypeOK, cancels, waits, callers
<1>2. CASE ResumeRefused(r)
  BY <1>2 DEF ResumeRefused, TypeOK, cancels, waits, callers
<1>3. CASE Resume(r)
  BY <1>3 DEF Resume, TypeOK, callers
<1>4. CASE ResumeRuns(r)
  <2>1. [status |-> "running", wait |-> FALSE] \in RunState
    BY DEF RunState, RunStatuses, InFlight
  <2> QED
    BY <1>4, <2>1 DEF ResumeRuns, Stores, TypeOK, cancels, waits, callers
<1>5. CASE ResumeExpired(r)
  <2>1. [mine[r] EXCEPT !.status = "expired"] \in RunState
    BY DEF TypeOK, RunState, RunStatuses
  <2> QED
    BY <1>5, <2>1 DEF ResumeExpired, Stores, TypeOK, cancels, waits, callers
<1>6. CASE ResumeConflict(r)
  BY <1>6 DEF ResumeConflict, TypeOK, cancels, waits, callers
<1> QED
  BY <1>1, <1>2, <1>3, <1>4, <1>5, <1>6 DEF Resumer

LEMMA CallersTyped ==
  ASSUME TypeOK, planWG' \in 0..Cardinality(Slots),
         \/ CancelBegins \/ Canceller \/ WaitExpires \/ CloseBegins \/ CloseReturns
         \/ \E u \in Updaters : AnswerValidated(u) \/ Updater(u)
  PROVE  TypeOK'
<1> USE NoRunTyped DEF Goes, Carries, Launching, Executing, Places
<1>1. CASE CancelBegins
  BY <1>1 DEF CancelBegins, TypeOK, cancels, waits
<1>2. CASE CancelStops
  BY <1>2 DEF CancelStops, CancelContext, TypeOK, cancels, waits
<1>3. CASE CancelTask
  <2>1. rec' \in Record /\ ended' \in [Slots -> BOOLEAN]
    BY <1>3, RegistryTypes DEF CancelTask, CancelContext, TypeOK
  <2> QED
    BY <1>3, <2>1 DEF CancelTask, TypeOK, cancels, waits
<1>4. CASE CancelRow
  <2>1. row' \in RunState
    BY <1>4 DEF CancelRow, TypeOK, RunState, RunStatuses
  <2> QED
    BY <1>4, <2>1 DEF CancelRow, TypeOK, cancels, waits
<1>5. CASE CancelPersists
  <2>1. snap' \in Snapshot
    BY <1>5, RegistryTypes DEF CancelPersists, TypeOK
  <2> QED
    BY <1>5, <2>1 DEF CancelPersists, TypeOK, cancels, waits
<1>6. CASE WaitExpires
  BY <1>6 DEF WaitExpires, TypeOK, cancels, callers
<1>7. CASE CloseBegins
  BY <1>7 DEF CloseBegins, CancelContext, TypeOK, waits, callers
<1>8. CASE CloseReturns
  BY <1>8 DEF CloseReturns, TypeOK, cancels, waits, callers
<1>9. ASSUME NEW u \in Updaters, AnswerValidated(u) \/ AnswerTooLate(u)
      PROVE  TypeOK'
  BY <1>9 DEF AnswerValidated, AnswerTooLate, TypeOK, cancels, waits
<1>10. ASSUME NEW u \in Updaters, AnswerPersists(u)
       PROVE  TypeOK'
  <2>1. snap' \in Snapshot
    BY <1>10, RegistryTypes DEF AnswerPersists, TypeOK
  <2> QED
    BY <1>10, <2>1 DEF AnswerPersists, TypeOK, cancels, waits
<1>11. ASSUME NEW u \in Updaters, NEW r \in Resumers, AnswerAccepted(u, r)
       PROVE  TypeOK'
  <2>1. rec' \in Record /\ r \in Slots
    BY <1>11, RegistryTypes DEF AnswerAccepted, TypeOK, Slots
  <2> QED
    BY <1>11, <2>1 DEF AnswerAccepted, TypeOK, cancels, waits
<1> QED
  BY <1>1, <1>2, <1>3, <1>4, <1>5, <1>6, <1>7, <1>8, <1>9, <1>10, <1>11 DEF Canceller, Updater

LEMMA RestartTyped ==
  ASSUME TypeOK, Restart
  PROVE  TypeOK'
<1>1. row' \in RunState
  BY DEF Restart, TypeOK, RunState, RunStatuses
<1>2. rec' \in Record
  BY RegistryTypes DEF Restart, TypeOK
<1>3. planWG' \in 0..Cardinality(Slots)
  BY CountedFinite DEF Restart
<1>4. crashes' \in 0..MaxCrashes
  BY SlotsAssumption DEF Restart, TypeOK
<1> QED
  BY <1>1, <1>2, <1>3, <1>4, NoRunTyped DEF Restart, TypeOK

LEMMA TypeInduction ==
  ASSUME CountInv, TypeOK, [Next]_vars
  PROVE  TypeOK'
<1>1. planWG' \in 0..Cardinality(Slots)
  <2>1. CountInv'
    BY CountInduction
  <2>2. Cardinality(Counted') <= Cardinality(Slots) /\ Cardinality(Counted') \in Nat
        /\ Cardinality(Slots) \in Nat
    <3>1. Counted' \subseteq Slots /\ IsFiniteSet(Slots)
      BY SlotsAssumption DEF Counted
    <3> QED
      BY <3>1, FS_Subset, FS_CardinalityType
  <2> QED
    BY <2>1, <2>2 DEF CountInv
<1>2. CASE \E l \in Launchers : Begin(l) \/ Launcher(l)
  BY <1>1, <1>2, LauncherTyped DEF Slots
<1>3. CASE \E s \in Slots : Emit(s) \/ Executor(s)
  BY <1>1, <1>3, ExecutorTyped
<1>4. CASE \E r \in Resumers : Resumer(r)
  BY <1>1, <1>4, ResumerTyped DEF Slots
<1>5. CASE \/ CancelBegins \/ Canceller \/ WaitExpires \/ CloseBegins \/ CloseReturns
           \/ \E u \in Updaters : AnswerValidated(u) \/ Updater(u)
  BY <1>1, <1>5, CallersTyped
<1>6. CASE Restart
  BY <1>6, RestartTyped
<1>7. CASE UNCHANGED vars
  BY <1>7 DEF vars, TypeOK
<1> QED
  BY <1>2, <1>3, <1>4, <1>5, <1>6, <1>7 DEF Next

LEMMA TypeInit == Init => TypeOK
<1>1. planWG = 0 => planWG \in 0..Cardinality(Slots)
  BY CountedFinite
<1>2. crashes = 0 => crashes \in 0..MaxCrashes
  BY SlotsAssumption
<1>3. Init => pc \in [Slots -> Places] /\ ended \in [Slots -> BOOLEAN]
              /\ mine \in [Slots -> RunState]
              /\ updater \in [Updaters -> {"idle", "update", "persist"}]
  BY NoRunTyped DEF Init, Places
<1> QED
  BY <1>1, <1>2, <1>3, NoRunTyped, RegistryTypes DEF Init, TypeOK, Places

\* No step leaves the types, planWG's bound included.
THEOREM RunIsTyped == Spec => []TypeOK
<1> QED
  BY CountInit, CountInduction, TypeInit, TypeInduction, PTL DEF Spec

----------------------------------------------------------------------------
\* A slot at work on the run: from the moment a request has found no live task,
\* or an answer was accepted, until the task has ended or waits again.
Preparing == {"start", "task"}
Owning == {"register", "bind", "resuming", "loaded", "taken", "running", "ended", "erred",
           "commit", "reject", "abandon", "complete", "fail", "waited"}
Heads == Preparing \cup Owning

\* A request passes the check of the task only when nobody works on the run.
Alone == \A l, s \in Slots : pc[l] \in Preparing /\ pc[s] \in Heads => l = s

\* No two requests are between the check of the task and its creation.
OneInGap == \A l, k \in Launchers : pc[l] \in Preparing /\ pc[k] \in Preparing => l = k

OneHead == \A s, t \in Slots : pc[s] \in Heads /\ pc[t] \in Heads => s = t

\* While the task waits for an answer nobody works on the run.
WaitsAlone == rec.status = "input_required" => \A s \in Slots : pc[s] \notin Heads

\* Only requests launch.
LaunchersLaunch == \A s \in Slots : pc[s] \in Launching => s \in Launchers

\* Where nobody has created the row there is no task either.
Fresh == {"idle", "begun", "create", "done"}
Pristine == /\ rec = Absent /\ snap = NoSnapshot
            /\ \A u \in Updaters : updater[u] = "idle"
NoRow == row.status = "absent" => Pristine /\ ~row.wait /\ \A s \in Slots : pc[s] \in Fresh

\* A row that was only created belongs to the request that created it.
Created ==
  row.status = "working" =>
    Pristine /\ \E l \in Slots : pc[l] \in {"check", "start"}
                                 /\ \A s \in Slots \ {l} : pc[s] \in Fresh

\* A running row has somebody who will end it.
Driving == {"task", "register", "bind", "running"}
Driven == row.status = "running" => \E s \in Slots : pc[s] \in Driving

\* What a slot carries and may still write.
Carried ==
  \A s \in Slots :
    /\ pc[s] \in Driving => mine[s].status = "running"
    /\ pc[s] \in {"loaded", "taken", "ended", "erred", "commit", "reject", "abandon"} =>
         mine[s].status \notin {"absent", "working", "running"}
    /\ pc[s] \in {"check", "start"} => mine[s].status \notin {"absent", "running"}

\* A cancellation is about a row that exists.
CancelFits == canceller # "idle" => row.status # "absent"

HeadInv == /\ OneHead /\ WaitsAlone /\ LaunchersLaunch /\ NoRow /\ Created /\ Driven
           /\ Carried /\ CancelFits

----------------------------------------------------------------------------
\* Where nobody cancels, the row and the task say how far the one at work is.
OwnerAt(s) ==
  /\ pc[s] \in Preparing => rec.status \notin Live
  /\ pc[s] \in Owning => rec.status = "working"
  /\ pc[s] \in Driving => row.status = "running"
  /\ pc[s] = "resuming" => Waiting(row) /\ request
  /\ pc[s] = "loaded" => Waiting(row) /\ request /\ mine[s] = row
  /\ pc[s] = "taken" => Waiting(row) /\ mine[s] = row
  /\ pc[s] = "waited" => Waiting(row)
  /\ pc[s] \in {"ended", "commit", "complete"} => row.status = "completed"
  /\ pc[s] \in {"ended", "commit"} => mine[s].status = "completed"
  /\ pc[s] \in {"erred", "reject", "fail"} =>
       row.status # "completed" /\ ("catalog" \notin Events => row.status # "waiting")
  /\ pc[s] \in {"erred", "reject"} =>
       mine[s].status # "completed" /\ ("catalog" \notin Events => mine[s].status # "waiting")
  /\ pc[s] # "abandon"

\* An answer on its way finds the wait it was validated against.
AnswersFit == \A u \in Updaters :
  updater[u] = "update" /\ rec.status = "input_required" => Waiting(row)

OwnerInv ==
  /\ canceller = "idle"
  /\ \A s \in Slots : OwnerAt(s)
  /\ AnswersFit
  /\ rec.status = "input_required" => rec.resume
  /\ rec.status = "working" /\ server = "open" => \E s \in Slots : pc[s] \in Owning
  /\ crashes = 0 /\ row.status = "completed" =>
       rec.status = "completed" \/ \E s \in Slots : pc[s] \in {"ended", "commit", "complete"}
  /\ crashes = 0 /\ server = "open" /\ row.status = "waiting" /\ "catalog" \notin Events =>
       \/ rec.status = "input_required"
       \/ \E s \in Slots : pc[s] \in {"resuming", "loaded", "taken", "waited"}

----------------------------------------------------------------------------
\* What a step of one slot may do to the run, to keep HeadInv.
SlotStep(s, to) ==
  /\ pc' = [pc EXCEPT ![s] = to]
  /\ \A t \in Slots \ {s} : mine'[t] = mine[t]
  /\ to \in Heads => pc[s] \in Heads \/ \A t \in Slots : pc[t] \notin Heads
  /\ rec'.status = "input_required" =>
       to \notin Heads /\ (rec.status = "input_required" \/ pc[s] \in Heads)
  /\ to \in Launching => s \in Launchers
  /\ row'.status = "absent" => to \in Fresh /\ UNCHANGED <<row, rec, snap, updater>>
  /\ row'.status = "working" =>
       \/ row.status = "absent" /\ to = "check" /\ UNCHANGED <<rec, snap, updater>>
       \/ /\ UNCHANGED <<row, rec, snap, updater>>
          /\ pc[s] \in Fresh => to \in Fresh
          /\ pc[s] \in {"check", "start"} => to \in {"check", "start"}
  /\ row'.status = "running" =>
       to \in Driving \/ (row.status = "running" /\ pc[s] \notin Driving)
  /\ to \in Driving => mine'[s].status = "running"
  /\ to \in {"loaded", "taken", "ended", "erred", "commit", "reject", "abandon"} =>
       mine'[s].status \notin {"absent", "working", "running"}
  /\ to \in {"check", "start"} => mine'[s].status \notin {"absent", "running"}
  /\ canceller' = canceller

LEMMA SlotKeeps ==
  ASSUME TypeOK, HeadInv, NEW s \in Slots, NEW to, SlotStep(s, to)
  PROVE  HeadInv'
<1>1. pc' = [pc EXCEPT ![s] = to] /\ pc \in [Slots -> Places]
  BY DEF SlotStep, TypeOK, Places
<1>2. pc'[s] = to /\ \A t \in Slots : t # s => pc'[t] = pc[t]
  BY <1>1
<1>3. OneHead'
  BY <1>2 DEF SlotStep, HeadInv, OneHead
<1>4. WaitsAlone'
  BY <1>2 DEF SlotStep, HeadInv, OneHead, WaitsAlone
<1>5. LaunchersLaunch'
  BY <1>2 DEF SlotStep, HeadInv, LaunchersLaunch
<1>6. NoRow'
  BY <1>2 DEF SlotStep, HeadInv, NoRow, Pristine
<1>7. Created'
  <2> SUFFICES ASSUME row'.status = "working"
               PROVE  Pristine' /\ \E l \in Slots : pc'[l] \in {"check", "start"}
                                    /\ \A t \in Slots \ {l} : pc'[t] \in Fresh
    BY DEF Created
  <2>1. CASE row.status = "absent" /\ to = "check" /\ UNCHANGED <<rec, snap, updater>>
    BY <2>1, <1>2 DEF HeadInv, NoRow, Pristine
  <2>2. CASE UNCHANGED <<row, rec, snap, updater>>
             /\ (pc[s] \in Fresh => to \in Fresh)
             /\ (pc[s] \in {"check", "start"} => to \in {"check", "start"})
    <3>1. PICK l \in Slots : pc[l] \in {"check", "start"}
                             /\ \A t \in Slots \ {l} : pc[t] \in Fresh
      BY <2>2 DEF HeadInv, Created
    <3>2. pc'[l] \in {"check", "start"} /\ \A t \in Slots \ {l} : pc'[t] \in Fresh
      BY <2>2, <3>1, <1>2
    <3> QED
      BY <2>2, <3>2 DEF HeadInv, Created, Pristine
  <2> QED
    BY <2>1, <2>2 DEF SlotStep
<1>8. Driven'
  BY <1>2 DEF SlotStep, HeadInv, Driven
<1>9. Carried'
  BY <1>2 DEF SlotStep, HeadInv, Carried
<1>10. CancelFits'
  <2>1. row'.status = "absent" => row.status = "absent"
    BY DEF SlotStep
  <2> QED
    BY <2>1 DEF SlotStep, HeadInv, CancelFits
<1> QED
  BY <1>3, <1>4, <1>5, <1>6, <1>7, <1>8, <1>9, <1>10 DEF HeadInv
\* Every action of a request is such a step, the check of the task if it finds
\* nobody at work.
LEMMA LauncherHeads ==
  ASSUME TypeOK, HeadInv, NEW l \in Launchers, Begin(l) \/ Launcher(l),
         CheckTask(l) => Alone'
  PROVE  \E to \in Places : SlotStep(l, to)
<1> USE DEF Goes, Carries, Places, Launching, Executing, Heads, Preparing, Owning, Driving, Fresh
<1>a. l \in Slots /\ pc \in [Slots -> Places] /\ mine \in [Slots -> RunState]
      /\ row \in RunState /\ rec \in Record
  BY DEF Slots, TypeOK
<1>b. /\ NoRow /\ Created /\ Carried /\ WaitsAlone
  BY DEF HeadInv
<1>c. \A x \in RunState : \A status : [x EXCEPT !.status = status].status = status
  BY DEF RunState
<1>1. CASE Begin(l)
  <2>1. SlotStep(l, "begun")
    BY <1>1, <1>a, <1>b DEF Begin, SlotStep, callers, NoRow, Created, WaitsAlone, Driven
  <2> QED
    BY <2>1
<1>2. CASE FindPlan(l)
  <2>1. CASE row.status \in InFlight
    <3>1. SlotStep(l, "done")
      BY <1>2, <2>1, <1>a, <1>b DEF FindPlan, Returns, SlotStep, callers, NoRow, InFlight
    <3> QED
      BY <3>1
  <2>2. CASE row.status \notin InFlight
    <3>1. SlotStep(l, IF row.status = "absent" THEN "create" ELSE "check")
      BY <1>2, <2>2, <1>a, <1>b DEF FindPlan, SlotStep, callers, NoRow, InFlight
    <3> QED
      BY <3>1
  <2> QED
    BY <2>1, <2>2
<1>3. CASE CreatePlan(l)
  <2>1. CASE row.status \in InFlight
    <3>1. SlotStep(l, "done")
      BY <1>3, <2>1, <1>a, <1>b DEF CreatePlan, Returns, SlotStep, callers, NoRow, InFlight
    <3> QED
      BY <3>1
  <2>2. CASE row.status \notin InFlight
    <3>1. row'.status \notin {"absent", "running"}
          /\ (row'.status = "working" => row.status = "absent")
      BY <1>3, <2>2, <1>c, NoRunTyped DEF CreatePlan, InFlight
    <3>2. SlotStep(l, "check")
      BY <1>3, <2>2, <3>1, <1>a, <1>b DEF CreatePlan, SlotStep, callers
    <3> QED
      BY <3>2
  <2> QED
    BY <2>1, <2>2
<1>4. CASE CheckTask(l)
  <2>1. CASE rec.status \in Live
    <3>1. rec # Absent
      BY <2>1 DEF Absent, Live
    <3>2. SlotStep(l, "done")
      BY <1>4, <2>1, <3>1, <1>a, <1>b DEF CheckTask, Returns, SlotStep, callers, NoRow, Created,
                                          Pristine
    <3> QED
      BY <3>2
  <2>2. CASE rec.status \notin Live
    <3>1. pc' = [pc EXCEPT ![l] = "start"]
      BY <1>4, <2>2 DEF CheckTask
    <3>2. \A t \in Slots : pc[t] \notin Heads
      BY <1>4, <1>a, <3>1 DEF Alone, CheckTask
    <3>3. SlotStep(l, "start")
      BY <1>4, <2>2, <3>1, <3>2, <1>a, <1>b DEF CheckTask, SlotStep, callers, NoRow, Carried, Live
    <3> QED
      BY <3>3
  <2> QED
    BY <2>1, <2>2
<1>5. CASE StartRow(l)
  <2>1. row'.status = "running" /\ mine'[l].status = "running"
    BY <1>5, <1>a, <1>c DEF StartRow
  <2>2. SlotStep(l, "task")
    BY <1>5, <2>1, <1>a, <1>b DEF StartRow, SlotStep, callers, WaitsAlone
  <2> QED
    BY <2>2
<1>6. CASE CreateTask(l)
  <2>1. rec'.status = "working"
    BY <1>6 DEF CreateTask, CreateWithID, newRecord, Absent
  <2>2. SlotStep(l, "register")
    BY <1>6, <2>1, <1>a, <1>b DEF CreateTask, SlotStep, callers, NoRow, Created, Carried
  <2> QED
    BY <2>2
<1>7. CASE Register(l)
  <2>1. SlotStep(l, "bind")
    BY <1>7, <1>a, <1>b DEF Register, SlotStep, callers, NoRow, Created, Carried, WaitsAlone
  <2> QED
    BY <2>1
<1>8. CASE RegisterClosed(l)
  <2>1. row'.status = "unknown"
    BY <1>8, <1>a, <1>c DEF RegisterClosed
  <2>2. rec'.status = "input_required" => rec.status = "input_required"
    BY <1>8, <1>a DEF RegisterClosed, Cancel, CanCancel, Record, Live
  <2>3. SlotStep(l, "done")
    BY <1>8, <2>1, <2>2, <1>a DEF RegisterClosed, Returns, SlotStep, callers
  <2> QED
    BY <2>3
<1>9. CASE Launch(l)
  <2>1. SlotStep(l, "running")
    BY <1>9, <1>a, <1>b DEF Launch, SlotStep, callers, NoRow, Created, Carried, WaitsAlone
  <2> QED
    BY <2>1
<1>10. CASE BindRefused(l)
  <2>1. row'.status = "failed"
    BY <1>10, <1>a, <1>c DEF BindRefused
  <2>2. rec'.status = "input_required" => rec.status = "input_required"
    BY <1>10, <1>a DEF BindRefused, Fail, Record, Live
  <2>3. SlotStep(l, "done")
    BY <1>10, <2>1, <2>2, <1>a DEF BindRefused, SlotStep, callers
  <2> QED
    BY <2>3
<1> QED
  BY <1>1, <1>2, <1>3, <1>4, <1>5, <1>6, <1>7, <1>8, <1>9, <1>10 DEF Launcher

\* So is every action of an executor.
LEMMA ExecutorHeads ==
  ASSUME TypeOK, HeadInv, NEW s \in Slots, Emit(s) \/ Executor(s)
  PROVE  \E to \in Places : SlotStep(s, to)
<1> USE DEF Goes, Carries, Places, Launching, Executing, Heads, Preparing, Owning, Driving, Fresh
<1>a. pc \in [Slots -> Places] /\ mine \in [Slots -> RunState]
      /\ row \in RunState /\ rec \in Record
  BY DEF TypeOK
<1>b. NoRow /\ Created /\ Carried /\ WaitsAlone
  BY DEF HeadInv
<1>c. \A x \in RunState : \A status : [x EXCEPT !.status = status].status = status
  BY DEF RunState
<1>1. CASE Emit(s)
  <2>1. pc' = [pc EXCEPT ![s] = "running"] /\ pc[s] = "running" /\ row' = mine[s]
    BY <1>1, <1>a DEF Emit
  <2>2. mine[s].status = "running" /\ row'.status = "running"
    BY <2>1, <1>b DEF Carried
  <2>3. SlotStep(s, "running")
    BY <1>1, <2>1, <2>2, <1>a, <1>b DEF Emit, SlotStep, callers, WaitsAlone
  <2> QED
    BY <2>3
<1>2. ASSUME NEW status \in {"completed", "failed"}, RunEnds(s, status)
      PROVE  \E to \in Places : SlotStep(s, to)
  <2>1. row'.status \in {"completed", "failed", "unknown"} /\ mine'[s] = row'
    BY <1>2, <1>a, <1>c DEF RunEnds, Stores
  <2>2. SlotStep(s, IF status = "completed" THEN "ended" ELSE "erred")
    BY <1>2, <2>1, <1>a, <1>b DEF RunEnds, Stores, SlotStep, callers, WaitsAlone
  <2> QED
    BY <2>2
<1>3. CASE RunWaits(s)
  <2>1. row'.status = "waiting" /\ mine'[s] = row'
    BY <1>3, <1>a DEF RunWaits, Stores
  <2>2. SlotStep(s, "waited")
    BY <1>3, <2>1, <1>a, <1>b DEF RunWaits, Stores, SlotStep, callers, WaitsAlone
  <2> QED
    BY <2>2
<1>4. CASE RequireTaskInput(s)
  <2>1. rec.status \notin Live => rec'.status # "input_required"
    BY <1>4 DEF RequireTaskInput, RequireInput, Live
  <2>2. SlotStep(s, IF rec.status \in Live THEN "persist" ELSE "deferred")
    BY <1>4, <2>1, <1>a, <1>b DEF RequireTaskInput, SlotStep, callers, NoRow, Created
  <2> QED
    BY <2>2
<1>5. CASE PersistWait(s)
  <2>1. SlotStep(s, "deferred")
    BY <1>5, <1>a, <1>b DEF PersistWait, SlotStep, callers, NoRow, Created
  <2> QED
    BY <2>1
<1>6. CASE ReadTask(s)
  <2>1. mine'[s].status \notin {"absent", "working", "running"}
    <3>1. mine[s].status \notin {"absent", "working", "running"}
      BY <1>6, <1>b DEF ReadTask, Carried
    <3>2. mine'[s].status \in {"cancelled", "unknown", mine[s].status}
      <4>1. mine[s] \in RunState
        BY <1>a
      <4>2. CASE rec.status = "cancelled"
        BY <1>6, <1>a, <1>c, <4>1, <4>2 DEF ReadTask
      <4>3. CASE rec.status # "cancelled"
        <5>1. mine'[s] = [mine[s] EXCEPT !.status =
                            IF pc[s] = "erred" /\ ended[s] THEN "unknown" ELSE mine[s].status]
          BY <1>6, <1>a, <4>1, <4>3 DEF ReadTask
        <5> QED
          BY <1>c, <4>1, <5>1
      <4> QED
        BY <4>2, <4>3
    <3> QED
      BY <3>1, <3>2
  <2>2. PICK to \in {"abandon", "reject", "commit"} : pc' = [pc EXCEPT ![s] = to]
    BY <1>6 DEF ReadTask
  <2>3. SlotStep(s, to)
    BY <1>6, <2>1, <2>2, <1>a, <1>b DEF ReadTask, SlotStep, callers, NoRow, Created, WaitsAlone
  <2> QED
    BY <2>3
<1>7. CASE Commit(s)
  <2>1. row'.status \notin {"absent", "working", "running"}
    BY <1>7, <1>b DEF Commit, Carried
  <2>2. PICK to \in {"complete", "fail", "deferred"} : pc' = [pc EXCEPT ![s] = to]
    BY <1>7 DEF Commit
  <2>3. SlotStep(s, to)
    BY <1>7, <2>1, <2>2, <1>a, <1>b DEF Commit, SlotStep, callers, WaitsAlone
  <2> QED
    BY <2>3
<1>8. CASE Settle(s)
  <2>1. rec'.status = "input_required" => rec.status = "input_required"
    BY <1>8, <1>a DEF Settle, Complete, Fail, Record, Live
  <2>2. SlotStep(s, "deferred")
    BY <1>8, <2>1, <1>a, <1>b DEF Settle, SlotStep, callers, NoRow, Created
  <2> QED
    BY <2>2
<1>9. CASE Deregister(s)
  <2>1. SlotStep(s, "leaving")
    BY <1>9, <1>a, <1>b DEF Deregister, SlotStep, callers, NoRow, Created
  <2> QED
    BY <2>1
<1>10. CASE Leave(s)
  <2>1. SlotStep(s, "done")
    BY <1>10, <1>a, <1>b DEF Leave, Returns, SlotStep, callers, NoRow, Created
  <2> QED
    BY <2>1
<1> QED
  BY <1>1, <1>2, <1>3, <1>4, <1>5, <1>6, <1>7, <1>8, <1>9, <1>10 DEF Executor
LEMMA ResumerHeads ==
  ASSUME TypeOK, HeadInv, NEW r \in Resumers, Resumer(r)
  PROVE  \E to \in Places : SlotStep(r, to)
<1> USE DEF Goes, Carries, Places, Launching, Executing, Heads, Preparing, Owning, Driving, Fresh
<1>a. r \in Slots /\ pc \in [Slots -> Places] /\ mine \in [Slots -> RunState]
      /\ row \in RunState /\ rec \in Record
  BY DEF Slots, TypeOK
<1>b. NoRow /\ Created /\ Carried /\ WaitsAlone
  BY DEF HeadInv
<1>c. \A x \in RunState : \A status : [x EXCEPT !.status = status].status = status
  BY DEF RunState
<1>1. CASE ResumeReads(r)
  <2>1. CASE server = "closed"
    <3>1. SlotStep(r, "done")
      BY <1>1, <2>1, <1>a, <1>b DEF ResumeReads, SlotStep, callers, NoRow, Created
    <3> QED
      BY <3>1
  <2>2. CASE server # "closed"
    <3>1. row.status \notin {"absent", "working", "running"}
      BY <1>1, <1>a DEF ResumeReads, HeadInv, NoRow, Created, Driven, OneHead
    <3>2. SlotStep(r, "loaded")
      BY <1>1, <2>2, <3>1, <1>a, <1>b DEF ResumeReads, SlotStep, callers, WaitsAlone
    <3> QED
      BY <3>2
  <2> QED
    BY <2>1, <2>2
<1>2. CASE ResumeRefused(r)
  <2>1. SlotStep(r, "done")
    BY <1>2, <1>a, <1>b DEF ResumeRefused, SlotStep, callers, NoRow, Created
  <2> QED
    BY <2>1
<1>3. CASE Resume(r)
  <2>1. SlotStep(r, "taken")
    BY <1>3, <1>a, <1>b DEF Resume, SlotStep, callers, NoRow, Created, Carried, WaitsAlone
  <2> QED
    BY <2>1
<1>4. CASE ResumeRuns(r)
  <2>1. row'.status = "running" /\ mine'[r] = row'
    BY <1>4, <1>a DEF ResumeRuns, Stores
  <2>2. SlotStep(r, "running")
    BY <1>4, <2>1, <1>a, <1>b DEF ResumeRuns, Stores, SlotStep, callers, WaitsAlone
  <2> QED
    BY <2>2
<1>5. CASE ResumeExpired(r)
  <2>1. row'.status = "expired" /\ mine'[r] = row'
    BY <1>5, <1>a, <1>c DEF ResumeExpired, Stores
  <2>2. SlotStep(r, "erred")
    BY <1>5, <2>1, <1>a, <1>b DEF ResumeExpired, Stores, SlotStep, callers, WaitsAlone
  <2> QED
    BY <2>2
<1>6. CASE ResumeConflict(r)
  <2>1. SlotStep(r, "erred")
    BY <1>6, <1>a, <1>b DEF ResumeConflict, SlotStep, callers, NoRow, Created, Carried, WaitsAlone
  <2> QED
    BY <2>1
<1> QED
  BY <1>1, <1>2, <1>3, <1>4, <1>5, <1>6 DEF Resumer

\* An answer finds nobody at work, and the resumer it starts is alone.
LEMMA AnswerHeads ==
  ASSUME TypeOK, HeadInv, NEW u \in Updaters, NEW r \in Resumers, AnswerAccepted(u, r)
  PROVE  \E to \in Places : SlotStep(r, to)
<1>a. r \in Slots /\ pc \in [Slots -> Places] /\ row \in RunState /\ rec \in Record
      /\ updater[u] = "update" /\ rec.status = "input_required" /\ pc[r] = "idle"
  BY DEF Slots, TypeOK, Places, AnswerAccepted, UpdateResumes
<1>1. rec'.status = "working"
  BY DEF AnswerAccepted, UpdateResumes, Update, Record, TypeOK
<1>2. row.status \notin {"absent", "working"} /\ \A s \in Slots : pc[s] \notin Heads
  BY <1>a DEF HeadInv, NoRow, Created, Pristine, WaitsAlone
<1>3. PICK to \in {"resuming", "idle"} : pc' = [pc EXCEPT ![r] = to]
  <2>1. CASE row.wait /\ server = "open"
    BY <2>1 DEF AnswerAccepted, Goes
  <2>2. CASE ~(row.wait /\ server = "open")
    <3>1. pc' = [pc EXCEPT ![r] = "idle"]
      BY <2>2, <1>a DEF AnswerAccepted
    <3> QED
      BY <3>1
  <2> QED
    BY <2>1, <2>2
<1>4. SlotStep(r, to)
  BY <1>a, <1>1, <1>2, <1>3 DEF AnswerAccepted, SlotStep, Heads, Preparing, Owning, Driving, Fresh,
                               Launching
<1> QED
  BY <1>3, <1>4 DEF Places

----------------------------------------------------------------------------
\* A step that leaves the slots alone may cancel the row or the task, and may
\* write the snapshot of a run that exists.
LEMMA StillKeeps ==
  ASSUME TypeOK, HeadInv, UNCHANGED <<pc, mine>>,
         rec'.status = "input_required" => rec.status = "input_required",
         row'.status = "absent" => UNCHANGED <<row, rec, snap, updater>>,
         row'.status = "working" => UNCHANGED <<row, rec, snap, updater>>,
         row'.status = "running" => row.status = "running",
         canceller' # "idle" => row'.status # "absent"
  PROVE  HeadInv'
<1>1. OneHead' /\ LaunchersLaunch' /\ Carried'
  BY DEF HeadInv, OneHead, LaunchersLaunch, Carried
<1>2. WaitsAlone'
  BY DEF HeadInv, WaitsAlone
<1>3. NoRow'
  BY DEF HeadInv, NoRow, Pristine
<1>4. Created'
  BY DEF HeadInv, Created, Pristine
<1>5. Driven'
  BY DEF HeadInv, Driven
<1> QED
  BY <1>1, <1>2, <1>3, <1>4, <1>5 DEF HeadInv, CancelFits

LEMMA CallersHeads ==
  ASSUME TypeOK, HeadInv,
         \/ CancelBegins \/ Canceller \/ WaitExpires \/ CloseBegins \/ CloseReturns
         \/ \E u \in Updaters : AnswerValidated(u) \/ Updater(u)
  PROVE  HeadInv'
<1>a. row \in RunState /\ rec \in Record /\ cancelRead \in RunState
      /\ updater \in [Updaters -> {"idle", "update", "persist"}]
  BY DEF TypeOK
<1>b. NoRow /\ Created /\ CancelFits
  BY DEF HeadInv
<1>1. CASE CancelBegins
  BY <1>1, <1>b, StillKeeps DEF CancelBegins
<1>2. CASE CancelStops
  BY <1>2, <1>b, StillKeeps DEF CancelStops, CancelFits
<1>3. CASE CancelTask
  <2>1. rec'.status = "input_required" => rec.status = "input_required"
    BY <1>3, <1>a DEF CancelTask, Cancel, CanCancel, Record, Live
  <2>2. rec # Absent \/ rec' = rec
    BY <1>3 DEF CancelTask, Absent
  <2>3. row.status \notin {"absent"} /\ (row.status = "working" => rec = Absent)
    BY <1>3, <1>b DEF CancelTask, CancelFits, Created, Pristine
  <2> QED
    BY <1>3, <1>b, <2>1, <2>2, <2>3, StillKeeps DEF CancelTask, CancelFits
<1>4. CASE CancelRow
  <2>1. row' = row \/ row'.status = "cancelled"
    BY <1>4, <1>a DEF CancelRow, RunState
  <2>2. row.status # "absent" /\ UNCHANGED <<rec, snap, updater, pc, mine>>
    BY <1>4, <1>b DEF CancelRow, CancelFits
  <2> QED
    BY <2>1, <2>2, StillKeeps
<1>5. CASE CancelPersists
  <2>1. row.status \notin {"absent"} /\ (row.status = "working" => rec = Absent)
    BY <1>5, <1>b DEF CancelPersists, CancelFits, Created, Pristine
  <2>2. rec = Absent => snap' = snap
    BY <1>5 DEF CancelPersists
  <2> QED
    BY <1>5, <2>1, <2>2, StillKeeps DEF CancelPersists
<1>6. CASE WaitExpires \/ CloseBegins \/ CloseReturns
  BY <1>6, <1>b, StillKeeps DEF WaitExpires, CloseBegins, CloseReturns, CancelFits, callers
<1>7. ASSUME NEW u \in Updaters, AnswerValidated(u)
      PROVE  HeadInv'
  BY <1>7, <1>b, StillKeeps DEF AnswerValidated, Waiting, CancelFits
<1>8. ASSUME NEW u \in Updaters, AnswerTooLate(u) \/ AnswerPersists(u)
      PROVE  HeadInv'
  <2>1. updater[u] # "idle"
    BY <1>8 DEF AnswerTooLate, AnswerPersists
  <2>2. row.status \notin {"absent", "working"}
    BY <2>1, <1>b DEF NoRow, Created, Pristine
  <2> QED
    BY <1>8, <1>b, <2>2, StillKeeps DEF AnswerTooLate, AnswerPersists, CancelFits
<1>9. ASSUME NEW u \in Updaters, NEW r \in Resumers, AnswerAccepted(u, r)
      PROVE  HeadInv'
  BY <1>9, AnswerHeads, SlotKeeps DEF Slots
<1> QED
  BY <1>1, <1>2, <1>3, <1>4, <1>5, <1>6, <1>7, <1>8, <1>9 DEF Canceller, Updater

\* A new process: nobody is at work and the row is settled.
LEMMA RestartHeads ==
  ASSUME TypeOK, HeadInv, Restart
  PROVE  HeadInv'
<1>1. \A s \in Slots : pc'[s] \in {"idle", "done"}
  BY DEF Restart
<1>2. row'.status \notin {"working", "running"} /\ row'.wait = row.wait
      /\ (row'.status = "absent" => row.status = "absent")
  BY DEF Restart, TypeOK, RunState
<1>3. OneHead' /\ WaitsAlone' /\ LaunchersLaunch' /\ Carried'
  BY <1>1 DEF OneHead, WaitsAlone, LaunchersLaunch, Carried, Heads, Preparing, Owning, Launching,
              Driving
<1>4. NoRow'
  <2>1. SetResume(RestoreSnapshot(NoSnapshot)) = Absent
    BY DEF SetResume, RestoreSnapshot, NoSnapshot, ToGetTaskResult, Absent
  <2> QED
    BY <1>1, <1>2, <2>1 DEF Restart, HeadInv, NoRow, Pristine, Fresh
<1>5. Created' /\ Driven'
  BY <1>2 DEF Created, Driven
<1>6. CancelFits'
  BY <1>2 DEF Restart, HeadInv, CancelFits
<1> QED
  BY <1>3, <1>4, <1>5, <1>6 DEF HeadInv

\* The invariant is inductive as long as no request passes the check of the
\* task while somebody is at work.
LEMMA HeadInduction ==
  ASSUME TypeOK, HeadInv, [Next]_vars, (\E l \in Launchers : CheckTask(l)) => Alone'
  PROVE  HeadInv'
<1>1. CASE \E l \in Launchers : Begin(l) \/ Launcher(l)
  BY <1>1, LauncherHeads, SlotKeeps DEF Slots
<1>2. CASE \E s \in Slots : Emit(s) \/ Executor(s)
  BY <1>2, ExecutorHeads, SlotKeeps
<1>3. CASE \E r \in Resumers : Resumer(r)
  BY <1>3, ResumerHeads, SlotKeeps DEF Slots
<1>4. CASE \/ CancelBegins \/ Canceller \/ WaitExpires \/ CloseBegins \/ CloseReturns
           \/ \E u \in Updaters : AnswerValidated(u) \/ Updater(u)
  BY <1>4, CallersHeads
<1>5. CASE Restart
  BY <1>5, RestartHeads
<1>6. CASE UNCHANGED vars
  <2>1. HeadInv'
    BY <1>6 DEF vars, HeadInv, OneHead, WaitsAlone, LaunchersLaunch, NoRow, Pristine, Created,
                Driven, Carried, CancelFits
  <2> QED
    BY <2>1
<1> QED
  BY <1>1, <1>2, <1>3, <1>4, <1>5, <1>6 DEF Next

LEMMA HeadInit == Init => HeadInv
<1> SUFFICES ASSUME Init PROVE HeadInv
  OBVIOUS
<1>1. \A s \in Slots : pc[s] = "idle"
  BY DEF Init
<1>2. row.status = "absent" /\ ~row.wait
  BY DEF Init, NoRun
<1>3. Pristine /\ rec.status = "absent" /\ canceller = "idle"
  BY DEF Init, Pristine, Absent
<1> QED
  BY <1>1, <1>2, <1>3 DEF HeadInv, OneHead, WaitsAlone, LaunchersLaunch, NoRow, Created,
     Driven, Carried, CancelFits, Heads, Preparing, Owning, Launching, Driving, Fresh

----------------------------------------------------------------------------
\* What the invariant says where everybody has returned.
LEMMA HeadsSettle == TypeOK /\ HeadInv => RowSettled /\ OneExecutor
<1> SUFFICES ASSUME TypeOK, HeadInv PROVE RowSettled /\ OneExecutor
  OBVIOUS
<1>1. OneExecutor
  BY DEF HeadInv, OneHead, OneExecutor, Heads, Owning
<1>2. RowSettled
  BY DEF HeadInv, Created, Driven, RowSettled, Quiet, Driving, Fresh
<1> QED
  BY <1>1, <1>2

----------------------------------------------------------------------------
\* What a step of one slot may do where nobody cancels.
OwnerStep(s, to) ==
  /\ pc' = [pc EXCEPT ![s] = to]
  /\ \A t \in Slots \ {s} : mine'[t] = mine[t]
  /\ \/ pc[s] \in Heads
     \/ \A t \in Slots : pc[t] \notin Heads
     \/ UNCHANGED <<row, rec, request>>
  /\ OwnerAt(s)'
  /\ rec'.status = "input_required" => rec'.resume
  /\ rec'.status = "input_required" =>
       Waiting(row') \/ (UNCHANGED <<row, updater>> /\ rec.status = "input_required")
  /\ rec'.status = "working" /\ server' = "open" =>
       to \in Owning \/ (rec.status = "working" /\ server = "open" /\ pc[s] \notin Owning)
  /\ crashes' = 0 /\ row'.status = "completed" =>
       \/ rec'.status = "completed"
       \/ to \in {"ended", "commit", "complete"}
       \/ /\ crashes = 0 /\ row.status = "completed" /\ rec' = rec
          /\ pc[s] \notin {"ended", "commit", "complete"}
  /\ crashes' = 0 /\ server' = "open" /\ row'.status = "waiting" /\ "catalog" \notin Events =>
       \/ rec'.status = "input_required"
       \/ to \in {"resuming", "loaded", "taken", "waited"}
       \/ /\ crashes = 0 /\ server = "open" /\ row.status = "waiting"
          /\ rec' = rec /\ pc[s] \notin {"resuming", "loaded", "taken", "waited"}
  /\ canceller' = canceller

LEMMA OwnerKeeps ==
  ASSUME TypeOK, HeadInv, OwnerInv, NEW s \in Slots, NEW to, OwnerStep(s, to)
  PROVE  OwnerInv'
<1>1. pc'[s] = to /\ \A t \in Slots : t # s => pc'[t] = pc[t] /\ mine'[t] = mine[t]
  BY DEF OwnerStep, TypeOK
<1>2. \A t \in Slots : OwnerAt(t)'
  <2> SUFFICES ASSUME NEW t \in Slots, t # s PROVE OwnerAt(t)'
    BY DEF OwnerStep
  <2>1. CASE pc[t] \notin Heads
    BY <2>1, <1>1 DEF OwnerAt, Heads, Preparing, Owning, Driving
  <2>2. CASE pc[t] \in Heads
    <3>1. UNCHANGED <<row, rec, request>>
      BY <2>2 DEF OwnerStep, HeadInv, OneHead
    <3> QED
      BY <1>1, <3>1 DEF OwnerInv, OwnerAt
  <2> QED
    BY <2>1, <2>2
<1>3. AnswersFit'
  BY DEF OwnerStep, OwnerInv, AnswersFit, Waiting
<1>4. rec'.status = "working" /\ server' = "open" => \E t \in Slots : pc'[t] \in Owning
  BY <1>1 DEF OwnerStep, OwnerInv
<1>5. crashes' = 0 /\ row'.status = "completed" =>
        rec'.status = "completed" \/ \E t \in Slots : pc'[t] \in {"ended", "commit", "complete"}
  BY <1>1 DEF OwnerStep, OwnerInv
<1>6. crashes' = 0 /\ server' = "open" /\ row'.status = "waiting" /\ "catalog" \notin Events =>
        \/ rec'.status = "input_required"
        \/ \E t \in Slots : pc'[t] \in {"resuming", "loaded", "taken", "waited"}
  BY <1>1 DEF OwnerStep, OwnerInv
<1>7. canceller' = "idle" /\ (rec'.status = "input_required" => rec'.resume)
  BY DEF OwnerStep, OwnerInv
<1> QED
  BY <1>2, <1>3, <1>4, <1>5, <1>6, <1>7 DEF OwnerInv

LEMMA LauncherOwns ==
  ASSUME TypeOK, HeadInv, OwnerInv, NEW l \in Launchers, Begin(l) \/ Launcher(l),
         CheckTask(l) => Alone'
  PROVE  \E to \in Places : OwnerStep(l, to)
<1> USE DEF Goes, Carries, Places, Launching, Executing, Heads, Preparing, Owning, Driving
<1>a. l \in Slots /\ pc \in [Slots -> Places] /\ mine \in [Slots -> RunState]
      /\ row \in RunState /\ rec \in Record
  BY DEF Slots, TypeOK
<1>b. OwnerAt(l) /\ (rec.status = "input_required" => rec.resume)
  BY <1>a DEF OwnerInv
<1>c. \A x \in RunState : \A status : [x EXCEPT !.status = status].status = status
  BY DEF RunState
<1>1. CASE Begin(l)
  <2>1. OwnerStep(l, "begun")
    BY <1>1, <1>a, <1>b DEF Begin, OwnerStep, OwnerAt, callers, waits
  <2> QED
    BY <2>1
<1>2. CASE FindPlan(l)
  <2>1. CASE row.status \in InFlight
    <3>1. OwnerStep(l, "done")
      BY <1>2, <2>1, <1>a, <1>b DEF FindPlan, Returns, OwnerStep, OwnerAt, callers, waits
    <3> QED
      BY <3>1
  <2>2. CASE row.status \notin InFlight
    <3>1. OwnerStep(l, IF row.status = "absent" THEN "create" ELSE "check")
      BY <1>2, <2>2, <1>a, <1>b DEF FindPlan, OwnerStep, OwnerAt, callers, waits
    <3> QED
      BY <3>1
  <2> QED
    BY <2>1, <2>2
<1>3. CASE CreatePlan(l)
  <2>1. CASE row.status \in InFlight
    <3>1. OwnerStep(l, "done")
      BY <1>3, <2>1, <1>a, <1>b DEF CreatePlan, Returns, OwnerStep, OwnerAt, callers, waits
    <3> QED
      BY <3>1
  <2>2. CASE row.status \notin InFlight
    <3>1. row' = row \/ (row.status = "absent" /\ row'.status = "working")
      <4>1. row' = IF row.status = "absent" THEN [NoRun EXCEPT !.status = "working"] ELSE row
        BY <1>3, <2>2 DEF CreatePlan
      <4> QED
        BY <4>1, <1>c, NoRunTyped
    <3>2. row.status = "absent" => rec.status = "absent" /\ \A t \in Slots : pc[t] \notin Heads
      BY DEF HeadInv, NoRow, Pristine, Fresh, Absent
    <3>3. OwnerStep(l, "check")
      BY <1>3, <2>2, <3>1, <3>2, <1>a, <1>b DEF CreatePlan, OwnerStep, OwnerAt, callers, waits
    <3> QED
      BY <3>3
  <2> QED
    BY <2>1, <2>2
<1>4. CASE CheckTask(l)
  <2>1. CASE rec.status \in Live
    <3>1. OwnerStep(l, "done")
      BY <1>4, <2>1, <1>a, <1>b DEF CheckTask, Returns, OwnerStep, OwnerAt, callers, waits
    <3> QED
      BY <3>1
  <2>2. CASE rec.status \notin Live
    <3>1. OwnerStep(l, "start")
      BY <1>4, <2>2, <1>a, <1>b DEF CheckTask, OwnerStep, OwnerAt, callers, waits, Live
    <3> QED
      BY <3>1
  <2> QED
    BY <2>1, <2>2
<1>5. CASE StartRow(l)
  <2>1. row'.status = "running" /\ rec.status \notin Live
    BY <1>5, <1>a, <1>b, <1>c DEF StartRow, OwnerAt
  <2>2. OwnerStep(l, "task")
    BY <1>5, <2>1, <1>a DEF StartRow, OwnerStep, OwnerAt, callers, waits, Live
  <2> QED
    BY <2>2
<1>6. CASE CreateTask(l)
  <2>1. rec'.status = "working" /\ row.status = "running"
    BY <1>6, <1>b DEF CreateTask, CreateWithID, newRecord, Absent, OwnerAt
  <2>2. OwnerStep(l, "register")
    BY <1>6, <2>1, <1>a DEF CreateTask, OwnerStep, OwnerAt, callers, waits
  <2> QED
    BY <2>2
<1>7. CASE Register(l)
  <2>1. OwnerStep(l, "bind")
    BY <1>7, <1>a, <1>b DEF Register, OwnerStep, OwnerAt, callers, waits
  <2> QED
    BY <2>1
<1>8. CASE RegisterClosed(l)
  <2>1. row'.status = "unknown" /\ rec'.status = "cancelled"
    BY <1>8, <1>a, <1>b, <1>c DEF RegisterClosed, Cancel, CanCancel, Live, Record, OwnerAt
  <2>2. OwnerStep(l, "done")
    BY <1>8, <2>1, <1>a DEF RegisterClosed, Returns, OwnerStep, OwnerAt, callers, waits
  <2> QED
    BY <2>2
<1>9. CASE Launch(l)
  <2>1. OwnerStep(l, "running")
    BY <1>9, <1>a, <1>b DEF Launch, OwnerStep, OwnerAt, callers, waits
  <2> QED
    BY <2>1
<1>10. CASE BindRefused(l)
  <2>1. row'.status = "failed" /\ rec'.status = "failed"
    BY <1>10, <1>a, <1>b, <1>c DEF BindRefused, Fail, Live, Record, OwnerAt
  <2>2. OwnerStep(l, "done")
    BY <1>10, <2>1, <1>a DEF BindRefused, OwnerStep, OwnerAt, callers, waits
  <2> QED
    BY <2>2
<1> QED
  BY <1>1, <1>2, <1>3, <1>4, <1>5, <1>6, <1>7, <1>8, <1>9, <1>10 DEF Launcher

LEMMA ExecutorOwns ==
  ASSUME TypeOK, HeadInv, OwnerInv, NEW s \in Slots, Emit(s) \/ Executor(s)
  PROVE  \E to \in Places : OwnerStep(s, to)
<1> USE DEF Goes, Carries, Places, Launching, Executing, Heads, Preparing, Owning, Driving
<1>a. pc \in [Slots -> Places] /\ mine \in [Slots -> RunState]
      /\ row \in RunState /\ rec \in Record
  BY DEF TypeOK
<1>b. OwnerAt(s) /\ (rec.status = "input_required" => rec.resume)
  BY <1>a DEF OwnerInv
<1>c. \A x \in RunState : \A status : [x EXCEPT !.status = status].status = status
  BY DEF RunState
<1>1. CASE Emit(s)
  <2>1. row'.status = "running" /\ pc' = [pc EXCEPT ![s] = "running"] /\ pc[s] = "running"
    BY <1>1, <1>a DEF Emit, HeadInv, Carried
  <2>2. OwnerStep(s, "running")
    BY <1>1, <2>1, <1>a, <1>b DEF Emit, OwnerStep, OwnerAt, callers, waits
  <2> QED
    BY <2>2
<1>2. ASSUME NEW status \in {"completed", "failed"}, RunEnds(s, status)
      PROVE  \E to \in Places : OwnerStep(s, to)
  <2>1. /\ row'.status \in {"completed", "failed", "unknown"} /\ mine'[s] = row'
        /\ row'.status = "completed" <=> status = "completed"
    BY <1>2, <1>a, <1>c DEF RunEnds, Stores
  <2>2. OwnerStep(s, IF status = "completed" THEN "ended" ELSE "erred")
    BY <1>2, <2>1, <1>a, <1>b DEF RunEnds, Stores, OwnerStep, OwnerAt, callers, waits
  <2> QED
    BY <2>2
<1>3. CASE RunWaits(s)
  <2>1. Waiting(row') /\ mine'[s] = row' /\ row'.status = "waiting"
    BY <1>3, <1>a DEF RunWaits, Stores, Waiting
  <2>2. OwnerStep(s, "waited")
    BY <1>3, <2>1, <1>a, <1>b DEF RunWaits, Stores, OwnerStep, OwnerAt, callers
  <2> QED
    BY <2>2
<1>4. CASE RequireTaskInput(s)
  <2>1. rec'.status = "input_required" /\ rec'.resume /\ Waiting(row)
        /\ pc' = [pc EXCEPT ![s] = "persist"] /\ rec.status = "working"
    BY <1>4, <1>a, <1>b DEF RequireTaskInput, RequireInput, Live, Record, OwnerAt
  <2>2. OwnerStep(s, "persist")
    BY <1>4, <2>1, <1>a DEF RequireTaskInput, OwnerStep, OwnerAt, callers, waits, Waiting
  <2> QED
    BY <2>2
<1>5. CASE PersistWait(s)
  <2>1. OwnerStep(s, "deferred")
    BY <1>5, <1>a, <1>b DEF PersistWait, OwnerStep, OwnerAt, callers, waits
  <2> QED
    BY <2>1
<1>6. CASE ReadTask(s)
  <2>1. rec.status = "working" /\ mine[s] \in RunState
    BY <1>6, <1>a, <1>b DEF ReadTask, OwnerAt
  <2>2. CASE pc[s] = "erred"
    <3>1. pc' = [pc EXCEPT ![s] = "reject"] /\ mine'[s].status \in {"unknown", mine[s].status}
      <4>1. mine'[s] = [mine[s] EXCEPT !.status = IF ended[s] THEN "unknown" ELSE mine[s].status]
        BY <1>6, <1>a, <2>1, <2>2 DEF ReadTask
      <4> QED
        BY <1>6, <1>c, <2>1, <2>2, <4>1 DEF ReadTask
    <3>2. OwnerStep(s, "reject")
      BY <1>6, <2>1, <2>2, <3>1, <1>a, <1>b DEF ReadTask, OwnerStep, OwnerAt, callers, waits
    <3> QED
      BY <3>2
  <2>3. CASE pc[s] = "ended"
    <3>1. pc' = [pc EXCEPT ![s] = "commit"] /\ mine'[s].status = mine[s].status
      <4>1. mine'[s] = [mine[s] EXCEPT !.status = mine[s].status]
        BY <1>6, <1>a, <2>1, <2>3 DEF ReadTask
      <4> QED
        BY <1>6, <1>c, <2>1, <2>3, <4>1 DEF ReadTask
    <3>2. OwnerStep(s, "commit")
      BY <1>6, <2>1, <2>3, <3>1, <1>a, <1>b DEF ReadTask, OwnerStep, OwnerAt, callers, waits
    <3> QED
      BY <3>2
  <2> QED
    BY <1>6, <2>2, <2>3 DEF ReadTask
<1>7. CASE Commit(s)
  <2>1. PICK to \in {"complete", "fail"} : pc' = [pc EXCEPT ![s] = to]
                                           /\ (to = "complete" <=> pc[s] = "commit")
    BY <1>7, <1>b DEF Commit, OwnerAt
  <2>2. OwnerStep(s, to)
    BY <1>7, <2>1, <1>a, <1>b DEF Commit, OwnerStep, OwnerAt, callers, waits
  <2> QED
    BY <2>2
<1>8. CASE Settle(s)
  <2>1. rec.status = "working" /\ (row.status = "completed" <=> pc[s] = "complete")
        /\ ("catalog" \notin Events => row.status # "waiting")
    BY <1>8, <1>b DEF Settle, OwnerAt
  <2>2. rec'.status = IF pc[s] = "complete" THEN "completed" ELSE "failed"
    BY <1>8, <1>a, <2>1 DEF Settle, Complete, Fail, Record, Live
  <2>3. OwnerStep(s, "deferred")
    BY <1>8, <2>1, <2>2, <1>a DEF Settle, OwnerStep, OwnerAt, callers, waits
  <2> QED
    BY <2>3
<1>9. CASE Deregister(s)
  <2>1. OwnerStep(s, "leaving")
    BY <1>9, <1>a, <1>b DEF Deregister, OwnerStep, OwnerAt, callers, waits
  <2> QED
    BY <2>1
<1>10. CASE Leave(s)
  <2>1. OwnerStep(s, "done")
    BY <1>10, <1>a, <1>b DEF Leave, Returns, OwnerStep, OwnerAt, callers, waits
  <2> QED
    BY <2>1
<1> QED
  BY <1>1, <1>2, <1>3, <1>4, <1>5, <1>6, <1>7, <1>8, <1>9, <1>10 DEF Executor
LEMMA ResumerOwns ==
  ASSUME TypeOK, HeadInv, OwnerInv, NEW r \in Resumers, Resumer(r)
  PROVE  \E to \in Places : OwnerStep(r, to)
<1> USE DEF Goes, Carries, Places, Launching, Executing, Heads, Preparing, Owning, Driving
<1>a. r \in Slots /\ pc \in [Slots -> Places] /\ mine \in [Slots -> RunState]
      /\ row \in RunState /\ rec \in Record
  BY DEF Slots, TypeOK
<1>b. OwnerAt(r) /\ (rec.status = "input_required" => rec.resume)
  BY <1>a DEF OwnerInv
<1>c. \A x \in RunState : \A status : [x EXCEPT !.status = status].status = status
  BY DEF RunState
<1>1. CASE ResumeReads(r)
  <2>1. CASE server = "closed"
    <3>1. OwnerStep(r, "done")
      BY <1>1, <2>1, <1>a, <1>b DEF ResumeReads, OwnerStep, OwnerAt, callers, waits, Waiting
    <3> QED
      BY <3>1
  <2>2. CASE server # "closed"
    <3>1. OwnerStep(r, "loaded")
      BY <1>1, <2>2, <1>a, <1>b DEF ResumeReads, OwnerStep, OwnerAt, callers, waits
    <3> QED
      BY <3>1
  <2> QED
    BY <2>1, <2>2
<1>2. CASE ResumeRefused(r)
  <2>1. server # "open" /\ row.status = "waiting"
    BY <1>2, <1>b DEF ResumeRefused, OwnerAt, Waiting
  <2>2. OwnerStep(r, "done")
    BY <1>2, <2>1, <1>a, <1>b DEF ResumeRefused, OwnerStep, OwnerAt, callers, waits
  <2> QED
    BY <2>2
<1>3. CASE Resume(r)
  <2>1. OwnerStep(r, "taken")
    BY <1>3, <1>a, <1>b DEF Resume, OwnerStep, OwnerAt, callers
  <2> QED
    BY <2>1
<1>4. CASE ResumeRuns(r)
  <2>1. row'.status = "running" /\ mine'[r] = row'
    BY <1>4, <1>a DEF ResumeRuns, Stores
  <2>2. OwnerStep(r, "running")
    BY <1>4, <2>1, <1>a, <1>b DEF ResumeRuns, Stores, OwnerStep, OwnerAt, callers, waits
  <2> QED
    BY <2>2
<1>5. CASE ResumeExpired(r)
  <2>1. row'.status = "expired" /\ mine'[r] = row'
    BY <1>5, <1>a, <1>c DEF ResumeExpired, Stores
  <2>2. OwnerStep(r, "erred")
    BY <1>5, <2>1, <1>a, <1>b DEF ResumeExpired, Stores, OwnerStep, OwnerAt, callers, waits
  <2> QED
    BY <2>2
<1>6. CASE ResumeConflict(r)
  <2>1. "catalog" \in Events /\ row.status = "waiting" /\ mine[r] = row
    BY <1>6, <1>b DEF ResumeConflict, OwnerAt, Waiting
  <2>2. OwnerStep(r, "erred")
    BY <1>6, <2>1, <1>a, <1>b DEF ResumeConflict, OwnerStep, OwnerAt, callers, waits
  <2> QED
    BY <2>2
<1> QED
  BY <1>1, <1>2, <1>3, <1>4, <1>5, <1>6 DEF Resumer

\* An accepted answer starts a resumer, or the server is no longer open.
LEMMA AnswerOwns ==
  ASSUME TypeOK, HeadInv, OwnerInv, NEW u \in Updaters, NEW r \in Resumers, AnswerAccepted(u, r)
  PROVE  \E to \in Places : OwnerStep(r, to)
<1>a. r \in Slots /\ pc \in [Slots -> Places] /\ row \in RunState /\ rec \in Record
      /\ updater[u] = "update" /\ rec.status = "input_required" /\ pc[r] = "idle"
  BY DEF Slots, TypeOK, Places, AnswerAccepted, UpdateResumes
<1>1. rec'.status = "working" /\ Waiting(row) /\ row.status = "waiting" /\ row.wait
      /\ \A s \in Slots : pc[s] \notin Heads
  BY <1>a DEF AnswerAccepted, UpdateResumes, Update, Record, OwnerInv, AnswersFit, Waiting,
              HeadInv, WaitsAlone
<1>2. CASE server = "open"
  <2>1. pc' = [pc EXCEPT ![r] = "resuming"] /\ request'
    BY <1>1, <1>2 DEF AnswerAccepted, Goes
  <2>2. OwnerStep(r, "resuming")
    BY <1>a, <1>1, <1>2, <2>1 DEF AnswerAccepted, OwnerStep, OwnerAt, Places, Heads, Preparing,
                                  Owning, Driving, Waiting
  <2> QED
    BY <2>2 DEF Places
<1>3. CASE server # "open"
  <2>1. pc' = [pc EXCEPT ![r] = "idle"]
    BY <1>a, <1>3 DEF AnswerAccepted
  <2>2. OwnerStep(r, "idle")
    BY <1>a, <1>1, <1>3, <2>1 DEF AnswerAccepted, OwnerStep, OwnerAt, Places, Heads, Preparing,
                                  Owning, Driving
  <2> QED
    BY <2>2 DEF Places
<1> QED
  BY <1>2, <1>3

LEMMA CallersOwn ==
  ASSUME TypeOK, HeadInv, OwnerInv, "cancel" \notin Events,
         \/ CancelBegins \/ Canceller \/ WaitExpires \/ CloseBegins \/ CloseReturns
         \/ \E u \in Updaters : AnswerValidated(u) \/ Updater(u)
  PROVE  OwnerInv'
<1>1. CASE CancelBegins \/ Canceller
  BY <1>1 DEF CancelBegins, Canceller, CancelStops, CancelTask, CancelRow, CancelPersists, OwnerInv
<1>2. CASE WaitExpires \/ CloseBegins \/ CloseReturns
  <2>1. /\ UNCHANGED <<row, rec, pc, mine, request, canceller, updater, crashes>>
        /\ server' = "open" => server = "open"
    BY <1>2 DEF WaitExpires, CloseBegins, CloseReturns, callers, waits
  <2> QED
    BY <2>1 DEF OwnerInv, OwnerAt, AnswersFit
<1>3. ASSUME NEW u \in Updaters, AnswerValidated(u)
      PROVE  OwnerInv'
  <2>1. /\ UNCHANGED <<row, rec, pc, mine, canceller, crashes, server>>
        /\ updater' = [updater EXCEPT ![u] = "update"] /\ rec.status = "input_required"
        /\ Waiting(row)
    BY <1>3 DEF AnswerValidated
  <2>2. \A s \in Slots : pc[s] \notin Heads
    BY <2>1 DEF HeadInv, WaitsAlone
  <2>3. \A s \in Slots : OwnerAt(s)'
    BY <2>1, <2>2 DEF OwnerAt, Heads, Preparing, Owning, Driving
  <2>4. AnswersFit'
    BY <2>1 DEF AnswersFit, Waiting
  <2> QED
    BY <2>1, <2>3, <2>4 DEF OwnerInv
<1>4. ASSUME NEW u \in Updaters, AnswerTooLate(u) \/ AnswerPersists(u)
      PROVE  OwnerInv'
  <2>1. /\ UNCHANGED <<row, rec, pc, mine, request, canceller, crashes, server>>
        /\ updater' = [updater EXCEPT ![u] = "idle"]
    BY <1>4 DEF AnswerTooLate, AnswerPersists, waits
  <2>2. AnswersFit'
    BY <2>1 DEF OwnerInv, AnswersFit, Waiting, TypeOK
  <2> QED
    BY <2>1, <2>2 DEF OwnerInv, OwnerAt
<1>5. ASSUME NEW u \in Updaters, NEW r \in Resumers, AnswerAccepted(u, r)
      PROVE  OwnerInv'
  BY <1>5, AnswerOwns, OwnerKeeps DEF Slots
<1> QED
  BY <1>1, <1>2, <1>3, <1>4, <1>5 DEF Updater

LEMMA RestartOwns ==
  ASSUME TypeOK, HeadInv, OwnerInv, Restart
  PROVE  OwnerInv'
<1>1. \A s \in Slots : pc'[s] \in {"idle", "done"}
  BY DEF Restart
<1>2. \A s \in Slots : OwnerAt(s)'
  BY <1>1 DEF OwnerAt, Preparing, Owning, Driving
<1>3. rec'.status # "working" /\ (rec'.status = "input_required" => rec'.resume)
  <2>1. RestoreSnapshot(snap) \in Record
    BY RegistryTypes DEF TypeOK
  <2>2. RestoreSnapshot(snap).status # "working"
    BY DEF TypeOK, RestoreSnapshot, Absent, Snapshot, Statuses, Live, Terminal
  <2>3. rec' = SetResume(RestoreSnapshot(snap))
    BY DEF Restart
  <2> QED
    BY <2>1, <2>2, <2>3 DEF SetResume, Record
<1>4. AnswersFit' /\ canceller' = "idle"
  BY DEF Restart, AnswersFit, OwnerInv
<1>5. crashes' # 0
  BY SlotsAssumption DEF Restart, TypeOK
<1> QED
  BY <1>2, <1>3, <1>4, <1>5 DEF OwnerInv

LEMMA OwnerInduction ==
  ASSUME TypeOK, HeadInv, OwnerInv, "cancel" \notin Events, [Next]_vars,
         (\E l \in Launchers : CheckTask(l)) => Alone'
  PROVE  OwnerInv'
<1>1. CASE \E l \in Launchers : Begin(l) \/ Launcher(l)
  BY <1>1, LauncherOwns, OwnerKeeps DEF Slots
<1>2. CASE \E s \in Slots : Emit(s) \/ Executor(s)
  BY <1>2, ExecutorOwns, OwnerKeeps
<1>3. CASE \E r \in Resumers : Resumer(r)
  BY <1>3, ResumerOwns, OwnerKeeps DEF Slots
<1>4. CASE \/ CancelBegins \/ Canceller \/ WaitExpires \/ CloseBegins \/ CloseReturns
           \/ \E u \in Updaters : AnswerValidated(u) \/ Updater(u)
  BY <1>4, CallersOwn
<1>5. CASE Restart
  BY <1>5, RestartOwns
<1>6. CASE UNCHANGED vars
  BY <1>6 DEF vars, OwnerInv, OwnerAt, AnswersFit, Waiting
<1> QED
  BY <1>1, <1>2, <1>3, <1>4, <1>5, <1>6 DEF Next

LEMMA OwnerInit == Init => OwnerInv
<1> SUFFICES ASSUME Init PROVE OwnerInv
  OBVIOUS
<1>1. \A s \in Slots : pc[s] = "idle"
  BY DEF Init
<1>2. row.status = "absent" /\ rec.status = "absent" /\ canceller = "idle"
      /\ \A u \in Updaters : updater[u] = "idle"
  BY DEF Init, NoRun, Absent
<1> QED
  BY <1>1, <1>2 DEF OwnerInv, OwnerAt, AnswersFit, Preparing, Owning, Driving

\* Where nobody cancels, two requests between the check of the task and its
\* creation are the only way to two heads: whoever else is at work has a task.
LEMMA GapIsEnough ==
  ASSUME TypeOK, HeadInv, OwnerInv, NEW l \in Launchers, CheckTask(l), OneInGap'
  PROVE  Alone'
<1>1. CASE rec.status \in Live
  <2>1. pc' = [pc EXCEPT ![l] = "done"]
    BY <1>1 DEF CheckTask, Returns, Goes
  <2> QED
    BY <2>1 DEF TypeOK, Alone, HeadInv, OneHead, Heads, Preparing, Owning
<1>2. CASE rec.status \notin Live
  <2>1. pc' = [pc EXCEPT ![l] = "start"] /\ l \in Slots
    BY <1>2 DEF CheckTask, Goes, Slots
  <2>2. \A s \in Slots : pc[s] \notin Owning
    BY <1>2 DEF OwnerInv, OwnerAt, Live
  <2>3. \A s \in Slots : pc'[s] \in Heads => pc'[s] \in Preparing /\ s \in Launchers
    BY <2>1, <2>2 DEF TypeOK, HeadInv, LaunchersLaunch, Heads, Preparing, Launching
  <2> QED
    BY <2>3 DEF Alone, OneInGap, Heads
<1> QED
  BY <1>1, <1>2

\* What the two invariants say of the run, its row and its handle.
LEMMA OwnersAreConsistent ==
  ASSUME TypeOK, HeadInv, OwnerInv, "catalog" \notin Events
  PROVE  RunConsistent
<1>1. WorkingHasOwner
  BY DEF OwnerInv, WorkingHasOwner, Quiet, Owning
<1>2. OneExecutor
  BY HeadsSettle
<1>3. ConsumedBeforeRunning
  BY DEF OwnerInv, OwnerAt, ConsumedBeforeRunning, Driving, Slots
<1>4. CompletedAgrees
  BY DEF OwnerInv, CompletedAgrees, Quiet
<1>5. WaitIsAnswerable
  <2> SUFFICES ASSUME Quiet, server = "open", crashes = 0, row.status = "waiting"
               PROVE  UpdateResumes(rec, InputKeys)
    BY DEF WaitIsAnswerable
  <2>1. rec.status = "input_required" /\ rec.resume
    BY DEF OwnerInv, Quiet
  <2>2. rec.inputRequests \subseteq InputKeys
    BY DEF TypeOK, Record
  <2> QED
    BY <2>1, <2>2 DEF UpdateResumes
<1> QED
  BY <1>1, <1>2, <1>3, <1>4, <1>5 DEF RunConsistent

\* Where nobody cancels and no two requests are between the check of the task
\* and its creation, a run's row, handle and goroutines agree, whatever else
\* happens; host_plan_two_executors shows what two such requests do.
THEOREM RunsAreConsistent ==
  ASSUME "cancel" \notin Events, "catalog" \notin Events
  PROVE  Spec /\ []OneInGap => []RunConsistent
<1>1. Init => CountInv /\ TypeOK /\ HeadInv /\ OwnerInv
  BY CountInit, TypeInit, HeadInit, OwnerInit
<1>2. CountInv /\ TypeOK /\ HeadInv /\ OwnerInv /\ [Next]_vars /\ OneInGap'
        => CountInv' /\ TypeOK' /\ HeadInv' /\ OwnerInv'
  BY CountInduction, TypeInduction, HeadInduction, OwnerInduction, GapIsEnough
<1>3. CountInv /\ TypeOK /\ HeadInv /\ OwnerInv => RunConsistent
  BY OwnersAreConsistent
<1> QED
  BY <1>1, <1>2, <1>3, PTL DEF Spec
----------------------------------------------------------------------------
\* Two requests cannot both be in the gap: the first leaves it before the row
\* lets the second pass.
Early == {"idle", "begun", "create"}
Gap == {"check", "start", "task"}
TwoRequests == \A j, k, l \in Launchers : j = k \/ k = l \/ j = l

GapInv ==
  /\ \A l, k \in Launchers : pc[l] \in Gap /\ pc[k] \in Gap => l = k
  /\ row.status \notin {"absent", "working", "running"} =>
       \E l \in Launchers : pc[l] \notin Early \cup Gap
  /\ row.status = "running" =>
       \E l \in Launchers : pc[l] \notin Early \cup {"check", "start"}

\* What a step of one slot may do to keep it.
GapStep(s, to) ==
  /\ pc' = [pc EXCEPT ![s] = to]
  /\ s \in Launchers /\ to \in Gap =>
       pc[s] \in Gap \/ \A k \in Launchers : pc[k] \notin Gap
  /\ pc[s] \notin Early \cup Gap => to \notin Early \cup Gap
  /\ pc[s] \notin Early \cup {"check", "start"} => to \notin Early \cup {"check", "start"}
  /\ row'.status \notin {"absent", "working", "running"} =>
       \/ row.status \notin {"absent", "working", "running"}
       \/ s \in Launchers /\ to \notin Early \cup Gap
       \/ row.status = "running" /\ pc[s] \in Owning
  /\ row'.status = "running" =>
       \/ row.status \notin {"absent", "working"}
       \/ s \in Launchers /\ to \notin Early \cup {"check", "start"}

LEMMA GapKeeps ==
  ASSUME TypeOK, HeadInv, GapInv, NEW s \in Slots, NEW to, GapStep(s, to)
  PROVE  GapInv'
<1>1. pc'[s] = to /\ \A t \in Slots : t # s => pc'[t] = pc[t]
  BY DEF GapStep, TypeOK
<1>2. Launchers \subseteq Slots
  BY DEF Slots
<1>3. \A l, k \in Launchers : pc'[l] \in Gap /\ pc'[k] \in Gap => l = k
  BY <1>1, <1>2 DEF GapStep, GapInv
<1>4. \A l \in Launchers : pc[l] \notin Early \cup Gap => pc'[l] \notin Early \cup Gap
  BY <1>1, <1>2 DEF GapStep
<1>5. \A l \in Launchers : pc[l] \notin Early \cup {"check", "start"} =>
                            pc'[l] \notin Early \cup {"check", "start"}
  BY <1>1, <1>2 DEF GapStep
<1>6. row'.status \notin {"absent", "working", "running"} =>
        \E l \in Launchers : pc'[l] \notin Early \cup Gap
  <2> SUFFICES ASSUME row'.status \notin {"absent", "working", "running"}
               PROVE  \E l \in Launchers : pc'[l] \notin Early \cup Gap
    OBVIOUS
  <2>1. CASE row.status \notin {"absent", "working", "running"}
    BY <2>1, <1>4 DEF GapInv
  <2>2. CASE s \in Launchers /\ to \notin Early \cup Gap
    BY <2>2, <1>1
  <2>3. CASE row.status = "running" /\ pc[s] \in Owning
    <3>1. PICK l \in Launchers : pc[l] \notin Early \cup {"check", "start"}
      BY <2>3 DEF GapInv
    <3>2. pc[l] # "task"
      BY <2>3, <1>2 DEF HeadInv, OneHead, Heads, Preparing, Owning
    <3>3. pc[l] \notin Early \cup Gap
      BY <3>1, <3>2 DEF Gap
    <3> QED
      BY <3>3, <1>4
  <2> QED
    BY <2>1, <2>2, <2>3 DEF GapStep
<1>7. row'.status = "running" => \E l \in Launchers : pc'[l] \notin Early \cup {"check", "start"}
  <2> SUFFICES ASSUME row'.status = "running"
               PROVE  \E l \in Launchers : pc'[l] \notin Early \cup {"check", "start"}
    OBVIOUS
  <2>1. CASE row.status \notin {"absent", "working"}
    <3>1. PICK l \in Launchers : pc[l] \notin Early \cup {"check", "start"}
      BY <2>1 DEF GapInv, Gap
    <3> QED
      BY <3>1, <1>5
  <2>2. CASE s \in Launchers /\ to \notin Early \cup {"check", "start"}
    BY <2>2, <1>1
  <2> QED
    BY <2>1, <2>2 DEF GapStep
<1> QED
  BY <1>3, <1>6, <1>7 DEF GapInv

LEMMA LauncherGap ==
  ASSUME TypeOK, HeadInv, GapInv, TwoRequests, NEW l \in Launchers, Begin(l) \/ Launcher(l)
  PROVE  \E to \in Places : GapStep(l, to)
<1> USE DEF Goes, Places, Launching, Executing, Early, Gap, Owning
<1>a. l \in Slots /\ pc \in [Slots -> Places] /\ row \in RunState /\ Launchers \subseteq Slots
  BY DEF Slots, TypeOK
<1>b. \A x \in RunState : \A status : [x EXCEPT !.status = status].status = status
  BY DEF RunState
<1>c. pc[l] \in Early /\ row.status \notin {"absent", "working", "running"} =>
        \A k \in Launchers : pc[k] \notin Gap
  BY DEF GapInv, TwoRequests
<1>1. CASE Begin(l)
  <2>1. GapStep(l, "begun")
    BY <1>1, <1>a DEF Begin, GapStep
  <2> QED
    BY <2>1
<1>2. CASE FindPlan(l)
  <2>1. CASE row.status \in InFlight
    <3>1. GapStep(l, "done")
      BY <1>2, <2>1, <1>a DEF FindPlan, Returns, GapStep
    <3> QED
      BY <3>1
  <2>2. CASE row.status \notin InFlight
    <3>1. GapStep(l, IF row.status = "absent" THEN "create" ELSE "check")
      BY <1>2, <2>2, <1>a, <1>c DEF FindPlan, GapStep, InFlight
    <3> QED
      BY <3>1
  <2> QED
    BY <2>1, <2>2
<1>3. CASE CreatePlan(l)
  <2>1. CASE row.status \in InFlight
    <3>1. GapStep(l, "done")
      BY <1>3, <2>1, <1>a DEF CreatePlan, Returns, GapStep
    <3> QED
      BY <3>1
  <2>2. CASE row.status \notin InFlight
    <3>1. row' = row \/ (row.status = "absent" /\ row'.status = "working")
      <4>1. row' = IF row.status = "absent" THEN [NoRun EXCEPT !.status = "working"] ELSE row
        BY <1>3, <2>2 DEF CreatePlan
      <4> QED
        BY <4>1, <1>b, NoRunTyped
    <3>2. \A k \in Launchers : pc[k] \notin Gap
      BY <1>3, <2>2, <1>a, <1>c DEF CreatePlan, InFlight, HeadInv, NoRow, Fresh
    <3>3. GapStep(l, "check")
      BY <1>3, <2>2, <3>1, <3>2, <1>a DEF CreatePlan, GapStep
    <3> QED
      BY <3>3
  <2> QED
    BY <2>1, <2>2
<1>4. CASE CheckTask(l)
  <2>1. CASE rec.status \in Live
    <3>1. GapStep(l, "done")
      BY <1>4, <2>1, <1>a DEF CheckTask, Returns, GapStep
    <3> QED
      BY <3>1
  <2>2. CASE rec.status \notin Live
    <3>1. GapStep(l, "start")
      BY <1>4, <2>2, <1>a DEF CheckTask, GapStep
    <3> QED
      BY <3>1
  <2> QED
    BY <2>1, <2>2
<1>5. CASE StartRow(l)
  <2>1. GapStep(l, "task") \/ row'.status # "running"
    BY <1>5, <1>a DEF StartRow, GapStep
  <2>2. row'.status = "running"
    BY <1>5, <1>a, <1>b DEF StartRow, TypeOK
  <2> QED
    BY <2>1, <2>2
<1>6. CASE CreateTask(l)
  <2>1. GapStep(l, "register")
    BY <1>6, <1>a DEF CreateTask, GapStep
  <2> QED
    BY <2>1
<1>7. CASE Register(l)
  <2>1. GapStep(l, "bind")
    BY <1>7, <1>a DEF Register, GapStep
  <2> QED
    BY <2>1
<1>8. CASE RegisterClosed(l)
  <2>1. GapStep(l, "done")
    BY <1>8, <1>a DEF RegisterClosed, Returns, GapStep
  <2> QED
    BY <2>1
<1>9. CASE Launch(l)
  <2>1. GapStep(l, "running")
    BY <1>9, <1>a DEF Launch, GapStep
  <2> QED
    BY <2>1
<1>10. CASE BindRefused(l)
  <2>1. GapStep(l, "done")
    BY <1>10, <1>a DEF BindRefused, GapStep
  <2> QED
    BY <2>1
<1> QED
  BY <1>1, <1>2, <1>3, <1>4, <1>5, <1>6, <1>7, <1>8, <1>9, <1>10 DEF Launcher

LEMMA ExecutorGap ==
  ASSUME TypeOK, HeadInv, OwnerInv, GapInv, NEW s \in Slots, Emit(s) \/ Executor(s)
  PROVE  \E to \in Places : GapStep(s, to)
<1> USE DEF Goes, Places, Launching, Executing, Early, Gap, Owning
<1>a. pc \in [Slots -> Places] /\ row \in RunState
  BY DEF TypeOK
<1>b. pc[s] = "running" => row.status = "running"
  BY DEF OwnerInv, OwnerAt, Driving
<1>1. CASE Emit(s)
  <2>1. pc' = [pc EXCEPT ![s] = "running"] /\ pc[s] = "running"
    BY <1>1, <1>a DEF Emit
  <2>2. row'.status = "running"
    BY <1>1 DEF Emit, HeadInv, Carried, Driving
  <2>3. GapStep(s, "running")
    BY <2>1, <2>2, <1>b DEF GapStep
  <2> QED
    BY <2>3
<1>2. ASSUME NEW status \in {"completed", "failed"}, RunEnds(s, status)
      PROVE  \E to \in Places : GapStep(s, to)
  <2>1. GapStep(s, IF status = "completed" THEN "ended" ELSE "erred")
    BY <1>2, <1>a, <1>b DEF RunEnds, GapStep
  <2> QED
    BY <2>1
<1>3. CASE RunWaits(s)
  <2>1. GapStep(s, "waited")
    BY <1>3, <1>a, <1>b DEF RunWaits, GapStep
  <2> QED
    BY <2>1
<1>4. CASE RequireTaskInput(s) \/ PersistWait(s) \/ Settle(s) \/ Deregister(s)
  <2>1. PICK to \in {"persist", "deferred", "leaving"} : pc' = [pc EXCEPT ![s] = to]
    BY <1>4 DEF RequireTaskInput, PersistWait, Settle, Deregister
  <2>2. row' = row
    BY <1>4 DEF RequireTaskInput, PersistWait, Settle, Deregister
  <2>3. GapStep(s, to)
    BY <1>4, <2>1, <2>2, <1>a DEF GapStep
  <2> QED
    BY <2>1, <2>3
<1>5. CASE ReadTask(s)
  <2>1. PICK to \in {"abandon", "reject", "commit"} : pc' = [pc EXCEPT ![s] = to]
    BY <1>5 DEF ReadTask
  <2>2. GapStep(s, to)
    BY <1>5, <2>1, <1>a DEF ReadTask, GapStep
  <2> QED
    BY <2>1, <2>2
<1>6. CASE Commit(s)
  <2>1. PICK to \in {"complete", "fail", "deferred"} : pc' = [pc EXCEPT ![s] = to]
    BY <1>6 DEF Commit
  <2>2. row'.status # "running"
    BY <1>6 DEF Commit, HeadInv, Carried
  <2>3. row.status \notin {"absent", "working"}
    BY <1>6, <1>a DEF Commit, HeadInv, NoRow, Created, Fresh
  <2>4. row.status = "running" => pc[s] \in Owning
    BY <1>6 DEF Commit
  <2>5. GapStep(s, to)
    BY <1>6, <2>1, <2>2, <2>3, <2>4, <1>a DEF Commit, GapStep
  <2> QED
    BY <2>1, <2>5
<1>7. CASE Leave(s)
  <2>1. GapStep(s, "done")
    BY <1>7, <1>a DEF Leave, Returns, GapStep
  <2> QED
    BY <2>1
<1> QED
  BY <1>1, <1>2, <1>3, <1>4, <1>5, <1>6, <1>7 DEF Executor

LEMMA ResumerGap ==
  ASSUME TypeOK, HeadInv, OwnerInv, GapInv, NEW r \in Resumers, Resumer(r)
  PROVE  \E to \in Places : GapStep(r, to)
<1> USE DEF Goes, Places, Launching, Executing, Early, Gap, Owning
<1>a. r \in Slots /\ pc \in [Slots -> Places] /\ row \in RunState /\ r \notin Launchers
  BY SlotsAssumption DEF Slots, TypeOK
<1>b. pc[r] = "taken" => row.status = "waiting"
  BY <1>a DEF OwnerInv, OwnerAt, Waiting
<1>1. PICK to \in {"done", "loaded", "taken", "running", "erred"} : pc' = [pc EXCEPT ![r] = to]
  BY DEF Resumer, ResumeReads, ResumeRefused, Resume, ResumeRuns, ResumeExpired, ResumeConflict
<1>2. pc[r] \in {"resuming", "loaded", "taken"} /\ (row' = row \/ pc[r] = "taken")
  BY DEF Resumer, ResumeReads, ResumeRefused, Resume, ResumeRuns, ResumeExpired, ResumeConflict
<1>3. GapStep(r, to)
  BY <1>1, <1>2, <1>a, <1>b DEF GapStep
<1> QED
  BY <1>1, <1>3

LEMMA GapInduction ==
  ASSUME TypeOK, HeadInv, OwnerInv, GapInv, TwoRequests, "cancel" \notin Events, [Next]_vars
  PROVE  GapInv'
<1>1. CASE \E l \in Launchers : Begin(l) \/ Launcher(l)
  BY <1>1, LauncherGap, GapKeeps DEF Slots
<1>2. CASE \E s \in Slots : Emit(s) \/ Executor(s)
  BY <1>2, ExecutorGap, GapKeeps
<1>3. CASE \E r \in Resumers : Resumer(r)
  BY <1>3, ResumerGap, GapKeeps DEF Slots
<1>4. CASE CancelBegins \/ Canceller
  BY <1>4 DEF CancelBegins, Canceller, CancelStops, CancelTask, CancelRow, CancelPersists, OwnerInv
<1>5. CASE \/ WaitExpires \/ CloseBegins \/ CloseReturns
           \/ \E u \in Updaters : AnswerValidated(u) \/ AnswerTooLate(u) \/ AnswerPersists(u)
  <2>1. UNCHANGED <<row, pc>>
    BY <1>5 DEF WaitExpires, CloseBegins, CloseReturns, AnswerValidated, AnswerTooLate,
                AnswerPersists
  <2> QED
    BY <2>1 DEF GapInv
<1>6. ASSUME NEW u \in Updaters, NEW r \in Resumers, AnswerAccepted(u, r)
      PROVE  GapInv'
  <2>1. row' = row /\ \A l \in Launchers : pc'[l] = pc[l]
    BY <1>6, SlotsAssumption DEF AnswerAccepted, Goes, TypeOK, Slots
  <2> QED
    BY <2>1 DEF GapInv
<1>7. CASE Restart
  <2>1. \A l \in Launchers : pc'[l] = IF pc[l] = "idle" THEN "idle" ELSE "done"
    BY <1>7 DEF Restart, Slots
  <2>2. \A l \in Launchers : pc[l] # "idle" => pc'[l] \notin Early \cup Gap
    BY <2>1 DEF Early, Gap
  <2>3. row'.status # "running"
    BY <1>7 DEF Restart, TypeOK, RunState
  <2>4. row'.status # "absent" => \E l \in Launchers : pc[l] # "idle"
    <3>1. CASE row.status = "working"
      BY <3>1 DEF HeadInv, Created, LaunchersLaunch, Launching
    <3>2. CASE row.status \notin {"absent", "working"}
      BY <3>2 DEF GapInv, Early
    <3> QED
      BY <1>7, <3>1, <3>2 DEF Restart, TypeOK, RunState
  <2> QED
    BY <2>1, <2>2, <2>3, <2>4 DEF GapInv, Gap
<1>8. CASE UNCHANGED vars
  BY <1>8 DEF vars, GapInv
<1> QED
  BY <1>1, <1>2, <1>3, <1>4, <1>5, <1>6, <1>7, <1>8 DEF Next, Updater

LEMMA GapInit == Init => GapInv
<1> SUFFICES ASSUME Init PROVE GapInv
  OBVIOUS
<1>1. \A l \in Launchers : pc[l] = "idle"
  BY DEF Init, Slots
<1>2. row.status = "absent"
  BY DEF Init, NoRun
<1> QED
  BY <1>1, <1>2 DEF GapInv, Gap

\* The whole invariant for two requests is inductive.
LEMMA RunInduction ==
  ASSUME TwoRequests, "cancel" \notin Events,
         CountInv, TypeOK, HeadInv, OwnerInv, GapInv, [Next]_vars
  PROVE  CountInv' /\ TypeOK' /\ HeadInv' /\ OwnerInv' /\ GapInv'
<1>1. GapInv'
  BY GapInduction
<1>2. OneInGap'
  BY <1>1 DEF GapInv, OneInGap, Preparing, Gap
<1> QED
  BY <1>1, <1>2, CountInduction, TypeInduction, HeadInduction, OwnerInduction, GapIsEnough

\* Where nobody cancels, two requests at most leave the run, its row and its
\* handle consistent: any number of answers, refused bindings, expired waits,
\* Close and crashes between them.
THEOREM TwoRequestsAreConsistent ==
  ASSUME TwoRequests, "cancel" \notin Events, "catalog" \notin Events
  PROVE  Spec => []RunConsistent
<1>1. Init => CountInv /\ TypeOK /\ HeadInv /\ OwnerInv /\ GapInv
  BY CountInit, TypeInit, HeadInit, OwnerInit, GapInit
<1>2. CountInv /\ TypeOK /\ HeadInv /\ OwnerInv /\ GapInv /\ [Next]_vars
        => CountInv' /\ TypeOK' /\ HeadInv' /\ OwnerInv' /\ GapInv'
  BY RunInduction
<1>3. CountInv /\ TypeOK /\ HeadInv /\ OwnerInv => RunConsistent
  BY OwnersAreConsistent
<1> QED
  BY <1>1, <1>2, <1>3, PTL DEF Spec

\* A changed catalog or an answer that cannot be projected may leave a waiting row
\* with a failed task, but still one executor and a row that settles.
THEOREM TwoRequestsSettle ==
  ASSUME TwoRequests, "cancel" \notin Events
  PROVE  Spec => [](RowSettled /\ OneExecutor)
<1>1. Init => CountInv /\ TypeOK /\ HeadInv /\ OwnerInv /\ GapInv
  BY CountInit, TypeInit, HeadInit, OwnerInit, GapInit
<1>2. CountInv /\ TypeOK /\ HeadInv /\ OwnerInv /\ GapInv /\ [Next]_vars
        => CountInv' /\ TypeOK' /\ HeadInv' /\ OwnerInv' /\ GapInv'
  BY RunInduction
<1>3. TypeOK /\ HeadInv => RowSettled /\ OneExecutor
  BY HeadsSettle
<1> QED
  BY <1>1, <1>2, <1>3, PTL DEF Spec

----------------------------------------------------------------------------
\* One request is alone until it has created its task.
OneRequest == \A k, l \in Launchers : k = l

FirstInv ==
  /\ \A r \in Resumers : pc[r] \notin Launching
  /\ \A l \in Launchers : pc[l] \in Early \cup Gap =>
       Pristine /\ \A r \in Resumers : pc[r] \in {"idle", "done"}

\* What keeps it: nobody starts early, and while somebody is early no other
\* goroutine runs and the task is not touched.
LEMMA FirstSlotKeeps ==
  ASSUME TypeOK, OneRequest, FirstInv, NEW l \in Launchers, NEW to,
         pc' = [pc EXCEPT ![l] = to],
         to \in Early \cup Gap => pc[l] \in Early \cup Gap /\ UNCHANGED <<rec, snap, updater>>
  PROVE  FirstInv'
<1>1. l \in Slots /\ pc'[l] = to /\ \A r \in Resumers : pc'[r] = pc[r]
  BY SlotsAssumption DEF TypeOK, Slots
<1> QED
  BY <1>1 DEF OneRequest, FirstInv, Pristine

LEMMA FirstOtherKeeps ==
  ASSUME TypeOK, OneRequest, FirstInv, NEW s \in Slots, NEW to,
         pc' = [pc EXCEPT ![s] = to], pc[s] \notin {"idle", "done"} \cup Early \cup Gap,
         to \notin Early \cup Gap, s \in Resumers => to \notin Launching
  PROVE  FirstInv'
<1>1. pc'[s] = to /\ \A t \in Slots : t # s => pc'[t] = pc[t]
  BY DEF TypeOK
<1>2. \A l \in Launchers : pc'[l] \notin Early \cup Gap
  BY <1>1, SlotsAssumption DEF OneRequest, FirstInv, Slots
<1> QED
  BY <1>1, <1>2, SlotsAssumption DEF FirstInv, Slots

LEMMA FirstInduction ==
  ASSUME TypeOK, OneRequest, FirstInv, [Next]_vars
  PROVE  FirstInv'
<1> USE DEF Goes, Early, Gap, Launching
<1>a. Launchers \subseteq Slots /\ Resumers \subseteq Slots /\ Launchers \cap Resumers = {}
  BY SlotsAssumption DEF Slots
<1>1. ASSUME NEW l \in Launchers, Begin(l) \/ Launcher(l)
      PROVE  FirstInv'
  <2>1. PICK to : pc' = [pc EXCEPT ![l] = to]
    <3>1. CASE FindPlan(l) \/ CreatePlan(l) \/ CheckTask(l)
      BY <3>1 DEF FindPlan, CreatePlan, CheckTask, Returns
    <3> QED
      BY <1>1, <3>1 DEF Launcher, Begin, StartRow, CreateTask, Register, RegisterClosed, Launch,
                        BindRefused, Returns
  <2>2. pc'[l] = to
    BY <2>1, <1>a DEF TypeOK
  <2>3. to \in Early \cup Gap => pc[l] \in Early \cup Gap /\ UNCHANGED <<rec, snap, updater>>
    BY <1>1, <1>a, <2>1, <2>2 DEF Launcher, Begin, FindPlan, CreatePlan, CheckTask, StartRow,
       CreateTask, Register, RegisterClosed, Launch, BindRefused, Returns, callers, TypeOK
  <2> QED
    BY <2>1, <2>3, FirstSlotKeeps
<1>2. ASSUME NEW s \in Slots, Executor(s)
      PROVE  FirstInv'
  <2>1. PICK to \in {"ended", "erred", "waited", "persist", "deferred", "abandon", "reject",
                     "commit", "complete", "fail", "leaving", "done"} : pc' = [pc EXCEPT ![s] = to]
    BY <1>2 DEF Executor, RunEnds, RunWaits, RequireTaskInput, PersistWait, ReadTask, Commit,
                Settle, Deregister, Leave, Returns
  <2>2. pc[s] \in {"running", "waited", "persist", "ended", "erred", "commit", "reject",
                   "abandon", "complete", "fail", "deferred", "leaving"}
    BY <1>2 DEF Executor, RunEnds, RunWaits, RequireTaskInput, PersistWait, ReadTask, Commit,
                Settle, Deregister, Leave
  <2> QED
    BY <2>1, <2>2, FirstOtherKeeps
<1>3. ASSUME NEW s \in Slots, Emit(s)
      PROVE  FirstInv'
  BY <1>3 DEF Emit, FirstInv, Pristine, callers
<1>4. ASSUME NEW r \in Resumers, Resumer(r)
      PROVE  FirstInv'
  <2>1. PICK to \in {"done", "loaded", "taken", "running", "erred"} : pc' = [pc EXCEPT ![r] = to]
    BY <1>4 DEF Resumer, ResumeReads, ResumeRefused, Resume, ResumeRuns, ResumeExpired,
                ResumeConflict
  <2>2. pc[r] \in {"resuming", "loaded", "taken"}
    BY <1>4 DEF Resumer, ResumeReads, ResumeRefused, Resume, ResumeRuns, ResumeExpired,
                ResumeConflict
  <2> QED
    BY <2>1, <2>2, <1>a, FirstOtherKeeps
<1>5. CASE CancelBegins \/ Canceller
  <2>1. UNCHANGED <<pc, updater>> /\ (rec = Absent => UNCHANGED <<rec, snap>>)
    BY <1>5 DEF CancelBegins, Canceller, CancelStops, CancelTask, CancelRow, CancelPersists,
                Absent
  <2> QED
    BY <2>1 DEF FirstInv, Pristine
<1>6. CASE WaitExpires \/ CloseBegins \/ CloseReturns
  BY <1>6 DEF WaitExpires, CloseBegins, CloseReturns, callers, FirstInv, Pristine
<1>7. ASSUME NEW u \in Updaters, AnswerValidated(u) \/ AnswerTooLate(u) \/ AnswerPersists(u)
      PROVE  FirstInv'
  <2>1. pc' = pc /\ (updater[u] # "idle" \/ rec # Absent)
    BY <1>7 DEF AnswerValidated, AnswerTooLate, AnswerPersists, Absent
  <2> QED
    BY <2>1 DEF FirstInv, Pristine
<1>8. ASSUME NEW u \in Updaters, NEW r \in Resumers, AnswerAccepted(u, r)
      PROVE  FirstInv'
  <2>1. updater[u] # "idle" /\ \A l \in Launchers : pc'[l] = pc[l]
    BY <1>8, <1>a DEF AnswerAccepted, TypeOK
  <2>2. \A q \in Resumers : pc'[q] \in {"resuming", pc[q]}
    BY <1>8, <1>a DEF AnswerAccepted, TypeOK
  <2> QED
    BY <2>1, <2>2 DEF FirstInv, Pristine
<1>9. CASE Restart
  <2>1. \A s \in Slots : pc'[s] = IF pc[s] = "idle" THEN "idle" ELSE "done"
    BY <1>9 DEF Restart
  <2>2. SetResume(RestoreSnapshot(NoSnapshot)) = Absent
    BY DEF SetResume, RestoreSnapshot, NoSnapshot, ToGetTaskResult, Absent
  <2>3. Pristine => Pristine'
    BY <1>9, <2>2 DEF Restart, Pristine
  <2> QED
    BY <2>1, <2>3, <1>a DEF FirstInv
<1>10. CASE UNCHANGED vars
  BY <1>10 DEF vars, FirstInv, Pristine
<1> QED
  BY <1>1, <1>2, <1>3, <1>4, <1>5, <1>6, <1>7, <1>8, <1>9, <1>10 DEF Next, Updater

LEMMA FirstInit == Init => FirstInv
<1> SUFFICES ASSUME Init PROVE FirstInv
  OBVIOUS
<1>1. \A s \in Slots : pc[s] = "idle"
  BY DEF Init
<1>2. Pristine
  BY DEF Init, Pristine
<1> QED
  BY <1>1, <1>2 DEF FirstInv, Slots, Launching

\* One request with any number of answers settles its row and has one executor,
\* whatever happens, cancellation and crashes included.
THEOREM OneRequestSettles ==
  ASSUME OneRequest
  PROVE  Spec => [](RowSettled /\ OneExecutor)
<1>1. Init => CountInv /\ TypeOK /\ HeadInv /\ FirstInv
  BY CountInit, TypeInit, HeadInit, FirstInit
<1>2. ASSUME CountInv, TypeOK, HeadInv, FirstInv, [Next]_vars
      PROVE  CountInv' /\ TypeOK' /\ HeadInv' /\ FirstInv'
  <2>1. FirstInv'
    BY <1>2, FirstInduction
  <2>2. Alone'
    BY <2>1 DEF OneRequest, FirstInv, Alone, Preparing, Launching, Heads, Owning, Gap, Slots
  <2> QED
    BY <1>2, <2>1, <2>2, CountInduction, TypeInduction, HeadInduction
<1>3. CountInv /\ TypeOK /\ HeadInv => RowSettled /\ OneExecutor
  BY HeadsSettle
<1> QED
  BY <1>1, <1>2, <1>3, PTL DEF Spec
==============================================================================
