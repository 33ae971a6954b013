-------------------------- MODULE PlanRunnerProofs --------------------------
(***************************************************************************)
(* The plan runner keeps its order for any document: any graph of nodes,   *)
(* any sets of waits, validations, guards and tolerated failures, any      *)
(* concurrency, and any number of passes, attempts, launches and drifts.   *)
(*                                                                         *)
(* Behind the level at work lie only nodes that returned: with a status    *)
(* of their own, or tolerated without one.  A node of the level at work    *)
(* is looked at through Status, which is the run's state in a serial level *)
(* and a clone of it in a concurrent one.                                  *)
(***************************************************************************)
EXTENDS PlanRunner, FiniteSetTheorems, TLAPS

----------------------------------------------------------------------------
\* A node's own status in the level at work, before and after it is merged.
Status(n) == IF Serial \/ step[n] = "merged" THEN run.nodes[n] ELSE local[n]

Outcomes == {"satisfied", "applied", "skipped", "failed", "unknown"}
Answered == {"satisfied", "skipped"}
Reached == {"applied", "satisfied"}
Working == {"preflight", "dispatch", "verify"}
Returned == {"done", "merged"}

\* A node that is at work, or that did work, belongs to the level or to a sweep.
Places ==
  \A n \in Nodes :
    /\ step[n] \in {"todo", "preflight"} => attempt[n] = 0
    /\ step[n] = "dispatch" => attempt[n] < MaxAttempts
    /\ step[n] # "todo" => \/ phase = "level" /\ n \in Level
                           \/ phase \in {"check", "compensate"} /\ step[n] = "done"

\* Memory and store agree when nobody runs the plan, and the store never
\* remembers a compensation of what has been applied since.
Recorded ==
  /\ phase = "idle" => run = stored /\ level = 1 /\ pass = 1 /\ ~calm
  /\ \A n \in Nodes : stored.nodes[n] = "compensated" => run.nodes[n] # "applied"

\* One node of a serial level works at a time, and none after an error.
InOrder ==
  phase = "level" /\ Serial =>
    \A n \in Level : step[n] # "todo" =>
      /\ step[n] # "done"
      /\ step[n] \in Working => Fatal = {}
      /\ \A m \in Level : m < n => step[m] = "merged"

\* What lies behind the level at work.
Behind ==
  phase = "level" => \A m \in Nodes : LevelOf[m] < level =>
    /\ run.nodes[m] \in Outcomes \/ (m \in Continues /\ run.nodes[m] = "pending")
    /\ m \in Waits => run.nodes[m] \in Answered

\* A node of the level at work.
AtWork(n) ==
  /\ step[n] = "todo" => Status(n) = run.nodes[n]
  /\ step[n] \in Working => /\ n \notin Waits /\ Status(n) = "pending"
                            /\ ~blockedByDependency(n)
  /\ step[n] = "preflight" => ~dependencyApplied(n)
  /\ step[n] \in Returned =>
       /\ Status(n) \in Outcomes \/ (Status(n) = "pending" /\ n \in errs)
       /\ n \in Waits => Status(n) \in Answered \/ n \in errs
       /\ Status(n) = "satisfied" => ~dependencyApplied(n)

Present == phase = "level" => \A n \in Level : AtWork(n)

\* A node of a calm run is reused, unless something ended the run or the level.
CalmNode(n) ==
  /\ step[n] \notin Working
  /\ ~ended =>
       /\ LevelOf[n] < level => run.nodes[n] \in Answered
       /\ LevelOf[n] > level \/ (step[n] = "todo" /\ n \in Level) => run.nodes[n] \in Reached
       /\ n \in Level /\ step[n] \in Returned => Status(n) \in Answered \/ Fatal # {}

CalmRun ==
  calm /\ phase \in {"level", "check"} =>
    /\ \A n \in Validated : ready[n]
    /\ phase = "level" => \A n \in Nodes : CalmNode(n)
    /\ phase = "check" /\ ~ended => \A n \in Nodes : run.nodes[n] \in Answered

RunnerInv == TypeOK /\ Places /\ Recorded /\ InOrder /\ Behind /\ Present /\ CalmRun
----------------------------------------------------------------------------
\* A document has levels, and what a node depends on is on a lower one.
LEMMA LevelFacts ==
  /\ Cardinality(Nodes) \in Nat
  /\ LevelOf \in [Nodes -> 1..Cardinality(Nodes)]
  /\ \A n \in Nodes : \A m \in DependsOn[n] : m \in Nodes /\ LevelOf[m] < LevelOf[n]
<1>1. Cardinality(Nodes) \in Nat
  BY DocumentAssumption, FS_CardinalityType
<1>2. \E f \in [Nodes -> 1..Cardinality(Nodes)] : IsLevels(f)
  BY DocumentAssumption
<1>3. LevelOf \in [Nodes -> 1..Cardinality(Nodes)] /\ IsLevels(LevelOf)
  BY <1>2 DEF LevelOf
<1> QED
  BY <1>1, <1>3, DocumentAssumption DEF IsLevels

LEMMA NodeNumbers == \A n \in Nodes : n \in Nat \ {0}
BY DocumentAssumption

\* The level at work is a set of nodes; whether it is serial depends on it alone.
LEMMA SameLevel ==
  ASSUME level' = level
  PROVE  /\ Level' = Level /\ WaitLevel' = WaitLevel /\ Serial' = Serial
         /\ Level \subseteq Nodes
BY DEF Level, WaitLevel, Serial

\* What every step of a node of the level at work keeps to.
NodeStep(n) ==
  /\ phase = "level" /\ n \in Level /\ step[n] # "merged"
  /\ step[n] = "todo" => Startable(n)
  /\ UNCHANGED <<phase, pass, level, ended, bounds>>
  /\ step' = [step EXCEPT ![n] = step'[n]] /\ step'[n] # "todo"
  /\ \A m \in Nodes \ {n} : /\ run'.nodes[m] = run.nodes[m]
                            /\ local'[m] = local[m] /\ attempt'[m] = attempt[m]
  /\ errs \subseteq errs' /\ errs' \subseteq errs \cup {n}
  /\ \/ stored' = run'
     \/ stored' = stored /\ (run'.nodes = run.nodes \/ run'.nodes[n] # "applied")
  /\ calm' => calm

\* What the step has to establish for the node itself.
NodeDone(n) ==
  /\ step[n] \in {"todo", "preflight"} => attempt[n] = 0
  /\ step[n] = "dispatch" => attempt[n] < MaxAttempts
  /\ Serial => step[n] # "done" /\ (step[n] \in Working => Fatal = {})
  /\ AtWork(n)
  /\ calm => (\A m \in Validated : ready[m]) /\ CalmNode(n)

\* In a serial level the others are behind the node or have not begun.
LEMMA Alone ==
  ASSUME NEW n \in Nodes, TypeOK, InOrder, phase = "level", n \in Level, step[n] # "merged",
         step[n] = "todo" => Startable(n), Serial
  PROVE  \A m \in Level \ {n} : /\ m < n => step[m] = "merged"
                                /\ step[m] # "todo" => m < n
<1> SUFFICES ASSUME NEW m \in Level \ {n}
             PROVE  (m < n => step[m] = "merged") /\ (step[m] # "todo" => m < n)
  OBVIOUS
<1>1. m \in Nat /\ n \in Nat /\ m # n /\ m \in Level
  BY NodeNumbers DEF Level
<1>2. step[n] = "todo" => \A k \in Level : k < n => step[k] = "merged"
  BY DEF Startable
<1>3. step[n] # "todo" => \A k \in Level : k < n => step[k] = "merged"
  BY DEF InOrder
<1>4. step[m] # "todo" /\ n < m => step[n] = "merged"
  BY <1>1 DEF InOrder
<1> QED
  BY <1>1, <1>2, <1>3, <1>4

\* What the other nodes look at is not touched by the step.
LEMMA Untouched ==
  ASSUME NEW n \in Nodes, TypeOK, TypeOK', NodeStep(n)
  PROVE  /\ \A m \in Nodes \ {n} : step'[m] = step[m] /\ Status(m)' = Status(m)
         /\ \A m \in Nodes : LevelOf[m] < level => run'.nodes[m] = run.nodes[m]
         /\ \A m \in Level : /\ blockedByDependency(m)' <=> blockedByDependency(m)
                             /\ dependencyApplied(m)' <=> dependencyApplied(m)
         /\ Fatal \subseteq Fatal' /\ Fatal' \subseteq Fatal \cup {n}
<1>1. /\ Level' = Level /\ WaitLevel' = WaitLevel /\ Serial' = Serial /\ level' = level
      /\ n \in Level /\ Level \subseteq Nodes
  BY SameLevel DEF NodeStep
<1>2. ASSUME NEW m \in Nodes \ {n}
      PROVE  step'[m] = step[m] /\ Status(m)' = Status(m)
  <2>1. step'[m] = step[m]
    BY DEF NodeStep, TypeOK
  <2>2. run'.nodes[m] = run.nodes[m] /\ local'[m] = local[m]
    BY DEF NodeStep
  <2> QED
    BY <2>1, <2>2, <1>1 DEF Status
<1>3. ASSUME NEW m \in Nodes, LevelOf[m] < level
      PROVE  run'.nodes[m] = run.nodes[m]
  <2>1. m # n
    BY <1>1, <1>3, LevelFacts DEF Level
  <2> QED
    BY <2>1 DEF NodeStep
<1>4. ASSUME NEW m \in Level
      PROVE  /\ blockedByDependency(m)' <=> blockedByDependency(m)
             /\ dependencyApplied(m)' <=> dependencyApplied(m)
  <2>1. \A k \in DependsOn[m] : k \in Nodes /\ LevelOf[k] < level
    BY <1>1, LevelFacts DEF Level
  <2>2. \A k \in DependsOn[m] : run'.nodes[k] = run.nodes[k]
    BY <2>1, <1>3
  <2> QED
    BY <2>2 DEF blockedByDependency, dependencyApplied
<1>5. Fatal \subseteq Fatal' /\ Fatal' \subseteq Fatal \cup {n}
  BY <1>1 DEF Fatal, NodeStep
<1> QED
  BY <1>2, <1>3, <1>4, <1>5

\* The inductive argument for one node: the others are where they were.
LEMMA NodeKeeps ==
  ASSUME NEW n \in Nodes, RunnerInv, TypeOK', NodeStep(n), NodeDone(n)'
  PROVE  RunnerInv'
<1>1. /\ Level' = Level /\ WaitLevel' = WaitLevel /\ Serial' = Serial /\ level' = level
      /\ n \in Level /\ Level \subseteq Nodes
  BY SameLevel DEF NodeStep
<1>2. /\ \A m \in Nodes \ {n} : step'[m] = step[m] /\ Status(m)' = Status(m)
      /\ \A m \in Nodes : LevelOf[m] < level => run'.nodes[m] = run.nodes[m]
      /\ \A m \in Level : /\ blockedByDependency(m)' <=> blockedByDependency(m)
                          /\ dependencyApplied(m)' <=> dependencyApplied(m)
      /\ Fatal \subseteq Fatal' /\ Fatal' \subseteq Fatal \cup {n}
  BY Untouched DEF RunnerInv
<1>3. phase = "level" /\ phase' = "level" /\ ended' = ended
  BY DEF NodeStep
<1>4. Places'
  <2> SUFFICES ASSUME NEW m \in Nodes
               PROVE  /\ step'[m] \in {"todo", "preflight"} => attempt'[m] = 0
                      /\ step'[m] = "dispatch" => attempt'[m] < MaxAttempts
                      /\ step'[m] # "todo" => m \in Level'
    BY <1>3 DEF Places
  <2>1. CASE m = n
    BY <2>1, <1>1 DEF NodeDone
  <2>2. CASE m # n
    BY <2>2, <1>1, <1>2, <1>3 DEF NodeStep, RunnerInv, Places
  <2> QED
    BY <2>1, <2>2
<1>5. Recorded'
  <2>1. \A m \in Nodes : stored'.nodes[m] = "compensated" => run'.nodes[m] # "applied"
    BY DEF NodeStep, RunnerInv, Recorded
  <2> QED
    BY <2>1, <1>3 DEF Recorded
<1>6. InOrder'
  <2> SUFFICES ASSUME Serial', NEW m \in Level', step'[m] # "todo"
               PROVE  /\ step'[m] # "done"
                      /\ step'[m] \in Working => Fatal' = {}
                      /\ \A k \in Level' : k < m => step'[k] = "merged"
    BY DEF InOrder
  <2>1. \A k \in Level \ {n} : /\ k < n => step[k] = "merged"
                               /\ step[k] # "todo" => k < n
    BY Alone, <1>1, <1>3 DEF NodeStep, RunnerInv
  <2>2. \A k \in Level : k \in Nat
    BY NodeNumbers, <1>1
  <2>3. CASE m = n
    <3>1. \A k \in Level' : k < m => k \in Level \ {n}
      BY <1>1, <2>2, <2>3
    <3> QED
      BY <2>3, <3>1, <2>1, <1>1, <1>2 DEF NodeDone
  <2>4. CASE m # n
    <3>1. m \in Level \ {n} /\ step[m] # "todo" /\ step'[m] = step[m]
      BY <2>4, <1>1, <1>2
    <3>2. m < n /\ step[m] = "merged"
      BY <3>1, <2>1
    <3>3. \A k \in Level' : k < m => k \in Level \ {n} /\ k < n
      BY <3>1, <3>2, <1>1, <2>2
    <3> QED
      BY <3>1, <3>2, <3>3, <2>1, <1>1, <1>2 DEF Working
  <2> QED
    BY <2>3, <2>4
<1>7. Behind'
  BY <1>1, <1>2, <1>3 DEF RunnerInv, Behind
<1>8. Present'
  <2> SUFFICES ASSUME NEW m \in Level
               PROVE  AtWork(m)'
    BY <1>1 DEF Present
  <2>1. CASE m = n
    BY <2>1 DEF NodeDone
  <2>2. CASE m # n
    <3>1. AtWork(m)
      BY <1>3 DEF RunnerInv, Present
    <3>2. m \in Nodes \ {n} /\ errs \subseteq errs' /\ run'.nodes[m] = run.nodes[m]
      BY <2>2, <1>1 DEF NodeStep
    <3>3. /\ step'[m] = step[m] /\ Status(m)' = Status(m)
          /\ blockedByDependency(m)' <=> blockedByDependency(m)
          /\ dependencyApplied(m)' <=> dependencyApplied(m)
      BY <3>2, <1>2
    <3> QED
      BY <3>1, <3>2, <3>3 DEF AtWork
  <2> QED
    BY <2>1, <2>2
<1>9. CalmRun'
  <2> SUFFICES ASSUME calm'
               PROVE  (\A m \in Validated : ready'[m]) /\ \A m \in Nodes : CalmNode(m)'
    BY <1>3 DEF CalmRun
  <2>1. (\A m \in Validated : ready'[m]) /\ CalmNode(n)'
    BY DEF NodeDone
  <2>2. ASSUME NEW m \in Nodes, m # n
        PROVE  CalmNode(m)'
    <3>1. CalmNode(m)
      BY <1>3 DEF NodeStep, RunnerInv, CalmRun
    <3>2. run'.nodes[m] = run.nodes[m]
      BY <2>2 DEF NodeStep
    <3> QED
      BY <3>1, <3>2, <2>2, <1>1, <1>2, <1>3 DEF CalmNode
  <2> QED
    BY <2>1, <2>2
<1> QED
  BY <1>4, <1>5, <1>6, <1>7, <1>8, <1>9 DEF RunnerInv

----------------------------------------------------------------------------
\* A node that is at work is not at work in a calm run.
LEMMA WorkersAreNotCalm ==
  ASSUME NEW n \in Nodes, RunnerInv, step[n] \in Working
  PROVE  /\ ~calm /\ phase = "level" /\ n \in Level /\ AtWork(n)
         /\ Status(n) = "pending" /\ n \notin Waits /\ ~blockedByDependency(n)
         /\ Serial => Fatal = {}
<1>1. phase = "level" /\ n \in Level
  BY DEF RunnerInv, Places, Working
<1>2. AtWork(n)
  BY <1>1 DEF RunnerInv, Present
<1>3. Serial => Fatal = {}
  BY <1>1 DEF RunnerInv, InOrder, Working
<1>4. ~calm
  BY <1>1 DEF RunnerInv, CalmRun, CalmNode
<1> QED
  BY <1>1, <1>2, <1>3, <1>4 DEF AtWork

\* What a node of the level may look at is behind it.
LEMMA BehindLevel ==
  ASSUME NEW n \in Nodes, n \in Level
  PROVE  \A m \in DependsOn[n] : m \in Nodes /\ LevelOf[m] < level /\ m # n
BY LevelFacts DEF Level

\* Records writes one node's status where Status looks for it.
LEMMA RecordsFacts ==
  ASSUME NEW n \in Nodes, TypeOK, NEW s \in NodeStatuses, NEW emit \in BOOLEAN,
         Records(n, s, emit), level' = level
  PROVE  /\ run' \in RunState /\ stored' \in RunState /\ local' \in [Nodes -> NodeStatuses]
         /\ \A m \in Nodes \ {n} : run'.nodes[m] = run.nodes[m] /\ local'[m] = local[m]
         /\ Serial => run'.nodes[n] = s
         /\ ~Serial => local'[n] = s /\ run' = run
         /\ \/ stored' = run'
            \/ stored' = stored /\ (run'.nodes = run.nodes \/ (run'.nodes[n] = s /\ ~emit))
         /\ run'.wait = run.wait /\ run'.status = run.status
<1>1. CASE Serial
  <2>1. run' = [run EXCEPT !.nodes[n] = s] /\ local' = local
    BY <1>1 DEF Records
  <2>2. stored' = IF emit THEN run' ELSE stored
    BY <1>1 DEF Records
  <2>3. run' \in RunState /\ run'.nodes = [run.nodes EXCEPT ![n] = s]
    BY <2>1 DEF TypeOK, RunState
  <2> QED
    BY <1>1, <2>1, <2>2, <2>3 DEF TypeOK, RunState
<1>2. CASE ~Serial
  BY <1>2 DEF Records, TypeOK, RunState
<1> QED
  BY <1>1, <1>2

\* A node ends its part in the level with a status of its own.
LEMMA Finishes ==
  ASSUME NEW n \in Nodes, RunnerInv, phase = "level", n \in Level,
         step[n] \in {"todo"} \cup Working, step[n] = "todo" => Startable(n),
         NEW s \in Outcomes, NEW emit \in BOOLEAN, NEW e \in BOOLEAN,
         Records(n, s, emit), Returns(n, e),
         UNCHANGED <<phase, pass, level, ended, calm, bounds>>,
         ready' \in [Validated -> BOOLEAN],
         s = "applied" => emit,
         s = "satisfied" => ~dependencyApplied(n),
         n \in Waits => s \in Answered \/ e,
         calm => ready' = ready,
         calm /\ ~ended => s \in Answered \/ Fatal # {} \/ (e /\ n \notin Continues)
  PROVE  RunnerInv'
<1>1. /\ Level' = Level /\ WaitLevel' = WaitLevel /\ Serial' = Serial /\ level' = level
      /\ Level \subseteq Nodes
  BY SameLevel
<1>2. s \in NodeStatuses /\ TypeOK
  BY DEF Outcomes, NodeStatuses, RunnerInv
<1>3. /\ run' \in RunState /\ stored' \in RunState /\ local' \in [Nodes -> NodeStatuses]
      /\ \A m \in Nodes \ {n} : run'.nodes[m] = run.nodes[m] /\ local'[m] = local[m]
      /\ Serial => run'.nodes[n] = s
      /\ ~Serial => local'[n] = s /\ run' = run
      /\ \/ stored' = run'
         \/ stored' = stored /\ (run'.nodes = run.nodes \/ (run'.nodes[n] = s /\ ~emit))
  BY <1>2, RecordsFacts
<1>4. /\ step' = [step EXCEPT ![n] = IF Serial THEN "merged" ELSE "done"]
      /\ errs' = IF e THEN errs \cup {n} ELSE errs
      /\ attempt' = [attempt EXCEPT ![n] = 0]
  BY DEF Returns, Goes
<1>5. step'[n] = IF Serial THEN "merged" ELSE "done"
  BY <1>2, <1>4 DEF TypeOK
<1>6. Status(n)' = s
  BY <1>1, <1>3, <1>5 DEF Status
<1>7. TypeOK'
  <2>1. 0 \in 0..MaxAttempts
    BY DocumentAssumption
  <2>2. attempt' \in [Nodes -> 0..MaxAttempts] /\ errs' \subseteq Nodes
    BY <1>2, <1>4, <2>1 DEF TypeOK
  <2>3. step' \in [Nodes -> {"todo", "preflight", "dispatch", "verify", "done", "merged"}]
    BY <1>2, <1>4 DEF TypeOK
  <2> QED
    BY <1>2, <1>3, <2>2, <2>3 DEF TypeOK, bounds
<1>8. NodeStep(n)
  <2>1. \A m \in Nodes \ {n} : attempt'[m] = attempt[m]
    BY <1>2, <1>4 DEF TypeOK
  <2>2. step' = [step EXCEPT ![n] = step'[n]]
    BY <1>4, <1>5
  <2>3. \/ stored' = run'
        \/ stored' = stored /\ (run'.nodes = run.nodes \/ run'.nodes[n] # "applied")
    BY <1>3
  <2> QED
    BY <1>3, <1>4, <1>5, <2>1, <2>2, <2>3 DEF NodeStep, Working
<1>9. /\ blockedByDependency(n)' <=> blockedByDependency(n)
      /\ dependencyApplied(n)' <=> dependencyApplied(n)
      /\ Fatal \subseteq Fatal'
  BY <1>2, <1>7, <1>8, Untouched
<1>10. NodeDone(n)'
  <2>1. n \in errs' <=> e \/ n \in errs
    BY <1>4
  <2>2. AtWork(n)'
    BY <1>5, <1>6, <1>9, <2>1 DEF AtWork, Working, Outcomes
  <2>3. calm' => (\A m \in Validated : ready'[m])
    BY DEF RunnerInv, CalmRun
  <2>4. calm' /\ ~ended' => s \in Answered \/ Fatal' # {}
    <3>1. e /\ n \notin Continues => n \in Fatal'
      BY <1>1, <2>1 DEF Fatal
    <3> QED
      BY <1>9, <3>1
  <2>5. calm' => CalmNode(n)'
    <3>1. ~(LevelOf[n] < level) /\ ~(LevelOf[n] > level)
      BY LevelFacts DEF Level
    <3> QED
      BY <1>1, <1>5, <1>6, <2>4, <3>1 DEF CalmNode, Working
  <2> QED
    BY <1>1, <1>5, <2>2, <2>3, <2>5 DEF NodeDone, Working
<1> QED
  BY <1>7, <1>8, <1>10, NodeKeeps

\* A node ends its part with the status it had, by an error.
LEMMA FinishesAsItWas ==
  ASSUME NEW n \in Nodes, RunnerInv, phase = "level", n \in Level,
         step[n] \in {"todo"} \cup Working, step[n] = "todo" => Startable(n),
         Returns(n, TRUE),
         UNCHANGED <<run, stored, local, phase, pass, level, ended, bounds, ready>>,
         Status(n) \in Outcomes \cup {"pending"},
         Status(n) = "satisfied" => ~dependencyApplied(n),
         calm' \in BOOLEAN, calm' => calm /\ n \notin Continues
  PROVE  RunnerInv'
<1>1. /\ Level' = Level /\ WaitLevel' = WaitLevel /\ Serial' = Serial /\ level' = level
      /\ Level \subseteq Nodes /\ TypeOK
  BY SameLevel DEF RunnerInv
<1>4. /\ step' = [step EXCEPT ![n] = IF Serial THEN "merged" ELSE "done"]
      /\ errs' = errs \cup {n}
      /\ attempt' = [attempt EXCEPT ![n] = 0]
  BY DEF Returns, Goes
<1>5. step'[n] = IF Serial THEN "merged" ELSE "done"
  BY <1>1, <1>4 DEF TypeOK
<1>6. Status(n)' = Status(n)
  BY <1>1, <1>5 DEF Status, Working
<1>7. TypeOK'
  <2>1. 0 \in 0..MaxAttempts
    BY DocumentAssumption
  <2>2. attempt' \in [Nodes -> 0..MaxAttempts] /\ errs' \subseteq Nodes
    BY <1>1, <1>4, <2>1 DEF TypeOK
  <2>3. step' \in [Nodes -> {"todo", "preflight", "dispatch", "verify", "done", "merged"}]
    BY <1>1, <1>4 DEF TypeOK
  <2> QED
    BY <1>1, <2>2, <2>3 DEF TypeOK, bounds
<1>8. NodeStep(n)
  <2>1. \A m \in Nodes \ {n} : attempt'[m] = attempt[m]
    BY <1>1, <1>4 DEF TypeOK
  <2>2. step' = [step EXCEPT ![n] = step'[n]]
    BY <1>4, <1>5
  <2> QED
    BY <1>4, <1>5, <2>1, <2>2 DEF NodeStep, Working
<1>9. /\ blockedByDependency(n)' <=> blockedByDependency(n)
      /\ dependencyApplied(n)' <=> dependencyApplied(n)
  BY <1>1, <1>7, <1>8, Untouched
<1>10. NodeDone(n)'
  <2>1. n \in errs'
    BY <1>4
  <2>2. AtWork(n)'
    BY <1>5, <1>6, <1>9, <2>1 DEF AtWork, Working
  <2>3. calm' => (\A m \in Validated : ready'[m])
    BY DEF RunnerInv, CalmRun
  <2>4. calm' => Fatal' # {}
    BY <1>1, <2>1 DEF Fatal
  <2>5. calm' => CalmNode(n)'
    <3>1. ~(LevelOf[n] < level) /\ ~(LevelOf[n] > level)
      BY LevelFacts DEF Level
    <3> QED
      BY <1>1, <1>5, <2>4, <3>1 DEF CalmNode, Working
  <2> QED
    BY <1>1, <1>5, <2>2, <2>3, <2>5 DEF NodeDone, Working
<1> QED
  BY <1>7, <1>8, <1>10, NodeKeeps

\* A node goes on, or begins, to work.
LEMMA GoesOn ==
  ASSUME NEW n \in Nodes, RunnerInv, phase = "level", n \in Level,
         step[n] \in {"todo"} \cup Working, step[n] = "todo" => Startable(n),
         NEW to \in Working, step' = [step EXCEPT ![n] = to], errs' = errs,
         NEW a \in 0..MaxAttempts, attempt' = [attempt EXCEPT ![n] = a],
         to = "preflight" => a = 0 /\ ~dependencyApplied(n),
         to = "dispatch" => a < MaxAttempts,
         UNCHANGED <<phase, pass, level, ended, calm, bounds>>,
         ~calm, ready' \in [Validated -> BOOLEAN],
         Serial => Fatal = {}, n \notin Waits, ~blockedByDependency(n),
         \/ Records(n, "pending", TRUE)
         \/ UNCHANGED <<run, stored, local>> /\ Status(n) = "pending"
  PROVE  RunnerInv'
<1>1. /\ Level' = Level /\ WaitLevel' = WaitLevel /\ Serial' = Serial /\ level' = level
      /\ Level \subseteq Nodes /\ TypeOK
  BY SameLevel DEF RunnerInv
<1>2. step'[n] = to /\ attempt'[n] = a
  BY <1>1 DEF TypeOK
<1>3. /\ run' \in RunState /\ stored' \in RunState /\ local' \in [Nodes -> NodeStatuses]
      /\ \A m \in Nodes \ {n} : run'.nodes[m] = run.nodes[m] /\ local'[m] = local[m]
      /\ Status(n)' = "pending"
      /\ stored' = run' \/ (stored' = stored /\ run'.nodes = run.nodes)
  <2>1. CASE Records(n, "pending", TRUE)
    <3>1. "pending" \in NodeStatuses /\ TRUE \in BOOLEAN
      BY DEF NodeStatuses
    <3>2. /\ run' \in RunState /\ stored' \in RunState /\ local' \in [Nodes -> NodeStatuses]
          /\ \A m \in Nodes \ {n} : run'.nodes[m] = run.nodes[m] /\ local'[m] = local[m]
          /\ Serial => run'.nodes[n] = "pending"
          /\ ~Serial => local'[n] = "pending" /\ run' = run
          /\ \/ stored' = run'
             \/ stored' = stored /\ (run'.nodes = run.nodes \/ (run'.nodes[n] = "pending" /\ ~TRUE))
      BY <1>1, <2>1, <3>1, RecordsFacts
    <3> QED
      BY <1>1, <1>2, <3>2 DEF Status, Working
  <2>2. CASE UNCHANGED <<run, stored, local>> /\ Status(n) = "pending"
    BY <1>1, <1>2, <2>2 DEF Status, Working, TypeOK
  <2> QED
    BY <2>1, <2>2
<1>4. TypeOK'
  <2>1. attempt' \in [Nodes -> 0..MaxAttempts]
    BY <1>1 DEF TypeOK
  <2>2. step' \in [Nodes -> {"todo", "preflight", "dispatch", "verify", "done", "merged"}]
    BY <1>1 DEF TypeOK, Working
  <2> QED
    BY <1>1, <1>3, <2>1, <2>2 DEF TypeOK, bounds
<1>5. NodeStep(n)
  <2>1. \A m \in Nodes \ {n} : attempt'[m] = attempt[m]
    BY <1>1 DEF TypeOK
  <2> QED
    BY <1>2, <1>3, <2>1 DEF NodeStep, Working
<1>6. /\ blockedByDependency(n)' <=> blockedByDependency(n)
      /\ dependencyApplied(n)' <=> dependencyApplied(n)
  BY <1>1, <1>4, <1>5, Untouched
<1>7. NodeDone(n)'
  <2>1. AtWork(n)'
    BY <1>2, <1>3, <1>6 DEF AtWork, Working, Returned
  <2>2. Fatal' = Fatal
    BY <1>1 DEF Fatal
  <2> QED
    BY <1>1, <1>2, <2>1, <2>2 DEF NodeDone, Working
<1> QED
  BY <1>4, <1>5, <1>7, NodeKeeps

\* A node of a calm run has nothing to run for.
LEMMA CalmDoesNotRun ==
  ASSUME NEW n \in Nodes, RunnerInv, Runs(n)
  PROVE  ~calm
<1> SUFFICES ASSUME calm
             PROVE  FALSE
  OBVIOUS
<1>1. phase = "level" /\ n \in Level /\ step[n] = "todo" /\ ~ended
  BY DEF Runs, Proceeds, Startable, ContextEnded
<1>2. (\A m \in Validated : ready[m]) /\ \A m \in Nodes : CalmNode(m)
  BY <1>1 DEF RunnerInv, CalmRun
<1>3. run.nodes[n] \in {"applied", "satisfied"}
  BY <1>1, <1>2 DEF CalmNode, Reached
<1>4. ~dependencyApplied(n)
  BY <1>1, <1>2, BehindLevel DEF CalmNode, dependencyApplied, Answered
<1> QED
  BY <1>2, <1>3, <1>4 DEF Runs, Reusable, Observed

LEMMA StartsKeep ==
  ASSUME NEW n \in Nodes, RunnerInv,
         \/ StartEnded(n) \/ StartBlocked(n) \/ StartGuarded(n)
         \/ Reuse(n) \/ ReuseFails(n) \/ StartNode(n) \/ StartRefused(n)
  PROVE  RunnerInv'
<1>1. Startable(n) /\ phase = "level" /\ n \in Level /\ step[n] = "todo"
  BY DEF StartEnded, StartBlocked, StartGuarded, Reuse, ReuseFails, StartNode, StartRefused,
         Proceeds, Runs, Startable
<1>2. step[n] \in {"todo"} \cup Working /\ TypeOK
  BY <1>1 DEF RunnerInv
<1>3. {"unknown", "skipped", "satisfied", "failed"} \subseteq Outcomes
      /\ TRUE \in BOOLEAN /\ FALSE \in BOOLEAN
  BY DEF Outcomes
<1>4. ASSUME UNCHANGED <<control, host>>
      PROVE  /\ UNCHANGED <<phase, pass, level, ended, calm, bounds>>
             /\ ready' = ready /\ ready' \in [Validated -> BOOLEAN]
  BY <1>2, <1>4 DEF control, host, TypeOK
<1>5. CASE StartEnded(n)
  <2>1. ended \/ Fatal # {}
    BY <1>5 DEF StartEnded, ContextEnded
  <2>2. Records(n, "unknown", FALSE) /\ Returns(n, TRUE) /\ UNCHANGED <<control, host>>
    BY <1>5 DEF StartEnded
  <2> QED
    BY <1>1, <1>2, <1>3, <1>4, <2>1, <2>2, Finishes
<1>6. CASE StartBlocked(n)
  <2>1. /\ Records(n, "skipped", FALSE) /\ Returns(n, n \notin Continues)
        /\ UNCHANGED <<control, host>> /\ (n \notin Continues) \in BOOLEAN
    BY <1>6 DEF StartBlocked
  <2> QED
    BY <1>1, <1>2, <1>3, <1>4, <2>1, Finishes DEF Answered
<1>7. CASE StartGuarded(n)
  <2>1. Records(n, "skipped", FALSE) /\ Returns(n, FALSE) /\ UNCHANGED <<control, host>>
    BY <1>7 DEF StartGuarded
  <2> QED
    BY <1>1, <1>2, <1>3, <1>4, <2>1, Finishes DEF Answered
<1>8. CASE Reuse(n)
  <2>1. /\ Records(n, "satisfied", FALSE) /\ Returns(n, FALSE) /\ UNCHANGED <<control, host>>
        /\ ~dependencyApplied(n)
    BY <1>8 DEF Reuse, Reusable
  <2> QED
    BY <1>1, <1>2, <1>3, <1>4, <2>1, Finishes DEF Answered
<1>9. CASE ReuseFails(n)
  <2>1. /\ UNCHANGED <<run, stored, local, phase, pass, level, ended, ready, bounds>>
        /\ Returns(n, TRUE) /\ calm' = (calm /\ n \notin Continues)
    BY <1>9 DEF ReuseFails, host
  <2>2. run.nodes[n] \in Outcomes /\ ~dependencyApplied(n)
    BY <1>9 DEF ReuseFails, Reusable, Outcomes
  <2>3. Status(n) = run.nodes[n]
    BY <1>1 DEF RunnerInv, Present, AtWork
  <2>4. calm' \in BOOLEAN /\ (calm' => calm /\ n \notin Continues)
    BY <1>2, <2>1 DEF TypeOK
  <2> QED
    BY <1>1, <1>2, <2>1, <2>2, <2>3, <2>4, FinishesAsItWas
<1>10. CASE StartNode(n)
  <2>1. /\ Runs(n) /\ n \notin Waits /\ Records(n, "pending", TRUE)
        /\ UNCHANGED <<control, host, errs, attempt>>
        /\ step' = [step EXCEPT ![n] = IF n \in Validated /\ ~dependencyApplied(n)
                                       THEN "preflight" ELSE "dispatch"]
    BY <1>10 DEF StartNode, Goes
  <2>2. attempt[n] = 0
    BY <1>1 DEF RunnerInv, Places
  <2>3. attempt' = [attempt EXCEPT ![n] = 0] /\ 0 \in 0..MaxAttempts /\ 0 < MaxAttempts
    BY <1>2, <2>1, <2>2, DocumentAssumption DEF TypeOK
  <2>4. ~calm /\ ~blockedByDependency(n) /\ (Serial => Fatal = {})
    BY <1>1, <2>1, CalmDoesNotRun DEF Runs, Proceeds, Startable
  <2>5. UNCHANGED <<control, host>>
    BY <2>1
  <2>6. CASE n \in Validated /\ ~dependencyApplied(n)
    <3>1. "preflight" \in Working /\ step' = [step EXCEPT ![n] = "preflight"]
      BY <2>1, <2>6 DEF Working
    <3> QED
      BY <1>1, <1>2, <1>4, <2>1, <2>3, <2>4, <2>5, <2>6, <3>1, GoesOn
  <2>7. CASE ~(n \in Validated /\ ~dependencyApplied(n))
    <3>1. "dispatch" \in Working /\ step' = [step EXCEPT ![n] = "dispatch"]
      BY <2>1, <2>7 DEF Working
    <3> QED
      BY <1>1, <1>2, <1>4, <2>1, <2>3, <2>4, <2>5, <3>1, GoesOn
  <2> QED
    BY <2>6, <2>7
<1>11. CASE StartRefused(n)
  <2>1. Records(n, "failed", TRUE) /\ Returns(n, TRUE) /\ UNCHANGED <<control, host>>
    BY <1>11 DEF StartRefused
  <2>2. ~calm
    BY <1>11, CalmDoesNotRun DEF StartRefused
  <2> QED
    BY <1>1, <1>2, <1>3, <1>4, <2>1, <2>2, Finishes
<1> QED
  BY <1>5, <1>6, <1>7, <1>8, <1>9, <1>10, <1>11

\* The outcome of a call, whatever it is.
LEMMA EndsWork ==
  ASSUME NEW n \in Nodes, RunnerInv, step[n] \in Working, NEW s \in Outcomes, NEW e \in BOOLEAN,
         Records(n, s, TRUE), Returns(n, e),
         UNCHANGED <<control, bounds>>, ready' \in [Validated -> BOOLEAN],
         s = "satisfied" => ~dependencyApplied(n)
  PROVE  RunnerInv'
<1>1. phase = "level" /\ n \in Level /\ ~calm /\ n \notin Waits
  BY WorkersAreNotCalm
<1>2. step[n] # "todo" /\ TRUE \in BOOLEAN
  BY DEF Working
<1>3. UNCHANGED <<phase, pass, level, ended, calm, bounds>>
  BY DEF control
<1> QED
  BY <1>1, <1>2, <1>3, Finishes

LEMMA KeepsWorking ==
  ASSUME NEW n \in Nodes, RunnerInv, step[n] \in Working, NEW to \in {"dispatch", "verify"},
         step' = [step EXCEPT ![n] = to], UNCHANGED <<run, stored, local, errs, control, bounds>>,
         NEW a \in 0..MaxAttempts, attempt' = [attempt EXCEPT ![n] = a],
         to = "dispatch" => a < MaxAttempts,
         ready' \in [Validated -> BOOLEAN]
  PROVE  RunnerInv'
<1>1. /\ phase = "level" /\ n \in Level /\ ~calm /\ n \notin Waits
      /\ Status(n) = "pending" /\ ~blockedByDependency(n) /\ (Serial => Fatal = {})
  BY WorkersAreNotCalm
<1>2. step[n] # "todo" /\ to \in Working /\ to # "preflight"
  BY DEF Working
<1>3. UNCHANGED <<phase, pass, level, ended, calm, bounds>>
  BY DEF control
<1> QED
  BY <1>1, <1>2, <1>3, GoesOn

LEMMA LeftPending ==
  ASSUME NEW n \in Nodes, RunnerInv, step[n] \in Working, Returns(n, TRUE),
         UNCHANGED <<run, stored, local, control, host>>
  PROVE  RunnerInv'
<1>1. phase = "level" /\ n \in Level /\ ~calm /\ Status(n) = "pending"
  BY WorkersAreNotCalm
<1>2. step[n] # "todo"
  BY DEF Working
<1>3. UNCHANGED <<phase, pass, level, ended, bounds, ready>> /\ calm' = calm
  BY DEF control, host
<1>4. calm' \in BOOLEAN
  BY <1>3 DEF RunnerInv, TypeOK
<1> QED
  BY <1>1, <1>2, <1>3, <1>4, FinishesAsItWas

\* A call changes what the host shows of its own node, if anything.
LEMMA EffectTyped ==
  ASSUME NEW n \in Nodes, TypeOK, MayTakeEffect(n)
  PROVE  ready' \in [Validated -> BOOLEAN]
BY DEF MayTakeEffect, TypeOK

LEMMA CallsKeep ==
  ASSUME NEW n \in Nodes, RunnerInv,
         \/ \E seen \in {"ready", "notReady", "error"} : Preflight(n, seen)
         \/ NoAction(n) \/ ActionUnresolved(n) \/ ActionDone(n) \/ ActionRetried(n)
         \/ ActionFails(n) \/ ActionStopped(n)
  PROVE  RunnerInv'
<1>1. /\ step[n] \in Working /\ TypeOK /\ TRUE \in BOOLEAN /\ FALSE \in BOOLEAN
      /\ attempt[n] \in 0..MaxAttempts /\ MaxAttempts \in Nat
  BY DocumentAssumption
     DEF Preflight, NoAction, ActionUnresolved, ActionDone, ActionRetried, ActionFails,
         ActionStopped, Attempts, Working, RunnerInv, TypeOK
<1>2. {"unknown", "skipped", "satisfied", "applied", "failed"} \subseteq Outcomes
  BY DEF Outcomes
<1>3. step[n] = "preflight" => ~dependencyApplied(n) /\ attempt[n] = 0 /\ 0 < MaxAttempts
  BY <1>1, WorkersAreNotCalm, DocumentAssumption DEF AtWork, RunnerInv, Places
<1>4. step[n] = "dispatch" => attempt[n] < MaxAttempts
  BY DEF RunnerInv, Places
<1>5. ASSUME NEW seen \in {"ready", "notReady", "error"}, Preflight(n, seen)
      PROVE  RunnerInv'
  <2>1. UNCHANGED <<control, host>> /\ step[n] = "preflight"
    BY <1>5 DEF Preflight
  <2>2. UNCHANGED <<control, bounds>> /\ ready' \in [Validated -> BOOLEAN]
    BY <1>1, <2>1 DEF host, TypeOK
  <2>3. CASE seen = "ready"
    <3>1. Records(n, "satisfied", TRUE) /\ Returns(n, FALSE)
      BY <1>5, <2>3 DEF Preflight
    <3> QED
      BY <1>1, <1>2, <1>3, <2>1, <2>2, <3>1, EndsWork
  <2>4. CASE seen = "error"
    <3>1. Records(n, "failed", TRUE) /\ Returns(n, TRUE)
      BY <1>5, <2>4 DEF Preflight
    <3> QED
      BY <1>1, <1>2, <2>2, <3>1, EndsWork
  <2>5. CASE seen = "notReady"
    <3>1. Goes(n, "dispatch") /\ UNCHANGED <<run, stored, local, errs, attempt>>
      BY <1>5, <2>5 DEF Preflight
    <3>2. attempt' = [attempt EXCEPT ![n] = attempt[n]]
      BY <1>1, <3>1 DEF TypeOK
    <3> QED
      BY <1>1, <1>3, <2>1, <2>2, <3>1, <3>2, KeepsWorking DEF Goes
  <2> QED
    BY <2>3, <2>4, <2>5
<1>6. CASE NoAction(n)
  <2>1. /\ Records(n, "failed", TRUE) /\ Returns(n, TRUE) /\ UNCHANGED <<control, bounds>>
        /\ ready' \in [Validated -> BOOLEAN]
    BY <1>1, <1>6 DEF NoAction, host, TypeOK
  <2> QED
    BY <1>1, <1>2, <2>1, EndsWork
<1>7. CASE ActionUnresolved(n)
  BY <1>1, <1>7, LeftPending DEF ActionUnresolved
<1>8. CASE ActionDone(n)
  <2>1. ready' \in [Validated -> BOOLEAN] /\ UNCHANGED <<control, bounds>>
    BY <1>1, <1>8, EffectTyped DEF ActionDone
  <2>2. CASE n \in Validated
    <3>1. Goes(n, "verify") /\ Counts(n) /\ UNCHANGED <<run, stored, local, errs>>
      BY <1>8, <2>2 DEF ActionDone
    <3>2. step[n] = "dispatch"
      BY <1>8 DEF ActionDone, Attempts
    <3>3. attempt' = [attempt EXCEPT ![n] = attempt[n] + 1] /\ attempt[n] + 1 \in 0..MaxAttempts
      BY <1>1, <1>4, <3>1, <3>2 DEF Counts
    <3> QED
      BY <1>1, <2>1, <3>1, <3>3, KeepsWorking DEF Goes
  <2>3. CASE n \notin Validated
    <3>1. Records(n, "applied", TRUE) /\ Returns(n, FALSE)
      BY <1>8, <2>3 DEF ActionDone
    <3> QED
      BY <1>1, <1>2, <2>1, <3>1, EndsWork
  <2> QED
    BY <2>2, <2>3
<1>9. CASE ActionRetried(n)
  <2>1. /\ ready' \in [Validated -> BOOLEAN] /\ step[n] = "dispatch"
        /\ UNCHANGED <<run, stored, local, step, errs, control, bounds>>
    BY <1>1, <1>9, EffectTyped DEF ActionRetried, Attempts
  <2>2. attempt' = [attempt EXCEPT ![n] = attempt[n] + 1] /\ attempt'[n] < MaxAttempts
    BY <1>9 DEF ActionRetried, Counts
  <2>3. attempt[n] + 1 < MaxAttempts /\ attempt[n] + 1 \in 0..MaxAttempts
    BY <1>1, <2>2 DEF TypeOK
  <2>4. step' = [step EXCEPT ![n] = "dispatch"]
    BY <1>1, <2>1 DEF TypeOK
  <2> QED
    BY <1>1, <2>1, <2>2, <2>3, <2>4, KeepsWorking
<1>10. CASE ActionFails(n)
  <2>1. Records(n, "failed", TRUE) /\ Returns(n, TRUE) /\ UNCHANGED <<control, bounds>>
    BY <1>10 DEF ActionFails
  <2>2. ready' \in [Validated -> BOOLEAN]
    BY <1>1, <1>10, EffectTyped DEF ActionFails
  <2> QED
    BY <1>1, <1>2, <2>1, <2>2, EndsWork
<1>11. CASE ActionStopped(n)
  <2>1. Records(n, "unknown", TRUE) /\ Returns(n, TRUE) /\ UNCHANGED <<control, bounds>>
    BY <1>11 DEF ActionStopped
  <2>2. ready' \in [Validated -> BOOLEAN]
    BY <1>1, <1>11, EffectTyped DEF ActionStopped
  <2> QED
    BY <1>1, <1>2, <2>1, <2>2, EndsWork
<1> QED
  BY <1>5, <1>6, <1>7, <1>8, <1>9, <1>10, <1>11

LEMMA VerifyKeeps ==
  ASSUME NEW n \in Nodes, RunnerInv,
         \/ Verified(n) \/ VerifyRetried(n) \/ VerifyFails(n) \/ VerifyStopped(n)
         \/ RecoverUnresolved(n)
  PROVE  RunnerInv'
<1>1. step[n] \in Working /\ TypeOK /\ TRUE \in BOOLEAN /\ FALSE \in BOOLEAN
  BY DEF Verified, VerifyRetried, VerifyFails, VerifyStopped, RecoverUnresolved, Working,
         RunnerInv
<1>2. {"unknown", "applied", "failed"} \subseteq Outcomes
  BY DEF Outcomes
<1>3. MayRecover(n) => ready' \in [Validated -> BOOLEAN]
  BY <1>1, EffectTyped DEF MayRecover, TypeOK
<1>4. CASE Verified(n)
  <2>1. Records(n, "applied", TRUE) /\ Returns(n, FALSE) /\ UNCHANGED <<control, bounds>>
    BY <1>4 DEF Verified
  <2>2. ready' \in [Validated -> BOOLEAN]
    BY <1>1, <1>4 DEF Verified, TypeOK
  <2> QED
    BY <1>1, <1>2, <2>1, <2>2, EndsWork
<1>5. CASE VerifyRetried(n)
  <2>1. /\ UNCHANGED <<run, stored, local, errs, control, bounds>> /\ attempt' = attempt
        /\ step' = [step EXCEPT ![n] = "dispatch"] /\ attempt[n] < MaxAttempts
        /\ ready' \in [Validated -> BOOLEAN]
    BY <1>3, <1>5 DEF VerifyRetried, Goes
  <2>2. attempt' = [attempt EXCEPT ![n] = attempt[n]] /\ attempt[n] \in 0..MaxAttempts
    BY <1>1, <2>1 DEF TypeOK
  <2> QED
    BY <1>1, <2>1, <2>2, KeepsWorking
<1>6. CASE VerifyFails(n)
  <2>1. /\ Records(n, "failed", TRUE) /\ Returns(n, TRUE) /\ UNCHANGED <<control, bounds>>
        /\ ready' \in [Validated -> BOOLEAN]
    BY <1>3, <1>6 DEF VerifyFails
  <2> QED
    BY <1>1, <1>2, <2>1, EndsWork
<1>7. CASE VerifyStopped(n)
  <2>1. /\ Records(n, "unknown", TRUE) /\ Returns(n, TRUE) /\ UNCHANGED <<control, bounds>>
        /\ ready' \in [Validated -> BOOLEAN]
    BY <1>3, <1>7 DEF VerifyStopped
  <2> QED
    BY <1>1, <1>2, <2>1, EndsWork
<1>8. CASE RecoverUnresolved(n)
  BY <1>1, <1>8, LeftPending DEF RecoverUnresolved
<1> QED
  BY <1>4, <1>5, <1>6, <1>7, <1>8

\* A merged result is the one the clone had.
LEMMA MergeKeeps ==
  ASSUME NEW n \in Nodes, RunnerInv, Merge(n)
  PROVE  RunnerInv'
<1>1. /\ phase = "level" /\ n \in Level /\ step[n] = "done" /\ TypeOK
      /\ step' = [step EXCEPT ![n] = "merged"]
      /\ run' = [run EXCEPT !.nodes[n] = local[n]] /\ stored' = run'
      /\ UNCHANGED <<control, host, local, errs, attempt>>
  BY DEF Merge, Goes, RunnerInv
<1>2. /\ Level' = Level /\ WaitLevel' = WaitLevel /\ Serial' = Serial /\ level' = level
      /\ Level \subseteq Nodes
  BY <1>1, SameLevel DEF control
<1>3. ~Serial /\ AtWork(n)
  BY <1>1 DEF RunnerInv, InOrder, Present
<1>4. run' \in RunState /\ run'.nodes = [run.nodes EXCEPT ![n] = local[n]]
  BY <1>1 DEF TypeOK, RunState
<1>5. step'[n] = "merged" /\ run'.nodes[n] = local[n] /\ Status(n) = local[n]
      /\ Status(n)' = local[n]
  BY <1>1, <1>3, <1>4 DEF TypeOK, RunState, Status
<1>6. TypeOK'
  BY <1>1, <1>4 DEF TypeOK, control, host, bounds
<1>7. NodeStep(n)
  <2>1. \A m \in Nodes \ {n} : run'.nodes[m] = run.nodes[m]
    BY <1>1, <1>4 DEF TypeOK, RunState
  <2> QED
    BY <1>1, <1>5, <2>1 DEF NodeStep, control, host
<1>8. /\ blockedByDependency(n)' <=> blockedByDependency(n)
      /\ dependencyApplied(n)' <=> dependencyApplied(n)
      /\ Fatal \subseteq Fatal'
  BY <1>1, <1>6, <1>7, Untouched
<1>9. NodeDone(n)'
  <2>1. AtWork(n)'
    BY <1>1, <1>3, <1>5, <1>8 DEF AtWork, Working, Returned
  <2>2. ASSUME calm'
        PROVE  (\A m \in Validated : ready'[m]) /\ CalmNode(n)'
    <3>1. calm /\ ready' = ready /\ ended' = ended
      BY <1>1, <2>2 DEF control, host
    <3>2. (\A m \in Validated : ready[m]) /\ CalmNode(n)
      BY <1>1, <3>1 DEF RunnerInv, CalmRun
    <3>3. ~(LevelOf[n] < level) /\ ~(LevelOf[n] > level)
      BY <1>1, LevelFacts DEF Level
    <3>4. ~ended => Status(n) \in Answered \/ Fatal # {}
      BY <1>1, <3>2 DEF CalmNode, Returned
    <3> QED
      BY <1>1, <1>2, <1>5, <1>8, <3>1, <3>2, <3>3, <3>4 DEF CalmNode, Working
  <2> QED
    BY <1>2, <1>5, <2>1, <2>2 DEF NodeDone, Working
<1> QED
  BY <1>1, <1>6, <1>7, <1>9, NodeKeeps

----------------------------------------------------------------------------
LEMMA FirstLevel == 1 \in 1..Cardinality(Nodes) /\ 1 \in 1..MaxPasses
<1>1. PICK n \in Nodes : TRUE
  BY DocumentAssumption
<1>2. LevelOf[n] \in 1..Cardinality(Nodes)
  BY LevelFacts
<1> QED
  BY <1>2, LevelFacts, DocumentAssumption

\* A run that stops leaves what it stored last.
LEMMA StopsKeep ==
  ASSUME RunnerInv, Stops, run' \in RunState, stored' = run', UNCHANGED host
  PROVE  RunnerInv'
<1>1. /\ phase' = "idle" /\ pass' = 1 /\ level' = 1 /\ step' = [n \in Nodes |-> "todo"]
      /\ local' = run'.nodes /\ errs' = {} /\ attempt' = [n \in Nodes |-> 0]
      /\ ended' = FALSE /\ calm' = FALSE
  BY DEF Stops
<1>2. TypeOK'
  <2>1. attempt' \in [Nodes -> 0..MaxAttempts]
    BY <1>1, DocumentAssumption
  <2>2. step' \in [Nodes -> {"todo", "preflight", "dispatch", "verify", "done", "merged"}]
    BY <1>1
  <2>3. local' \in [Nodes -> NodeStatuses]
    BY <1>1 DEF RunState
  <2> QED
    BY <1>1, <2>1, <2>2, <2>3, FirstLevel DEF RunnerInv, TypeOK, host, bounds
<1>3. Places' /\ Recorded' /\ InOrder' /\ Behind' /\ Present' /\ CalmRun'
  BY <1>1 DEF Places, Recorded, InOrder, Behind, Present, CalmRun
<1> QED
  BY <1>2, <1>3 DEF RunnerInv

\* A new loop over the nodes finds them all to do.
LEMMA RestartsKeep ==
  ASSUME RunnerInv, Restarts, UNCHANGED <<host, ended>>,
         phase' \in {"level", "check", "abort", "compensate"},
         pass' \in 1..MaxPasses, level' \in 1..Cardinality(Nodes),
         run' \in RunState, stored' \in RunState,
         stored' = run' \/ (stored' = stored /\ run' = run),
         Behind', CalmRun'
  PROVE  RunnerInv'
<1>1. /\ step' = [n \in Nodes |-> "todo"] /\ local' = run'.nodes /\ errs' = {}
      /\ attempt' = [n \in Nodes |-> 0] /\ calm' = calm
  BY DEF Restarts
<1>2. TypeOK'
  BY <1>1, DocumentAssumption DEF RunnerInv, TypeOK, RunState, host, bounds
<1>3. Places'
  BY <1>1 DEF Places
<1>4. Recorded'
  BY DEF RunnerInv, Recorded
<1>5. InOrder'
  BY <1>1 DEF InOrder, Level
<1>6. Present'
  BY <1>1 DEF Present, AtWork, Status, Working, Returned, Level
<1> QED
  BY <1>2, <1>3, <1>4, <1>5, <1>6 DEF RunnerInv

LEMMA AbortsKeep ==
  ASSUME RunnerInv, Aborts
  PROVE  RunnerInv'
<1>1. /\ phase' = "abort" /\ pass' = 1 /\ level' = 1 /\ Restarts
      /\ UNCHANGED <<run, stored, ended, host>>
  BY DEF Aborts
<1>2. run' \in RunState /\ stored' \in RunState
  BY <1>1 DEF RunnerInv, TypeOK
<1>3. Behind' /\ CalmRun'
  BY <1>1 DEF Behind, CalmRun
<1> QED
  BY <1>1, <1>2, <1>3, FirstLevel, RestartsKeep

\* The level that ends is behind the next one.
LEMMA LevelEndsKeeps ==
  ASSUME RunnerInv, LevelEnds
  PROVE  RunnerInv'
<1>1. /\ phase = "level" /\ (\A n \in Level : step[n] = "merged") /\ Fatal = {}
      /\ UNCHANGED <<run, stored, pass, ended, host>> /\ Restarts /\ TypeOK
  BY DEF LevelEnds, LevelMerged, RunnerInv
<1>2. \/ phase' = "level" /\ level' = level + 1 /\ \E n \in Nodes : LevelOf[n] > level
      \/ phase' = "check" /\ level' = level /\ \A n \in Nodes : ~(LevelOf[n] > level)
  BY <1>1 DEF LevelEnds
<1>3. level \in Nat /\ \A n \in Nodes : LevelOf[n] \in Nat
  BY <1>1, LevelFacts DEF TypeOK
<1>4. level' \in 1..Cardinality(Nodes)
  BY <1>1, <1>2, LevelFacts DEF TypeOK
<1>5. \A m \in Nodes : ~(LevelOf[m] > level) =>
        /\ run.nodes[m] \in Outcomes \/ (m \in Continues /\ run.nodes[m] = "pending")
        /\ m \in Waits => run.nodes[m] \in Answered
  <2> SUFFICES ASSUME NEW m \in Nodes, ~(LevelOf[m] > level)
               PROVE  /\ run.nodes[m] \in Outcomes \/ (m \in Continues /\ run.nodes[m] = "pending")
                      /\ m \in Waits => run.nodes[m] \in Answered
    OBVIOUS
  <2>1. CASE LevelOf[m] < level
    BY <1>1, <2>1 DEF RunnerInv, Behind
  <2>2. CASE LevelOf[m] = level
    <3>1. m \in Level /\ step[m] = "merged" /\ AtWork(m)
      BY <1>1, <2>2 DEF Level, RunnerInv, Present
    <3>2. Status(m) = run.nodes[m]
      BY <3>1 DEF Status
    <3>3. m \in errs => m \in Continues /\ m \notin Waits
      BY <1>1, <3>1 DEF Fatal, WaitLevel
    <3> QED
      BY <3>1, <3>2, <3>3 DEF AtWork, Returned
  <2> QED
    BY <1>3, <2>1, <2>2
<1>6. Behind'
  BY <1>1, <1>2, <1>3, <1>5 DEF Behind
<1>7. ASSUME calm, ~ended
      PROVE  \A m \in Nodes : IF LevelOf[m] > level THEN run.nodes[m] \in Reached
                                                    ELSE run.nodes[m] \in Answered
  <2> SUFFICES ASSUME NEW m \in Nodes
               PROVE  IF LevelOf[m] > level THEN run.nodes[m] \in Reached
                                            ELSE run.nodes[m] \in Answered
    OBVIOUS
  <2>1. CalmNode(m)
    BY <1>1, <1>7 DEF RunnerInv, CalmRun
  <2>2. CASE LevelOf[m] = level
    <3>1. m \in Level /\ step[m] = "merged"
      BY <1>1, <2>2 DEF Level
    <3> QED
      BY <1>1, <1>3, <1>7, <2>1, <2>2, <3>1 DEF CalmNode, Status, Returned
  <2>3. CASE LevelOf[m] # level
    BY <1>3, <1>7, <2>1, <2>3 DEF CalmNode
  <2> QED
    BY <2>2, <2>3
<1>8. CalmRun'
  <2> SUFFICES ASSUME calm'
               PROVE  /\ \A n \in Validated : ready'[n]
                      /\ phase' = "level" => \A n \in Nodes : CalmNode(n)'
                      /\ phase' = "check" /\ ~ended' => \A n \in Nodes : run'.nodes[n] \in Answered
    BY DEF CalmRun
  <2>1. calm /\ step' = [n \in Nodes |-> "todo"] /\ ended' = ended /\ run' = run /\ ready' = ready
    BY <1>1 DEF Restarts, host
  <2>2. \A n \in Validated : ready'[n]
    BY <1>1, <2>1 DEF RunnerInv, CalmRun
  <2>3. ASSUME phase' = "level", NEW n \in Nodes
        PROVE  CalmNode(n)'
    <3>1. level' = level + 1 /\ step'[n] = "todo"
      BY <1>2, <2>1, <2>3
    <3>2. ~ended => IF LevelOf[n] > level THEN run.nodes[n] \in Reached
                                          ELSE run.nodes[n] \in Answered
      BY <1>7, <2>1
    <3>3. n \in Level' => LevelOf[n] = level'
      BY DEF Level
    <3> QED
      BY <1>3, <2>1, <3>1, <3>2, <3>3 DEF CalmNode, Working, Returned
  <2>4. phase' = "check" /\ ~ended' => \A n \in Nodes : run'.nodes[n] \in Answered
    BY <1>2, <1>7, <2>1
  <2> QED
    BY <2>2, <2>3, <2>4
<1> QED
  BY <1>1, <1>2, <1>4, <1>6, <1>8, RestartsKeep DEF TypeOK

----------------------------------------------------------------------------
\* The sweep before another pass.
LEMMA SweepsKeep ==
  ASSUME NEW n \in Nodes, RunnerInv, SweepKeeps(n) \/ SweepRegressed(n) \/ SweepFails(n)
  PROVE  RunnerInv'
<1>1. phase = "check" /\ pass < MaxPasses /\ step[n] = "todo" /\ TypeOK
  BY DEF SweepKeeps, SweepRegressed, SweepFails, Sweeping, RunnerInv
<1>2. "satisfied" \in NodeStatuses /\ "pending" \in NodeStatuses
  BY DEF NodeStatuses
<1>3. CASE SweepKeeps(n)
  <2>1. /\ run' = run \/ run' = [run EXCEPT !.nodes[n] = "satisfied"]
        /\ step' = [step EXCEPT ![n] = "done"]
        /\ UNCHANGED <<stored, local, control, errs, host, attempt>>
    BY <1>3 DEF SweepKeeps, Goes
  <2>2. /\ run' \in RunState
        /\ \A m \in Nodes : run'.nodes[m] = run.nodes[m] \/ run'.nodes[m] = "satisfied"
    BY <1>1, <1>2, <2>1 DEF TypeOK, RunState
  <2>3. TypeOK'
    BY <1>1, <2>1, <2>2 DEF TypeOK, control, host, bounds
  <2>4. Places'
    BY <1>1, <2>1 DEF RunnerInv, Places, TypeOK, control
  <2>5. Recorded'
    BY <1>1, <2>1, <2>2 DEF RunnerInv, Recorded, control
  <2>6. InOrder' /\ Behind' /\ Present'
    BY <1>1, <2>1 DEF InOrder, Behind, Present, control
  <2>7. CalmRun'
    BY <1>1, <2>1, <2>2 DEF RunnerInv, CalmRun, control, host, Answered
  <2> QED
    BY <2>3, <2>4, <2>5, <2>6, <2>7 DEF RunnerInv
<1>4. CASE SweepRegressed(n)
  <2>1. /\ NextPass /\ UNCHANGED <<ended, host>>
        /\ \/ run' = [run EXCEPT !.nodes[n] = "pending"] /\ stored' = run'
           \/ run' = run /\ stored' = stored
        /\ run.nodes[n] \in Settled =>
             n \in Validated /\ run.nodes[n] # "skipped" /\ Observed(n, "notReady")
    BY <1>4 DEF SweepRegressed
  <2>2. /\ Restarts /\ phase' = "level" /\ pass' = pass + 1 /\ level' = 1
    BY <2>1 DEF NextPass
  <2>3. run' \in RunState /\ stored' \in RunState
    BY <1>1, <1>2, <2>1 DEF TypeOK, RunState
  <2>4. pass' \in 1..MaxPasses
    BY <1>1, <2>2, DocumentAssumption DEF TypeOK
  <2>5. \A m \in Nodes : ~(LevelOf[m] < 1)
    BY LevelFacts
  <2>6. Behind'
    BY <2>2, <2>5 DEF Behind
  <2>7. CalmRun'
    <3> SUFFICES ASSUME calm'
                 PROVE  (\A m \in Validated : ready'[m]) /\ \A m \in Nodes : CalmNode(m)'
      BY <2>2 DEF CalmRun
    <3>1. calm /\ ready' = ready /\ ended' = ended /\ step' = [m \in Nodes |-> "todo"]
      BY <2>1, <2>2 DEF Restarts, host
    <3>2. \A m \in Validated : ready[m]
      BY <1>1, <3>1 DEF RunnerInv, CalmRun
    <3>3. ended
      <4> SUFFICES ASSUME ~ended
                   PROVE  FALSE
        OBVIOUS
      <4>1. run.nodes[n] \in Settled
        BY <1>1, <3>1 DEF RunnerInv, CalmRun, Answered, Settled
      <4> QED
        BY <2>1, <3>2, <4>1 DEF Observed
    <3> QED
      BY <3>1, <3>2, <3>3 DEF CalmNode, Working
  <2> QED
    BY <2>1, <2>2, <2>3, <2>4, <2>6, <2>7, FirstLevel, RestartsKeep
<1>5. CASE SweepFails(n)
  BY <1>5, AbortsKeep DEF SweepFails
<1> QED
  BY <1>3, <1>4, <1>5

LEMMA CompensateKeeps ==
  ASSUME NEW n \in Nodes, RunnerInv,
         NEW result \in {"compensated", "compensation_failed", "unresolved"},
         compensate(n, result)
  PROVE  RunnerInv'
<1>1. /\ phase = "compensate" /\ TypeOK /\ run.nodes[n] = "applied" /\ step[n] = "todo"
      /\ step' = [step EXCEPT ![n] = "done"]
      /\ UNCHANGED <<control, bounds, local, errs, attempt>>
      /\ ready' \in [Validated -> BOOLEAN]
  BY DEF compensate, ToCompensate, Goes, RunnerInv, TypeOK
<1>2. \/ run' = run /\ stored' = stored
      \/ /\ result \in NodeStatuses /\ run' = [run EXCEPT !.nodes[n] = result] /\ stored' = run'
  BY DEF compensate, NodeStatuses
<1>3. run' \in RunState /\ stored' \in RunState
  BY <1>1, <1>2 DEF TypeOK, RunState
<1>4. TypeOK'
  BY <1>1, <1>3 DEF TypeOK, control, bounds
<1>5. Places'
  BY <1>1 DEF RunnerInv, Places, TypeOK, control
<1>6. Recorded'
  BY <1>1, <1>2 DEF RunnerInv, Recorded, control
<1>7. InOrder' /\ Behind' /\ Present' /\ CalmRun'
  BY <1>1 DEF InOrder, Behind, Present, CalmRun, control
<1> QED
  BY <1>4, <1>5, <1>6, <1>7 DEF RunnerInv

LEMMA NodeKeepsAll ==
  ASSUME NEW n \in Nodes, RunnerInv, Node(n)
  PROVE  RunnerInv'
<1>1. CASE \/ StartEnded(n) \/ StartBlocked(n) \/ StartGuarded(n)
           \/ Reuse(n) \/ ReuseFails(n) \/ StartNode(n) \/ StartRefused(n)
  BY <1>1, StartsKeep
<1>2. CASE \/ \E seen \in {"ready", "notReady", "error"} : Preflight(n, seen)
           \/ NoAction(n) \/ ActionUnresolved(n) \/ ActionDone(n) \/ ActionRetried(n)
           \/ ActionFails(n) \/ ActionStopped(n)
  BY <1>2, CallsKeep
<1>3. CASE \/ Verified(n) \/ VerifyRetried(n) \/ VerifyFails(n) \/ VerifyStopped(n)
           \/ RecoverUnresolved(n)
  BY <1>3, VerifyKeeps
<1>4. CASE Merge(n)
  BY <1>4, MergeKeeps
<1>5. CASE SweepKeeps(n) \/ SweepRegressed(n) \/ SweepFails(n)
  BY <1>5, SweepsKeep
<1>6. CASE \E result \in {"compensated", "compensation_failed", "unresolved"} :
             compensate(n, result)
  BY <1>6, CompensateKeeps
<1>7. CASE ReachWait(n)
  <2>1. /\ n \in Waits /\ Stops /\ stored' = run' /\ UNCHANGED host
        /\ run' = [nodes |-> [run.nodes EXCEPT ![n] = "waiting"], status |-> "waiting",
                   wait |-> [node |-> n, rev |-> IF run.wait.node = n
                                                 THEN run.wait.rev + 1 ELSE 1]]
    BY <1>7 DEF ReachWait
  <2>2. run.wait.rev \in Nat /\ run.nodes \in [Nodes -> NodeStatuses]
    BY DEF RunnerInv, TypeOK, RunState, WaitState
  <2>3. run'.wait \in WaitState
    BY <2>1, <2>2 DEF WaitState
  <2>4. run' \in RunState
    BY <2>1, <2>2, <2>3 DEF RunState, NodeStatuses, RunStatuses
  <2> QED
    BY <2>1, <2>4, StopsKeep
<1> QED
  BY <1>1, <1>2, <1>3, <1>4, <1>5, <1>6, <1>7 DEF Node

----------------------------------------------------------------------------
LEMMA PhasesKeep ==
  ASSUME RunnerInv, LevelFails \/ LevelEnds \/ Completes \/ Exhausted \/ abortRun \/ RunReturns
  PROVE  RunnerInv'
<1>1. TypeOK /\ {"completed", "unknown", "failed"} \subseteq RunStatuses
  BY DEF RunnerInv, RunStatuses
<1>2. CASE LevelFails \/ Exhausted
  BY <1>2, AbortsKeep DEF LevelFails, Exhausted
<1>3. CASE LevelEnds
  BY <1>3, LevelEndsKeeps
<1>4. CASE Completes
  <2>1. run' \in RunState
    BY <1>1, <1>4 DEF Completes, TypeOK, RunState
  <2> QED
    BY <1>4, <2>1, StopsKeep DEF Completes
<1>5. CASE RunReturns
  BY <1>1, <1>5, StopsKeep DEF RunReturns, TypeOK
<1>6. CASE abortRun
  <2>1. /\ run' = [run EXCEPT !.status = IF ended THEN "unknown" ELSE "failed"]
        /\ stored' = run' /\ phase' = "compensate" /\ Restarts
        /\ UNCHANGED <<pass, level, ended, host>>
    BY <1>6 DEF abortRun
  <2>2. run' \in RunState
    BY <1>1, <2>1 DEF TypeOK, RunState
  <2>3. Behind' /\ CalmRun'
    BY <2>1 DEF Behind, CalmRun
  <2> QED
    BY <1>1, <2>1, <2>2, <2>3, RestartsKeep DEF TypeOK
<1> QED
  BY <1>2, <1>3, <1>4, <1>5, <1>6

\* A run begins from what was stored of it, at the first level.
LEMMA BeginsKeep ==
  ASSUME RunnerInv, phase = "idle", phase' = "level", run' \in RunState, stored' = run',
         local' = run'.nodes,
         UNCHANGED <<pass, level, step, errs, attempt, ended, ready, drifts>>,
         launches' \in 0..MaxLaunches, answers' \in 0..MaxAnswers, calm' \in BOOLEAN,
         calm' => /\ \A n \in Nodes : run'.nodes[n] \in {"applied", "satisfied"}
                  /\ \A n \in Validated : ready[n]
  PROVE  RunnerInv'
<1>1. level = 1 /\ \A n \in Nodes : step[n] = "todo" /\ ~(LevelOf[n] < 1)
  BY LevelFacts DEF RunnerInv, Recorded, Places
<1>2. TypeOK'
  BY DEF RunnerInv, TypeOK, RunState
<1>3. Places'
  BY <1>1 DEF RunnerInv, Places
<1>4. Recorded' /\ InOrder' /\ Behind'
  BY <1>1 DEF Recorded, InOrder, Behind, Level
<1>5. Present'
  BY <1>1 DEF Present, AtWork, Status, Working, Returned, Level
<1>6. CalmRun'
  BY <1>1 DEF CalmRun, CalmNode, Working, Returned, Reached
<1> QED
  BY <1>2, <1>3, <1>4, <1>5, <1>6 DEF RunnerInv

LEMMA OutsideKeeps ==
  ASSUME RunnerInv,
         \/ Launch \/ Resume \/ ResumeExpired \/ CancelWaiting \/ Cancel \/ Crash
         \/ \E n \in Validated : Drift(n)
  PROVE  RunnerInv'
<1>1. TypeOK /\ {"running", "unknown", "expired", "cancelled"} \subseteq RunStatuses
      /\ {"satisfied", "expired"} \subseteq NodeStatuses
      /\ {MaxLaunches, MaxAnswers, MaxDrifts} \subseteq Nat
  BY DocumentAssumption DEF RunnerInv, RunStatuses, NodeStatuses
<1>2. CASE Launch
  <2>1. /\ phase = "idle" /\ phase' = "level" /\ run' = [stored EXCEPT !.status = "running"]
        /\ stored' = run' /\ local' = run'.nodes /\ launches < MaxLaunches
        /\ launches' = launches + 1
        /\ UNCHANGED <<pass, level, step, errs, attempt, ended, ready, answers, drifts>>
        /\ calm' = /\ \A n \in Nodes : stored.nodes[n] \in {"applied", "satisfied"}
                   /\ \A n \in Validated : ready[n]
    BY <1>2 DEF Launch
  <2>2. run' \in RunState /\ run'.nodes = stored.nodes
    BY <1>1, <2>1 DEF TypeOK, RunState
  <2>3. launches' \in 0..MaxLaunches /\ answers' \in 0..MaxAnswers
    BY <1>1, <2>1 DEF TypeOK
  <2>4. calm' \in BOOLEAN
    BY <2>1
  <2> QED
    BY <2>1, <2>2, <2>3, <2>4, BeginsKeep
<1>3. CASE Resume
  <2>1. /\ phase = "idle" /\ phase' = "level" /\ answers < MaxAnswers /\ answers' = answers + 1
        /\ run' = [nodes |-> [stored.nodes EXCEPT ![stored.wait.node] = "satisfied"],
                   status |-> "running", wait |-> NoWait]
        /\ stored' = run' /\ local' = run'.nodes
        /\ UNCHANGED <<pass, level, step, errs, attempt, ended, ready, launches, drifts, calm>>
    BY <1>3 DEF Resume
  <2>2. stored.nodes \in [Nodes -> NodeStatuses]
    BY <1>1 DEF TypeOK, RunState
  <2>3. [stored.nodes EXCEPT ![stored.wait.node] = "satisfied"] \in [Nodes -> NodeStatuses]
    BY <1>1, <2>2
  <2>4. NoWait \in WaitState
    BY DEF NoWait, WaitState
  <2>5. run' \in RunState
    BY <1>1, <2>1, <2>3, <2>4 DEF RunState
  <2>6. launches' \in 0..MaxLaunches /\ answers' \in 0..MaxAnswers
    BY <1>1, <2>1 DEF TypeOK
  <2>7. ~calm' /\ calm' \in BOOLEAN
    BY <1>1, <2>1 DEF RunnerInv, Recorded, TypeOK
  <2> QED
    BY <2>1, <2>5, <2>6, <2>7, BeginsKeep
<1>4. CASE ResumeExpired
  <2>1. /\ run' = [stored EXCEPT !.status = "expired", !.nodes[stored.wait.node] = "expired"]
        /\ stored' = run' /\ Stops /\ UNCHANGED host
    BY <1>4 DEF ResumeExpired
  <2>2. run' \in RunState
    BY <1>1, <2>1 DEF TypeOK, RunState
  <2> QED
    BY <2>1, <2>2, StopsKeep
<1>5. CASE CancelWaiting
  <2>1. /\ run' = [stored EXCEPT !.status = "cancelled"]
        /\ stored' = run' /\ Stops /\ UNCHANGED host
    BY <1>5 DEF CancelWaiting
  <2>2. run' \in RunState
    BY <1>1, <2>1 DEF TypeOK, RunState
  <2> QED
    BY <2>1, <2>2, StopsKeep
<1>6. CASE Crash
  <2>1. /\ stored' = [stored EXCEPT !.status = IF @ = "running" THEN "unknown" ELSE @]
        /\ run' = stored' /\ Stops /\ UNCHANGED host
    BY <1>6 DEF Crash
  <2>2. run' \in RunState
    BY <1>1, <2>1 DEF TypeOK, RunState
  <2> QED
    BY <2>1, <2>2, StopsKeep
<1>7. CASE Cancel
  <2>1. /\ phase # "idle" /\ ended' = TRUE
        /\ UNCHANGED <<run, stored, phase, pass, level, step, local, errs, attempt, host, calm>>
    BY <1>7 DEF Cancel
  <2>2. Level' = Level /\ WaitLevel' = WaitLevel /\ Serial' = Serial /\ Fatal' = Fatal
    BY <2>1, SameLevel DEF Fatal
  <2>3. TypeOK'
    BY <1>1, <2>1 DEF TypeOK, host, bounds
  <2>4. Places' /\ Recorded' /\ InOrder' /\ Behind'
    BY <2>1, <2>2 DEF RunnerInv, Places, Recorded, InOrder, Behind
  <2>5. Present'
    BY <2>1, <2>2 DEF RunnerInv, Present, AtWork, Status, blockedByDependency, dependencyApplied
  <2>6. CalmRun'
    BY <2>1, <2>2 DEF RunnerInv, CalmRun, CalmNode, Status, host
  <2> QED
    BY <2>3, <2>4, <2>5, <2>6 DEF RunnerInv
<1>8. ASSUME NEW n \in Validated, Drift(n)
      PROVE  RunnerInv'
  <2>1. /\ drifts < MaxDrifts /\ drifts' = drifts + 1
        /\ ready' = [ready EXCEPT ![n] = FALSE] /\ calm' = FALSE
        /\ UNCHANGED <<run, stored, phase, pass, level, ended, step, local, errs, attempt,
                       launches, answers>>
    BY <1>8 DEF Drift
  <2>2. Level' = Level /\ WaitLevel' = WaitLevel /\ Serial' = Serial /\ Fatal' = Fatal
    BY <2>1, SameLevel DEF Fatal
  <2>3. drifts' \in 0..MaxDrifts
    BY <1>1, <2>1 DEF TypeOK
  <2>4. TypeOK'
    BY <1>1, <2>1, <2>3 DEF TypeOK
  <2>5. Places' /\ Recorded' /\ InOrder' /\ Behind' /\ CalmRun'
    BY <2>1, <2>2 DEF RunnerInv, Places, Recorded, InOrder, Behind, CalmRun
  <2>6. Present'
    BY <2>1, <2>2 DEF RunnerInv, Present, AtWork, Status, blockedByDependency, dependencyApplied
  <2> QED
    BY <2>4, <2>5, <2>6 DEF RunnerInv
<1> QED
  BY <1>2, <1>3, <1>4, <1>5, <1>6, <1>7, <1>8

LEMMA RunnerStep ==
  ASSUME RunnerInv, [Next]_vars
  PROVE  RunnerInv'
<1>1. CASE \E n \in Nodes : Node(n)
  BY <1>1, NodeKeepsAll
<1>2. CASE LevelFails \/ LevelEnds \/ Completes \/ Exhausted \/ abortRun \/ RunReturns
  BY <1>2, PhasesKeep
<1>3. CASE \/ Launch \/ Resume \/ ResumeExpired \/ CancelWaiting \/ Cancel \/ Crash
           \/ \E n \in Validated : Drift(n)
  BY <1>3, OutsideKeeps
<1>4. CASE UNCHANGED vars
  <2>1. UNCHANGED <<run, stored, phase, pass, level, step, local, errs, attempt, ended, ready,
                    launches, answers, drifts, calm>>
    BY <1>4 DEF vars
  <2>2. Level' = Level /\ WaitLevel' = WaitLevel /\ Serial' = Serial /\ Fatal' = Fatal
    BY <2>1, SameLevel DEF Fatal
  <2>3. TypeOK' /\ Places' /\ Recorded'
    BY <2>1, <2>2 DEF RunnerInv, TypeOK, Places, Recorded
  <2>4. InOrder' /\ Behind'
    BY <2>1, <2>2 DEF RunnerInv, InOrder, Behind
  <2>5. Present'
    BY <2>1, <2>2 DEF RunnerInv, Present, AtWork, Status, blockedByDependency, dependencyApplied
  <2>6. CalmRun'
    BY <2>1, <2>2 DEF RunnerInv, CalmRun, CalmNode, Status
  <2> QED
    BY <2>3, <2>4, <2>5, <2>6 DEF RunnerInv
<1> QED
  BY <1>1, <1>2, <1>3, <1>4 DEF Next, Runner

LEMMA RunnerInit ==
  ASSUME Init
  PROVE  RunnerInv
<1>1. /\ run = [nodes |-> [n \in Nodes |-> "pending"], status |-> "pending", wait |-> NoWait]
      /\ stored = run /\ phase = "idle" /\ pass = 1 /\ level = 1
      /\ step = [n \in Nodes |-> "todo"] /\ local = run.nodes /\ errs = {}
      /\ attempt = [n \in Nodes |-> 0] /\ ended = FALSE /\ ready \in [Validated -> BOOLEAN]
      /\ launches = 0 /\ answers = 0 /\ drifts = 0 /\ calm = FALSE
  BY DEF Init
<1>2. run \in RunState
  BY <1>1 DEF RunState, NodeStatuses, RunStatuses, NoWait, WaitState
<1>3. attempt \in [Nodes -> 0..MaxAttempts] /\ local \in [Nodes -> NodeStatuses]
  BY <1>1, <1>2, DocumentAssumption DEF RunState
<1>4. launches \in 0..MaxLaunches /\ answers \in 0..MaxAnswers /\ drifts \in 0..MaxDrifts
  BY <1>1, DocumentAssumption
<1>5. TypeOK
  BY <1>1, <1>2, <1>3, <1>4, FirstLevel DEF TypeOK
<1>6. Places /\ Recorded /\ InOrder /\ Behind /\ Present /\ CalmRun
  BY <1>1 DEF Places, Recorded, InOrder, Behind, Present, CalmRun
<1> QED
  BY <1>5, <1>6 DEF RunnerInv

LEMMA RunnerIsSound ==
  ASSUME RunnerInv
  PROVE  RunnerConsistent
<1>1. ASSUME NEW n \in Acting
      PROVE  phase = "level" /\ n \in Level /\ n \in Nodes /\ step[n] \in Working /\ AtWork(n)
  BY <1>1 DEF Acting, Level, Working, RunnerInv, Present
<1>2. DependenciesFirst
  <2> SUFFICES ASSUME NEW n \in Acting, NEW m \in DependsOn[n]
               PROVE  run.nodes[m] \in {"applied", "satisfied"}
                        \/ (m \in Continues /\ run.nodes[m] = "pending")
    BY DEF DependenciesFirst
  <2>1. phase = "level" /\ n \in Level /\ n \in Nodes /\ ~blockedByDependency(n)
    BY <1>1 DEF AtWork
  <2>2. m \in Nodes /\ LevelOf[m] < level
    BY <2>1, BehindLevel
  <2>3. run.nodes[m] \in Outcomes \/ (m \in Continues /\ run.nodes[m] = "pending")
    BY <2>1, <2>2 DEF RunnerInv, Behind
  <2> QED
    BY <2>1, <2>3 DEF blockedByDependency, Outcomes
<1>3. WaitIsBarrier
  <2> SUFFICES ASSUME NEW n \in Acting, NEW w \in Waits, Before(w, n)
               PROVE  run.nodes[w] \in {"satisfied", "skipped"}
    BY DEF WaitIsBarrier
  <2>1. phase = "level" /\ n \in Level /\ n \in Nodes /\ step[n] \in Working /\ w \in Nodes
    BY <1>1, DocumentAssumption
  <2>2. CASE LevelOf[w] < LevelOf[n]
    BY <2>1, <2>2 DEF RunnerInv, Behind, Level, Answered
  <2>3. CASE LevelOf[w] = LevelOf[n] /\ w < n
    <3>1. w \in Level /\ WaitLevel /\ Serial
      BY <2>1, <2>3 DEF Level, WaitLevel, Serial
    <3>2. step[w] = "merged" /\ Fatal = {}
      BY <2>1, <2>3, <3>1 DEF RunnerInv, InOrder, Working
    <3>3. w \notin errs
      BY <3>1, <3>2 DEF Fatal
    <3>4. AtWork(w)
      BY <2>1, <3>1 DEF RunnerInv, Present
    <3> QED
      BY <3>1, <3>2, <3>3, <3>4 DEF AtWork, Status, Returned, Answered
  <2> QED
    BY <2>2, <2>3 DEF Before
<1>4. DownstreamFollows
  BY DEF DownstreamFollows, RunnerInv, Present, AtWork, Status, Returned
<1>5. NothingToDoNothingDone
  BY <1>1, WorkersAreNotCalm DEF NothingToDoNothingDone
<1> QED
  BY <1>2, <1>3, <1>4, <1>5 DEF RunnerConsistent, RunnerInv

\* Whatever the document and the outcomes of its calls: a node acts on settled
\* dependencies only, a wait holds back everything that comes after it, nothing
\* downstream of an applied node is taken for satisfied, and a run with nothing
\* to do does nothing.
THEOREM RunnersAreConsistent == Spec => []RunnerConsistent
<1>1. Init => RunnerInv
  BY RunnerInit
<1>2. RunnerInv /\ [Next]_vars => RunnerInv'
  BY RunnerStep
<1>3. RunnerInv => RunnerConsistent
  BY RunnerIsSound
<1> QED
  BY <1>1, <1>2, <1>3, PTL DEF Spec

----------------------------------------------------------------------------
\* What Records writes is the status it is given, or nothing.
LEMMA RecordsOnly ==
  ASSUME TypeOK, NEW k \in Nodes, NEW s, NEW emit, Records(k, s, emit), NEW n \in Nodes
  PROVE  run'.nodes[n] = run.nodes[n] \/ run'.nodes[n] = s
BY DEF Records, TypeOK, RunState

\* Only a compensation turns an applied node into a compensated one.
LEMMA OnlyCompensated ==
  ASSUME RunnerInv, [Next]_vars, NEW n \in Nodes,
         run.nodes[n] = "applied", run'.nodes[n] = "compensated"
  PROVE  \E result \in {"compensated", "compensation_failed", "unresolved"} :
           compensate(n, result)
<1>1. TypeOK /\ stored.nodes[n] # "compensated"
      /\ (phase = "idle" => stored.nodes[n] = "applied")
  BY DEF RunnerInv, Recorded
<1>2. ASSUME NEW k \in Nodes, Node(k)
      PROVE  \E result \in {"compensated", "compensation_failed", "unresolved"} :
               compensate(n, result)
  <2>0. ASSUME NEW s, NEW emit, s # "compensated"
        PROVE  ~Records(k, s, emit)
    BY <1>1, <2>0, RecordsOnly
  <2>1. ~(StartEnded(k) \/ StartBlocked(k) \/ StartGuarded(k) \/ Reuse(k) \/ StartNode(k)
            \/ StartRefused(k))
    BY <2>0
       DEF StartEnded, StartBlocked, StartGuarded, Reuse, StartNode, StartRefused
  <2>2. ~(ReuseFails(k) \/ ActionUnresolved(k) \/ ActionRetried(k) \/ VerifyRetried(k)
            \/ RecoverUnresolved(k))
    BY DEF ReuseFails, ActionUnresolved, ActionRetried, VerifyRetried, RecoverUnresolved
  <2>3. ~(\E seen \in {"ready", "notReady", "error"} : Preflight(k, seen))
    BY <2>0 DEF Preflight
  <2>4. ~(NoAction(k) \/ ActionFails(k) \/ ActionStopped(k) \/ Verified(k)
            \/ VerifyFails(k) \/ VerifyStopped(k))
    BY <2>0
       DEF NoAction, ActionFails, ActionStopped, Verified, VerifyFails, VerifyStopped
  <2>5. ~ActionDone(k)
    <3>1. ActionDone(k) => run' = run \/ Records(k, "applied", TRUE)
      BY DEF ActionDone
    <3> QED
      BY <2>0, <3>1
  <2>6. ~ReachWait(k)
    <3>1. ReachWait(k) => run'.nodes = [run.nodes EXCEPT ![k] = "waiting"]
      BY DEF ReachWait
    <3> QED
      BY <1>1, <3>1 DEF TypeOK, RunState
  <2>7. ~Merge(k)
    <3>1. Merge(k) => local[k] # "compensated"
      <4> SUFFICES ASSUME Merge(k)
                   PROVE  local[k] # "compensated"
        OBVIOUS
      <4>1. phase = "level" /\ k \in Level /\ step[k] = "done"
        BY DEF Merge
      <4>2. Status(k) = local[k] /\ AtWork(k)
        BY <4>1 DEF RunnerInv, InOrder, Present, Status
      <4> QED
        BY <4>1, <4>2 DEF AtWork, Returned, Outcomes
    <3>2. Merge(k) => run' = [run EXCEPT !.nodes[k] = local[k]]
      BY DEF Merge
    <3> QED
      BY <1>1, <3>1, <3>2 DEF TypeOK, RunState
  <2>8. ~(SweepKeeps(k) \/ SweepRegressed(k) \/ SweepFails(k))
    <3>1. SweepKeeps(k) => run' = run \/ run' = [run EXCEPT !.nodes[k] = "satisfied"]
      BY DEF SweepKeeps
    <3>2. SweepRegressed(k) => run' = run \/ run' = [run EXCEPT !.nodes[k] = "pending"]
      BY DEF SweepRegressed
    <3>3. SweepFails(k) => run' = run
      BY DEF SweepFails, Aborts
    <3> QED
      BY <1>1, <3>1, <3>2, <3>3 DEF TypeOK, RunState
  <2>9. PICK result \in {"compensated", "compensation_failed", "unresolved"} :
          compensate(k, result)
    BY <1>2, <2>1, <2>2, <2>3, <2>4, <2>5, <2>6, <2>7, <2>8 DEF Node
  <2>10. k = n
    <3>1. run' = run \/ run' = [run EXCEPT !.nodes[k] = result]
      BY <2>9 DEF compensate
    <3> QED
      BY <1>1, <3>1 DEF TypeOK, RunState
  <2> QED
    BY <2>9, <2>10
<1>3. ~(LevelFails \/ LevelEnds \/ Completes \/ Exhausted \/ abortRun \/ RunReturns)
  <2>1. LevelFails \/ LevelEnds \/ Exhausted \/ RunReturns => run' = run
    BY DEF LevelFails, LevelEnds, Exhausted, RunReturns, Aborts
  <2>2. Completes \/ abortRun => run'.nodes = run.nodes
    BY <1>1 DEF Completes, abortRun, TypeOK, RunState
  <2> QED
    BY <2>1, <2>2
<1>4. ~(Launch \/ Resume \/ ResumeExpired \/ CancelWaiting \/ Cancel \/ Crash
          \/ \E k \in Validated : Drift(k))
  <2>1. Launch => phase = "idle" /\ run'.nodes = stored.nodes
    BY <1>1 DEF Launch, TypeOK, RunState
  <2>2. CancelWaiting => phase = "idle" /\ run'.nodes = stored.nodes
    BY <1>1 DEF CancelWaiting, TypeOK, RunState
  <2>3. Crash => run'.nodes = stored.nodes
    BY <1>1 DEF Crash, TypeOK, RunState
  <2>4. Resume => run'.nodes = [stored.nodes EXCEPT ![stored.wait.node] = "satisfied"]
    BY DEF Resume
  <2>5. ResumeExpired => run' = [stored EXCEPT !.status = "expired",
                                               !.nodes[stored.wait.node] = "expired"]
    BY DEF ResumeExpired
  <2>6. Cancel \/ (\E k \in Validated : Drift(k)) => run' = run
    BY DEF Cancel, Drift
  <2>7. ~Resume
    BY <1>1, <2>4 DEF TypeOK, RunState
  <2>8. ~ResumeExpired
    <3>1. ResumeExpired => run'.nodes = [stored.nodes EXCEPT ![stored.wait.node] = "expired"]
      BY <1>1, <2>5 DEF TypeOK, RunState
    <3> QED
      BY <1>1, <3>1 DEF TypeOK, RunState
  <2> QED
    BY <1>1, <2>1, <2>2, <2>3, <2>6, <2>7, <2>8
<1>5. run' # run
  OBVIOUS
<1> QED
  BY <1>2, <1>3, <1>4, <1>5 DEF Next, Runner, vars

\* Whatever stopped the run, a node is compensated before what it depends on.
THEOREM CompensationIsReversed == Spec => CompensatedInReverse
<1>1. Init => RunnerInv
  BY RunnerInit
<1>2. RunnerInv /\ [Next]_vars => RunnerInv'
  BY RunnerStep
<1>3. ASSUME RunnerInv, [Next]_vars
      PROVE  [\A n \in Nodes :
                run.nodes[n] = "applied" /\ run'.nodes[n] = "compensated" =>
                  \A m \in ToCompensate : n \notin DependsOn[m]]_vars
  <2> SUFFICES ASSUME NEW n \in Nodes, run.nodes[n] = "applied",
                      run'.nodes[n] = "compensated", NEW m \in ToCompensate
               PROVE  n \notin DependsOn[m]
    OBVIOUS
  <2>1. PICK result \in {"compensated", "compensation_failed", "unresolved"} :
          compensate(n, result)
    BY <1>3, OnlyCompensated
  <2>2. m # n => Before(m, n)
    BY <2>1 DEF compensate
  <2>3. m \in Nodes
    BY DocumentAssumption DEF ToCompensate
  <2>4. LevelOf[m] \in Nat /\ LevelOf[n] \in Nat
    BY <2>3, LevelFacts
  <2>5. n \in DependsOn[m] => LevelOf[n] < LevelOf[m]
    BY <2>3, LevelFacts
  <2> QED
    BY <2>2, <2>4, <2>5 DEF Before
<1> QED
  BY <1>1, <1>2, <1>3, PTL DEF Spec, CompensatedInReverse
=============================================================================
