--------------------------- MODULE PlanReferences ---------------------------
(***************************************************************************)
(* What Validate admits (internal/plan/schema.go, graph.go) against what a *)
(* run of the admitted plan can resolve (interpolate.go, runner.go).  A    *)
(* document is a graph over PlanIds with one interpolation, in one field   *)
(* of the node Consumer; Producer is the node it may name.  References are *)
(* checked one by one, so one says what any number of them would.  Values  *)
(* are left out: only whether a reference finds one.                       *)
(***************************************************************************)
EXTENDS ToolCalls, FiniteSets, Relation

CONSTANTS PlanIds, Consumer, Producer
ASSUME PlanIdsAssumption == Consumer \in PlanIds /\ Producer \in PlanIds /\ IsFiniteSet(PlanIds)

VARIABLES
  planDoc,     \* the document
  planVerdict, \* new, accepted or refused by Validate
  planNodes,   \* todo, or how the node ended: output, observed, answered,
               \* blocked, failed, pending (an error without a status)
  planInput,   \* the fields that looked for their reference, and with what luck
  planStopped  \* an error has ended the run

planVars == <<planDoc, planVerdict, planNodes, planInput, planStopped>>

\* What a node consists of, and the fields that are interpolated in each.
Kinds == {"act", "checked", "probe", "each", "wait"}
FieldsOf(kind) == {"target"} \cup
  CASE kind = "act" -> {"action"}
    [] kind = "checked" -> {"action", "validate", "recover"}
    [] kind = "probe" -> {"validate"}
    [] kind = "each" -> {"action", "source"}
    [] kind = "wait" -> {"correlation", "delta"}
Roots == {"vars", "item", "nodes", "input", "context"}

\* Every graph is tried with the plainest consumer; the other consumers, and
\* the references that name no node, come after their producer.
ProducerFirst == [n \in PlanIds |-> IF n = Consumer THEN {Producer} ELSE {}]
PlanDocs ==
  {d \in [deps : [PlanIds -> SUBSET PlanIds], consumer : Kinds, producer : Kinds,
          field : UNION {FieldsOf(k) : k \in Kinds}, root : Roots,
          whole : BOOLEAN, declared : BOOLEAN, continues : BOOLEAN] :
     /\ d.field \in FieldsOf(d.consumer)
     /\ d.root \notin {"nodes", "context"} => d.deps = ProducerFirst /\ d.producer = "act"
     /\ d.deps # ProducerFirst => /\ d.consumer = "act" /\ d.field = "action"
                                  /\ d.whole /\ d.declared /\ ~d.continues}

PlanTypeOK ==
  /\ planVerdict \in {"new", "accepted", "refused"} /\ planStopped \in BOOLEAN
  /\ planNodes \in [PlanIds -> {"todo", "output", "observed", "answered", "blocked", "failed", "pending"}]
  /\ planInput \subseteq {"found", "missing"}

PlanInit ==
  /\ planDoc \in PlanDocs /\ planVerdict = "new"
  /\ planNodes = [n \in PlanIds |-> "todo"] /\ planInput = {} /\ planStopped = FALSE

KindOf(n) == IF n = Consumer THEN planDoc.consumer
             ELSE IF n = Producer THEN planDoc.producer ELSE "act"

----------------------------------------------------------------------------
\* Levels of the graph: Kahn's algorithm by rounds.
TopologicalLevels(deps) ==
  LET processed[k \in 0..Cardinality(PlanIds)] ==
        IF k = 0 THEN {} ELSE {n \in PlanIds : deps[n] \subseteq processed[k - 1]}
  IN processed

ValidateGraph(deps) == TopologicalLevels(deps)[Cardinality(PlanIds)] = PlanIds

\* Mutant of graphAncestors: whatever an ancestor's ancestor leads to, too.
RelatedNodes(deps, n) ==
  LET linked == [a, b \in PlanIds |-> b \in deps[a] \/ a \in deps[b]]
  IN {m \in PlanIds : TransitiveClosure(linked, PlanIds)[n, m]}

graphAncestors(deps, n) ==
  LET parent == [a, b \in PlanIds |-> b \in deps[a]]
  IN {m \in PlanIds : TransitiveClosure(parent, PlanIds)[n, m]}

\* input and context references have a declared schema or are refused.
referenceSchema(d) ==
  \/ d.root = "input" /\ d.consumer = "wait" /\ d.declared
  \/ /\ d.root = "context" /\ d.declared /\ d.producer = "wait"
     /\ Producer \in graphAncestors(d.deps, Consumer)

validateReference(d) ==
  \/ d.root = "vars" /\ d.declared
  \/ d.root = "item" /\ (d.consumer = "each" \/ d.field = "source")
  \/ d.root = "nodes" /\ Producer \in graphAncestors(d.deps, Consumer)
  \/ referenceSchema(d)

\* The type of a whole reference in the arguments of a tool: the producer
\* must have a tool whose output schema declares it.  Inside a longer text a
\* reference has no type.
walkReferenceTypes(d) ==
  d.whole /\ d.field \in {"action", "validate", "recover"} =>
    CASE d.root = "nodes" -> d.producer # "wait" /\ d.declared
      [] d.root \in {"input", "context"} -> referenceSchema(d)
      [] OTHER -> TRUE

\* A context delta is a whole reference to the answer of its own wait.
validateWaitSpec(d) == d.field = "delta" => d.whole /\ d.root = "input"

Validate ==
  /\ planVerdict = "new" /\ UNCHANGED <<planDoc, planNodes, planInput, planStopped, budget>>
  /\ planVerdict' = IF /\ ValidateGraph(planDoc.deps) /\ validateWaitSpec(planDoc)
                       /\ validateReference(planDoc) /\ walkReferenceTypes(planDoc)
                    THEN "accepted" ELSE "refused"

----------------------------------------------------------------------------
\* A node has its turn with its level, when the levels below have ended.
Turn(n) ==
  /\ planVerdict = "accepted" /\ ~planStopped /\ planNodes[n] = "todo"
  /\ \E k \in 1..Cardinality(PlanIds) :
       /\ n \in TopologicalLevels(planDoc.deps)[k]
       /\ \A m \in TopologicalLevels(planDoc.deps)[k - 1] : planNodes[m] # "todo"

blockedByDependency(n) == \E m \in planDoc.deps[n] : planNodes[m] \in {"failed", "blocked"}

\* A node that ends with an error stops the run unless it continues.
EndsNode(n, how) ==
  /\ planNodes' = [planNodes EXCEPT ![n] = how]
  /\ planStopped' = (how \in {"failed", "pending"} /\ ~planDoc.continues)

Blocked(n) ==
  /\ Turn(n) /\ blockedByDependency(n) /\ EndsNode(n, "blocked")
  /\ UNCHANGED <<planDoc, planVerdict, planInput, budget>>

\* What the field's context offers: only the calls of a forEach have an item,
\* only the delta of a wait an input.
resolveReference(d) ==
  CASE d.root = "vars" -> d.declared
    [] d.root = "item" -> d.consumer = "each" /\ d.field = "action"
    [] d.root = "input" -> d.field = "delta"
    [] d.root = "context" -> planNodes[Producer] = "answered"
    [] d.root = "nodes" -> planNodes[Producer] \in {"output", "observed"}

\* The results a node of each kind can have; a forEach collects a list, a
\* preflight or a probe leaves what it observed.
Results(kind) ==
  CASE kind = "act" -> {"output", "failed", "pending"}
    [] kind = "checked" -> {"output", "observed", "failed", "pending"}
    [] kind = "probe" -> {"observed", "failed"}
    [] kind = "each" -> {"output", "failed"}
    [] kind = "wait" -> {"answered", "failed"}

runNode(n) ==
  /\ Turn(n) /\ ~blockedByDependency(n) /\ n # Consumer
  /\ \E how \in Results(KindOf(n)) : EndsNode(n, how)
  /\ UNCHANGED <<planDoc, planVerdict, planInput, budget>>

\* A reference that is not found fails the node; in the action's arguments it
\* leaves the node without a status.
interpolateValue(n) ==
  /\ Turn(n) /\ ~blockedByDependency(n) /\ n = Consumer
  /\ IF resolveReference(planDoc)
     THEN planInput' = {"found"} /\ \E how \in Results(KindOf(n)) : EndsNode(n, how)
     ELSE planInput' = {"missing"}
            /\ EndsNode(n, IF planDoc.field = "action" /\ KindOf(n) # "each" THEN "pending" ELSE "failed")
  /\ UNCHANGED <<planDoc, planVerdict, budget>>

PlanNext == Validate \/ \E n \in PlanIds : Blocked(n) \/ runNode(n) \/ interpolateValue(n)

----------------------------------------------------------------------------
\* A node of an accepted plan looks for its reference only after the node it
\* names has had its turn and has not failed: the ancestors that Validate
\* computes from the graph and the levels that the runner computes from it
\* agree, whatever the shape of the graph.
ReferencedHasRun ==
  planInput # {} /\ planDoc.root \in {"nodes", "context"} =>
    planNodes[Producer] \in {"output", "observed", "answered", "pending"}

\* An accepted plan never gets stuck: while a node is left, one has its turn.
AcceptedPlanProceeds ==
  planVerdict = "accepted" /\ ~planStopped =>
    (\A n \in PlanIds : planNodes[n] # "todo") \/ (\E n \in PlanIds : Turn(n))

\* Admission and execution agree on an accepted plan: it never gets stuck, and
\* what a node refers to has run.
AcceptedPlanRuns == AcceptedPlanProceeds /\ ReferencedHasRun
=============================================================================
