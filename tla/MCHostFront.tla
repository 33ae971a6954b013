---------------------------- MODULE MCHostFront ----------------------------
(***************************************************************************)
(* What stands between a client and the tools: authorization, the HTTP     *)
(* transport, the catalog with its dispatch, the admission permits, the    *)
(* streams, the admission of plan documents, and the context that mounts   *)
(* provider services.  The parts share no state, so a behaviour is about   *)
(* one of them, chosen at first, with the calls and troubles its own cases *)
(* need; the others rest in one of their initial states.                   *)
(***************************************************************************)
EXTENDS AccessTokens, McpTransport, ToolDispatch, AdmissionPermits, HostStreams, PlanReferences, CordisContext, TLC

CONSTANTS a1, a2, b1, b2, c1, c2, c3
Callers == {a1, a2}
Pairs == {b1, b2}
Triples == {c1, c2, c3}
Symmetric == Permutations(Callers) \cup Permutations(Pairs) \cup Permutations(Triples)

CallsIn == [access |-> 3, transport |-> 0, dispatch |-> 3, permits |-> 5, console |-> 5,
            connectors |-> 5, plan |-> 0, fibers |-> 4]
SecondNeedsFirst == <<{}, {1}>>
VARIABLE domain
Rests(d, state) == domain # d => state

OnePermit == [agent |-> CHOOSE a \in PermitAgents : TRUE, class |-> "normal"]
OneDoc == [deps |-> ProducerFirst, consumer |-> "act", producer |-> "act", field |-> "action",
           root |-> "vars", whole |-> TRUE, declared |-> TRUE, continues |-> FALSE]

Init ==
  /\ domain \in DOMAIN CallsIn /\ calls = MaxCalls - CallsIn[domain]
  /\ troubles = MaxTroubles - (IF domain = "permits" THEN 2 ELSE 1)
  /\ AccessInit /\ Rests("access", ~authClients[OputeClient].secret)
  /\ TransportInit /\ Rests("transport", legacyAllowed /\ toolPrefixed)
  /\ DispatchInit
  /\ PermitInit /\ Rests("permits", permitOf = [r \in PermitRequests |-> OnePermit])
  /\ ConsoleInit /\ RelayInit
  /\ planDoc \in IF domain = "plan" THEN PlanDocs ELSE {OneDoc}
  /\ planVerdict = "new" /\ planNodes = [n \in PlanIds |-> "todo"]
  /\ planInput = {} /\ planStopped = FALSE
  /\ FiberInit

Next ==
  \/ /\ domain = "access" /\ AccessNext
     /\ UNCHANGED <<domain, transportVars, dispatchVars, permitVars, consoleVars, relayVars, planVars, fiberVars>>
  \/ /\ domain = "transport" /\ TransportNext /\ UNCHANGED budget
     /\ UNCHANGED <<domain, accessVars, dispatchVars, permitVars, consoleVars, relayVars, planVars, fiberVars>>
  \/ /\ domain = "dispatch" /\ DispatchNext
     /\ UNCHANGED <<domain, accessVars, transportVars, permitVars, consoleVars, relayVars, planVars, fiberVars>>
  \/ /\ domain = "permits" /\ PermitNext
     /\ UNCHANGED <<domain, accessVars, transportVars, dispatchVars, consoleVars, relayVars, planVars, fiberVars>>
  \/ /\ domain = "console" /\ ConsoleNext
     /\ UNCHANGED <<domain, accessVars, transportVars, dispatchVars, permitVars, relayVars, planVars, fiberVars>>
  \/ /\ domain = "connectors" /\ RelayNext
     /\ UNCHANGED <<domain, accessVars, transportVars, dispatchVars, permitVars, consoleVars, planVars, fiberVars>>
  \/ /\ domain = "plan" /\ PlanNext
     /\ UNCHANGED <<domain, accessVars, transportVars, dispatchVars, permitVars, consoleVars, relayVars, fiberVars>>
  \/ /\ domain = "fibers" /\ FiberNext
     /\ UNCHANGED <<domain, accessVars, transportVars, dispatchVars, permitVars, consoleVars, relayVars, planVars>>

vars == <<budget, domain, accessVars, transportVars, dispatchVars, permitVars, consoleVars, relayVars, planVars, fiberVars>>
Spec == Init /\ [][Next]_vars
=============================================================================
