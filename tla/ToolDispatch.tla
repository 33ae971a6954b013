---------------------------- MODULE ToolDispatch ----------------------------
(***************************************************************************)
(* The tool surface of the agent (internal/hostmcp/server.go) and a call   *)
(* through it: how the operations of a provider get into the registry, the *)
(* catalog, the capability map and the MCP tools while several recipe runs *)
(* publish and retire, and how a call is admitted, looked up, invoked and  *)
(* called back by the provider under a resource delegation.  A block under *)
(* a mutex is one step.  A provider has one operation, and a revision of   *)
(* the catalog is its contents.                                            *)
(***************************************************************************)
EXTENDS ToolCalls, Integers, FiniteSets

CONSTANTS CatalogOps,     \* operations of providers
          SharedFamily,   \* those of them in one capability family
          CatalogGens,    \* generations, numbered from 1
          Publishers,     \* recipe runs that publish or retire
          DispatchCalls, Callbacks, NoTool,
          CostLimit       \* the largest integer of an int64
ASSUME DispatchAssumption ==
  /\ CatalogGens \subseteq Nat \ {0} /\ SharedFamily \subseteq CatalogOps
  /\ NoTool \notin CatalogOps /\ CostLimit \in Nat

VARIABLES
  overlays,      \* Registry.overlays: the generation of an operation, or 0
  catalog,       \* Server.catalog, a snapshot of the registry
  capabilities,  \* Server.capabilities: a generation, 0, or Legacy
  listed,        \* the tools of the MCP server
  toolNames,     \* registeredToolNames
  pub,           \* a publisher and its local variables
  dcall,         \* a call and its local variables
  callTask,      \* the task of a call is working
  heldCost,      \* the stored reservation of a call: what it counts, or 0
  delegations,   \* resourceDelegations
  callback       \* a call of a provider back to the agent

surfaceVars == <<overlays, catalog, capabilities, listed, toolNames>>
dispatchVars == <<surfaceVars, pub, dcall, callTask, heldCost, delegations, callback>>

Legacy == -1
Empty == [o \in CatalogOps |-> 0]
IdlePublisher == [pc |-> "idle", op |-> NoTool, gen |-> 0, displaced |-> {}, snap |-> Empty,
                  names |-> {}, todo |-> {}]
IdleCall == [pc |-> "idle", op |-> NoTool, token |-> FALSE]
IdleCallback == [pc |-> "idle", call |-> NoTool, async |-> FALSE]

DispatchTypeOK ==
  /\ overlays \in [CatalogOps -> {0} \cup CatalogGens] /\ catalog \in [CatalogOps -> {0} \cup CatalogGens]
  /\ capabilities \in [CatalogOps -> {0, Legacy} \cup CatalogGens]
  /\ listed \subseteq CatalogOps /\ toolNames \subseteq CatalogOps
  /\ heldCost \in [DispatchCalls -> Int] /\ delegations \subseteq DispatchCalls

\* NewServer: the registry has no overlay yet.
DispatchInit ==
  /\ overlays = Empty /\ catalog = Empty /\ capabilities = Empty
  /\ listed = {} /\ toolNames = {}
  /\ pub = [p \in Publishers |-> IdlePublisher]
  /\ dcall = [c \in DispatchCalls |-> IdleCall]
  /\ callTask = [c \in DispatchCalls |-> FALSE]
  /\ heldCost = [c \in DispatchCalls |-> 0]
  /\ delegations = {}
  /\ callback = [b \in Callbacks |-> IdleCallback]

----------------------------------------------------------------------------
\* Publishing.

PubAt(p, pc) == pub[p].pc = pc
PubGoes(p, pc) == pub' = [pub EXCEPT ![p].pc = pc]
callVars == <<dcall, callTask, heldCost, delegations, callback>>

Rivals(op) == IF op \in SharedFamily THEN SharedFamily \ {op} ELSE {}

\* registerProviderServicesForGeneration: the provider is authorised and the
\* operations of others in its families leave the registry.
RegisterBegins(p, op, gen) ==
  LET displaced == {o \in Rivals(op) : overlays[o] # 0} IN
  /\ PubAt(p, "idle") /\ Called
  /\ overlays' = [o \in CatalogOps |-> IF o \in displaced THEN 0 ELSE overlays[o]]
  /\ pub' = [pub EXCEPT ![p] = [IdlePublisher EXCEPT
                !.pc = "replace", !.op = op, !.gen = gen, !.displaced = displaced]]
  /\ UNCHANGED <<catalog, capabilities, listed, toolNames, callVars>>

\* Registry.ReplaceGeneration; a descriptor that is not valid is refused.
ReplacesOverlay(p) ==
  /\ PubAt(p, "replace")
  /\ \/ overlays' = [overlays EXCEPT ![pub[p].op] = pub[p].gen] /\ PubGoes(p, "snapshot") /\ UNCHANGED budget
     \/ Trouble /\ pub' = [pub EXCEPT ![p] = IdlePublisher] /\ UNCHANGED overlays
  /\ UNCHANGED <<catalog, capabilities, listed, toolNames, callVars>>

\* The snapshot is taken before the catalog's mutex is.
SnapshotsRegistry(p) ==
  /\ PubAt(p, "snapshot")
  /\ pub' = [pub EXCEPT ![p].pc = "catalog", ![p].snap = overlays]
  /\ UNCHANGED <<surfaceVars, callVars, budget>>

SetsCatalog(p) ==
  /\ PubAt(p, "catalog") /\ catalog' = pub[p].snap
  /\ capabilities' = [o \in CatalogOps |->
       IF o = pub[p].op THEN pub[p].gen ELSE IF o \in pub[p].displaced THEN 0 ELSE capabilities[o]]
  /\ PubGoes(p, "refresh")
  /\ UNCHANGED <<overlays, listed, toolNames, callVars, budget>>

\* retireProviderCapabilities goes by the catalog, under its mutex.
retireProviderCapabilities(p, op) ==
  LET found == catalog[op] # 0 /\ overlays[op] # 0 IN
  /\ PubAt(p, "idle") /\ Called
  /\ overlays' = IF found THEN [overlays EXCEPT ![op] = 0] ELSE overlays
  /\ capabilities' = IF found THEN [capabilities EXCEPT ![op] = 0] ELSE capabilities
  /\ catalog' = overlays'
  /\ pub' = IF found THEN [pub EXCEPT ![p] = [IdlePublisher EXCEPT !.pc = "refresh", !.op = op]] ELSE pub
  /\ UNCHANGED <<listed, toolNames, callVars>>

\* Mutant of RefreshBegins: the table is emptied before the names are taken.
LeavesNames(p) ==
  /\ PubAt(p, "refresh") /\ pub' = [pub EXCEPT ![p].pc = "remove", ![p].names = {}]
  /\ toolNames' = {}

\* refreshMCPTools takes the names there are.
RefreshBegins(p) ==
  /\ PubAt(p, "refresh") /\ pub' = [pub EXCEPT ![p].pc = "remove", ![p].names = toolNames]
  /\ toolNames' = {}

Refreshes(p) == RefreshBegins(p) /\ UNCHANGED <<overlays, catalog, capabilities, listed, callVars, budget>>

\* RemoveTools, then registerTools starts from a new snapshot of the catalog.
RemovesTools(p) ==
  /\ PubAt(p, "remove") /\ listed' = listed \ pub[p].names
  /\ PubGoes(p, "register")
  /\ UNCHANGED <<overlays, catalog, capabilities, toolNames, callVars, budget>>

registerTools(p) ==
  /\ PubAt(p, "register")
  /\ pub' = [pub EXCEPT ![p].pc = "ensure", ![p].todo = {o \in CatalogOps : catalog[o] # 0}]
  /\ UNCHANGED <<surfaceVars, callVars, budget>>

\* ensureLegacyCapabilityForDescriptor: a tool without a capability gets one
\* that dispatches by name, which knows no operation of a provider.
EnsuresCapability(p) ==
  /\ PubAt(p, "ensure") /\ pub[p].todo # {}
  /\ \E o \in pub[p].todo :
       /\ capabilities' = [capabilities EXCEPT ![o] = IF @ = 0 THEN Legacy ELSE @]
       /\ pub' = [pub EXCEPT ![p].pc = "add", ![p].op = o]
  /\ UNCHANGED <<overlays, catalog, listed, toolNames, callVars, budget>>

\* addRegisteredCapability: the tool first, then its name.
AddsTool(p) ==
  /\ PubAt(p, "add") /\ listed' = listed \cup {pub[p].op} /\ PubGoes(p, "name")
  /\ UNCHANGED <<overlays, catalog, capabilities, toolNames, callVars, budget>>

NamesTool(p) ==
  /\ PubAt(p, "name") /\ toolNames' = toolNames \cup {pub[p].op}
  /\ pub' = [pub EXCEPT ![p].pc = "ensure", ![p].todo = @ \ {pub[p].op}]
  /\ UNCHANGED <<overlays, catalog, capabilities, listed, callVars, budget>>

RefreshEnds(p) ==
  /\ PubAt(p, "ensure") /\ pub[p].todo = {}
  /\ pub' = [pub EXCEPT ![p] = IdlePublisher]
  /\ UNCHANGED <<surfaceVars, callVars, budget>>

Publish(p) ==
  \/ \E op \in CatalogOps : retireProviderCapabilities(p, op) \/ \E gen \in CatalogGens : RegisterBegins(p, op, gen)
  \/ ReplacesOverlay(p) \/ SnapshotsRegistry(p) \/ SetsCatalog(p) \/ Refreshes(p) \/ RemovesTools(p)
  \/ registerTools(p) \/ EnsuresCapability(p) \/ AddsTool(p) \/ NamesTool(p) \/ RefreshEnds(p)

----------------------------------------------------------------------------
\* A call of a provider's operation, which runs as a task.

CallAt(c, pc) == dcall[c].pc = pc
CallGoes(c, pc) == dcall' = [dcall EXCEPT ![c].pc = pc]

\* handleToolCall: a listed tool whose descriptor says bridged gets a task;
\* a stale revision, or a tool the catalog does not have, ends the call.
handleToolCall(c, op) ==
  /\ CallAt(c, "idle") /\ op \in listed /\ catalog[op] # 0 /\ Called
  /\ dcall' = [dcall EXCEPT ![c] = [IdleCall EXCEPT !.pc = "admit", !.op = op]]
  /\ callTask' = [callTask EXCEPT ![c] = TRUE]
  /\ UNCHANGED <<surfaceVars, pub, heldCost, delegations, callback>>

\* The quantity an argument asks for: none given, or a number.
Arguments == {<<>>} \cup {<<n>> : n \in 0..CostLimit + 1}
StaticCost == 1

\* The conversion of a float to int64 on the build's machines.
int64(n) == IF n > CostLimit THEN n - 2 * (CostLimit + 1) ELSE n

\* ResolveArgumentCost: the limit is compared as a float, which is one above
\* the largest integer; 0 stands for a quantity that is refused.
ResolveArgumentCost(argument) ==
  IF argument = <<>> THEN StaticCost
  ELSE IF argument[1] > CostLimit + 1 THEN 0 ELSE int64(argument[1])

validateAdmissionRequest(cost) == cost >= 0

\* DispatchTool: the binding and the cost come from the catalog at this
\* moment; an operation that is not in it, or a cost that is refused, ends
\* the call before anything is reserved.
admitInvocation(c) ==
  /\ CallAt(c, "admit")
  /\ \/ /\ catalog[dcall[c].op] # 0
        /\ \E argument \in Arguments :
             LET cost == ResolveArgumentCost(argument) IN
             IF cost # 0 /\ validateAdmissionRequest(cost)
             THEN heldCost' = [heldCost EXCEPT ![c] = cost] /\ CallGoes(c, "lookup")
             ELSE CallGoes(c, "finish") /\ UNCHANGED heldCost
     \/ catalog[dcall[c].op] = 0 /\ CallGoes(c, "finish") /\ UNCHANGED heldCost
  /\ UNCHANGED <<surfaceVars, pub, callTask, delegations, callback, budget>>

\* dispatchRegisteredOrBuiltIn: no capability, or a legacy one, is an error.
dispatchRegisteredOrBuiltIn(c) ==
  /\ CallAt(c, "lookup")
  /\ CallGoes(c, IF capabilities[dcall[c].op] \in CatalogGens THEN "delegate" ELSE "release")
  /\ UNCHANGED <<surfaceVars, pub, callTask, heldCost, delegations, callback, budget>>

\* The provider gets a token for the reservation while the task is working.
withProviderResourceDelegation(c) ==
  /\ CallAt(c, "delegate")
  /\ IF callTask[c]
       THEN delegations' = delegations \cup {c} /\ dcall' = [dcall EXCEPT ![c].pc = "session", ![c].token = TRUE]
       ELSE UNCHANGED delegations /\ CallGoes(c, "release")
  /\ UNCHANGED <<surfaceVars, pub, callTask, heldCost, callback, budget>>

\* The generation of the capability is the active one, or the call is refused.
OpensSession(c) ==
  /\ CallAt(c, "session")
  /\ CallGoes(c, "serving") \/ CallGoes(c, "undelegate")
  /\ UNCHANGED <<surfaceVars, pub, callTask, heldCost, delegations, callback, budget>>

\* The provider answers, whether or not its callbacks have.
ProviderAnswers(c) ==
  /\ CallAt(c, "serving") /\ CallGoes(c, "undelegate")
  /\ UNCHANGED <<surfaceVars, pub, callTask, heldCost, delegations, callback, budget>>

EndsDelegation(c) ==
  /\ CallAt(c, "undelegate") /\ delegations' = delegations \ {c} /\ CallGoes(c, "release")
  /\ UNCHANGED <<surfaceVars, pub, callTask, heldCost, callback, budget>>

ReleasesCall(c) ==
  /\ CallAt(c, "release") /\ heldCost' = [heldCost EXCEPT ![c] = 0] /\ CallGoes(c, "finish")
  /\ UNCHANGED <<surfaceVars, pub, callTask, delegations, callback, budget>>

FinishesTask(c) ==
  /\ CallAt(c, "finish") /\ callTask' = [callTask EXCEPT ![c] = FALSE] /\ CallGoes(c, "over")
  /\ UNCHANGED <<surfaceVars, pub, heldCost, delegations, callback, budget>>

\* The task is cancelled, or its reservation reaches its time to live, while
\* the provider works.
CancelsTask(c) ==
  /\ callTask[c] /\ Trouble /\ callTask' = [callTask EXCEPT ![c] = FALSE]
  /\ UNCHANGED <<surfaceVars, pub, dcall, heldCost, delegations, callback>>

ReservationLapses(c) ==
  /\ heldCost[c] # 0 /\ Trouble /\ heldCost' = [heldCost EXCEPT ![c] = 0]
  /\ UNCHANGED <<surfaceVars, pub, dcall, callTask, delegations, callback>>

----------------------------------------------------------------------------
\* A callback carries the token of the call, at once or much later.

BackAt(b, pc) == callback[b].pc = pc
BackGoes(b, pc) == callback' = [callback EXCEPT ![b].pc = pc]
backKeeps == <<surfaceVars, pub, dcall, callTask, heldCost, delegations>>

CallsBack(b, c, async) ==
  /\ BackAt(b, "idle") /\ dcall[c].token /\ Called
  /\ callback' = [callback EXCEPT ![b] = [pc |-> "verify", call |-> c, async |-> async]]
  /\ UNCHANGED backKeeps

verifyResourceDelegation(b) ==
  /\ BackAt(b, "verify")
  /\ BackGoes(b, IF callback[b].call \in delegations THEN "working" ELSE "over")
  /\ UNCHANGED <<backKeeps, budget>>

contextForProviderCallback(b) ==
  /\ BackAt(b, "working")
  /\ BackGoes(b, IF ~callTask[callback[b].call] THEN "over"
                 ELSE IF callback[b].async THEN "owner" ELSE "admit")
  /\ UNCHANGED <<backKeeps, budget>>

\* A tool that runs as a task: the owner is checked again, and the child task
\* keeps the parent's reservation in its context.
providerCallbackTaskOwnerFromContext(b) ==
  /\ BackAt(b, "owner")
  /\ BackGoes(b, IF callTask[callback[b].call] THEN "admit" ELSE "over")
  /\ UNCHANGED <<backKeeps, budget>>

\* Mutant of validateParentReservation: the reservation in the context is enough.
TrustsContext(b) == TRUE

\* The parent's stored record must still be there and be its owner's.
validateParentReservation(b) == heldCost[callback[b].call] # 0

\* Admit inherits the reservation of the parent or refuses.
InheritsReservation(b) ==
  /\ BackAt(b, "admit")
  /\ BackGoes(b, IF validateParentReservation(b) THEN "running" ELSE "over")
  /\ UNCHANGED <<backKeeps, budget>>

CallbackEnds(b) ==
  /\ BackAt(b, "running") /\ BackGoes(b, "over") /\ UNCHANGED <<backKeeps, budget>>

Dispatch(c) ==
  \/ \E op \in CatalogOps : handleToolCall(c, op)
  \/ admitInvocation(c) \/ dispatchRegisteredOrBuiltIn(c) \/ withProviderResourceDelegation(c)
  \/ OpensSession(c) \/ ProviderAnswers(c) \/ EndsDelegation(c) \/ ReleasesCall(c) \/ FinishesTask(c)
  \/ CancelsTask(c) \/ ReservationLapses(c)

CallBack(b) ==
  \/ \E c \in DispatchCalls, async \in BOOLEAN : CallsBack(b, c, async)
  \/ verifyResourceDelegation(b) \/ contextForProviderCallback(b) \/ providerCallbackTaskOwnerFromContext(b)
  \/ InheritsReservation(b) \/ CallbackEnds(b)

DispatchNext ==
  \/ \E p \in Publishers : Publish(p)
  \/ \E c \in DispatchCalls : Dispatch(c)
  \/ \E b \in Callbacks : CallBack(b)

DispatchSpec == DispatchInit /\ [][DispatchNext]_dispatchVars

----------------------------------------------------------------------------
\* Whatever publishers did at the same time, once they are done every tool of
\* the MCP server is in the table of names, so the next refresh removes it and
\* an operation that was retired does not stay listed for good
\* (refreshMCPTools, addRegisteredCapability).
ListedIsTracked ==
  (\A p \in Publishers : PubAt(p, "idle")) => listed \subseteq toolNames

\* A callback starts to work only while the call that it belongs to is still
\* being served: never once the call has released what it reserved and gone on
\* to finish its task, however late the callback comes and although its token
\* and its task were checked before that (contextForProviderCallback, Admit,
\* DispatchTool's release).  It may go on working after that.
Served == {"session", "serving", "undelegate", "release"}
CallbacksStartInCall ==
  [][\A b \in Callbacks : ~BackAt(b, "running") /\ BackAt(b, "running")' =>
       dcall[callback[b].call].pc \in Served]_dispatchVars

\* What a call holds counts against the host: no argument, at the end of the
\* integers either, gives a reservation that frees capacity.
HeldCostCounts == \A c \in DispatchCalls : heldCost[c] >= 0

\* The surface names every tool it lists, and calls hold real capacity.
DispatchConsistent == ListedIsTracked /\ HeldCostCounts
=============================================================================
