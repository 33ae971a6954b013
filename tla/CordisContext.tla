--------------------------- MODULE CordisContext ---------------------------
(***************************************************************************)
(* The lifecycle kernel (internal/cordis/context.go) as the agent uses it  *)
(* (internal/hostmcp/provider_service_plugin.go): a generation of a        *)
(* provider is mounted one service at a time, each a plugin with a fiber;  *)
(* the first mount owns the connection that all of them share.  A service  *)
(* is <<generation, number in the manifest>>, the same key as its plugin;  *)
(* the number stands for the capability family.  applyMu lets one plugin   *)
(* apply at a time; disposals take no common lock.  Nothing in the agent   *)
(* registers a listener or a further effect, so fibers have neither.       *)
(***************************************************************************)
EXTENDS ToolCalls, FiniteSets

CONSTANTS FiberGens,      \* generations, each of a provider of its own
          FiberServices,  \* services of a manifest
          FiberNeeds,     \* the families a service depends on
          FiberCallers,   \* runs that mount and unmount
          MaxFibers,      \* bound on nextFiberSeq
          NoFiber
ASSUME FiberAssumption ==
  /\ FiberServices \in Nat \ {0} /\ MaxFibers \in Nat \ {0}
  /\ FiberNeeds \in [1..FiberServices -> SUBSET (1..FiberServices)]
  /\ NoFiber \notin FiberGens \cup FiberCallers

Host == <<NoFiber, 1>>   \* the plugin of the host's own services
PluginKeys == {Host} \cup (FiberGens \X (1..FiberServices))
Fibers == 1..MaxFibers

VARIABLES
  fibers,      \* by sequence number: plugin, state, and the fiber that owns its connection
  plugins,     \* the fibers in the table of plugins
  services,    \* the keys provided
  applyMu,     \* who applies a plugin
  closedConns, \* connections that were closed, by the fiber that owned them
  fcall,       \* the call of a run
  contextDisposal, \* Close has disposed the context: "no", "running" or "done"
  crossed      \* generations on which two calls overlapped, or of which one was displaced

fiberVars == <<fibers, plugins, services, applyMu, closedConns, fcall, contextDisposal, crossed>>
fiberTables == <<fibers, plugins, services, applyMu, closedConns>>

UnusedFiber == [id |-> Host, st |-> "unused", conn |-> 0]
FiberIdle == [pc |-> "idle", gen |-> NoFiber, service |-> 1, fiber |-> 0, ids |-> {}, queue |-> {},
              inject |-> {}, conn |-> 0]
FiberActors == FiberCallers \cup {NoFiber}   \* NoFiber is the goroutine of Close

FiberTypeOK ==
  /\ plugins \subseteq Fibers /\ services \subseteq PluginKeys
  /\ applyMu \in FiberActors /\ closedConns \subseteq Fibers
  /\ \A f \in Fibers : fibers[f].id \in PluginKeys
       /\ fibers[f].st \in {"unused", "applying", "provided", "mounted", "disposing", "disposed"}

\* NewServer has mounted the host's services.
FiberInit ==
  /\ fibers = [f \in Fibers |-> IF f = 1 THEN [id |-> Host, st |-> "mounted", conn |-> 0] ELSE UnusedFiber]
  /\ plugins = {1} /\ services = {Host} /\ applyMu = NoFiber /\ closedConns = {}
  /\ fcall = [c \in FiberActors |-> FiberIdle] /\ contextDisposal = "no" /\ crossed = {}

FiberAt(c, pc) == fcall[c].pc = pc
FiberGoes(c, pc) == fcall' = [fcall EXCEPT ![c].pc = pc]
Busy(g) == \E c \in FiberCallers : ~FiberAt(c, "idle") /\ fcall[c].gen = g
nextFiberSeq(f) == fibers[f].st = "unused" /\ \A h \in Fibers : fibers[h].st = "unused" => f <= h

\* A call of a run about a generation, and the plugins it is to take down.
FiberCall(pc, g, ids) == [FiberIdle EXCEPT !.pc = pc, !.gen = g, !.ids = ids]

FiberBegins(c, g, state) ==
  /\ FiberAt(c, "idle") /\ contextDisposal = "no" /\ Called
  /\ fcall' = [fcall EXCEPT ![c] = state]
  /\ crossed' = crossed \cup {h \in {g} : Busy(h)}
  /\ UNCHANGED <<fiberTables, contextDisposal>>

----------------------------------------------------------------------------
\* Mounting: every service of the manifest in its order, all or nothing.
mountProviderGeneration(c, g) ==
  FiberBegins(c, g, FiberCall("resolve", g, {}))

MountKey(c) == <<fcall[c].gen, fcall[c].service>>

\* Services of the generation that is mounted and of the active ones.
injectableServiceFamilies(g, active, family) ==
  {k \in services : k[2] = family /\ k[1] \in active \cup {g}}

resolveProviderServiceDependencies(c) ==
  /\ FiberAt(c, "resolve")
  /\ \E active \in SUBSET FiberGens :
       LET g == fcall[c].gen
           matches == [n \in FiberNeeds[MountKey(c)[2]] |-> injectableServiceFamilies(g, active, n)] IN
       fcall' = [fcall EXCEPT
         ![c].pc = IF \A n \in DOMAIN matches : Cardinality(matches[n]) = 1 THEN "plugin" ELSE "next",
         ![c].inject = UNION {matches[n] : n \in DOMAIN matches}]
  /\ UNCHANGED <<fiberTables, contextDisposal, crossed, budget>>

\* Plugin up to Apply.  An id in the table or a dependency that is gone by now
\* refuses it, and what the call mounted so far is unmounted again.
Plugin(c) ==
  /\ FiberAt(c, "plugin") /\ applyMu = NoFiber
  /\ IF (\E f \in plugins : fibers[f].id = MountKey(c)) \/ ~(fcall[c].inject \subseteq services)
     THEN FiberGoes(c, "next") /\ UNCHANGED <<fibers, applyMu>>
     ELSE /\ \E f \in Fibers :
               LET conn == IF fcall[c].service = 1 THEN f ELSE fcall[c].conn IN
               /\ nextFiberSeq(f)
               /\ fibers' = [fibers EXCEPT ![f] = [id |-> MountKey(c), st |-> "applying", conn |-> conn]]
               /\ fcall' = [fcall EXCEPT ![c].pc = "apply", ![c].fiber = f, ![c].conn = conn]
          /\ applyMu' = c
  /\ UNCHANGED <<plugins, services, closedConns, contextDisposal, crossed, budget>>

\* Apply provides the service.  That its key is free is a property.
Provide(c) ==
  /\ FiberAt(c, "apply")
  /\ services' = services \cup {MountKey(c)}
  /\ fibers' = [fibers EXCEPT ![fcall[c].fiber].st = "provided"]
  /\ FiberGoes(c, "applied")
  /\ UNCHANGED <<plugins, applyMu, closedConns, contextDisposal, crossed, budget>>

\* The end of Plugin: the fiber has its effect and is in the table.
PluginMounted(c) ==
  /\ FiberAt(c, "applied")
  /\ LET f == fcall[c].fiber IN
     /\ fibers' = [fibers EXCEPT ![f].st = "mounted"] /\ plugins' = plugins \cup {f}
     /\ fcall' = [fcall EXCEPT ![c] =
                    IF fcall[c].service = FiberServices THEN FiberIdle
                    ELSE [fcall[c] EXCEPT !.pc = "resolve", !.ids = @ \cup {f}, !.service = @ + 1]]
  /\ applyMu' = NoFiber
  /\ UNCHANGED <<services, closedConns, contextDisposal, crossed, budget>>

----------------------------------------------------------------------------
\* Mutant of LastMounted: plugins are disposed in the order of mounting.
FirstMounted(S, f) == f \in S /\ \A h \in S : f <= h

\* A list of plugins or fibers is a set: it is made in mount order and worked
\* off from its end.
LastMounted(S, f) == f \in S /\ \A h \in S : h <= f

unmountProviderGeneration(c, g) ==
  FiberBegins(c, g, FiberCall("next", g, {f \in plugins : fibers[f].id[1] = g}))

\* A generation about to be mounted takes a family from every other provider.
\* A displaced generation keeps its other services.
displaceCordisCapabilityFamilies(c, g, family) ==
  LET theirs == {f \in plugins : fibers[f].id[1] \in FiberGens \ {g} /\ fibers[f].id[2] = family
                                 /\ fibers[f].id \in services} IN
  /\ FiberAt(c, "idle") /\ contextDisposal = "no" /\ Called
  /\ fcall' = [fcall EXCEPT ![c] = FiberCall("next", g, theirs)]
  /\ crossed' = crossed \cup {h \in {g} : Busy(h)} \cup {fibers[f].id[1] : f \in theirs}
  /\ UNCHANGED <<fiberTables, contextDisposal>>

\* Context.Dispose, which Close calls when planWG is zero: the fibers of the
\* table in reverse mount order.
DisposeContext ==
  /\ contextDisposal = "no" /\ \A c \in FiberCallers : FiberAt(c, "idle")
  /\ contextDisposal' = "running"
  /\ fcall' = [fcall EXCEPT ![NoFiber] = [FiberIdle EXCEPT !.pc = "next", !.queue = plugins]]
  /\ UNCHANGED <<fiberTables, crossed, budget>>

\* unmountProviderPlugins and DisposePlugin: the last id that is left is looked
\* up; one that is not in the table is skipped.
DisposePlugin(c) ==
  /\ FiberAt(c, "next") /\ fcall[c].queue = {}
  /\ \E f \in Fibers :
       /\ LastMounted(fcall[c].ids, f)
       /\ fcall' = [fcall EXCEPT ![c].ids = @ \ {f}, ![c].queue = {h \in plugins : fibers[h].id = fibers[f].id}]
  /\ UNCHANGED <<fiberTables, contextDisposal, crossed, budget>>

\* fiber.Dispose marks the fiber, or returns at once when it is marked.
Dispose(c) ==
  /\ FiberAt(c, "next")
  /\ \E f \in Fibers :
       /\ LastMounted(fcall[c].queue, f)
       /\ IF fibers[f].st \in {"disposing", "disposed"}
          THEN fcall' = [fcall EXCEPT ![c].queue = @ \ {f}] /\ UNCHANGED fibers
          ELSE /\ fcall' = [fcall EXCEPT ![c].pc = "effects", ![c].fiber = f, ![c].queue = @ \ {f}]
               /\ fibers' = [fibers EXCEPT ![f].st = "disposing"]
  /\ UNCHANGED <<plugins, services, applyMu, closedConns, contextDisposal, crossed, budget>>

\* Its effect: the first mount closes the connection.
DisposeEffects(c) ==
  /\ FiberAt(c, "effects")
  /\ closedConns' = closedConns \cup ({fcall[c].fiber} \cap {fibers[fcall[c].fiber].conn})
  /\ FiberGoes(c, "remove")
  /\ UNCHANGED <<fibers, plugins, services, applyMu, contextDisposal, crossed, budget>>

\* What the last critical section of fiber.Dispose takes out of services.
ReleasedServices(f) == {fibers[f].id}

DisposeRemoves(c) ==
  /\ FiberAt(c, "remove")
  /\ LET f == fcall[c].fiber IN
     /\ services' = services \ ReleasedServices(f) /\ plugins' = plugins \ {f}
     /\ fibers' = [fibers EXCEPT ![f].st = "disposed"]
  /\ FiberGoes(c, "next")
  /\ UNCHANGED <<applyMu, closedConns, contextDisposal, crossed, budget>>

DisposalReturns(c) ==
  /\ FiberAt(c, "next") /\ fcall[c].queue = {} /\ fcall[c].ids = {}
  /\ fcall' = [fcall EXCEPT ![c] = FiberIdle]
  /\ contextDisposal' = IF c = NoFiber THEN "done" ELSE contextDisposal
  /\ UNCHANGED <<fiberTables, crossed, budget>>

FiberNext ==
  \/ DisposeContext
  \/ \E c \in FiberActors :
       \/ DisposePlugin(c) \/ Dispose(c) \/ DisposeEffects(c) \/ DisposeRemoves(c) \/ DisposalReturns(c)
  \/ \E c \in FiberCallers :
       \/ resolveProviderServiceDependencies(c) \/ Plugin(c) \/ Provide(c) \/ PluginMounted(c)
       \/ \E g \in FiberGens :
            \/ mountProviderGeneration(c, g) \/ unmountProviderGeneration(c, g)
            \/ \E family \in 1..FiberServices : displaceCordisCapabilityFamilies(c, g, family)

FiberSpec == FiberInit /\ [][FiberNext]_<<fiberVars, budget>>

----------------------------------------------------------------------------
ProvidedBy == {f \in Fibers : fibers[f].st \in {"provided", "mounted", "disposing"}}

\* What can be resolved and what is in the table belongs to exactly one fiber
\* that is not disposed, however mounts and disposals interleave; so a plugin
\* that is allowed to apply finds its key free, and no old fiber's disposal
\* takes away what a new mount of the same id provides.
OwnedByLiveFiber ==
  /\ services = {fibers[f].id : f \in ProvidedBy}
  /\ \A f, h \in ProvidedBy : fibers[f].id = fibers[h].id => f = h
  /\ \A f \in Fibers : fibers[f].st = "applying" => fibers[f].id \notin services
  /\ plugins = {f \in Fibers : fibers[f].st \in {"mounted", "disposing"}}

\* "The first mount tears down last, after every other service of the
\* generation is already gone": nothing else is provided on a connection that
\* is closed.  Two calls about one generation and the displacement of one of
\* its services are excepted.
ClosedLast ==
  \A f \in ProvidedBy :
    fibers[f].conn \in closedConns /\ fibers[f].conn # f => fibers[f].id[1] \in crossed

\* "A partially mounted generation can never become addressable": when no call
\* works on a generation, all of its services are provided or none is.
GenerationWhole ==
  \A g \in FiberGens \ crossed :
    ~Busy(g) /\ contextDisposal # "running" =>
      {k \in services : k[1] = g} \in {{}, {g} \X (1..FiberServices)}

\* Close leaves nothing mounted and no connection open.
DisposedContextIsEmpty ==
  contextDisposal = "done" =>
    /\ services = {}
    /\ \A f \in Fibers : fibers[f].st # "unused" => fibers[f].st = "disposed"
         /\ (fibers[f].conn = f => f \in closedConns)

\* Mounts, services and connections of the context agree.
FibersConsistent == OwnedByLiveFiber /\ ClosedLast /\ GenerationWhole /\ DisposedContextIsEmpty
=============================================================================
