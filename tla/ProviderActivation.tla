------------------------- MODULE ProviderActivation -------------------------
(***************************************************************************)
(* How a provider comes into service and leaves it (internal/hostmcp):     *)
(* install, the recipe run that activates the candidate, rollback, the     *)
(* teardown run, and what a restart rebuilds from the stored rows.  The    *)
(* generation manager is the module ProviderGenerations, whose actions are *)
(* taken here together with the other state they belong to: the stored     *)
(* rows, the Cordis mounts, the provider adapters and the catalog overlay. *)
(*                                                                         *)
(* A manifest is the sequence of capability families its services belong   *)
(* to, one service per family.  A run is one executor of a durable plan    *)
(* with provider metadata; it has no lock in common with another run.      *)
(* Publication is one step here, its interleavings are in ToolDispatch.    *)
(* Stopping the agent (Crash) is possible between any two steps.           *)
(***************************************************************************)
EXTENDS ProviderGenerations, Sequences

CONSTANTS Families,
          Services,      \* the manifest: the families of a provider, in order
          Runs,
          RunProvider,   \* the providers a run may be about
          MaxTroubles    \* bound on restarts and refused writes of the store

ASSUME ServicesAssumption ==
  Services \in [Providers -> Seq(Families)] /\ \A p \in Providers : Services[p] # <<>>
ASSUME TroublesAssumption == MaxTroubles \in Nat

VARIABLES
  row,         \* provider_generations: the stored status of a generation
  mounted,     \* the families of a generation that are mounted in Cordis
  adapter,     \* its connection
  candidates,  \* providerCandidates and providerCandidateManifests
  overlay,     \* the published operations of a provider and their generation
  manifests,   \* the providers in providerManifests
  unit,        \* the host service that runs the provider
  run,         \* the place of a run in its handler, and its local variables
  troubles

world == <<row, mounted, adapter, candidates, overlay, manifests, unit>>
allVars == <<vars, world, run, troubles>>

families(p) == {Services[p][i] : i \in DOMAIN Services[p]}
Unpublished == [generation |-> None, families |-> {}]
Labels == {"idle", "recipe", "activating", "ready", "admission", "published",
           "switched", "drained", "saved", "displaced", "mounted", "rollback",
           "rolled", "stuck", "failing", "cleaned", "teardown", "cleanup",
           "drain", "stopped", "retire", "tornDown"}
Idle == [pc |-> "idle", gen |-> None, prev |-> None, known |-> FALSE,
         replay |-> FALSE, forced |-> FALSE]

ActivationTypeOK ==
  /\ TypeOK
  /\ row \in [GenerationIds -> States \cup {"absent"}]
  /\ mounted \in [GenerationIds -> SUBSET Families]
  /\ adapter \in [GenerationIds -> {"none", "open", "closed"}]
  /\ candidates \subseteq GenerationIds
  /\ overlay \in [Providers -> [generation : GenerationIds \cup {None},
                                families : SUBSET Families]]
  /\ manifests \subseteq Providers
  /\ unit \in [Providers -> {"up", "disabled", "removed", "down"}]
  /\ run \in [Runs -> [pc : Labels, gen : GenerationIds \cup {None},
                        prev : GenerationIds \cup {None},
                        known : BOOLEAN, replay : BOOLEAN, forced : BOOLEAN]]

ActivationInit ==
  /\ Init
  /\ row = [g \in GenerationIds |-> "absent"]
  /\ mounted = [g \in GenerationIds |-> {}]
  /\ adapter = [g \in GenerationIds |-> "none"]
  /\ candidates = {}
  /\ overlay = [p \in Providers |-> Unpublished]
  /\ manifests = {}
  /\ unit = [p \in Providers |-> "up"]
  /\ run = [r \in Runs |-> Idle]
  /\ troubles = 0

\* A run that ends forgets its generation, its predecessor, whether the
\* provider had a manifest (known), and whether it was replayed.
Goto(r, label) ==
  run' = [run EXCEPT ![r] = IF label = "idle" THEN Idle ELSE [@ EXCEPT !.pc = label]]
Begin(r, label, g, again) ==
  run' = [run EXCEPT ![r] = [Idle EXCEPT !.pc = label, !.gen = g, !.replay = again]]
Saved(g, s) == row' = [row EXCEPT ![g] = s] /\ UNCHANGED troubles
StoreFails == troubles < MaxTroubles /\ troubles' = troubles + 1 /\ UNCHANGED row

----------------------------------------------------------------------------
\* Mounts, connections and the catalog.

\* Disposing the plugins of g in the families fs.  The plugin of the first
\* service owns the connection and closes it.
Unmounted(m, g, fs) == [m EXCEPT ![g] = @ \ fs]
Disconnected(a, m, g, fs) ==
  IF Head(Services[provider(g)]) \in m[g] \cap fs
  THEN [a EXCEPT ![g] = "closed"] ELSE a
unmountProviderGeneration(g) ==
  /\ mounted' = Unmounted(mounted, g, Families)
  /\ adapter' = Disconnected(adapter, mounted, g, Families)

\* The plugins of other providers in the families of p are disposed.
displaceCordisCapabilityFamilies(p) ==
  /\ mounted' = [g \in GenerationIds |->
                   IF provider(g) = p THEN mounted[g] ELSE mounted[g] \ families(p)]
  /\ adapter' = [g \in GenerationIds |->
                   IF provider(g) = p THEN adapter[g]
                   ELSE Disconnected(adapter, mounted, g, families(p))[g]]

\* The overlay entries of other providers in the families of p.
DisplaceCapabilityFamilies(o, p) ==
  [q \in Providers |-> IF q = p THEN o[q] ELSE [o[q] EXCEPT !.families = @ \ families(p)]]

\* A generation replaces whatever its provider had published.
ReplaceGeneration(o, g) ==
  [o EXCEPT ![provider(g)] = [generation |-> g, families |-> families(provider(g))]]

registerProviderServicesForGeneration(g) ==
  /\ overlay' = ReplaceGeneration(DisplaceCapabilityFamilies(overlay, provider(g)), g)
  /\ manifests' = manifests \cup {provider(g)}

\* retireProviderCapabilities; g is None when every generation is meant.
retireProviderCapabilities(p, g) ==
  /\ overlay' = IF g \in {None, overlay[p].generation}
                THEN [overlay EXCEPT ![p] = Unpublished] ELSE overlay
  /\ manifests' = manifests \ {p}

\* The catalog after a failed activation.  o is the overlay the failure left,
\* had whether the provider had a manifest before, and act the active map
\* at that moment.
restoreProviderManifest(o, p, had, act) ==
  IF ~had THEN overlay' = [o EXCEPT ![p] = Unpublished] /\ manifests' = manifests \ {p}
  ELSE IF act[p] = None THEN overlay' = o /\ UNCHANGED manifests
  ELSE /\ overlay' = ReplaceGeneration(DisplaceCapabilityFamilies(o, p), act[p])
       /\ manifests' = manifests \cup {p}

----------------------------------------------------------------------------
\* Install.

\* A connected provider gets a candidate generation, stored and registered,
\* and its recipe run is started; replay: the run is stored as completed, so
\* the candidate is activated before the plan runs again.
Install(r, p, again) ==
  /\ run[r].pc = "idle" /\ p \in RunProvider[r] /\ unit[p] # "down"
  /\ LET g == <<p, sequence + 1>> IN
     /\ CreateCandidate(p)
     /\ Saved(g, "candidate")
     /\ adapter' = [adapter EXCEPT ![g] = "open"]
     /\ candidates' = candidates \cup {g}
     /\ Begin(r, IF again THEN "activating" ELSE "recipe", g, again)
  /\ UNCHANGED <<mounted, overlay, manifests, unit>>

\* The candidate row is refused: the generation fails and is forgotten.
InstallUnsaved(r, p) ==
  /\ boot = "serving" /\ run[r].pc = "idle" /\ p \in RunProvider[r] /\ unit[p] # "down"
  /\ sequence < MaxSequence
  /\ sequence' = sequence + 1
  /\ state' = [state EXCEPT ![<<p, sequence + 1>>] = "failed"]
  /\ adapter' = [adapter EXCEPT ![<<p, sequence + 1>>] = "closed"]
  /\ StoreFails
  /\ UNCHANGED <<boot, sessions, active, session, drain, mounted, candidates,
                 overlay, manifests, unit, run>>

\* The run cannot be launched (recipe, inputs, an equal run in progress): the
\* handler returns and the candidate stays registered.
InstallAbandoned(r) ==
  /\ run[r].pc = "recipe"
  /\ Goto(r, "idle")
  /\ UNCHANGED <<vars, world, troubles>>

\* A stored run is resumed by its identifier after a restart: its generation
\* is a candidate again, but no connection belongs to it.
ResumeRun(r, g) ==
  /\ boot = "serving" /\ run[r].pc = "idle" /\ provider(g) \in RunProvider[r]
  /\ row[g] = "candidate" /\ g \notin candidates
  /\ Begin(r, "recipe", g, FALSE)
  /\ UNCHANGED <<vars, world, troubles>>

\* The recipe run failed, was cancelled, or its activation was not validated.
RecipeFails(r) ==
  /\ run[r].pc = "recipe"
  /\ Goto(r, "failing")
  /\ UNCHANGED <<vars, world, troubles>>

RecipeValidated(r) ==
  /\ run[r].pc = "recipe"
  /\ Goto(r, "activating")
  /\ UNCHANGED <<vars, world, troubles>>

\* completeProviderCandidate of a run that was not asked to activate.
CompleteUnactivated(r) ==
  /\ run[r].pc = "recipe"
  /\ candidates' = candidates \ {run[r].gen}
  /\ Goto(r, "idle")
  /\ UNCHANGED <<vars, row, mounted, adapter, overlay, manifests, unit, troubles>>

----------------------------------------------------------------------------
\* activateProviderGeneration.

\* The activation failed.  An executor cleans the candidate up; the handler
\* that activates for a replayed run only returns the error.
Failed(r) == Goto(r, IF run[r].replay THEN "idle" ELSE "failing")

\* The generation already serves; if it is still registered as a candidate it
\* is published and mounted again.
Reaffirm(r) ==
  LET g == run[r].gen IN
  /\ run[r].pc = "activating"
  /\ active[provider(g)] = g
  /\ IF g \in candidates
     THEN /\ registerProviderServicesForGeneration(g)
          /\ mounted' = [mounted EXCEPT ![g] = families(provider(g))]
     ELSE UNCHANGED <<overlay, manifests, mounted>>
  /\ candidates' = candidates \ {g}
  /\ Goto(r, "idle")
  /\ UNCHANGED <<vars, row, adapter, unit, troubles>>

ActivationReady(r) ==
  LET g == run[r].gen IN
  /\ run[r].pc = "activating"
  /\ active[provider(g)] # g
  /\ IF state[g] = "candidate" THEN MarkReady(g) ELSE UNCHANGED vars
  /\ IF state[g] \in {"candidate", "ready"}
     THEN run' = [run EXCEPT ![r].pc = "ready",
                             ![r].known = g \in candidates /\ provider(g) \in manifests]
     ELSE Failed(r)
  /\ UNCHANGED <<world, troubles>>

ActivationReadySaved(r) ==
  /\ run[r].pc = "ready"
  /\ \/ Saved(run[r].gen, state[run[r].gen]) /\ Goto(r, "admission")
     \/ StoreFails /\ Failed(r)
  /\ UNCHANGED <<vars, mounted, adapter, candidates, overlay, manifests, unit>>

\* A listener of provider.admission denies the activation.
AdmissionDenied(r) ==
  LET p == provider(run[r].gen) IN
  /\ run[r].pc = "admission"
  /\ Fail(run[r].gen)
  /\ IF run[r].gen \in candidates THEN restoreProviderManifest(overlay, p, run[r].known, active)
     ELSE UNCHANGED <<overlay, manifests>>
  /\ Failed(r)
  /\ UNCHANGED <<row, mounted, adapter, candidates, unit, troubles>>

\* requireActivationPublishServices: the recipe leaves no service to publish.
NothingToPublish(r) ==
  /\ run[r].pc = "admission" /\ run[r].gen \in candidates
  /\ Failed(r)
  /\ UNCHANGED <<vars, world, troubles>>

\* The catalog refuses an operation, after the families were displaced.
RegistrationRefused(r) ==
  LET p == provider(run[r].gen) IN
  /\ run[r].pc = "admission" /\ run[r].gen \in candidates
  /\ Fail(run[r].gen)
  /\ restoreProviderManifest(DisplaceCapabilityFamilies(overlay, p), p,
                             run[r].known, active)
  /\ Failed(r)
  /\ UNCHANGED <<row, mounted, adapter, candidates, unit, troubles>>

\* Admitted; the services are published before the switch.
ActivationPublished(r) ==
  /\ run[r].pc = "admission"
  /\ IF run[r].gen \in candidates THEN registerProviderServicesForGeneration(run[r].gen)
     ELSE UNCHANGED <<overlay, manifests>>
  /\ Goto(r, "published")
  /\ UNCHANGED <<vars, row, mounted, adapter, candidates, unit,
                 troubles>>

ActivationSwitched(r) ==
  LET g == run[r].gen IN
  /\ run[r].pc = "published"
  /\ IF state[g] = "ready"
     THEN /\ Activate(g)
          /\ run' = [run EXCEPT ![r].pc = "switched", ![r].prev = active[provider(g)]]
          /\ UNCHANGED <<overlay, manifests>>
     ELSE /\ IF g \in candidates
             THEN restoreProviderManifest(overlay, provider(g), run[r].known, active)
             ELSE UNCHANGED <<overlay, manifests>>
          /\ Failed(r)
          /\ UNCHANGED vars
  /\ UNCHANGED <<row, mounted, adapter, candidates, unit, troubles>>

\* The rows: first the predecessor, as Activate returned it, then g.
PredecessorSaved(r) ==
  /\ run[r].pc = "switched"
  /\ \/ run[r].prev = None /\ UNCHANGED <<row, troubles>> /\ Goto(r, "drained")
     \/ run[r].prev # None /\ Saved(run[r].prev, "draining") /\ Goto(r, "drained")
     \/ run[r].prev # None /\ StoreFails /\ Goto(r, "rollback")
  /\ UNCHANGED <<vars, mounted, adapter, candidates, overlay, manifests, unit>>

ActiveSaved(r) ==
  /\ run[r].pc = "drained"
  /\ \/ Saved(run[r].gen, "active") /\ Goto(r, "saved")
     \/ StoreFails /\ Goto(r, "rollback")
  /\ UNCHANGED <<vars, mounted, adapter, candidates, overlay, manifests, unit>>

FamiliesDisplaced(r) ==
  /\ run[r].pc = "saved"
  /\ IF run[r].gen \in candidates
     THEN displaceCordisCapabilityFamilies(provider(run[r].gen)) /\ Goto(r, "displaced")
     ELSE Goto(r, "mounted") /\ UNCHANGED <<mounted, adapter>>
  /\ UNCHANGED <<vars, row, candidates, overlay, manifests, unit,
                 troubles>>

\* mountProviderGeneration is all or nothing; a failure after the first
\* service disposes its plugin and with it the connection.
GenerationMounted(r) ==
  LET g == run[r].gen IN
  /\ run[r].pc = "displaced"
  /\ \/ /\ mounted' = [mounted EXCEPT ![g] = families(provider(g))]
        /\ Goto(r, "mounted")
        /\ UNCHANGED adapter
     \/ /\ adapter' = [adapter EXCEPT ![g] = "closed"]
        /\ Goto(r, "rollback")
        /\ UNCHANGED mounted
  /\ UNCHANGED <<vars, row, candidates, overlay, manifests, unit,
                 troubles>>

\* The predecessor is disposed last.
ActivationFinished(r) ==
  /\ run[r].pc = "mounted"
  /\ manifests' = IF run[r].gen \in candidates THEN manifests \cup {provider(run[r].gen)}
                  ELSE manifests
  /\ candidates' = candidates \ {run[r].gen}
  /\ IF run[r].prev = None THEN UNCHANGED <<mounted, adapter>>
     ELSE unmountProviderGeneration(run[r].prev)
  /\ IF run[r].replay THEN Begin(r, "recipe", run[r].gen, FALSE) ELSE Goto(r, "idle")
  /\ UNCHANGED <<vars, row, overlay, unit, troubles>>

----------------------------------------------------------------------------
\* rollbackProviderActivation and cleanupProviderCandidate.

CanRollBack(g, h) ==
  /\ active[provider(g)] = g /\ state[g] = "active" /\ sessions[g] = 0
  /\ h # None => state[h] = "draining"

\* The replacement is unmounted and the switch taken back, unless a caller
\* holds a session on the replacement.
Rollback(r) ==
  LET g == run[r].gen IN
  /\ run[r].pc = "rollback"
  /\ unmountProviderGeneration(g)
  /\ IF CanRollBack(g, run[r].prev)
     THEN RollbackActivation(g, run[r].prev) /\ Goto(r, "rolled")
     ELSE Goto(r, "stuck") /\ UNCHANGED vars
  /\ UNCHANGED <<row, candidates, overlay, manifests, unit, troubles>>

\* The restored predecessor is stored (not the failed replacement), then the
\* catalog is put back.
RollbackSaved(r) ==
  LET p == provider(run[r].gen) IN
  /\ run[r].pc \in {"rolled", "stuck"}
  /\ \/ (run[r].pc = "stuck" \/ run[r].prev = None) /\ UNCHANGED <<row, troubles>>
     \/ run[r].pc = "rolled" /\ run[r].prev # None /\ Saved(run[r].prev, state[run[r].prev])
     \/ run[r].pc = "rolled" /\ run[r].prev # None /\ StoreFails
  /\ IF run[r].gen \in candidates
     THEN restoreProviderManifest(overlay, p, run[r].known, active)
     ELSE UNCHANGED <<overlay, manifests>>
  /\ Failed(r)
  /\ UNCHANGED <<vars, mounted, adapter, candidates, unit>>

\* The generation fails whatever state it is in and its candidate goes.
Cleanup(r) ==
  LET g == run[r].gen IN
  /\ run[r].pc = "failing"
  /\ Fail(g)
  /\ candidates' = candidates \ {g}
  /\ adapter' = IF g \in candidates THEN [adapter EXCEPT ![g] = "closed"] ELSE adapter
  /\ Goto(r, "cleaned")
  /\ UNCHANGED <<row, mounted, overlay, manifests, unit, troubles>>

\* A refused write is ignored here.
CleanupSaved(r) ==
  /\ run[r].pc = "cleaned"
  /\ Saved(run[r].gen, state[run[r].gen]) \/ StoreFails
  /\ Goto(r, "idle")
  /\ UNCHANGED <<vars, mounted, adapter, candidates, overlay, manifests, unit>>

----------------------------------------------------------------------------
\* Teardown.

\* providerGenerationAdapter: the connection of a mounted generation.
Connected(g) == mounted[g] # {} /\ adapter[g] = "open"

\* Refused without an active generation.  The provider declares the plan; when
\* it cannot, force makes the agent declare one.  A call that says the
\* provider has no host service (hostService "none") is left out.
Teardown(r, p, forced) ==
  /\ boot = "serving" /\ run[r].pc = "idle" /\ p \in RunProvider[r]
  /\ active[p] # None
  /\ forced \/ Connected(active[p])
  /\ run' = [run EXCEPT ![r] = [Idle EXCEPT !.pc = "teardown", !.gen = active[p],
                                          !.forced = forced]]
  /\ UNCHANGED <<vars, world, troubles>>

\* The plan failed, another generation serves by now, or the provider did
\* not finalize: nothing is retired.
TeardownFails(r) ==
  /\ run[r].pc = "teardown"
  /\ Goto(r, "idle")
  /\ UNCHANGED <<vars, world, troubles>>

SessionsOf(g, n) ==
  /\ sessions' = [sessions EXCEPT ![g] = n]
  /\ UNCHANGED <<boot, state, active, sequence, session, drain>>

\* completeProviderTeardownContext until the host service is next; it holds a
\* session of its own until the host service is gone.
TeardownFinalized(r) ==
  LET g == run[r].gen IN
  /\ run[r].pc = "teardown"
  /\ active[provider(g)] = g
  /\ run[r].forced \/ Connected(g)
  /\ SessionsOf(g, sessions[g] + 1)
  /\ Goto(r, "cleanup")
  /\ UNCHANGED <<world, troubles>>

\* cleanupProviderHostService: disable, remove the unit file and reload,
\* stop; every part may fail, and the next teardown goes on from there.
HostServiceCleaned(r) ==
  LET p == provider(run[r].gen) IN
  /\ run[r].pc = "cleanup"
  /\ \/ /\ unit[p] # "down"
        /\ unit' = [unit EXCEPT ![p] = CASE @ = "up" -> "disabled"
                                         [] @ = "disabled" -> "removed"
                                         [] @ = "removed" -> "down"]
        /\ UNCHANGED <<vars, run>>
     \/ /\ Goto(r, IF unit[p] = "down" THEN "drain" ELSE "idle")
        /\ SessionsOf(run[r].gen, sessions[run[r].gen] - 1)
        /\ UNCHANGED unit
  /\ UNCHANGED <<row, mounted, adapter, candidates, overlay, manifests, troubles>>

\* Drain: the counter reaches zero, or the deadline passes.
TeardownDrained(r) ==
  /\ run[r].pc = "drain"
  /\ IF sessions[run[r].gen] = 0 THEN Dispose(run[r].gen) /\ Goto(r, "stopped")
     ELSE Goto(r, "idle") /\ UNCHANGED vars
  /\ UNCHANGED <<world, troubles>>

StoppedSaved(r) ==
  /\ run[r].pc = "stopped"
  /\ \/ Saved(run[r].gen, state[run[r].gen]) /\ Goto(r, "retire")
     \/ StoreFails /\ Goto(r, "idle")
  /\ UNCHANGED <<vars, mounted, adapter, candidates, overlay, manifests, unit>>

\* Mutant of TeardownRetired: the operations stay published.
RetiredStillPublished(r) ==
  /\ run[r].pc = "retire"
  /\ unmountProviderGeneration(run[r].gen)
  /\ Goto(r, "tornDown")
  /\ UNCHANGED <<vars, row, candidates, overlay, manifests, unit,
                 troubles>>

TeardownRetired(r) ==
  /\ run[r].pc = "retire"
  /\ unmountProviderGeneration(run[r].gen)
  /\ retireProviderCapabilities(provider(run[r].gen), run[r].gen)
  /\ Goto(r, "tornDown")
  /\ UNCHANGED <<vars, row, candidates, unit, troubles>>

\* The run is reported completed.
TeardownReported(r) ==
  /\ run[r].pc = "tornDown"
  /\ Goto(r, "idle")
  /\ UNCHANGED <<vars, world, troubles>>

----------------------------------------------------------------------------
\* The supervisor of the host starts a provider that is down.
StartUnit(p) ==
  /\ boot = "serving"
  /\ unit[p] = "down"
  /\ \A r \in Runs : run[r].pc = "idle"
  /\ unit' = [unit EXCEPT ![p] = "up"]
  /\ UNCHANGED <<vars, row, mounted, adapter, candidates, overlay, manifests,
                 run, troubles>>

\* A published operation is called: the caller takes a session on the active
\* generation, which must be the one the operation was published for.
CallOperation(c, p) ==
  /\ overlay[p].families # {} /\ overlay[p].generation = active[p]
  /\ OpenSession(c, p)
  /\ UNCHANGED <<world, run, troubles>>

\* The call returns, or the service is not mounted and it is refused.
CallReturns(c) ==
  /\ CloseSession(c)
  /\ UNCHANGED <<world, run, troubles>>

\* The agent stops; only the rows and the host's units are left.
Crash ==
  /\ boot = "serving" /\ troubles < MaxTroubles
  /\ troubles' = troubles + 1
  /\ boot' = "restoring"
  /\ state' = [g \in GenerationIds |-> "absent"]
  /\ sessions' = [g \in GenerationIds |-> 0]
  /\ active' = [p \in Providers |-> None]
  /\ sequence' = 0
  /\ session' = [c \in Clients |-> None]
  /\ drain' = [g \in GenerationIds |-> "none"]
  /\ mounted' = [g \in GenerationIds |-> {}]
  /\ adapter' = [g \in GenerationIds |-> "none"]
  /\ candidates' = {}
  /\ overlay' = [p \in Providers |-> Unpublished]
  /\ manifests' = {}
  /\ run' = [r \in Runs |-> Idle]
  /\ UNCHANGED <<row, unit>>

\* restoreProviderGenerations: every stored row, then the connections.
RestoreRow(g) ==
  /\ row[g] # "absent"
  /\ Restore(g, row[g])
  /\ UNCHANGED <<world, run, troubles>>

Restored == \A g \in GenerationIds : row[g] # "absent" => state[g] # "absent"

\* One active generation is connected, mounted and published again; when its
\* mount or its registration fails, the others' services are displaced all
\* the same.
Reconnect(g, ok) ==
  LET p == provider(g) IN
  /\ boot = "restoring" /\ Restored
  /\ row[g] = "active" /\ adapter[g] = "none" /\ unit[p] # "down"
  /\ mounted' = [h \in GenerationIds |->
                   IF h = g THEN IF ok THEN families(p) ELSE {}
                   ELSE IF provider(h) = p THEN mounted[h] ELSE mounted[h] \ families(p)]
  /\ adapter' = [h \in GenerationIds |->
                   IF h = g THEN IF ok THEN "open" ELSE "closed"
                   ELSE IF provider(h) = p THEN adapter[h]
                   ELSE Disconnected(adapter, mounted, h, families(p))[h]]
  /\ IF ok THEN registerProviderServicesForGeneration(g)
     ELSE UNCHANGED <<overlay, manifests>>
  /\ UNCHANGED <<vars, row, candidates, unit, run, troubles>>

\* A generation that could not be reconnected stays active and unmounted.
ServeRestored ==
  /\ Restored
  /\ Serve
  /\ UNCHANGED <<world, run, troubles>>

RunStep(r) ==
  \/ \E p \in Providers : \E again \in BOOLEAN : Install(r, p, again)
  \/ \E p \in Providers : InstallUnsaved(r, p) \/ \E forced \in BOOLEAN : Teardown(r, p, forced)
  \/ \E g \in GenerationIds : ResumeRun(r, g)
  \/ InstallAbandoned(r) \/ RecipeFails(r) \/ RecipeValidated(r)
  \/ CompleteUnactivated(r) \/ Reaffirm(r) \/ ActivationReady(r)
  \/ ActivationReadySaved(r) \/ AdmissionDenied(r)
  \/ NothingToPublish(r) \/ RegistrationRefused(r)
  \/ ActivationPublished(r) \/ ActivationSwitched(r) \/ PredecessorSaved(r)
  \/ ActiveSaved(r) \/ FamiliesDisplaced(r) \/ GenerationMounted(r)
  \/ ActivationFinished(r) \/ Rollback(r) \/ RollbackSaved(r)
  \/ Cleanup(r) \/ CleanupSaved(r) \/ TeardownFails(r)
  \/ TeardownFinalized(r) \/ HostServiceCleaned(r) \/ TeardownDrained(r) \/ StoppedSaved(r)
  \/ TeardownRetired(r) \/ TeardownReported(r)

ActivationNext ==
  \/ \E r \in Runs : RunStep(r)
  \/ \E p \in Providers : StartUnit(p) \/ \E c \in Clients : CallOperation(c, p)
  \/ \E c \in Clients : CallReturns(c)
  \/ \E g \in GenerationIds : RestoreRow(g) \/ \E ok \in BOOLEAN : Reconnect(g, ok)
  \/ ServeRestored
  \/ Crash

ActivationSpec == ActivationInit /\ [][ActivationNext]_allVars

----------------------------------------------------------------------------
\* ADR-0016: a capability family has one provider.  No two providers are
\* mounted, and no two are published, for the same family.
ExclusiveFamily ==
  /\ \A g, h \in GenerationIds :
       provider(g) # provider(h) => mounted[g] \cap mounted[h] = {}
  /\ \A p, q \in Providers : p # q => overlay[p].families \cap overlay[q].families = {}

\* A generation is mounted, so that the operations published for it can be
\* called, only after it was made the active one.
CandidateIsolated ==
  \A g \in GenerationIds : state[g] \in {"candidate", "ready"} => mounted[g] = {}

\* A teardown that is reported completed left nothing behind: the process is
\* stopped, the row says so, nothing is mounted or published.
TornDownIsGone ==
  \A r \in Runs : run[r].pc = "tornDown" =>
    LET g == run[r].gen IN
    /\ state[g] = "stopped" /\ row[g] = "stopped"
    /\ unit[provider(g)] = "down"
    /\ mounted[g] = {}
    /\ overlay[provider(g)].generation # g

\* What is mounted and published follows the generations: one provider per
\* family, no candidate, nothing of a provider that was torn down.
ActivationConsistent == ExclusiveFamily /\ CandidateIsolated /\ TornDownIsGone
============================================================================
