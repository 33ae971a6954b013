------------------------- MODULE HostServicesProofs -------------------------
(***************************************************************************)
(* Tool implementations of the host's domains, for any images, callers,    *)
(* models and contracts, any number of overlapping calls and any budget of *)
(* interference.  Hardly any of them holds a lock across a call, so each   *)
(* proof names what one call leaves for the others while it is under way.  *)
(***************************************************************************)
EXTENDS K3sStorage, HostPolicy, ServingAssignments, OciImages, LocalLLMRuntimes, IncusInstances,
        PublicMCP, PostgresService, LocalLLMRelay, TLAPS

----------------------------------------------------------------------------
\* Storage reclaim.  The calls that have taken the registry down, or found it so.
Collecting(o) == reclaim[o].pc \in {"down", "job", "restore"}

StorageInv ==
  /\ StorageTypeOK /\ troubles \in Nat
  /\ troubles = 0 /\ replicas = 0 => \E o \in Reclaimers : Collecting(o)

\* What a reclaimer keeps of its call.
ReclaimRows == [pc : {"idle", "prune", "delete", "down", "job", "restore"},
         plan : SUBSET Images, keep : SUBSET Images, restore : 0..Replicas]

\* The registry runs at first and nobody collects.
LEMMA StorageInitial == StorageInit /\ BudgetInit => StorageInv
<1> SUFFICES ASSUME StorageInit, BudgetInit PROVE StorageInv
  OBVIOUS
<1>1. NoReclaim \in ReclaimRows /\ Replicas \in 0..Replicas /\ Replicas # 0
  BY ReplicasAssumption DEF NoReclaim, ReclaimRows
<1>2. reclaim \in [Reclaimers -> ReclaimRows]
  BY <1>1 DEF StorageInit
<1> QED BY <1>1, <1>2 DEF StorageInit, BudgetInit, StorageInv, StorageTypeOK, ReclaimRows

\* restoreReplicas never asks for zero replicas.
LEMMA RestoresServe ==
  ASSUME NEW n \in 0..Replicas
  PROVE  restoreReplicas(n) \in 1..Replicas
BY ReplicasAssumption DEF restoreReplicas

\* A call that begins leaves the registry as it found it.
LEMMA BeginsKeepRegistry ==
  ASSUME StorageInv, NEW o \in Reclaimers, NEW extra \in {{}} \cup {{i} : i \in Images},
         \/ garbageCollectRegistry(o, extra) \/ CollectDuringOther(o, extra)
         \/ \E young \in SUBSET Images : pruneUnusedImages(o, extra, young)
  PROVE  StorageInv'
<1>1. PICK row \in ReclaimRows : reclaim' = [reclaim EXCEPT ![o] = row]
  <2>1. pods \cup extra \subseteq Images
    BY DEF StorageInv, StorageTypeOK
  <2>2. CASE garbageCollectRegistry(o, extra)
    BY <2>1, <2>2 DEF StorageInv, StorageTypeOK, garbageCollectRegistry, planRegistryDeletes, keepSetFromRunningPods, ReclaimRows
  <2>3. CASE CollectDuringOther(o, extra)
    BY <2>1, <2>3, ReplicasAssumption DEF StorageInv, StorageTypeOK, CollectDuringOther, planRegistryDeletes, keepSetFromRunningPods, ReclaimRows
  <2>4. CASE \E young \in SUBSET Images : pruneUnusedImages(o, extra, young)
    <3>1. PICK young \in SUBSET Images : pruneUnusedImages(o, extra, young)
      BY <2>4
    <3>2. planUnusedImages(Siblings(pods \cup extra), Siblings(young)) \subseteq Images
      BY DEF planUnusedImages, StorageInv, StorageTypeOK
    <3>3. [pc |-> "prune", plan |-> planUnusedImages(Siblings(pods \cup extra), Siblings(young)),
           keep |-> pods \cup extra, restore |-> 0] \in ReclaimRows
      BY <2>1, <3>2, ReplicasAssumption DEF ReclaimRows
    <3> QED BY <3>1, <3>3 DEF pruneUnusedImages, keepSetFromRunningPods
  <2> QED BY <2>2, <2>3, <2>4
<1>2. reclaim[o] = NoReclaim /\ UNCHANGED <<pulled, pods, tags, replicas, gcJob, troubles>>
  BY DEF garbageCollectRegistry, CollectDuringOther, pruneUnusedImages, Called
<1>3. \A q \in Reclaimers : Collecting(q) => Collecting(q)'
  BY <1>1, <1>2 DEF Collecting, NoReclaim, StorageInv, StorageTypeOK
<1> QED BY <1>1, <1>2, <1>3 DEF StorageInv, StorageTypeOK, ReclaimRows

\* Removing an image or a manifest does not scale the registry.
LEMMA ImageStepsKeepRegistry ==
  ASSUME StorageInv, NEW o \in Reclaimers, NEW i \in Images,
         PruneRemoves(o, i) \/ deleteRegistryManifest(o, i)
  PROVE  StorageInv'
<1>1. PICK plan \in SUBSET Images : reclaim' = [reclaim EXCEPT ![o].plan = plan]
  BY DEF PruneRemoves, deleteRegistryManifest, StorageInv, StorageTypeOK
<1>2. reclaim' \in [Reclaimers -> ReclaimRows] /\ \A q \in Reclaimers : reclaim'[q].pc = reclaim[q].pc
  BY <1>1 DEF StorageInv, StorageTypeOK, ReclaimRows
<1>3. /\ pulled' \subseteq Images /\ tags' \subseteq Images
      /\ UNCHANGED <<pods, replicas, gcJob, troubles>>
  BY DEF PruneRemoves, deleteRegistryManifest, StorageInv, StorageTypeOK, budget
<1> QED BY <1>2, <1>3 DEF StorageInv, StorageTypeOK, ReclaimRows, Collecting

\* Scaling up leaves a registry that serves, unless the command was refused.
LEMMA ScaledUpServes ==
  ASSUME StorageInv, NEW o \in Reclaimers, ScaledUp(o)
  PROVE  /\ replicas' \in 0..Replicas /\ troubles' \in Nat
         /\ troubles' = 0 => replicas' > 0
<1>1. reclaim[o].restore \in 0..Replicas
  BY DEF StorageInv, StorageTypeOK
<1>2. restoreReplicas(reclaim[o].restore) \in 1..Replicas
  BY <1>1, RestoresServe
<1> QED BY <1>2 DEF ScaledUp, Trouble, StorageInv, StorageTypeOK, budget

\* The stages of a collection: who scaled down is still there to scale up.
LEMMA StagesKeepRegistry ==
  ASSUME StorageInv, NEW o \in Reclaimers,
         PruneEnds(o) \/ ScaleDown(o) \/ AwaitDown(o) \/ JobEnds(o) \/ ScaleUp(o) \/ ReclaimCancelled(o)
  PROVE  StorageInv'
<1>1. /\ \E pc \in {"idle", "down", "job", "restore"} : ReclaimAt(o, pc)
      /\ UNCHANGED <<pulled, pods, tags>> /\ gcJob' \in BOOLEAN
  BY DEF PruneEnds, ScaleDown, AwaitDown, JobEnds, ScaleUp, ReclaimCancelled, StorageInv, StorageTypeOK
<1>2. reclaim' \in [Reclaimers -> ReclaimRows]
  BY <1>1, ReplicasAssumption DEF ReclaimAt, NoReclaim, ReclaimRows, StorageInv, StorageTypeOK
<1>3. \A q \in Reclaimers \ {o} : reclaim'[q] = reclaim[q]
  BY <1>1 DEF ReclaimAt, StorageInv, StorageTypeOK
<1>4. \A pc \in {"down", "job", "restore"} : ReclaimAt(o, pc) => Collecting(o)'
  BY DEF ReclaimAt, Collecting, StorageInv, StorageTypeOK
<1>5. /\ replicas' \in 0..Replicas /\ troubles' \in Nat
      /\ troubles' = 0 /\ replicas' = 0 => \E q \in Reclaimers : Collecting(q)'
  <2>1. CASE PruneEnds(o)
    <3>1. ~Collecting(o) /\ UNCHANGED <<replicas, troubles>>
      BY <2>1 DEF PruneEnds, Collecting, budget
    <3> QED BY <3>1, <1>3 DEF StorageInv, StorageTypeOK, Collecting
  <2>2. CASE ScaleDown(o)
    <3>1. ~Collecting(o) /\ UNCHANGED troubles
      BY <2>2 DEF ScaleDown, Collecting, budget
    <3>2. CASE replicas' = 0 /\ ReclaimAt(o, "down")
      BY <3>1, <3>2, <1>4, ReplicasAssumption DEF StorageInv, StorageTypeOK
    <3>3. CASE UNCHANGED replicas
      BY <3>1, <3>3, <1>3 DEF StorageInv, StorageTypeOK, Collecting
    <3> QED BY <2>2, <3>2, <3>3 DEF ScaleDown
  <2>3. CASE AwaitDown(o) \/ JobEnds(o) \/ ScaleUp(o)
    <3>1. CASE ScaledUp(o)
      BY <3>1, ScaledUpServes
    <3>2. CASE ~ScaledUp(o)
      <4>1. UNCHANGED <<replicas, troubles>> /\ \E pc \in {"job", "restore"} : ReclaimAt(o, pc)
        BY <2>3, <3>2 DEF AwaitDown, JobEnds, ScaleUp, budget
      <4> QED BY <4>1, <1>4 DEF StorageInv, StorageTypeOK
    <3> QED BY <3>1, <3>2
  <2>4. CASE ReclaimCancelled(o)
    BY <2>4 DEF ReclaimCancelled, Trouble, StorageInv, StorageTypeOK
  <2> QED BY <2>1, <2>2, <2>3, <2>4
<1> QED BY <1>1, <1>2, <1>5 DEF StorageInv, StorageTypeOK, ReclaimRows, Collecting

\* Whatever calls overlap, a registry at zero replicas has a call that will
\* scale it up, unless a trouble cut one off: the inductive invariant.
THEOREM StorageInvariant == StorageSpec => []StorageInv
<1>1. StorageInv /\ [StorageNext]_<<storageVars, budget>> => StorageInv'
  <2> SUFFICES ASSUME StorageInv, [StorageNext]_<<storageVars, budget>> PROVE StorageInv'
    OBVIOUS
  <2>1. CASE \E i \in Images : PodStarts(i) \/ PodStops(i)
    BY <2>1 DEF PodStarts, PodStops, StorageInv, StorageTypeOK, Collecting, budget
  <2>2. CASE UNCHANGED <<storageVars, budget>>
    BY <2>2 DEF StorageInv, StorageTypeOK, Collecting, storageVars, budget
  <2> QED BY <2>1, <2>2, BeginsKeepRegistry, ImageStepsKeepRegistry, StagesKeepRegistry DEF StorageNext
<1> QED BY StorageInitial, <1>1, PTL DEF StorageSpec

\* A registry that nobody is collecting serves again, unless a call was cut
\* off or a restoring scale command refused (garbageCollectRegistry).
THEOREM RegistriesComeBack == StorageSpec => []RegistryComesBack
<1>1. StorageInv => RegistryComesBack
  BY ReplicasAssumption DEF StorageInv, StorageTypeOK, RegistryComesBack, Collecting, NoReclaim
<1> QED BY StorageInvariant, <1>1, PTL

----------------------------------------------------------------------------
\* Host resource policy.  While no trouble has occurred, a reconciliation under
\* way has left a strict definition on disk, and one past the reload has had
\* it loaded; no later call can loosen either.
Enforced == {"strict", "managed"}
PolicyPast(c) == policyCall[c].pc \in {"start", "set", "verify", "done"}

PolicyRows == [pc : {"idle", "reload", "start", "set", "verify", "done"}, updated : BOOLEAN]

PolicyInv ==
  /\ policyCall \in [PolicyCallers -> PolicyRows] /\ troubles \in Nat
  /\ troubles = 0 /\ (\E c \in PolicyCallers : policyCall[c].pc # "idle") => sliceFile \in Enforced
  /\ troubles = 0 /\ (\E c \in PolicyCallers : PolicyPast(c)) => sliceLoaded \in Enforced

\* Before the first reconciliation nothing is promised.
LEMMA PolicyInitial == HostPolicyInit /\ BudgetInit => PolicyInv
<1> SUFFICES ASSUME HostPolicyInit, BudgetInit PROVE PolicyInv
  OBVIOUS
<1>1. \A c \in PolicyCallers : policyCall[c].pc = "idle"
  BY DEF HostPolicyInit, NoPolicyCall
<1>2. policyCall \in [PolicyCallers -> PolicyRows]
  BY DEF HostPolicyInit, NoPolicyCall, PolicyRows
<1> QED BY <1>1, <1>2 DEF PolicyInv, BudgetInit, PolicyPast

\* The stages of a reconciliation.
LEMMA ReconcileKeepsPolicy ==
  ASSUME PolicyInv, NEW c \in PolicyCallers,
         \/ ensureResourceSliceUnits(c) \/ ReloadsPolicy(c) \/ ReconcileHostResourcePolicy(c)
         \/ SetsWorkloadProperties(c) \/ VerifiesAgentUnit(c) \/ PolicyReturns(c)
  PROVE  PolicyInv'
<1>1. PICK row \in PolicyRows : policyCall' = [policyCall EXCEPT ![c] = row]
  <2>1. CASE ensureResourceSliceUnits(c)
    <3>1. policyCall' = [policyCall EXCEPT ![c] = [pc |-> "reload", updated |-> ~preservesStricterResourceUnit(sliceFile)]]
      BY <2>1 DEF ensureResourceSliceUnits
    <3>2. preservesStricterResourceUnit(sliceFile) \in BOOLEAN
      BY DEF preservesStricterResourceUnit
    <3>3. [pc |-> "reload", updated |-> ~preservesStricterResourceUnit(sliceFile)] \in PolicyRows
      BY <3>2 DEF PolicyRows
    <3> QED BY <3>1, <3>3
  <2>2. CASE ~ensureResourceSliceUnits(c)
    <3>1. PICK pc \in {"idle", "start", "set", "verify", "done"} : PolicyGoes(c, pc)
      BY <2>2 DEF ReloadsPolicy, ReconcileHostResourcePolicy, SetsWorkloadProperties, VerifiesAgentUnit,
                  PolicyReturns, PolicyFails
    <3>2. CASE pc = "idle"
      <4>1. NoPolicyCall \in PolicyRows
        BY DEF NoPolicyCall, PolicyRows
      <4> QED BY <3>1, <3>2, <4>1 DEF PolicyGoes
    <3>3. CASE pc # "idle"
      <4>1. policyCall[c] \in PolicyRows
        BY DEF PolicyInv
      <4>2. [policyCall[c] EXCEPT !.pc = pc] \in PolicyRows
        BY <4>1 DEF PolicyRows
      <4>3. policyCall' = [policyCall EXCEPT ![c] = [policyCall[c] EXCEPT !.pc = pc]]
        BY <3>1, <3>3 DEF PolicyGoes, PolicyInv
      <4> QED BY <4>2, <4>3
    <3> QED BY <3>2, <3>3
  <2> QED BY <2>1, <2>2
<1>2. policyCall' \in [PolicyCallers -> PolicyRows] /\ \A d \in PolicyCallers \ {c} : policyCall'[d] = policyCall[d]
  BY <1>1 DEF PolicyInv
<1>3. troubles' \in Nat /\ (troubles' = 0 => troubles = 0)
  BY DEF ensureResourceSliceUnits, ReloadsPolicy, ReconcileHostResourcePolicy, SetsWorkloadProperties,
         VerifiesAgentUnit, PolicyReturns, PolicyFails, Called, Trouble, budget, PolicyInv
<1>4. CASE ensureResourceSliceUnits(c)
  <2>1. sliceFile' \in Enforced /\ ~PolicyPast(c)' /\ UNCHANGED sliceLoaded
    BY <1>4 DEF ensureResourceSliceUnits, preservesStricterResourceUnit, managedResourceUnitNeedsMigration,
                Enforced, PolicyPast, PolicyInv
  <2> QED BY <2>1, <1>2, <1>3 DEF PolicyInv, PolicyPast
<1>5. CASE ~ensureResourceSliceUnits(c)
  <2>1. policyCall[c].pc # "idle" /\ UNCHANGED sliceFile
    BY <1>5 DEF ReloadsPolicy, ReconcileHostResourcePolicy, SetsWorkloadProperties, VerifiesAgentUnit, PolicyReturns
  <2>2. troubles' = 0 => sliceFile' \in Enforced
    BY <2>1, <1>3 DEF PolicyInv
  <2>3. CASE ReloadsPolicy(c)
    <3>1. troubles' = 0 => sliceLoaded' \in Enforced
      BY <2>1, <2>2, <2>3 DEF ReloadsPolicy, PolicyFails, Trouble, PolicyInv
    <3> QED BY <3>1, <1>2, <1>3, <2>2 DEF PolicyInv
  <2>4. CASE ~ReloadsPolicy(c)
    <3>1. PolicyPast(c) /\ UNCHANGED sliceLoaded
      BY <1>5, <2>4 DEF ReconcileHostResourcePolicy, SetsWorkloadProperties, VerifiesAgentUnit, PolicyReturns, PolicyPast
    <3> QED BY <3>1, <1>2, <1>3, <2>2 DEF PolicyInv
  <2> QED BY <2>3, <2>4
<1> QED BY <1>4, <1>5

\* The inductive invariant of the host resource policy.
THEOREM PolicyInvariant == HostPolicySpec => []PolicyInv
<1>1. PolicyInv /\ [HostPolicyNext]_<<hostPolicyVars, budget>> => PolicyInv'
  <2> SUFFICES ASSUME PolicyInv, [HostPolicyNext]_<<hostPolicyVars, budget>> PROVE PolicyInv'
    OBVIOUS
  <2>1. CASE \E c \in PolicyCallers :
               \/ ensureResourceSliceUnits(c) \/ ReloadsPolicy(c) \/ ReconcileHostResourcePolicy(c)
               \/ SetsWorkloadProperties(c) \/ VerifiesAgentUnit(c) \/ PolicyReturns(c)
    BY <2>1, ReconcileKeepsPolicy
  <2>2. CASE \E f \in Definitions \ {"managed", "absent"} : OperatorEdits(f)
    BY <2>2 DEF OperatorEdits, Trouble, PolicyInv, PolicyPast
  <2>3. CASE \/ Observes \/ SliceCollected
             \/ \E d \in Distros : \/ TerminateWSLDistribution(d) \/ DistroStarts(d)
                                   \/ \E dryRun \in BOOLEAN, o \in {"locked", "unlocked", "nothing"} :
                                        CompactWSLDisk(d, dryRun, o)
             \/ Optimizes \/ CompactReturns \/ ShutdownWSL
             \/ UNCHANGED <<hostPolicyVars, budget>>
    <3>1. UNCHANGED <<sliceFile, sliceLoaded, policyCall>>
      BY <2>3 DEF Observes, SliceCollected, TerminateWSLDistribution, DistroStarts, CompactWSLDisk,
                  Optimizes, CompactReturns, ShutdownWSL, policyVars, hostPolicyVars
    <3>2. troubles' \in Nat /\ (troubles' = 0 => troubles = 0)
      BY <2>3 DEF Observes, SliceCollected, TerminateWSLDistribution, DistroStarts, CompactWSLDisk,
                  Optimizes, CompactReturns, ShutdownWSL, budget, Called, Trouble, PolicyInv
    <3> QED BY <3>1, <3>2 DEF PolicyInv, PolicyPast
  <2> QED BY <2>1, <2>2, <2>3 DEF HostPolicyNext
<1> QED BY PolicyInitial, <1>1, PTL DEF HostPolicySpec

\* A reconciliation that succeeded leaves a slice whose enforcement the probe
\* of admission can establish, also when the manager has collected its cgroup
\* (ReconcileHostResourcePolicy, ObserveHostResourceEnforcement).
THEOREM EnforcementIsProvable == HostPolicySpec => []EnforcementProvable
<1>1. PolicyInv => EnforcementProvable
  <2> SUFFICES ASSUME PolicyInv, troubles = 0, NEW c \in PolicyCallers, policyCall[c].pc = "done"
               PROVE  ObserveHostResourceEnforcement
    BY DEF EnforcementProvable
  <2>1. sliceLoaded \in Enforced
    BY DEF PolicyInv, PolicyPast
  <2> QED BY <2>1 DEF ObserveHostResourceEnforcement, workloadSystemdPropertiesEnforced,
                      materializeWorkloadSliceCgroup, Enforced
<1> QED BY PolicyInvariant, <1>1, PTL

----------------------------------------------------------------------------
\* Serving assignments.  While an unknown stray serves the endpoint, and no call
\* missed it, there is no unit and no pid file to adopt by, so a call that goes
\* on has a pre-start command and will run it before it launches.
BeforeFreeing(call) ==
  \/ call.pc \in {"idle", "probe", "service"}
  \/ call.pc = "owner" /\ call.ready
  \/ call.pc \in {"decide", "claim", "prestart"} /\ call.ready /\ call.adopts /\ call.preStart /\ ~call.managed

Guarded == pidFile \in {"none", "dead"} /\ ~servingUnit.active /\ \A c \in ServingCallers : BeforeFreeing(servingCall[c])

\* A pid file that names a living process names the unit's or a stray it knew.
PidFileNames == (pidFile = "unit" => servingUnit.active) /\ (pidFile = "stray" => stray = "known")

ServingInv == ServingTypeOK /\ PidFileNames /\ (stray = "unknown" /\ ~missed => Guarded)

\* Nothing is launched, claimed or stray at first.
LEMMA ServingInitial == ServingInit => ServingInv
<1> SUFFICES ASSUME ServingInit PROVE ServingInv
  OBVIOUS
<1>1. NoServingCall \in ServingRows /\ BeforeFreeing(NoServingCall)
  BY DEF NoServingCall, ServingRows, BeforeFreeing
<1>2. servingCall \in [ServingCallers -> ServingRows] /\ \A c \in ServingCallers : BeforeFreeing(servingCall[c])
  BY <1>1 DEF ServingInit
<1>3. ServingTypeOK
  BY <1>2 DEF ServingInit, ServingTypeOK, NoUnit, NoServingCall, ServingUnits
<1> QED BY <1>2, <1>3 DEF ServingInit, ServingInv, Guarded, NoUnit, PidFileNames

\* A step of one call, by what it does to the row of the call and to the rest.
LEMMA ServingStep ==
  ASSUME ServingInv, NEW c \in ServingCallers, NEW row \in ServingRows,
         servingCall' = [servingCall EXCEPT ![c] = row],
         started' \subseteq ServingContracts, servingState' \in ServingContracts \cup {NoServing},
         pidFile' \in {"none", "dead", "unit", "stray"}, stray' \in {"none", stray},
         servingUnit' \in ServingUnits, PidFileNames', missed' \in BOOLEAN, (missed => missed'),
         row.pc # "idle" => row.contract \in ServingContracts,
         stray' = "unknown" /\ ~missed' => pidFile' \in {"none", "dead"} /\ ~servingUnit'.active /\ BeforeFreeing(row)
  PROVE  ServingInv'
<1>1. servingCall' \in [ServingCallers -> ServingRows]
  BY DEF ServingInv, ServingTypeOK
<1>2. ServingTypeOK'
  BY <1>1 DEF ServingInv, ServingTypeOK
<1>3. ASSUME stray' = "unknown" /\ ~missed' PROVE Guarded'
  <2>1. stray = "unknown" /\ ~missed
    BY <1>3 DEF ServingInv, ServingTypeOK
  <2>2. \A d \in ServingCallers : BeforeFreeing(servingCall'[d])
    BY <2>1, <1>3 DEF ServingInv, ServingTypeOK, Guarded
  <2> QED BY <2>2, <1>3 DEF Guarded
<1> QED BY <1>2, <1>3 DEF ServingInv

\* What is said of the serving unit stays a unit when it becomes active or
\* warm.
LEMMA UnitsTyped ==
  /\ NoUnit \in ServingUnits
  /\ \A g \in ServingContracts : [runs |-> g, active |-> TRUE, warm |-> FALSE]
       \in ServingUnits
  /\ \A u \in ServingUnits, b \in BOOLEAN :
       [u EXCEPT !.warm = b] \in ServingUnits
BY DEF NoUnit, ServingUnits

\* The row of a call, and that a finished call has not freed anything.
LEMMA ServingRow ==
  ASSUME ServingInv, NEW c \in ServingCallers
  PROVE  /\ servingCall[c].pc # "idle" => servingCall[c].contract \in ServingContracts
         /\ NoServingCall.pc = "idle"
         /\ servingCall[c] \in ServingRows /\ NoServingCall \in ServingRows /\ BeforeFreeing(NoServingCall)
         /\ stray = "unknown" /\ ~missed => BeforeFreeing(servingCall[c])
BY DEF ServingInv, ServingTypeOK, NoServingCall, ServingRows, BeforeFreeing, Guarded

\* A step that changes nothing but the row of a call.
LEMMA ServingReads ==
  ASSUME ServingInv, NEW c \in ServingCallers, NEW row \in ServingRows,
         servingCall' = [servingCall EXCEPT ![c] = row],
         UNCHANGED <<started, pidFile, servingState, servingUnit, stray>>, missed' \in BOOLEAN, (missed => missed'),
         row.pc # "idle" => row.contract \in ServingContracts,
         stray = "unknown" /\ ~missed' => BeforeFreeing(row)
  PROVE  ServingInv'
<1>1. /\ started' \subseteq ServingContracts /\ servingState' \in ServingContracts \cup {NoServing}
      /\ pidFile' \in {"none", "dead", "unit", "stray"} /\ stray' \in {"none", stray}
      /\ servingUnit' \in ServingUnits
  BY DEF ServingInv, ServingTypeOK
<1>2. PidFileNames'
  BY DEF ServingInv, PidFileNames
<1>3. stray' = "unknown" /\ ~missed' => pidFile' \in {"none", "dead"} /\ ~servingUnit'.active /\ BeforeFreeing(row)
  BY DEF ServingInv, Guarded
<1> QED BY <1>1, <1>2, <1>3, ServingStep

\* The steps that decide by what they read change the row of the call only.
LEMMA ReadsKeepServing ==
  ASSUME ServingInv, NEW c \in ServingCallers,
         \/ \E g \in ServingContracts, p \in BOOLEAN : ReconcileServingAssignment(c, g, p)
         \/ probeServingEndpoint(c) \/ servingSystemdUnitActive(c) \/ DecidesLaunch(c) \/ ReportsReadiness(c)
  PROVE  ServingInv'
<1>0. /\ UNCHANGED <<started, pidFile, servingState, servingUnit, stray>>
      /\ missed' \in BOOLEAN /\ (missed => missed')
  BY DEF ReconcileServingAssignment, probeServingEndpoint, servingSystemdUnitActive, DecidesLaunch,
         ReportsReadiness, ServingInv, ServingTypeOK
<1>1. ASSUME NEW g \in ServingContracts, NEW p \in BOOLEAN, ReconcileServingAssignment(c, g, p) PROVE ServingInv'
  <2>1. PICK row \in ServingRows : /\ row = [NoServingCall EXCEPT !.pc = "probe", !.contract = g, !.preStart = p]
                                   /\ servingCall' = [servingCall EXCEPT ![c] = row]
    BY <1>1 DEF ReconcileServingAssignment, NoServingCall, ServingRows, ServingInv, ServingTypeOK
  <2>2. BeforeFreeing(row)
    BY <2>1 DEF NoServingCall, BeforeFreeing
  <2>3. row.contract \in ServingContracts
    BY <2>1 DEF NoServingCall
  <2> QED BY <2>1, <2>2, <2>3, <1>0, ServingReads
<1>5. CASE probeServingEndpoint(c)
  <2>1. PICK ready \in {EndpointReady, FALSE} :
          /\ servingCall' = [servingCall EXCEPT ![c].pc = "owner", ![c].ready = ready]
          /\ ready = EndpointReady \/ missed' = (missed \/ stray # "none")
    BY <1>5 DEF probeServingEndpoint
  <2> DEFINE next == [servingCall[c] EXCEPT !.pc = "owner", !.ready = ready]
  <2>2. servingCall[c] \in ServingRows /\ ready \in BOOLEAN /\ servingCall[c].contract \in ServingContracts
    BY <1>5, <2>1, ServingRow DEF EndpointReady, probeServingEndpoint, ServingAt, ServingInv, ServingTypeOK, ServingUnits
  <2>3. next \in ServingRows /\ next.pc = "owner" /\ next.ready = ready /\ next.contract = servingCall[c].contract
    BY <2>2 DEF ServingRows
  <2>4. servingCall' = [servingCall EXCEPT ![c] = next]
    BY <2>1, <2>2 DEF ServingInv, ServingTypeOK
  <2>5. PICK row \in ServingRows : row = next
    BY <2>3
  <2>6. stray = "unknown" /\ ~missed' => BeforeFreeing(row)
    BY <2>1, <2>3, <2>5 DEF BeforeFreeing, EndpointReady
  <2>7. servingCall' = [servingCall EXCEPT ![c] = row] /\ row.contract \in ServingContracts
    BY <2>2, <2>3, <2>4, <2>5
  <2> HIDE DEF next
  <2> QED BY <2>6, <2>7, <1>0, ServingReads
<1>2. CASE servingSystemdUnitActive(c)
  <2> DEFINE adopts == servingCall[c].ready /\ ~servingUnit.active
  <2>1. CASE adopts /\ ~Adoptable(c)
    <3>1. servingCall' = [servingCall EXCEPT ![c] = NoServingCall]
      BY <1>2, <2>1 DEF servingSystemdUnitActive, ServingEnds
    <3> QED BY <3>1, <1>0, ServingRow, ServingReads
  <2>2. CASE ~(adopts /\ ~Adoptable(c))
    <3> DEFINE next == [servingCall[c] EXCEPT !.pc = "decide", !.managed = servingUnit.active, !.adopts = adopts]
    <3>a. servingCall[c] \in ServingRows /\ adopts \in BOOLEAN /\ servingUnit.active \in BOOLEAN
      BY ServingRow DEF ServingInv, ServingTypeOK, ServingUnits
    <3>b. next \in ServingRows
      BY <3>a DEF ServingRows
    <3>c. servingCall' = [servingCall EXCEPT ![c] = next]
      BY <1>2, <2>2 DEF servingSystemdUnitActive, ServingInv, ServingTypeOK
    <3>1. PICK row \in ServingRows : row = next /\ servingCall' = [servingCall EXCEPT ![c] = row]
      BY <3>b, <3>c
    <3>d. row.contract = servingCall[c].contract /\ servingCall[c].pc # "idle"
      BY <3>1, <1>2, <3>a DEF ServingRows, servingSystemdUnitActive, ServingAt
    <3>2. stray = "unknown" /\ ~missed => BeforeFreeing(row)
      <4> SUFFICES ASSUME stray = "unknown", ~missed PROVE BeforeFreeing(row)
        OBVIOUS
      <4>1. servingCall[c].ready /\ ~servingUnit.active /\ pidFile \in {"none", "dead"}
        BY <1>2, ServingRow DEF servingSystemdUnitActive, ServingAt, BeforeFreeing, ServingInv, Guarded
      <4>2. servingCall[c].preStart
        BY <4>1, <2>2 DEF Adoptable, servingProcessAlive
      <4> QED BY <3>1, <4>1, <4>2, ServingRow DEF BeforeFreeing, ServingRows
    <3> QED BY <3>1, <3>2, <3>d, ServingRow, <1>0, ServingReads
  <2> QED BY <2>1, <2>2
<1>3. CASE DecidesLaunch(c)
  <2> DEFINE waits == [servingCall[c] EXCEPT !.pc = "service"]
             claims == [servingCall[c] EXCEPT !.pc = "claim", !.alive = servingProcessAlive]
  <2>a. servingCall[c] \in ServingRows /\ servingProcessAlive \in BOOLEAN
    BY ServingRow DEF servingProcessAlive
  <2>b. waits \in ServingRows /\ claims \in ServingRows
    BY <2>a DEF ServingRows
  <2>c. \/ servingCall' = [servingCall EXCEPT ![c] = waits]
        \/ servingCall' = [servingCall EXCEPT ![c] = claims]
    BY <1>3 DEF DecidesLaunch, ServingGoes, ServingInv, ServingTypeOK
  <2>1. PICK row \in ServingRows : /\ servingCall' = [servingCall EXCEPT ![c] = row]
                                   /\ row = waits \/ row = claims
    BY <2>b, <2>c
  <2>d. row.contract = servingCall[c].contract /\ servingCall[c].pc # "idle"
    BY <2>1, <1>3, <2>a DEF ServingRows, DecidesLaunch, ServingAt
  <2>2. stray = "unknown" /\ ~missed => BeforeFreeing(row)
    BY <2>1, <1>3, ServingRow DEF BeforeFreeing, ServingRows, DecidesLaunch, ServingAt
  <2> QED BY <2>1, <2>2, <2>d, ServingRow, <1>0, ServingReads
<1>4. CASE ReportsReadiness(c)
  <2>1. servingCall' = [servingCall EXCEPT ![c] = NoServingCall]
    BY <1>4 DEF ReportsReadiness, ServingEnds
  <2> QED BY <2>1, <1>0, ServingRow, ServingReads
<1> QED BY <1>1, <1>2, <1>3, <1>4, <1>5

\* A call that has claimed, up to the release of its marker: an unknown stray
\* was freed before anything is launched.
LEMMA LaunchKeepsServing ==
  ASSUME ServingInv, NEW c \in ServingCallers,
         \/ claimServingLaunch(c) \/ PreStart(c) \/ servingLaunchStops(c) \/ servingLaunchRuns(c)
         \/ servingLaunchPolls(c) \/ recordServingAssignmentState(c)
  PROVE  ServingInv'
<1>0. /\ servingCall[c] \in ServingRows /\ servingCall[c].pc \notin {"idle", "probe", "service", "owner"}
      /\ servingCall[c].contract \in ServingContracts /\ UNCHANGED missed
  BY ServingRow DEF claimServingLaunch, PreStart, servingLaunchStops, servingLaunchRuns, servingLaunchPolls,
                    recordServingAssignmentState, ServingAt
<1>1. PICK row \in ServingRows :
        /\ servingCall' = [servingCall EXCEPT ![c] = row]
        /\ row.pc # "idle" => row.contract \in ServingContracts
        /\ \/ row = NoServingCall
           \/ \E pc \in {"service", "prestart", "launch", "run", "poll", "record"} : row = [servingCall[c] EXCEPT !.pc = pc]
  <2>1. \/ servingCall' = [servingCall EXCEPT ![c] = NoServingCall]
        \/ \E pc \in {"service", "prestart", "launch", "run", "poll", "record"} :
             servingCall' = [servingCall EXCEPT ![c] = [servingCall[c] EXCEPT !.pc = pc]]
    BY DEF claimServingLaunch, PreStart, servingLaunchStops, servingLaunchRuns, servingLaunchPolls,
           recordServingAssignmentState, ServingGoes, releaseServingLaunch, ServingEnds, ServingInv, ServingTypeOK
  <2>2. \A pc \in {"service", "prestart", "launch", "run", "poll", "record"} :
          /\ [servingCall[c] EXCEPT !.pc = pc] \in ServingRows
          /\ [servingCall[c] EXCEPT !.pc = pc].contract = servingCall[c].contract
    BY <1>0 DEF ServingRows
  <2> QED BY <1>0, <2>1, <2>2, ServingRow
<1>2. started' \subseteq ServingContracts /\ servingState' \in ServingContracts \cup {NoServing}
  BY <1>0 DEF claimServingLaunch, PreStart, servingLaunchStops, servingLaunchRuns, servingLaunchPolls,
              recordServingAssignmentState, releaseServingLaunch, ServingInv, ServingTypeOK
<1>3. /\ pidFile' \in {"none", "dead", "unit", "stray"} /\ stray' \in {"none", stray}
      /\ servingUnit' \in ServingUnits
  <2>1. /\ \/ UNCHANGED servingUnit \/ servingUnit' = NoUnit
           \/ servingUnit' = [runs |-> servingCall[c].contract, active |-> TRUE, warm |-> FALSE]
        /\ pidFile' \in {pidFile, "none", "dead", "unit"} /\ stray' \in {"none", stray}
    BY DEF claimServingLaunch, PreStart, servingLaunchStops, servingLaunchRuns, servingLaunchPolls,
           recordServingAssignmentState
  <2> QED BY <2>1, <1>0, UnitsTyped DEF ServingInv, ServingTypeOK
<1>5. PidFileNames' /\ missed \in BOOLEAN
  BY UnitsTyped DEF PidFileNames, claimServingLaunch, PreStart, servingLaunchStops, servingLaunchRuns,
     servingLaunchPolls, recordServingAssignmentState, ServingInv, ServingTypeOK, NoUnit
<1>4. ASSUME stray' = "unknown", ~missed
      PROVE  pidFile' \in {"none", "dead"} /\ ~servingUnit'.active /\ BeforeFreeing(row)
  <2>1. stray = "unknown" /\ pidFile \in {"none", "dead"} /\ ~servingUnit.active /\ BeforeFreeing(servingCall[c])
    BY <1>4, <1>3 DEF ServingInv, ServingTypeOK, Guarded
  <2>2. claimServingLaunch(c) \/ PreStart(c)
    BY <2>1, <1>0 DEF BeforeFreeing, servingLaunchStops, servingLaunchRuns, servingLaunchPolls,
                      recordServingAssignmentState, ServingAt
  <2>3. CASE claimServingLaunch(c)
    <3>1. /\ servingCall[c].adopts /\ servingCall[c].preStart /\ ~servingProcessAlive
          /\ UNCHANGED servingUnit /\ pidFile' \in {"none", "dead"} /\ ServingGoes(c, "prestart")
      BY <2>1, <2>3 DEF BeforeFreeing, claimServingLaunch, ServingAt, servingProcessAlive
    <3>2. row = [servingCall[c] EXCEPT !.pc = "prestart"]
      BY <3>1, <1>1 DEF ServingGoes, ServingInv, ServingTypeOK
    <3> QED BY <3>1, <3>2, <2>1, <2>3, <1>0 DEF BeforeFreeing, ServingRows, claimServingLaunch, ServingAt
  <2>4. CASE PreStart(c)
    <3>1. releaseServingLaunch(c) /\ UNCHANGED <<pidFile, servingUnit>>
      BY <2>4, <1>4 DEF PreStart
    <3>2. row = NoServingCall
      BY <3>1, <1>1 DEF releaseServingLaunch, ServingEnds, ServingInv, ServingTypeOK
    <3> QED BY <3>1, <3>2, <2>1, ServingRow
  <2> QED BY <2>2, <2>3, <2>4
<1> QED BY <1>0, <1>1, <1>2, <1>3, <1>4, <1>5, ServingStep

\* The inductive invariant of serving assignments.
THEOREM ServingInvariant == ServingSpec => []ServingInv
<1>1. ServingInv /\ [ServingNext]_<<servingVars, budget>> => ServingInv'
  <2> SUFFICES ASSUME ServingInv, [ServingNext]_<<servingVars, budget>> PROVE ServingInv'
    OBVIOUS
  <2>1. CASE \E c \in ServingCallers :
               \/ \E g \in ServingContracts, p \in BOOLEAN : ReconcileServingAssignment(c, g, p)
               \/ probeServingEndpoint(c) \/ servingSystemdUnitActive(c) \/ DecidesLaunch(c) \/ ReportsReadiness(c)
    BY <2>1, ReadsKeepServing
  <2>2. CASE \E c \in ServingCallers :
               \/ claimServingLaunch(c) \/ PreStart(c) \/ servingLaunchStops(c) \/ servingLaunchRuns(c)
               \/ servingLaunchPolls(c) \/ recordServingAssignmentState(c)
    BY <2>2, LaunchKeepsServing
  <2>3. CASE (\E c \in ServingCallers : validateServingAssignment(c)) \/ UNCHANGED <<servingVars, budget>>
    BY <2>3 DEF validateServingAssignment, servingVars, ServingInv, ServingTypeOK, Guarded, PidFileNames
  <2>4. CASE UnitWarms \/ UnitDies
    <3>1. servingUnit.active /\ UNCHANGED <<started, servingState, stray, servingCall, missed>>
      BY <2>4 DEF UnitWarms, UnitDies
    <3>2. servingUnit' \in ServingUnits
      <4>1. \/ servingUnit' = NoUnit \/ servingUnit' = [servingUnit EXCEPT !.warm = TRUE]
            \/ servingUnit' = [servingUnit EXCEPT !.warm = FALSE]
        BY <2>4 DEF UnitWarms, UnitDies
      <4> QED BY <4>1, UnitsTyped DEF ServingInv, ServingTypeOK
    <3>3. pidFile' \in {"none", "dead", "unit", "stray"}
      BY <2>4 DEF UnitWarms, UnitDies, ServingInv, ServingTypeOK
    <3>4. PidFileNames'
      BY <2>4 DEF UnitWarms, UnitDies, ServingInv, ServingTypeOK, PidFileNames, ServingUnits
    <3> QED BY <3>1, <3>2, <3>3, <3>4 DEF ServingInv, ServingTypeOK, Guarded
  <2>5. CASE ServingRestart
    <3>1. NoServingCall \in ServingRows /\ NoServingCall.pc = "idle" /\ BeforeFreeing(NoServingCall)
      BY DEF NoServingCall, ServingRows, BeforeFreeing
    <3>2. /\ servingCall' \in [ServingCallers -> ServingRows]
          /\ \A c \in ServingCallers : servingCall'[c].pc = "idle" /\ BeforeFreeing(servingCall'[c])
      BY <2>5, <3>1 DEF ServingRestart
    <3> QED BY <2>5, <3>2 DEF ServingRestart, ServingInv, ServingTypeOK, Guarded, PidFileNames
  <2>6. CASE StrayComes
    <3>1. /\ UNCHANGED <<started, pidFile, servingState, servingUnit, servingCall>>
          /\ stray = "none" /\ stray' = "unknown" /\ missed' \in BOOLEAN
      BY <2>6 DEF StrayComes, EndpointReady, ServingInv, ServingTypeOK
    <3>2. PidFileNames'
      BY <3>1 DEF ServingInv, PidFileNames
    <3>3. ~missed' => Guarded'
      BY <2>6, <3>1 DEF StrayComes, Guarded, BeforeFreeing, ServingInv, ServingTypeOK, PidFileNames
    <3> QED BY <3>1, <3>2, <3>3 DEF ServingInv, ServingTypeOK
  <2>7. CASE StrayEnds
    BY <2>7 DEF StrayEnds, ServingInv, ServingTypeOK, PidFileNames
  <2> QED BY <2>1, <2>2, <2>3, <2>4, <2>5, <2>6, <2>7 DEF ServingNext
<1> QED BY ServingInitial, <1>1, PTL DEF ServingSpec

\* A process that no pid file ever named, and that no probe missed, is never
\* displaced from the endpoint by a launch that no pre-start command preceded,
\* for any callers and contracts ("must be explicitly adopted").
THEOREM AdoptionsAreExplicit == ServingSpec => []AdoptionIsExplicit
<1>1. ServingInv => AdoptionIsExplicit
  BY DEF ServingInv, Guarded, BeforeFreeing, AdoptionIsExplicit
<1> QED BY ServingInvariant, <1>1, PTL

----------------------------------------------------------------------------
\* Container images.  What a call may rely on: the cleanup that lists and
\* prunes holds the mutex, and no one else removes an image it has listed.
Prunable(i) == ociImages[i].present /\ ociImages[i].old

OciPlace(c, call) ==
  /\ call.pc = "save" => call.policy \in Policies
  /\ call.pc = "apply" => call.limit \in {1, 2}
  /\ call.pc \in {"enforce", "build", "push", "untag"} => call.kind = "build"
  /\ call.kind = "build" => call.tag \in OciTags
  /\ call.pc \in {"locked", "prune", "unlock"} => storageMu = c
  /\ call.pc = "prune" => \A i \in call.candidates : Prunable(i)

OciInv == OciTypeOK /\ \A c \in OciCallers : OciPlace(c, ociCall[c])

\* No call is under way at first.
LEMMA OciInitial == OciInit => OciInv
<1> SUFFICES ASSUME OciInit PROVE OciInv
  OBVIOUS
<1>1. NoOciCall \in OciRows /\ NoOciCall.pc = "idle" /\ NoOciCall.kind = "none"
  BY DEF NoOciCall, OciRows
<1>2. ociCall \in [OciCallers -> OciRows] /\ \A c \in OciCallers : ociCall[c] = NoOciCall
  BY <1>1 DEF OciInit
<1>3. ociImages \in [OciImageIds -> ImageRows] /\ ociPolicy \in Policies
  BY DEF OciInit, ImageRows, Policies
<1>4. NoOciCall.kind = "build" => NoOciCall.tag \in OciTags
  BY <1>1
<1> QED BY <1>1, <1>2, <1>3, <1>4 DEF OciInit, OciInv, OciTypeOK, OciPlace
\* A step of one call, by the row it leaves and by what it does to the rest:
\* only the holder of the mutex passes it on, and only the holder removes.
LEMMA OciStep ==
  ASSUME OciInv, NEW c \in OciCallers, NEW row \in OciRows,
         ociCall' = [ociCall EXCEPT ![c] = row],
         ociImages' \in [OciImageIds -> ImageRows], ociPolicy' \in Policies, registryPvc' \in 0..2,
         storageMu' \in OciCallers \cup {NoOci}, storageMu \notin {c, NoOci} => storageMu' = storageMu,
         \A i \in OciImageIds : Prunable(i) => Prunable(i)' \/ storageMu = c,
         OciPlace(c, row)'
  PROVE  OciInv'
<1>1. OciTypeOK'
  BY DEF OciInv, OciTypeOK
<1>2. ASSUME NEW d \in OciCallers PROVE OciPlace(d, ociCall[d])'
  <2>1. CASE d = c
    <3>1. ociCall'[d] = row
      BY <2>1 DEF OciInv, OciTypeOK
    <3> QED BY <2>1, <3>1 DEF OciPlace
  <2>2. CASE d # c
    <3>1. ociCall'[d] = ociCall[d] /\ ociCall[d] \in OciRows /\ OciPlace(d, ociCall[d])
      BY <2>2 DEF OciInv, OciTypeOK
    <3>2. storageMu = d => storageMu' = d
      BY <2>2, OciAssumption
    <3>3. ASSUME ociCall[d].pc = "prune", NEW i \in ociCall[d].candidates PROVE Prunable(i)'
      <4>1. storageMu = d /\ Prunable(i) /\ i \in OciImageIds
        BY <3>1, <3>3 DEF OciPlace, OciRows
      <4> QED BY <4>1, <2>2
    <3> QED BY <3>1, <3>2, <3>3 DEF OciPlace
  <2> QED BY <2>1, <2>2
<1> QED BY <1>1, <1>2 DEF OciInv

\* A step that leaves the images alone.
LEMMA OciQuietStep ==
  ASSUME OciInv, NEW c \in OciCallers, NEW row \in OciRows,
         ociCall' = [ociCall EXCEPT ![c] = row], UNCHANGED ociImages,
         ociPolicy' \in Policies, registryPvc' \in 0..2,
         storageMu' \in OciCallers \cup {NoOci}, storageMu \notin {c, NoOci} => storageMu' = storageMu,
         OciPlace(c, row)'
  PROVE  OciInv'
BY OciStep DEF OciInv, OciTypeOK, Prunable

\* What is known of the row of a call and of the tables.
LEMMA OciRow ==
  ASSUME OciInv, NEW c \in OciCallers
  PROVE  /\ ociCall[c] \in OciRows /\ OciPlace(c, ociCall[c])
         /\ NoOciCall \in OciRows /\ OciPlace(c, NoOciCall)'
         /\ ociPolicy \in Policies /\ storageMu \in OciCallers \cup {NoOci} /\ registryPvc \in 0..2
         /\ ociImages \in [OciImageIds -> ImageRows]
BY DEF OciInv, OciTypeOK, NoOciCall, OciRows, OciPlace

\* The calls begin.
LEMMA OciBegins ==
  ASSUME OciInv, NEW c \in OciCallers,
         \/ \E limit \in OciLimits \cup {0, NoOci}, age \in {0, 2} : ConfigureOciStorage(c, limit, age)
         \/ \E limit \in OciLimits \cup {0}, age \in {0, 1, 2} : CleanupContainerStorage(c, limit, age)
         \/ \E tag \in OciTags : BuildAndPushOciImage(c, tag)
         \/ \E size \in {1, 2} : InstallOCIRegistry(c, size)
  PROVE  OciInv'
<1>1. ASSUME NEW limit \in OciLimits \cup {0, NoOci}, NEW age \in {0, 2}, ConfigureOciStorage(c, limit, age)
      PROVE  OciInv'
  <2> DEFINE policy == [maxBytes |-> IF limit = NoOci THEN ociPolicy.maxBytes ELSE limit,
                        minAge |-> IF age = 0 THEN ociPolicy.minAge ELSE age]
             call == [NoOciCall EXCEPT !.pc = "save", !.kind = "configure", !.limit = limit, !.age = age, !.policy = policy]
  <2>1. policy \in Policies
    BY OciRow DEF Policies
  <2>2. call \in OciRows /\ call.pc = "save" /\ call.kind = "configure" /\ call.policy = policy
    BY <2>1 DEF NoOciCall, OciRows
  <2>3. PICK row \in OciRows : row = call
    BY <2>2
  <2>4. OciPlace(c, row)'
    BY <2>1, <2>2, <2>3 DEF OciPlace
  <2>5. /\ ociCall' = [ociCall EXCEPT ![c] = row]
        /\ UNCHANGED <<ociImages, ociPolicy, storageMu, registryPvc>>
    BY <1>1, <2>3 DEF ConfigureOciStorage
  <2> QED BY <2>4, <2>5, OciRow, OciQuietStep
<1>2. ASSUME NEW limit \in OciLimits \cup {0}, NEW age \in {0, 1, 2}, CleanupContainerStorage(c, limit, age)
      PROVE  OciInv'
  <2> DEFINE policy == IF age = 0 THEN ociPolicy ELSE [ociPolicy EXCEPT !.minAge = age]
             call == [NoOciCall EXCEPT !.pc = "wait", !.kind = "cleanup", !.limit = limit, !.policy = policy]
  <2>0. policy \in Policies
    BY OciRow DEF Policies
  <2>1. call \in OciRows /\ call.pc = "wait" /\ call.kind = "cleanup"
    BY <2>0 DEF NoOciCall, OciRows
  <2>2. PICK row \in OciRows : row = call
    BY <2>1
  <2>3. /\ ociCall' = [ociCall EXCEPT ![c] = row]
        /\ UNCHANGED <<ociImages, ociPolicy, storageMu, registryPvc>>
    BY <1>2, <2>2 DEF CleanupContainerStorage
  <2>4. OciPlace(c, row)'
    BY <2>1, <2>2 DEF OciPlace
  <2> HIDE DEF call
  <2> QED BY <2>3, <2>4, OciRow, OciQuietStep
<1>3. ASSUME NEW tag \in OciTags, BuildAndPushOciImage(c, tag)
      PROVE  OciInv'
  <2> DEFINE call == [NoOciCall EXCEPT !.pc = "enforce", !.kind = "build", !.tag = tag]
  <2>1. call \in OciRows /\ call.pc = "enforce" /\ call.kind = "build" /\ call.tag = tag
    BY DEF NoOciCall, OciRows
  <2>2. PICK row \in OciRows : row = call
    BY <2>1
  <2>3. /\ ociCall' = [ociCall EXCEPT ![c] = row]
        /\ UNCHANGED <<ociImages, ociPolicy, storageMu, registryPvc>>
    BY <1>3, <2>2 DEF BuildAndPushOciImage
  <2>4. OciPlace(c, row)'
    BY <2>1, <2>2 DEF OciPlace
  <2> QED BY <2>3, <2>4, OciRow, OciQuietStep
<1>4. ASSUME NEW size \in {1, 2}, InstallOCIRegistry(c, size)
      PROVE  OciInv'
  <2> DEFINE call == [NoOciCall EXCEPT !.pc = "apply", !.limit = size]
  <2>1. call \in OciRows /\ call.pc = "apply" /\ call.kind = "none" /\ call.limit = size
    BY DEF NoOciCall, OciRows
  <2>2. PICK row \in OciRows : row = call
    BY <2>1
  <2>3. /\ ociCall' = [ociCall EXCEPT ![c] = row]
        /\ UNCHANGED <<ociImages, ociPolicy, storageMu, registryPvc>>
    BY <1>4, <2>2 DEF InstallOCIRegistry
  <2>4. OciPlace(c, row)'
    BY <2>1, <2>2 DEF OciPlace
  <2> QED BY <2>3, <2>4, OciRow, OciQuietStep
<1> QED BY <1>1, <1>2, <1>3, <1>4

\* A cleanup that was asked for gets the mutex.
LEMMA CleanupLocksKeeps ==
  ASSUME OciInv, NEW c \in OciCallers, CleanupLocks(c)
  PROVE  OciInv'
<1>0. ociCall[c] \in OciRows /\ OciPlace(c, ociCall[c]) /\ ociCall[c].pc = "wait"
  BY OciRow DEF CleanupLocks, OciAt
<1> DEFINE call == [ociCall[c] EXCEPT !.pc = "locked"]
<1>1. call \in OciRows /\ call.pc = "locked" /\ call.kind = ociCall[c].kind /\ call.tag = ociCall[c].tag
  BY <1>0 DEF OciRows
<1>2. PICK row \in OciRows : row = call
  BY <1>1
<1>3. /\ ociCall' = [ociCall EXCEPT ![c] = row] /\ storageMu = NoOci /\ storageMu' = c
      /\ UNCHANGED <<ociImages, ociPolicy, registryPvc>>
  BY <1>2 DEF CleanupLocks, OciGoes, Locks, OciInv, OciTypeOK
<1>4. OciPlace(c, row)'
  BY <1>0, <1>1, <1>2, <1>3 DEF OciPlace
<1> HIDE DEF call
<1> QED BY <1>3, <1>4, OciRow, OciQuietStep

\* The policy is saved or enforced, and a cleanup lists, prunes and unlocks.
LEMMA CleanupKeepsOci ==
  ASSUME OciInv, NEW c \in OciCallers,
         \/ saveOciStoragePolicyAt(c) \/ enforceOciStoragePolicy(c)
         \/ ListsImages(c) \/ cleanupContainerStorageLocked(c) \/ CleanupEnds(c)
  PROVE  OciInv'
<1>0. ociCall[c] \in OciRows /\ OciPlace(c, ociCall[c])
  BY OciRow
<1>1. CASE saveOciStoragePolicyAt(c)
  <2>1. CASE UNCHANGED storageMu /\ OciEnds(c)
    <3>1. UNCHANGED <<ociImages, registryPvc>> /\ ociPolicy' \in Policies
      BY <1>0, <1>1, OciRow DEF saveOciStoragePolicyAt, OciPlace, OciAt
    <3> QED BY <2>1, <3>1, OciRow, OciQuietStep DEF OciEnds
  <2>2. CASE ~(UNCHANGED storageMu /\ OciEnds(c))
    <3> DEFINE call(pc) == [ociCall[c] EXCEPT !.pc = pc, !.limit = ociCall[c].policy.maxBytes]
    <3>1. ociCall[c].policy \in Policies /\ ociCall[c].pc = "save"
      BY <1>0, <1>1 DEF saveOciStoragePolicyAt, OciAt, OciPlace
    <3>2. PICK pc \in {"locked", "unlock"} : ociCall' = [ociCall EXCEPT ![c] = call(pc)]
      BY <1>1, <2>2 DEF saveOciStoragePolicyAt, OciInv, OciTypeOK
    <3>3. /\ call(pc) \in OciRows /\ call(pc).pc = pc
          /\ call(pc).kind = ociCall[c].kind /\ call(pc).tag = ociCall[c].tag
      BY <1>0, <3>1, <3>2 DEF OciRows, Policies
    <3>4. PICK row \in OciRows : row = call(pc)
      BY <3>3
    <3>5. /\ storageMu = NoOci /\ storageMu' = c /\ ociPolicy' = ociCall[c].policy
          /\ UNCHANGED <<ociImages, registryPvc>>
      BY <1>1, <2>2 DEF saveOciStoragePolicyAt, Locks
    <3>6. OciPlace(c, row)'
      BY <1>0, <3>2, <3>3, <3>4, <3>5 DEF OciPlace
    <3>7. ociCall' = [ociCall EXCEPT ![c] = row]
      BY <3>2, <3>4
    <3> HIDE DEF call
    <3> QED BY <3>1, <3>5, <3>6, <3>7, OciRow, OciQuietStep
  <2> QED BY <2>1, <2>2
<1>2. CASE enforceOciStoragePolicy(c)
  <2> DEFINE call(pc) == [ociCall[c] EXCEPT !.pc = pc, !.policy = ociPolicy, !.limit = ociPolicy.maxBytes]
  <2>1. PICK pc \in {"locked", "unlock"} : ociCall' = [ociCall EXCEPT ![c] = call(pc)]
    BY <1>2 DEF enforceOciStoragePolicy, OciInv, OciTypeOK
  <2>2. /\ call(pc) \in OciRows /\ call(pc).pc = pc
        /\ call(pc).kind = ociCall[c].kind /\ call(pc).tag = ociCall[c].tag
    BY <1>0, <2>1, OciRow DEF OciRows, Policies
  <2>3. PICK row \in OciRows : row = call(pc)
    BY <2>2
  <2>4. storageMu = NoOci /\ storageMu' = c /\ UNCHANGED <<ociImages, ociPolicy, registryPvc>>
    BY <1>2 DEF enforceOciStoragePolicy, Locks
  <2>5. OciPlace(c, row)'
    BY <1>0, <2>1, <2>2, <2>3, <2>4 DEF OciPlace
  <2>6. ociCall' = [ociCall EXCEPT ![c] = row]
    BY <2>1, <2>3
  <2> HIDE DEF call
  <2> QED BY <2>4, <2>5, <2>6, OciRow, OciQuietStep
<1>3. CASE ListsImages(c)
  <2> DEFINE listed == selectOciPruneCandidates(ociCall[c].policy)
             prunes == [ociCall[c] EXCEPT !.pc = "prune", !.candidates = listed]
             gives == [ociCall[c] EXCEPT !.pc = "unlock", !.age = 1]
  <2>1. listed \subseteq OciImageIds /\ \A i \in listed : Prunable(i)
    BY DEF selectOciPruneCandidates, Prunable
  <2>2. /\ prunes \in OciRows /\ prunes.pc = "prune" /\ prunes.candidates = listed
        /\ prunes.kind = ociCall[c].kind /\ prunes.tag = ociCall[c].tag
    BY <1>0, <2>1 DEF OciRows
  <2>3. /\ gives \in OciRows /\ gives.pc = "unlock" /\ gives.kind = ociCall[c].kind /\ gives.tag = ociCall[c].tag
    BY <1>0 DEF OciRows
  <2>4. /\ ociCall' = [ociCall EXCEPT ![c] = prunes] \/ ociCall' = [ociCall EXCEPT ![c] = gives]
        /\ storageMu = c /\ UNCHANGED <<ociImages, ociPolicy, storageMu, registryPvc>>
    BY <1>0, <1>3 DEF ListsImages, OciAt, OciPlace, OciInv, OciTypeOK
  <2>5. PICK row \in OciRows : ociCall' = [ociCall EXCEPT ![c] = row] /\ row \in {prunes, gives}
    BY <2>2, <2>3, <2>4
  <2>6. \A i \in listed : Prunable(i)'
    BY <2>1, <2>4 DEF Prunable
  <2>7. OciPlace(c, row)'
    <3>1. CASE row = prunes
      <4>1. \A i \in row.candidates : Prunable(i)'
        BY <3>1, <2>2, <2>6
      <4> HIDE DEF prunes, gives, listed
      <4> QED BY <1>0, <2>2, <2>4, <3>1, <4>1 DEF OciPlace
    <3>2. CASE row = gives
      <4> HIDE DEF prunes, gives, listed
      <4> QED BY <1>0, <2>3, <2>4, <3>2 DEF OciPlace
    <3> QED BY <2>5, <3>1, <3>2
  <2> HIDE DEF prunes, gives, listed
  <2> QED BY <2>4, <2>5, <2>7, OciRow, OciQuietStep
<1>4. CASE cleanupContainerStorageLocked(c)
  <2>1. /\ ociCall[c].pc = "prune" /\ storageMu = c /\ \A i \in ociCall[c].candidates : Prunable(i)
        /\ UNCHANGED <<ociPolicy, storageMu, registryPvc>>
    BY <1>0, <1>4 DEF cleanupContainerStorageLocked, OciAt, OciPlace
  <2>2. CASE OciGoes(c, "unlock") /\ UNCHANGED ociImages
    <3> DEFINE call == [ociCall[c] EXCEPT !.pc = "unlock"]
    <3>1. call \in OciRows /\ call.pc = "unlock" /\ call.kind = ociCall[c].kind /\ call.tag = ociCall[c].tag
      BY <1>0 DEF OciRows
    <3>2. PICK row \in OciRows : row = call
      BY <3>1
    <3>3. OciPlace(c, row)'
      BY <1>0, <2>1, <3>1, <3>2 DEF OciPlace
    <3>4. ociCall' = [ociCall EXCEPT ![c] = row]
      BY <2>2, <3>2 DEF OciGoes, OciInv, OciTypeOK
    <3> QED BY <2>1, <2>2, <3>3, <3>4, OciRow, OciQuietStep
  <2>3. ASSUME NEW i \in ociCall[c].candidates,
               ociCall' = [ociCall EXCEPT ![c].candidates = @ \ {i}],
               ociImages' = IF ociImages[i].present /\ RemoveImage(i)
                  THEN [ociImages EXCEPT ![i].present = FALSE, ![i].tags = {}, ![i].used = FALSE]
                  ELSE ociImages
        PROVE  OciInv'
    <3> DEFINE call == [ociCall[c] EXCEPT !.candidates = ociCall[c].candidates \ {i}]
    <3>1. /\ call \in OciRows /\ call.pc = "prune" /\ call.kind = ociCall[c].kind
          /\ call.tag = ociCall[c].tag /\ call.candidates = ociCall[c].candidates \ {i}
      BY <1>0, <2>1 DEF OciRows
    <3>2. PICK row \in OciRows : row = call
      BY <3>1
    <3>3. ociCall' = [ociCall EXCEPT ![c] = row]
      BY <2>3, <3>2 DEF OciInv, OciTypeOK
    <3>4. ociImages' \in [OciImageIds -> ImageRows] /\ \A j \in OciImageIds \ {i} : ociImages'[j] = ociImages[j]
      <4>1. i \in OciImageIds /\ ociImages[i] \in ImageRows /\ ociImages \in [OciImageIds -> ImageRows]
        BY <1>0, OciRow DEF OciRows
      <4>2. [ociImages[i] EXCEPT !.present = FALSE, !.tags = {}, !.used = FALSE] \in ImageRows
        BY <4>1 DEF ImageRows
      <4>3. \/ ociImages' = [ociImages EXCEPT ![i] = [ociImages[i] EXCEPT !.present = FALSE, !.tags = {}, !.used = FALSE]]
            \/ UNCHANGED ociImages
        BY <2>3, <4>1
      <4> QED BY <4>1, <4>2, <4>3
    <3>5. \A j \in row.candidates : Prunable(j)'
      BY <1>0, <2>1, <3>1, <3>2, <3>4 DEF Prunable, OciRows
    <3>6. OciPlace(c, row)'
      <4> HIDE DEF call
      <4> QED BY <1>0, <2>1, <3>1, <3>2, <3>5 DEF OciPlace
    <3> HIDE DEF call
    <3> QED BY <2>1, <3>3, <3>4, <3>6, OciRow, OciStep
  <2> QED BY <1>4, <2>2, <2>3 DEF cleanupContainerStorageLocked
<1>5. CASE CleanupEnds(c)
  <2>1. storageMu = c /\ storageMu' = NoOci /\ UNCHANGED <<ociImages, ociPolicy, registryPvc>>
    BY <1>0, <1>5 DEF CleanupEnds, OciAt, OciPlace, Unlocks
  <2>2. CASE OciEnds(c)
    BY <2>1, <2>2, OciRow, OciQuietStep DEF OciEnds
  <2>3. CASE ~OciEnds(c)
    <3> DEFINE call == [ociCall[c] EXCEPT !.pc = "build", !.age = 1, !.candidates = {}]
    <3>1. call \in OciRows /\ call.pc = "build" /\ call.kind = ociCall[c].kind /\ call.tag = ociCall[c].tag
      BY <1>0 DEF OciRows
    <3>2. PICK row \in OciRows : row = call
      BY <3>1
    <3>3. ociCall' = [ociCall EXCEPT ![c] = row] /\ ociCall[c].kind = "build"
      BY <1>5, <2>3, <3>2 DEF CleanupEnds, OciInv, OciTypeOK
    <3>4. OciPlace(c, row)'
      BY <1>0, <3>1, <3>2, <3>3 DEF OciPlace
    <3> HIDE DEF call
    <3> QED BY <2>1, <3>3, <3>4, OciRow, OciQuietStep
  <2> QED BY <2>2, <2>3
<1> QED BY <1>1, <1>2, <1>3, <1>4, <1>5
\* The steps of a build and of the registry, which hold no mutex and remove
\* nothing: a build may make a removed image anew, but young.
LEMMA TaggedImages ==
  ASSUME NEW images \in [OciImageIds -> ImageRows], NEW i \in OciImageIds, NEW tag \in OciTags
  PROVE  /\ Tagged(images, i, tag) \in [OciImageIds -> ImageRows]
         /\ \A j \in OciImageIds : /\ images[j].present => Tagged(images, i, tag)[j].present
                                   /\ Tagged(images, i, tag)[j].old = images[j].old
<1>1. ASSUME NEW j \in OciImageIds
      PROVE  /\ Tagged(images, i, tag)[j] \in ImageRows
             /\ images[j].present => Tagged(images, i, tag)[j].present
             /\ Tagged(images, i, tag)[j].old = images[j].old
  <2>1. images[j] \in ImageRows
    OBVIOUS
  <2> DEFINE names == IF j = i THEN images[j].tags \cup {tag} ELSE images[j].tags \ {tag}
             there == (j = i) \/ images[j].present
  <2>2. names \in SUBSET OciTags
    BY <2>1 DEF ImageRows
  <2>3. there \in BOOLEAN
    OBVIOUS
  <2>4. Tagged(images, i, tag)[j] = [images[j] EXCEPT !.tags = names, !.present = there]
    BY DEF Tagged
  <2>5. images[j].present => there = TRUE
    OBVIOUS
  <2> HIDE DEF names, there
  <2> QED BY <2>1, <2>2, <2>3, <2>4, <2>5 DEF ImageRows
<1>2. Tagged(images, i, tag) \in [OciImageIds -> ImageRows]
  BY <1>1 DEF Tagged
<1> QED BY <1>1, <1>2

\* The steps of a build.
LEMMA BuildKeepsOci ==
  ASSUME OciInv, NEW c \in OciCallers, Build(c) \/ Push(c) \/ Untag(c)
  PROVE  OciInv'
<1>0. ociCall[c] \in OciRows /\ OciPlace(c, ociCall[c]) /\ ociImages \in [OciImageIds -> ImageRows]
  BY OciRow
<1>1. ociCall[c].tag \in OciTags /\ ociCall[c].kind = "build"
  BY <1>0 DEF Build, Push, Untag, OciAt, OciPlace
<1>2. UNCHANGED <<ociPolicy, storageMu, registryPvc>>
  BY DEF Build, Push, Untag
<1>3. PICK row \in OciRows : ociCall' = [ociCall EXCEPT ![c] = row] /\ OciPlace(c, row)'
  <2>1. OciEnds(c) \/ \E pc \in {"push", "untag", "enforce"} : OciGoes(c, pc)
    BY DEF Build, Push, Untag
  <2>2. CASE OciEnds(c)
    BY <2>2, OciRow DEF OciEnds
  <2>3. ASSUME NEW pc \in {"push", "untag", "enforce"}, OciGoes(c, pc)
        PROVE  \E row \in OciRows : ociCall' = [ociCall EXCEPT ![c] = row] /\ OciPlace(c, row)'
    <3> DEFINE call == [ociCall[c] EXCEPT !.pc = pc]
    <3>1. call \in OciRows /\ call.pc = pc /\ call.kind = "build" /\ call.tag = ociCall[c].tag
      BY <1>0, <1>1 DEF OciRows
    <3>2. PICK row \in OciRows : row = call
      BY <3>1
    <3>3. ociCall' = [ociCall EXCEPT ![c] = row]
      BY <2>3, <3>2 DEF OciGoes, OciInv, OciTypeOK
    <3>4. OciPlace(c, row)'
      BY <1>1, <3>1, <3>2 DEF OciPlace
    <3> QED BY <3>3, <3>4
  <2> QED BY <2>1, <2>2, <2>3
<1>4. /\ ociImages' \in [OciImageIds -> ImageRows]
      /\ \A i \in OciImageIds : Prunable(i) => Prunable(i)'
  <2>1. CASE UNCHANGED ociImages
    BY <1>0, <2>1 DEF Prunable
  <2>2. CASE Build(c) /\ ociImages' # ociImages
    <3>1. PICK i \in OciImageIds :
            ociImages' = Tagged([ociImages EXCEPT ![i].old = @ /\ ociImages[i].present], i, ociCall[c].tag)
      BY <2>2 DEF Build
    <3> DEFINE young == ociImages[i].old /\ ociImages[i].present
               images == [ociImages EXCEPT ![i] = [ociImages[i] EXCEPT !.old = young]]
    <3>2. young \in BOOLEAN
      OBVIOUS
    <3>3. [ociImages[i] EXCEPT !.old = young] \in ImageRows
      <4> HIDE DEF young
      <4> QED BY <1>0, <3>2 DEF ImageRows
    <3>4. images \in [OciImageIds -> ImageRows] /\ \A j \in OciImageIds \ {i} : images[j] = ociImages[j]
      BY <1>0, <3>3
    <3>5. images[i] = [ociImages[i] EXCEPT !.old = young]
      BY <1>0
    <3>6. images[i].present = ociImages[i].present /\ images[i].old = young
      <4> HIDE DEF young
      <4> QED BY <1>0, <3>5 DEF ImageRows
    <3>7. ociImages' = Tagged(images, i, ociCall[c].tag)
      BY <3>1, <1>0
    <3>8. \A j \in OciImageIds : Prunable(j) => images[j].present /\ images[j].old
      BY <3>4, <3>6 DEF Prunable
    <3> HIDE DEF images, young
    <3> QED BY <1>1, <3>4, <3>7, <3>8, TaggedImages DEF Prunable
  <2>3. CASE Untag(c) /\ ociImages' # ociImages
    <3>1. ociImages' = [i \in OciImageIds |-> [ociImages[i] EXCEPT !.tags = ociImages[i].tags \ {ociCall[c].tag}]]
      BY <2>3 DEF Untag
    <3>2. ASSUME NEW i \in OciImageIds
          PROVE  /\ ociImages'[i] \in ImageRows
                 /\ Prunable(i) => Prunable(i)'
      <4>1. ociImages[i] \in ImageRows /\ ociImages'[i] = [ociImages[i] EXCEPT !.tags = ociImages[i].tags \ {ociCall[c].tag}]
        BY <1>0, <3>1
      <4> QED BY <4>1 DEF ImageRows, Prunable
    <3> QED BY <3>1, <3>2
  <2> QED BY <2>1, <2>2, <2>3 DEF Push
<1> QED BY <1>2, <1>3, <1>4, OciRow, OciStep

\* Applying and deleting the registry touch no local image.
LEMMA RegistryKeepsOci ==
  ASSUME OciInv, NEW c \in OciCallers, ApplyRegistry(c) \/ DeleteOCIRegistry(c)
  PROVE  OciInv'
<1>1. CASE ApplyRegistry(c)
  <2>1. UNCHANGED <<ociImages, ociPolicy, storageMu>> /\ ociCall' = [ociCall EXCEPT ![c] = NoOciCall]
    BY <1>1 DEF ApplyRegistry, OciEnds
  <2>2. registryPvc' \in 0..2
    BY <1>1, OciRow DEF ApplyRegistry, OciPlace, OciAt
  <2> QED BY <2>1, <2>2, OciRow, OciQuietStep
<1>2. CASE DeleteOCIRegistry(c)
  BY <1>2 DEF DeleteOCIRegistry, OciInv, OciTypeOK, OciPlace, Prunable
<1> QED BY <1>1, <1>2

\* Containers that start and images that grow old are podman's, not a call's.
LEMMA PodmanKeepsOci ==
  ASSUME OciInv, (\E i \in OciImageIds : PodmanRuns(i)) \/ ImagesAge
  PROVE  OciInv'
<1>1. UNCHANGED <<ociPolicy, storageMu, ociCall, registryPvc>>
  BY DEF PodmanRuns, ImagesAge
<1>2. ociImages' \in [OciImageIds -> ImageRows] /\ \A j \in OciImageIds : Prunable(j) => Prunable(j)'
  <2>1. ASSUME NEW i \in OciImageIds, PodmanRuns(i)
        PROVE  ociImages' \in [OciImageIds -> ImageRows] /\ \A j \in OciImageIds : Prunable(j) => Prunable(j)'
    <3>1. ociImages \in [OciImageIds -> ImageRows] /\ ociImages[i] \in ImageRows
      BY DEF OciInv, OciTypeOK
    <3>2. ociImages' = [ociImages EXCEPT ![i] = [ociImages[i] EXCEPT !.used = ~ociImages[i].used]]
      BY <2>1, <3>1 DEF PodmanRuns
    <3>3. PICK used \in BOOLEAN : used = ~ociImages[i].used
      OBVIOUS
    <3>4. /\ [ociImages[i] EXCEPT !.used = used] \in ImageRows
          /\ [ociImages[i] EXCEPT !.used = used].old = ociImages[i].old
          /\ [ociImages[i] EXCEPT !.used = used].present = ociImages[i].present
      BY <3>1 DEF ImageRows
    <3>5. ociImages' = [ociImages EXCEPT ![i] = [ociImages[i] EXCEPT !.used = used]]
      BY <3>2, <3>3
    <3> QED BY <3>1, <3>4, <3>5 DEF Prunable
  <2>2. CASE ImagesAge
    <3>1. ociImages' = [i \in OciImageIds |-> [ociImages[i] EXCEPT !.old = ociImages[i].old \/ ociImages[i].present]]
      BY <2>2 DEF ImagesAge
    <3>2. ASSUME NEW i \in OciImageIds
          PROVE  ociImages'[i] \in ImageRows /\ (Prunable(i) => Prunable(i)')
      <4>1. PICK old \in BOOLEAN : old = (ociImages[i].old \/ ociImages[i].present)
        OBVIOUS
      <4>2. ociImages[i] \in ImageRows /\ ociImages'[i] = [ociImages[i] EXCEPT !.old = old]
        BY <3>1, <4>1 DEF OciInv, OciTypeOK
      <4>3. /\ [ociImages[i] EXCEPT !.old = old] \in ImageRows
            /\ [ociImages[i] EXCEPT !.old = old].old = old
            /\ [ociImages[i] EXCEPT !.old = old].present = ociImages[i].present
        BY <4>2 DEF ImageRows
      <4>4. Prunable(i) => old = TRUE
        BY <4>1 DEF Prunable
      <4> QED BY <4>2, <4>3, <4>4 DEF Prunable
    <3> QED BY <3>1, <3>2
  <2> QED BY <2>1, <2>2
<1>3. ASSUME NEW c \in OciCallers PROVE OciPlace(c, ociCall[c])'
  <2>1. OciPlace(c, ociCall[c]) /\ ociCall[c].candidates \subseteq OciImageIds
    BY OciRow DEF OciRows
  <2> QED BY <1>1, <1>2, <2>1 DEF OciPlace
<1> QED BY <1>1, <1>2, <1>3 DEF OciInv, OciTypeOK

\* Every step of the domain keeps the invariant.
LEMMA OciNextKeeps == OciInv /\ [OciNext]_<<ociVars, budget>> => OciInv'
<1> SUFFICES ASSUME OciInv, [OciNext]_<<ociVars, budget>> PROVE OciInv'
  OBVIOUS
<1>1. CASE UNCHANGED <<ociVars, budget>>
  BY <1>1 DEF ociVars, OciInv, OciTypeOK, OciPlace, Prunable
<1> QED BY <1>1, OciBegins, CleanupLocksKeeps, CleanupKeepsOci, BuildKeepsOci, RegistryKeepsOci, PodmanKeepsOci DEF OciNext

\* A step that removes an image is a round of a cleanup, of an image that was
\* listed as old and that podman did not refuse to remove.
LEMMA RemovalsAreOfUnreferenced ==
  ASSUME OciInv, OciNext, NEW i \in OciImageIds, ociImages[i].present, ~ociImages'[i].present
  PROVE  ociImages[i].old /\ ~ociImages[i].used /\ Cardinality(ociImages[i].tags) <= 1
<1>0. ociImages \in [OciImageIds -> ImageRows]
  BY DEF OciInv, OciTypeOK
<1>1. CASE \E c \in OciCallers : Build(c)
  <2>1. PICK c \in OciCallers : Build(c)
    BY <1>1
  <2>2. ociCall[c] \in OciRows /\ OciPlace(c, ociCall[c]) /\ ociCall[c].tag \in OciTags
    BY <2>1, OciRow DEF Build, OciAt, OciPlace
  <2>3. PICK j \in OciImageIds :
          ociImages' = Tagged([ociImages EXCEPT ![j].old = @ /\ ociImages[j].present], j, ociCall[c].tag)
    BY <2>1 DEF Build
  <2> DEFINE images == [ociImages EXCEPT ![j].old = @ /\ ociImages[j].present]
  <2>4. ociImages'[i] = [images[i] EXCEPT !.tags = IF i = j THEN @ \cup {ociCall[c].tag} ELSE @ \ {ociCall[c].tag},
                                          !.present = (i = j) \/ @]
    BY <2>3 DEF Tagged
  <2>5. images[i].present = ociImages[i].present /\ DOMAIN images[i] = DOMAIN ociImages[i]
    BY <1>0 DEF ImageRows
  <2>6. "present" \in DOMAIN images[i]
    BY <1>0, <2>5 DEF ImageRows
  <2>7. ociImages'[i].present = ((i = j) \/ images[i].present)
    <3> HIDE DEF images
    <3> QED BY <2>4, <2>6
  <2> QED BY <2>5, <2>7
<1>2. CASE \E c \in OciCallers : Untag(c)
  <2>1. PICK c \in OciCallers : Untag(c)
    BY <1>2
  <2>2. \/ UNCHANGED ociImages
        \/ ociImages'[i] = [ociImages[i] EXCEPT !.tags = ociImages[i].tags \ {ociCall[c].tag}]
    BY <2>1 DEF Untag
  <2> QED BY <1>0, <2>2 DEF ImageRows
<1>3. CASE \E c \in OciCallers : cleanupContainerStorageLocked(c)
  <2>1. PICK c \in OciCallers : cleanupContainerStorageLocked(c)
    BY <1>3
  <2>2. PICK j \in ociCall[c].candidates :
          ociImages' = IF ociImages[j].present /\ RemoveImage(j)
                       THEN [ociImages EXCEPT ![j].present = FALSE, ![j].tags = {}, ![j].used = FALSE]
                       ELSE ociImages
    BY <2>1 DEF cleanupContainerStorageLocked
  <2>3. \A k \in ociCall[c].candidates : Prunable(k)
    BY <2>1, OciRow DEF cleanupContainerStorageLocked, OciAt, OciPlace
  <2>4. i = j /\ RemoveImage(j)
    BY <1>0, <2>2
  <2> QED BY <2>3, <2>4 DEF Prunable, RemoveImage
<1>4. CASE \E j \in OciImageIds : PodmanRuns(j)
  <2>1. PICK j \in OciImageIds : PodmanRuns(j)
    BY <1>4
  <2>2. ociImages'[i].present = ociImages[i].present
    BY <1>0, <2>1 DEF PodmanRuns, ImageRows
  <2> QED BY <2>2
<1>5. CASE ImagesAge
  <2>1. ociImages'[i] = [ociImages[i] EXCEPT !.old = ociImages[i].old \/ ociImages[i].present]
    BY <1>5 DEF ImagesAge
  <2> QED BY <1>0, <2>1 DEF ImageRows
<1> QED BY <1>1, <1>2, <1>3, <1>4, <1>5
    DEF OciNext, ConfigureOciStorage, CleanupContainerStorage, CleanupLocks, BuildAndPushOciImage, saveOciStoragePolicyAt,
        ListsImages, CleanupEnds, enforceOciStoragePolicy, Push, InstallOCIRegistry, ApplyRegistry, DeleteOCIRegistry

\* The inductive invariant of container images.
THEOREM OciInvariant == OciSpec => []OciInv
BY OciInitial, OciNextKeeps, PTL DEF OciSpec

\* Whatever podman, builds and other calls do between the listing and the
\* removal, a cleanup removes no image that a container uses, that two tags
\* name or that is young (cleanupContainerStorageLocked, selectOciPruneCandidates).
THEOREM ReferencedImagesStay == OciSpec => ReferencedImageKept
<1>1. OciInv /\ [OciNext]_<<ociVars, budget>> =>
        [\A i \in OciImageIds : ociImages[i].present /\ ~ociImages'[i].present =>
           ociImages[i].old /\ ~ociImages[i].used /\ Cardinality(ociImages[i].tags) <= 1]_ociVars
  BY RemovalsAreOfUnreferenced DEF ociVars
<1> QED BY OciInvariant, <1>1, PTL DEF OciSpec, ReferencedImageKept
----------------------------------------------------------------------------
\* llama-server.  A start that has verified its artifact and not yet restarted
\* the unit.
Starting(call) == call.op = "llama" /\ call.pc \in {"unload", "manifest", "port", "start"}

StartPlace(call) ==
  /\ Starting(call) => artifact[call.model] = "good"
  /\ Starting(call) /\ call.pc # "unload" => ~llamaUnit.enabled /\ llamaServes = NoModel
  /\ Starting(call) /\ call.pc \in {"port", "start"} => llamaFile.model = call.model

VerifiedUnit ==
  llamaUnit.enabled => /\ llamaUnit.model \in LlmModels
                       /\ artifact[llamaUnit.model] = "good" /\ llamaFile.model = llamaUnit.model

VerifiedServes == llamaServes # NoModel => artifact[llamaServes] = "good" /\ llamaFile.model = llamaServes

\* While no two starts have run at once, at most one start is under way, what
\* the unit would serve is verified and in the manifest, and so is what it serves.
LlamaPlace ==
  /\ \A c, d \in LlmCallers : Starting(llmCall[c]) /\ Starting(llmCall[d]) => c = d
  /\ \A c \in LlmCallers : StartPlace(llmCall[c])
  /\ VerifiedUnit /\ VerifiedServes

LlmInv == LlmTypeOK /\ (~overlapped => LlamaPlace)

\* Nothing is installed and no call is under way at first.
LEMMA LlmInitial == LlmInit => LlmInv
<1> SUFFICES ASSUME LlmInit PROVE LlmInv
  OBVIOUS
<1>1. NoCall \in LlmRows /\ NoCall.op = "none" /\ NoCall.pc = "none"
  BY DEF NoCall, LlmRows
<1>2. llmCall \in [LlmCallers -> LlmRows] /\ \A c \in LlmCallers : llmCall[c] = NoCall
  BY <1>1 DEF LlmInit
<1>3. /\ ollamaFile \in OllamaFiles
      /\ ollamaUnit \in {"absent", "enabled", "disabled"} /\ ollamaApi \in {"none", "unit", "external"}
      /\ ollamaModels \in [LlmModels -> [pulled : BOOLEAN, context : ContextSizes \cup {0}]]
  BY DEF LlmInit, OllamaInit, OllamaFiles, NoContexts
<1>4. LlmTypeOK
  BY <1>1, <1>2, <1>3 DEF LlmTypeOK, LlmInit, LlamaInit
<1>5. LlamaPlace
  BY <1>1, <1>2 DEF LlmInit, LlamaInit, LlamaPlace, VerifiedUnit, VerifiedServes, Starting, StartPlace
<1> QED BY <1>4, <1>5 DEF LlmInv

\* The row of a call that goes on differs in its stage only.
LEMMA LlmRow ==
  ASSUME LlmInv, NEW c \in LlmCallers
  PROVE  /\ llmCall[c] \in LlmRows /\ NoCall \in LlmRows /\ ~Starting(NoCall)
         /\ NoCall.op = "none" /\ NoCall.pc = "none"
         /\ llmCall[c].op \in {"llama", "context"} => llmCall[c].model \in LlmModels
         /\ llmCall[c].op = "context" \/ llmCall[c].pc = "save" => llmCall[c].file \in OllamaFiles
BY DEF LlmInv, LlmTypeOK, NoCall, LlmRows, Starting

WellTyped(row) ==
  /\ row \in LlmRows
  /\ row.op \in {"llama", "context"} => row.model \in LlmModels
  /\ row.op = "context" \/ row.pc = "save" => row.file \in OllamaFiles

LlamaTyped ==
  /\ llamaFile \in [model : LlmModels \cup {NoModel}, rev : Revisions \cup {NoModel}]
  /\ llamaUnit \in [model : LlmModels \cup {NoModel}, enabled : BOOLEAN]
  /\ llamaServes \in LlmModels \cup {NoModel}
  /\ artifact \in [LlmModels -> {"absent", "good", "bad"}] /\ binary \in Revisions \cup {NoModel}
  /\ portOwner \in {"none", "stale", "foreign"} /\ overlapped \in BOOLEAN

OllamaTyped ==
  /\ ollamaFile \in OllamaFiles
  /\ ollamaUnit \in {"absent", "enabled", "disabled"} /\ ollamaApi \in {"none", "unit", "external"}
  /\ ollamaModels \in [LlmModels -> [pulled : BOOLEAN, context : ContextSizes \cup {0}]]

\* A call that takes another row leaves the rows of the others.
LEMMA RowsTyped ==
  ASSUME LlmInv, NEW c \in LlmCallers, NEW row, WellTyped(row), llmCall' = [llmCall EXCEPT ![c] = row]
  PROVE  /\ llmCall' \in [LlmCallers -> LlmRows] /\ llmCall'[c] = row
         /\ \A d \in LlmCallers \ {c} : llmCall'[d] = llmCall[d]
         /\ \A d \in LlmCallers : WellTyped(llmCall'[d])
BY DEF LlmInv, LlmTypeOK, WellTyped

\* The type invariant, with the two runtimes and the calls apart.
LEMMA TypedApart ==
  LlmTypeOK <=> /\ OllamaTyped /\ LlamaTyped /\ llmCall \in [LlmCallers -> LlmRows]
                /\ \A c \in LlmCallers : WellTyped(llmCall[c])
BY DEF LlmTypeOK, OllamaTyped, LlamaTyped, WellTyped

\* A step outside the starts: it may fetch an artifact or place a binary.
LEMMA LlmOutsideStep ==
  ASSUME LlmInv, NEW c \in LlmCallers, NEW row, WellTyped(row), ~Starting(row),
         llmCall' = [llmCall EXCEPT ![c] = row], OllamaTyped', LlamaTyped',
         UNCHANGED <<llamaFile, llamaUnit, llamaServes, overlapped>>,
         \A m \in LlmModels : artifact[m] = "good" => artifact'[m] = "good"
  PROVE  LlmInv'
<1>1. LlmTypeOK'
  BY RowsTyped DEF LlmTypeOK, OllamaTyped, LlamaTyped, WellTyped
<1>2. ASSUME ~overlapped' PROVE LlamaPlace'
  <2>1. LlamaPlace /\ \A d \in LlmCallers : llmCall'[d] = llmCall[d] \/ ~Starting(llmCall'[d])
    BY <1>2, RowsTyped DEF LlmInv
  <2>2. llamaServes \in LlmModels \cup {NoModel}
    BY DEF LlmInv, LlmTypeOK
  <2>3. VerifiedUnit' /\ VerifiedServes'
    BY <2>1, <2>2 DEF LlamaPlace, VerifiedUnit, VerifiedServes
  <2>4. ASSUME NEW d \in LlmCallers PROVE StartPlace(llmCall[d])'
    <3>1. CASE Starting(llmCall'[d])
      <4>1. llmCall'[d] = llmCall[d] /\ StartPlace(llmCall[d]) /\ Starting(llmCall[d])
        BY <2>1, <3>1 DEF LlamaPlace
      <4>2. llmCall[d].model \in LlmModels
        BY <4>1, LlmRow DEF Starting
      <4> QED BY <4>1, <4>2 DEF StartPlace, Starting
    <3>2. CASE ~Starting(llmCall'[d])
      BY <3>2 DEF StartPlace, Starting
    <3> QED BY <3>1, <3>2
  <2> QED BY <2>1, <2>3, <2>4 DEF LlamaPlace, Starting
<1> QED BY <1>1, <1>2 DEF LlmInv

\* A step that leaves llama-server alone and begins no start.
LEMMA LlmQuietStep ==
  ASSUME LlmInv, NEW c \in LlmCallers, NEW row, WellTyped(row), ~Starting(row),
         llmCall' = [llmCall EXCEPT ![c] = row], OllamaTyped', UNCHANGED llamaState
  PROVE  LlmInv'
<1>1. LlamaTyped'
  BY TypedApart DEF LlmInv, llamaState, LlamaTyped
<1> QED BY <1>1, LlmOutsideStep DEF llamaState

\* A step of a start: while it is under way, there is no other.
LEMMA LlmStartStep ==
  ASSUME LlmInv, NEW c \in LlmCallers, NEW row, WellTyped(row),
         llmCall' = [llmCall EXCEPT ![c] = row], OllamaTyped', LlamaTyped',
         ~overlapped' => /\ \A d \in LlmCallers \ {c} : ~Starting(llmCall[d])
                         /\ StartPlace(row)' /\ VerifiedUnit' /\ VerifiedServes'
  PROVE  LlmInv'
<1>1. LlmTypeOK'
  BY RowsTyped DEF LlmTypeOK, OllamaTyped, LlamaTyped, WellTyped
<1>2. ASSUME ~overlapped' PROVE LlamaPlace'
  <2>1. /\ \A d \in LlmCallers \ {c} : ~Starting(llmCall'[d])
        /\ llmCall'[c] = row
    BY <1>2, RowsTyped
  <2>2. ASSUME NEW d \in LlmCallers PROVE StartPlace(llmCall[d])'
    <3>1. CASE d = c
      BY <1>2, <2>1, <3>1 DEF StartPlace, Starting
    <3>2. CASE d # c
      BY <2>1, <3>2 DEF StartPlace, Starting
    <3> QED BY <3>1, <3>2
  <2> QED BY <1>2, <2>1, <2>2 DEF LlamaPlace, Starting
<1> QED BY <1>1, <1>2 DEF LlmInv

\* A call that goes on differs in its stage.
Stages == {"ensure", "retire", "unit", "wait", "pull", "probe", "artifact", "validate",
           "unload", "manifest", "port", "start", "ready"}
Staged(call, pc) == [call EXCEPT !.pc = pc]

\* A call that goes to another stage of the same operation is well typed.
LEMMA StageTyped ==
  ASSUME LlmInv, NEW c \in LlmCallers, NEW pc \in Stages
  PROVE  /\ WellTyped(Staged(llmCall[c], pc))
         /\ Staged(llmCall[c], pc).pc = pc
         /\ Staged(llmCall[c], pc).op = llmCall[c].op
         /\ Staged(llmCall[c], pc).model = llmCall[c].model
         /\ LlmTo(c, pc) => llmCall' = [llmCall EXCEPT ![c] = Staged(llmCall[c], pc)]
<1>1. llmCall[c] \in LlmRows /\ pc \in {"ensure", "retire", "unit", "wait", "pull", "probe", "artifact", "validate",
           "unload", "manifest", "port", "start", "ready"}
  BY LlmRow DEF Stages
<1>2. PICK row : row = Staged(llmCall[c], pc)
  OBVIOUS
<1>3. row \in LlmRows /\ row.pc = pc /\ row.op = llmCall[c].op /\ row.model = llmCall[c].model /\ row.file = llmCall[c].file
  BY <1>1, <1>2 DEF LlmRows, Staged
<1>4. WellTyped(row)
  BY <1>1, <1>3, LlmRow DEF WellTyped
<1>5. LlmTo(c, pc) => llmCall' = [llmCall EXCEPT ![c] = Staged(llmCall[c], pc)]
  BY DEF LlmTo, LlmInv, LlmTypeOK, Staged
<1> QED BY <1>2, <1>3, <1>4, <1>5
\* The calls of Ollama begin.
LEMMA OllamaBegins ==
  ASSUME LlmInv, NEW c \in LlmCallers,
         \/ \E m \in LlmModels : \/ \E d \in BOOLEAN : InstallOllamaModel(c, m, d)
                                 \/ \E n \in ContextSizes : ConfigureOllamaModelContext(c, m, n)
         \/ StartOllamaRuntime(c)
  PROVE  LlmInv'
<1>0. OllamaTyped /\ ollamaFile \in OllamaFiles
  BY TypedApart DEF LlmInv, OllamaTyped
<1>1. UNCHANGED <<ollamaState, llamaState>>
  BY DEF InstallOllamaModel, ConfigureOllamaModelContext, StartOllamaRuntime
<1>2. \E row : WellTyped(row) /\ ~Starting(row) /\ llmCall' = [llmCall EXCEPT ![c] = row]
  <2>1. ASSUME NEW m \in LlmModels, NEW d \in BOOLEAN, InstallOllamaModel(c, m, d)
        PROVE  \E row : WellTyped(row) /\ ~Starting(row) /\ llmCall' = [llmCall EXCEPT ![c] = row]
    <3> DEFINE file == IF d THEN [ollamaFile EXCEPT !.default = m] ELSE ollamaFile
               call == [NoCall EXCEPT !.op = "ollama", !.pc = "save", !.model = m, !.file = file]
    <3>1. file \in OllamaFiles
      BY <1>0 DEF OllamaFiles
    <3>2. llmCall' = [llmCall EXCEPT ![c] = call]
      BY <2>1 DEF InstallOllamaModel, LlmBegins, loadOllamaRuntimeConfig
    <3>3. call \in LlmRows /\ call.op = "ollama" /\ call.file = file
      <4> HIDE DEF file
      <4> QED BY <3>1 DEF NoCall, LlmRows
    <3>4. WellTyped(call) /\ ~Starting(call)
      <4> HIDE DEF call, file
      <4> QED BY <3>1, <3>3 DEF WellTyped, Starting
    <3> QED BY <3>2, <3>4
  <2>2. ASSUME NEW m \in LlmModels, NEW n \in ContextSizes, ConfigureOllamaModelContext(c, m, n)
        PROVE  \E row : WellTyped(row) /\ ~Starting(row) /\ llmCall' = [llmCall EXCEPT ![c] = row]
    <3> DEFINE call == [NoCall EXCEPT !.op = "context", !.pc = "create", !.model = m, !.size = n, !.file = ollamaFile]
    <3>1. llmCall' = [llmCall EXCEPT ![c] = call]
      BY <2>2 DEF ConfigureOllamaModelContext, LlmBegins, loadOllamaRuntimeConfig
    <3>2. call \in LlmRows /\ call.op = "context" /\ call.file = ollamaFile /\ call.model = m
      BY <1>0 DEF NoCall, LlmRows
    <3>3. WellTyped(call) /\ ~Starting(call)
      <4> HIDE DEF call
      <4> QED BY <1>0, <3>2 DEF WellTyped, Starting
    <3> QED BY <3>1, <3>3
  <2>3. CASE StartOllamaRuntime(c)
    <3> DEFINE call == [NoCall EXCEPT !.op = "ollama", !.pc = "ensure"]
    <3>1. llmCall' = [llmCall EXCEPT ![c] = call]
      BY <2>3 DEF StartOllamaRuntime, LlmBegins
    <3>2. call \in LlmRows /\ call.op = "ollama" /\ call.pc = "ensure"
      BY DEF NoCall, LlmRows
    <3>3. WellTyped(call) /\ ~Starting(call)
      <4> HIDE DEF call
      <4> QED BY <3>2 DEF WellTyped, Starting
    <3> QED BY <3>1, <3>3
  <2> QED BY <2>1, <2>2, <2>3
<1>3. OllamaTyped'
  BY <1>0, <1>1 DEF ollamaState, OllamaTyped
<1> QED BY <1>1, <1>2, <1>3, LlmQuietStep

\* The stages of an installation, a start and a context alias of Ollama.
LEMMA OllamaStages ==
  ASSUME LlmInv, NEW c \in LlmCallers,
         \/ SavesInstall(c) \/ ensureOllamaRuntime(c) \/ retireOllamaUnitRacedByExternalOwner(c)
         \/ renderOllamaSystemdUnit(c) \/ waitForOllamaAPI(c) \/ pullOllamaModel(c) \/ ProbeOllama(c)
         \/ createContextAlias(c) \/ SavesContext(c)
  PROVE  LlmInv'
<1>0. /\ OllamaTyped /\ llmCall[c] \in LlmRows /\ WellTyped(NoCall) /\ ~Starting(NoCall)
      /\ llmCall[c].op \in {"ollama", "context"}
  BY TypedApart, LlmRow DEF LlmInv, WellTyped, SavesInstall, ensureOllamaRuntime, retireOllamaUnitRacedByExternalOwner,
     renderOllamaSystemdUnit, waitForOllamaAPI, pullOllamaModel, ProbeOllama, createContextAlias, SavesContext, LlmAt
<1>1. \E row : WellTyped(row) /\ ~Starting(row) /\ llmCall' = [llmCall EXCEPT ![c] = row]
  <2>1. LlmEnds(c) \/ \E pc \in {"ensure", "retire", "unit", "wait", "pull", "probe"} : LlmTo(c, pc)
        \/ (LlmAt(c, "context", "create") /\ LlmTo(c, "save"))
    BY DEF SavesInstall, ensureOllamaRuntime, retireOllamaUnitRacedByExternalOwner,
     renderOllamaSystemdUnit, waitForOllamaAPI, pullOllamaModel, ProbeOllama, createContextAlias, SavesContext
  <2>2. CASE LlmEnds(c)
    BY <1>0, <2>2 DEF LlmEnds
  <2>3. ASSUME NEW pc \in {"ensure", "retire", "unit", "wait", "pull", "probe"}, LlmTo(c, pc)
        PROVE  \E row : WellTyped(row) /\ ~Starting(row) /\ llmCall' = [llmCall EXCEPT ![c] = row]
    <3>1. pc \in Stages
      BY DEF Stages
    <3>2. /\ WellTyped(Staged(llmCall[c], pc)) /\ Staged(llmCall[c], pc).op = llmCall[c].op
          /\ llmCall' = [llmCall EXCEPT ![c] = Staged(llmCall[c], pc)]
      BY <2>3, <3>1, StageTyped
    <3> QED BY <1>0, <3>2 DEF Starting
  <2>4. CASE LlmAt(c, "context", "create") /\ LlmTo(c, "save")
    <3> DEFINE call == [llmCall[c] EXCEPT !.pc = "save"]
    <3>1. call \in LlmRows /\ call.op = "context" /\ call.file = llmCall[c].file /\ call.model = llmCall[c].model
      BY <1>0, <2>4 DEF LlmAt, LlmRows
    <3>2. WellTyped(call) /\ ~Starting(call)
      <4>1. llmCall[c].op = "context"
        BY <2>4 DEF LlmAt
      <4> HIDE DEF call
      <4> QED BY <3>1, <4>1, LlmRow DEF WellTyped, Starting
    <3>3. llmCall' = [llmCall EXCEPT ![c] = call]
      BY <2>4 DEF LlmTo, LlmInv, LlmTypeOK
    <3> QED BY <3>2, <3>3
  <2> QED BY <2>1, <2>2, <2>3, <2>4
<1>2. OllamaTyped'
  <2>1. CASE SavesInstall(c)
    <3>1. llmCall[c].file \in OllamaFiles
      BY <2>1, LlmRow DEF SavesInstall, LlmAt
    <3> QED BY <1>0, <2>1, <3>1 DEF SavesInstall, saveOllamaRuntimeConfig, OllamaTyped
  <2>2. CASE SavesContext(c)
    <3>1. /\ llmCall[c].file \in OllamaFiles /\ llmCall[c].model \in LlmModels
          /\ llmCall[c].size \in ContextSizes \cup {0}
      BY <1>0, <2>2, LlmRow DEF SavesContext, LlmAt, LlmRows
    <3>2. PICK file \in OllamaFiles : file = llmCall[c].file
      BY <3>1
    <3>3. PICK context \in [LlmModels -> ContextSizes \cup {0}] :
            context = [file.context EXCEPT ![llmCall[c].model] = llmCall[c].size]
      BY <3>1, <3>2 DEF OllamaFiles
    <3>4. [file EXCEPT !.context = context] \in OllamaFiles
      BY <3>3 DEF OllamaFiles
    <3>5. ollamaFile' = [file EXCEPT !.context = context]
      BY <2>2, <3>2, <3>3 DEF SavesContext, saveOllamaRuntimeConfig, OllamaFiles
    <3> QED BY <1>0, <2>2, <3>4, <3>5 DEF SavesContext, OllamaTyped
  <2>3. CASE pullOllamaModel(c)
    <3>1. CASE UNCHANGED ollamaModels
      BY <1>0, <2>3, <3>1 DEF pullOllamaModel, OllamaTyped
    <3>2. CASE ollamaModels' # ollamaModels
      <4>1. PICK m \in LlmModels : ollamaModels' = [ollamaModels EXCEPT ![m].pulled = TRUE]
        BY <1>0, <2>3, <3>2 DEF pullOllamaModel, LlmRows
      <4>2. ollamaModels[m] \in [pulled : BOOLEAN, context : ContextSizes \cup {0}]
        BY <1>0 DEF OllamaTyped
      <4>3. [ollamaModels[m] EXCEPT !.pulled = TRUE] \in [pulled : BOOLEAN, context : ContextSizes \cup {0}]
        BY <4>2
      <4>4. ollamaModels' = [ollamaModels EXCEPT ![m] = [ollamaModels[m] EXCEPT !.pulled = TRUE]]
        BY <4>1, <1>0 DEF OllamaTyped
      <4> QED BY <1>0, <2>3, <4>3, <4>4 DEF pullOllamaModel, OllamaTyped
    <3> QED BY <3>1, <3>2
  <2>4. CASE createContextAlias(c)
    <3>1. CASE UNCHANGED ollamaModels
      BY <1>0, <2>4, <3>1 DEF createContextAlias, OllamaTyped
    <3>2. CASE ollamaModels' # ollamaModels
      <4>1. PICK m \in LlmModels, n \in ContextSizes \cup {0} : ollamaModels' = [ollamaModels EXCEPT ![m].context = n]
        BY <1>0, <2>4, <3>2, LlmRow DEF createContextAlias, LlmAt, LlmRows
      <4>2. ollamaModels[m] \in [pulled : BOOLEAN, context : ContextSizes \cup {0}]
        BY <1>0 DEF OllamaTyped
      <4>3. [ollamaModels[m] EXCEPT !.context = n] \in [pulled : BOOLEAN, context : ContextSizes \cup {0}]
        BY <4>2
      <4>4. ollamaModels' = [ollamaModels EXCEPT ![m] = [ollamaModels[m] EXCEPT !.context = n]]
        BY <4>1, <1>0 DEF OllamaTyped
      <4> QED BY <1>0, <2>4, <4>3, <4>4 DEF createContextAlias, OllamaTyped
    <3> QED BY <3>1, <3>2
  <2>5. CASE \/ ensureOllamaRuntime(c) \/ retireOllamaUnitRacedByExternalOwner(c) \/ renderOllamaSystemdUnit(c)
             \/ waitForOllamaAPI(c) \/ ProbeOllama(c)
    BY <1>0, <2>5 DEF ensureOllamaRuntime, retireOllamaUnitRacedByExternalOwner, renderOllamaSystemdUnit,
                      waitForOllamaAPI, ProbeOllama, ollamaState, OllamaTyped
  <2> QED BY <2>1, <2>2, <2>3, <2>4, <2>5
<1>3. UNCHANGED llamaState
  BY DEF SavesInstall, ensureOllamaRuntime, retireOllamaUnitRacedByExternalOwner,
     renderOllamaSystemdUnit, waitForOllamaAPI, pullOllamaModel, ProbeOllama, createContextAlias, SavesContext
<1> QED BY <1>1, <1>2, <1>3, LlmQuietStep
\* The calls of llama-server outside a start.
LEMMA LlamaBegins ==
  ASSUME LlmInv, NEW c \in LlmCallers,
         \/ \E rev \in Revisions : \/ EnsureLlamaServerBinary(c, rev)
                                   \/ \E m \in LlmModels : InstallLlamaServerModel(c, m, rev)
         \/ StartLlamaServerRuntime(c)
  PROVE  LlmInv'
<1>1. UNCHANGED <<ollamaState, llamaState>>
  BY DEF EnsureLlamaServerBinary, InstallLlamaServerModel, StartLlamaServerRuntime
<1>2. \E row : WellTyped(row) /\ ~Starting(row) /\ llmCall' = [llmCall EXCEPT ![c] = row]
  <2>1. ASSUME NEW m \in LlmModels, NEW rev \in Revisions \cup {NoModel}, NEW pc \in {"binary", "validate"}
        PROVE  LET call == [NoCall EXCEPT !.op = "llama", !.pc = pc, !.model = m, !.rev = rev]
               IN WellTyped(call) /\ ~Starting(call)
    <3> DEFINE call == [NoCall EXCEPT !.op = "llama", !.pc = pc, !.model = m, !.rev = rev]
    <3>1. call \in LlmRows /\ call.op = "llama" /\ call.pc = pc /\ call.model = m
      BY DEF NoCall, LlmRows
    <3> SUFFICES WellTyped(call) /\ ~Starting(call)
      OBVIOUS
    <3> HIDE DEF call
    <3> QED BY <3>1 DEF WellTyped, Starting
  <2>2. ASSUME NEW rev \in Revisions, EnsureLlamaServerBinary(c, rev)
        PROVE  \E row : WellTyped(row) /\ ~Starting(row) /\ llmCall' = [llmCall EXCEPT ![c] = row]
    <3> DEFINE call == [NoCall EXCEPT !.op = "build", !.pc = "build", !.rev = rev]
    <3>1. call \in LlmRows /\ call.op = "build" /\ call.pc = "build"
      BY DEF NoCall, LlmRows
    <3>2. WellTyped(call) /\ ~Starting(call)
      <4> HIDE DEF call
      <4> QED BY <3>1 DEF WellTyped, Starting
    <3> QED BY <2>2, <3>2 DEF EnsureLlamaServerBinary, LlmBegins
  <2>3. ASSUME NEW rev \in Revisions, NEW m \in LlmModels, InstallLlamaServerModel(c, m, rev)
        PROVE  \E row : WellTyped(row) /\ ~Starting(row) /\ llmCall' = [llmCall EXCEPT ![c] = row]
    BY <2>1, <2>3 DEF InstallLlamaServerModel, LlmBegins
  <2>4. ASSUME StartLlamaServerRuntime(c)
        PROVE  \E row : WellTyped(row) /\ ~Starting(row) /\ llmCall' = [llmCall EXCEPT ![c] = row]
    <3>1. llamaFile.model \in LlmModels /\ llamaFile.rev \in Revisions \cup {NoModel}
      BY <2>4 DEF StartLlamaServerRuntime, LlmInv, LlmTypeOK
    <3> QED BY <2>1, <2>4, <3>1 DEF StartLlamaServerRuntime, LlmBegins
  <2> QED BY <2>2, <2>3, <2>4
<1>3. OllamaTyped'
  BY <1>1, TypedApart DEF LlmInv, ollamaState, OllamaTyped
<1> QED BY <1>1, <1>2, <1>3, LlmQuietStep

\* Fetching, building and probing change nothing that a start relies on.
LEMMA LlamaOutside ==
  ASSUME LlmInv, NEW c \in LlmCallers,
         \/ installsBinary(c) \/ buildsMissing(c) \/ fetchesArtifact(c) \/ llamaReady(c) \/ ProbeLlamaServer(c)
  PROVE  LlmInv'
<1>0. OllamaTyped /\ LlamaTyped /\ llmCall[c] \in LlmRows /\ WellTyped(NoCall) /\ ~Starting(NoCall)
  BY TypedApart, LlmRow DEF LlmInv, WellTyped
<1>1. \E row : WellTyped(row) /\ ~Starting(row) /\ llmCall' = [llmCall EXCEPT ![c] = row]
  <2>1. LlmEnds(c) \/ \E pc \in {"artifact", "validate", "probe"} : LlmTo(c, pc)
    BY DEF installsBinary, buildsMissing, fetchesArtifact, llamaReady, ProbeLlamaServer
  <2>2. CASE LlmEnds(c)
    BY <1>0, <2>2 DEF LlmEnds
  <2>3. ASSUME NEW pc \in {"artifact", "validate", "probe"}, LlmTo(c, pc)
        PROVE  \E row : WellTyped(row) /\ ~Starting(row) /\ llmCall' = [llmCall EXCEPT ![c] = row]
    <3>1. pc \in Stages
      BY DEF Stages
    <3>2. /\ WellTyped(Staged(llmCall[c], pc)) /\ Staged(llmCall[c], pc).pc = pc
          /\ llmCall' = [llmCall EXCEPT ![c] = Staged(llmCall[c], pc)]
      BY <2>3, <3>1, StageTyped
    <3> QED BY <3>2 DEF Starting
  <2> QED BY <2>1, <2>2, <2>3
<1>2. /\ UNCHANGED <<ollamaState, llamaFile, llamaUnit, llamaServes, portOwner, overlapped>>
      /\ binary' \in Revisions \cup {NoModel}
      /\ UNCHANGED artifact \/ \E m \in LlmModels : artifact' = [artifact EXCEPT ![m] = "good"]
  <2>1. llmCall[c].rev \in Revisions \cup {NoModel} /\ binary \in Revisions \cup {NoModel}
    BY <1>0 DEF LlmRows, LlamaTyped
  <2>2. fetchesArtifact(c) => llmCall[c].model \in LlmModels
    BY LlmRow DEF fetchesArtifact, LlmAt
  <2> QED BY <2>1, <2>2 DEF installsBinary, buildsMissing, fetchesArtifact, llamaReady, ProbeLlamaServer,
                            downloadVerifiedLlamaFile, llamaState
<1>3. LlamaTyped' /\ \A m \in LlmModels : artifact[m] = "good" => artifact'[m] = "good"
  BY <1>0, <1>2 DEF LlamaTyped
<1>4. OllamaTyped'
  BY <1>0, <1>2 DEF OllamaTyped, ollamaState
<1> QED BY <1>1, <1>2, <1>3, <1>4, LlmOutsideStep
\* The stages of a start.
LEMMA StartKeepsLlm ==
  ASSUME LlmInv, NEW c \in LlmCallers,
         \/ validateLlamaServerConfig(c) \/ startLlamaServerRuntime(c) \/ saveLlamaServerConfig(c)
         \/ releaseRecognizedLlamaPort(c) \/ restartLlamaUnit(c)
  PROVE  LlmInv'
<1>0. /\ OllamaTyped /\ LlamaTyped /\ llmCall[c] \in LlmRows /\ WellTyped(NoCall) /\ ~Starting(NoCall)
      /\ llmCall[c].op = "llama" /\ llmCall[c].model \in LlmModels /\ StartPlace(NoCall)'
  BY TypedApart, LlmRow DEF LlmInv, WellTyped, Starting, StartPlace, validateLlamaServerConfig, startLlamaServerRuntime,
     saveLlamaServerConfig, releaseRecognizedLlamaPort, restartLlamaUnit, LlmAt
<1>1. OllamaTyped'
  BY <1>0 DEF validateLlamaServerConfig, startLlamaServerRuntime, saveLlamaServerConfig,
     releaseRecognizedLlamaPort, restartLlamaUnit, OllamaTyped, ollamaState
<1>2. LlamaTyped'
  <2>1. CASE validateLlamaServerConfig(c)
    BY <1>0, <2>1 DEF validateLlamaServerConfig, LlamaTyped
  <2>2. CASE startLlamaServerRuntime(c)
    <3>1. llamaUnit' = [llamaUnit EXCEPT !.enabled = FALSE] /\ llamaServes' = NoModel
      BY <2>2 DEF startLlamaServerRuntime, Unloaded
    <3> QED BY <1>0, <2>2, <3>1 DEF startLlamaServerRuntime, LlamaTyped
  <2>3. CASE saveLlamaServerConfig(c)
    BY <1>0, <2>3 DEF saveLlamaServerConfig, LlamaTyped, LlmRows
  <2>4. CASE releaseRecognizedLlamaPort(c)
    BY <1>0, <2>4 DEF releaseRecognizedLlamaPort, LlamaTyped
  <2>5. CASE restartLlamaUnit(c)
    BY <1>0, <2>5 DEF restartLlamaUnit, LlamaTyped
  <2> QED BY <2>1, <2>2, <2>3, <2>4, <2>5
<1>3. ASSUME ~overlapped
      PROVE  LlamaPlace /\ (Starting(llmCall[c]) => \A d \in LlmCallers \ {c} : ~Starting(llmCall[d]))
  BY <1>3 DEF LlmInv, LlamaPlace
<1>4. CASE validateLlamaServerConfig(c)
  <2>1. CASE ~(verifyLlamaArtifact(llmCall[c].model) /\ binary = llmCall[c].rev)
    <3>1. llmCall' = [llmCall EXCEPT ![c] = NoCall] /\ UNCHANGED llamaState
      BY <1>4, <2>1 DEF validateLlamaServerConfig, LlmEnds, llamaState
    <3> QED BY <1>0, <1>1, <3>1, LlmQuietStep
  <2>2. CASE verifyLlamaArtifact(llmCall[c].model) /\ binary = llmCall[c].rev
    <3>1. /\ LlmTo(c, "unload") /\ artifact[llmCall[c].model] = "good" /\ UNCHANGED <<artifact, llamaFile, llamaUnit, llamaServes>>
          /\ overlapped' = (overlapped \/ \E d \in LlmCallers :
                              llmCall[d].op = "llama" /\ llmCall[d].pc \in {"unload", "manifest", "port", "start"})
      BY <1>4, <2>2 DEF validateLlamaServerConfig, verifyLlamaArtifact
    <3>2. PICK row : row = Staged(llmCall[c], "unload")
      OBVIOUS
    <3>3. "unload" \in Stages
      BY DEF Stages
    <3>4. /\ WellTyped(row) /\ row.pc = "unload" /\ row.model = llmCall[c].model
          /\ llmCall' = [llmCall EXCEPT ![c] = row]
      BY <3>1, <3>2, <3>3, StageTyped
    <3>5. ~overlapped' => ~overlapped /\ \A d \in LlmCallers : ~Starting(llmCall[d])
      BY <3>1 DEF Starting
    <3>6. ~overlapped' => StartPlace(row)' /\ VerifiedUnit' /\ VerifiedServes'
      BY <1>3, <3>1, <3>4, <3>5 DEF StartPlace, Starting, LlamaPlace, VerifiedUnit, VerifiedServes
    <3> QED BY <1>1, <1>2, <3>4, <3>5, <3>6, LlmStartStep
  <2> QED BY <2>1, <2>2
<1>5. CASE startLlamaServerRuntime(c)
  <2>1. /\ ~llamaUnit'.enabled /\ llamaServes' = NoModel /\ UNCHANGED <<artifact, llamaFile, overlapped>>
        /\ Starting(llmCall[c])
    BY <1>0, <1>5 DEF startLlamaServerRuntime, Unloaded, Starting, LlmAt, LlamaTyped
  <2>2. VerifiedUnit' /\ VerifiedServes'
    BY <2>1 DEF VerifiedUnit, VerifiedServes
  <2>3. CASE LlmEnds(c)
    <3>1. llmCall' = [llmCall EXCEPT ![c] = NoCall]
      BY <2>3 DEF LlmEnds
    <3> QED BY <1>0, <1>1, <1>2, <1>3, <2>1, <2>2, <3>1, LlmStartStep
  <2>4. CASE LlmTo(c, "manifest")
    <3>1. PICK row : row = Staged(llmCall[c], "manifest")
      OBVIOUS
    <3>2. "manifest" \in Stages
      BY DEF Stages
    <3>3. /\ WellTyped(row) /\ row.pc = "manifest" /\ row.model = llmCall[c].model
          /\ llmCall' = [llmCall EXCEPT ![c] = row]
      BY <2>4, <3>1, <3>2, StageTyped
    <3>4. ~overlapped' => StartPlace(row)'
      BY <1>3, <2>1, <3>3 DEF LlamaPlace, StartPlace, Starting
    <3> QED BY <1>1, <1>2, <1>3, <2>1, <2>2, <3>3, <3>4, LlmStartStep
  <2> QED BY <1>5, <2>3, <2>4 DEF startLlamaServerRuntime
<1>6. CASE saveLlamaServerConfig(c)
  <2>1. /\ llamaFile'.model = llmCall[c].model /\ UNCHANGED <<artifact, llamaUnit, llamaServes, overlapped>>
        /\ Starting(llmCall[c]) /\ llmCall[c].pc = "manifest" /\ LlmTo(c, "port")
    BY <1>0, <1>6 DEF saveLlamaServerConfig, Starting, LlmAt
  <2>2. PICK row : row = Staged(llmCall[c], "port")
    OBVIOUS
  <2>3. "port" \in Stages
    BY DEF Stages
  <2>4. /\ WellTyped(row) /\ row.pc = "port" /\ row.model = llmCall[c].model
        /\ llmCall' = [llmCall EXCEPT ![c] = row]
    BY <2>1, <2>2, <2>3, StageTyped
  <2>5. ~overlapped' => StartPlace(row)' /\ VerifiedUnit' /\ VerifiedServes'
    BY <1>3, <2>1, <2>4 DEF LlamaPlace, StartPlace, Starting, VerifiedUnit, VerifiedServes
  <2> QED BY <1>1, <1>2, <1>3, <2>1, <2>4, <2>5, LlmStartStep
<1>7. CASE releaseRecognizedLlamaPort(c)
  <2>1. /\ llamaServes' \in {llamaServes, NoModel} /\ UNCHANGED <<artifact, llamaFile, llamaUnit, overlapped>>
        /\ Starting(llmCall[c]) /\ llmCall[c].pc = "port"
    BY <1>0, <1>7 DEF releaseRecognizedLlamaPort, Starting, LlmAt
  <2>2. ~overlapped' => VerifiedUnit' /\ VerifiedServes'
    BY <1>3, <2>1 DEF LlamaPlace, VerifiedUnit, VerifiedServes
  <2>3. CASE LlmEnds(c)
    <3>1. llmCall' = [llmCall EXCEPT ![c] = NoCall]
      BY <2>3 DEF LlmEnds
    <3> QED BY <1>0, <1>1, <1>2, <1>3, <2>1, <2>2, <3>1, LlmStartStep
  <2>4. CASE LlmTo(c, "start")
    <3>1. PICK row : row = Staged(llmCall[c], "start")
      OBVIOUS
    <3>2. "start" \in Stages
      BY DEF Stages
    <3>3. /\ WellTyped(row) /\ row.pc = "start" /\ row.model = llmCall[c].model
          /\ llmCall' = [llmCall EXCEPT ![c] = row]
      BY <2>4, <3>1, <3>2, StageTyped
    <3>4. ~overlapped' => StartPlace(row)'
      BY <1>3, <2>1, <3>3 DEF LlamaPlace, StartPlace, Starting
    <3> QED BY <1>1, <1>2, <1>3, <2>1, <2>2, <3>3, <3>4, LlmStartStep
  <2> QED BY <1>7, <2>3, <2>4 DEF releaseRecognizedLlamaPort
<1>8. CASE restartLlamaUnit(c)
  <2>1. /\ llamaUnit' = [model |-> llmCall[c].model, enabled |-> TRUE] /\ llamaServes' \in {llmCall[c].model, NoModel}
        /\ UNCHANGED <<artifact, llamaFile, overlapped>>
        /\ Starting(llmCall[c]) /\ llmCall[c].pc = "start" /\ LlmTo(c, "ready")
    BY <1>0, <1>8 DEF restartLlamaUnit, Starting, LlmAt
  <2>2. PICK row : row = Staged(llmCall[c], "ready")
    OBVIOUS
  <2>3. "ready" \in Stages
    BY DEF Stages
  <2>4. /\ WellTyped(row) /\ row.pc = "ready" /\ llmCall' = [llmCall EXCEPT ![c] = row]
    BY <2>1, <2>2, <2>3, StageTyped
  <2>5. ~overlapped' => StartPlace(row)' /\ VerifiedUnit' /\ VerifiedServes'
    BY <1>0, <1>3, <2>1, <2>4 DEF LlamaPlace, StartPlace, Starting, VerifiedUnit, VerifiedServes
  <2> QED BY <1>1, <1>2, <1>3, <2>1, <2>4, <2>5, LlmStartStep
<1> QED BY <1>4, <1>5, <1>6, <1>7, <1>8

\* The runtimes' own processes and their owners: a model that systemd starts
\* anew is the unit's.
LEMMA LlmAround ==
  ASSUME LlmInv, OllamaApiChanges \/ StopLlamaServerRuntime \/ LlamaProcess
  PROVE  LlmInv'
<1>0. LlmTypeOK /\ UNCHANGED llmCall
  BY DEF LlmInv, OllamaApiChanges, StopLlamaServerRuntime, LlamaProcess
<1>1. CASE OllamaApiChanges
  BY <1>0, <1>1 DEF OllamaApiChanges, llamaState, LlmInv, LlmTypeOK, LlamaPlace, StartPlace, Starting, VerifiedUnit, VerifiedServes
<1>2. CASE StopLlamaServerRuntime
  <2>1. /\ UNCHANGED <<ollamaState, llamaFile, artifact, binary, portOwner, overlapped>>
        /\ llamaServes' = NoModel /\ ~llamaUnit'.enabled
        /\ llamaUnit' \in [model : LlmModels \cup {NoModel}, enabled : BOOLEAN]
    BY <1>0, <1>2 DEF StopLlamaServerRuntime, Unloaded, LlmTypeOK
  <2> QED BY <1>0, <2>1 DEF ollamaState, LlmInv, LlmTypeOK, LlamaPlace, StartPlace, Starting, VerifiedUnit, VerifiedServes
<1>3. CASE LlamaProcess
  <2>1. UNCHANGED <<ollamaState, llamaFile, llamaUnit, artifact, binary, portOwner, overlapped>>
    BY <1>3 DEF LlamaProcess
  <2>2. llamaServes' = NoModel \/ (llamaUnit.enabled /\ llamaServes' = llamaUnit.model)
    BY <1>3 DEF LlamaProcess
  <2>3. LlmTypeOK'
    BY <1>0, <2>1, <2>2 DEF LlmTypeOK, ollamaState
  <2>4. ASSUME ~overlapped' PROVE LlamaPlace'
    <3>1. LlamaPlace
      BY <2>1, <2>4 DEF LlmInv
    <3>2. VerifiedUnit' /\ VerifiedServes'
      BY <2>1, <2>2, <3>1 DEF LlamaPlace, VerifiedUnit, VerifiedServes
    <3> QED BY <1>0, <2>1, <2>2, <3>1, <3>2 DEF LlamaPlace, StartPlace, Starting
  <2> QED BY <2>3, <2>4 DEF LlmInv
<1> QED BY <1>1, <1>2, <1>3

\* The inductive invariant of the inference runtimes.
THEOREM LlmInvariant == LlmSpec => []LlmInv
<1>1. LlmInv /\ [OllamaNext \/ LlamaNext]_llmVars => LlmInv'
  <2> SUFFICES ASSUME LlmInv, [OllamaNext \/ LlamaNext]_llmVars PROVE LlmInv'
    OBVIOUS
  <2>1. CASE UNCHANGED llmVars
    BY <2>1 DEF llmVars, ollamaState, llamaState, LlmInv, LlmTypeOK, LlamaPlace, StartPlace, Starting, VerifiedUnit, VerifiedServes
  <2>2. CASE OllamaNext
    BY <2>2, OllamaBegins, OllamaStages, LlmAround DEF OllamaNext
  <2>3. CASE LlamaNext
    BY <2>3, LlamaBegins, LlamaOutside, StartKeepsLlm, LlmAround DEF LlamaNext
  <2> QED BY <2>1, <2>2, <2>3
<1> QED BY LlmInitial, <1>1, PTL DEF LlmSpec

\* What llama-server serves is the verified artifact of the saved manifest,
\* unless two starts ran at once (startLlamaServerRuntime, validateLlamaServerConfig).
THEOREM ServedModelIsPinned == LlmSpec => []ServedIsPinned
<1>1. LlmInv => ServedIsPinned
  BY DEF LlmInv, LlamaPlace, VerifiedServes, ServedIsPinned
<1> QED BY LlmInvariant, <1>1, PTL
----------------------------------------------------------------------------
\* Incus.  An instance of another agent that call has seen from its beginning.
Claimed(call, n) == n \in Foreign /\ <<n, instances[n].made>> \in call.foreign

Commanding(call) == call.pc \notin {"idle", "reset", "reinstall"}
Resetting(call) == call.pc \in {"reset", "reset-delete", "reset-record", "reinstall"}
\* What is left of a call on a named instance, and what only reads it.
Reading == {"await", "vm-update", "vm-deregister"}
Named == OnNamed \cup Reading
ByName(pc) == OwnershipMode = "audit" /\ pc \in Named

\* A call never works on an instance it has seen as another agent's, unless it
\* was asked for by name while ownership is not enforced; and what it has seen is
\* older than whatever is created from now on.  Resets run only where it is.
IncusPlace(call) ==
  /\ Commanding(call) => call.name \in IncusNames /\ (~Claimed(call, call.name) \/ ByName(call.pc))
  /\ Resetting(call) => call.mine \in Checkpoints /\ OwnershipMode = "enforce"
  /\ \A p \in call.foreign : p[2] <= troubles

IncusInv ==
  /\ IncusTypeOK /\ troubles \in Nat
  /\ \A n \in Foreign : instances[n].made <= troubles
  /\ \A c \in IncusCallers : IncusPlace(incusCall[c])

\* A call that is over relies on nothing.
LEMMA IdleCall ==
  /\ NoIncusCall \in IncusRows /\ IncusPlace(NoIncusCall) /\ IncusPlace(NoIncusCall)'
BY DEF NoIncusCall, IncusRows, IncusPlace, Commanding, Resetting

\* No instance of another agent has been seen by a call at first.
LEMMA IncusInitial == IncusInit /\ BudgetInit => IncusInv
<1> SUFFICES ASSUME IncusInit, BudgetInit PROVE IncusInv
  OBVIOUS
<1>1. PICK k \in {"vm", "container"}, f \in {{}} \cup {{n} : n \in IncusNames} :
        instances = [i \in IncusNames |->
          IF i \in f THEN [owner |-> "other", kind |-> k, up |-> TRUE, size |-> 0, limit |-> 0, made |-> 0] ELSE NoInstance]
  BY DEF IncusInit
<1>2. [owner |-> "other", kind |-> k, up |-> TRUE, size |-> 0, limit |-> 0, made |-> 0] \in Instances
  BY DEF Instances
<1>3. instances \in [IncusNames -> Instances \cup {NoInstance}]
  BY <1>1, <1>2
<1>4. \A n \in Foreign : instances[n].made <= troubles
  BY <1>1 DEF Foreign, Exists, BudgetInit
<1>5. incusCall \in [IncusCallers -> IncusRows] /\ \A c \in IncusCallers : IncusPlace(incusCall[c])
  BY IdleCall DEF IncusInit
<1> QED BY <1>3, <1>4, <1>5 DEF IncusInit, BudgetInit, IncusInv, IncusTypeOK

\* What a command may put at a name: nothing of another agent's, unless it is
\* the instance that was there.
Mild(n, i) ==
  /\ i \in Instances \cup {NoInstance}
  /\ i # NoInstance /\ i.owner = "other" => n \in Foreign /\ i.made = instances[n].made

\* What a step of a call does to the instances: nothing, or a command at the
\* name it works on, or one at a name nobody has.
Touches(c) ==
  \/ UNCHANGED instances
  \/ \E n \in IncusNames, i \in Instances \cup {NoInstance} :
       /\ instances' = [instances EXCEPT ![n] = i] /\ Mild(n, i)
       /\ (Commanding(incusCall[c]) /\ incusCall[c].pc \notin Reading /\ n = Name(c)) \/ ~Exists(n)

\* A step of one call that touches only what it may keeps the invariant.
LEMMA IncusStep ==
  ASSUME IncusInv, NEW c \in IncusCallers, Touches(c), UNCHANGED <<troubles, OwnershipMode>>,
         poolEnforces' \in BOOLEAN, registered' \subseteq IncusNames, checkpoint' \in Checkpoints \cup {NoCheckpoint},
         \/ UNCHANGED incusCall
         \/ \E row \in IncusRows : incusCall' = [incusCall EXCEPT ![c] = row] /\ IncusPlace(row)'
  PROVE  IncusInv'
<1>1. instances' \in [IncusNames -> Instances \cup {NoInstance}]
  BY DEF Touches, IncusInv, IncusTypeOK
<1>2. \A n \in IncusNames : n \in Foreign' => n \in Foreign /\ instances'[n].made = instances[n].made
  <2>1. CASE UNCHANGED instances
    BY <2>1 DEF Foreign, Exists
  <2>2. ASSUME NEW n \in IncusNames, NEW i \in Instances \cup {NoInstance},
               instances' = [instances EXCEPT ![n] = i], Mild(n, i)
        PROVE  \A m \in IncusNames : m \in Foreign' => m \in Foreign /\ instances'[m].made = instances[m].made
    BY <2>2 DEF Foreign, Exists, Mild, IncusInv, IncusTypeOK
  <2> QED BY <2>1, <2>2 DEF Touches
<1>3. \A n \in Foreign' : instances'[n].made <= troubles'
  BY <1>2 DEF IncusInv, Foreign
<1>4. ASSUME NEW d \in IncusCallers, incusCall'[d] = incusCall[d] PROVE IncusPlace(incusCall[d])'
  <2>1. IncusPlace(incusCall[d])
    BY DEF IncusInv
  <2>2. Claimed(incusCall[d], incusCall[d].name)' => incusCall[d].name \in IncusNames
    BY <1>4 DEF Claimed, Foreign
  <2>3. Claimed(incusCall[d], incusCall[d].name)' => Claimed(incusCall[d], incusCall[d].name)
    BY <1>2, <1>4, <2>2 DEF Claimed
  <2> QED BY <1>4, <2>1, <2>3 DEF IncusPlace, Commanding, Resetting, ByName
<1>5. incusCall' \in [IncusCallers -> IncusRows] /\ \A d \in IncusCallers : IncusPlace(incusCall[d])'
  <2>1. CASE UNCHANGED incusCall
    BY <2>1, <1>4 DEF IncusInv, IncusTypeOK
  <2>2. ASSUME NEW row \in IncusRows, incusCall' = [incusCall EXCEPT ![c] = row], IncusPlace(row)'
        PROVE  incusCall' \in [IncusCallers -> IncusRows] /\ \A d \in IncusCallers : IncusPlace(incusCall[d])'
    <3>1. incusCall' \in [IncusCallers -> IncusRows] /\ incusCall'[c] = row /\ \A d \in IncusCallers \ {c} : incusCall'[d] = incusCall[d]
      BY <2>2 DEF IncusInv, IncusTypeOK
    <3>2. IncusPlace(incusCall[c])'
      BY <2>2, <3>1 DEF IncusPlace, Claimed, Commanding, Resetting, ByName
    <3> QED BY <1>4, <3>1, <3>2
  <2> QED BY <2>1, <2>2
<1> QED BY <1>1, <1>3, <1>5 DEF IncusInv, IncusTypeOK

\* An instance a call has claimed as another agent's outlives its steps, unless
\* it is the one that an operation without enforcement was asked for.
Spares(c) ==
  \A n \in Foreign : Claimed(incusCall[c], n) =>
    \/ instances'[n] = instances[n]
    \/ OwnershipMode = "audit" /\ incusCall[c].pc \in OnNamed /\ Name(c) = n

\* A step that touches only what the call may touch spares every foreign
\* instance.
LEMMA TouchesSpare ==
  ASSUME IncusInv, NEW c \in IncusCallers, Touches(c)
  PROVE  Spares(c)
<1>1. IncusPlace(incusCall[c])
  BY DEF IncusInv
<1> QED BY <1>1 DEF Touches, Spares, IncusPlace, Claimed, ByName, Named, Foreign, Name, IncusInv, IncusTypeOK

\* The call begins, at a name that is not another agent's or that it was given.
Entries == {"reuse", "admit", "discard", "vm-start", "vm-stop", "vm-restart", "vm-delete", "vm-limits", "vm-update"}
LEMMA EntersPlaced ==
  ASSUME IncusInv, NEW c \in IncusCallers, NEW n \in IncusNames, NEW pc \in Entries,
         NEW k \in {"vm", "container"}, NEW z \in {0} \cup Sizes, NEW l \in {0} \cup Sizes, Enters(c, pc, n, k, z, l),
         n \notin Foreign' \/ ByName(pc), UNCHANGED <<troubles, OwnershipMode>>
  PROVE  \E row \in IncusRows : incusCall' = [incusCall EXCEPT ![c] = row] /\ IncusPlace(row)'
<1>1. ForeignInstances \in SUBSET (IncusNames \X Nat) /\ \A p \in ForeignInstances : p[2] <= troubles
  <2>1. \A m \in Foreign : m \in IncusNames /\ instances[m].made \in Nat /\ instances[m].made <= troubles
    BY DEF Foreign, Exists, Instances, IncusInv, IncusTypeOK
  <2> QED BY <2>1 DEF ForeignInstances
<1> DEFINE call == [NoIncusCall EXCEPT !.pc = pc, !.name = n, !.kind = k, !.size = z, !.limit = l, !.foreign = ForeignInstances]
<1>2. call \in IncusRows /\ call.pc = pc /\ call.name = n /\ call.foreign = ForeignInstances
  <2>1. PICK seen \in SUBSET (IncusNames \X Nat) : seen = ForeignInstances
    BY <1>1
  <2> QED BY <2>1 DEF NoIncusCall, IncusRows, Entries
<1>3. PICK row \in IncusRows : row = call
  BY <1>2
<1>4. row.pc = pc /\ row.name = n /\ \A p \in row.foreign : p[2] <= troubles'
  <2> HIDE DEF call
  <2> QED BY <1>1, <1>2, <1>3
<1>5. IncusPlace(row)'
  BY <1>4 DEF IncusPlace, Commanding, Resetting, Claimed, ByName, Entries
<1>6. incusCall' = [incusCall EXCEPT ![c] = row]
  BY <1>3 DEF Enters
<1> QED BY <1>5, <1>6

\* The call goes on at the same name, or ends.
Goals == {"idle", "admit", "launch", "resize", "start", "attach", "discard", "await",
          "vm-start", "vm-update", "vm-patch", "vm-deregister"}
LEMMA GoesPlaced ==
  ASSUME IncusInv, NEW c \in IncusCallers, Commanding(incusCall[c]), ~Resetting(incusCall[c]), Touches(c), UNCHANGED <<troubles, OwnershipMode>>,
         NEW pc \in Goals, incusCall[c].pc \in Named => pc \in Named \cup {"idle"},
         Goes(c, pc)
  PROVE  \E row \in IncusRows : incusCall' = [incusCall EXCEPT ![c] = row] /\ IncusPlace(row)'
<1>1. CASE pc = "idle"
  BY <1>1, IdleCall DEF Goes
<1>2. CASE pc # "idle"
  <2>1. incusCall[c] \in IncusRows /\ IncusPlace(incusCall[c])
    BY DEF IncusInv, IncusTypeOK
  <2> DEFINE call == [incusCall[c] EXCEPT !.pc = pc]
  <2>2. call \in IncusRows /\ call.pc = pc /\ call.name = incusCall[c].name /\ call.foreign = incusCall[c].foreign
    BY <2>1 DEF IncusRows, Goals
  <2>3. PICK row \in IncusRows : row = call
    BY <2>2
  <2>4. incusCall' = [incusCall EXCEPT ![c] = row]
    BY <1>2, <2>3 DEF Goes, IncusInv, IncusTypeOK
  <2>5. row.pc = pc /\ row.name = incusCall[c].name /\ row.foreign = incusCall[c].foreign
    BY <2>2, <2>3
  <2>6. row.name \in IncusNames /\ (~Claimed(row, row.name) \/ ByName(row.pc))
    BY <1>2, <2>1, <2>5 DEF IncusPlace, Claimed, ByName
  <2>7. ~Claimed(row, row.name)' \/ ByName(row.pc)
    BY <2>6 DEF Claimed, Foreign, Exists, Touches, Mild, IncusInv, IncusTypeOK
  <2>8. IncusPlace(row)'
    BY <1>2, <2>1, <2>5, <2>6, <2>7 DEF IncusPlace, Commanding, Resetting, ByName, Goals
  <2> QED BY <2>4, <2>8
<1> QED BY <1>1, <1>2
\* A step of a call, as IncusStep wants it.
CallStep(c) ==
  /\ Touches(c) /\ UNCHANGED <<troubles, OwnershipMode>>
  /\ poolEnforces' \in BOOLEAN /\ registered' \subseteq IncusNames /\ checkpoint' \in Checkpoints \cup {NoCheckpoint}
  /\ \/ UNCHANGED incusCall
     \/ \E row \in IncusRows : incusCall' = [incusCall EXCEPT ![c] = row] /\ IncusPlace(row)'

\* A step that leaves the instances alone.
LEMMA KeepsTyped ==
  ASSUME IncusInv, NEW c \in IncusCallers, Keeps
  PROVE  /\ Touches(c) /\ poolEnforces' \in BOOLEAN /\ UNCHANGED OwnershipMode /\ registered' \subseteq IncusNames
         /\ checkpoint' \in Checkpoints \cup {NoCheckpoint} /\ Foreign' = Foreign
BY DEF Keeps, settings, Touches, IncusInv, IncusTypeOK, Foreign, Exists

\* Provisioning, reuse, the scoped operations and the GPU probe begin.
LEMMA IncusBegins ==
  ASSUME IncusInv, NEW c \in IncusCallers, NEW n \in IncusNames,
         \/ \E k \in {"vm", "container"}, named, explicit \in BOOLEAN, z \in Sizes :
              provisionVM(c, n, k, named, z, explicit)
         \/ ProvisionContainerReuse(c, n)
         \/ \E op \in {"vm-start", "vm-stop", "vm-restart", "vm-delete"} : Scoped(c, op, n, 0)
         \/ \E op \in {"vm-limits", "vm-update"}, z \in Sizes : Scoped(c, op, n, z)
         \/ ProbeGPUContainer(c, n)
  PROVE  CallStep(c)
<1>1. UNCHANGED troubles
  BY DEF provisionVM, ProvisionContainerReuse, Scoped, ProbeGPUContainer, Called
<1>2. Exists(n) => instances[n].kind \in {"vm", "container"}
  BY DEF Exists, Instances, IncusInv, IncusTypeOK
<1>3. /\ ~Exists(n) => n \notin Foreign
      /\ \A pc \in Named : assertIncusOwnership(n) => n \notin Foreign \/ ByName(pc)
  BY DEF assertIncusOwnership, Foreign, ByName, IncusInv, IncusTypeOK
<1>4. CASE ProbeGPUContainer(c, n)
  <2> DEFINE probe == [owner |-> "me", kind |-> "container", up |-> TRUE, size |-> Max(Sizes), limit |-> Max(Sizes), made |-> 0]
  <2>1. probe \in Instances /\ probe.owner = "me"
    BY SizesAssumption DEF Instances
  <2>2. PICK i \in Instances : i = probe
    BY <2>1
  <2>3. Mild(n, i)
    BY <2>1, <2>2 DEF Mild
  <2>4. Touches(c) /\ n \notin Foreign'
    BY <1>4, <2>1, <2>2, <2>3 DEF ProbeGPUContainer, Sets, Touches, Foreign, Exists, IncusInv, IncusTypeOK
  <2>5. Enters(c, "discard", n, "container", 0, 0) /\ UNCHANGED <<poolEnforces, OwnershipMode, registered, checkpoint>>
    BY <1>4 DEF ProbeGPUContainer, settings
  <2>6. \E row \in IncusRows : incusCall' = [incusCall EXCEPT ![c] = row] /\ IncusPlace(row)'
    <3>1. "discard" \in Entries /\ "container" \in {"vm", "container"} /\ 0 \in {0} \cup Sizes
      BY DEF Entries
    <3> QED BY <1>1, <2>4, <2>5, <3>1, EntersPlaced
  <2> QED BY <1>1, <2>4, <2>5, <2>6 DEF CallStep, IncusInv, IncusTypeOK
<1>5. CASE ~ProbeGPUContainer(c, n)
  <2>1. Keeps
    BY <1>5 DEF provisionVM, ProvisionContainerReuse, Scoped
  <2>2. \/ UNCHANGED incusCall
        \/ \E pc \in Entries, k \in {"vm", "container"}, z, l \in {0} \cup Sizes :
             (n \notin Foreign \/ ByName(pc)) /\ Enters(c, pc, n, k, z, l)
    <3>1. ASSUME NEW k \in {"vm", "container"}, NEW named \in BOOLEAN, NEW explicit \in BOOLEAN, NEW z \in Sizes,
                 provisionVM(c, n, k, named, z, explicit)
          PROVE  \/ UNCHANGED incusCall
                 \/ /\ n \notin Foreign \/ ByName("reuse")
                    /\ \E y \in {"vm", "container"} : Enters(c, "reuse", n, y, 0, 0)
                 \/ n \notin Foreign /\ \E y \in {0} \cup Sizes : Enters(c, "admit", n, k, y, z)
      BY <1>2, <1>3, <3>1 DEF provisionVM, admitRootDiskQuota, Named, OnNamed
    <3>2. ASSUME ProvisionContainerReuse(c, n)
          PROVE  UNCHANGED incusCall \/ ((n \notin Foreign \/ ByName("reuse")) /\ Enters(c, "reuse", n, "container", 0, 0))
      BY <1>3, <3>2 DEF ProvisionContainerReuse, Named, OnNamed
    <3>3. ASSUME NEW op \in {"vm-start", "vm-stop", "vm-restart", "vm-delete", "vm-limits", "vm-update"}, NEW z \in {0} \cup Sizes, Scoped(c, op, n, z)
          PROVE  UNCHANGED incusCall \/ ((n \notin Foreign \/ ByName(op)) /\ Enters(c, op, n, "container", z, z))
      BY <1>3, <3>3 DEF Scoped, Named, OnNamed, Reading
    <3> DEFINE Entered == \/ UNCHANGED incusCall
                          \/ \E pc \in Entries, k \in {"vm", "container"}, z, l \in {0} \cup Sizes :
                               (n \notin Foreign \/ ByName(pc)) /\ Enters(c, pc, n, k, z, l)
    <3>4. ASSUME \E k \in {"vm", "container"}, named, explicit \in BOOLEAN, z \in Sizes :
                   provisionVM(c, n, k, named, z, explicit)
          PROVE  Entered
      <4>1. PICK k \in {"vm", "container"}, named, explicit \in BOOLEAN, z \in Sizes :
              provisionVM(c, n, k, named, z, explicit)
        BY <3>4
      <4>2. CASE UNCHANGED incusCall
        BY <4>2
      <4>3. ASSUME NEW y \in {"vm", "container"}, n \notin Foreign \/ ByName("reuse"), Enters(c, "reuse", n, y, 0, 0)
            PROVE  Entered
        BY <4>3 DEF Entries
      <4>4. ASSUME NEW y \in {0} \cup Sizes, n \notin Foreign, Enters(c, "admit", n, k, y, z) PROVE Entered
        BY <4>4 DEF Entries
      <4> HIDE DEF Entered
      <4> QED BY <3>1, <4>1, <4>2, <4>3, <4>4
    <3>5. ASSUME ProvisionContainerReuse(c, n) PROVE Entered
      BY <3>2, <3>5 DEF Entries
    <3>6. ASSUME \/ \E op \in {"vm-start", "vm-stop", "vm-restart", "vm-delete"} : Scoped(c, op, n, 0)
                 \/ \E op \in {"vm-limits", "vm-update"}, z \in Sizes : Scoped(c, op, n, z)
          PROVE  Entered
      <4>1. PICK op \in {"vm-start", "vm-stop", "vm-restart", "vm-delete", "vm-limits", "vm-update"}, z \in {0} \cup Sizes : Scoped(c, op, n, z)
        BY <3>6
      <4> QED BY <3>3, <4>1 DEF Entries
    <3> QED BY <1>5, <3>4, <3>5, <3>6
  <2>3. UNCHANGED incusCall \/ \E row \in IncusRows : incusCall' = [incusCall EXCEPT ![c] = row] /\ IncusPlace(row)'
    BY <1>1, <2>1, <2>2, KeepsTyped, EntersPlaced
  <2> QED BY <1>1, <2>1, <2>3, KeepsTyped DEF CallStep
<1> QED BY <1>4, <1>5

\* A command at the name the call works on.
LEMMA MildCommands ==
  ASSUME IncusInv, NEW c \in IncusCallers, Commanding(incusCall[c])
  PROVE  /\ Name(c) \in IncusNames /\ incusCall[c].size \in {0} \cup Sizes /\ incusCall[c].limit \in {0} \cup Sizes
         /\ Mild(Name(c), NoInstance)
         /\ \A up \in BOOLEAN : Created(c, up) \in Instances /\ Mild(Name(c), Created(c, up))
         /\ Exists(Name(c)) =>
              /\ instances[Name(c)] \in Instances /\ Mild(Name(c), instances[Name(c)])
              /\ \A up \in BOOLEAN : /\ [instances[Name(c)] EXCEPT !.up = up] \in Instances
                                     /\ Mild(Name(c), [instances[Name(c)] EXCEPT !.up = up])
              /\ \A z \in {0} \cup Sizes : /\ [instances[Name(c)] EXCEPT !.size = z] \in Instances
                                           /\ Mild(Name(c), [instances[Name(c)] EXCEPT !.size = z])
              /\ \A l \in {0} \cup Sizes : /\ [instances[Name(c)] EXCEPT !.limit = l] \in Instances
                                           /\ Mild(Name(c), [instances[Name(c)] EXCEPT !.limit = l])
<1>1. Name(c) \in IncusNames /\ incusCall[c] \in IncusRows
  BY DEF IncusInv, IncusTypeOK, IncusPlace, Name
<1>2. ASSUME NEW up \in BOOLEAN PROVE Created(c, up) \in Instances /\ Mild(Name(c), Created(c, up))
  <2>1. Created(c, up) \in Instances /\ Created(c, up).owner = "me"
    BY <1>1 DEF Created, Instances, IncusRows
  <2> QED BY <2>1 DEF Mild
<1>3. ASSUME Exists(Name(c))
      PROVE  instances[Name(c)] \in Instances /\ Mild(Name(c), instances[Name(c)])
  BY <1>1, <1>3 DEF Exists, Mild, Foreign, IncusInv, IncusTypeOK
<1>4. ASSUME Exists(Name(c)), NEW up \in BOOLEAN
      PROVE  [instances[Name(c)] EXCEPT !.up = up] \in Instances /\ Mild(Name(c), [instances[Name(c)] EXCEPT !.up = up])
  <2>1. PICK i : i = [instances[Name(c)] EXCEPT !.up = up]
    OBVIOUS
  <2>2. i \in Instances /\ i.owner = instances[Name(c)].owner /\ i.made = instances[Name(c)].made
    BY <1>3, <1>4, <2>1 DEF Instances
  <2> QED BY <1>1, <1>4, <2>1, <2>2 DEF Mild, Foreign
<1>5. ASSUME Exists(Name(c)), NEW z \in {0} \cup Sizes
      PROVE  [instances[Name(c)] EXCEPT !.size = z] \in Instances /\ Mild(Name(c), [instances[Name(c)] EXCEPT !.size = z])
  <2>1. PICK i : i = [instances[Name(c)] EXCEPT !.size = z]
    OBVIOUS
  <2>2. i \in Instances /\ i.owner = instances[Name(c)].owner /\ i.made = instances[Name(c)].made
    BY <1>3, <1>5, <2>1 DEF Instances
  <2> QED BY <1>1, <1>5, <2>1, <2>2 DEF Mild, Foreign
<1>6. ASSUME Exists(Name(c)), NEW l \in {0} \cup Sizes
      PROVE  [instances[Name(c)] EXCEPT !.limit = l] \in Instances /\ Mild(Name(c), [instances[Name(c)] EXCEPT !.limit = l])
  <2>1. PICK i : i = [instances[Name(c)] EXCEPT !.limit = l]
    OBVIOUS
  <2>2. i \in Instances /\ i.owner = instances[Name(c)].owner /\ i.made = instances[Name(c)].made
    BY <1>3, <1>6, <2>1 DEF Instances
  <2> QED BY <1>1, <1>6, <2>1, <2>2 DEF Mild, Foreign
<1>7. Mild(Name(c), NoInstance) /\ incusCall[c].size \in {0} \cup Sizes /\ incusCall[c].limit \in {0} \cup Sizes
  BY <1>1 DEF Mild, IncusRows
<1> QED BY <1>1, <1>2, <1>3, <1>4, <1>5, <1>6, <1>7

\* What the commands do to the instances, in the words of Touches.
Commands(c) ==
  \/ UNCHANGED instances
  \/ Sets(Name(c), NoInstance)
  \/ \E up \in BOOLEAN : Sets(Name(c), Created(c, up))
  \/ /\ Exists(Name(c))
     /\ \/ \E up \in BOOLEAN : Sets(Name(c), [instances[Name(c)] EXCEPT !.up = up])
        \/ \E z \in {0} \cup Sizes : Sets(Name(c), [instances[Name(c)] EXCEPT !.size = z])
        \/ \E l \in {0} \cup Sizes : Sets(Name(c), [instances[Name(c)] EXCEPT !.limit = l])
        \/ Sets(Name(c), instances[Name(c)])

\* The command a call has got to touches only the instance it has checked.
LEMMA CommandsTouch ==
  ASSUME IncusInv, NEW c \in IncusCallers, Commanding(incusCall[c]), Commands(c),
         incusCall[c].pc \notin Reading \/ UNCHANGED instances
  PROVE  Touches(c)
<1>1. ASSUME NEW i \in Instances \cup {NoInstance}, Sets(Name(c), i), Mild(Name(c), i) PROVE Touches(c)
  BY <1>1, MildCommands DEF Sets, Touches
<1> QED BY <1>1, MildCommands DEF Commands, Touches

\* The commands of the calls on virtual machines and containers.
LEMMA IncusCommands ==
  ASSUME IncusInv, NEW c \in IncusCallers,
         \/ Admitted(c) \/ launchIncusVMViaAPI(c) \/ patchInstanceRootDisk(c) \/ StartsLaunched(c)
         \/ launchIncusContainer(c) \/ attachContainerDevices(c) \/ DiscardsLaunched(c)
         \/ awaitContainerIPv4(c) \/ startExistingInstance(c)
         \/ StartVM(c) \/ StopVM(c) \/ setIncusInstanceConfig(c) \/ UpdateVMResources(c) \/ applyInstanceRootDiskQuota(c)
         \/ DeleteVM(c) \/ Deregisters(c)
  PROVE  CallStep(c)
<1>1. Commanding(incusCall[c]) /\ ~Resetting(incusCall[c])
  BY DEF Resetting, Admitted, launchIncusVMViaAPI, patchInstanceRootDisk, StartsLaunched, launchIncusContainer, attachContainerDevices,
         DiscardsLaunched, awaitContainerIPv4, startExistingInstance, StartVM, StopVM, setIncusInstanceConfig, UpdateVMResources,
         applyInstanceRootDiskQuota, DeleteVM, Deregisters, At, Commanding
<1>2. /\ Name(c) \in IncusNames /\ incusCall[c].size \in {0} \cup Sizes /\ incusCall[c].limit \in {0} \cup Sizes
      /\ registered \subseteq IncusNames /\ poolEnforces \in BOOLEAN /\ checkpoint \in Checkpoints \cup {NoCheckpoint}
  BY <1>1, MildCommands DEF IncusInv, IncusTypeOK
<1>3. Commands(c)
  <2>1. CASE Admitted(c) \/ awaitContainerIPv4(c) \/ UpdateVMResources(c) \/ Deregisters(c)
    BY <2>1 DEF Admitted, awaitContainerIPv4, UpdateVMResources, Deregisters, Keeps, Commands
  <2>2. CASE launchIncusVMViaAPI(c) \/ launchIncusContainer(c)
    BY <2>2 DEF launchIncusVMViaAPI, launchIncusContainer, Commands
  <2>3. CASE DiscardsLaunched(c) \/ DeleteVM(c)
    BY <2>3 DEF DiscardsLaunched, DeleteVM, Commands
  <2>4. CASE StartsLaunched(c) \/ attachContainerDevices(c) \/ startExistingInstance(c) \/ StartVM(c) \/ StopVM(c)
    BY <2>4 DEF StartsLaunched, attachContainerDevices, startExistingInstance, StartVM, StopVM, Commands
  <2>5. CASE patchInstanceRootDisk(c) \/ setIncusInstanceConfig(c) \/ applyInstanceRootDiskQuota(c)
    BY <1>2, <2>5 DEF patchInstanceRootDisk, setIncusInstanceConfig, applyInstanceRootDiskQuota, Commands
  <2> QED BY <2>1, <2>2, <2>3, <2>4, <2>5
<1>4. Touches(c)
  <2>1. incusCall[c].pc \notin Reading \/ UNCHANGED instances
    BY DEF Admitted, launchIncusVMViaAPI, patchInstanceRootDisk, StartsLaunched, launchIncusContainer, attachContainerDevices,
           DiscardsLaunched, awaitContainerIPv4, startExistingInstance, StartVM, StopVM, setIncusInstanceConfig,
           UpdateVMResources, applyInstanceRootDiskQuota, DeleteVM, Deregisters, Keeps, At, Reading
  <2> QED BY <1>1, <1>3, <2>1, CommandsTouch
<1>5. UNCHANGED <<poolEnforces, OwnershipMode, checkpoint, troubles>> /\ registered' \subseteq IncusNames
  BY <1>2 DEF Admitted, launchIncusVMViaAPI, patchInstanceRootDisk, StartsLaunched, launchIncusContainer, attachContainerDevices,
         DiscardsLaunched, awaitContainerIPv4, startExistingInstance, StartVM, StopVM, setIncusInstanceConfig, UpdateVMResources,
         applyInstanceRootDiskQuota, DeleteVM, Deregisters, Keeps, settings, budget
<1>6. \E pc \in Goals : Goes(c, pc) /\ (incusCall[c].pc \in Named => pc \in Named \cup {"idle"})
  BY DEF Goals, Named, OnNamed, Reading, At, Admitted, launchIncusVMViaAPI, patchInstanceRootDisk, StartsLaunched, launchIncusContainer, attachContainerDevices,
         DiscardsLaunched, awaitContainerIPv4, startExistingInstance, StartVM, StopVM, setIncusInstanceConfig, UpdateVMResources,
         applyInstanceRootDiskQuota, DeleteVM, Deregisters
<1>7. \E row \in IncusRows : incusCall' = [incusCall EXCEPT ![c] = row] /\ IncusPlace(row)'
  BY <1>1, <1>4, <1>5, <1>6, GoesPlaced
<1> QED BY <1>2, <1>4, <1>5, <1>7 DEF CallStep
\* The reset writes its own copy of the checkpoint, and goes on or ends.
LEMMA WritesPlaced ==
  ASSUME IncusInv, NEW c \in IncusCallers, Resetting(incusCall[c]), UNCHANGED <<troubles, OwnershipMode>>,
         NEW cp \in Checkpoints, NEW pc \in {"idle", "reset", "reinstall"}, NEW togo \in SUBSET IncusNames,
         Writes(c, cp, pc, togo)
  PROVE  /\ checkpoint' \in Checkpoints
         /\ \E row \in IncusRows : incusCall' = [incusCall EXCEPT ![c] = row] /\ IncusPlace(row)'
<1>1. CASE pc = "idle"
  BY <1>1, IdleCall DEF Writes
<1>2. CASE pc # "idle"
  <2>1. incusCall[c] \in IncusRows /\ IncusPlace(incusCall[c])
    BY DEF IncusInv, IncusTypeOK
  <2> DEFINE call == [incusCall[c] EXCEPT !.pc = pc, !.mine = cp, !.left = togo]
  <2>2. call \in IncusRows /\ call.pc = pc /\ call.mine = cp /\ call.foreign = incusCall[c].foreign
    BY <2>1 DEF IncusRows
  <2>3. PICK row \in IncusRows : row = call
    BY <2>2
  <2>4. incusCall' = [incusCall EXCEPT ![c] = row]
    BY <1>2, <2>3 DEF Writes, IncusInv, IncusTypeOK
  <2>5. row.pc \in {"reset", "reinstall"} /\ row.mine \in Checkpoints /\ row.foreign = incusCall[c].foreign
    BY <1>2, <2>2, <2>3
  <2>6. IncusPlace(row)'
    BY <2>1, <2>5 DEF IncusPlace, Commanding, Resetting
  <2> QED BY <2>4, <2>6 DEF Writes
<1> QED BY <1>1, <1>2

\* What the reset writes into its checkpoint is a checkpoint.
LEMMA CheckpointsTyped ==
  ASSUME NEW cp \in Checkpoints
  PROVE  /\ Interrupted(cp) \in Checkpoints
         /\ \A phase \in {"deleting", "reconciling", "reconciled"} : [cp EXCEPT !.phase = phase] \in Checkpoints
         /\ \A n \in IncusNames : [cp EXCEPT !.deleted = cp.deleted \cup {n}] \in Checkpoints
         /\ \A S \in SUBSET IncusNames : [cp EXCEPT !.targets = S] \in Checkpoints
         /\ cp.targets \in SUBSET IncusNames /\ cp.deleted \in SUBSET IncusNames
BY DEF Checkpoints, Interrupted

\* A reset begins with the inventory whose ownership it validated, or resumes
\* its checkpoint.
LEMMA ResetBegins ==
  ASSUME IncusInv, NEW c \in IncusCallers, NEW selected \in SUBSET IncusNames \ {{}}, NEW dryRun \in BOOLEAN,
         ResetIncusStack(c, selected, dryRun)
  PROVE  CallStep(c)
<1>1. UNCHANGED <<instances, poolEnforces, OwnershipMode, registered, troubles>> /\ OwnershipMode = "enforce"
  BY DEF ResetIncusStack, Called, settings
<1>2. Touches(c) /\ poolEnforces' \in BOOLEAN /\ registered' \subseteq IncusNames
  BY <1>1 DEF Touches, IncusInv, IncusTypeOK
<1> DEFINE found == resetInventory(selected)
           resumes == found = {} /\ checkpoint # NoCheckpoint /\ checkpoint.phase # "reconciled"
           inventory == IF resumes THEN checkpoint.targets ELSE found
           cp == IF checkpoint = NoCheckpoint
                   THEN [targets |-> inventory, deleted |-> {}, phase |-> "validated"]
                 ELSE IF checkpoint.targets = {} THEN [checkpoint EXCEPT !.targets = inventory]
                 ELSE checkpoint
           call == [NoIncusCall EXCEPT !.pc = "reset", !.foreign = ForeignInstances, !.mine = cp, !.left = inventory \ cp.deleted]
<1>3. checkpoint \in Checkpoints \cup {NoCheckpoint} /\ found \in SUBSET IncusNames
  BY DEF IncusInv, IncusTypeOK, resetInventory
<1>4. inventory \in SUBSET IncusNames
  <2>1. resumes => checkpoint \in Checkpoints
    BY <1>3
  <2> QED BY <1>3, <2>1, CheckpointsTyped
<1>5. cp \in Checkpoints
  <2>1. CASE checkpoint = NoCheckpoint
    <3> HIDE DEF inventory
    <3>1. [targets |-> inventory, deleted |-> {}, phase |-> "validated"] \in Checkpoints
      BY <1>4 DEF Checkpoints
    <3> QED BY <2>1, <3>1
  <2>2. CASE checkpoint # NoCheckpoint
    <3>1. checkpoint \in Checkpoints
      BY <1>3, <2>2
    <3> HIDE DEF inventory
    <3>2. [checkpoint EXCEPT !.targets = inventory] \in Checkpoints
      BY <1>4, <3>1, CheckpointsTyped
    <3> QED BY <2>2, <3>1, <3>2
  <2> QED BY <2>1, <2>2
<1>6. \/ UNCHANGED <<checkpoint, incusCall>>
      \/ checkpoint' = cp /\ UNCHANGED incusCall
      \/ checkpoint' = cp /\ incusCall' = [incusCall EXCEPT ![c] = call]
  BY DEF ResetIncusStack
<1>7. ForeignInstances \in SUBSET (IncusNames \X Nat) /\ \A p \in ForeignInstances : p[2] <= troubles
  <2>1. \A m \in Foreign : m \in IncusNames /\ instances[m].made \in Nat /\ instances[m].made <= troubles
    BY DEF Foreign, Exists, Instances, IncusInv, IncusTypeOK
  <2> QED BY <2>1 DEF ForeignInstances
<1>8. call \in IncusRows /\ call.pc = "reset" /\ call.mine \in Checkpoints /\ call.foreign = ForeignInstances
  <2>1. PICK seen \in SUBSET (IncusNames \X Nat) : seen = ForeignInstances
    BY <1>7
  <2>2. PICK mine \in Checkpoints : mine = cp
    BY <1>5
  <2>3. PICK togo \in SUBSET IncusNames : togo = inventory \ cp.deleted
    BY <1>4
  <2>4. call = [NoIncusCall EXCEPT !.pc = "reset", !.foreign = seen, !.mine = mine, !.left = togo]
    BY <2>1, <2>2, <2>3
  <2> HIDE DEF call
  <2> QED BY <2>1, <2>4 DEF NoIncusCall, IncusRows
<1>9. PICK row \in IncusRows : row = call
  BY <1>8
<1>10. IncusPlace(row)'
  <2>1. row.pc = "reset" /\ row.mine \in Checkpoints /\ \A p \in row.foreign : p[2] <= troubles
    <3> HIDE DEF call
    <3> QED BY <1>7, <1>8, <1>9
  <2> QED BY <1>1, <2>1 DEF IncusPlace, Commanding, Resetting
<1>11. checkpoint' \in Checkpoints \cup {NoCheckpoint}
  <2> HIDE DEF cp, call
  <2> QED BY <1>3, <1>5, <1>6
<1>12. UNCHANGED incusCall \/ incusCall' = [incusCall EXCEPT ![c] = row]
  <2> HIDE DEF cp, call
  <2> QED BY <1>6, <1>9
<1> QED BY <1>1, <1>2, <1>10, <1>11, <1>12 DEF CallStep

\* A reset picks, deletes and records its targets, and reconciles.
LEMMA ResetGoesOn ==
  ASSUME IncusInv, NEW c \in IncusCallers,
         \/ \E n \in IncusNames : ResetPicks(c, n)
         \/ ResetDeletes(c) \/ ResetRecords(c) \/ ResetReconciles(c) \/ ReinstallEnds(c)
  PROVE  CallStep(c)
<1>1. /\ UNCHANGED <<poolEnforces, OwnershipMode, registered, troubles>> /\ Resetting(incusCall[c])
      /\ poolEnforces \in BOOLEAN /\ registered \subseteq IncusNames /\ checkpoint \in Checkpoints \cup {NoCheckpoint}
  BY DEF ResetPicks, ResetDeletes, ResetRecords, ResetReconciles, ReinstallEnds, settings, budget, At, Resetting, IncusInv, IncusTypeOK
<1>2. incusCall[c] \in IncusRows /\ IncusPlace(incusCall[c]) /\ incusCall[c].mine \in Checkpoints /\ OwnershipMode = "enforce"
  BY <1>1 DEF IncusInv, IncusTypeOK, IncusPlace
<1>3. incusCall[c].left \in SUBSET IncusNames /\ incusCall[c].left \ {Name(c)} \in SUBSET IncusNames
  BY <1>2 DEF IncusRows
<1>4. ASSUME UNCHANGED instances,
             \E cp \in Checkpoints, pc \in {"idle", "reset", "reinstall"}, togo \in SUBSET IncusNames : Writes(c, cp, pc, togo)
      PROVE  CallStep(c)
  BY <1>1, <1>4, WritesPlaced DEF CallStep, Touches
<1>5. ASSUME NEW n \in IncusNames, ResetPicks(c, n) PROVE CallStep(c)
  <2>1. UNCHANGED instances
    BY <1>5 DEF ResetPicks
  <2>2. CASE Writes(c, Interrupted(incusCall[c].mine), "idle", {})
    <3>1. Interrupted(incusCall[c].mine) \in Checkpoints
      BY <1>2, CheckpointsTyped
    <3> QED BY <1>4, <2>1, <2>2, <3>1
  <2>3. CASE ~Writes(c, Interrupted(incusCall[c].mine), "idle", {})
    <3>1. PICK cp \in Checkpoints : cp = [incusCall[c].mine EXCEPT !.phase = "deleting"]
      BY <1>2, CheckpointsTyped
    <3> DEFINE call == [incusCall[c] EXCEPT !.pc = "reset-delete", !.name = n, !.mine = cp]
    <3>2. /\ assertIncusOwnership(n) /\ checkpoint' = cp /\ incusCall' = [incusCall EXCEPT ![c] = call]
      BY <1>5, <2>3, <3>1 DEF ResetPicks, IncusInv, IncusTypeOK
    <3>3. call \in IncusRows /\ call.pc = "reset-delete" /\ call.name = n /\ call.mine = cp /\ call.foreign = incusCall[c].foreign
      BY <1>2 DEF IncusRows
    <3>4. PICK row \in IncusRows : row = call
      BY <3>3
    <3>5. n \notin Foreign'
      BY <1>2, <2>1, <3>2 DEF assertIncusOwnership, Foreign, Exists
    <3>6. row.pc = "reset-delete" /\ row.name = n /\ row.mine \in Checkpoints /\ row.foreign = incusCall[c].foreign
      <4> HIDE DEF call
      <4> QED BY <3>3, <3>4
    <3>7. IncusPlace(row)'
      BY <1>1, <1>2, <3>5, <3>6 DEF IncusPlace, Commanding, Resetting, Claimed
    <3>8. incusCall' = [incusCall EXCEPT ![c] = row]
      BY <3>2, <3>4
    <3> QED BY <1>1, <2>1, <3>2, <3>7, <3>8 DEF CallStep, Touches
  <2> QED BY <2>2, <2>3
<1>6. CASE ResetDeletes(c)
  <2>1. Commanding(incusCall[c])
    BY <1>6 DEF ResetDeletes, At, Commanding
  <2>2. CASE UNCHANGED instances /\ Writes(c, Interrupted(incusCall[c].mine), "idle", {})
    <3>1. Interrupted(incusCall[c].mine) \in Checkpoints
      BY <1>2, CheckpointsTyped
    <3> QED BY <1>4, <2>2, <3>1
  <2>3. CASE ~(UNCHANGED instances /\ Writes(c, Interrupted(incusCall[c].mine), "idle", {}))
    <3>1. Sets(Name(c), NoInstance) /\ Goes(c, "reset-record") /\ UNCHANGED checkpoint
      BY <1>6, <2>3 DEF ResetDeletes
    <3>2. Touches(c)
      BY <1>6, <2>1, <3>1, CommandsTouch DEF Commands, ResetDeletes, At, Reading
    <3> DEFINE call == [incusCall[c] EXCEPT !.pc = "reset-record"]
    <3>3. /\ call \in IncusRows /\ call.pc = "reset-record" /\ call.name = incusCall[c].name
          /\ call.foreign = incusCall[c].foreign /\ call.mine = incusCall[c].mine
      BY <1>2 DEF IncusRows
    <3>4. PICK row \in IncusRows : row = call
      BY <3>3
    <3>5. incusCall' = [incusCall EXCEPT ![c] = row]
      BY <3>1, <3>4 DEF Goes, IncusInv, IncusTypeOK
    <3>6. /\ row.pc = "reset-record" /\ row.name \in IncusNames /\ row.name = Name(c)
          /\ row.foreign = incusCall[c].foreign /\ row.mine \in Checkpoints
      <4> HIDE DEF call
      <4> QED BY <1>2, <2>1, <3>3, <3>4 DEF IncusPlace, Name
    <3>7. row.name \notin Foreign'
      BY <3>1, <3>6 DEF Sets, Foreign, Exists, IncusInv, IncusTypeOK
    <3>8. IncusPlace(row)'
      BY <1>1, <1>2, <3>6, <3>7 DEF IncusPlace, Commanding, Resetting, Claimed
    <3> QED BY <1>1, <3>1, <3>2, <3>5, <3>8 DEF CallStep
  <2> QED BY <2>2, <2>3
<1>7. CASE ResetRecords(c)
  <2>1. Name(c) \in IncusNames
    BY <1>2, <1>7 DEF ResetRecords, At, IncusPlace, Commanding, Name
  <2>2. [incusCall[c].mine EXCEPT !.deleted = incusCall[c].mine.deleted \cup {Name(c)}] \in Checkpoints
    BY <1>2, <2>1, CheckpointsTyped
  <2>3. UNCHANGED instances
    BY <1>7 DEF ResetRecords
  <2>4. Writes(c, [incusCall[c].mine EXCEPT !.deleted = incusCall[c].mine.deleted \cup {Name(c)}], "reset", incusCall[c].left \ {Name(c)})
    BY <1>7 DEF ResetRecords
  <2> QED BY <1>3, <1>4, <2>2, <2>3, <2>4
<1>8. CASE ResetReconciles(c) \/ ReinstallEnds(c)
  <2>1. UNCHANGED instances
    BY <1>8 DEF ResetReconciles, ReinstallEnds
  <2>2. /\ Interrupted(incusCall[c].mine) \in Checkpoints
        /\ \A phase \in {"reconciling", "reconciled"} : [incusCall[c].mine EXCEPT !.phase = phase] \in Checkpoints
    BY <1>2, CheckpointsTyped
  <2>3. \/ Writes(c, Interrupted(incusCall[c].mine), "idle", {})
        \/ Writes(c, [incusCall[c].mine EXCEPT !.phase = "reconciling"], "reinstall", {})
        \/ Writes(c, [incusCall[c].mine EXCEPT !.phase = "reconciled"], "idle", {})
    BY <1>8 DEF ResetReconciles, ReinstallEnds
  <2> QED BY <1>4, <2>1, <2>2, <2>3
<1> QED BY <1>5, <1>6, <1>7, <1>8

\* Another agent's new instance is younger than what any call has seen.
LEMMA ForeignKeepsIncus ==
  ASSUME IncusInv, NEW n \in IncusNames, ForeignCreates(n)
  PROVE  IncusInv'
<1>1. PICK k \in {"vm", "container"} :
        instances' = [instances EXCEPT ![n] = [owner |-> "other", kind |-> k, up |-> TRUE, size |-> 0, limit |-> 0, made |-> troubles']]
  BY DEF ForeignCreates, Sets
<1>2. troubles' = troubles + 1 /\ troubles \in Nat /\ UNCHANGED <<poolEnforces, OwnershipMode, registered, checkpoint, incusCall>>
  BY DEF ForeignCreates, settings, Trouble, IncusInv
<1>3. PICK made \in Nat : made = troubles' /\ made = troubles + 1
  BY <1>2
<1>4. PICK i \in Instances : i = [owner |-> "other", kind |-> k, up |-> TRUE, size |-> 0, limit |-> 0, made |-> made]
  BY DEF Instances
<1>5. /\ instances' = [instances EXCEPT ![n] = i] /\ i.made = made
      /\ instances' \in [IncusNames -> Instances \cup {NoInstance}]
      /\ instances'[n] = i /\ \A m \in IncusNames \ {n} : instances'[m] = instances[m]
  BY <1>1, <1>3, <1>4 DEF IncusInv, IncusTypeOK
<1>6. ASSUME NEW m \in Foreign' PROVE instances'[m].made <= troubles'
  <2>1. CASE m = n
    BY <1>3, <1>5, <2>1
  <2>2. CASE m # n
    <3>1. m \in Foreign /\ instances'[m] = instances[m]
      BY <1>5, <2>2 DEF Foreign, Exists
    <3>2. instances[m].made \in Nat /\ instances[m].made <= troubles
      BY <3>1 DEF Foreign, Exists, Instances, IncusInv, IncusTypeOK
    <3> QED BY <1>2, <3>1, <3>2
  <2> QED BY <2>1, <2>2
<1>7. ASSUME NEW c \in IncusCallers PROVE IncusPlace(incusCall[c])'
  <2>1. IncusPlace(incusCall[c]) /\ incusCall[c] \in IncusRows
    BY DEF IncusInv, IncusTypeOK
  <2>2. \A p \in incusCall[c].foreign : p[2] <= troubles'
    <3>1. ASSUME NEW p \in incusCall[c].foreign PROVE p[2] <= troubles'
      <4>1. p \in IncusNames \X Nat /\ p[2] <= troubles
        BY <2>1, <3>1 DEF IncusPlace, IncusRows
      <4> QED BY <1>2, <4>1
    <3> QED BY <3>1
  <2>3. \A m \in IncusNames : Claimed(incusCall[c], m)' => Claimed(incusCall[c], m)
    <3>1. ASSUME NEW m \in IncusNames, Claimed(incusCall[c], m)' PROVE Claimed(incusCall[c], m)
      <4>1. CASE m = n
        <5>1. <<n, made>> \in incusCall[c].foreign
          BY <1>2, <1>5, <3>1, <4>1 DEF Claimed
        <5>2. <<n, made>>[2] <= troubles
          BY <2>1, <5>1 DEF IncusPlace
        <5> QED BY <1>2, <1>3, <5>2
      <4>2. CASE m # n
        BY <1>2, <1>5, <3>1, <4>2 DEF Claimed, Foreign, Exists
      <4> QED BY <4>1, <4>2
    <3> QED BY <3>1
  <2> QED BY <1>2, <2>1, <2>2, <2>3 DEF IncusPlace, Commanding, Resetting, ByName
<1> QED BY <1>2, <1>5, <1>6, <1>7 DEF IncusInv, IncusTypeOK

\* The agent stops: calls are forgotten, instances and checkpoint stay.
LEMMA StopKeepsIncus ==
  ASSUME IncusInv, IncusAgentStops
  PROVE  IncusInv'
<1>1. /\ incusCall' \in [IncusCallers -> IncusRows] /\ \A c \in IncusCallers : incusCall'[c] = NoIncusCall
      /\ UNCHANGED <<instances, poolEnforces, OwnershipMode, checkpoint>> /\ registered' = {} /\ troubles' = troubles + 1
  BY IdleCall DEF IncusAgentStops, settings, Trouble
<1>2. \A c \in IncusCallers : IncusPlace(incusCall[c])'
  BY <1>1, IdleCall DEF IncusPlace, Claimed, Commanding, Resetting
<1>3. \A m \in Foreign' : instances'[m].made <= troubles'
  <2>1. ASSUME NEW m \in Foreign' PROVE instances'[m].made <= troubles'
    <3>1. m \in Foreign /\ instances[m].made \in Nat /\ instances[m].made <= troubles
      BY <1>1, <2>1 DEF Foreign, Exists, Instances, IncusInv, IncusTypeOK
    <3> QED BY <1>1, <3>1 DEF IncusInv
  <2> QED BY <2>1
<1> QED BY <1>1, <1>2, <1>3 DEF IncusInv, IncusTypeOK

\* Every step of the domain is a call's, another agent's creation, or a stop.
LEMMA IncusNextSteps ==
  ASSUME IncusInv, IncusNext
  PROVE  \/ \E c \in IncusCallers : CallStep(c)
         \/ \E n \in IncusNames : ForeignCreates(n)
         \/ IncusAgentStops
BY IncusBegins, IncusCommands, ResetBegins, ResetGoesOn DEF IncusNext

\* Every step of the domain keeps the invariant.
LEMMA IncusNextKeeps == IncusInv /\ [IncusNext]_<<incusVars, budget>> => IncusInv'
<1> SUFFICES ASSUME IncusInv, [IncusNext]_<<incusVars, budget>> PROVE IncusInv'
  OBVIOUS
<1>1. CASE UNCHANGED <<incusVars, budget>>
  BY <1>1 DEF incusVars, settings, budget, IncusInv, IncusTypeOK, IncusPlace, ByName, Claimed, Foreign, Exists
<1>2. CASE IncusNext
  BY <1>2, IncusNextSteps, IncusStep, ForeignKeepsIncus, StopKeepsIncus DEF CallStep
<1> QED BY <1>1, <1>2

\* The inductive invariant of the Incus domain.
THEOREM IncusInvariant == IncusSpec => []IncusInv
BY IncusInitial, IncusNextKeeps, PTL DEF IncusSpec

\* No call changes or deletes an instance that was another agent's when the
\* call began, whatever the call launches, resumes or compensates and whoever
\* reuses the name meanwhile (assertIncusOwnership, validateResetInventoryOwnership);
\* except, where ownership is not enforced, the one an operation was asked for.
THEOREM ForeignInstancesStay == IncusSpec => ForeignUntouched
<1>1. IncusInv /\ [IncusNext]_<<incusVars, budget>> =>
        [\A c \in IncusCallers :
           incusCall'[c] # incusCall[c] =>
             \A n \in Foreign : <<n, instances[n].made>> \in incusCall[c].foreign =>
               \/ instances'[n] = instances[n]
               \/ OwnershipMode = "audit" /\ incusCall[c].pc \in OnNamed /\ Name(c) = n]_incusVars
  <2> SUFFICES ASSUME IncusInv, IncusNext, NEW c \in IncusCallers, incusCall'[c] # incusCall[c],
                      NEW n \in Foreign, <<n, instances[n].made>> \in incusCall[c].foreign
               PROVE  \/ instances'[n] = instances[n]
                      \/ OwnershipMode = "audit" /\ incusCall[c].pc \in OnNamed /\ Name(c) = n
    BY DEF incusVars
  <2>1. CASE \E d \in IncusCallers : CallStep(d)
    <3>1. PICK d \in IncusCallers : CallStep(d)
      BY <2>1
    <3>2. d = c
      BY <3>1 DEF CallStep, IncusInv, IncusTypeOK
    <3> QED BY <3>1, <3>2, TouchesSpare DEF CallStep, Spares, Claimed
  <2>2. CASE IncusAgentStops
    BY <2>2 DEF IncusAgentStops
  <2>3. CASE \E m \in IncusNames : ForeignCreates(m)
    BY <2>3 DEF ForeignCreates
  <2> QED BY <2>1, <2>2, <2>3, IncusNextSteps
<1> QED BY IncusInvariant, <1>1, PTL DEF IncusSpec, ForeignUntouched

----------------------------------------------------------------------------
\* Public MCP.  A call that wrote the unit file and will restart the connector.
Restarting(c) ==
  /\ pubCall[c].changed
  /\ PubAt(c, "supervise") \/ (PubAt(c, "start") /\ pubCall[c].active)

\* As long as nothing fails, the connector runs what the unit file says, or a
\* call that wrote the file is going to restart it.
ConnectorFollows ==
  quickProc # NoProcess /\ quickUnit \in Targets =>
    quickProc.target = quickUnit \/ \E c \in PubCallers : Restarting(c)

Publishing == {"supervise", "start", "origin", "restart", "wait", "probe"}

\* A call that no other has crossed is by itself, and the unit file is its own.
PublicPlace(c) ==
  /\ ~PubAt(c, "idle") /\ pubCall[c].alone => \A d \in PubCallers \ {c} : PubAt(d, "idle")
  /\ pubCall[c].pc \in Publishing => pubCall[c].target \in Targets
  /\ pubCall[c].pc \in Publishing /\ pubCall[c].alone => quickUnit = pubCall[c].target
  /\ pubCall[c].pc \in Publishing \cup {"ready", "remove"} => quickUnit # NotOurs
  /\ PubAt(c, "named") => tokenFile \in TunnelTokens
  /\ PubAt(c, "ready") /\ pubCall[c].alone /\ troubles = 0 => pubCall[c].served = pubCall[c].target

PublicInv ==
  /\ PublicTypeOK /\ troubles \in Nat /\ NoPubCall \in PubRows
  /\ troubles = 0 => ConnectorFollows
  /\ quickUnit = NotOurs => quickProc = NoProcess
  /\ \A c \in PubCallers : PublicPlace(c)

\* At first nothing is published that another wrote.
LEMMA PublicInitial == PublicInit /\ BudgetInit => PublicInv
<1> SUFFICES ASSUME PublicInit, BudgetInit PROVE PublicInv
  OBVIOUS
<1>1. NoPubCall \in PubRows
  BY DEF NoPubCall, PubRows
<1>2. PublicTypeOK
  BY <1>1 DEF PublicInit, PublicTypeOK
<1>3. \A c \in PubCallers : PublicPlace(c)
  BY DEF PublicInit, PublicPlace, PubAt, NoPubCall, Publishing
<1> QED
  BY <1>1, <1>2, <1>3 DEF PublicInit, BudgetInit, PublicInv, ConnectorFollows

\* A call that begins crosses those that are under way.
LEMMA PublicBegins ==
  ASSUME PublicInv, NEW c \in PubCallers, PubAt(c, "idle"), UNCHANGED troubles,
         NEW pc \in {"supervise", "remove", "named"}, NEW t \in Targets \cup TunnelTokens \cup {NoFile},
         NEW changed \in BOOLEAN, PubBegins(c, pc, t, changed)
  PROVE  /\ pubCall' \in [PubCallers -> PubRows]
         /\ pubCall'[c].pc = pc /\ pubCall'[c].target = t /\ pubCall'[c].changed = changed
         /\ pubCall'[c].alone => \A d \in PubCallers \ {c} : PubAt(d, "idle")
         /\ \A d \in PubCallers \ {c} :
              /\ pubCall'[d].pc = pubCall[d].pc /\ pubCall'[d].changed = pubCall[d].changed
              /\ pubCall'[d].active = pubCall[d].active /\ pubCall'[d].target = pubCall[d].target
              /\ pubCall[d].pc # "idle" => ~pubCall'[d].alone
<1>1. /\ \A d \in PubCallers : pubCall[d] \in PubRows
      /\ NoPubCall \in PubRows
  BY DEF PublicInv, PublicTypeOK
<1> DEFINE others == {d \in PubCallers \ {c} : pubCall[d].pc # "idle"}
<1>2. PICK free \in BOOLEAN : free <=> others = {}
  OBVIOUS
<1>3. [NoPubCall EXCEPT !.pc = pc, !.target = t, !.changed = changed, !.alone = free] \in PubRows
  BY <1>1 DEF PubRows
<1>4. \A d \in PubCallers : [pubCall[d] EXCEPT !.alone = FALSE] \in PubRows
  BY <1>1 DEF PubRows
<1>5. pubCall' = [d \in PubCallers |->
         IF d = c THEN [NoPubCall EXCEPT !.pc = pc, !.target = t, !.changed = changed, !.alone = free]
         ELSE IF d \in others THEN [pubCall[d] EXCEPT !.alone = FALSE] ELSE pubCall[d]]
  BY <1>2, Zenon DEF PubBegins
<1>6. pubCall' \in [PubCallers -> PubRows]
  BY <1>1, <1>3, <1>4, <1>5
<1>7. pubCall'[c].pc = pc /\ pubCall'[c].target = t /\ pubCall'[c].changed = changed /\ pubCall'[c].alone = free
  BY <1>1, <1>5 DEF PubRows
<1>8. free => \A d \in PubCallers \ {c} : PubAt(d, "idle")
  BY <1>2 DEF PubAt
<1>9. \A d \in PubCallers \ {c} :
        /\ pubCall'[d].pc = pubCall[d].pc /\ pubCall'[d].changed = pubCall[d].changed
        /\ pubCall'[d].active = pubCall[d].active /\ pubCall'[d].target = pubCall[d].target
        /\ pubCall[d].pc # "idle" => ~pubCall'[d].alone
  BY <1>1, <1>5 DEF PubRows
<1> QED
  BY <1>6, <1>7, <1>8, <1>9

\* Ensuring and removing a Quick Tunnel, and ensuring the named one.
LEMMA EnsureQuickKeeps ==
  ASSUME PublicInv, NEW c \in PubCallers, NEW t \in Targets, EnsurePublicMcpQuickTunnel(c, t)
  PROVE  PublicInv'
<1>1. troubles' = troubles /\ PubAt(c, "idle")
  BY DEF EnsurePublicMcpQuickTunnel, Called
<1>2. CASE requireOwnedManagedFile(quickUnit)
  <2> DEFINE changed == EnsureHostFile(quickUnit, t)
  <2>1. quickUnit' = t /\ PubBegins(c, "supervise", t, changed) /\ UNCHANGED <<loadedUnit, quickProc, quickLog, quickState, usedUrls, namedVars>>
    BY <1>2 DEF EnsurePublicMcpQuickTunnel
  <2>2. changed \in BOOLEAN /\ (changed <=> quickUnit # t)
    BY DEF EnsureHostFile
  <2> HIDE DEF changed
  <2>3. /\ pubCall' \in [PubCallers -> PubRows]
        /\ pubCall'[c].pc = "supervise" /\ pubCall'[c].target = t /\ pubCall'[c].changed = changed
        /\ pubCall'[c].alone => \A d \in PubCallers \ {c} : PubAt(d, "idle")
        /\ \A d \in PubCallers \ {c} :
              /\ pubCall'[d].pc = pubCall[d].pc /\ pubCall'[d].changed = pubCall[d].changed
              /\ pubCall'[d].active = pubCall[d].active /\ pubCall'[d].target = pubCall[d].target
              /\ pubCall[d].pc # "idle" => ~pubCall'[d].alone
    BY <1>1, <2>1, <2>2, PublicBegins
  <2>4. \A d \in PubCallers : PublicPlace(d)'
    BY <2>1, <2>3, FilesAssumption DEF PublicInv, namedVars, PublicPlace, PubAt, Publishing
  <2>5. ConnectorFollows => ConnectorFollows'
    <3>1. CASE changed
      BY <2>3, <3>1 DEF ConnectorFollows, Restarting, PubAt
    <3>2. CASE ~changed
      BY <2>1, <2>2, <2>3, <3>2, <1>1 DEF ConnectorFollows, Restarting, PubAt
    <3> QED BY <2>2, <3>1, <3>2
  <2>6. PublicTypeOK'
    BY <2>1, <2>3 DEF PublicInv, PublicTypeOK, namedVars
  <2> QED
    BY <1>1, <2>1, <2>4, <2>5, <2>6, FilesAssumption DEF PublicInv
<1>3. CASE ~requireOwnedManagedFile(quickUnit)
  BY <1>1, <1>3 DEF EnsurePublicMcpQuickTunnel, PublicInv, PublicTypeOK, ConnectorFollows, Restarting,
       PublicPlace, PubAt, namedVars
<1> QED
  BY <1>2, <1>3

\* The removal of a quick tunnel stops its connector first.
LEMMA RemoveQuickKeeps ==
  ASSUME PublicInv, NEW c \in PubCallers, RemovePublicMcpQuickTunnel(c)
  PROVE  PublicInv'
<1>1. /\ troubles' = troubles /\ PubAt(c, "idle") /\ quickUnit # NotOurs /\ quickProc' = NoProcess
      /\ PubBegins(c, "remove", NoFile, FALSE)
      /\ UNCHANGED <<quickUnit, loadedUnit, quickLog, quickState, usedUrls, namedVars>>
  BY DEF RemovePublicMcpQuickTunnel, Called, requireOwnedManagedFile
<1>2. /\ pubCall' \in [PubCallers -> PubRows] /\ pubCall'[c].pc = "remove"
      /\ pubCall'[c].alone => \A d \in PubCallers \ {c} : PubAt(d, "idle")
      /\ \A d \in PubCallers \ {c} : /\ pubCall'[d].pc = pubCall[d].pc /\ pubCall'[d].target = pubCall[d].target
                                     /\ pubCall[d].pc # "idle" => ~pubCall'[d].alone
  BY <1>1, PublicBegins
<1>3. \A d \in PubCallers : PublicPlace(d)'
  BY <1>1, <1>2 DEF namedVars, PublicInv, PublicPlace, PubAt, Publishing
<1> QED
  BY <1>1, <1>2, <1>3 DEF PublicInv, PublicTypeOK, ConnectorFollows, namedVars

\* A named tunnel leaves the quick one alone.
LEMMA EnsureNamedKeeps ==
  ASSUME PublicInv, NEW c \in PubCallers, NEW k \in TunnelTokens, EnsurePublicMcpTunnel(c, k)
  PROVE  PublicInv'
<1>1. troubles' = troubles /\ PubAt(c, "idle") /\ UNCHANGED <<quickUnit, quickProc>> /\ UNCHANGED <<quickVars, namedProc>>
  BY DEF EnsurePublicMcpTunnel, Called, quickVars
<1>2. CASE requireOwnedManagedFile(tokenFile)
  <2>1. tokenFile' = k /\ namedUnit' = TRUE /\ PubBegins(c, "named", k, FALSE)
    BY <1>2 DEF EnsurePublicMcpTunnel
  <2>2. /\ pubCall' \in [PubCallers -> PubRows] /\ pubCall'[c].pc = "named"
        /\ pubCall'[c].alone => \A d \in PubCallers \ {c} : PubAt(d, "idle")
        /\ \A d \in PubCallers \ {c} :
              /\ pubCall'[d].pc = pubCall[d].pc /\ pubCall'[d].changed = pubCall[d].changed
              /\ pubCall'[d].active = pubCall[d].active /\ pubCall'[d].target = pubCall[d].target
              /\ pubCall[d].pc # "idle" => ~pubCall'[d].alone
    BY <1>1, <2>1, PublicBegins
  <2>3. \A d \in PubCallers : PublicPlace(d)'
    BY <1>1, <2>1, <2>2 DEF quickVars, PublicInv, PublicPlace, PubAt, Publishing
  <2>4. ConnectorFollows => ConnectorFollows'
    BY <1>1, <2>2 DEF ConnectorFollows, Restarting, PubAt
  <2>5. PublicTypeOK'
    BY <1>1, <2>1, <2>2 DEF PublicInv, PublicTypeOK, quickVars
  <2> QED
    BY <1>1, <2>3, <2>4, <2>5 DEF PublicInv
<1>3. CASE ~requireOwnedManagedFile(tokenFile)
  BY <1>1, <1>3 DEF EnsurePublicMcpTunnel, PublicInv, PublicTypeOK, ConnectorFollows, Restarting,
       PublicPlace, PubAt, quickVars
<1> QED
  BY <1>2, <1>3

\* The row of a call that goes on, or ends.
LEMMA PublicGoes ==
  ASSUME PublicInv, NEW c \in PubCallers, NEW row \in PubRows, pubCall' = [pubCall EXCEPT ![c] = row],
         \/ row.pc = "idle"
         \/ /\ pubCall[c].pc \in Publishing /\ row.pc \in Publishing \cup {"ready"}
            /\ row.alone = pubCall[c].alone /\ row.target = pubCall[c].target,
         UNCHANGED <<quickUnit, tokenFile>>, troubles' \in Nat, troubles' = 0 => troubles = 0,
         row.pc = "ready" /\ row.alone /\ troubles' = 0 => row.served = row.target
  PROVE  /\ pubCall' \in [PubCallers -> PubRows] /\ pubCall'[c] = row
         /\ \A d \in PubCallers \ {c} : pubCall'[d] = pubCall[d]
         /\ \A d \in PubCallers : PublicPlace(d)'
<1>1. /\ pubCall' \in [PubCallers -> PubRows] /\ pubCall'[c] = row
      /\ \A d \in PubCallers \ {c} : pubCall'[d] = pubCall[d]
  BY DEF PublicInv, PublicTypeOK
<1>2. PublicPlace(c)'
  BY <1>1 DEF PublicInv, PublicPlace, PubAt, Publishing
<1>3. ASSUME NEW d \in PubCallers \ {c} PROVE PublicPlace(d)'
  BY <1>1, <1>3 DEF PublicInv, PublicPlace, PubAt, Publishing
<1> QED
  BY <1>1, <1>2, <1>3

\* The supervisor is asked whether the connector runs.
LEMMA SuperviseKeeps ==
  ASSUME PublicInv, NEW c \in PubCallers, EnsureHostServiceSupervisor(c)
  PROVE  PublicInv'
<1>1. /\ PubAt(c, "supervise") /\ UNCHANGED <<quickVars, namedVars>>
      /\ troubles' \in Nat /\ (troubles' = 0 => troubles = 0)
  BY DEF EnsureHostServiceSupervisor, PubFails, Trouble, budget, PublicInv
<1>2. pubCall[c] \in PubRows /\ NoPubCall \in PubRows /\ NoPubCall.pc = "idle"
  BY DEF PublicInv, PublicTypeOK, NoPubCall
<1>3. PICK runs \in BOOLEAN : runs <=> quickProc # NoProcess
  OBVIOUS
<1>4. \/ /\ troubles' = troubles /\ pubCall' = [pubCall EXCEPT ![c] = [pubCall[c] EXCEPT !.pc = "start", !.active = runs]]
      \/ troubles' # 0 /\ \/ pubCall' = [pubCall EXCEPT ![c] = [pubCall[c] EXCEPT !.pc = "start", !.active = FALSE]]
                          \/ pubCall' = [pubCall EXCEPT ![c] = NoPubCall]
  <2>1. Trouble => troubles' # 0
    BY DEF Trouble, PublicInv
  <2> QED
    BY <1>2, <1>3, <2>1 DEF EnsureHostServiceSupervisor, PubFails, PubEnds, budget, PublicInv, PublicTypeOK
<1>5. PICK row \in PubRows :
        /\ pubCall' = [pubCall EXCEPT ![c] = row]
        /\ \/ row.pc = "idle"
           \/ row.pc = "start" /\ row.alone = pubCall[c].alone /\ row.target = pubCall[c].target
        /\ troubles' = 0 => row.pc = "start" /\ row.active = runs /\ row.changed = pubCall[c].changed
  <2>1. \A b \in BOOLEAN :
          LET row == [pubCall[c] EXCEPT !.pc = "start", !.active = b] IN
          /\ row \in PubRows /\ row.pc = "start" /\ row.alone = pubCall[c].alone
          /\ row.target = pubCall[c].target /\ row.active = b /\ row.changed = pubCall[c].changed
    BY <1>2 DEF PubRows
  <2> QED
    BY <1>2, <1>3, <1>4, <2>1
<1>6. /\ pubCall' \in [PubCallers -> PubRows] /\ pubCall'[c] = row
      /\ \A d \in PubCallers \ {c} : pubCall'[d] = pubCall[d]
      /\ \A d \in PubCallers : PublicPlace(d)'
  BY <1>1, <1>5, PublicGoes DEF PubAt, Publishing, quickVars, namedVars
<1>7. troubles' = 0 => ConnectorFollows'
  BY <1>1, <1>3, <1>5, <1>6 DEF PublicInv, ConnectorFollows, Restarting, PubAt, quickVars
<1> QED
  BY <1>1, <1>6, <1>7 DEF PublicInv, PublicTypeOK, quickVars, namedVars

\* A connector that is launched from the unit file, when nobody's rests on it.
LEMMA LaunchKeeps ==
  ASSUME PublicInv, NEW c \in PubCallers, pubCall[c].pc \in {"start", "restart"},
         loadedUnit' = Reloaded, loadedUnit' # NoFile, Launched(loadedUnit')
  PROVE  /\ loadedUnit' \in Targets /\ usedUrls' \subseteq Urls /\ loadedUnit' = quickUnit
         /\ quickProc' \in [target : Targets, url : Urls] /\ quickProc'.target = quickUnit
BY DEF PublicInv, PublicTypeOK, PublicPlace, PubAt, Publishing, Reloaded, Launched

\* The connector that start or restart runs is of the unit as it was loaded.
LEMMA StartKeeps ==
  ASSUME PublicInv, NEW c \in PubCallers, SetHostServiceState(c)
  PROVE  PublicInv'
<1>1. /\ PubAt(c, "start") /\ UNCHANGED <<quickUnit, quickLog, quickState, namedVars>>
      /\ quickUnit \in Targets \cup {NoFile} /\ quickUnit # NotOurs
  BY DEF SetHostServiceState, PublicInv, PublicTypeOK, PublicPlace, Publishing, PubAt
<1>2. pubCall[c] \in PubRows /\ NoPubCall \in PubRows /\ NoPubCall.pc = "idle"
  BY DEF PublicInv, PublicTypeOK, NoPubCall
<1>3. CASE troubles' = troubles /\ loadedUnit' = Reloaded /\ PubGoes(c, "origin")
  <2> DEFINE row == [pubCall[c] EXCEPT !.pc = "origin"]
  <2>1. /\ row \in PubRows /\ row.pc = "origin" /\ row.alone = pubCall[c].alone
        /\ row.target = pubCall[c].target /\ pubCall' = [pubCall EXCEPT ![c] = row]
    BY <1>2, <1>3 DEF PubRows, PubGoes
  <2> HIDE DEF row
  <2>2. troubles' \in Nat
    BY <1>3 DEF PublicInv
  <2>3. /\ pubCall' \in [PubCallers -> PubRows] /\ pubCall'[c] = row
        /\ \A d \in PubCallers \ {c} : pubCall'[d] = pubCall[d]
        /\ \A d \in PubCallers : PublicPlace(d)'
    BY <1>1, <1>3, <2>1, <2>2, PublicGoes DEF PubAt, Publishing, namedVars
  <2>4. CASE loadedUnit' # NoFile /\ Launched(loadedUnit')
    <3>1. /\ loadedUnit' \in Targets /\ usedUrls' \subseteq Urls
          /\ quickProc' \in [target : Targets, url : Urls] /\ quickProc'.target = quickUnit
      BY <1>1, <1>3, <2>4, LaunchKeeps DEF PubAt
    <3> QED
      BY <1>1, <1>3, <2>2, <2>3, <3>1 DEF PublicInv, PublicTypeOK, ConnectorFollows, namedVars
  <2>5. CASE /\ ~(quickProc = NoProcess \/ (pubCall[c].active /\ pubCall[c].changed))
             /\ UNCHANGED <<quickProc, usedUrls>>
    <3>1. ConnectorFollows => ConnectorFollows'
      BY <1>1, <2>3, <2>5 DEF ConnectorFollows, Restarting, PubAt
    <3> QED
      BY <1>1, <1>3, <2>2, <2>3, <2>5, <3>1 DEF PublicInv, PublicTypeOK, Reloaded, namedVars
  <2> QED
    BY <1>3, <1>1, <2>4, <2>5, <2>1 DEF SetHostServiceState, PubFails, PubEnds, Trouble, budget, PublicInv
<1>4. CASE UNCHANGED <<loadedUnit, quickProc, usedUrls>> /\ PubFails(c)
  <2>1. troubles' \in Nat /\ troubles' # 0 /\ pubCall' = [pubCall EXCEPT ![c] = NoPubCall]
    BY <1>4 DEF PubFails, PubEnds, Trouble, PublicInv
  <2>2. /\ pubCall' \in [PubCallers -> PubRows] /\ \A d \in PubCallers : PublicPlace(d)'
    BY <1>1, <1>2, <2>1, PublicGoes DEF namedVars
  <2> QED
    BY <1>1, <1>4, <2>1, <2>2 DEF PublicInv, PublicTypeOK, namedVars
<1> QED
  BY <1>3, <1>4 DEF SetHostServiceState, budget

\* A call past the start that goes on, or ends, without touching the connector.
LEMMA PastStartKeeps ==
  ASSUME PublicInv, NEW c \in PubCallers, pubCall[c].pc \in {"origin", "restart", "wait", "probe", "ready", "named"},
         NEW row \in PubRows, pubCall' = [pubCall EXCEPT ![c] = row],
         \/ row.pc = "idle"
         \/ /\ pubCall[c].pc \in Publishing /\ row.pc \in {"origin", "restart", "wait", "probe", "ready"}
            /\ row.alone = pubCall[c].alone /\ row.target = pubCall[c].target,
         UNCHANGED <<quickUnit, loadedUnit, quickProc, usedUrls>>, troubles' \in Nat, troubles' = 0 => troubles = 0,
         row.pc = "ready" /\ row.alone /\ troubles' = 0 => row.served = row.target,
         quickLog' \in Urls \cup {NoUrl}, quickState' \in [target : Targets, url : Urls] \cup {NoFile},
         tokenFile' = tokenFile, namedUnit' = namedUnit, namedProc' \in TunnelTokens \cup {NoProcess}
  PROVE  PublicInv'
<1>1. /\ pubCall' \in [PubCallers -> PubRows] /\ pubCall'[c] = row
      /\ \A d \in PubCallers \ {c} : pubCall'[d] = pubCall[d]
      /\ \A d \in PubCallers : PublicPlace(d)'
  BY PublicGoes DEF Publishing
<1>2. ConnectorFollows => ConnectorFollows'
  BY <1>1 DEF ConnectorFollows, Restarting, PubAt
<1> QED
  BY <1>1, <1>2 DEF PublicInv, PublicTypeOK

\* What a call reports that has reached the endpoint of the connector.
LEMMA ReachesOwn ==
  ASSUME PublicInv, NEW c \in PubCallers, pubCall[c].pc \in {"origin", "probe"}, quickProc # NoProcess
  PROVE  /\ quickProc.target \in Targets
         /\ pubCall[c].alone /\ troubles = 0 => quickProc.target = pubCall[c].target
<1>1. quickProc.target \in Targets
  BY DEF PublicInv, PublicTypeOK
<1>2. ASSUME pubCall[c].alone, troubles = 0
      PROVE  quickProc.target = pubCall[c].target
  <2>1. /\ quickUnit = pubCall[c].target /\ quickUnit \in Targets
        /\ \A d \in PubCallers \ {c} : PubAt(d, "idle")
    BY <1>2 DEF PublicInv, PublicPlace, Publishing, PubAt
  <2>2. \A d \in PubCallers : ~Restarting(d)
    BY <2>1 DEF Restarting, PubAt
  <2> QED
    BY <1>2, <2>1, <2>2 DEF PublicInv, ConnectorFollows
<1> QED
  BY <1>1, <1>2

\* A call that fails, or is over.
LEMMA PublicEnds ==
  ASSUME PublicInv, NEW c \in PubCallers, pubCall[c].pc \in {"origin", "restart", "wait", "probe", "ready", "named"},
         PubEnds(c), UNCHANGED <<quickVars, tokenFile, namedUnit>>, namedProc' \in TunnelTokens \cup {NoProcess},
         Trouble \/ UNCHANGED budget
  PROVE  PublicInv'
<1>1. NoPubCall \in PubRows /\ NoPubCall.pc = "idle" /\ pubCall' = [pubCall EXCEPT ![c] = NoPubCall]
  BY DEF PublicInv, NoPubCall, PubEnds
<1>2. troubles' \in Nat /\ (troubles' = 0 => troubles = 0)
  BY DEF PublicInv, Trouble, budget
<1> QED
  BY <1>1, <1>2, PastStartKeeps DEF quickVars, PublicInv, PublicTypeOK

\* The origin answers, and the log names a connector or is cleared for a new one.
LEMMA OriginKeeps ==
  ASSUME PublicInv, NEW c \in PubCallers, ProbesOrigin(c)
  PROVE  PublicInv'
<1>1. PubAt(c, "origin") /\ UNCHANGED <<quickUnit, loadedUnit, quickProc, quickState, usedUrls, namedVars>>
  BY DEF ProbesOrigin
<1>2. CASE UNCHANGED quickLog /\ PubFails(c)
  BY <1>1, <1>2, PublicEnds DEF PubFails, PubAt, quickVars, namedVars, PublicInv, PublicTypeOK
<1>3. CASE UNCHANGED budget
  <2>1. pubCall[c] \in PubRows /\ quickLog \in Urls \cup {NoUrl} /\ troubles \in Nat /\ troubles' = troubles
    BY <1>3 DEF PublicInv, PublicTypeOK, budget
  <2>2. /\ readPublicMCPQuickState(c) \in Urls \cup {NoUrl}
    BY DEF PublicInv, PublicTypeOK, readPublicMCPQuickState
  <2>3. PICK row \in PubRows :
          /\ pubCall' = [pubCall EXCEPT ![c] = row]
          /\ row.pc \in {"ready", "probe", "restart", "wait"} /\ row.alone = pubCall[c].alone
          /\ row.target = pubCall[c].target
          /\ row.pc = "ready" => quickProc # NoProcess /\ row.served = quickProc.target
    <3>1. CASE /\ Live(readPublicMCPQuickState(c))
               /\ pubCall' = [pubCall EXCEPT ![c].pc = "ready", ![c].url = readPublicMCPQuickState(c),
                                             ![c].served = quickProc.target]
      <4>1. quickProc # NoProcess /\ quickProc.target \in Targets
        BY <1>1, <3>1, ReachesOwn DEF Live, PubAt
      <4> DEFINE row == [pubCall[c] EXCEPT !.pc = "ready", !.url = readPublicMCPQuickState(c), !.served = quickProc.target]
      <4>2. /\ row \in PubRows /\ row.pc = "ready" /\ row.alone = pubCall[c].alone
            /\ row.target = pubCall[c].target /\ row.served = quickProc.target
        BY <2>1, <2>2, <4>1 DEF PubRows
      <4>3. pubCall' = [pubCall EXCEPT ![c] = row]
        BY <2>1, <3>1 DEF PubRows, PublicInv, PublicTypeOK
      <4> QED
        BY <4>1, <4>2, <4>3
    <3>2. ASSUME NEW pc \in {"probe", "restart", "wait"}, NEW url \in {pubCall[c].url, quickLog},
                 pubCall' = [pubCall EXCEPT ![c] = [pubCall[c] EXCEPT !.pc = pc, !.url = url]]
          PROVE  \E row \in PubRows :
                   /\ pubCall' = [pubCall EXCEPT ![c] = row]
                   /\ row.pc \in {"ready", "probe", "restart", "wait"} /\ row.alone = pubCall[c].alone
                   /\ row.target = pubCall[c].target /\ row.pc # "ready"
      <4> DEFINE row == [pubCall[c] EXCEPT !.pc = pc, !.url = url]
      <4>1. /\ row \in PubRows /\ row.pc = pc /\ row.alone = pubCall[c].alone /\ row.target = pubCall[c].target
        BY <2>1, <3>2 DEF PubRows
      <4> QED
        BY <3>2, <4>1
    <3>3. \A pc : PubGoes(c, pc) => pubCall' = [pubCall EXCEPT ![c] = [pubCall[c] EXCEPT !.pc = pc, !.url = pubCall[c].url]]
      BY <2>1 DEF PubGoes, PubRows, PublicInv, PublicTypeOK
    <3>4. pubCall' = [pubCall EXCEPT ![c].pc = "probe", ![c].url = quickLog]
            => pubCall' = [pubCall EXCEPT ![c] = [pubCall[c] EXCEPT !.pc = "probe", !.url = quickLog]]
      BY <2>1 DEF PubRows, PublicInv, PublicTypeOK
    <3>5. ~PubFails(c)
      BY <2>1 DEF PubFails, Trouble
    <3>6. \/ /\ Live(readPublicMCPQuickState(c))
             /\ pubCall' = [pubCall EXCEPT ![c].pc = "ready", ![c].url = readPublicMCPQuickState(c),
                                           ![c].served = quickProc.target]
          \/ pubCall' = [pubCall EXCEPT ![c].pc = "probe", ![c].url = quickLog]
          \/ PubGoes(c, "restart") \/ PubGoes(c, "wait")
      BY <3>5 DEF ProbesOrigin
    <3> QED
      BY <3>1, <3>2, <3>3, <3>4, <3>6
  <2>4. row.pc = "ready" /\ row.alone /\ troubles' = 0 => row.served = row.target
    BY <1>1, <2>1, <2>3, ReachesOwn DEF PubAt
  <2>5. quickLog' \in Urls \cup {NoUrl}
    BY <1>3, <2>1 DEF ProbesOrigin, PubFails, Trouble, budget
  <2> QED
    BY <1>1, <1>3, <2>1, <2>3, <2>4, <2>5, PastStartKeeps
    DEF PubAt, Publishing, namedVars, PublicInv, PublicTypeOK
<1> QED
  BY <1>2, <1>3 DEF ProbesOrigin

\* A connector whose log was cleared is restarted from the unit file.
LEMMA RestartKeeps ==
  ASSUME PublicInv, NEW c \in PubCallers, RestartsCleared(c)
  PROVE  PublicInv'
<1>1. PubAt(c, "restart") /\ UNCHANGED <<quickUnit, quickLog, quickState, namedVars>>
  BY DEF RestartsCleared
<1>2. CASE UNCHANGED <<loadedUnit, quickProc, usedUrls>> /\ PubFails(c)
  BY <1>1, <1>2, PublicEnds DEF PubFails, PubAt, quickVars, namedVars, PublicInv, PublicTypeOK
<1>3. CASE /\ loadedUnit' = Reloaded /\ UNCHANGED budget /\ PubGoes(c, "wait")
           /\ loadedUnit' # NoFile /\ Launched(loadedUnit')
  <2> DEFINE row == [pubCall[c] EXCEPT !.pc = "wait"]
  <2>1. /\ row \in PubRows /\ row.pc = "wait" /\ row.alone = pubCall[c].alone
        /\ row.target = pubCall[c].target /\ pubCall' = [pubCall EXCEPT ![c] = row]
    BY <1>3 DEF PubRows, PubGoes, PublicInv, PublicTypeOK
  <2> HIDE DEF row
  <2>2. troubles' \in Nat /\ troubles' = troubles
    BY <1>3 DEF PublicInv, budget
  <2>3. /\ pubCall' \in [PubCallers -> PubRows]
        /\ \A d \in PubCallers : PublicPlace(d)'
    BY <1>1, <2>1, <2>2, PublicGoes DEF PubAt, Publishing, namedVars
  <2>4. /\ loadedUnit' \in Targets /\ usedUrls' \subseteq Urls /\ loadedUnit' = quickUnit
        /\ quickProc' \in [target : Targets, url : Urls] /\ quickProc'.target = quickUnit
    BY <1>1, <1>3, LaunchKeeps DEF PubAt
  <2> QED
    BY <1>1, <2>2, <2>3, <2>4, FilesAssumption DEF PublicInv, PublicTypeOK, ConnectorFollows, namedVars
<1> QED
  BY <1>2, <1>3 DEF RestartsCleared

\* Waiting for the log, and probing what it says.
LEMMA WaitKeeps ==
  ASSUME PublicInv, NEW c \in PubCallers, waitForPublicMCPQuickEndpoint(c)
  PROVE  PublicInv'
<1>1. PubAt(c, "wait") /\ UNCHANGED <<quickVars, namedVars>>
  BY DEF waitForPublicMCPQuickEndpoint
<1>2. CASE PubFails(c)
  BY <1>1, <1>2, PublicEnds DEF PubFails, PubAt, namedVars, PublicInv, PublicTypeOK
<1>3. CASE UNCHANGED budget /\ pubCall' = [pubCall EXCEPT ![c].pc = "probe", ![c].url = quickLog]
  <2> DEFINE row == [pubCall[c] EXCEPT !.pc = "probe", !.url = quickLog]
  <2>1. /\ row \in PubRows /\ row.pc = "probe" /\ row.alone = pubCall[c].alone
        /\ row.target = pubCall[c].target /\ pubCall' = [pubCall EXCEPT ![c] = row]
    BY <1>3 DEF PubRows, PublicInv, PublicTypeOK
  <2> HIDE DEF row
  <2>2. troubles' \in Nat /\ troubles' = troubles
    BY <1>3 DEF PublicInv, budget
  <2> QED
    BY <1>1, <2>1, <2>2, PastStartKeeps DEF PubAt, Publishing, quickVars, namedVars, PublicInv, PublicTypeOK
<1> QED
  BY <1>2, <1>3 DEF waitForPublicMCPQuickEndpoint

\* What a probe finds served is what the connector runs.
LEMMA ProbeKeeps ==
  ASSUME PublicInv, NEW c \in PubCallers, probePublicMCPWithRetry(c)
  PROVE  PublicInv'
<1>1. PubAt(c, "probe") /\ UNCHANGED <<quickUnit, loadedUnit, quickProc, quickLog, usedUrls, namedVars>>
  BY DEF probePublicMCPWithRetry
<1>2. CASE UNCHANGED <<quickState, budget>> /\ PubEnds(c)
  BY <1>1, <1>2, PublicEnds DEF PubAt, quickVars, namedVars, PublicInv, PublicTypeOK
<1>3. CASE /\ Live(pubCall[c].url) /\ UNCHANGED budget
           /\ quickState' = [target |-> pubCall[c].target, url |-> pubCall[c].url]
           /\ pubCall' = [pubCall EXCEPT ![c].pc = "ready", ![c].served = quickProc.target]
  <2> DEFINE row == [pubCall[c] EXCEPT !.pc = "ready", !.served = quickProc.target]
  <2>1. /\ quickProc # NoProcess /\ quickProc.target \in Targets /\ pubCall[c].url = quickProc.url
        /\ pubCall[c].alone /\ troubles = 0 => quickProc.target = pubCall[c].target
    BY <1>1, <1>3, ReachesOwn DEF PubAt, Live
  <2>2. /\ row \in PubRows /\ row.pc = "ready" /\ row.alone = pubCall[c].alone /\ row.served = quickProc.target
        /\ row.target = pubCall[c].target /\ pubCall' = [pubCall EXCEPT ![c] = row]
    BY <1>3, <2>1 DEF PubRows, PublicInv, PublicTypeOK
  <2> HIDE DEF row
  <2>3. troubles' \in Nat /\ troubles' = troubles
    BY <1>3 DEF PublicInv, budget
  <2>4. quickState' \in [target : Targets, url : Urls]
    BY <1>1, <1>3, <2>1 DEF PublicInv, PublicTypeOK, PublicPlace, PubAt, Publishing, PubRows
  <2> QED
    BY <1>1, <2>1, <2>2, <2>3, <2>4, PastStartKeeps DEF PubAt, Publishing, namedVars, PublicInv, PublicTypeOK
<1> QED
  BY <1>2, <1>3 DEF probePublicMCPWithRetry

\* The end of a removal, and of a start of the named tunnel.
LEMMA RemovalKeeps ==
  ASSUME PublicInv, NEW c \in PubCallers, removeOwnedQuickFiles(c)
  PROVE  PublicInv'
<1>1. /\ PubAt(c, "remove") /\ quickUnit' = NoFile /\ quickLog' = NoUrl /\ quickState' = NoFile
      /\ pubCall' = [pubCall EXCEPT ![c] = NoPubCall] /\ troubles' = troubles
      /\ UNCHANGED <<loadedUnit, quickProc, usedUrls, namedVars>>
  BY DEF removeOwnedQuickFiles, PubEnds, budget
<1>2. /\ pubCall' \in [PubCallers -> PubRows] /\ pubCall'[c] = NoPubCall /\ NoPubCall.pc = "idle"
      /\ \A d \in PubCallers \ {c} : pubCall'[d] = pubCall[d]
  BY <1>1 DEF PublicInv, PublicTypeOK, NoPubCall
<1>3. \A d \in PubCallers : PublicPlace(d)'
  BY <1>1, <1>2, FilesAssumption DEF PublicInv, PublicPlace, PubAt, Publishing, namedVars
<1> QED
  BY <1>1, <1>2, <1>3, FilesAssumption DEF PublicInv, PublicTypeOK, ConnectorFollows, namedVars

\* A named connector starts, or does not.
LEMMA NamedKeeps ==
  ASSUME PublicInv, NEW c \in PubCallers, NamedStarts(c)
  PROVE  PublicInv'
<1>1. PubAt(c, "named") /\ tokenFile \in TunnelTokens
  BY DEF NamedStarts, PublicInv, PublicPlace
<1> QED
  BY <1>1, PublicEnds DEF NamedStarts, PubFails, PubAt, PublicInv, PublicTypeOK, PublicPlace

\* The connector announces itself, and comes back when it dies.
LEMMA ConnectorKeeps ==
  ASSUME PublicInv, ConnectorAnnounces \/ ConnectorRestarts
  PROVE  PublicInv'
<1>1. CASE ConnectorAnnounces
  BY <1>1 DEF ConnectorAnnounces, PublicInv, PublicTypeOK, ConnectorFollows, Restarting, PublicPlace, PubAt,
       namedVars, budget
<1>2. CASE ConnectorRestarts
  <2>1. /\ troubles' \in Nat /\ troubles' # 0 /\ quickUnit # NotOurs
        /\ UNCHANGED <<quickUnit, loadedUnit, quickLog, quickState, namedVars, pubCall>>
        /\ usedUrls' \subseteq Urls /\ quickProc' \in [target : Targets, url : Urls]
    BY <1>2 DEF ConnectorRestarts, Trouble, Launched, PublicInv, PublicTypeOK
  <2> QED
    BY <2>1 DEF PublicInv, PublicTypeOK, PublicPlace, PubAt, namedVars
<1> QED
  BY <1>1, <1>2

\* PublicInv is inductive.
LEMMA PublicInduction ==
  ASSUME PublicInv, [PublicNext]_<<publicVars, budget>>
  PROVE  PublicInv'
<1>1. CASE UNCHANGED <<publicVars, budget>>
  BY <1>1 DEF PublicInv, PublicTypeOK, ConnectorFollows, Restarting, PublicPlace, PubAt, publicVars,
       quickVars, namedVars, budget
<1>2. ASSUME NEW c \in PubCallers, PubReturns(c)
      PROVE  PublicInv'
  BY <1>2, PublicEnds DEF PubReturns, PubAt, namedVars, PublicInv, PublicTypeOK
<1> QED
  BY <1>1, <1>2, EnsureQuickKeeps, EnsureNamedKeeps, RemoveQuickKeeps, RemovalKeeps, SuperviseKeeps,
     StartKeeps, OriginKeeps, RestartKeeps, WaitKeeps, ProbeKeeps, NamedKeeps, ConnectorKeeps
  DEF PublicNext

\* The inductive invariant of the agent's public endpoints.
THEOREM PublicInvariant == PublicSpec => []PublicInv
<1>1. PublicInit /\ BudgetInit => PublicInv
  BY PublicInitial
<1>2. PublicInv /\ [PublicNext]_<<publicVars, budget>> => PublicInv'
  BY PublicInduction
<1> QED
  BY <1>1, <1>2, PTL DEF PublicSpec

\* A Quick Tunnel reported ready serves the target it was asked for, when no
\* other call overlapped and nothing failed: the connector runs what the unit
\* file says unless the call that wrote the file has yet to restart it
\* (EnsurePublicMcpQuickTunnel, SetHostServiceState, probePublicMCPWithRetry).
THEOREM EndpointsServeTheirTarget == PublicSpec => []QuickServesTarget
<1>1. PublicInv => QuickServesTarget
  BY DEF PublicInv, PublicPlace, QuickServesTarget
<1> QED
  BY <1>1, PublicInvariant, PTL
----------------------------------------------------------------------------
\* PostgreSQL.  An open relay is in the table, or its owner has taken it out and
\* is about to close it; one that its timer ended was not persistent.
RelayPlace(r) ==
  /\ relay[r] # Unused => relay[r].id \in SessionIds /\ relay[r].token \in Tokens
  /\ relay[r].st = "open" => sessions[relay[r].id] = r \/ relay[r].by = "owner"
  /\ relay[r].st = "none" => relay[r].by = "none"
  /\ relay[r].by = "timer" => ~relay[r].persistent /\ relay[r].timer = "fired"

\* The table names open relays, each under its own id.
SessionPlace(s) ==
  LET r == sessions[s] IN r # NoRelay => relay[r].id = s /\ relay[r].st = "open" /\ relay[r].by = "none"

\* A handoff has an incumbent until it is over.
HandoffPlace ==
  relayMu # NoRelay =>
    /\ relay[relayMu] # Unused /\ relay[relayMu].st = "none"
    /\ sessions[relay[relayMu].id] # NoRelay

\* What was added to a session is on one that is open.
ConnPlace(x) ==
  /\ conn[x].st # "none" => conn[x].relay \in RelayObjects
  /\ conn[x].st \in {"added", "authenticated", "relaying"} => relay[conn[x].relay].st = "open"

RelaysPlaced ==
  /\ \A r \in RelayObjects : RelayPlace(r)
  /\ \A s \in SessionIds : SessionPlace(s)
  /\ HandoffPlace
  /\ \A x \in Conns : ConnPlace(x)

\* A file is of a session in the table, or of one that is being stopped, or it is
\* known to have outlived its session.
FilesNameSessions ==
  \A s \in SessionIds : stateFile[s] # NoRelay => sessions[s] # NoRelay \/ s \in Stopping \/ s \in left

\* A call that is about to start a relay has a Cluster, a removal has still to
\* revoke what is there, and one that is done has left nothing but old files.
ServicePlace ==
  ~raced =>
    /\ \A c \in PgCallers : pgcall[c].pc \in {"secret", "relay"} => cluster # "absent"
    /\ \A c \in PgCallers : PgAt(c, "revoke") => \A s \in SessionIds : sessions[s] # NoRelay => s \in Revoked(c)
    /\ removed /\ cluster = "absent" => \A s \in SessionIds : sessions[s] # NoRelay => s \in left

RelayCalls ==
  \A c \in PgCallers :
    /\ PgAt(c, "relay") => pgcall[c].relayFor \in SessionIds
    /\ PgAt(c, "revoke") => Revoked(c) \subseteq SessionIds

PgInv == PgTypeOK /\ RelaysPlaced /\ FilesNameSessions /\ ServicePlace /\ RelayCalls

\* At first there is no session and no file.
LEMMA PgInitial == PgInit => PgInv
<1> SUFFICES ASSUME PgInit PROVE PgInv
  OBVIOUS
<1>1. Unused \in RelayRows /\ Idle \in PgRows
  BY DEF Unused, RelayRows, Idle, PgRows
<1>2. PgTypeOK
  BY <1>1 DEF PgInit, PgTypeOK, NoConn
<1>3. RelaysPlaced
  BY DEF PgInit, RelaysPlaced, RelayPlace, SessionPlace, HandoffPlace, ConnPlace, Unused, NoConn
<1> QED
  BY <1>2, <1>3 DEF PgInit, PgInv, FilesNameSessions, ServicePlace, RelayCalls, PgAt, Idle

\* A step of the cluster or of a call leaves the relays alone.
LEMMA ServiceKeeps ==
  ASSUME PgInv, UNCHANGED <<relays, left>>, PgTypeOK', ServicePlace', RelayCalls'
  PROVE  PgInv'
BY DEF PgInv, relays, RelaysPlaced, RelayPlace, SessionPlace, HandoffPlace, ConnPlace, FilesNameSessions, Stopping

\* A call of the service that begins, goes on or ends.
LEMMA CallKeeps ==
  ASSUME PgInv, NEW c \in PgCallers, NEW row \in PgRows, pgcall' = [pgcall EXCEPT ![c] = row],
         UNCHANGED <<relays, kept>>,
         operator' \in {"absent", "installing", "ready"}, databases' \subseteq Databases, consumerSecret' \in BOOLEAN,
         cluster' \in {"absent", "applied", "healthy"}, cluster' = "absent" => cluster = "absent",
         row.pc # "revoke",
         row.pc \in {"secret", "relay"} => cluster # "absent" \/ pgcall[c].pc \in {"secret", "relay"},
         row.pc = "relay" => row.relayFor \in SessionIds
  PROVE  PgInv'
<1>1. /\ pgcall' \in [PgCallers -> PgRows] /\ pgcall'[c] = row
      /\ \A d \in PgCallers \ {c} : pgcall'[d] = pgcall[d]
  BY DEF PgInv, PgTypeOK
<1>2. PgTypeOK'
  BY <1>1 DEF PgInv, PgTypeOK, relays, kept
<1>3. RelayCalls'
  BY <1>1 DEF PgInv, RelayCalls, PgAt, Revoked
<1>4. ServicePlace'
  BY <1>1 DEF PgInv, ServicePlace, PgAt, Revoked, relays, kept
<1> QED
  BY <1>2, <1>3, <1>4, ServiceKeeps DEF kept

\* A reconciliation goes on to its next stage, or ends.
LEMMA StageKeeps ==
  ASSUME PgInv, NEW c \in PgCallers, UNCHANGED <<relays, kept>>,
         operator' \in {"absent", "installing", "ready"}, databases' \subseteq Databases, consumerSecret' \in BOOLEAN,
         cluster' \in {"absent", "applied", "healthy"}, cluster' = "absent" => cluster = "absent",
         \/ PgEnds(c)
         \/ \E pc \in {"crd", "rolling", "cluster", "await", "databases"} : PgTo(c, pc)
         \/ PgTo(c, "secret") /\ cluster = "healthy"
  PROVE  PgInv'
<1>1. pgcall[c] \in PgRows /\ Idle \in PgRows /\ Idle.pc = "none"
  BY DEF PgInv, PgTypeOK, Idle, PgRows
<1>2. CASE PgEnds(c)
  BY <1>1, <1>2, CallKeeps DEF PgEnds
<1>3. ASSUME NEW pc \in {"crd", "rolling", "cluster", "await", "databases", "secret"}, PgTo(c, pc),
             pc = "secret" => cluster = "healthy"
      PROVE  PgInv'
  <2> DEFINE row == [pgcall[c] EXCEPT !.pc = pc]
  <2>1. row \in PgRows /\ row.pc = pc /\ pgcall' = [pgcall EXCEPT ![c] = row]
    BY <1>1, <1>3 DEF PgRows, PgTo, PgInv, PgTypeOK
  <2> HIDE DEF row
  <2> QED
    BY <1>3, <2>1, CallKeeps
<1> QED
  BY <1>2, <1>3

\* The stages of a reconciliation leave the relays alone.
LEMMA ServiceCallsKeep ==
  ASSUME PgInv, NEW c \in PgCallers,
         \/ \E id \in SessionIds \cup {NoRelay} : ReconcilePostgreSQLService(c, id)
         \/ \E id \in SessionIds : GetPostgreSQLServiceStatus(c, id)
         \/ waitForPostgreSQLServiceK3sReady(c) \/ ensureOperator(c) \/ waitForPostgreSQLServiceCRD(c) \/ applyCluster(c)
         \/ applyOperatorProfile(c)
         \/ waitForPostgreSQLService(c) \/ replacePostgreSQLServiceConsumerSecret(c)
         \/ applyConsumerSecret(c) \/ \E d \in Databases : ensurePostgreSQLServiceDatabase(c, d)
  PROVE  PgInv'
<1>1. /\ pgcall[c] \in PgRows /\ Idle \in PgRows /\ Idle.pc = "none" /\ pgcall \in [PgCallers -> PgRows]
      /\ operator \in {"absent", "installing", "ready"} /\ databases \subseteq Databases /\ consumerSecret \in BOOLEAN
      /\ cluster \in {"absent", "applied", "healthy"}
  BY DEF PgInv, PgTypeOK, Idle, PgRows
<1>2. ASSUME NEW pc \in {"none", "operator", "crd", "cluster", "await", "databases", "secret", "relay"}
      PROVE  LET row == [pgcall[c] EXCEPT !.pc = pc] IN
             /\ row \in PgRows /\ row.pc = pc /\ row.relayFor = pgcall[c].relayFor
             /\ PgTo(c, pc) => pgcall' = [pgcall EXCEPT ![c] = row]
  BY <1>1 DEF PgRows, PgTo
<1>3. ASSUME NEW id \in SessionIds \cup {NoRelay}, ReconcilePostgreSQLService(c, id)
      PROVE  PgInv'
  <2>1. PICK pc \in {"databases", "profile", "cluster", "operator"} :
          pgcall' = [pgcall EXCEPT ![c] = [Idle EXCEPT !.relayFor = id, !.todo = Databases, !.pc = pc]]
    BY <1>3 DEF ReconcilePostgreSQLService
  <2> DEFINE row == [Idle EXCEPT !.relayFor = id, !.todo = Databases, !.pc = pc]
  <2>2. row \in PgRows /\ row.pc = pc /\ pgcall' = [pgcall EXCEPT ![c] = row]
    BY <2>1 DEF Idle, PgRows
  <2> HIDE DEF row
  <2> QED
    BY <1>1, <1>3, <2>2, CallKeeps DEF ReconcilePostgreSQLService, cell
<1>4. ASSUME NEW id \in SessionIds, GetPostgreSQLServiceStatus(c, id)
      PROVE  PgInv'
  <2> DEFINE row == [Idle EXCEPT !.pc = "relay", !.relayFor = id]
  <2>1. row \in PgRows /\ row.pc = "relay" /\ row.relayFor = id
    BY DEF Idle, PgRows
  <2> QED
    BY <1>1, <1>4, <2>1, CallKeeps DEF GetPostgreSQLServiceStatus, PgAt, cell, postgresqlServiceInfrastructureReady
<1>5. CASE waitForPostgreSQLServiceK3sReady(c) \/ waitForPostgreSQLServiceCRD(c) \/ waitForPostgreSQLService(c)
  BY <1>1, <1>5, StageKeeps
  DEF waitForPostgreSQLServiceK3sReady, waitForPostgreSQLServiceCRD, waitForPostgreSQLService, PgAt, PgEnds, cell
<1>6. CASE ensureOperator(c) \/ applyOperatorProfile(c) \/ applyCluster(c)
  <2>1. CASE ensureOperator(c)
    BY <1>1, <2>1, StageKeeps DEF ensureOperator, PgAt
  <2>2. CASE applyCluster(c)
    BY <1>1, <2>2, StageKeeps DEF applyCluster, PgAt, PgEnds
  <2>3. CASE applyOperatorProfile(c)
    BY <1>1, <2>3, StageKeeps DEF applyOperatorProfile, PgAt
  <2> QED BY <1>6, <2>1, <2>2, <2>3
<1>7. CASE replacePostgreSQLServiceConsumerSecret(c)
  BY <1>1, <1>7, StageKeeps DEF replacePostgreSQLServiceConsumerSecret, PgAt, PgEnds
<1>8. CASE applyConsumerSecret(c)
  BY <1>1, <1>2, <1>8, CallKeeps DEF applyConsumerSecret, PgAt, PgEnds, PgRows
<1>9. ASSUME NEW d \in Databases, ensurePostgreSQLServiceDatabase(c, d)
      PROVE  PgInv'
  <2> DEFINE row == [pgcall[c] EXCEPT !.todo = @ \ {d}]
  <2>1. row \in PgRows /\ row.pc = "databases"
    BY <1>1, <1>9 DEF PgRows, ensurePostgreSQLServiceDatabase, PgAt
  <2>2. CASE cluster = "healthy"
    <3>1. pgcall' = [pgcall EXCEPT ![c] = row]
      BY <1>1, <1>9, <2>2 DEF ensurePostgreSQLServiceDatabase, PgRows
    <3> QED
      BY <1>1, <1>9, <2>1, <2>2, <3>1, CallKeeps DEF ensurePostgreSQLServiceDatabase, PgAt
  <2>3. CASE cluster # "healthy"
    BY <1>1, <1>9, <2>3, CallKeeps DEF ensurePostgreSQLServiceDatabase, PgAt, PgEnds
  <2> QED BY <2>2, <2>3
<1> QED
  BY <1>3, <1>4, <1>5, <1>6, <1>7, <1>8, <1>9

\* A removal begins, deletes the Cluster, and lists what it is going to revoke.
LEMMA RemovalBegins ==
  ASSUME PgInv, NEW c \in PgCallers,
         RemovePostgreSQLService(c) \/ DeletesCluster(c) \/ \E retain \in BOOLEAN : RemovesSecrets(c, retain)
  PROVE  PgInv'
<1>1. pgcall \in [PgCallers -> PgRows] /\ pgcall[c] \in PgRows /\ consumerSecret \in BOOLEAN /\ raced \in BOOLEAN
  BY DEF PgInv, PgTypeOK
<1>2. CASE RemovePostgreSQLService(c)
  <2> DEFINE row == [Idle EXCEPT !.pc = "deleting"]
  <2>1. row \in PgRows /\ row.pc = "deleting" /\ pgcall' = [pgcall EXCEPT ![c] = row]
    BY <1>2 DEF RemovePostgreSQLService, Idle, PgRows
  <2> HIDE DEF row
  <2> QED
    BY <1>2, <2>1, CallKeeps DEF RemovePostgreSQLService, cell, PgInv, PgTypeOK
<1>4. CASE DeletesCluster(c)
  <2>1. PICK row \in PgRows : row.pc \in {"removing", "none"} /\ pgcall' = [pgcall EXCEPT ![c] = row]
    <3>1. CASE PgTo(c, "removing")
      <4> DEFINE row == [pgcall[c] EXCEPT !.pc = "removing"]
      <4>1. row \in PgRows /\ row.pc = "removing" /\ pgcall' = [pgcall EXCEPT ![c] = row]
        BY <1>1, <3>1 DEF PgTo, PgRows
      <4> QED BY <4>1
    <3>2. CASE pgcall' = [pgcall EXCEPT ![c] = Idle]
      BY <3>2 DEF Idle, PgRows
    <3> QED BY <1>4, <3>1, <3>2 DEF DeletesCluster
  <2>2. /\ pgcall'[c] = row /\ pgcall' \in [PgCallers -> PgRows]
        /\ \A d \in PgCallers \ {c} : pgcall'[d] = pgcall[d]
    BY <1>1, <2>1
  <2>3. /\ raced' \in BOOLEAN /\ (~raced' => \A d \in PgCallers \ {c} : pgcall[d].pc = "none") /\ removed' = FALSE
        /\ UNCHANGED <<operator, consumerSecret, relays, left>>
        /\ cluster' \in {"absent", cluster} /\ databases' \in {{}, databases}
    <3>1. raced' = (raced \/ \E d \in PgCallers \ {c} : pgcall[d].pc # "none")
      BY <1>4 DEF DeletesCluster
    <3> QED BY <1>1, <1>4, <3>1 DEF DeletesCluster
  <2>4. PgTypeOK'
    BY <2>2, <2>3 DEF PgInv, PgTypeOK, relays
  <2>5. ServicePlace' /\ RelayCalls'
    BY <2>1, <2>2, <2>3 DEF PgInv, ServicePlace, RelayCalls, PgAt, Revoked
  <2> QED
    BY <2>3, <2>4, <2>5, ServiceKeeps
<1>3. ASSUME NEW retain \in BOOLEAN, RemovesSecrets(c, retain)
      PROVE  PgInv'
  <2> DEFINE live == {s \in SessionIds : sessions[s] # NoRelay}
             row == [pgcall[c] EXCEPT !.pc = "revoke", !.todo = live]
  <2>1. row \in PgRows /\ row.pc = "revoke" /\ row.todo = live
    BY <1>1 DEF PgRows
  <2>2. pgcall' = [pgcall EXCEPT ![c] = row]
    BY <1>1, <1>3 DEF RemovesSecrets, PgRows
  <2>3. /\ pgcall'[c] = row /\ pgcall' \in [PgCallers -> PgRows]
        /\ \A d \in PgCallers \ {c} : pgcall'[d] = pgcall[d]
    BY <1>1, <2>1, <2>2
  <2> HIDE DEF row
  <2>4. PgTypeOK'
    BY <1>1, <1>3, <2>3 DEF RemovesSecrets, PgInv, PgTypeOK, relays, kept
  <2>5. ServicePlace'
    BY <1>3, <2>1, <2>3 DEF RemovesSecrets, PgInv, ServicePlace, PgAt, Revoked, relays, kept
  <2>6. RelayCalls'
    BY <2>1, <2>3 DEF PgInv, RelayCalls, PgAt, Revoked
  <2> QED
    BY <1>3, <2>4, <2>5, <2>6, ServiceKeeps DEF RemovesSecrets, kept
<1> QED
  BY <1>2, <1>3, <1>4

\* Kubernetes moves.
LEMMA ClusterKeeps ==
  ASSUME PgInv, OperatorComesUp \/ OperatorGoesDown \/ ClusterBecomesHealthy
  PROVE  PgInv'
<1>1. UNCHANGED <<relays, removed, raced, left, pgcall>> /\ PgTypeOK' /\ (cluster' = cluster \/ cluster' = "healthy")
  BY DEF OperatorComesUp, OperatorGoesDown, ClusterBecomesHealthy, PgInv, PgTypeOK, relays, kept
<1>2. ServicePlace' /\ RelayCalls'
  BY <1>1 DEF PgInv, ServicePlace, RelayCalls, PgAt, Revoked, relays
<1> QED
  BY <1>1, <1>2, ServiceKeeps

\* A relay takes another row.
LEMMA RelayRow ==
  ASSUME PgInv, NEW r \in RelayObjects, NEW row \in RelayRows, relay' = [relay EXCEPT ![r] = row]
  PROVE  /\ relay' \in [RelayObjects -> RelayRows] /\ relay'[r] = row
         /\ \A o \in RelayObjects \ {r} : relay'[o] = relay[o]
BY DEF PgInv, PgTypeOK

\* A relay is registered while its service is there.
LEMMA RegistersKeeps ==
  ASSUME PgInv, NEW r \in RelayObjects, NEW id \in SessionIds, NEW token \in Tokens, NEW persistent \in BOOLEAN,
         Registers(r, id, token, persistent), UNCHANGED <<cell, stateFile, relayMu, conn>>,
         ~raced => cluster # "absent",
         pgcall' = pgcall \/ \E c \in PgCallers : pgcall' = [pgcall EXCEPT ![c] = Idle]
  PROVE  PgInv'
<1> DEFINE row == NewRelay(id, token, persistent)
<1>1. /\ row \in RelayRows /\ row # Unused /\ row.st = "open" /\ row.id = id /\ row.by = "none"
      /\ row.token = token /\ relay' = [relay EXCEPT ![r] = row]
      /\ relayMu = NoRelay /\ relay[r] = Unused /\ sessions[id] = NoRelay
      /\ sessions' = [sessions EXCEPT ![id] = r]
  <2>1. /\ row \in RelayRows /\ row # Unused /\ row.st = "open" /\ row.id = id /\ row.by = "none"
        /\ row.token = token
    BY RelayAssumption DEF NewRelay, RelayRows, Unused
  <2>2. /\ relay' = [relay EXCEPT ![r] = row]
        /\ relayMu = NoRelay /\ relay[r] = Unused /\ sessions[id] = NoRelay
        /\ sessions' = [sessions EXCEPT ![id] = r]
    BY DEF Registers
  <2> QED BY <2>1, <2>2
<1> HIDE DEF row
<1>2. /\ relay' \in [RelayObjects -> RelayRows] /\ relay'[r] = row
      /\ \A o \in RelayObjects \ {r} : relay'[o] = relay[o]
  BY <1>1, RelayRow
<1>3. /\ sessions' \in [SessionIds -> RelayObjects \cup {NoRelay}] /\ sessions'[id] = r
      /\ \A s \in SessionIds \ {id} : sessions'[s] = sessions[s]
  BY <1>1 DEF PgInv, PgTypeOK
<1>4. /\ raced' \in BOOLEAN /\ (~raced' => ~raced /\ \A c \in PgCallers : pgcall[c].pc # "revoke")
      /\ UNCHANGED <<removed, left>>
  <2>1. raced' = (raced \/ \E c \in PgCallers : pgcall[c].pc \in {"deleting", "removing", "revoke"})
    BY DEF Registers
  <2> QED BY <2>1 DEF Registers, PgInv, PgTypeOK
<1>5. /\ pgcall' \in [PgCallers -> PgRows]
      /\ \A c \in PgCallers : pgcall'[c] = pgcall[c] \/ pgcall'[c].pc = "none"
  <2>1. Idle \in PgRows /\ Idle.pc = "none"
    BY DEF Idle, PgRows
  <2> QED
    BY <2>1 DEF PgInv, PgTypeOK
<1>6. PgTypeOK'
  BY <1>2, <1>3, <1>4, <1>5 DEF PgInv, PgTypeOK, cell
<1>7. relay[r].st = "none" /\ relay[r].by = "none"
  BY <1>1 DEF Unused
<1>8. \A s \in SessionIds : sessions[s] # r
  BY <1>1, <1>7, RelayAssumption DEF PgInv, RelaysPlaced, SessionPlace
<1>9. RelaysPlaced'
  <2>1. \A o \in RelayObjects : RelayPlace(o)'
    BY <1>1, <1>2, <1>3, RelayAssumption DEF PgInv, RelaysPlaced, RelayPlace
  <2>2. \A s \in SessionIds : SessionPlace(s)'
    BY <1>1, <1>2, <1>3, <1>8 DEF PgInv, PgTypeOK, RelaysPlaced, SessionPlace
  <2>3. \A x \in Conns : ConnPlace(x)'
    BY <1>1, <1>2, <1>7 DEF PgInv, RelaysPlaced, ConnPlace
  <2>4. HandoffPlace'
    BY <1>1 DEF HandoffPlace
  <2> QED BY <2>1, <2>2, <2>3, <2>4 DEF RelaysPlaced
<1>10. FilesNameSessions'
  BY <1>2, <1>3, <1>4, <1>7, RelayAssumption DEF PgInv, FilesNameSessions, Stopping
<1>11. ServicePlace' /\ RelayCalls'
  BY <1>4, <1>5 DEF PgInv, ServicePlace, RelayCalls, PgAt, Revoked, cell
<1> QED
  BY <1>6, <1>9, <1>10, <1>11 DEF PgInv

\* A relay that a call starts.
LEMMA StartsKeep ==
  ASSUME PgInv, NEW r \in RelayObjects, NEW token \in Tokens, NEW persistent \in BOOLEAN,
         \/ \E c \in PgCallers : ensurePostgreSQLServiceRelay(c, r, token, persistent)
         \/ \E id \in SessionIds : startRelay(r, id, token, persistent)
  PROVE  PgInv'
<1>1. ASSUME NEW id \in SessionIds, startRelay(r, id, token, persistent)
      PROVE  PgInv'
  BY <1>1, RegistersKeeps DEF startRelay
<1>2. ASSUME NEW c \in PgCallers, ensurePostgreSQLServiceRelay(c, r, token, persistent)
      PROVE  PgInv'
  <2>1. /\ pgcall[c].relayFor \in SessionIds /\ (~raced => cluster # "absent") /\ PgEnds(c)
        /\ UNCHANGED <<cell, stateFile, relayMu, conn>> /\ PgAt(c, "relay")
    BY <1>2 DEF ensurePostgreSQLServiceRelay, PgInv, RelayCalls, ServicePlace, PgAt
  <2>2. CASE Registers(r, pgcall[c].relayFor, token, persistent)
    BY <2>1, <2>2, RegistersKeeps DEF PgEnds
  <2>3. CASE UNCHANGED <<sessions, relay, kept>>
    <3>1. PgEnds(c) /\ UNCHANGED <<relays, kept>> /\ cluster' = cluster
      BY <2>1, <2>3 DEF relays, cell
    <3> QED
      BY <2>1, <3>1, StageKeeps DEF PgInv, PgTypeOK, cell, PgAt
  <2> QED
    BY <1>2, <2>2, <2>3 DEF ensurePostgreSQLServiceRelay
<1> QED
  BY <1>1, <1>2

\* A handoff begins: the new relay waits for the listener of the old one.
LEMMA ReplaceKeeps ==
  ASSUME PgInv, NEW r \in RelayObjects, NEW id \in SessionIds, NEW token \in Tokens, startReplaces(r, id, token)
  PROVE  PgInv'
<1> DEFINE row == [NewRelay(id, token, TRUE) EXCEPT !.st = "none"]
<1>1. /\ row \in RelayRows /\ row # Unused /\ row.st = "none" /\ row.id = id /\ row.by = "none"
      /\ row.token = token
  BY RelayAssumption DEF NewRelay, RelayRows, Unused
<1>2. /\ relay' = [relay EXCEPT ![r] = row] /\ relay[r] = Unused /\ sessions[id] # NoRelay
      /\ relayMu' = r /\ UNCHANGED <<cell, sessions, stateFile, conn, removed, raced, left>>
      /\ pgcall' = pgcall \/ \E c \in PgCallers : pgcall' = [pgcall EXCEPT ![c] = Idle]
  BY DEF startReplaces, PgEnds, kept
<1> HIDE DEF row
<1>3. /\ relay' \in [RelayObjects -> RelayRows] /\ relay'[r] = row
      /\ \A o \in RelayObjects \ {r} : relay'[o] = relay[o]
  BY <1>1, <1>2, RelayRow
<1>4. relay[r].st = "none" /\ relay[r].by = "none"
  BY <1>2 DEF Unused
<1>9. /\ pgcall' \in [PgCallers -> PgRows]
      /\ \A c \in PgCallers : pgcall'[c] = pgcall[c] \/ pgcall'[c].pc = "none"
  <2>1. Idle \in PgRows /\ Idle.pc = "none"
    BY DEF Idle, PgRows
  <2> QED
    BY <1>2, <2>1 DEF PgInv, PgTypeOK
<1>5. PgTypeOK'
  BY <1>2, <1>3, <1>9 DEF PgInv, PgTypeOK, cell
<1>6. RelaysPlaced'
  <2>1. \A o \in RelayObjects : RelayPlace(o)'
    BY <1>1, <1>2, <1>3 DEF PgInv, RelaysPlaced, RelayPlace
  <2>2. \A s \in SessionIds : SessionPlace(s)'
    BY <1>2, <1>3, <1>4 DEF PgInv, PgTypeOK, RelaysPlaced, SessionPlace
  <2>3. \A x \in Conns : ConnPlace(x)'
    BY <1>2, <1>3, <1>4 DEF PgInv, RelaysPlaced, ConnPlace
  <2>4. HandoffPlace'
    BY <1>1, <1>2, <1>3 DEF HandoffPlace
  <2> QED BY <2>1, <2>2, <2>3, <2>4 DEF RelaysPlaced
<1>7. FilesNameSessions'
  BY <1>2, <1>3, <1>4 DEF PgInv, FilesNameSessions, Stopping
<1>8. ServicePlace' /\ RelayCalls'
  BY <1>2, <1>9 DEF PgInv, ServicePlace, RelayCalls, PgAt, Revoked, cell
<1> QED
  BY <1>5, <1>6, <1>7, <1>8 DEF PgInv

\* The file of a session that ended goes, or its id is known to have kept it.
LEMMA RemovesSessionFile ==
  ASSUME PgInv, NEW id \in SessionIds, removePersistedSession(id)
  PROVE  /\ stateFile' \in [SessionIds -> Tokens \cup {NoRelay}]
         /\ \A s \in SessionIds \ {id} : stateFile'[s] = stateFile[s]
         /\ left' \subseteq SessionIds /\ left \subseteq left' /\ (stateFile'[id] # NoRelay => id \in left')
BY DEF removePersistedSession, PgInv, PgTypeOK

\* The listener is taken over, or the address cannot be bound.
LEMMA HandsOverKeeps ==
  ASSUME PgInv, NEW r \in RelayObjects, HandsOver(r)
  PROVE  PgInv'
<1> SUFFICES ASSUME NEW id, NEW old, id = relay[r].id, old = sessions[id]
             PROVE  PgInv'
  OBVIOUS
<1>1. relayMu = r /\ r # NoRelay /\ relay[r] # Unused /\ relay[r].st = "none" /\ relay[r].by = "none"
      /\ id \in SessionIds /\ old \in RelayObjects /\ relay[r] \in RelayRows
  BY RelayAssumption DEF HandsOver, PgInv, PgTypeOK, RelaysPlaced, HandoffPlace, RelayPlace
<1>2. relay[old].id = id /\ relay[old].st = "open" /\ relay[old].by = "none" /\ old # r
  BY <1>1, RelayAssumption DEF PgInv, RelaysPlaced, SessionPlace
<1>3. PICK bound \in BOOLEAN :
        /\ relay' = [relay EXCEPT ![r].st = IF bound THEN "open" ELSE "closed",
                                  ![r].timer = IF bound THEN @ ELSE "fired",
                                  ![old].st = "closed", ![old].by = "handoff"]
        /\ conn' = [x \in Conns |-> IF conn[x].relay = old /\ conn[x].st # "accepted" THEN NoConn ELSE conn[x]]
        /\ sessions' = [sessions EXCEPT ![id] = IF bound THEN r ELSE NoRelay]
        /\ removePersistedSession(id)
  BY DEF HandsOver
<1>4. relayMu' = NoRelay /\ UNCHANGED <<cell, pgcall, removed, raced>>
  BY DEF HandsOver
<1>5. /\ relay' \in [RelayObjects -> RelayRows]
      /\ relay'[r].id = relay[r].id /\ relay'[r].token = relay[r].token /\ relay'[r].by = "none"
      /\ relay'[r].st = (IF bound THEN "open" ELSE "closed")
      /\ relay'[old].id = relay[old].id /\ relay'[old].token = relay[old].token
      /\ relay'[old].by = "handoff" /\ relay'[old].st = "closed"
      /\ \A o \in RelayObjects \ {r, old} : relay'[o] = relay[o]
  <2> DEFINE taken == [relay[r] EXCEPT !.st = IF bound THEN "open" ELSE "closed",
                                       !.timer = IF bound THEN @ ELSE "fired"]
             ended == [relay[old] EXCEPT !.st = "closed", !.by = "handoff"]
  <2>1. relay \in [RelayObjects -> RelayRows] /\ relay[old] \in RelayRows
    BY <1>1 DEF PgInv, PgTypeOK
  <2>2. relay' = [relay EXCEPT ![r] = taken, ![old] = ended]
    BY <1>2, <1>3, <2>1
  <2>3. /\ taken \in RelayRows /\ taken.id = relay[r].id /\ taken.token = relay[r].token
        /\ taken.by = relay[r].by /\ taken.st = (IF bound THEN "open" ELSE "closed")
    BY <1>1 DEF RelayRows
  <2>4. /\ ended \in RelayRows /\ ended.id = relay[old].id /\ ended.token = relay[old].token
        /\ ended.by = "handoff" /\ ended.st = "closed"
    BY <2>1 DEF RelayRows
  <2> HIDE DEF taken, ended
  <2>5. relay'[r] = taken /\ relay'[old] = ended
    BY <1>1, <1>2, <2>1, <2>2
  <2>6. relay' \in [RelayObjects -> RelayRows] /\ \A o \in RelayObjects \ {r, old} : relay'[o] = relay[o]
    BY <2>1, <2>2, <2>3, <2>4
  <2> QED BY <1>1, <2>3, <2>4, <2>5, <2>6
<1>6. /\ sessions' \in [SessionIds -> RelayObjects \cup {NoRelay}]
      /\ sessions'[id] = (IF bound THEN r ELSE NoRelay)
      /\ \A s \in SessionIds \ {id} : sessions'[s] = sessions[s]
      /\ stateFile' \in [SessionIds -> Tokens \cup {NoRelay}] /\ (stateFile'[id] # NoRelay => id \in left')
      /\ \A s \in SessionIds \ {id} : stateFile'[s] = stateFile[s]
      /\ left' \subseteq SessionIds /\ left \subseteq left'
  BY <1>1, <1>3, RemovesSessionFile DEF PgInv, PgTypeOK
<1>7. \A x \in Conns : conn'[x] = NoConn \/ (conn'[x] = conn[x] /\ (conn[x].relay # old \/ conn[x].st = "accepted"))
  BY <1>3
<1>8. PgTypeOK'
  <2>1. conn' \in [Conns -> [relay : RelayObjects \cup {NoRelay},
                             st : {"none", "accepted", "added", "authenticated", "relaying"}]]
    BY <1>3 DEF PgInv, PgTypeOK, NoConn
  <2> QED
    BY <1>4, <1>5, <1>6, <2>1 DEF PgInv, PgTypeOK, cell
<1>9. RelaysPlaced'
  <2>1. \A o \in RelayObjects : RelayPlace(o)'
    <3>1. id = relay[r].id /\ RelayPlace(old) /\ RelayPlace(r) /\ relay[old] # Unused
      BY <1>1, <1>2 DEF PgInv, RelaysPlaced, Unused
    <3>2. RelayPlace(r)'
      BY <1>1, <1>5, <1>6, <3>1 DEF RelayPlace
    <3>3. RelayPlace(old)'
      BY <1>1, <1>2, <1>5, <3>1 DEF RelayPlace
    <3>4. ASSUME NEW o \in RelayObjects \ {r, old} PROVE RelayPlace(o)'
      <4>1. RelayPlace(o) /\ relay'[o] = relay[o] /\ o # sessions[id]
        BY <1>5 DEF PgInv, RelaysPlaced
      <4> QED
        BY <1>1, <1>6, <4>1 DEF RelayPlace, Unused
    <3> QED BY <3>2, <3>3, <3>4
  <2>2. \A s \in SessionIds : SessionPlace(s)'
    <3>1. id = relay[r].id
      OBVIOUS
    <3>2. SessionPlace(id)'
      BY <1>1, <1>5, <1>6, <3>1 DEF SessionPlace
    <3>3. ASSUME NEW s \in SessionIds \ {id} PROVE SessionPlace(s)'
      BY <1>1, <1>2, <1>5, <1>6 DEF PgInv, PgTypeOK, RelaysPlaced, SessionPlace
    <3> QED BY <3>2, <3>3
  <2>3. \A x \in Conns : ConnPlace(x)'
    BY <1>1, <1>5, <1>7 DEF PgInv, RelaysPlaced, ConnPlace, NoConn
  <2>4. HandoffPlace'
    BY <1>4 DEF HandoffPlace
  <2> QED BY <2>1, <2>2, <2>3, <2>4 DEF RelaysPlaced
<1>10. FilesNameSessions'
  <2>1. Stopping \subseteq Stopping'
    BY <1>1, <1>2, <1>5 DEF Stopping
  <2> QED
    BY <1>4, <1>6, <2>1 DEF PgInv, FilesNameSessions
<1>11. \A s \in SessionIds : sessions'[s] # NoRelay => sessions[s] # NoRelay
  BY <1>1, <1>6, RelayAssumption
<1>12. ServicePlace' /\ RelayCalls'
  BY <1>4, <1>6, <1>11 DEF PgInv, ServicePlace, RelayCalls, PgAt, Revoked, cell
<1> QED
  BY <1>8, <1>9, <1>10, <1>12 DEF PgInv

\* A session is saved after the mutex was released.
LEMMA PersistKeeps ==
  ASSUME PgInv, NEW r \in RelayObjects, persistSession(r)
  PROVE  PgInv'
<1> DEFINE id == relay[r].id
<1>1. /\ relay[r].st \in {"open", "closed"} /\ relay[r].timer = "none"
      /\ relay' = [relay EXCEPT ![r].timer = "saved"]
      /\ stateFile' = [stateFile EXCEPT ![id] = relay[r].token]
      /\ UNCHANGED <<cell, pgcall, sessions, relayMu, conn, removed, raced>>
  BY DEF persistSession
<1>3. relay[r] # Unused /\ id \in SessionIds /\ relay[r].token \in Tokens /\ relay[r] \in RelayRows
      /\ relay[r].by # "timer"
  BY <1>1 DEF PgInv, PgTypeOK, RelaysPlaced, RelayPlace, Unused
<1>4. id = relay[r].id OBVIOUS
<1>2. left \subseteq left' /\ left' \subseteq SessionIds /\ (relay[r].st = "closed" => id \in left')
  BY <1>3 DEF persistSession, PgInv, PgTypeOK
<1> HIDE DEF id
<1>5. /\ relay' \in [RelayObjects -> RelayRows]
      /\ \A o \in RelayObjects : /\ relay'[o].id = relay[o].id /\ relay'[o].st = relay[o].st
                                 /\ relay'[o].by = relay[o].by /\ relay'[o].token = relay[o].token
                                 /\ (relay'[o] = relay[o] \/ o = r)
      /\ relay'[r] # Unused
  BY <1>1, <1>3 DEF PgInv, PgTypeOK, RelayRows, Unused
<1>6. /\ stateFile' \in [SessionIds -> Tokens \cup {NoRelay}]
      /\ \A s \in SessionIds \ {id} : stateFile'[s] = stateFile[s]
  BY <1>1, <1>3 DEF PgInv, PgTypeOK
<1>7. PgTypeOK'
  BY <1>1, <1>2, <1>5, <1>6 DEF PgInv, PgTypeOK, cell
<1>8. RelaysPlaced'
  <2>1. \A o \in RelayObjects : RelayPlace(o)'
    <3>1. RelayPlace(r)'
      BY <1>1, <1>3, <1>4, <1>5 DEF PgInv, RelaysPlaced, RelayPlace
    <3>2. ASSUME NEW o \in RelayObjects \ {r} PROVE RelayPlace(o)'
      BY <1>1, <1>5 DEF PgInv, RelaysPlaced, RelayPlace
    <3> QED BY <3>1, <3>2
  <2>2. \A s \in SessionIds : SessionPlace(s)'
    BY <1>1, <1>5 DEF PgInv, PgTypeOK, RelaysPlaced, SessionPlace
  <2>3. \A x \in Conns : ConnPlace(x)'
    BY <1>1, <1>5 DEF PgInv, RelaysPlaced, ConnPlace
  <2>4. HandoffPlace'
    BY <1>1, <1>5 DEF PgInv, PgTypeOK, RelaysPlaced, HandoffPlace
  <2> QED BY <2>1, <2>2, <2>3, <2>4 DEF RelaysPlaced
<1>9. FilesNameSessions'
  <2>1. Stopping \subseteq Stopping'
    BY <1>5 DEF Stopping
  <2>2. sessions[id] = r \/ id \in Stopping \/ id \in left'
    BY <1>1, <1>2, <1>3, <1>4 DEF PgInv, RelaysPlaced, RelayPlace, Stopping
  <2>3. r # NoRelay
    BY RelayAssumption
  <2> QED
    BY <1>1, <1>2, <1>3, <1>6, <2>1, <2>2, <2>3 DEF PgInv, FilesNameSessions
<1>10. ServicePlace' /\ RelayCalls'
  BY <1>1, <1>2 DEF PgInv, ServicePlace, RelayCalls, PgAt, Revoked, cell
<1> QED
  BY <1>7, <1>8, <1>9, <1>10 DEF PgInv

\* A session ends: the relay is closed, its connections are cut, its file goes,
\* and its entry in the table, if its owner has not taken it out already.
LEMMA EndKeeps ==
  ASSUME PgInv, NEW r \in RelayObjects, NEW id, id = relay[r].id, relay[r].st = "open",
         NEW row \in RelayRows, row.st = "closed", row.id = id, row.token = relay[r].token,
         row.by = "timer" => ~row.persistent /\ row.timer = "fired",
         relay' = [relay EXCEPT ![r] = row],
         conn' = [x \in Conns |-> IF conn[x].relay = r /\ conn[x].st # "accepted" THEN NoConn ELSE conn[x]],
         removePersistedSession(id),
         \/ sessions[id] = r /\ relayMu = NoRelay /\ sessions' = [sessions EXCEPT ![id] = NoRelay]
         \/ relay[r].by = "owner" /\ sessions' = sessions,
         UNCHANGED <<cell, relayMu, removed, raced>>,
         pgcall' \in [PgCallers -> PgRows], ServicePlace', RelayCalls'
  PROVE  PgInv'
<1>1. id \in SessionIds /\ relay[r].token \in Tokens /\ row # Unused /\ relay[r] # Unused
  BY DEF PgInv, RelaysPlaced, RelayPlace, Unused
<1>2. /\ relay' \in [RelayObjects -> RelayRows] /\ relay'[r] = row
      /\ \A o \in RelayObjects \ {r} : relay'[o] = relay[o]
  BY RelayRow
<1>3. /\ sessions' \in [SessionIds -> RelayObjects \cup {NoRelay}]
      /\ sessions'[id] # r
      /\ \A s \in SessionIds \ {id} : sessions'[s] = sessions[s]
      /\ sessions'[id] = sessions[id] \/ (sessions'[id] = NoRelay /\ sessions[id] = r)
  BY <1>1, RelayAssumption DEF PgInv, PgTypeOK, RelaysPlaced, SessionPlace
<1>4. /\ stateFile' \in [SessionIds -> Tokens \cup {NoRelay}] /\ (stateFile'[id] # NoRelay => id \in left')
      /\ \A s \in SessionIds \ {id} : stateFile'[s] = stateFile[s]
      /\ left' \subseteq SessionIds /\ left \subseteq left'
  BY <1>1, RemovesSessionFile
<1>5. \A x \in Conns : conn'[x] = NoConn \/ (conn'[x] = conn[x] /\ (conn[x].relay # r \/ conn[x].st = "accepted"))
  OBVIOUS
<1>6. PgTypeOK'
  <2>1. conn' \in [Conns -> [relay : RelayObjects \cup {NoRelay},
                             st : {"none", "accepted", "added", "authenticated", "relaying"}]]
    BY DEF PgInv, PgTypeOK, NoConn
  <2> QED
    BY <1>2, <1>3, <1>4, <2>1 DEF PgInv, PgTypeOK, cell
<1>7. RelaysPlaced'
  <2>1. \A o \in RelayObjects : RelayPlace(o)'
    <3>1. RelayPlace(r)'
      BY <1>1, <1>2 DEF RelayPlace
    <3>2. ASSUME NEW o \in RelayObjects \ {r} PROVE RelayPlace(o)'
      <4>1. RelayPlace(o) /\ relay'[o] = relay[o]
        BY <1>2 DEF PgInv, RelaysPlaced
      <4> QED
        BY <1>1, <1>3, <4>1 DEF RelayPlace, Unused
    <3> QED BY <3>1, <3>2
  <2>2. \A s \in SessionIds : SessionPlace(s)'
    BY <1>1, <1>2, <1>3 DEF PgInv, PgTypeOK, RelaysPlaced, SessionPlace
  <2>3. \A x \in Conns : ConnPlace(x)'
    BY <1>2, <1>5 DEF PgInv, RelaysPlaced, ConnPlace, NoConn
  <2>4. HandoffPlace'
    BY <1>1, <1>2, RelayAssumption DEF PgInv, PgTypeOK, RelaysPlaced, HandoffPlace
  <2> QED BY <2>1, <2>2, <2>3, <2>4 DEF RelaysPlaced
<1>8. FilesNameSessions'
  <2>1. \A s \in SessionIds \ {id} : s \in Stopping => s \in Stopping'
    BY <1>2 DEF Stopping
  <2> QED
    BY <1>3, <1>4, <2>1 DEF PgInv, FilesNameSessions
<1> QED
  BY <1>6, <1>7, <1>8 DEF PgInv

\* The sessions a removal has to revoke are fewer after a step that adds none.
LEMMA FewerSessions ==
  ASSUME PgInv, UNCHANGED <<cluster, pgcall, removed, raced>>, left \subseteq left',
         \A s \in SessionIds : sessions'[s] # NoRelay => sessions[s] # NoRelay
  PROVE  ServicePlace' /\ RelayCalls' /\ pgcall' \in [PgCallers -> PgRows]
BY DEF PgInv, PgTypeOK, ServicePlace, RelayCalls, PgAt, Revoked

\* A timer ends its own session, or finds another in its place.
LEMMA StopIfCurrentKeeps ==
  ASSUME PgInv, NEW r \in RelayObjects, stopIfCurrent(r)
  PROVE  PgInv'
<1>1. /\ relayMu = NoRelay /\ relay[r].st \in {"open", "closed"}
      /\ relay[r].timer = "set" \/ (relay[r].timer = "none" /\ relay[r].persistent)
      /\ UNCHANGED <<cell, pgcall, relayMu, removed, raced>>
  BY DEF stopIfCurrent
<1> SUFFICES ASSUME NEW id, id = relay[r].id
             PROVE  PgInv'
  OBVIOUS
<1>2. id \in SessionIds /\ relay[r] \in RelayRows /\ r # NoRelay /\ relay[r].by # "timer" /\ relay \in [RelayObjects -> RelayRows]
  BY <1>1, RelayAssumption DEF PgInv, PgTypeOK, RelaysPlaced, RelayPlace, Unused
<1>3. CASE sessions[id] = r
  <2> DEFINE row == [relay[r] EXCEPT !.timer = "fired", !.st = "closed",
                                     !.by = IF relay[r].persistent THEN "unsaved" ELSE "timer"]
  <2>1. /\ row \in RelayRows /\ row.st = "closed" /\ row.id = id /\ row.token = relay[r].token
        /\ row.by = "timer" => ~row.persistent /\ row.timer = "fired"
    BY <1>2 DEF RelayRows
  <2>2. Current(id, r) = r
    BY <1>3 DEF Current
  <2>3. /\ relay' = [relay EXCEPT ![r] = row]
        /\ sessions' = [sessions EXCEPT ![id] = NoRelay]
        /\ conn' = [x \in Conns |-> IF conn[x].relay = r /\ conn[x].st # "accepted" THEN NoConn ELSE conn[x]]
        /\ removePersistedSession(id)
    <3>1. /\ relay' = [relay EXCEPT ![r].timer = "fired", ![r].st = "closed",
                                     ![r].by = IF relay[r].persistent THEN "unsaved" ELSE "timer"]
          /\ sessions' = [sessions EXCEPT ![id] = NoRelay]
          /\ conn' = [x \in Conns |-> IF conn[x].relay = r /\ conn[x].st # "accepted" THEN NoConn ELSE conn[x]]
          /\ removePersistedSession(id)
      BY <1>2, <2>2 DEF stopIfCurrent
    <3> QED
      BY <1>2, <3>1
  <2> HIDE DEF row
  <2>4. relay[r].st = "open"
    BY <1>2, <1>3 DEF PgInv, RelaysPlaced, SessionPlace
  <2>5. ServicePlace' /\ RelayCalls' /\ pgcall' \in [PgCallers -> PgRows]
    BY <1>1, <1>2, <2>3, RemovesSessionFile, FewerSessions DEF cell, PgInv, PgTypeOK
  <2> QED
    BY <1>1, <1>3, <2>1, <2>3, <2>4, <2>5, EndKeeps
<1>4. CASE sessions[id] # r
  <2> DEFINE row == [relay[r] EXCEPT !.timer = "fired"]
  <2>1. /\ row \in RelayRows /\ row.st = relay[r].st /\ row.id = id /\ row.token = relay[r].token
        /\ row.by = relay[r].by /\ row # Unused
    BY <1>1, <1>2 DEF RelayRows, Unused
  <2>2. Current(id, r) = NoRelay
    BY <1>2, <1>4 DEF Current
  <2>3. relay' = [relay EXCEPT ![r] = row] /\ UNCHANGED <<sessions, stateFile, conn, left>>
    BY <1>2, <2>2 DEF stopIfCurrent
  <2> HIDE DEF row
  <2>4. /\ relay' \in [RelayObjects -> RelayRows] /\ relay'[r] = row
        /\ \A o \in RelayObjects \ {r} : relay'[o] = relay[o]
    BY <2>1, <2>3, RelayRow
  <2>5. PgTypeOK'
    BY <1>1, <2>3, <2>4 DEF PgInv, PgTypeOK, cell
  <2>6. RelaysPlaced'
    <3>1. \A o \in RelayObjects : RelayPlace(o)'
      <4>1. RelayPlace(r)'
        BY <1>1, <1>2, <2>1, <2>3, <2>4 DEF PgInv, RelaysPlaced, RelayPlace, Unused
      <4>2. ASSUME NEW o \in RelayObjects \ {r} PROVE RelayPlace(o)'
        BY <2>3, <2>4 DEF PgInv, RelaysPlaced, RelayPlace
      <4> QED BY <4>1, <4>2
    <3>2. \A s \in SessionIds : SessionPlace(s)'
      BY <2>1, <2>3, <2>4 DEF PgInv, PgTypeOK, RelaysPlaced, SessionPlace
    <3>3. \A x \in Conns : ConnPlace(x)'
      BY <2>1, <2>3, <2>4 DEF PgInv, RelaysPlaced, ConnPlace
    <3>4. HandoffPlace'
      BY <1>1 DEF HandoffPlace
    <3> QED BY <3>1, <3>2, <3>3, <3>4 DEF RelaysPlaced
  <2>7. FilesNameSessions'
    BY <1>1, <2>1, <2>3, <2>4 DEF PgInv, FilesNameSessions, Stopping
  <2>8. ServicePlace' /\ RelayCalls'
    BY <1>1, <2>3, FewerSessions DEF cell
  <2> QED
    BY <2>5, <2>6, <2>7, <2>8 DEF PgInv
<1> QED
  BY <1>3, <1>4

\* The owner takes its session out of the table ...
LEMMA StopOwnedKeeps ==
  ASSUME PgInv, NEW id \in SessionIds, NEW token \in Tokens, stopOwned(id, token)
  PROVE  PgInv'
<1> SUFFICES ASSUME NEW r, r = sessions[id]
             PROVE  PgInv'
  OBVIOUS
<1> DEFINE row == [relay[r] EXCEPT !.by = "owner"]
<1>1. /\ relayMu = NoRelay /\ r # NoRelay
      /\ sessions' = [sessions EXCEPT ![id] = NoRelay] /\ relay' = [relay EXCEPT ![r].by = "owner"]
      /\ UNCHANGED <<cell, pgcall, stateFile, relayMu, conn, removed, raced, left>>
  BY DEF stopOwned, kept
<1>2. r \in RelayObjects /\ relay[r] \in RelayRows /\ relay[r].st = "open" /\ relay[r].id = id
  BY <1>1 DEF PgInv, PgTypeOK, RelaysPlaced, SessionPlace
<1>3. /\ row \in RelayRows /\ row.st = "open" /\ row.id = id /\ row.token = relay[r].token
      /\ row.by = "owner" /\ row # Unused /\ relay[r] # Unused
  BY <1>2 DEF RelayRows, Unused
<1>4. relay' = [relay EXCEPT ![r] = row]
  BY <1>1, <1>2 DEF PgInv, PgTypeOK
<1> HIDE DEF row
<1>5. /\ relay' \in [RelayObjects -> RelayRows] /\ relay'[r] = row
      /\ \A o \in RelayObjects \ {r} : relay'[o] = relay[o]
  BY <1>2, <1>3, <1>4, RelayRow
<1>6. /\ sessions' \in [SessionIds -> RelayObjects \cup {NoRelay}] /\ sessions'[id] = NoRelay
      /\ \A s \in SessionIds \ {id} : sessions'[s] = sessions[s]
  BY <1>1 DEF PgInv, PgTypeOK
<1>7. PgTypeOK'
  BY <1>1, <1>5, <1>6 DEF PgInv, PgTypeOK, cell
<1>8. RelaysPlaced'
  <2>1. \A o \in RelayObjects : RelayPlace(o)'
    <3>1. RelayPlace(r)'
      BY <1>2, <1>3, <1>5 DEF PgInv, RelaysPlaced, RelayPlace
    <3>2. ASSUME NEW o \in RelayObjects \ {r} PROVE RelayPlace(o)'
      <4>1. RelayPlace(o) /\ relay'[o] = relay[o]
        BY <1>5 DEF PgInv, RelaysPlaced
      <4> QED
        BY <1>6, <4>1 DEF RelayPlace, Unused
    <3> QED BY <3>1, <3>2
  <2>2. \A s \in SessionIds : SessionPlace(s)'
    BY <1>2, <1>5, <1>6 DEF PgInv, PgTypeOK, RelaysPlaced, SessionPlace
  <2>3. \A x \in Conns : ConnPlace(x)'
    BY <1>1, <1>2, <1>3, <1>5 DEF PgInv, RelaysPlaced, ConnPlace
  <2>4. HandoffPlace'
    BY <1>1 DEF HandoffPlace
  <2> QED BY <2>1, <2>2, <2>3, <2>4 DEF RelaysPlaced
<1>9. FilesNameSessions'
  <2>1. id \in Stopping' /\ Stopping \subseteq Stopping'
    BY <1>2, <1>3, <1>5 DEF Stopping
  <2> QED
    BY <1>1, <1>6, <2>1 DEF PgInv, FilesNameSessions
<1>10. ServicePlace' /\ RelayCalls'
  BY <1>1, <1>6, FewerSessions DEF cell
<1> QED
  BY <1>7, <1>8, <1>9, <1>10 DEF PgInv

\* ... and closes it.
LEMMA StopFinishesKeeps ==
  ASSUME PgInv, NEW r \in RelayObjects, StopFinishes(r)
  PROVE  PgInv'
<1> DEFINE row == [relay[r] EXCEPT !.st = "closed", !.by = "owner"]
<1>1. relay[r] \in RelayRows /\ relay \in [RelayObjects -> RelayRows]
  BY DEF PgInv, PgTypeOK
<1>2. row \in RelayRows /\ row.st = "closed" /\ row.id = relay[r].id /\ row.token = relay[r].token /\ row.by # "timer"
  BY <1>1 DEF RelayRows
<1>3. /\ relay[r].by = "owner" /\ relay[r].st = "open" /\ relay' = [relay EXCEPT ![r] = row]
      /\ conn' = [x \in Conns |-> IF conn[x].relay = r /\ conn[x].st # "accepted" THEN NoConn ELSE conn[x]]
      /\ removePersistedSession(relay[r].id)
      /\ UNCHANGED <<cell, pgcall, sessions, relayMu, removed, raced>>
  BY <1>1 DEF StopFinishes, Closes
<1> HIDE DEF row
<1>4. ServicePlace' /\ RelayCalls' /\ pgcall' \in [PgCallers -> PgRows]
  <2>1. relay[r].id \in SessionIds
    BY <1>3 DEF PgInv, RelaysPlaced, RelayPlace, Unused
  <2> QED BY <1>3, <2>1, RemovesSessionFile, FewerSessions DEF cell
<1> QED
  BY <1>2, <1>3, <1>4, EndKeeps

\* A connection moves; one is added, or relays, only on a session that is open.
LEMMA ConnectionsKeep ==
  ASSUME PgInv, NEW x \in Conns, handleConnection(x) \/ \E r \in RelayObjects : acceptLoop(x, r)
  PROVE  PgInv'
<1> DEFINE ConnRows == [relay : RelayObjects \cup {NoRelay},
                        st : {"none", "accepted", "added", "authenticated", "relaying"}]
<1>1. UNCHANGED <<cell, pgcall, sessions, relay, stateFile, relayMu, removed, raced, left>>
  BY DEF handleConnection, acceptLoop, kept
<1>2. conn \in [Conns -> ConnRows] /\ conn[x] \in ConnRows /\ NoConn \in ConnRows /\ ConnPlace(x)
  BY DEF PgInv, PgTypeOK, NoConn, RelaysPlaced
<1>3. ASSUME NEW row \in ConnRows, conn' = [conn EXCEPT ![x] = row],
             row.st # "none" => row.relay \in RelayObjects,
             row.st \in {"added", "authenticated", "relaying"} => relay[row.relay].st = "open"
      PROVE  PgInv'
  <2>1. conn' \in [Conns -> ConnRows] /\ conn'[x] = row /\ \A y \in Conns \ {x} : conn'[y] = conn[y]
    BY <1>2, <1>3
  <2>2. PgTypeOK'
    BY <1>1, <2>1 DEF PgInv, PgTypeOK, cell
  <2>3. \A y \in Conns : ConnPlace(y)'
    BY <1>1, <1>3, <2>1 DEF PgInv, RelaysPlaced, ConnPlace
  <2>4. RelaysPlaced'
    BY <1>1, <2>3 DEF PgInv, RelaysPlaced, RelayPlace, SessionPlace, HandoffPlace
  <2>5. FilesNameSessions' /\ ServicePlace' /\ RelayCalls'
    BY <1>1 DEF PgInv, FilesNameSessions, Stopping, ServicePlace, RelayCalls, PgAt, Revoked, cell
  <2> QED
    BY <2>2, <2>4, <2>5 DEF PgInv
<1>4. CASE conn' = [conn EXCEPT ![x] = NoConn]
  BY <1>2, <1>3, <1>4 DEF NoConn
<1>5. ASSUME NEW r \in RelayObjects, acceptLoop(x, r)
      PROVE  PgInv'
  <2> DEFINE row == [relay |-> r, st |-> "accepted"]
  <2>1. row \in ConnRows /\ row.relay = r /\ row.st = "accepted" /\ conn' = [conn EXCEPT ![x] = row]
    BY <1>5 DEF acceptLoop
  <2> QED
    BY <1>3, <2>1
<1>6. ASSUME NEW st \in {"added", "authenticated", "relaying"}, conn' = [conn EXCEPT ![x].st = st],
             conn[x].st # "none", relay[conn[x].relay].st = "open"
      PROVE  PgInv'
  <2> DEFINE row == [conn[x] EXCEPT !.st = st]
  <2>1. row \in ConnRows /\ row.relay = conn[x].relay /\ row.st = st /\ conn' = [conn EXCEPT ![x] = row]
    BY <1>2, <1>6
  <2>2. row.relay \in RelayObjects /\ relay[row.relay].st = "open"
    BY <1>2, <1>6, <2>1 DEF ConnPlace
  <2> HIDE DEF row
  <2> QED
    BY <1>3, <2>1, <2>2
<1>7. CASE handleConnection(x)
  <2>1. CASE conn[x].st = "accepted" /\ conn' = [conn EXCEPT ![x] = IF addConnection(x) THEN [@ EXCEPT !.st = "added"] ELSE NoConn]
    <3>1. CASE addConnection(x)
      <4>1. conn' = [conn EXCEPT ![x].st = "added"]
        BY <1>2, <2>1, <3>1
      <4> QED
        BY <1>6, <2>1, <3>1, <4>1 DEF addConnection
    <3>2. CASE ~addConnection(x)
      <4>1. conn' = [conn EXCEPT ![x] = NoConn]
        BY <1>2, <2>1, <3>2
      <4> QED BY <1>4, <4>1
    <3> QED BY <3>1, <3>2
  <2>2. CASE /\ conn[x].st = "added"
             /\ conn' \in {[conn EXCEPT ![x] = NoConn]} \cup
                  {[conn EXCEPT ![x].st = "authenticated"] : y \in {z \in {x} : relay[conn[z].relay].st = "open"}}
    BY <1>4, <1>6, <2>2
  <2>3. CASE conn[x].st = "authenticated" /\ conn' \in {[conn EXCEPT ![x] = NoConn], [conn EXCEPT ![x].st = "relaying"]}
    <3>1. relay[conn[x].relay].st = "open"
      BY <1>2, <2>3 DEF ConnPlace
    <3> QED BY <1>4, <1>6, <2>3, <3>1
  <2>4. CASE conn[x].st = "relaying" /\ conn' = [conn EXCEPT ![x] = NoConn]
    BY <1>4, <2>4
  <2> QED
    BY <1>7, <2>1, <2>2, <2>3, <2>4 DEF handleConnection
<1> QED
  BY <1>5, <1>7

\* stopAll goes on, or is done.
LEMMA RevokesKeep ==
  ASSUME PgInv, NEW c \in PgCallers, RevokeAllRelays(c)
  PROVE  PgInv'
<1>1. PgAt(c, "revoke") /\ relayMu = NoRelay /\ UNCHANGED <<cell, relayMu, raced>>
  BY DEF RevokeAllRelays
<1>2. pgcall \in [PgCallers -> PgRows] /\ pgcall[c] \in PgRows /\ Revoked(c) \subseteq SessionIds
      /\ Idle \in PgRows /\ Idle.pc = "none"
  BY <1>1 DEF PgInv, PgTypeOK, RelayCalls, Idle, PgRows
<1>3. ASSUME NEW s \in SessionIds, s \in Revoked(c),
             pgcall' = [pgcall EXCEPT ![c].todo = @ \ {s}],
             removePersistedSession(s), removed' = removed,
             sessions' = [sessions EXCEPT ![s] = NoRelay],
             IF sessions[s] = NoRelay THEN UNCHANGED <<relay, conn>> ELSE Closes(sessions[s], "revoked")
      PROVE  PgInv'
  <2> DEFINE call == [pgcall[c] EXCEPT !.todo = @ \ {s}]
  <2>1. /\ call \in PgRows /\ call.pc = "revoke" /\ call.todo = pgcall[c].todo \ {s}
        /\ pgcall' = [pgcall EXCEPT ![c] = call]
    BY <1>1, <1>2, <1>3 DEF PgRows, PgAt
  <2> HIDE DEF call
  <2>2. /\ pgcall' \in [PgCallers -> PgRows] /\ pgcall'[c] = call
        /\ \A d \in PgCallers \ {c} : pgcall'[d] = pgcall[d]
    BY <1>2, <2>1
  <2>3. /\ sessions'[s] = NoRelay /\ \A t \in SessionIds \ {s} : sessions'[t] = sessions[t]
        /\ sessions' \in [SessionIds -> RelayObjects \cup {NoRelay}]
        /\ left' \subseteq SessionIds /\ left \subseteq left'
    BY <1>3, RemovesSessionFile DEF PgInv, PgTypeOK
  <2>4. RelayCalls'
    BY <1>2, <2>1, <2>2 DEF PgInv, RelayCalls, PgAt, Revoked
  <2>5. ServicePlace'
    <3> SUFFICES ASSUME ~raced' PROVE ServicePlace'
      BY DEF ServicePlace
    <3>1. \A d \in PgCallers : pgcall'[d].pc = pgcall[d].pc
      BY <1>1, <2>1, <2>2 DEF PgAt
    <3>2. \A d \in PgCallers, t \in SessionIds :
            sessions'[t] # NoRelay /\ t \in Revoked(d) => t \in Revoked(d)'
      BY <2>1, <2>2, <2>3 DEF Revoked
    <3> QED
      BY <1>1, <1>3, <2>3, <3>1, <3>2 DEF PgInv, ServicePlace, PgAt, cell
  <2>6. CASE sessions[s] = NoRelay
    <3>1. UNCHANGED <<relay, conn, sessions>>
      BY <1>3, <2>3, <2>6 DEF PgInv, PgTypeOK
    <3>2. /\ stateFile' \in [SessionIds -> Tokens \cup {NoRelay}] /\ (stateFile'[s] # NoRelay => s \in left')
          /\ \A t \in SessionIds \ {s} : stateFile'[t] = stateFile[t]
      BY <1>3, RemovesSessionFile
    <3>3. PgTypeOK'
      BY <1>1, <1>3, <2>2, <2>3, <3>1, <3>2 DEF PgInv, PgTypeOK, cell
    <3>4. RelaysPlaced'
      BY <1>1, <3>1 DEF PgInv, RelaysPlaced, RelayPlace, SessionPlace, HandoffPlace, ConnPlace
    <3>5. FilesNameSessions'
      BY <1>1, <2>3, <3>1, <3>2 DEF PgInv, FilesNameSessions, Stopping
    <3> QED
      BY <2>4, <2>5, <3>3, <3>4, <3>5 DEF PgInv
  <2>7. CASE sessions[s] # NoRelay
    <3> SUFFICES ASSUME NEW r, r = sessions[s]
                 PROVE  PgInv'
      OBVIOUS
    <3>1. r \in RelayObjects /\ relay[r].id = s /\ relay[r].st = "open" /\ relay[r] \in RelayRows
          /\ relay \in [RelayObjects -> RelayRows]
      BY <2>7 DEF PgInv, PgTypeOK, RelaysPlaced, SessionPlace
    <3> DEFINE row == [relay[r] EXCEPT !.st = "closed", !.by = "revoked"]
    <3>2. row \in RelayRows /\ row.st = "closed" /\ row.id = s /\ row.token = relay[r].token /\ row.by # "timer"
      BY <3>1 DEF RelayRows
    <3>3. /\ relay' = [relay EXCEPT ![r] = row]
          /\ conn' = [x \in Conns |-> IF conn[x].relay = r /\ conn[x].st # "accepted" THEN NoConn ELSE conn[x]]
      BY <1>3, <2>7, <3>1 DEF Closes
    <3> HIDE DEF row
    <3> QED
      BY <1>1, <1>3, <2>2, <2>4, <2>5, <3>1, <3>2, <3>3, EndKeeps
  <2> QED BY <2>6, <2>7
<1>4. CASE Revoked(c) = {} /\ PgEnds(c) /\ removed' = TRUE /\ UNCHANGED <<sessions, relay, conn, stateFile, left>>
  <2>1. /\ pgcall' \in [PgCallers -> PgRows] /\ pgcall'[c] = Idle
        /\ \A d \in PgCallers \ {c} : pgcall'[d] = pgcall[d]
    BY <1>2, <1>4 DEF PgEnds
  <2>2. PgTypeOK' /\ UNCHANGED <<relays, left>>
    BY <1>1, <1>4, <2>1 DEF PgInv, PgTypeOK, cell, relays
  <2>3. RelayCalls'
    BY <1>2, <2>1 DEF PgInv, RelayCalls, PgAt, Revoked
  <2>4. ServicePlace'
    BY <1>1, <1>2, <1>4, <2>1 DEF PgInv, ServicePlace, PgAt, Revoked, cell
  <2> QED
    BY <2>2, <2>3, <2>4, ServiceKeeps
<1> QED
  BY <1>2, <1>3, <1>4 DEF RevokeAllRelays

\* After a restart the table has what files could be opened; nothing else is open.
LEMMA RestoreKeeps ==
  ASSUME PgInv, NEW f \in [SessionIds -> RelayObjects], NEW bound \in SUBSET SessionIds, restore(f, bound)
  PROVE  PgInv'
<1> DEFINE Row(s) == [NewRelay(s, stateFile[s], TRUE) EXCEPT !.timer = "saved"]
           Over(r) == [relay[r] EXCEPT !.st = "closed", !.by = "restart", !.timer = "fired"]
<1>1. /\ \A s, t \in SessionIds : f[s] = f[t] => s = t
      /\ sessions' = [s \in SessionIds |-> IF s \in bound THEN f[s] ELSE NoRelay]
      /\ \A s \in bound : stateFile[s] # NoRelay
      /\ conn' = [x \in Conns |-> NoConn] /\ relayMu' = NoRelay
      /\ pgcall' = [c \in PgCallers |-> Idle] /\ UNCHANGED <<cell, stateFile, removed, raced>>
  BY DEF restore
<1>2. /\ left' \subseteq SessionIds /\ left \subseteq left'
      /\ \A s \in SessionIds : stateFile[s] # NoRelay /\ (s \in Stopping \/ s \notin bound) => s \in left'
  BY DEF restore, PgInv, PgTypeOK
<1>3. Idle \in PgRows /\ Idle.pc = "none" /\ Unused \in RelayRows /\ Unused.st = "none" /\ Unused.by = "none"
  BY DEF Idle, PgRows, Unused, RelayRows
<1>4. ASSUME NEW s \in SessionIds, stateFile[s] # NoRelay
      PROVE  /\ Row(s) \in RelayRows /\ Row(s).id = s /\ Row(s).st = "open" /\ Row(s).by = "none"
             /\ Row(s).token = stateFile[s] /\ stateFile[s] \in Tokens
  <2>1. stateFile[s] \in Tokens
    BY <1>4 DEF PgInv, PgTypeOK
  <2> QED
    BY <2>1 DEF NewRelay, RelayRows
<1>5. ASSUME NEW r \in RelayObjects, relay[r] # Unused
      PROVE  /\ Over(r) \in RelayRows /\ Over(r).id = relay[r].id /\ Over(r).st = "closed"
             /\ Over(r).by = "restart" /\ Over(r).token = relay[r].token
  <2>1. relay[r] \in RelayRows
    BY DEF PgInv, PgTypeOK
  <2> QED
    BY <2>1 DEF RelayRows
<1>6. ASSUME NEW r \in RelayObjects
      PROVE  \/ \E s \in bound : f[s] = r /\ relay'[r] = Row(s)
             \/ /\ \A s \in bound : f[s] # r
                /\ \/ relay'[r] = Unused
                   \/ relay[r] # Unused /\ relay'[r] = Over(r)
  <2>1. relay' = [o \in RelayObjects |->
          IF \E s \in bound : f[s] = o
          THEN LET s == CHOOSE t \in SessionIds : f[t] = o IN
               [NewRelay(s, stateFile[s], TRUE) EXCEPT !.timer = "saved"]
          ELSE IF relay[o] = Unused THEN Unused
               ELSE [relay[o] EXCEPT !.st = "closed", !.by = "restart", !.timer = "fired"]]
    BY DEF restore
  <2>2. CASE \E s \in bound : f[s] = r
    <3>1. PICK s \in bound : f[s] = r
      BY <2>2
    <3>2. (CHOOSE t \in SessionIds : f[t] = r) = s
      BY <1>1, <3>1
    <3>3. relay'[r] = Row(s)
      BY <2>1, <2>2, <3>2
    <3> QED BY <3>1, <3>3
  <2>3. CASE ~ \E s \in bound : f[s] = r
    BY <2>1, <2>3
  <2> QED BY <2>2, <2>3
<1>7. relay' \in [RelayObjects -> RelayRows]
  <2>1. relay' = [r \in RelayObjects |-> relay'[r]]
    BY DEF restore
  <2> HIDE DEF Row, Over
  <2>2. \A r \in RelayObjects : relay'[r] \in RelayRows
    BY <1>1, <1>3, <1>4, <1>5, <1>6
  <2> QED BY <2>1, <2>2
<1> HIDE DEF Row, Over
<1>8. PgTypeOK'
  <2>1. sessions' \in [SessionIds -> RelayObjects \cup {NoRelay}]
    BY <1>1
  <2>2. pgcall' \in [PgCallers -> PgRows]
    BY <1>1, <1>3
  <2>3. conn' \in [Conns -> [relay : RelayObjects \cup {NoRelay},
                             st : {"none", "accepted", "added", "authenticated", "relaying"}]]
    BY <1>1 DEF NoConn
  <2> QED
    BY <1>1, <1>2, <1>7, <2>1, <2>2, <2>3 DEF PgInv, PgTypeOK, cell
<1>9. RelaysPlaced'
  <2>1. ASSUME NEW r \in RelayObjects PROVE RelayPlace(r)'
    <3>1. CASE \E s \in bound : f[s] = r /\ relay'[r] = Row(s)
      <4>1. PICK s \in bound : f[s] = r /\ stateFile[s] # NoRelay /\ relay'[r] = Row(s)
        BY <1>1, <3>1
      <4>2. sessions'[s] = r
        BY <1>1, <4>1
      <4> QED
        BY <1>4, <4>1, <4>2 DEF RelayPlace
    <3>2. CASE relay'[r] = Unused
      BY <1>3, <3>2 DEF RelayPlace
    <3>3. CASE relay[r] # Unused /\ relay'[r] = Over(r)
      BY <1>5, <3>3 DEF PgInv, RelaysPlaced, RelayPlace
    <3> QED BY <1>6, <3>1, <3>2, <3>3
  <2>2. ASSUME NEW s \in SessionIds PROVE SessionPlace(s)'
    <3>1. CASE s \in bound
      <4>1. sessions'[s] = f[s] /\ f[s] \in RelayObjects
        BY <1>1, <3>1
      <4>2. relay'[f[s]] = Row(s)
        BY <1>1, <1>6, <3>1, <4>1
      <4> QED
        BY <1>1, <1>4, <3>1, <4>1, <4>2 DEF SessionPlace
    <3>2. CASE s \notin bound
      BY <1>1, <3>2 DEF SessionPlace
    <3> QED BY <3>1, <3>2
  <2>3. \A x \in Conns : ConnPlace(x)'
    BY <1>1 DEF ConnPlace, NoConn
  <2>4. HandoffPlace'
    BY <1>1 DEF HandoffPlace
  <2> QED BY <2>1, <2>2, <2>3, <2>4 DEF RelaysPlaced
<1>10. FilesNameSessions'
  BY <1>1, <1>2, RelayAssumption DEF FilesNameSessions
<1>11. RelayCalls'
  BY <1>1, <1>3 DEF RelayCalls, PgAt
<1>12. ServicePlace'
  <2> SUFFICES ASSUME ~raced' PROVE ServicePlace'
    BY DEF ServicePlace
  <2>1. \A c \in PgCallers : pgcall'[c].pc = "none"
    BY <1>1, <1>3
  <2>2. ASSUME removed', cluster' = "absent", NEW s \in SessionIds, sessions'[s] # NoRelay PROVE s \in left'
    <3>1. removed /\ cluster = "absent" /\ ~raced
      BY <1>1, <2>2 DEF cell
    <3>2. sessions[s] # NoRelay => s \in left
      BY <3>1 DEF PgInv, ServicePlace
    <3>3. stateFile[s] # NoRelay
      BY <1>1, <2>2
    <3> QED BY <1>2, <3>2, <3>3 DEF PgInv, FilesNameSessions
  <2> QED
    BY <2>1, <2>2 DEF ServicePlace, PgAt
<1> QED
  BY <1>8, <1>9, <1>10, <1>11, <1>12 DEF PgInv

\* PgInv is inductive.
LEMMA PgInduction ==
  ASSUME PgInv, [PgNext]_<<pgVars, budget>>
  PROVE  PgInv'
<1>1. CASE UNCHANGED <<pgVars, budget>>
  <2>1. UNCHANGED <<relays, removed, raced, left, cell, pgcall>>
    BY <1>1 DEF pgVars, relays, cell
  <2>2. PgTypeOK' /\ ServicePlace' /\ RelayCalls'
    BY <2>1 DEF PgInv, PgTypeOK, ServicePlace, RelayCalls, PgAt, Revoked, cell, relays
  <2> QED
    BY <2>1, <2>2, ServiceKeeps
<1>2. ASSUME NEW c \in PgCallers,
             \/ \E id \in SessionIds \cup {NoRelay} : ReconcilePostgreSQLService(c, id)
             \/ \E id \in SessionIds : GetPostgreSQLServiceStatus(c, id)
             \/ waitForPostgreSQLServiceK3sReady(c) \/ ensureOperator(c) \/ waitForPostgreSQLServiceCRD(c) \/ applyCluster(c)
             \/ applyOperatorProfile(c)
             \/ waitForPostgreSQLService(c) \/ replacePostgreSQLServiceConsumerSecret(c)
             \/ applyConsumerSecret(c) \/ \E d \in Databases : ensurePostgreSQLServiceDatabase(c, d)
      PROVE  PgInv'
  BY <1>2, ServiceCallsKeep
<1>3. ASSUME NEW c \in PgCallers, NEW r \in RelayObjects, NEW k \in Tokens, NEW p \in BOOLEAN,
             ensurePostgreSQLServiceRelay(c, r, k, p)
      PROVE  PgInv'
  BY <1>3, StartsKeep
<1>4. ASSUME NEW c \in PgCallers, RemovePostgreSQLService(c) \/ DeletesCluster(c) \/ \E retain \in BOOLEAN : RemovesSecrets(c, retain)
      PROVE  PgInv'
  BY <1>4, RemovalBegins
<1>5. ASSUME NEW c \in PgCallers, RevokeAllRelays(c)
      PROVE  PgInv'
  BY <1>5, RevokesKeep
<1>6. ASSUME NEW r \in RelayObjects, NEW id \in SessionIds, NEW k \in Tokens,
             startReplaces(r, id, k) \/ \E p \in BOOLEAN : startRelay(r, id, k, p)
      PROVE  PgInv'
  BY <1>6, ReplaceKeeps, StartsKeep
<1>7. ASSUME NEW r \in RelayObjects, HandsOver(r) \/ persistSession(r) \/ stopIfCurrent(r) \/ StopFinishes(r)
      PROVE  PgInv'
  BY <1>7, HandsOverKeeps, PersistKeeps, StopIfCurrentKeeps, StopFinishesKeeps
<1>8. ASSUME NEW id \in SessionIds, NEW k \in Tokens, stopOwned(id, k)
      PROVE  PgInv'
  BY <1>8, StopOwnedKeeps
<1>9. ASSUME NEW x \in Conns, handleConnection(x) \/ \E r \in RelayObjects : acceptLoop(x, r)
      PROVE  PgInv'
  BY <1>9, ConnectionsKeep
<1>10. ASSUME NEW f \in [SessionIds -> RelayObjects], NEW bound \in SUBSET SessionIds, restore(f, bound)
       PROVE  PgInv'
  BY <1>10, RestoreKeeps
<1>11. CASE OperatorComesUp \/ OperatorGoesDown \/ ClusterBecomesHealthy
  BY <1>11, ClusterKeeps
<1> QED
  BY <1>1, <1>2, <1>3, <1>4, <1>5, <1>6, <1>7, <1>8, <1>9, <1>10, <1>11 DEF PgNext

\* PgInv holds of every state of the service.
THEOREM PgInvariant == PgSpec => []PgInv
<1>1. PgInit => PgInv
  BY PgInitial
<1>2. PgInv /\ [PgNext]_<<pgVars, budget>> => PgInv'
  BY PgInduction
<1> QED
  BY <1>1, <1>2, PTL DEF PgSpec

\* A relay session ends when it should (stopIfCurrent, stopOwned, stopAll,
\* restore): a closed one carries no connection, a timer ends no other session
\* than its own, and a removal that nothing ran into leaves none that a file did
\* not outlive.
THEOREM SessionsAreEnded == PgSpec => []SessionsEnd
<1>1. ASSUME PgInv PROVE SessionsEnd
  <2>1. NoRelayAfterClose
    BY <1>1 DEF PgInv, RelaysPlaced, ConnPlace, NoRelayAfterClose
  <2>2. TimerEndsItsOwn
    BY <1>1 DEF PgInv, RelaysPlaced, RelayPlace, TimerEndsItsOwn
  <2>3. RemovedServiceHasNoRelay
    BY <1>1 DEF PgInv, ServicePlace, PgAt, RemovedServiceHasNoRelay
  <2> QED
    BY <2>1, <2>2, <2>3 DEF SessionsEnd
<1> QED
  BY <1>1, PgInvariant, PTL

----------------------------------------------------------------------------
\* Inference relay.
LlmFiles == [bind : LlmBinds, policy : LlmPolicies]
LlmRelayRows ==
  [st : {"none", "close", "listen", "register", "open", "closed"}, id : LlmIds \cup {NoLlm},
   bind : LlmBinds \cup {NoLlm}, policy : LlmPolicies \cup {NoLlm}, old : LlmObjects \cup {NoLlm}, saving : BOOLEAN]

LlmRelayTyped ==
  /\ llmTable \in [LlmIds -> LlmObjects \cup {NoLlm}]
  /\ llmRelay \in [LlmObjects -> LlmRelayRows]
  /\ llmSaved \in [LlmIds -> LlmFiles \cup {NoLlm}]
  /\ llmStops \subseteq LlmIds \X (LlmObjects \cup {NoLlm})
  /\ llmRestoring \subseteq LlmIds

\* A relay that was in the table under this id, even if it was closed since.
Registered(r, id) == r \in LlmObjects /\ llmRelay[r].id = id /\ llmRelay[r].st \in {"open", "closed"}

RowPlace(r) ==
  /\ llmRelay[r].st = "none" => llmRelay[r] = NoRelayObject
  /\ llmRelay[r].st # "none" =>
        llmRelay[r].id \in LlmIds /\ llmRelay[r].bind \in LlmBinds /\ llmRelay[r].policy \in LlmPolicies
  /\ llmRelay[r].saving => llmRelay[r].st \in {"open", "closed"}
  /\ llmRelay[r].st = "close" /\ llmRelay[r].old # NoLlm => OldId(r) \in LlmIds /\ Registered(llmRelay[r].old, OldId(r))
TablePlace(id) == llmTable[id] # NoLlm => Registered(llmTable[id], id)
StopPlace(s) == s[2] # NoLlm => Registered(s[2], s[1])

\* A start works on its id and, until it has closed it, on the one it replaces.
Starts(r, id) == \/ InStart(r) /\ llmRelay[r].id = id
                 \/ llmRelay[r].st = "close" /\ OldId(r) = id

\* Unless calls crossed on an id, one call at most is on it ...
OneCall(id) ==
  /\ \A r, o \in LlmObjects : Starts(r, id) /\ Starts(o, id) => r = o
  /\ \A s, t \in llmStops : s[1] = id /\ t[1] = id => s = t
  /\ \A r \in LlmObjects, s \in llmStops : ~(Starts(r, id) /\ s[1] = id)

ListensOnly(id, R) == \A r \in LlmObjects : Listening(r) /\ llmRelay[r].id = id <=> r \in R
FileOf(r) == [bind |-> llmRelay[r].bind, policy |-> llmRelay[r].policy]
Replaces(r, id) == llmRelay[r].st = "close" /\ OldId(r) = id

\* ... and that call knows what is there.
StartFinds(r, id) ==
  /\ Replaces(r, id) => llmTable[id] = NoLlm /\ ListensOnly(id, {llmRelay[r].old})
  /\ llmRelay[r].id = id /\ ~Replaces(r, id) => llmSaved[id] \in {NoLlm, FileOf(r)}
  /\ llmRelay[r].id = id /\ ~Replaces(r, id) /\ llmRelay[r].st \in {"close", "listen"} =>
       llmTable[id] = NoLlm /\ ListensOnly(id, {})
  /\ llmRelay[r].id = id /\ llmRelay[r].st = "register" => llmTable[id] = NoLlm /\ ListensOnly(id, {r})
  /\ llmRelay[r].id = id /\ llmRelay[r].saving =>
       llmRelay[r].st = "open" /\ llmTable[id] = r /\ ListensOnly(id, {r})
CallPlace(id) ==
  /\ \A r \in LlmObjects : Starts(r, id) => StartFinds(r, id)
  /\ \A s \in llmStops : s[1] = id => llmTable[id] = NoLlm /\ ListensOnly(id, {s[2]} \ {NoLlm})

\* Between calls table, listener and file agree.
RestAgrees(id) ==
  IF llmTable[id] = NoLlm THEN ListensOnly(id, {}) /\ llmSaved[id] = NoLlm
  ELSE ListensOnly(id, {llmTable[id]}) /\ llmSaved[id] = FileOf(llmTable[id])

Untouched(id) == (\A r \in LlmObjects : ~Starts(r, id)) /\ \A s \in llmStops : s[1] # id

IdPlace(id) ==
  /\ OneCall(id) /\ CallPlace(id)
  /\ Untouched(id) /\ id \notin llmRestoring => RestAgrees(id)

\* What restore has still to open is closed.
RestoreAt(id) ==
  llmSaved[id] # NoLlm /\ llmTable[id] = NoLlm /\ Untouched(id) /\ ListensOnly(id, {})
RestorePlace ==
  /\ llmRestoring # {} => llmStops = {}
  /\ \A id \in llmRestoring : RestoreAt(id)

RowsPlaced ==
  /\ \A r \in LlmObjects : RowPlace(r)
  /\ \A id \in LlmIds : TablePlace(id)
  /\ \A s \in llmStops : StopPlace(s)

LlmRelayInv ==
  /\ LlmRelayTyped /\ RestorePlace /\ RowsPlaced
  /\ \A id \in LlmIds : id \notin llmCrossed => IdPlace(id)

\* The ids that calls touch.
LEMMA TouchedIds ==
  ASSUME LlmRelayInv, NEW id \in LlmIds
  PROVE  id \notin Touched <=> Untouched(id)
<1>1. \A r \in LlmObjects : OldId(r) = id /\ llmRelay[r].st = "close" => Starts(r, id)
  BY DEF Starts
<1>2. \A r \in LlmObjects : llmRelay[r].id = id /\ InStart(r) => Starts(r, id)
  BY DEF Starts
<1> QED
  BY <1>1, <1>2 DEF Touched, Untouched, Starts

\* At first nothing listens.
LEMMA LlmRelayInitial == LlmRelayInit => LlmRelayInv
<1> SUFFICES ASSUME LlmRelayInit PROVE LlmRelayInv
  OBVIOUS
<1>1. /\ \A r \in LlmObjects : llmRelay[r] = NoRelayObject
      /\ \A id \in LlmIds : llmTable[id] = NoLlm /\ llmSaved[id] = NoLlm
      /\ llmStops = {} /\ llmRestoring = {}
  BY DEF LlmRelayInit
<1>2. NoRelayObject \in LlmRelayRows /\ NoRelayObject.st = "none" /\ ~NoRelayObject.saving
  BY DEF NoRelayObject, LlmRelayRows
<1>3. LlmRelayTyped
  BY <1>2 DEF LlmRelayInit, LlmRelayTyped
<1>4. \A r \in LlmObjects : RowPlace(r) /\ ~Listening(r) /\ \A id \in LlmIds : ~Starts(r, id)
  BY <1>1, <1>2 DEF RowPlace, Listening, Starts, InStart
<1>5. \A id \in LlmIds : IdPlace(id)
  BY <1>1, <1>4 DEF IdPlace, OneCall, CallPlace, RestAgrees, ListensOnly
<1>6. RowsPlaced /\ RestorePlace
  BY <1>1, <1>4 DEF RowsPlaced, RestorePlace, TablePlace
<1> QED
  BY <1>3, <1>5, <1>6 DEF LlmRelayInv

\* Relays that were registered stay so: what a step must say of the rows.
RowsFollow ==
  /\ \A o \in LlmObjects : llmRelay[o].st \in {"open", "closed"} => llmRelay'[o].st \in {"open", "closed"}
  /\ \A o \in LlmObjects : llmRelay[o].st # "none" => llmRelay'[o].id = llmRelay[o].id

\* A row that a step leaves, in so far as an id is concerned.
Elsewhere(o, id) ==
  /\ llmRelay[o].id # id /\ ~Starts(o, id)
  /\ (llmRelay[o].id # id /\ ~Starts(o, id))'

\* A step that does not come near an id.
Passes(id) ==
  /\ llmTable'[id] = llmTable[id] /\ llmSaved'[id] = llmSaved[id]
  /\ \A s \in llmStops' \cup llmStops : s[1] = id => s \in llmStops /\ s \in llmStops'
  /\ \A o \in LlmObjects : llmRelay'[o] = llmRelay[o] \/ Elsewhere(o, id)

\* What a step that passes an id leaves as it was.
LEMMA PassesKeep ==
  ASSUME LlmRelayInv, NEW id \in LlmIds, RowsFollow, Passes(id), LlmRelayTyped'
  PROVE  /\ \A r \in LlmObjects : Starts(r, id)' <=> Starts(r, id)
         /\ Untouched(id)' <=> Untouched(id)
         /\ RestoreAt(id) => RestoreAt(id)'
         /\ id \notin llmCrossed /\ (id \in llmRestoring => id \in llmRestoring') => IdPlace(id)'
<1>1. ASSUME NEW r \in LlmObjects, llmRelay'[r] = llmRelay[r], llmRelay[r].st = "close"
      PROVE  OldId(r)' = OldId(r)
  <2>1. RowPlace(r)
    BY DEF LlmRelayInv, RowsPlaced
  <2> QED
    BY <1>1, <2>1 DEF RowPlace, Registered, RowsFollow, OldId
<1>2. ASSUME NEW r \in LlmObjects
      PROVE  /\ Starts(r, id)' <=> Starts(r, id)
             /\ (Listening(r) /\ llmRelay[r].id = id)' <=> (Listening(r) /\ llmRelay[r].id = id)
             /\ Starts(r, id) => llmRelay'[r] = llmRelay[r] /\ (Replaces(r, id)' <=> Replaces(r, id))
  BY <1>1 DEF Passes, Elsewhere, Starts, Listening, InStart, Replaces
<1>3. Untouched(id)' <=> Untouched(id)
  BY <1>2 DEF Untouched, Passes
<1>4. \A r \in LlmObjects : Starts(r, id) /\ StartFinds(r, id) => StartFinds(r, id)'
  <2> SUFFICES ASSUME NEW r \in LlmObjects, Starts(r, id), StartFinds(r, id)
               PROVE  StartFinds(r, id)'
    OBVIOUS
  <2>1. llmRelay'[r] = llmRelay[r] /\ (Replaces(r, id)' <=> Replaces(r, id))
    BY <1>2
  <2>2. llmTable'[id] = llmTable[id] /\ llmSaved'[id] = llmSaved[id]
    BY DEF Passes
  <2>3. \A o \in LlmObjects : (Listening(o) /\ llmRelay[o].id = id)' <=> (Listening(o) /\ llmRelay[o].id = id)
    BY <1>2
  <2> QED
    BY <2>1, <2>2, <2>3 DEF StartFinds, ListensOnly, FileOf
<1>5. RestoreAt(id) => RestoreAt(id)'
  BY <1>2, <1>3 DEF RestoreAt, ListensOnly, Passes
<1>6. OneCall(id) => OneCall(id)'
  BY <1>2 DEF OneCall, Passes
<1>7. OneCall(id) /\ CallPlace(id) => CallPlace(id)'
  <2>1. llmTable'[id] = llmTable[id] /\ \A s \in llmStops' : s[1] = id => s \in llmStops
    BY DEF Passes
  <2>2. \A o \in LlmObjects : (Listening(o) /\ llmRelay[o].id = id)' <=> (Listening(o) /\ llmRelay[o].id = id)
    BY <1>2
  <2> QED
    BY <1>2, <1>4, <2>1, <2>2 DEF CallPlace, ListensOnly
<1>8. RestAgrees(id) => RestAgrees(id)'
  <2>1. TablePlace(id)
    BY DEF LlmRelayInv, RowsPlaced
  <2>2. llmTable[id] # NoLlm => llmRelay'[llmTable[id]] = llmRelay[llmTable[id]]
    BY <2>1 DEF TablePlace, Registered, Passes, Elsewhere
  <2>3. llmTable'[id] = llmTable[id] /\ llmSaved'[id] = llmSaved[id]
    BY DEF Passes
  <2> QED
    BY <1>2, <2>2, <2>3 DEF RestAgrees, ListensOnly, FileOf
<1> QED
  BY <1>2, <1>3, <1>5, <1>6, <1>7, <1>8 DEF LlmRelayInv, IdPlace

\* The shape of the rows after a step.
LEMMA RowsKeep ==
  ASSUME LlmRelayInv, RowsFollow, LlmRelayTyped',
         \A o \in LlmObjects : llmRelay'[o] = llmRelay[o] \/ RowPlace(o)',
         \A id \in LlmIds : llmTable'[id] \in {llmTable[id], NoLlm} \/ TablePlace(id)',
         \A s \in llmStops' : s \in llmStops \/ StopPlace(s)'
  PROVE  RowsPlaced'
<1>1. ASSUME NEW o, NEW id \in LlmIds, Registered(o, id) PROVE Registered(o, id)'
  BY <1>1 DEF Registered, RowsFollow
<1>2. \A o \in LlmObjects : RowPlace(o)'
  <2> SUFFICES ASSUME NEW o \in LlmObjects, llmRelay'[o] = llmRelay[o] PROVE RowPlace(o)'
    OBVIOUS
  <2>1. RowPlace(o)
    BY DEF LlmRelayInv, RowsPlaced
  <2>2. llmRelay[o].st = "close" /\ llmRelay[o].old # NoLlm => OldId(o)' = OldId(o)
    BY <2>1 DEF RowPlace, Registered, RowsFollow, OldId
  <2> QED
    BY <1>1, <2>1, <2>2 DEF RowPlace
<1>3. \A id \in LlmIds : TablePlace(id)'
  BY <1>1 DEF LlmRelayInv, RowsPlaced, TablePlace
<1>4. \A s \in llmStops' : StopPlace(s)'
  <2>1. \A s \in llmStops : s[1] \in LlmIds
    BY DEF LlmRelayInv, LlmRelayTyped
  <2> QED
    BY <1>1, <2>1 DEF LlmRelayInv, RowsPlaced, StopPlace
<1> QED
  BY <1>2, <1>3, <1>4 DEF RowsPlaced

\* A step near a set of ids: the others pass.
LEMMA NearKeeps ==
  ASSUME LlmRelayInv, RowsFollow, LlmRelayTyped', RowsPlaced', NEW Ids \in SUBSET LlmIds,
         llmCrossed \subseteq llmCrossed',
         llmRestoring' \subseteq llmRestoring, llmRestoring \ llmRestoring' \subseteq Ids,
         llmRestoring' # {} => llmStops' = {},
         \A id \in LlmIds \ Ids : Passes(id),
         \A id \in Ids : id \in llmRestoring' => RestoreAt(id)',
         \A id \in Ids : id \notin llmCrossed' => IdPlace(id)'
  PROVE  LlmRelayInv'
<1>1. \A id \in LlmIds : id \in llmRestoring' => RestoreAt(id)'
  <2> SUFFICES ASSUME NEW id \in LlmIds \ Ids, id \in llmRestoring' PROVE RestoreAt(id)'
    OBVIOUS
  <2>1. RestoreAt(id)
    BY DEF LlmRelayInv, RestorePlace
  <2> QED BY <2>1, PassesKeep
<1>2. \A id \in LlmIds : id \notin llmCrossed' => IdPlace(id)'
  <2> SUFFICES ASSUME NEW id \in LlmIds \ Ids, id \notin llmCrossed' PROVE IdPlace(id)'
    OBVIOUS
  <2> QED BY PassesKeep
<1>3. RestorePlace'
  BY <1>1 DEF RestorePlace, LlmRelayTyped
<1> QED
  BY <1>2, <1>3 DEF LlmRelayInv

\* What a start replaces is in the table under one id.
LEMMA ReplacedIsTracked ==
  ASSUME LlmRelayInv, NEW id \in LlmIds, NEW bind, NEW old \in Replaced(id, bind), old # NoLlm
  PROVE  /\ old \in LlmObjects /\ llmRelay[old].id \in LlmIds /\ llmRelay[old].st \in {"open", "closed"}
         /\ llmTable[llmRelay[old].id] = old
         /\ \A i \in LlmIds : llmTable[i] = old => i = llmRelay[old].id
         /\ llmTable[id] # NoLlm => llmRelay[old].id = id
<1>1. \A i \in LlmIds : llmTable[i] # NoLlm => Registered(llmTable[i], i)
  BY DEF LlmRelayInv, RowsPlaced, TablePlace
<1>2. \E i \in LlmIds : llmTable[i] = old /\ (llmTable[id] # NoLlm => i = id)
  BY DEF Replaced
<1> QED
  BY <1>1, <1>2 DEF Registered

\* A start that has looked at the table.
LEMMA LlmStartKeeps ==
  ASSUME LlmRelayInv, NEW r \in LlmObjects, NEW id \in LlmIds, NEW bind \in LlmBinds, NEW policy \in LlmPolicies,
         start(r, id, bind, policy), UNCHANGED <<llmSaved, llmStops>>,
         \/ llmRestoring = {} /\ llmRestoring' = {}
         \/ /\ id \in llmRestoring /\ llmRestoring' = llmRestoring \ {id}
            /\ llmSaved[id] = [bind |-> bind, policy |-> policy]
  PROVE  LlmRelayInv'
<1>1. PICK old \in Replaced(id, bind) :
        /\ llmTable' = [i \in LlmIds |-> IF old # NoLlm /\ llmTable[i] = old THEN NoLlm ELSE llmTable[i]]
        /\ llmRelay' = [llmRelay EXCEPT ![r] = [st |-> "close", id |-> id, bind |-> bind,
                                                policy |-> policy, old |-> old, saving |-> FALSE]]
        /\ Crosses({id} \cup (IF old = NoLlm THEN {} ELSE {llmRelay[old].id}))
  BY DEF start
<1> DEFINE row == [st |-> "close", id |-> id, bind |-> bind, policy |-> policy, old |-> old, saving |-> FALSE]
<1>2. llmRelay[r].st = "none" /\ llmRelay[r].id = NoLlm /\ ~llmRelay[r].saving
  BY DEF start, NoRelayObject
<1>3. old = NoLlm \/ old \in LlmObjects
  BY ReplacedIsTracked
<1>4. row \in LlmRelayRows /\ row.st = "close" /\ row.id = id /\ row.bind = bind /\ row.policy = policy
      /\ row.old = old /\ ~row.saving
  BY <1>3 DEF LlmRelayRows
<1>5. llmRelay' = [llmRelay EXCEPT ![r] = row]
  BY <1>1
<1> HIDE DEF row
<1> SUFFICES ASSUME NEW oid, old # NoLlm => oid = llmRelay[old].id, old = NoLlm => oid = id
             PROVE  LlmRelayInv'
  <2>1. CASE old = NoLlm BY <2>1
  <2>2. CASE old # NoLlm BY <2>2
  <2> QED BY <2>1, <2>2
<1> DEFINE Ids == {id, oid}
<1>6. /\ oid \in LlmIds
      /\ old # NoLlm => /\ old \in LlmObjects /\ llmRelay[old].st \in {"open", "closed"} /\ llmTable[oid] = old
                        /\ \A i \in LlmIds : llmTable[i] = old => i = oid
                        /\ llmTable[id] # NoLlm => oid = id
      /\ old = NoLlm => llmTable[id] = NoLlm
  <2>1. llmTable[id] # NoLlm => old = llmTable[id]
    BY DEF Replaced
  <2> QED BY <2>1, ReplacedIsTracked
<1>7. /\ llmRelay' \in [LlmObjects -> LlmRelayRows] /\ llmRelay'[r] = row
      /\ \A o \in LlmObjects \ {r} : llmRelay'[o] = llmRelay[o]
  BY <1>4, <1>5 DEF LlmRelayInv, LlmRelayTyped
<1>8. /\ llmTable' \in [LlmIds -> LlmObjects \cup {NoLlm}]
      /\ \A i \in LlmIds : llmTable'[i] = IF old # NoLlm /\ i = oid THEN NoLlm ELSE llmTable[i]
  BY <1>1, <1>6 DEF LlmRelayInv, LlmRelayTyped
<1>9. LlmRelayTyped'
  BY <1>7, <1>8 DEF LlmRelayInv, LlmRelayTyped
<1>10. RowsFollow
  BY <1>2, <1>7 DEF RowsFollow
<1>11. old # r /\ (old # NoLlm => llmRelay'[old] = llmRelay[old] /\ old \in LlmObjects)
  BY <1>2, <1>6, <1>7, NoLlmAssumption
<1>12. OldId(r)' = IF old = NoLlm THEN NoLlm ELSE oid
  BY <1>4, <1>7, <1>11 DEF OldId
<1>13. RowsPlaced'
  <2>1. RowPlace(r)'
    BY <1>4, <1>6, <1>7, <1>11, <1>12 DEF RowPlace, Registered
  <2> QED
    BY <1>7, <1>8, <1>9, <1>10, <2>1, RowsKeep
<1>14. \A i \in LlmIds : /\ Starts(r, i)' <=> i \in Ids
                         /\ Replaces(r, i)' <=> old # NoLlm /\ i = oid
                         /\ ~Starts(r, i)
  BY <1>2, <1>4, <1>7, <1>12, NoLlmAssumption DEF Starts, InStart, Replaces
<1>15. \A i \in LlmIds \ Ids : Passes(i)
  BY <1>2, <1>4, <1>7, <1>8, <1>14, NoLlmAssumption DEF Passes, Elsewhere
<1>16. ASSUME NEW o \in LlmObjects \ {r}, NEW i \in LlmIds, Starts(o, i)' PROVE Starts(o, i)
  <2>1. RowPlace(o)
    BY DEF LlmRelayInv, RowsPlaced
  <2>2. llmRelay[o].st = "close" /\ llmRelay[o].old # NoLlm => OldId(o)' = OldId(o)
    BY <1>7, <1>10, <2>1 DEF RowPlace, Registered, RowsFollow, OldId
  <2>3. llmRelay[o].st = "close" /\ llmRelay[o].old = NoLlm => OldId(o)' # i
    BY <1>7, NoLlmAssumption DEF OldId
  <2> QED BY <1>7, <1>16, <2>2, <2>3 DEF Starts, InStart
<1>17. ASSUME NEW i \in Ids, i \notin llmCrossed' PROVE IdPlace(i)'
  <2>1. i \in LlmIds /\ i \notin llmCrossed /\ i \notin Touched
    BY <1>1, <1>6, <1>17 DEF Crosses
  <2>2. IdPlace(i) /\ Untouched(i)
    BY <2>1, TouchedIds DEF LlmRelayInv
  <2>3. \A o \in LlmObjects : Starts(o, i)' => o = r
    BY <1>16, <2>1, <2>2 DEF Untouched
  <2>4. \A o \in LlmObjects : (Listening(o) /\ llmRelay[o].id = i)' <=> (Listening(o) /\ llmRelay[o].id = i)
    BY <1>2, <1>4, <1>7 DEF Listening
  <2>5. StartFinds(r, i)'
    <3>1. CASE old # NoLlm /\ i = oid
      <4>1. i \notin llmRestoring
        BY <1>6, <3>1 DEF LlmRelayInv, RestorePlace, RestoreAt
      <4>2. ListensOnly(i, {old}) /\ llmTable'[i] = NoLlm
        BY <1>6, <1>8, <2>1, <2>2, <3>1, <4>1 DEF IdPlace, RestAgrees
      <4> QED
        BY <1>4, <1>7, <1>14, <2>1, <2>4, <3>1, <4>2 DEF StartFinds, ListensOnly
    <3>2. CASE ~(old # NoLlm /\ i = oid)
      <4>1. i = id /\ llmTable[id] = NoLlm /\ llmTable'[id] = NoLlm
        BY <1>6, <1>8, <1>17, <3>2
      <4>2. ListensOnly(i, {}) /\ llmSaved[i] \in {NoLlm, [bind |-> bind, policy |-> policy]}
        BY <2>2, <4>1 DEF IdPlace, RestAgrees, LlmRelayInv, RestorePlace, RestoreAt
      <4>3. FileOf(r)' = [bind |-> bind, policy |-> policy]
        BY <1>4, <1>7 DEF FileOf
      <4> QED
        BY <1>4, <1>7, <1>14, <2>1, <2>4, <3>2, <4>1, <4>2, <4>3 DEF StartFinds, ListensOnly
    <3> QED BY <3>1, <3>2
  <2>6. \A s \in llmStops : s[1] # i
    BY <2>2 DEF Untouched
  <2> QED
    BY <1>14, <1>17, <2>1, <2>3, <2>5, <2>6 DEF IdPlace, OneCall, CallPlace, Untouched
<1>18. ASSUME NEW i \in Ids, i \in llmRestoring' PROVE RestoreAt(i)'
  <2>1. i = oid /\ i # id /\ i \in llmRestoring
    BY <1>18
  <2> QED
    BY <1>6, <2>1, NoLlmAssumption DEF LlmRelayInv, RestorePlace, RestoreAt
<1>19. /\ llmCrossed \subseteq llmCrossed' /\ Ids \in SUBSET LlmIds
       /\ llmRestoring' \subseteq llmRestoring /\ llmRestoring \ llmRestoring' \subseteq Ids
       /\ (llmRestoring' # {} => llmStops' = {})
  BY <1>1, <1>6 DEF Crosses, LlmRelayInv, RestorePlace
<1> HIDE DEF Ids
<1> QED
  BY <1>9, <1>10, <1>13, <1>15, <1>17, <1>18, <1>19, NearKeeps

\* Who works on what changes with the row alone.
LEMMA SameRowStarts ==
  ASSUME LlmRelayInv, RowsFollow, NEW o \in LlmObjects, NEW i \in LlmIds, llmRelay'[o] = llmRelay[o]
  PROVE  Starts(o, i)' <=> Starts(o, i)
<1>1. RowPlace(o)
  BY DEF LlmRelayInv, RowsPlaced
<1>2. llmRelay[o].st = "close" /\ llmRelay[o].old # NoLlm => OldId(o)' = OldId(o)
  BY <1>1 DEF RowPlace, Registered, RowsFollow, OldId
<1>3. llmRelay[o].st = "close" /\ llmRelay[o].old = NoLlm => OldId(o)' # i /\ OldId(o) # i
  BY NoLlmAssumption DEF OldId
<1> QED
  BY <1>2, <1>3 DEF Starts, InStart

\* A start goes on: on the ids it works on it was alone, and it stays so or leaves them at rest.
LEMMA StartGoesOn ==
  ASSUME LlmRelayInv, NEW r \in LlmObjects, RowsFollow, LlmRelayTyped', RowsPlaced',
         UNCHANGED <<llmStops, llmRestoring>>, llmCrossed \subseteq llmCrossed',
         NEW Ids \in SUBSET LlmIds, \A i \in Ids : Starts(r, i),
         \A i \in LlmIds \ Ids : Passes(i),
         \A o \in LlmObjects \ {r}, i \in Ids : Starts(o, i)' => Starts(o, i),
         \A i \in Ids : i \notin llmCrossed' /\ StartFinds(r, i) => IF Starts(r, i)' THEN StartFinds(r, i)' ELSE RestAgrees(i)'
  PROVE  LlmRelayInv'
<1>1. ASSUME NEW i \in Ids, i \notin llmCrossed' PROVE IdPlace(i)'
  <2>1. IdPlace(i) /\ Starts(r, i)
    BY <1>1 DEF LlmRelayInv
  <2>2. /\ StartFinds(r, i) /\ \A o \in LlmObjects \ {r} : ~Starts(o, i)
        /\ \A s \in llmStops : s[1] # i
    BY <2>1 DEF IdPlace, OneCall, CallPlace
  <2>3. \A o \in LlmObjects : Starts(o, i)' => o = r
    BY <2>2
  <2>4. IF Starts(r, i)' THEN StartFinds(r, i)' ELSE RestAgrees(i)'
    BY <1>1, <2>2
  <2> QED
    BY <2>2, <2>3, <2>4 DEF IdPlace, OneCall, CallPlace, Untouched
<1>2. ASSUME NEW i \in Ids, i \in llmRestoring' PROVE RestoreAt(i)'
  BY <1>2 DEF LlmRelayInv, RestorePlace, RestoreAt, Untouched
<1>3. llmRestoring' # {} => llmStops' = {}
  BY DEF LlmRelayInv, RestorePlace
<1> QED
  BY <1>1, <1>2, <1>3, NearKeeps

\* The file of a session that ended is removed, or its id is known to have kept it.
LEMMA RemovesFile ==
  ASSUME LlmRelayInv, NEW id \in LlmIds, removePersistedLocalLLMRelay(id)
  PROVE  /\ llmSaved' \in [LlmIds -> LlmFiles \cup {NoLlm}] /\ llmCrossed \subseteq llmCrossed'
         /\ \A i \in LlmIds \ {id} : llmSaved'[i] = llmSaved[i]
         /\ id \notin llmCrossed' => llmSaved'[id] = NoLlm
BY DEF removePersistedLocalLLMRelay, LlmRelayInv, LlmRelayTyped

\* The relay that is replaced is closed and its file removed.
LEMMA ClosesReplacedKeeps ==
  ASSUME LlmRelayInv, NEW r \in LlmObjects, ClosesReplaced(r)
  PROVE  LlmRelayInv'
<1> SUFFICES ASSUME NEW old, old = llmRelay[r].old, NEW id, id = llmRelay[r].id,
                    NEW oid, oid = (IF old = NoLlm THEN id ELSE llmRelay[old].id)
             PROVE  LlmRelayInv'
  OBVIOUS
<1>1. /\ llmRelay[r].st = "close" /\ UNCHANGED <<llmTable, llmStops, llmRestoring>>
  BY DEF ClosesReplaced
<1>2. /\ id \in LlmIds /\ oid \in LlmIds /\ ~llmRelay[r].saving
      /\ old # NoLlm => old \in LlmObjects /\ llmRelay[old].st \in {"open", "closed"} /\ old # r
  BY <1>1 DEF LlmRelayInv, RowsPlaced, RowPlace, Registered, OldId
<1> DEFINE new == [llmRelay[r] EXCEPT !.st = "listen"]
           Ids == {id, oid}
<1>3. /\ new \in LlmRelayRows /\ new.st = "listen" /\ new.id = id /\ ~new.saving /\ new.bind = llmRelay[r].bind
      /\ new.policy = llmRelay[r].policy /\ new.old = old /\ llmRelay \in [LlmObjects -> LlmRelayRows]
  BY <1>2 DEF LlmRelayInv, LlmRelayTyped, LlmRelayRows
<1>4. /\ llmRelay' \in [LlmObjects -> LlmRelayRows] /\ llmRelay'[r] = new
      /\ \A o \in LlmObjects \ {r} : llmRelay'[o] = IF o = old THEN [llmRelay[o] EXCEPT !.st = "closed"] ELSE llmRelay[o]
      /\ llmSaved' \in [LlmIds -> LlmFiles \cup {NoLlm}]
      /\ \A i \in LlmIds : old = NoLlm \/ i # oid => llmSaved'[i] = llmSaved[i]
      /\ old # NoLlm /\ oid \notin llmCrossed' => llmSaved'[oid] = NoLlm
      /\ llmCrossed \subseteq llmCrossed'
  <2>1. CASE old = NoLlm
    <3>1. llmRelay' = [llmRelay EXCEPT ![r] = new] /\ llmSaved' = llmSaved /\ llmCrossed' = llmCrossed
      BY <1>3, <2>1 DEF ClosesReplaced
    <3> HIDE DEF new
    <3> QED
      BY <1>2, <1>3, <2>1, <3>1, NoLlmAssumption DEF LlmRelayInv, LlmRelayTyped
  <2>2. CASE old # NoLlm
    <3> DEFINE ended == [llmRelay[old] EXCEPT !.st = "closed"]
    <3>1. llmRelay' = [llmRelay EXCEPT ![r] = new, ![old] = ended] /\ removePersistedLocalLLMRelay(oid)
      BY <1>2, <1>3, <2>2 DEF ClosesReplaced
    <3>2. ended \in LlmRelayRows
      BY <1>2, <1>3, <2>2 DEF LlmRelayRows
    <3> HIDE DEF new, ended
    <3>3. /\ llmRelay' \in [LlmObjects -> LlmRelayRows] /\ llmRelay'[r] = new /\ llmRelay'[old] = ended
          /\ \A o \in LlmObjects \ {r, old} : llmRelay'[o] = llmRelay[o]
      BY <1>2, <1>3, <2>2, <3>1, <3>2
    <3>4. /\ llmSaved' \in [LlmIds -> LlmFiles \cup {NoLlm}]
          /\ \A i \in LlmIds \ {oid} : llmSaved'[i] = llmSaved[i]
          /\ oid \notin llmCrossed' => llmSaved'[oid] = NoLlm
          /\ llmCrossed \subseteq llmCrossed'
      BY <1>2, <3>1, RemovesFile
    <3> QED
      BY <1>2, <2>2, <3>3, <3>4 DEF ended
  <2> QED BY <2>1, <2>2
<1> HIDE DEF new
<1>5. \A o \in LlmObjects \ {r} :
        /\ llmRelay'[o].id = llmRelay[o].id /\ llmRelay'[o].saving = llmRelay[o].saving
        /\ llmRelay'[o].st = IF o = old THEN "closed" ELSE llmRelay[o].st
        /\ o # old => llmRelay'[o] = llmRelay[o]
        /\ o = old => /\ llmRelay'[o].bind = llmRelay[o].bind /\ llmRelay'[o].policy = llmRelay[o].policy
  BY <1>3, <1>4 DEF LlmRelayRows
<1>6. LlmRelayTyped' /\ RowsFollow
  BY <1>1, <1>2, <1>3, <1>4, <1>5 DEF LlmRelayInv, LlmRelayTyped, RowsFollow
<1>7. RowsPlaced'
  <2>1. RowPlace(r)'
    BY <1>1, <1>3, <1>4 DEF LlmRelayInv, RowsPlaced, RowPlace
  <2>2. old # NoLlm => RowPlace(old)'
    BY <1>2, <1>5 DEF LlmRelayInv, RowsPlaced, RowPlace
  <2>3. \A o \in LlmObjects : llmRelay'[o] = llmRelay[o] \/ RowPlace(o)'
    BY <1>2, <1>5, <2>1, <2>2, NoLlmAssumption
  <2> QED
    BY <1>1, <1>6, <2>3, RowsKeep
<1>8. \A i \in LlmIds : /\ Starts(r, i) <=> i \in Ids
                        /\ Starts(r, i)' <=> i = id
                        /\ Replaces(r, i) <=> old # NoLlm /\ i = oid
                        /\ ~Replaces(r, i)'
  BY <1>1, <1>2, <1>3, <1>4, NoLlmAssumption DEF Starts, InStart, Replaces, OldId
<1>9. \A o \in LlmObjects \ {r}, i \in LlmIds : Starts(o, i)' => Starts(o, i)
  <2>1. ASSUME NEW o \in LlmObjects \ {r}, o # old, NEW i \in LlmIds PROVE Starts(o, i)' <=> Starts(o, i)
    BY <1>5, <1>6, <2>1, SameRowStarts
  <2>2. ASSUME NEW o \in LlmObjects \ {r}, o = old, NEW i \in LlmIds, Starts(o, i)' PROVE Starts(o, i)
    BY <1>2, <1>5, <2>2 DEF Starts, InStart
  <2> QED BY <2>1, <2>2
<1>10. \A i \in LlmIds \ Ids : Passes(i)
  <2> SUFFICES ASSUME NEW i \in LlmIds \ Ids PROVE Passes(i)
    OBVIOUS
  <2>1. \A o \in LlmObjects : llmRelay'[o] = llmRelay[o] \/ Elsewhere(o, i)
    <3>1. Elsewhere(r, i)
      BY <1>3, <1>4, <1>8 DEF Elsewhere
    <3>2. old # NoLlm => Elsewhere(old, i)
      BY <1>2, <1>5 DEF Elsewhere, Starts, InStart
    <3> QED BY <1>2, <1>5, <3>1, <3>2, NoLlmAssumption
  <2> QED
    BY <1>1, <1>4, <2>1 DEF Passes
<1>11. ASSUME NEW i \in Ids, i \notin llmCrossed', StartFinds(r, i) PROVE IF Starts(r, i)' THEN StartFinds(r, i)' ELSE RestAgrees(i)'
  <2>1. i \in LlmIds
    BY <1>2
  <2>2. llmTable[i] = NoLlm /\ ListensOnly(i, {})' /\ (i = id => llmSaved'[i] \in {NoLlm, FileOf(r)})
        /\ (i # id => llmSaved'[i] = NoLlm)
    <3>1. CASE old # NoLlm /\ i = oid
      <4>1. llmTable[i] = NoLlm /\ ListensOnly(i, {old})
        BY <1>8, <1>11, <2>1, <3>1 DEF StartFinds
      <4>2. ListensOnly(i, {})'
        BY <1>1, <1>2, <1>3, <1>4, <1>5, <2>1, <3>1, <4>1 DEF ListensOnly, Listening
      <4>3. llmSaved'[i] = NoLlm
        BY <1>4, <1>11, <3>1
      <4> QED
        BY <1>1, <4>1, <4>2, <4>3
    <3>2. CASE ~(old # NoLlm /\ i = oid)
      <4>1. i = id /\ llmTable[i] = NoLlm /\ ListensOnly(i, {}) /\ llmSaved[i] \in {NoLlm, FileOf(r)}
        BY <1>1, <1>8, <1>11, <2>1, <3>2 DEF StartFinds
      <4> QED
        BY <1>1, <1>2, <1>3, <1>4, <1>5, <2>1, <3>2, <4>1 DEF ListensOnly, Listening
    <3> QED BY <3>1, <3>2
  <2>3. FileOf(r)' = FileOf(r)
    BY <1>3, <1>4 DEF FileOf
  <2> QED
    BY <1>1, <1>3, <1>4, <1>8, <2>1, <2>2, <2>3 DEF StartFinds, RestAgrees
<1>12. Ids \in SUBSET LlmIds
  BY <1>2
<1>13. \A i \in Ids : Starts(r, i)
  BY <1>2, <1>8
<1> HIDE DEF Ids
<1> QED
  BY <1>1, <1>4, <1>6, <1>7, <1>9, <1>10, <1>11, <1>12, <1>13, StartGoesOn

\* A start that has closed what it replaces touches its own row and id.
LEMMA OwnRowStep ==
  ASSUME LlmRelayInv, NEW r \in LlmObjects, NEW id, id = llmRelay[r].id, InStart(r), llmRelay[r].st # "close",
         LlmRelayTyped', \A o \in LlmObjects \ {r} : llmRelay'[o] = llmRelay[o],
         llmRelay'[r].id = id, llmRelay'[r].bind = llmRelay[r].bind, llmRelay'[r].policy = llmRelay[r].policy,
         llmRelay'[r].st \in {"register", "open", "closed"},
         llmRelay[r].saving \/ llmRelay'[r].saving => llmRelay'[r].st \in {"open", "closed"},
         llmTable'[id] \in {NoLlm, r, llmTable[id]}, llmTable'[id] = r => llmRelay'[r].st \in {"open", "closed"},
         \A i \in LlmIds \ {id} : llmTable'[i] = llmTable[i] /\ llmSaved'[i] = llmSaved[i],
         UNCHANGED <<llmStops, llmRestoring>>, llmCrossed \subseteq llmCrossed',
         id \notin llmCrossed' /\ StartFinds(r, id) => IF Starts(r, id)' THEN StartFinds(r, id)' ELSE RestAgrees(id)'
  PROVE  LlmRelayInv'
<1>1. llmRelay[r].st \in {"listen", "register", "open", "closed"}
      /\ (llmRelay[r].st \in {"open", "closed"} => llmRelay'[r].st \in {"open", "closed"})
  BY DEF InStart, LlmRelayInv, LlmRelayTyped, LlmRelayRows, RowsPlaced, RowPlace
<1>2. id \in LlmIds /\ llmRelay'[r].bind \in LlmBinds /\ llmRelay'[r].policy \in LlmPolicies
  BY <1>1 DEF LlmRelayInv, RowsPlaced, RowPlace
<1>3. RowsFollow
  BY <1>1 DEF RowsFollow
<1>4. RowsPlaced'
  <2>1. RowPlace(r)'
    BY <1>2 DEF RowPlace
  <2>2. TablePlace(id)' \/ llmTable'[id] \in {llmTable[id], NoLlm}
    BY DEF TablePlace, Registered
  <2> QED
    BY <1>3, <2>1, <2>2, RowsKeep
<1>5. \A i \in LlmIds : (Starts(r, i) => i = id) /\ (Starts(r, i)' => i = id)
  BY <1>1 DEF Starts
<1>6. \A i \in LlmIds \ {id} : Passes(i)
  BY <1>2, <1>5 DEF Passes, Elsewhere
<1>7. \A o \in LlmObjects \ {r}, i \in {id} : Starts(o, i)' => Starts(o, i)
  BY <1>2, <1>3, SameRowStarts
<1>8. Starts(r, id) /\ {id} \in SUBSET LlmIds
  BY <1>2 DEF Starts
<1> QED
  BY <1>3, <1>4, <1>6, <1>7, <1>8, StartGoesOn

\* The listener is opened, or refused.
LEMMA ListensKeeps ==
  ASSUME LlmRelayInv, NEW r \in LlmObjects, Listens(r)
  PROVE  LlmRelayInv'
<1> SUFFICES ASSUME NEW id, id = llmRelay[r].id
             PROVE  LlmRelayInv'
  OBVIOUS
<1>1. /\ llmRelay[r].st = "listen" /\ UNCHANGED <<llmTable, llmSaved, llmStops, llmRestoring>>
      /\ \/ llmRelay' = [llmRelay EXCEPT ![r].st = "register"] /\ llmCrossed' = llmCrossed
         \/ llmRelay' = [llmRelay EXCEPT ![r].st = "closed"] /\ llmCrossed' = llmCrossed \cup FileStays(r)
  BY DEF Listens
<1>2. /\ llmRelay[r] \in LlmRelayRows /\ llmRelay \in [LlmObjects -> LlmRelayRows] /\ id \in LlmIds /\ ~llmRelay[r].saving
      /\ llmSaved[id] \in LlmFiles \cup {NoLlm} /\ InStart(r)
      /\ llmTable \in [LlmIds -> LlmObjects \cup {NoLlm}] /\ llmSaved \in [LlmIds -> LlmFiles \cup {NoLlm}]
  BY <1>1 DEF LlmRelayInv, LlmRelayTyped, RowsPlaced, RowPlace, InStart
<1>3. ASSUME NEW st \in {"register", "closed"}, llmRelay' = [llmRelay EXCEPT ![r].st = st],
             llmCrossed' = IF st = "register" THEN llmCrossed ELSE llmCrossed \cup FileStays(r)
      PROVE  LlmRelayInv'
  <2> DEFINE row == [llmRelay[r] EXCEPT !.st = st]
  <2>1. /\ row \in LlmRelayRows /\ row.id = id /\ row.bind = llmRelay[r].bind /\ row.policy = llmRelay[r].policy
        /\ row.st = st /\ ~row.saving /\ llmRelay' = [llmRelay EXCEPT ![r] = row]
    BY <1>2, <1>3 DEF LlmRelayRows
  <2> HIDE DEF row
  <2>2. /\ llmRelay'[r] = row /\ \A o \in LlmObjects \ {r} : llmRelay'[o] = llmRelay[o]
    BY <1>2, <2>1
  <2>3. Starts(r, id)' <=> st = "register"
    BY <1>3, <2>1, <2>2 DEF Starts, InStart
  <2>4. ASSUME id \notin llmCrossed', StartFinds(r, id)
        PROVE  IF Starts(r, id)' THEN StartFinds(r, id)' ELSE RestAgrees(id)'
    <3>1. ~Replaces(r, id) /\ ~Replaces(r, id)'
      BY <1>1, <1>3, <2>1, <2>2 DEF Replaces
    <3>2. llmTable[id] = NoLlm /\ ListensOnly(id, {}) /\ llmSaved[id] \in {NoLlm, FileOf(r)}
      BY <1>1, <2>4, <3>1 DEF StartFinds
    <3>3. FileOf(r)' = FileOf(r)
      BY <2>1, <2>2 DEF FileOf
    <3>4. CASE st = "register"
      BY <1>1, <1>2, <2>1, <2>2, <2>3, <3>1, <3>2, <3>3, <3>4 DEF StartFinds, ListensOnly, Listening
    <3>5. CASE st = "closed"
      <4>1. llmSaved[id] = NoLlm
        BY <1>2, <1>3, <2>4, <3>5 DEF FileStays
      <4> QED
        BY <1>1, <2>1, <2>2, <2>3, <3>2, <3>5, <4>1 DEF RestAgrees, ListensOnly, Listening
    <3> QED BY <3>4, <3>5
  <2>5. LlmRelayTyped'
    BY <1>1, <2>1 DEF LlmRelayInv, LlmRelayTyped
  <2>6. llmCrossed \subseteq llmCrossed' /\ llmTable[id] # r
    BY <1>1, <1>2, <1>3, NoLlmAssumption DEF LlmRelayInv, RowsPlaced, TablePlace, Registered
  <2> QED
    BY <1>1, <1>2, <2>1, <2>2, <2>4, <2>5, <2>6, OwnRowStep
<1> QED
  BY <1>1, <1>3

\* The session is registered.
LEMMA RegistersSessionKeeps ==
  ASSUME LlmRelayInv, NEW r \in LlmObjects, RegistersSession(r)
  PROVE  LlmRelayInv'
<1> SUFFICES ASSUME NEW id, id = llmRelay[r].id
             PROVE  LlmRelayInv'
  OBVIOUS
<1>1. /\ llmRelay[r].st = "register" /\ UNCHANGED <<llmSaved, llmStops, llmRestoring, llmCrossed>>
      /\ llmRelay' = [llmRelay EXCEPT ![r].st = "open", ![r].saving = TRUE]
      /\ llmTable' = [llmTable EXCEPT ![id] = r]
  BY DEF RegistersSession
<1>2. /\ llmRelay[r] \in LlmRelayRows /\ llmRelay \in [LlmObjects -> LlmRelayRows] /\ id \in LlmIds /\ ~llmRelay[r].saving
      /\ llmSaved[id] \in LlmFiles \cup {NoLlm} /\ InStart(r)
      /\ llmTable \in [LlmIds -> LlmObjects \cup {NoLlm}] /\ llmSaved \in [LlmIds -> LlmFiles \cup {NoLlm}]
  BY <1>1 DEF LlmRelayInv, LlmRelayTyped, RowsPlaced, RowPlace, InStart
<1> DEFINE row == [llmRelay[r] EXCEPT !.st = "open", !.saving = TRUE]
<1>3. /\ row \in LlmRelayRows /\ row.id = id /\ row.bind = llmRelay[r].bind /\ row.policy = llmRelay[r].policy
      /\ row.st = "open" /\ row.saving /\ llmRelay' = [llmRelay EXCEPT ![r] = row]
  BY <1>1, <1>2 DEF LlmRelayRows
<1> HIDE DEF row
<1>4. /\ llmRelay'[r] = row /\ \A o \in LlmObjects \ {r} : llmRelay'[o] = llmRelay[o]
      /\ llmTable'[id] = r /\ llmSaved'[id] = llmSaved[id] /\ r # NoLlm
  BY <1>1, <1>2, <1>3, NoLlmAssumption
<1>5. Starts(r, id)'
  BY <1>3, <1>4 DEF Starts, InStart
<1>6. ASSUME StartFinds(r, id)
      PROVE  StartFinds(r, id)'
  <2>1. ~Replaces(r, id) /\ ~Replaces(r, id)'
    BY <1>1, <1>3, <1>4 DEF Replaces
  <2>2. ListensOnly(id, {r}) /\ llmSaved[id] \in {NoLlm, FileOf(r)}
    BY <1>1, <1>6, <2>1 DEF StartFinds
  <2>3. FileOf(r)' = FileOf(r)
    BY <1>3, <1>4 DEF FileOf
  <2> QED
    BY <1>3, <1>4, <2>1, <2>2, <2>3 DEF StartFinds, ListensOnly, Listening
<1>7. LlmRelayTyped' /\ \A i \in LlmIds \ {id} : llmTable'[i] = llmTable[i] /\ llmSaved'[i] = llmSaved[i]
  BY <1>1, <1>2, <1>3 DEF LlmRelayInv, LlmRelayTyped
<1>8. llmCrossed \subseteq llmCrossed'
  BY <1>1
<1> QED
  BY <1>1, <1>2, <1>3, <1>4, <1>5, <1>6, <1>7, <1>8, OwnRowStep

\* The session is saved, or given up.
LEMMA SavesSessionKeeps ==
  ASSUME LlmRelayInv, NEW r \in LlmObjects, SavesSession(r)
  PROVE  LlmRelayInv'
<1> SUFFICES ASSUME NEW id, id = llmRelay[r].id
             PROVE  LlmRelayInv'
  OBVIOUS
<1>1. llmRelay[r].saving /\ UNCHANGED <<llmStops, llmRestoring>>
  BY DEF SavesSession
<1>2. /\ llmRelay[r] \in LlmRelayRows /\ llmRelay \in [LlmObjects -> LlmRelayRows] /\ llmRelay[r].st \in {"open", "closed"}
      /\ id \in LlmIds /\ FileOf(r) \in LlmFiles
      /\ llmSaved[id] \in LlmFiles \cup {NoLlm} /\ InStart(r) /\ r # NoLlm
      /\ llmTable \in [LlmIds -> LlmObjects \cup {NoLlm}] /\ llmSaved \in [LlmIds -> LlmFiles \cup {NoLlm}]
  BY <1>1, NoLlmAssumption DEF LlmRelayInv, LlmRelayTyped, RowsPlaced, RowPlace, InStart, FileOf, LlmFiles
<1>3. ASSUME NEW st \in {llmRelay[r].st, "closed"},
             llmRelay' = [llmRelay EXCEPT ![r].st = st, ![r].saving = FALSE],
             NEW t, llmTable' = [llmTable EXCEPT ![id] = t], NEW f, llmSaved' = [llmSaved EXCEPT ![id] = f],
             llmCrossed \subseteq llmCrossed',
             \/ st = llmRelay[r].st /\ t = llmTable[id] /\ f = FileOf(r)
             \/ st = "closed" /\ t = NoLlm /\ f \in {NoLlm, llmSaved[id]} /\ (f # NoLlm => id \in llmCrossed')
      PROVE  LlmRelayInv'
  <2> DEFINE row == [llmRelay[r] EXCEPT !.st = st, !.saving = FALSE]
  <2>1. /\ row \in LlmRelayRows /\ row.id = id /\ row.bind = llmRelay[r].bind /\ row.policy = llmRelay[r].policy
        /\ row.st = st /\ ~row.saving /\ llmRelay' = [llmRelay EXCEPT ![r] = row]
    BY <1>2, <1>3 DEF LlmRelayRows
  <2> HIDE DEF row
  <2>2. /\ llmRelay'[r] = row /\ \A o \in LlmObjects \ {r} : llmRelay'[o] = llmRelay[o]
        /\ llmTable'[id] = t /\ llmSaved'[id] = f
    BY <1>2, <1>3, <2>1
  <2>3. ~Starts(r, id)'
    BY <1>2, <2>1, <2>2 DEF Starts, InStart
  <2>4. ASSUME id \notin llmCrossed', StartFinds(r, id)
        PROVE  RestAgrees(id)'
    <3>1. llmRelay[r].st = "open" /\ llmTable[id] = r /\ ListensOnly(id, {r})
      BY <1>1, <2>4 DEF StartFinds
    <3>2. FileOf(r)' = FileOf(r)
      BY <2>1, <2>2 DEF FileOf
    <3>3. CASE st = llmRelay[r].st /\ t = llmTable[id] /\ f = FileOf(r)
      BY <1>2, <2>1, <2>2, <3>1, <3>2, <3>3 DEF RestAgrees, ListensOnly, Listening
    <3>4. CASE st = "closed" /\ t = NoLlm /\ f = NoLlm
      BY <1>2, <2>1, <2>2, <3>1, <3>4 DEF RestAgrees, ListensOnly, Listening
    <3> QED BY <1>3, <2>4, <3>3, <3>4
  <2>5. LlmRelayTyped' /\ \A i \in LlmIds \ {id} : llmTable'[i] = llmTable[i] /\ llmSaved'[i] = llmSaved[i]
    BY <1>1, <1>2, <1>3, <2>1, <2>2 DEF LlmRelayInv, LlmRelayTyped
  <2>6. llmRelay'[r].st \in {"open", "closed"} /\ llmTable'[id] \in {NoLlm, llmTable[id]}
    BY <1>2, <1>3, <2>1, <2>2
  <2> QED
    BY <1>1, <1>2, <1>3, <2>1, <2>2, <2>3, <2>4, <2>5, <2>6, OwnRowStep
<1>4. CASE /\ llmSaved' = [llmSaved EXCEPT ![id] = FileOf(r)]
           /\ llmRelay' = [llmRelay EXCEPT ![r].saving = FALSE]
           /\ UNCHANGED <<llmTable, llmCrossed>>
  <2>1. /\ llmTable' = [llmTable EXCEPT ![id] = llmTable[id]]
        /\ llmRelay' = [llmRelay EXCEPT ![r].st = llmRelay[r].st, ![r].saving = FALSE]
    BY <1>2, <1>4 DEF LlmRelayRows
  <2> QED
    BY <1>3, <1>4, <2>1
<1>5. CASE /\ llmRelay' = [llmRelay EXCEPT ![r].st = "closed", ![r].saving = FALSE]
           /\ llmTable' = [llmTable EXCEPT ![id] = NoLlm]
           /\ \/ llmSaved' = llmSaved /\ llmCrossed' = llmCrossed \cup FileStays(r)
              \/ llmSaved' = [llmSaved EXCEPT ![id] = NoLlm] /\ UNCHANGED llmCrossed
  <2>1. CASE llmSaved' = llmSaved /\ llmCrossed' = llmCrossed \cup FileStays(r)
    <3>1. llmSaved' = [llmSaved EXCEPT ![id] = llmSaved[id]] /\ (llmSaved[id] # NoLlm => id \in llmCrossed')
      BY <1>2, <2>1 DEF FileStays
    <3> QED
      BY <1>3, <1>5, <2>1, <3>1
  <2>2. CASE llmSaved' = [llmSaved EXCEPT ![id] = NoLlm] /\ UNCHANGED llmCrossed
    BY <1>3, <1>5, <2>2
  <2> QED BY <1>5, <2>1, <2>2
<1> QED
  BY <1>4, <1>5 DEF SavesSession, FileOf

\* A removal takes the table entry ...
LEMMA LlmRemovalKeeps ==
  ASSUME LlmRelayInv, NEW id \in LlmIds, RemoveLocalLLMRelay(id)
  PROVE  LlmRelayInv'
<1> SUFFICES ASSUME NEW r, r = llmTable[id]
             PROVE  LlmRelayInv'
  OBVIOUS
<1>1. /\ llmRestoring = {} /\ UNCHANGED <<llmRelay, llmSaved, llmRestoring>>
      /\ llmTable' = [llmTable EXCEPT ![id] = NoLlm] /\ llmStops' = llmStops \cup {<<id, r>>}
      /\ llmCrossed' = llmCrossed \cup ({id} \cap Touched)
  BY DEF RemoveLocalLLMRelay, Crosses
<1>2. /\ llmTable' \in [LlmIds -> LlmObjects \cup {NoLlm}] /\ llmTable'[id] = NoLlm
      /\ \A i \in LlmIds \ {id} : llmTable'[i] = llmTable[i]
      /\ r \in LlmObjects \cup {NoLlm}
  BY <1>1 DEF LlmRelayInv, LlmRelayTyped
<1>3. LlmRelayTyped' /\ RowsFollow
  BY <1>1, <1>2 DEF LlmRelayInv, LlmRelayTyped, RowsFollow
<1>4. StopPlace(<<id, r>>)'
  BY <1>1 DEF StopPlace, Registered, LlmRelayInv, RowsPlaced, TablePlace
<1>5. RowsPlaced'
  BY <1>1, <1>2, <1>3, <1>4, RowsKeep
<1>6. \A i \in LlmIds \ {id} : Passes(i)
  BY <1>1, <1>2 DEF Passes
<1>7. \A o \in LlmObjects, i \in LlmIds : Starts(o, i)' <=> Starts(o, i)
  BY <1>1, <1>3, SameRowStarts
<1>8. ASSUME id \notin llmCrossed' PROVE IdPlace(id)'
  <2>1. IdPlace(id) /\ Untouched(id) /\ id \notin llmRestoring
    BY <1>1, <1>8, TouchedIds DEF LlmRelayInv
  <2>2. /\ \A o \in LlmObjects : ~Starts(o, id)'
        /\ \A s \in llmStops : s[1] # id
    BY <1>7, <2>1 DEF Untouched
  <2>3. ListensOnly(id, {r} \ {NoLlm})
    BY <2>1, NoLlmAssumption DEF IdPlace, RestAgrees, ListensOnly
  <2>4. \A s \in llmStops' : s[1] = id => s = <<id, r>>
    BY <1>1, <2>2, Zenon
  <2>5. CallPlace(id)'
    BY <1>1, <1>2, <2>2, <2>3, <2>4 DEF CallPlace, ListensOnly, Listening
  <2>6. ~Untouched(id)'
    <3>1. <<id, r>> \in llmStops' /\ <<id, r>>[1] = id
      BY <1>1
    <3> QED BY <3>1 DEF Untouched
  <2> QED
    BY <2>2, <2>4, <2>5, <2>6 DEF IdPlace, OneCall
<1>9. /\ llmCrossed \subseteq llmCrossed' /\ {id} \in SUBSET LlmIds /\ llmRestoring' = {}
      /\ llmRestoring' \subseteq llmRestoring /\ llmRestoring \ llmRestoring' \subseteq {id}
  BY <1>1
<1> QED
  BY <1>3, <1>5, <1>6, <1>8, <1>9, NearKeeps

\* ... and closes what was there and removes its file.
LEMMA LlmStopKeeps ==
  ASSUME LlmRelayInv, NEW id \in LlmIds, NEW r \in LlmObjects \cup {NoLlm}, stop(id, r)
  PROVE  LlmRelayInv'
<1>1. /\ <<id, r>> \in llmStops /\ llmStops' = llmStops \ {<<id, r>>}
      /\ removePersistedLocalLLMRelay(id) /\ UNCHANGED <<llmTable, llmRestoring>>
      /\ llmRelay' = IF r = NoLlm THEN llmRelay ELSE [llmRelay EXCEPT ![r].st = "closed"]
  BY DEF stop
<1>2. llmRestoring = {} /\ StopPlace(<<id, r>>)
  BY <1>1 DEF LlmRelayInv, RestorePlace, RowsPlaced
<1>3. /\ llmSaved' \in [LlmIds -> LlmFiles \cup {NoLlm}] /\ (id \notin llmCrossed' => llmSaved'[id] = NoLlm)
      /\ \A i \in LlmIds \ {id} : llmSaved'[i] = llmSaved[i]
      /\ llmCrossed \subseteq llmCrossed'
  BY <1>1, RemovesFile
<1>4. r # NoLlm => r \in LlmObjects /\ llmRelay[r].id = id /\ llmRelay[r].st \in {"open", "closed"}
  BY <1>2 DEF StopPlace, Registered
<1>5. /\ llmRelay' \in [LlmObjects -> LlmRelayRows]
      /\ \A o \in LlmObjects : llmRelay'[o] = IF o = r THEN [llmRelay[o] EXCEPT !.st = "closed"] ELSE llmRelay[o]
  <2>1. CASE r = NoLlm
    BY <1>1, <2>1, NoLlmAssumption DEF LlmRelayInv, LlmRelayTyped
  <2>2. CASE r # NoLlm
    <3> DEFINE ended == [llmRelay[r] EXCEPT !.st = "closed"]
    <3>1. ended \in LlmRelayRows /\ llmRelay' = [llmRelay EXCEPT ![r] = ended] /\ llmRelay \in [LlmObjects -> LlmRelayRows]
      BY <1>1, <1>4, <2>2 DEF LlmRelayInv, LlmRelayTyped, LlmRelayRows
    <3> HIDE DEF ended
    <3>2. llmRelay' \in [LlmObjects -> LlmRelayRows] /\ llmRelay'[r] = ended /\ \A o \in LlmObjects \ {r} : llmRelay'[o] = llmRelay[o]
      BY <1>4, <2>2, <3>1
    <3> QED BY <3>2 DEF ended
  <2> QED BY <2>1, <2>2
<1>6. \A o \in LlmObjects :
        /\ llmRelay'[o].id = llmRelay[o].id /\ llmRelay'[o].saving = llmRelay[o].saving
        /\ llmRelay'[o].bind = llmRelay[o].bind /\ llmRelay'[o].policy = llmRelay[o].policy
        /\ llmRelay'[o].st = IF o = r THEN "closed" ELSE llmRelay[o].st
        /\ o # r => llmRelay'[o] = llmRelay[o]
  BY <1>5 DEF LlmRelayInv, LlmRelayTyped, LlmRelayRows
<1>7. LlmRelayTyped' /\ RowsFollow
  BY <1>1, <1>3, <1>5, <1>6 DEF LlmRelayInv, LlmRelayTyped, RowsFollow
<1>8. RowsPlaced'
  <2>1. r # NoLlm => RowPlace(r)'
    BY <1>4, <1>6 DEF LlmRelayInv, RowsPlaced, RowPlace
  <2>2. \A o \in LlmObjects : llmRelay'[o] = llmRelay[o] \/ RowPlace(o)'
    BY <1>6, <2>1, NoLlmAssumption
  <2> QED
    BY <1>1, <1>7, <2>2, RowsKeep
<1>9. \A o \in LlmObjects, i \in LlmIds : Starts(o, i)' <=> Starts(o, i)
  <2>1. ASSUME NEW o \in LlmObjects, o # r, NEW i \in LlmIds PROVE Starts(o, i)' <=> Starts(o, i)
    BY <1>6, <1>7, <2>1, SameRowStarts
  <2>2. ASSUME NEW o \in LlmObjects, o = r, NEW i \in LlmIds PROVE Starts(o, i)' <=> Starts(o, i)
    BY <1>4, <1>6, <2>2, NoLlmAssumption DEF Starts, InStart
  <2> QED BY <2>1, <2>2
<1>10. \A i \in LlmIds \ {id} : Passes(i)
  <2>1. ASSUME NEW i \in LlmIds \ {id}, NEW o \in LlmObjects, o = r PROVE Elsewhere(o, i)
    BY <1>4, <1>6, <1>9, <2>1, NoLlmAssumption DEF Elsewhere, Starts, InStart
  <2> QED
    BY <1>1, <1>3, <1>6, <2>1 DEF Passes
<1>11. ASSUME id \notin llmCrossed' PROVE IdPlace(id)'
  <2>1. IdPlace(id)
    BY <1>3, <1>11 DEF LlmRelayInv
  <2>2. /\ \A o \in LlmObjects : ~Starts(o, id)
        /\ \A s \in llmStops : s[1] = id => s = <<id, r>>
        /\ llmTable[id] = NoLlm /\ ListensOnly(id, {r} \ {NoLlm})
    BY <1>1, <2>1 DEF IdPlace, OneCall, CallPlace
  <2>3. Untouched(id)'
    BY <1>1, <1>9, <2>2 DEF Untouched
  <2>4. RestAgrees(id)'
    BY <1>1, <1>3, <1>6, <1>11, <2>2 DEF RestAgrees, ListensOnly, Listening
  <2> QED
    BY <2>3, <2>4 DEF IdPlace, OneCall, CallPlace, Untouched
<1>12. /\ llmCrossed \subseteq llmCrossed' /\ {id} \in SUBSET LlmIds /\ llmRestoring' = {}
       /\ llmRestoring' \subseteq llmRestoring /\ llmRestoring \ llmRestoring' \subseteq {id}
  BY <1>1, <1>2, <1>3
<1> QED
  BY <1>7, <1>8, <1>10, <1>11, <1>12, NearKeeps

\* After a restart nothing listens, and the files are what is to be opened.
LEMMA LlmRestartKeeps ==
  ASSUME LlmRelayInv, AgentRestarts
  PROVE  LlmRelayInv'
<1>1. /\ llmRelay' = [r \in LlmObjects |-> IF llmRelay[r] = NoRelayObject THEN NoRelayObject
                                            ELSE [llmRelay[r] EXCEPT !.st = "closed", !.saving = FALSE]]
      /\ llmTable' = [i \in LlmIds |-> NoLlm] /\ llmStops' = {}
      /\ llmRestoring' = {i \in LlmIds : llmSaved[i] # NoLlm} /\ llmSaved' = llmSaved
  BY DEF AgentRestarts
<1>2. NoRelayObject \in LlmRelayRows /\ NoRelayObject.st = "none" /\ ~NoRelayObject.saving
  BY DEF NoRelayObject, LlmRelayRows
<1>3. ASSUME NEW r \in LlmObjects
      PROVE  /\ llmRelay'[r] \in LlmRelayRows /\ RowPlace(r)' /\ ~Listening(r)' /\ \A i \in LlmIds : ~Starts(r, i)'
  <2>1. CASE llmRelay[r] = NoRelayObject
    <3>1. llmRelay'[r] = NoRelayObject
      BY <1>1, <2>1
    <3> QED
      BY <1>2, <3>1 DEF RowPlace, Listening, Starts, InStart
  <2>2. CASE llmRelay[r] # NoRelayObject
    <3>1. llmRelay'[r] = [llmRelay[r] EXCEPT !.st = "closed", !.saving = FALSE] /\ llmRelay[r] \in LlmRelayRows
          /\ llmRelay[r].st # "none" /\ RowPlace(r)
      BY <1>1, <2>2 DEF LlmRelayInv, LlmRelayTyped, RowsPlaced, RowPlace
    <3>2. /\ llmRelay'[r] \in LlmRelayRows /\ llmRelay'[r].st = "closed" /\ ~llmRelay'[r].saving
          /\ llmRelay'[r].id = llmRelay[r].id /\ llmRelay'[r].bind = llmRelay[r].bind
          /\ llmRelay'[r].policy = llmRelay[r].policy
      BY <3>1 DEF LlmRelayRows
    <3> QED
      BY <3>1, <3>2 DEF RowPlace, Listening, Starts, InStart
  <2> QED BY <2>1, <2>2
<1>4. LlmRelayTyped'
  <2>1. llmRelay' \in [LlmObjects -> LlmRelayRows]
    <3>1. llmRelay' = [r \in LlmObjects |-> llmRelay'[r]]
      BY <1>1
    <3> QED BY <1>3, <3>1
  <2> QED
    BY <1>1, <2>1 DEF LlmRelayInv, LlmRelayTyped
<1>5. RowsPlaced'
  BY <1>1, <1>3 DEF RowsPlaced, TablePlace
<1>6. \A id \in LlmIds : Untouched(id)' /\ ListensOnly(id, {})' /\ llmTable'[id] = NoLlm
  BY <1>1, <1>3 DEF Untouched, ListensOnly
<1>7. RestorePlace'
  BY <1>1, <1>6 DEF RestorePlace, RestoreAt
<1>8. \A id \in LlmIds : IdPlace(id)'
  BY <1>1, <1>6 DEF IdPlace, OneCall, CallPlace, RestAgrees, Untouched
<1> QED
  BY <1>4, <1>5, <1>7, <1>8 DEF LlmRelayInv

\* A request leaves the relays alone.
LEMMA RelaysStay ==
  ASSUME LlmRelayInv, UNCHANGED <<llmTable, llmRelay, llmSaved, llmStops, llmRestoring, llmCrossed>>
  PROVE  LlmRelayInv'
<1>1. RowsFollow /\ LlmRelayTyped'
  BY DEF RowsFollow, LlmRelayInv, LlmRelayTyped
<1>2. RowsPlaced'
  BY <1>1, RowsKeep
<1>3. \A i \in LlmIds : Passes(i)
  BY DEF Passes
<1>4. (llmRestoring' # {} => llmStops' = {}) /\ {} \in SUBSET LlmIds
  BY DEF LlmRelayInv, RestorePlace
<1> QED
  BY <1>1, <1>2, <1>3, <1>4, NearKeeps

\* LlmRelayInv is inductive.
LEMMA LlmRelayInduction ==
  ASSUME LlmRelayInv, [LlmRelayNext]_<<llmRelayVars, budget>>
  PROVE  LlmRelayInv'
<1>1. CASE UNCHANGED <<llmRelayVars, budget>>
  BY <1>1, RelaysStay DEF llmRelayVars
<1>2. ASSUME NEW r \in LlmObjects, NEW id \in LlmIds, NEW b \in LlmBinds, NEW p \in LlmPolicies,
             EnsureLocalLLMRelay(r, id, b, p)
      PROVE  LlmRelayInv'
  BY <1>2, LlmStartKeeps DEF EnsureLocalLLMRelay
<1>3. ASSUME NEW r \in LlmObjects, NEW id \in LlmIds, restoreLLM(r, id)
      PROVE  LlmRelayInv'
  <2>1. id \in llmRestoring /\ llmRestoring' = llmRestoring \ {id} /\ UNCHANGED <<llmSaved, llmStops>>
        /\ start(r, id, llmSaved[id].bind, llmSaved[id].policy)
    BY <1>3 DEF restoreLLM
  <2>2. llmSaved[id] \in LlmFiles
    BY <2>1 DEF LlmRelayInv, LlmRelayTyped, RestorePlace, RestoreAt
  <2>3. /\ llmSaved[id].bind \in LlmBinds /\ llmSaved[id].policy \in LlmPolicies
        /\ llmSaved[id] = [bind |-> llmSaved[id].bind, policy |-> llmSaved[id].policy]
    BY <2>2 DEF LlmFiles
  <2> QED
    BY <2>1, <2>3, LlmStartKeeps
<1>4. ASSUME NEW r \in LlmObjects, ClosesReplaced(r) \/ Listens(r) \/ RegistersSession(r) \/ SavesSession(r)
      PROVE  LlmRelayInv'
  BY <1>4, ClosesReplacedKeeps, ListensKeeps, RegistersSessionKeeps, SavesSessionKeeps
<1>5. ASSUME NEW id \in LlmIds, RemoveLocalLLMRelay(id) \/ \E r \in LlmObjects \cup {NoLlm} : stop(id, r)
      PROVE  LlmRelayInv'
  BY <1>5, LlmRemovalKeeps, LlmStopKeeps
<1>6. CASE AgentRestarts
  BY <1>6, LlmRestartKeeps
<1>7. ASSUME NEW q \in LlmRequests, acquire(q) \/ release(q) \/ \E r \in LlmObjects : relayHandler(q, r)
      PROVE  LlmRelayInv'
  BY <1>7, RelaysStay DEF acquire, release, relayHandler
<1> QED
  BY <1>1, <1>2, <1>3, <1>4, <1>5, <1>6, <1>7 DEF LlmRelayNext

\* What serves under an id, what the table says and what would be opened again
\* after a restart agree (start, stop, restore), unless calls ran into one
\* another, a file could not be removed or restore failed.
THEOREM RelaysAreCurrent == LlmRelaySpec => []RelayPolicyCurrent
<1>1. LlmRelayInit => LlmRelayInv
  BY LlmRelayInitial
<1>2. LlmRelayInv /\ [LlmRelayNext]_<<llmRelayVars, budget>> => LlmRelayInv'
  BY LlmRelayInduction
<1>3. ASSUME LlmRelayInv PROVE RelayPolicyCurrent
  <2> SUFFICES ASSUME NEW id \in LlmIds, Quiet(id)
               PROVE  LET listening == {r \in LlmObjects : Listening(r) /\ llmRelay[r].id = id} IN
                      IF llmTable[id] = NoLlm THEN listening = {} /\ llmSaved[id] = NoLlm
                      ELSE /\ listening = {llmTable[id]}
                           /\ llmSaved[id] = [bind |-> llmRelay[llmTable[id]].bind,
                                              policy |-> llmRelay[llmTable[id]].policy]
    BY DEF RelayPolicyCurrent
  <2>1. RestAgrees(id)
    BY <1>3, TouchedIds DEF Quiet, LlmRelayInv, IdPlace
  <2>2. llmTable[id] # NoLlm => llmTable[id] \in LlmObjects
    BY <1>3 DEF LlmRelayInv, LlmRelayTyped
  <2> QED
    BY <2>1, <2>2 DEF RestAgrees, ListensOnly, FileOf
<1> QED
  BY <1>1, <1>2, <1>3, PTL DEF LlmRelaySpec
=============================================================================
