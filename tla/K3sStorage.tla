----------------------------- MODULE K3sStorage -----------------------------
(***************************************************************************)
(* Storage reclaim of the K3s provider (storage.go, storage_registry.go):  *)
(* pruning the images of a guest and collecting the in-cluster registry.   *)
(* Both decide from a keep-set read once and then run one command per      *)
(* step, while pods start and stop, calls are cancelled and calls overlap. *)
(* An image is its tag; images may share a manifest (Manifest).            *)
(***************************************************************************)
EXTENDS ToolCalls, FiniteSets

CONSTANTS Images, Manifest, Reclaimers, Replicas
ASSUME ReplicasAssumption == Replicas \in Nat \ {0}

VARIABLES
  pulled,     \* images in the guest's containerd
  pods,       \* images the running pods name
  tags,       \* tags in the registry
  replicas,   \* of the registry deployment
  gcJob,      \* the garbage-collect job runs
  reclaim     \* the call of a reclaimer

storageVars == <<pulled, pods, tags, replicas, gcJob, reclaim>>
NoReclaim == [pc |-> "idle", plan |-> {}, keep |-> {}, restore |-> 0]

StorageTypeOK ==
  /\ pulled \subseteq Images /\ pods \subseteq Images /\ tags \subseteq Images
  /\ replicas \in 0..Replicas /\ gcJob \in BOOLEAN
  /\ reclaim \in [Reclaimers -> [pc : {"idle", "prune", "delete", "down", "job", "restore"},
                                 plan : SUBSET Images, keep : SUBSET Images,
                                 restore : 0..Replicas]]

StorageInit ==
  /\ pulled = Images /\ pods = {} /\ tags = Images
  /\ replicas = Replicas /\ gcJob = FALSE
  /\ reclaim = [o \in Reclaimers |-> NoReclaim]

ReclaimAt(o, pc) == reclaim' = [reclaim EXCEPT ![o] = IF pc = "idle" THEN NoReclaim
                                                      ELSE [@ EXCEPT !.pc = pc]]

----------------------------------------------------------------------------
\* The images pods name; a caller may add tags of its own (extra).
keepSetFromRunningPods(extra) == pods \cup extra

\* Images outside the keep-set; young ones are spared.
planUnusedImages(keep, young) == pulled \ (keep \cup young)

\* Images that share a manifest with one of S.
Siblings(S) == {i \in Images : Manifest[i] \in {Manifest[j] : j \in S}}

\* pruneUnusedImages reads images, containers and pods, then deletes.  An
\* image matches the keep-set by its tags and by its digests, so the tags of
\* a kept manifest stay together.
pruneUnusedImages(o, extra, young) ==
  /\ reclaim[o] = NoReclaim /\ Called
  /\ LET keep == keepSetFromRunningPods(extra) IN
     reclaim' = [reclaim EXCEPT ![o] =
       [pc |-> "prune", plan |-> planUnusedImages(Siblings(keep), Siblings(young)),
        keep |-> keep, restore |-> 0]]
  /\ UNCHANGED <<pulled, pods, tags, replicas, gcJob>>

\* One crictl rmi; a refusal is a warning and the next image is tried.
PruneRemoves(o, i) ==
  /\ reclaim[o].pc = "prune" /\ i \in reclaim[o].plan
  /\ reclaim' = [reclaim EXCEPT ![o].plan = @ \ {i}]
  /\ pulled' = pulled \ {i} \/ UNCHANGED pulled
  /\ UNCHANGED <<pods, tags, replicas, gcJob, budget>>

PruneEnds(o) ==
  /\ reclaim[o].pc = "prune" /\ reclaim[o].plan = {}
  /\ ReclaimAt(o, "idle")
  /\ UNCHANGED <<pulled, pods, tags, replicas, gcJob, budget>>

----------------------------------------------------------------------------
\* garbageCollectRegistry.

\* A tag is kept by its name only.
planRegistryDeletes(keep) == tags \ keep

\* Mutant of restoreReplicas: the replicas found are taken as they are.
RestoreAsFound(n) == n

restoreReplicas(n) == IF n <= 0 THEN 1 ELSE n

\* discoverRegistry, the keep-set, listRegistryTags (which needs a serving
\* registry).
garbageCollectRegistry(o, extra) ==
  /\ reclaim[o] = NoReclaim /\ Called
  /\ replicas > 0
  /\ LET keep == keepSetFromRunningPods(extra) IN
     reclaim' = [reclaim EXCEPT ![o] =
       [pc |-> "delete", plan |-> planRegistryDeletes(keep), keep |-> keep,
        restore |-> replicas]]
  /\ UNCHANGED <<pulled, pods, tags, replicas, gcJob>>

\* The deployment is read before the tags, so another call may have scaled it
\* down in between; then the listing fails, or the pods still answer it.
CollectDuringOther(o, extra) ==
  /\ reclaim[o] = NoReclaim /\ Called
  /\ replicas = 0 /\ \E q \in Reclaimers : reclaim[q].pc = "down"
  /\ LET keep == keepSetFromRunningPods(extra) IN
     reclaim' = [reclaim EXCEPT ![o] =
       [pc |-> "delete", plan |-> planRegistryDeletes(keep), keep |-> keep,
        restore |-> 0]]
  /\ UNCHANGED <<pulled, pods, tags, replicas, gcJob>>

\* deleteRegistryManifest: the digest of the tag, and with it every tag of it.
deleteRegistryManifest(o, i) ==
  /\ reclaim[o].pc = "delete" /\ i \in reclaim[o].plan
  /\ reclaim' = [reclaim EXCEPT ![o].plan = @ \ {i}]
  /\ \/ replicas > 0 /\ tags' = tags \ Siblings({i})
     \/ UNCHANGED tags
  /\ UNCHANGED <<pulled, pods, replicas, gcJob, budget>>

\* scaleRegistry to zero; a refusal ends the call.
ScaleDown(o) ==
  /\ reclaim[o].pc = "delete" /\ reclaim[o].plan = {}
  /\ \/ replicas' = 0 /\ ReclaimAt(o, "down")
     \/ UNCHANGED replicas /\ ReclaimAt(o, "idle")
  /\ UNCHANGED <<pulled, pods, tags, gcJob, budget>>

\* scaleRegistry back up; the command may be refused, which ends the call too.
ScaledUp(o) ==
  \/ replicas' = restoreReplicas(reclaim[o].restore) /\ UNCHANGED budget
  \/ UNCHANGED replicas /\ Trouble

\* waitForRegistryReplicas: gone, or a timeout that scales up again.
AwaitDown(o) ==
  /\ reclaim[o].pc = "down"
  /\ \/ replicas = 0 /\ gcJob' = TRUE /\ ReclaimAt(o, "job") /\ UNCHANGED <<replicas, budget>>
     \/ ScaledUp(o) /\ ReclaimAt(o, "idle") /\ UNCHANGED gcJob
  /\ UNCHANGED <<pulled, pods, tags>>

\* runRegistryGarbageCollectJob: complete; or failed or late, in which case
\* the registry is scaled up and the call fails.
JobEnds(o) ==
  /\ reclaim[o].pc = "job"
  /\ \/ gcJob' = FALSE /\ ReclaimAt(o, "restore") /\ UNCHANGED <<replicas, budget>>
     \/ gcJob' \in {gcJob, FALSE} /\ ScaledUp(o) /\ ReclaimAt(o, "idle")
  /\ UNCHANGED <<pulled, pods, tags>>

\* scaleRegistry to the replicas found at the start, then Ready or an error.
ScaleUp(o) ==
  /\ reclaim[o].pc = "restore"
  /\ ScaledUp(o)
  /\ ReclaimAt(o, "idle")
  /\ UNCHANGED <<pulled, pods, tags, gcJob>>

----------------------------------------------------------------------------
\* Around the provider.

\* The request is cancelled or the provider stops: nothing more is run, the
\* restoring scale command included.
ReclaimCancelled(o) ==
  /\ reclaim[o] # NoReclaim /\ Trouble
  /\ ReclaimAt(o, "idle")
  /\ UNCHANGED <<pulled, pods, tags, replicas, gcJob>>

\* A pod starts with an image of the guest, or one it can pull.
PodStarts(i) ==
  /\ i \notin pods
  /\ i \in pulled \/ (i \in tags /\ replicas > 0)
  /\ pods' = pods \cup {i} /\ pulled' = pulled \cup {i}
  /\ UNCHANGED <<tags, replicas, gcJob, reclaim, budget>>

PodStops(i) ==
  /\ i \in pods
  /\ pods' = pods \ {i}
  /\ UNCHANGED <<pulled, tags, replicas, gcJob, reclaim, budget>>

StorageNext ==
  \/ \E o \in Reclaimers, extra \in {{}} \cup {{i} : i \in Images} :
       \/ garbageCollectRegistry(o, extra) \/ CollectDuringOther(o, extra)
       \/ \E young \in SUBSET Images : pruneUnusedImages(o, extra, young)
  \/ \E o \in Reclaimers, i \in Images : PruneRemoves(o, i) \/ deleteRegistryManifest(o, i)
  \/ \E o \in Reclaimers : \/ PruneEnds(o) \/ ScaleDown(o) \/ AwaitDown(o)
                           \/ JobEnds(o) \/ ScaleUp(o) \/ ReclaimCancelled(o)
  \/ \E i \in Images : PodStarts(i) \/ PodStops(i)

StorageSpec == StorageInit /\ BudgetInit /\ [][StorageNext]_<<storageVars, budget>>

----------------------------------------------------------------------------
\* Whatever calls overlap and whichever step fails, a registry that nobody is
\* collecting serves again, unless a call was cut off or a restore refused.
RegistryComesBack ==
  troubles = 0 /\ (\A o \in Reclaimers : reclaim[o] = NoReclaim) => replicas > 0

============================================================================
