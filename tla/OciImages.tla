----------------------------- MODULE OciImages -----------------------------
(***************************************************************************)
(* Container images on the host (internal/domain/oci): the storage policy  *)
(* and the cleanup it drives, builds that push and untag, and the cluster  *)
(* registry's volume.  Every image has the size 1, and its age is young or *)
(* old against the smallest age a policy may name; an operator's podman    *)
(* interferes.  storageMu is held from "locked" to the end of a cleanup; a  *)
(* cleanup that was asked for has its policy by then ("wait").             *)
(***************************************************************************)
EXTENDS ToolCalls, FiniteSets

CONSTANTS OciImageIds, OciTags, OciCallers, OciLimits, NoOci
ASSUME OciAssumption == NoOci \notin OciCallers

VARIABLES
  ociImages,    \* id -> present, old, tags, used by a container
  ociPolicy,    \* the policy file: maxBytes (0: none) and minAge
  storageMu,    \* the caller holding the mutex
  ociCall,      \* the call of a caller
  registryPvc   \* size of the registry's volume claim, 0: none

ociVars == <<ociImages, ociPolicy, storageMu, ociCall, registryPvc>>

NoOciCall == [pc |-> "idle", kind |-> "none", policy |-> NoOci, limit |-> 0, age |-> 0,
              candidates |-> {}, tag |-> NoOci]
Policies == [maxBytes : OciLimits \cup {0}, minAge : {1, 2}]

ImageRows == [present : BOOLEAN, old : BOOLEAN, tags : SUBSET OciTags, used : BOOLEAN]
OciRows ==
  [pc : {"idle", "save", "wait", "locked", "prune", "unlock", "enforce", "build", "push", "untag", "apply"},
   kind : {"none", "configure", "cleanup", "build"}, policy : Policies \cup {NoOci},
   limit : OciLimits \cup {0, 1, 2, NoOci}, age : {0, 1, 2},
   candidates : SUBSET OciImageIds, tag : OciTags \cup {NoOci}]

OciTypeOK ==
  /\ ociImages \in [OciImageIds -> ImageRows]
  /\ ociPolicy \in Policies
  /\ storageMu \in OciCallers \cup {NoOci} /\ registryPvc \in 0..2
  /\ ociCall \in [OciCallers -> OciRows]

OciInit ==
  /\ \E found \in SUBSET OciImageIds : ociImages = [i \in OciImageIds |->
       [present |-> i \in found, old |-> i \in found, tags |-> {}, used |-> FALSE]]
  /\ ociPolicy = [maxBytes |-> 0, minAge |-> 1]
  /\ storageMu = NoOci /\ ociCall = [c \in OciCallers |-> NoOciCall]
  /\ registryPvc = 0

OciAt(c, pc) == ociCall[c].pc = pc
OciGoes(c, pc) == ociCall' = [ociCall EXCEPT ![c].pc = pc]
OciEnds(c) == ociCall' = [ociCall EXCEPT ![c] = NoOciCall]
Locks(c) == storageMu = NoOci /\ storageMu' = c
Unlocks(c) == storageMu' = NoOci
Usage == Cardinality({i \in OciImageIds : ociImages[i].present})

----------------------------------------------------------------------------
\* ConfigureOciStorage reads the policy and changes the fields it was given
\* before it takes the mutex.
ConfigureOciStorage(c, limit, age) ==
  /\ OciAt(c, "idle") /\ Called /\ limit \in OciLimits \cup {0, NoOci} /\ age \in {0, 2}
  /\ ociCall' = [ociCall EXCEPT ![c] = [NoOciCall EXCEPT !.pc = "save", !.kind = "configure",
       !.limit = limit, !.age = age,
       !.policy = [maxBytes |-> IF limit = NoOci THEN ociPolicy.maxBytes ELSE limit,
                   minAge |-> IF age = 0 THEN ociPolicy.minAge ELSE age]]]
  /\ UNCHANGED <<ociImages, ociPolicy, storageMu, registryPvc>>

\* The file is replaced in one rename; a save that fails leaves the old one.
saveOciStoragePolicyAt(c) ==
  /\ OciAt(c, "save")
  /\ \/ /\ Locks(c) /\ UNCHANGED budget
        /\ ociPolicy' = ociCall[c].policy
        /\ \E pruneNow \in BOOLEAN :
             ociCall' = [ociCall EXCEPT ![c].pc = IF pruneNow THEN "locked" ELSE "unlock",
                                        ![c].limit = ociCall[c].policy.maxBytes]
     \/ storageMu = NoOci /\ UNCHANGED <<ociPolicy, storageMu>> /\ Trouble /\ OciEnds(c)
  /\ UNCHANGED <<ociImages, registryPvc>>

\* CleanupContainerStorage: the caller's budget, and the caller's smallest age
\* or, if none is given (0), the policy's.  The policy is read before the
\* mutex is taken.
CleanupContainerStorage(c, limit, age) ==
  /\ OciAt(c, "idle") /\ Called /\ limit \in OciLimits \cup {0} /\ age \in {0, 1, 2}
  /\ ociCall' = [ociCall EXCEPT ![c] = [NoOciCall EXCEPT !.pc = "wait", !.kind = "cleanup", !.limit = limit,
       !.policy = IF age = 0 THEN ociPolicy ELSE [ociPolicy EXCEPT !.minAge = age]]]
  /\ UNCHANGED <<ociImages, ociPolicy, storageMu, registryPvc>>

CleanupLocks(c) ==
  /\ OciAt(c, "wait") /\ Locks(c) /\ OciGoes(c, "locked")
  /\ UNCHANGED <<ociImages, ociPolicy, registryPvc, budget>>

\* Listed images that no container uses and that are older than the cutoff.
selectOciPruneCandidates(policy) ==
  {i \in OciImageIds : ociImages[i].present /\ ~ociImages[i].used /\ ociImages[i].old /\ policy.minAge = 1}

\* An inspection or a listing that fails ends the cleanup, and the build it
\* was to precede.
ListsImages(c) ==
  /\ OciAt(c, "locked")
  /\ \/ /\ ociCall' = [ociCall EXCEPT ![c].pc = "prune",
                                      ![c].candidates = selectOciPruneCandidates(ociCall[c].policy)]
        /\ UNCHANGED budget
     \/ Trouble /\ ociCall' = [ociCall EXCEPT ![c].pc = "unlock", ![c].age = 1]
  /\ UNCHANGED <<ociImages, ociPolicy, storageMu, registryPvc>>

\* Mutant of RemoveImage: podman image rm --force.
Forces(i) == TRUE

\* podman image rm without --force: an image a container uses, or several
\* tags name, is refused.
RemoveImage(i) == ~ociImages[i].used /\ Cardinality(ociImages[i].tags) <= 1

\* One round of the loop: stop within the budget, otherwise try the next
\* candidate; a refused one is skipped.
cleanupContainerStorageLocked(c) ==
  /\ OciAt(c, "prune")
  /\ LET limit == ociCall[c].limit  within == limit > 0 /\ Usage <= limit IN
     \/ /\ within \/ ociCall[c].candidates = {}
        /\ OciGoes(c, "unlock") /\ UNCHANGED ociImages
     \/ /\ ~within
        /\ \E i \in ociCall[c].candidates :
             /\ ociCall' = [ociCall EXCEPT ![c].candidates = @ \ {i}]
             /\ ociImages' = IF ociImages[i].present /\ RemoveImage(i)
                  THEN [ociImages EXCEPT ![i].present = FALSE, ![i].tags = {}, ![i].used = FALSE]
                  ELSE ociImages
  /\ UNCHANGED <<ociPolicy, storageMu, registryPvc, budget>>

\* The deferred unlock; a build goes on with what follows the cleanup.
CleanupEnds(c) ==
  /\ OciAt(c, "unlock") /\ Unlocks(c)
  /\ IF ociCall[c].kind = "build" /\ ociCall[c].age = 0
       THEN ociCall' = [ociCall EXCEPT ![c].pc = "build", ![c].age = 1, ![c].candidates = {}] ELSE OciEnds(c)
  /\ UNCHANGED <<ociImages, ociPolicy, registryPvc, budget>>

----------------------------------------------------------------------------
\* BuildAndPushOciImage: the policy is enforced before the build and after
\* the push (field age tells which), each time read under the mutex.
BuildAndPushOciImage(c, tag) ==
  /\ OciAt(c, "idle") /\ Called
  /\ ociCall' = [ociCall EXCEPT ![c] = [NoOciCall EXCEPT !.pc = "enforce", !.kind = "build", !.tag = tag]]
  /\ UNCHANGED <<ociImages, ociPolicy, storageMu, registryPvc>>

\* No policy budget, no cleanup.
enforceOciStoragePolicy(c) ==
  /\ OciAt(c, "enforce") /\ Locks(c)
  /\ ociCall' = [ociCall EXCEPT ![c].pc = IF ociPolicy.maxBytes = 0 THEN "unlock" ELSE "locked",
                                ![c].policy = ociPolicy, ![c].limit = ociPolicy.maxBytes]
  /\ UNCHANGED <<ociImages, ociPolicy, registryPvc, budget>>

Tagged(images, i, tag) ==
  [j \in OciImageIds |-> [images[j] EXCEPT !.tags = IF j = i THEN @ \cup {tag} ELSE @ \ {tag},
                                           !.present = (j = i) \/ @]]

\* The build makes a new image or, fully cached, finds the one it made before;
\* the tag moves to it.
Build(c) ==
  /\ OciAt(c, "build")
  /\ \/ /\ \E i \in OciImageIds :
             ociImages' = Tagged([ociImages EXCEPT ![i].old = @ /\ ociImages[i].present], i, ociCall[c].tag)
        /\ OciGoes(c, "push") /\ UNCHANGED budget
     \/ UNCHANGED ociImages /\ Trouble /\ OciEnds(c)
  /\ UNCHANGED <<ociPolicy, storageMu, registryPvc>>

\* The push needs the tag to be there; a build whose tag is gone fails.
Push(c) ==
  /\ OciAt(c, "push")
  /\ IF \E i \in OciImageIds : ociCall[c].tag \in ociImages[i].tags
       THEN \E untag \in BOOLEAN : OciGoes(c, IF untag THEN "untag" ELSE "enforce")
       ELSE OciEnds(c)
  /\ UNCHANGED <<ociImages, ociPolicy, storageMu, registryPvc, budget>>

\* Only the tag goes, whichever image it is on by now; a failure is a warning.
Untag(c) ==
  /\ OciAt(c, "untag")
  /\ \/ ociImages' = [i \in OciImageIds |-> [ociImages[i] EXCEPT !.tags = @ \ {ociCall[c].tag}]] /\ UNCHANGED budget
     \/ UNCHANGED ociImages /\ Trouble
  /\ OciGoes(c, "enforce")
  /\ UNCHANGED <<ociPolicy, storageMu, registryPvc>>

\* A container starts from an image or goes away; images get old.
PodmanRuns(i) ==
  /\ ociImages[i].present /\ Trouble
  /\ ociImages' = [ociImages EXCEPT ![i].used = ~@]
  /\ UNCHANGED <<ociPolicy, storageMu, ociCall, registryPvc>>

ImagesAge ==
  /\ \E i \in OciImageIds : ociImages[i].present /\ ~ociImages[i].old
  /\ ociImages' = [i \in OciImageIds |-> [ociImages[i] EXCEPT !.old = @ \/ ociImages[i].present]]
  /\ UNCHANGED <<ociPolicy, storageMu, ociCall, registryPvc, budget>>

----------------------------------------------------------------------------
\* A volume claim is created or grows, if its storage class expands.
admitPVCSizeChange(current, requested, expands) ==
  current = 0 \/ requested = current \/ (requested > current /\ expands)

\* InstallOCIRegistry: admit against what was read, then apply; the cluster
\* itself refuses to shrink a claim.
InstallOCIRegistry(c, size) ==
  /\ OciAt(c, "idle") /\ Called
  /\ \E expands \in BOOLEAN : admitPVCSizeChange(registryPvc, size, expands)
  /\ ociCall' = [ociCall EXCEPT ![c] = [NoOciCall EXCEPT !.pc = "apply", !.limit = size]]
  /\ UNCHANGED <<ociImages, ociPolicy, storageMu, registryPvc>>

ApplyRegistry(c) ==
  /\ OciAt(c, "apply") /\ OciEnds(c)
  /\ registryPvc' = IF ociCall[c].limit >= registryPvc THEN ociCall[c].limit ELSE registryPvc
  /\ UNCHANGED <<ociImages, ociPolicy, storageMu, budget>>

\* DeleteOCIRegistry removes the namespace and the claim with it.
DeleteOCIRegistry(c) ==
  /\ OciAt(c, "idle") /\ Called /\ registryPvc > 0 /\ registryPvc' = 0
  /\ UNCHANGED <<ociImages, ociPolicy, storageMu, ociCall>>

OciNext ==
  \/ \E c \in OciCallers :
       \/ \E limit \in OciLimits \cup {0, NoOci}, age \in {0, 2} : ConfigureOciStorage(c, limit, age)
       \/ \E limit \in OciLimits \cup {0}, age \in {0, 1, 2} : CleanupContainerStorage(c, limit, age)
       \/ \E tag \in OciTags : BuildAndPushOciImage(c, tag)
       \/ saveOciStoragePolicyAt(c) \/ CleanupLocks(c) \/ ListsImages(c) \/ cleanupContainerStorageLocked(c)
       \/ CleanupEnds(c) \/ enforceOciStoragePolicy(c) \/ Build(c) \/ Push(c) \/ Untag(c)
       \/ (\E size \in {1, 2} : InstallOCIRegistry(c, size)) \/ ApplyRegistry(c) \/ DeleteOCIRegistry(c)
  \/ (\E i \in OciImageIds : PodmanRuns(i)) \/ ImagesAge

OciSpec == OciInit /\ BudgetInit /\ [][OciNext]_<<ociVars, budget>>

----------------------------------------------------------------------------
\* A step that removes an image never removes one that a container uses, that
\* two tags still name or that is young, even when the container or the tag
\* came between the listing and the removal (RemoveImage does not force).
ReferencedImageKept ==
  [][\A i \in OciImageIds : ociImages[i].present /\ ~ociImages'[i].present =>
       ociImages[i].old /\ ~ociImages[i].used /\ Cardinality(ociImages[i].tags) <= 1]_ociVars

=============================================================================
