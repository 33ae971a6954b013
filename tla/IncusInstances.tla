--------------------------- MODULE IncusInstances ---------------------------
(***************************************************************************)
(* The Incus domain (internal/domain/incus): provisioning virtual machines *)
(* and system containers, starting, stopping, resizing and deleting them,  *)
(* the disposable GPU probe, and the checkpointed reset of the stack.      *)
(* Every operation is a row of Incus commands; calls interleave between    *)
(* commands, and other agents create instances on the same Incus.          *)
(* size is the root disk, 0 for no quota; limit stands for CPU and memory.  *)
(***************************************************************************)
EXTENDS ToolCalls, FiniteSets, FiniteSetsExt

CONSTANTS IncusNames, IncusCallers, Sizes, IncusBudget, NoInstance, NoCheckpoint
ASSUME SizesAssumption == Sizes \subseteq Nat /\ Max(Sizes) \in Sizes

VARIABLES
  instances,    \* what Incus holds
  poolEnforces, \* the storage pool enforces a root disk size
  OwnershipMode, \* "enforce" is that mode with an instance ID; "audit" is the default
  registered,   \* names in the resource registry
  checkpoint,   \* the reset checkpoint file
  incusCall     \* the call of a caller

settings == <<poolEnforces, OwnershipMode>>
incusVars == <<instances, settings, registered, checkpoint, incusCall>>

\* made tells the instances apart that other agents create under one name,
\* one after the other (Incus has its own identifier for it).
Instances == [owner : {"me", "other"}, kind : {"vm", "container"}, up : BOOLEAN,
              size : {0} \cup Sizes, limit : {0} \cup Sizes, made : Nat]
Checkpoints == [targets : SUBSET IncusNames, deleted : SUBSET IncusNames,
                phase : {"validated", "deleting", "interrupted", "reconciling", "reconciled"}]
\* foreign: the instances of other agents when the call began; left: the
\* reset's inventory not yet handled.
NoIncusCall == [pc |-> "idle", name |-> "unnamed", kind |-> "container", size |-> 0,
                limit |-> 0, foreign |-> {}, left |-> {}, mine |-> NoCheckpoint]

IncusRows ==
  [pc : {"idle", "reuse", "admit", "launch", "resize", "start", "attach", "discard", "await",
         "vm-start", "vm-stop", "vm-restart", "vm-delete", "vm-limits", "vm-update", "vm-patch",
         "vm-deregister",
         "reset", "reset-delete", "reset-record", "reinstall"},
   name : IncusNames \cup {"unnamed"}, kind : {"vm", "container"}, size : {0} \cup Sizes,
   limit : {0} \cup Sizes, foreign : SUBSET (IncusNames \X Nat), left : SUBSET IncusNames, mine : Checkpoints \cup {NoCheckpoint}]

IncusTypeOK ==
  /\ instances \in [IncusNames -> Instances \cup {NoInstance}]
  /\ poolEnforces \in BOOLEAN /\ OwnershipMode \in {"audit", "enforce"}
  /\ registered \subseteq IncusNames
  /\ checkpoint \in Checkpoints \cup {NoCheckpoint}
  /\ incusCall \in [IncusCallers -> IncusRows]

IncusInit ==
  /\ \E k \in {"vm", "container"}, f \in {{}} \cup {{n} : n \in IncusNames} :
       instances = [i \in IncusNames |->
         IF i \in f THEN [owner |-> "other", kind |-> k, up |-> TRUE, size |-> 0, limit |-> 0, made |-> 0]
         ELSE NoInstance]
  /\ poolEnforces \in BOOLEAN /\ OwnershipMode \in {"audit", "enforce"} /\ registered = {}
  /\ checkpoint = NoCheckpoint
  /\ incusCall = [c \in IncusCallers |-> NoIncusCall]

Exists(n) == instances[n] # NoInstance
Foreign == {n \in IncusNames : Exists(n) /\ instances[n].owner = "other"}
ForeignInstances == {<<n, instances[n].made>> : n \in Foreign}

At(c, pc) == incusCall[c].pc = pc
Goes(c, pc) == incusCall' = [incusCall EXCEPT ![c] = IF pc = "idle" THEN NoIncusCall
                                                     ELSE [@ EXCEPT !.pc = pc]]
Enters(c, pc, n, k, z, l) ==
  incusCall' = [incusCall EXCEPT ![c] = [NoIncusCall EXCEPT
    !.pc = pc, !.name = n, !.kind = k, !.size = z, !.limit = l, !.foreign = ForeignInstances]]
Name(c) == incusCall[c].name
\* The command changes the instance, if it is there.
Sets(n, i) == instances' = [instances EXCEPT ![n] = i]
Keeps == UNCHANGED <<instances, settings, registered, checkpoint>>

----------------------------------------------------------------------------
\* Mutant of assertIncusOwnership: any instance that is there passes.
AnyOwner(n) == OwnershipMode # "enforce" \/ Exists(n)

\* Nothing is read unless ownership is enforced.  Then the owner label must be
\* this agent's; reading it off a missing instance fails.
assertIncusOwnership(n) == OwnershipMode = "enforce" => Exists(n) /\ instances[n].owner = "me"

ownedIncusItem(n) == OwnershipMode = "enforce" => n \notin Foreign

\* Driver, mount and quota options of the pool, as one answer.
DescribeRootDiskQuotaSupport == poolEnforces

\* The size that will be declared: none where the pool would not enforce it.
admitRootDiskQuota(z) == IF DescribeRootDiskQuotaSupport THEN z ELSE 0

\* An explicit size on a pool that does not enforce it is refused.
RefusesExplicit(explicit) == explicit /\ ~DescribeRootDiskQuotaSupport

\* What is declared, of all instances or, where ownership is enforced, of its own.
Counted == {n \in IncusNames : Exists(n) /\ ownedIncusItem(n)}
VMInventoryCapacity == [size |-> MapThenSumSet(LAMBDA n : instances[n].size, Counted),
                        limit |-> MapThenSumSet(LAMBDA n : instances[n].limit, Counted)]

enforceIncusAggregateBudget(z, l) ==
  VMInventoryCapacity.size + z <= IncusBudget /\ VMInventoryCapacity.limit + l <= IncusBudget

\* provisionVM and ProvisionContainer, up to the first change.  The kind of an
\* existing instance decides unless the caller named one.
provisionVM(c, n, k, named, z, explicit) ==
  /\ At(c, "idle") /\ Called /\ Keeps
  /\ IF Exists(n)
       THEN LET actual == instances[n].kind IN
            IF assertIncusOwnership(n) /\ (named => actual = k)
              THEN Enters(c, "reuse", n, actual, 0, 0) ELSE UNCHANGED incusCall
       ELSE IF ~RefusesExplicit(explicit) THEN Enters(c, "admit", n, k, admitRootDiskQuota(z), z)
            ELSE UNCHANGED incusCall

\* ProvisionContainer on an existing name takes containers only.
ProvisionContainerReuse(c, n) ==
  /\ At(c, "idle") /\ Called /\ Keeps
  /\ Exists(n) /\ assertIncusOwnership(n)
  /\ IF instances[n].kind = "container" THEN Enters(c, "reuse", n, "container", 0, 0)
     ELSE UNCHANGED incusCall

Admitted(c) ==
  /\ At(c, "admit") /\ Keeps /\ UNCHANGED budget
  /\ Goes(c, IF enforceIncusAggregateBudget(incusCall[c].size, incusCall[c].limit) THEN "launch" ELSE "idle")

Created(c, up) == [owner |-> "me", kind |-> incusCall[c].kind, up |-> up,
                   size |-> incusCall[c].size, limit |-> incusCall[c].limit, made |-> 0]

\* launchIncusVMViaAPI creates the instance, then restates the root disk; a
\* name taken meanwhile, or an error, ends the call.
launchIncusVMViaAPI(c) ==
  /\ At(c, "launch") /\ incusCall[c].kind = "vm"
  /\ \/ ~Exists(Name(c)) /\ Sets(Name(c), Created(c, FALSE)) /\ Goes(c, "resize")
     \/ UNCHANGED instances /\ Goes(c, "idle")
  /\ UNCHANGED <<settings, registered, checkpoint, budget>>

\* patchInstanceRootDisk of the new instance; its failure leaves the instance.
patchInstanceRootDisk(c) ==
  /\ At(c, "resize")
  /\ \/ Exists(Name(c))
        /\ Sets(Name(c), IF incusCall[c].size = 0 THEN instances[Name(c)]
                         ELSE [instances[Name(c)] EXCEPT !.size = incusCall[c].size])
        /\ Goes(c, "start")
     \/ UNCHANGED instances /\ Goes(c, "idle")
  /\ UNCHANGED <<settings, registered, checkpoint, budget>>

\* The state command of a new VM; vmStatusResult registers the resource.
StartsLaunched(c) ==
  /\ At(c, "start")
  /\ \/ Exists(Name(c)) /\ Sets(Name(c), [instances[Name(c)] EXCEPT !.up = TRUE])
        /\ registered' = registered \cup {Name(c)}
     \/ UNCHANGED <<instances, registered>>
  /\ Goes(c, "idle")
  /\ UNCHANGED <<settings, checkpoint, budget>>

\* launchIncusContainer launches, adds the runtime devices and autostart; a
\* failure after the launch leaves the container.
launchIncusContainer(c) ==
  /\ At(c, "launch") /\ incusCall[c].kind = "container"
  /\ \/ ~Exists(Name(c)) /\ Sets(Name(c), Created(c, TRUE)) /\ (Goes(c, "attach") \/ Goes(c, "idle"))
     \/ UNCHANGED instances /\ Goes(c, "idle")
  /\ UNCHANGED <<settings, registered, checkpoint, budget>>

\* The address pin (with the restart it asks for, which may leave the
\* container stopped), GPU, model volume and proxy; an attach that fails
\* deletes the container.
attachContainerDevices(c) ==
  /\ At(c, "attach")
  /\ \/ UNCHANGED instances /\ (Goes(c, "await") \/ Goes(c, "discard"))
     \/ Exists(Name(c)) /\ Sets(Name(c), [instances[Name(c)] EXCEPT !.up = FALSE]) /\ Goes(c, "idle")
  /\ UNCHANGED <<settings, registered, checkpoint, budget>>

DiscardsLaunched(c) ==
  /\ At(c, "discard")
  /\ Sets(Name(c), NoInstance) \/ UNCHANGED instances
  /\ Goes(c, "idle")
  /\ UNCHANGED <<settings, registered, checkpoint, budget>>

\* awaitContainerIPv4 and the pin inside the guest; containerStatusResult.
awaitContainerIPv4(c) ==
  /\ At(c, "await")
  /\ \/ Exists(Name(c)) /\ assertIncusOwnership(Name(c)) /\ instances[Name(c)].up
        /\ registered' = registered \cup {Name(c)}
     \/ UNCHANGED registered
  /\ Goes(c, "idle")
  /\ UNCHANGED <<instances, settings, checkpoint, budget>>

\* startExistingInstance: started (or already running), then autostart and,
\* for a container, devices and an address.
startExistingInstance(c) ==
  /\ At(c, "reuse")
  /\ \/ Exists(Name(c)) /\ Sets(Name(c), [instances[Name(c)] EXCEPT !.up = TRUE])
        /\ \/ incusCall[c].kind = "vm" /\ registered' = registered \cup {Name(c)} /\ Goes(c, "idle")
           \/ incusCall[c].kind = "container" /\ UNCHANGED registered /\ Goes(c, "await")
           \/ UNCHANGED registered /\ Goes(c, "idle")
     \/ UNCHANGED <<instances, registered>> /\ Goes(c, "idle")
  /\ UNCHANGED <<settings, checkpoint, budget>>

----------------------------------------------------------------------------
\* StartVM, StopVM, RestartVM, UpdateVMResources and DeleteVM assert the
\* ownership, then command; without enforcement the command finds out alone
\* whether the instance is there.
Scoped(c, op, n, z) ==
  /\ At(c, "idle") /\ Called /\ Keeps
  /\ IF assertIncusOwnership(n) THEN Enters(c, op, n, "container", z, z) ELSE UNCHANGED incusCall

StartVM(c) ==
  /\ At(c, "vm-start")
  /\ \/ Exists(Name(c)) /\ Sets(Name(c), [instances[Name(c)] EXCEPT !.up = TRUE])
     \/ UNCHANGED instances
  /\ Goes(c, "idle") /\ UNCHANGED <<settings, registered, checkpoint, budget>>

\* A restart goes on with the start, a stop is done.
StopVM(c) ==
  /\ At(c, "vm-stop") \/ At(c, "vm-restart")
  /\ \/ /\ Exists(Name(c)) /\ Sets(Name(c), [instances[Name(c)] EXCEPT !.up = FALSE])
        /\ Goes(c, IF At(c, "vm-restart") THEN "vm-start" ELSE "idle")
     \/ UNCHANGED instances /\ Goes(c, "idle")
  /\ UNCHANGED <<settings, registered, checkpoint, budget>>

\* UpdateVMResources sets CPU and memory first, each where it is asked for; the
\* disk, when it is asked for too, may be refused after that.  The second look at
\* the owner adds no outcome: a name may change hands after it as after the first.
setIncusInstanceConfig(c) ==
  /\ At(c, "vm-limits")
  /\ \/ /\ Exists(Name(c)) /\ Sets(Name(c), [instances[Name(c)] EXCEPT !.limit = incusCall[c].limit])
        /\ (Goes(c, "vm-update") \/ Goes(c, "idle"))
     \/ UNCHANGED instances /\ Goes(c, "idle")
  /\ UNCHANGED <<settings, registered, checkpoint, budget>>

refuseRootDiskShrink(want, have) == have # 0 /\ want < have

\* applyInstanceRootDiskQuota reads the root device; the pool must enforce the
\* size and the size may not shrink.  The patch is a second command.
UpdateVMResources(c) ==
  /\ At(c, "vm-update") /\ Keeps /\ UNCHANGED budget
  /\ Goes(c, IF /\ Exists(Name(c)) /\ DescribeRootDiskQuotaSupport
                /\ ~refuseRootDiskShrink(incusCall[c].size, instances[Name(c)].size)
             THEN "vm-patch" ELSE "idle")

applyInstanceRootDiskQuota(c) ==
  /\ At(c, "vm-patch")
  /\ \/ Exists(Name(c)) /\ Sets(Name(c), [instances[Name(c)] EXCEPT !.size = incusCall[c].size])
     \/ UNCHANGED instances
  /\ Goes(c, "idle") /\ UNCHANGED <<settings, registered, checkpoint, budget>>

DeleteVM(c) ==
  /\ At(c, "vm-delete")
  /\ \/ Exists(Name(c)) /\ Sets(Name(c), NoInstance) /\ Goes(c, "vm-deregister")
     \/ UNCHANGED instances /\ Goes(c, "idle")
  /\ UNCHANGED <<settings, registered, checkpoint, budget>>

Deregisters(c) ==
  /\ At(c, "vm-deregister")
  /\ registered' = registered \ {Name(c)}
  /\ Goes(c, "idle") /\ UNCHANGED <<instances, settings, checkpoint, budget>>

\* ProbeGPUContainer launches under a fresh name, without the budget, and
\* deletes on every way out.
ProbeGPUContainer(c, n) ==
  /\ At(c, "idle") /\ Called /\ ~Exists(n)
  /\ \/ Sets(n, [owner |-> "me", kind |-> "container", up |-> TRUE, size |-> Max(Sizes), limit |-> Max(Sizes),
              made |-> 0])
     \/ UNCHANGED instances
  /\ Enters(c, "discard", n, "container", 0, 0)
  /\ UNCHANGED <<settings, registered, checkpoint>>

----------------------------------------------------------------------------
\* ResetIncusStack.

Interrupted(cp) == [cp EXCEPT !.phase = "interrupted"]
\* The reset's own copy goes to the file.
Writes(c, cp, pc, left) ==
  /\ checkpoint' = cp
  /\ incusCall' = [incusCall EXCEPT ![c] = IF pc = "idle" THEN NoIncusCall
                     ELSE [@ EXCEPT !.pc = pc, !.mine = cp, !.left = left]]

resetInventory(selected) == {n \in selected : Exists(n)}

validateResetInventoryOwnership(inventory) == inventory \cap Foreign = {}

\* Ownership must be enforced.  Up to the first delete: checkpoint, inventory, ownership, relays revoked.
\* An empty inventory resumes from the checkpoint's targets, unless the last
\* reset is reconciled ("alreadyDone") or there is none.
ResetIncusStack(c, selected, dryRun) ==
  /\ At(c, "idle") /\ Called /\ OwnershipMode = "enforce"
  /\ LET found == resetInventory(selected)
         resumes == found = {} /\ checkpoint # NoCheckpoint /\ checkpoint.phase # "reconciled"
         inventory == IF resumes THEN checkpoint.targets ELSE found
         cp == IF checkpoint = NoCheckpoint
                 THEN [targets |-> inventory, deleted |-> {}, phase |-> "validated"]
               ELSE IF checkpoint.targets = {} THEN [checkpoint EXCEPT !.targets = inventory]
               ELSE checkpoint
     IN  IF (found # {} /\ validateResetInventoryOwnership(found)) \/ resumes
           THEN /\ checkpoint' = cp
                /\ IF dryRun THEN UNCHANGED incusCall
                   ELSE incusCall' = [incusCall EXCEPT ![c] = [NoIncusCall EXCEPT
                          !.pc = "reset", !.foreign = ForeignInstances, !.mine = cp,
                          !.left = inventory \ cp.deleted]]
           ELSE UNCHANGED <<checkpoint, incusCall>>
  /\ UNCHANGED <<instances, settings, registered>>

\* Before each delete: cancelled, not owned any more, or phase "deleting".
ResetPicks(c, n) ==
  /\ At(c, "reset") /\ n \in incusCall[c].left
  /\ \/ /\ assertIncusOwnership(n)
        /\ checkpoint' = [incusCall[c].mine EXCEPT !.phase = "deleting"]
        /\ incusCall' = [incusCall EXCEPT ![c].pc = "reset-delete", ![c].name = n,
                                          ![c].mine = checkpoint']
     \/ Writes(c, Interrupted(incusCall[c].mine), "idle", {})
  /\ UNCHANGED <<instances, settings, registered, budget>>

ResetDeletes(c) ==
  /\ At(c, "reset-delete")
  /\ \/ Exists(Name(c)) /\ Sets(Name(c), NoInstance) /\ Goes(c, "reset-record") /\ UNCHANGED checkpoint
     \/ UNCHANGED instances /\ Writes(c, Interrupted(incusCall[c].mine), "idle", {})
  /\ UNCHANGED <<settings, registered, budget>>

ResetRecords(c) ==
  /\ At(c, "reset-record")
  /\ Writes(c, [incusCall[c].mine EXCEPT !.deleted = @ \cup {Name(c)}], "reset",
            incusCall[c].left \ {Name(c)})
  /\ UNCHANGED <<instances, settings, registered, budget>>

ResetReconciles(c) ==
  /\ At(c, "reset") /\ incusCall[c].left = {}
  /\ \/ Writes(c, [incusCall[c].mine EXCEPT !.phase = "reconciling"], "reinstall", {})
     \/ Writes(c, Interrupted(incusCall[c].mine), "idle", {})
  /\ UNCHANGED <<instances, settings, registered, budget>>

\* ReinstallIncusStack and verifyResetIncusStack, then the last phase.
ReinstallEnds(c) ==
  /\ At(c, "reinstall")
  /\ \/ Writes(c, [incusCall[c].mine EXCEPT !.phase = "reconciled"], "idle", {})
     \/ Writes(c, Interrupted(incusCall[c].mine), "idle", {})
  /\ UNCHANGED <<instances, settings, registered, budget>>

----------------------------------------------------------------------------
\* Another agent creates an instance.
ForeignCreates(n) ==
  /\ ~Exists(n) /\ Trouble
  /\ \E k \in {"vm", "container"} :
       Sets(n, [owner |-> "other", kind |-> k, up |-> TRUE, size |-> 0, limit |-> 0, made |-> troubles'])
  /\ UNCHANGED <<settings, registered, checkpoint, incusCall>>

\* The agent stops with calls under way; the checkpoint file stays.
IncusAgentStops ==
  /\ Trouble
  /\ incusCall' = [c \in IncusCallers |-> NoIncusCall] /\ registered' = {}
  /\ UNCHANGED <<instances, settings, checkpoint>>

IncusNext ==
  \/ \E c \in IncusCallers, n \in IncusNames :
       \/ \E k \in {"vm", "container"}, named, explicit \in BOOLEAN, z \in Sizes :
            provisionVM(c, n, k, named, z, explicit)
       \/ ProvisionContainerReuse(c, n)
       \/ \E op \in {"vm-start", "vm-stop", "vm-restart", "vm-delete"} : Scoped(c, op, n, 0)
       \/ \E op \in {"vm-limits", "vm-update"}, z \in Sizes : Scoped(c, op, n, z)
       \/ ProbeGPUContainer(c, n) \/ ResetPicks(c, n)
  \/ \E c \in IncusCallers :
       \/ Admitted(c) \/ launchIncusVMViaAPI(c) \/ patchInstanceRootDisk(c) \/ StartsLaunched(c)
       \/ launchIncusContainer(c) \/ attachContainerDevices(c) \/ DiscardsLaunched(c)
       \/ awaitContainerIPv4(c) \/ startExistingInstance(c)
       \/ StartVM(c) \/ StopVM(c) \/ setIncusInstanceConfig(c) \/ UpdateVMResources(c) \/ applyInstanceRootDiskQuota(c)
       \/ DeleteVM(c) \/ Deregisters(c)
       \/ ResetDeletes(c) \/ ResetRecords(c) \/ ResetReconciles(c) \/ ReinstallEnds(c)
       \/ \E selected \in SUBSET IncusNames \ {{}}, dryRun \in BOOLEAN :
            ResetIncusStack(c, selected, dryRun)
  \/ \E n \in IncusNames : ForeignCreates(n)
  \/ IncusAgentStops

IncusSpec == IncusInit /\ BudgetInit /\ [][IncusNext]_<<incusVars, budget>>

----------------------------------------------------------------------------
\* assertIncusOwnership and the reset's "Unowned and foreign instances are
\* never deleted": a call never changes an instance that another agent owned
\* when the call began, whatever the call launches, resumes or compensates.
\* Where ownership is not enforced, the operations on an existing instance do,
\* to the one instance they were asked for; launches, compensations and resets
\* still do not.
OnNamed == {"reuse", "vm-start", "vm-stop", "vm-restart", "vm-limits", "vm-patch", "vm-delete"}
ForeignUntouched ==
  [][\A c \in IncusCallers :
       incusCall'[c] # incusCall[c] =>
         \A n \in Foreign : <<n, instances[n].made>> \in incusCall[c].foreign =>
           \/ instances'[n] = instances[n]
           \/ OwnershipMode = "audit" /\ incusCall[c].pc \in OnNamed /\ Name(c) = n]_incusVars

============================================================================
