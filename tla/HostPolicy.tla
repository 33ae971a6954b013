----------------------------- MODULE HostPolicy -----------------------------
(***************************************************************************)
(* Host operations that act on the service manager and on WSL:             *)
(* the workload slice of the host resource policy (resource_policy.go),    *)
(* what admission may conclude from it, and the compaction of a WSL disk   *)
(* (wsl_compact.go, wsl_lifecycle.go).                                     *)
(* A slice definition is one of: "absent", "loose" (a property missing or  *)
(* above the ceiling), "strict" (an operator's, within the ceiling),       *)
(* "managed" (this revision) and "old" (an earlier revision of ours).      *)
(***************************************************************************)
EXTENDS ToolCalls

CONSTANTS Distros, HomeDistro, PolicyCallers

VARIABLES
  sliceFile,   \* definition on disk
  sliceLoaded, \* definition the manager has loaded
  dropIn,      \* set-property wrote the managed values
  cgroup,      \* the slice has a cgroup
  policyCall,  \* the reconciliation of a caller
  runningDistros, \* WSL distributions that run
  attached,    \* distributions whose VHDX the WSL virtual machine holds
  compact      \* the compaction under way

policyVars == <<sliceFile, sliceLoaded, dropIn, cgroup, policyCall>>
wslVars == <<runningDistros, attached, compact>>
hostPolicyVars == <<policyVars, wslVars>>

Definitions == {"absent", "loose", "strict", "managed", "old"}
NoPolicyCall == [pc |-> "idle", updated |-> FALSE]
NoCompact == [pc |-> "idle", distro |-> HomeDistro, locked |-> FALSE, free |-> FALSE]

PolicyTypeOK ==
  /\ {sliceFile, sliceLoaded} \subseteq Definitions /\ dropIn \in BOOLEAN /\ cgroup \in BOOLEAN
  /\ policyCall \in [PolicyCallers -> [pc : {"idle", "reload", "start", "set", "verify", "done"},
                                       updated : BOOLEAN]]
  /\ runningDistros \subseteq attached /\ attached \subseteq Distros

HostPolicyInit ==
  /\ sliceFile \in Definitions \ {"managed"} /\ sliceLoaded = sliceFile /\ dropIn = FALSE
  /\ cgroup = FALSE
  /\ policyCall = [c \in PolicyCallers |-> NoPolicyCall]
  /\ runningDistros = {HomeDistro} /\ attached = {HomeDistro} /\ compact = NoCompact

----------------------------------------------------------------------------
\* An operator's unit that is within the ceiling in every property, or ours
\* of this revision, stays; a loose one and an older one of ours are rewritten.
managedResourceUnitNeedsMigration(f) == f = "old"
preservesStricterResourceUnit(f) ==
  ~managedResourceUnitNeedsMigration(f) /\ f \in {"strict", "managed"}

\* Every property of the loaded slice is a number within the ceiling.
workloadSystemdPropertiesEnforced == dropIn \/ sliceLoaded \in {"strict", "managed"}

PolicyGoes(c, pc) ==
  policyCall' = [policyCall EXCEPT ![c] = IF pc = "idle" THEN NoPolicyCall ELSE [@ EXCEPT !.pc = pc]]
PolicyFails(c) == Trouble /\ PolicyGoes(c, "idle")

\* ReconcileHostResourcePolicy, first part: the unit files.
ensureResourceSliceUnits(c) ==
  /\ policyCall[c].pc = "idle" /\ Called
  /\ LET kept == preservesStricterResourceUnit(sliceFile) IN
     /\ sliceFile' = IF kept THEN sliceFile ELSE "managed"
     /\ policyCall' = [policyCall EXCEPT ![c] = [pc |-> "reload", updated |-> ~kept]]
  /\ UNCHANGED <<sliceLoaded, dropIn, cgroup, wslVars>>

\* daemon-reload.
ReloadsPolicy(c) ==
  /\ policyCall[c].pc = "reload"
  /\ \/ sliceLoaded' = sliceFile /\ PolicyGoes(c, "start") /\ UNCHANGED budget
     \/ UNCHANGED sliceLoaded /\ PolicyFails(c)
  /\ UNCHANGED <<sliceFile, dropIn, cgroup, wslVars>>

\* The workload slice is started; an updated one has its properties set.
ReconcileHostResourcePolicy(c) ==
  /\ policyCall[c].pc = "start"
  /\ \/ cgroup' \in BOOLEAN /\ UNCHANGED budget
        /\ PolicyGoes(c, IF policyCall[c].updated THEN "set" ELSE "verify")
     \/ UNCHANGED cgroup /\ PolicyFails(c)
  /\ UNCHANGED <<sliceFile, sliceLoaded, dropIn, wslVars>>

SetsWorkloadProperties(c) ==
  /\ policyCall[c].pc = "set"
  /\ \/ dropIn' = TRUE /\ PolicyGoes(c, "verify") /\ UNCHANGED budget
     \/ UNCHANGED dropIn /\ PolicyFails(c)
  /\ UNCHANGED <<sliceFile, sliceLoaded, cgroup, wslVars>>

\* The agent's own unit is set and read back; any difference is an error.
VerifiesAgentUnit(c) ==
  /\ policyCall[c].pc = "verify"
  /\ (PolicyGoes(c, "done") /\ UNCHANGED budget) \/ PolicyFails(c)
  /\ UNCHANGED <<sliceFile, sliceLoaded, dropIn, cgroup, wslVars>>

PolicyReturns(c) ==
  /\ policyCall[c].pc = "done" /\ PolicyGoes(c, "idle")
  /\ UNCHANGED <<sliceFile, sliceLoaded, dropIn, cgroup, wslVars, budget>>

\* Mutant of materializeWorkloadSliceCgroup: nothing is run in the slice.
NothingRun == cgroup

\* A no-op member makes the manager create the cgroup of a loaded slice.
materializeWorkloadSliceCgroup == cgroup \/ sliceLoaded # "absent"

\* What admission is told; the probe may create the cgroup on the way.
ObserveHostResourceEnforcement ==
  workloadSystemdPropertiesEnforced /\ (cgroup \/ materializeWorkloadSliceCgroup)

Observes ==
  /\ workloadSystemdPropertiesEnforced /\ ~cgroup
  /\ cgroup' = materializeWorkloadSliceCgroup
  /\ UNCHANGED <<sliceFile, sliceLoaded, dropIn, policyCall, wslVars, budget>>

\* The manager collects the cgroup of an empty slice, and an operator edits
\* the definition.
SliceCollected ==
  /\ cgroup /\ cgroup' = FALSE
  /\ UNCHANGED <<sliceFile, sliceLoaded, dropIn, policyCall, wslVars, budget>>

OperatorEdits(f) ==
  /\ f # sliceFile /\ Trouble
  /\ sliceFile' = f
  /\ UNCHANGED <<sliceLoaded, dropIn, cgroup, policyCall, wslVars>>

----------------------------------------------------------------------------
\* CompactWSLDisk, called from the agent's distribution.

\* The probe prints "unlocked" or "locked", or nothing when PowerShell fails;
\* the code looks for "locked" in the output, which both words contain.
wslVHDXLocked(output) == output \in {"locked", "unlocked"}

compactPreconditions(d, locked) == d \notin runningDistros /\ ~locked

rejectLiveDistro(d) == d = HomeDistro

CompactWSLDisk(d, dryRun, output) ==
  /\ compact.pc = "idle" /\ HomeDistro \in runningDistros /\ Called
  /\ output = (IF d \in attached THEN "locked" ELSE "unlocked") \/ (output = "nothing")
  /\ LET locked == wslVHDXLocked(output) IN
     compact' = IF rejectLiveDistro(d) THEN NoCompact
                ELSE [pc |-> IF dryRun \/ ~compactPreconditions(d, locked) THEN "report" ELSE "optimize",
                      distro |-> d, locked |-> locked, free |-> d \notin attached]
  /\ UNCHANGED <<policyVars, runningDistros, attached>>

\* Optimize-VHD, which fails on a disk in use.
Optimizes ==
  /\ compact.pc = "optimize"
  /\ compact' = [compact EXCEPT !.pc = "report"]
  /\ UNCHANGED <<policyVars, runningDistros, attached, budget>>

CompactReturns ==
  /\ compact.pc = "report" /\ compact' = NoCompact
  /\ UNCHANGED <<policyVars, runningDistros, attached, budget>>

\* The disk of a terminated distribution may stay attached.
TerminateWSLDistribution(d) ==
  /\ d \in runningDistros /\ Called
  /\ runningDistros' = runningDistros \ {d} /\ attached' \in {attached, attached \ {d}}
  /\ UNCHANGED <<policyVars, compact>>

\* Every distribution stops and its disk is released, the agent's own too.
ShutdownWSL ==
  /\ attached # {} /\ Called
  /\ runningDistros' = {} /\ attached' = {}
  /\ UNCHANGED <<policyVars, compact>>

\* The agent's own distribution comes back by itself.
DistroStarts(d) ==
  /\ d \notin runningDistros /\ (Trouble \/ (d = HomeDistro /\ UNCHANGED budget))
  /\ runningDistros' = runningDistros \cup {d} /\ attached' = attached \cup {d}
  /\ UNCHANGED <<policyVars, compact>>

HostPolicyNext ==
  \/ \E c \in PolicyCallers :
       \/ ensureResourceSliceUnits(c) \/ ReloadsPolicy(c) \/ ReconcileHostResourcePolicy(c)
       \/ SetsWorkloadProperties(c) \/ VerifiesAgentUnit(c) \/ PolicyReturns(c)
  \/ Observes \/ SliceCollected
  \/ \E f \in Definitions \ {"managed", "absent"} : OperatorEdits(f)
  \/ \E d \in Distros : \/ TerminateWSLDistribution(d) \/ DistroStarts(d)
                        \/ \E dryRun \in BOOLEAN, o \in {"locked", "unlocked", "nothing"} :
                             CompactWSLDisk(d, dryRun, o)
  \/ Optimizes \/ CompactReturns \/ ShutdownWSL

HostPolicySpec == HostPolicyInit /\ BudgetInit /\ [][HostPolicyNext]_<<hostPolicyVars, budget>>

----------------------------------------------------------------------------
\* "The host can never run its first workload" must not happen: a policy
\* reconciliation that succeeded leaves a slice whose enforcement the probe can
\* establish, also after the manager collected the empty slice, and whatever
\* reconciliations overlap; an operator who loosens the unit excepted.
EnforcementProvable ==
  troubles = 0 /\ (\E c \in PolicyCallers : policyCall[c].pc = "done") =>
    ObserveHostResourceEnforcement

============================================================================
