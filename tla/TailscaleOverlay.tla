-------------------------- MODULE TailscaleOverlay --------------------------
(***************************************************************************)
(* The Tailscale provider (plugins/tunneling/tailscale): memberships of    *)
(* guests in the overlay and what is recorded for a member: mesh edges to  *)
(* peers, a private service, public ingresses.  ownershipStore is one      *)
(* process-wide set of maps behind a mutex.  The fake backend holds the    *)
(* mutex for a whole operation; the live one reads it, runs commands in    *)
(* the guest or calls the Tailscale API, and takes it again to record the  *)
(* result, so operations overlap.  Addresses, names and keys are left out, *)
(* and so is the generation, which is a constant of the process.           *)
(***************************************************************************)
EXTENDS ToolCalls, FiniteSets

CONSTANTS Targets, Memberships, Ingresses, Enrollers, NoTarget

ASSUME OverlayAssumption == NoTarget \notin Targets \cup Memberships

VARIABLES
  backend,      \* OPUTE_TAILSCALE_BACKEND
  agentReady,   \* runtimes: targets whose agent is ready
  controlPlane, \* and whose control plane is
  member,       \* memberships: target, attached, and whether its device is known
  byTarget,     \* the reference of a target
  meshEdges, services,
  ingress,      \* ingresses: the target of a reference
  devices,      \* the tailnet: targets that have a device
  enroll,       \* a live operation between two critical sections
  overtaken     \* targets forgotten while an operation on them was running
                \* (not kept by the code)

overlayVars == <<backend, agentReady, controlPlane, member, byTarget, meshEdges,
                 services, ingress, devices, enroll, overtaken>>
records == <<member, byTarget, meshEdges, services, ingress>>
runtimes == <<agentReady, controlPlane>>

Unknown == [target |-> NoTarget, attached |-> FALSE, device |-> FALSE]
NoCall == [kind |-> "none", target |-> NoTarget, peer |-> NoTarget, ref |-> NoTarget,
           found |-> Unknown]

Records == [target : Targets \cup {NoTarget}, attached : BOOLEAN, device : BOOLEAN]
OverlayCalls ==
  [kind : {"none", "enroll", "mesh", "adopt", "ping", "service", "funnel", "unfunnel", "remove", "teardown"},
   target : Targets \cup {NoTarget}, peer : Targets \cup {NoTarget},
   ref : Memberships \cup {NoTarget}, found : Records]

OverlayTypeOK ==
  /\ backend \in {"fake", "live"}
  /\ agentReady \subseteq Targets /\ controlPlane \subseteq Targets
  /\ member \in [Memberships -> Records]
  /\ byTarget \in [Targets -> Memberships \cup {NoTarget}]
  /\ meshEdges \subseteq Targets \X Targets
  /\ services \subseteq Targets /\ devices \subseteq Targets
  /\ ingress \in [Ingresses -> Targets \cup {NoTarget}]
  /\ enroll \in [Enrollers -> OverlayCalls]
  /\ overtaken \subseteq Targets

OverlayInit ==
  /\ backend \in {"fake", "live"}
  /\ agentReady = {} /\ controlPlane = {}
  /\ member = [m \in Memberships |-> Unknown]
  /\ byTarget = [t \in Targets |-> NoTarget]
  /\ meshEdges = {} /\ services = {}
  /\ devices \in SUBSET Targets   \* those of other hosts' providers
  /\ ingress = [i \in Ingresses |-> NoTarget]
  /\ enroll = [o \in Enrollers |-> NoCall]
  /\ overtaken = {}

----------------------------------------------------------------------------
\* The records.

newOpaqueRef(m) == member[m] = Unknown /\ \A o \in Enrollers : enroll[o].ref # m

\* upsertMembershipLocked: the target's membership, or a new one.
upsertMembershipLocked(t, m, attached) ==
  /\ IF byTarget[t] # NoTarget THEN m = byTarget[t] ELSE newOpaqueRef(m)
  /\ member' = [member EXCEPT ![m].target = t, ![m].attached = @ \/ attached]
  /\ byTarget' = [byTarget EXCEPT ![t] = m]
  /\ UNCHANGED <<meshEdges, services, ingress>>

requireOwnedMembershipLocked(t) == byTarget[t] # NoTarget /\ member[byTarget[t]].attached
requireMeshAgentReady(t) == t \in agentReady

\* Mutant of deleteOwnedForTargetLocked: ingresses of the target stay.
ForgetsNoIngress(T, R) ==
  /\ member' = [m \in Memberships |-> IF m \in R THEN Unknown ELSE member[m]]
  /\ byTarget' = [t \in Targets |-> IF t \in T /\ byTarget[t] \in R THEN NoTarget ELSE byTarget[t]]
  /\ meshEdges' = {e \in meshEdges : e[1] \notin T /\ e[2] \notin T}
  /\ services' = services \ T
  /\ UNCHANGED ingress

\* deleteOwnedForTargetLocked for the memberships R of the targets T.
deleteOwnedForTargetLocked(T, R) ==
  /\ member' = [m \in Memberships |-> IF m \in R THEN Unknown ELSE member[m]]
  /\ byTarget' = [t \in Targets |-> IF t \in T /\ byTarget[t] \in R THEN NoTarget ELSE byTarget[t]]
  /\ meshEdges' = {e \in meshEdges : e[1] \notin T /\ e[2] \notin T}
  /\ services' = services \ T
  /\ ingress' = [i \in Ingresses |-> IF ingress[i] \in T THEN NoTarget ELSE ingress[i]]

Forgets(o, T, R) ==
  /\ deleteOwnedForTargetLocked(T, R)
  /\ overtaken' = overtaken \cup
       {t \in T : \E q \in Enrollers \ {o} : t \in {enroll[q].target, enroll[q].peer}}

----------------------------------------------------------------------------
\* dispatchOverlayOperation: the fake backend, one operation per step.

Fake == backend = "fake" /\ Called
         /\ UNCHANGED <<backend, devices, enroll>>

fakeEnsureMeshAgent(t) ==
  /\ Fake
  /\ agentReady' = agentReady \cup {t}
  /\ UNCHANGED <<controlPlane, records, overtaken>>

fakeEnsureMeshControlPlane(t) ==
  /\ Fake /\ requireMeshAgentReady(t)
  /\ controlPlane' = controlPlane \cup {t}
  /\ UNCHANGED <<agentReady, records, overtaken>>

prepareMembership(t, m) ==
  /\ Fake /\ upsertMembershipLocked(t, m, FALSE)
  /\ UNCHANGED <<runtimes, overtaken>>

attachTarget(t, m) ==
  /\ Fake /\ member[m].target = t
  /\ member' = [member EXCEPT ![m].attached = TRUE]
  /\ byTarget' = [byTarget EXCEPT ![t] = m]
  /\ UNCHANGED <<runtimes, meshEdges, services, ingress, overtaken>>

enrollOverlay(t, m) ==
  /\ Fake /\ requireMeshAgentReady(t)
  /\ upsertMembershipLocked(t, m, TRUE)
  /\ UNCHANGED <<runtimes, overtaken>>

ensurePrivateMesh(s, p) ==
  /\ Fake /\ s # p
  /\ requireOwnedMembershipLocked(s) /\ requireOwnedMembershipLocked(p)
  /\ meshEdges' = meshEdges \cup {<<s, p>>, <<p, s>>}
  /\ UNCHANGED <<runtimes, member, byTarget, services, ingress, overtaken>>

ensurePrivateService(t) ==
  /\ Fake /\ requireOwnedMembershipLocked(t)
  /\ services' = services \cup {t}
  /\ UNCHANGED <<runtimes, member, byTarget, meshEdges, ingress, overtaken>>

ensurePublicIngress(t, i) ==
  /\ Fake /\ requireOwnedMembershipLocked(t) /\ ingress[i] = NoTarget
  /\ ingress' = [ingress EXCEPT ![i] = t]
  /\ UNCHANGED <<runtimes, member, byTarget, meshEdges, services, overtaken>>

\* promotePublicIngress, the same in both backends.
promotePublicIngress(t, i) ==
  /\ Called /\ ingress[i] # NoTarget /\ requireOwnedMembershipLocked(t)
  /\ ingress' = [ingress EXCEPT ![i] = t]
  /\ UNCHANGED <<backend, runtimes, member, byTarget, meshEdges, services, devices,
                 enroll, overtaken>>

removeHAEndpoint(i) ==
  /\ Fake /\ ingress[i] # NoTarget
  /\ ingress' = [ingress EXCEPT ![i] = NoTarget]
  /\ UNCHANGED <<runtimes, member, byTarget, meshEdges, services, overtaken>>

removeMembership(m) ==
  /\ Fake /\ member[m] # Unknown
  /\ deleteOwnedForTargetLocked({member[m].target}, {m})
  /\ UNCHANGED <<runtimes, overtaken>>

finalizeOwnedTeardown ==
  /\ Fake
  /\ deleteOwnedForTargetLocked({member[m].target : m \in Memberships}, Memberships)
  /\ UNCHANGED <<runtimes, overtaken>>

----------------------------------------------------------------------------
\* The live backend.

Live(o, kind, t, p, m) ==
  /\ backend = "live" /\ enroll[o] = NoCall /\ Called
  /\ enroll' = [enroll EXCEPT ![o] = [kind |-> kind, target |-> t, peer |-> p, ref |-> m,
                                      found |-> IF m = NoTarget THEN Unknown ELSE member[m]]]
  /\ UNCHANGED <<backend, runtimes, devices, overtaken>>
LiveIs(o, kind) == enroll[o].kind = kind /\ UNCHANGED <<backend, runtimes, budget>>
LiveTo(o, kind) == enroll' = [enroll EXCEPT ![o].kind = kind]
LiveEnds(o) == enroll' = [enroll EXCEPT ![o] = NoCall]

\* A guest command or an API call fails, or the context ends.
LiveFails(o) ==
  /\ LiveIs(o, enroll[o].kind) /\ enroll[o].kind \notin {"none", "remove", "teardown", "unfunnel"}
  /\ LiveEnds(o)
  /\ UNCHANGED <<records, devices, overtaken>>

\* liveEnsureMeshAgent, and liveMeshRuntimeStatus, which stores what it sees.
liveMeshRuntime(t, ready) ==
  /\ backend = "live" /\ Called
  /\ agentReady' = IF ready THEN agentReady \cup {t} ELSE agentReady \ {t}
  /\ UNCHANGED <<backend, controlPlane, records, devices, enroll, overtaken>>

liveEnsureMeshControlPlane(t) ==
  /\ backend = "live" /\ Called /\ requireMeshAgentReady(t)
  /\ controlPlane' = controlPlane \cup {t}
  /\ UNCHANGED <<backend, agentReady, records, devices, enroll, overtaken>>

livePrepareMembership(t, m) ==
  /\ backend = "live" /\ Called
  /\ upsertMembershipLocked(t, m, FALSE)
  /\ UNCHANGED <<backend, runtimes, devices, enroll, overtaken>>

\* liveAttachTarget with a reference of the target.
liveAttachTarget(o, t, m) ==
  /\ Live(o, "enroll", t, NoTarget, m)
  /\ member[m].target = t /\ requireMeshAgentReady(t)
  /\ UNCHANGED records

\* liveEnrollOverlay: nothing to do for a complete membership.
liveEnrollOverlay(o, t, m) ==
  /\ Live(o, "enroll", t, NoTarget, m)
  /\ ~(byTarget[t] # NoTarget /\ member[byTarget[t]].attached /\ member[byTarget[t]].device)
  /\ requireMeshAgentReady(t)
  /\ upsertMembershipLocked(t, m, FALSE)

\* tailscale up in the guest: the device is in the tailnet.
GuestEnrolled(o) ==
  /\ LiveIs(o, "enroll") /\ enroll[o].target \notin devices
  /\ devices' = devices \cup {enroll[o].target}
  /\ UNCHANGED <<records, enroll, overtaken>>

\* The API lists the device; the membership is recorded, again if it was
\* removed meanwhile.
liveEnrollGuest(o, m) ==
  LET t == enroll[o].target IN
  /\ LiveIs(o, "enroll") /\ t \in devices
  /\ IF member[enroll[o].ref] # Unknown THEN m = enroll[o].ref
     ELSE IF byTarget[t] # NoTarget THEN m = byTarget[t] ELSE newOpaqueRef(m)
  /\ m # enroll[o].ref \/ member[m].target = t
  /\ member' = [member EXCEPT ![m] = [target |-> t, attached |-> TRUE, device |-> TRUE]]
  /\ byTarget' = [byTarget EXCEPT ![t] = m]
  /\ LiveEnds(o)
  /\ UNCHANGED <<meshEdges, services, ingress, devices, overtaken>>

\* liveEnsurePrivateMesh: both ends are read; a peer that is not attached here
\* is adopted from the device list.
liveEnsurePrivateMesh(o, s, p) ==
  /\ s # p /\ byTarget[s] # NoTarget
  /\ Live(o, IF requireOwnedMembershipLocked(p) THEN "ping" ELSE "mesh", s, p, NoTarget)
  /\ member[byTarget[s]].attached
  /\ UNCHANGED records

\* liveAdoptRemotePeer: two critical sections.
AdoptUpserts(o, m) ==
  /\ LiveIs(o, "mesh") /\ enroll[o].peer \in devices
  /\ upsertMembershipLocked(enroll[o].peer, m, TRUE)
  /\ enroll' = [enroll EXCEPT ![o].kind = "adopt", ![o].ref = m]
  /\ UNCHANGED <<devices, overtaken>>
liveAdoptRemotePeer(o) ==
  LET p == enroll[o].peer IN
  /\ LiveIs(o, "adopt")
  /\ member' = [member EXCEPT ![enroll[o].ref] = [target |-> p, attached |-> TRUE, device |-> TRUE]]
  /\ byTarget' = [byTarget EXCEPT ![p] = enroll[o].ref]
  /\ LiveTo(o, "ping")
  /\ UNCHANGED <<meshEdges, services, ingress, devices, overtaken>>

\* Both pings answered: the edges are recorded.
MeshRecorded(o) ==
  /\ LiveIs(o, "ping") /\ {enroll[o].target, enroll[o].peer} \subseteq devices
  /\ meshEdges' = meshEdges \cup {<<enroll[o].target, enroll[o].peer>>, <<enroll[o].peer, enroll[o].target>>}
  /\ LiveEnds(o)
  /\ UNCHANGED <<member, byTarget, services, ingress, devices, overtaken>>

liveEnsurePrivateService(o, t) ==
  /\ requireOwnedMembershipLocked(t) /\ Live(o, "service", t, NoTarget, NoTarget)
  /\ UNCHANGED records
ServiceRecorded(o) ==
  /\ LiveIs(o, "service")
  /\ services' = services \cup {enroll[o].target}
  /\ LiveEnds(o)
  /\ UNCHANGED <<member, byTarget, meshEdges, ingress, devices, overtaken>>

\* liveEnsurePublicIngress; with operatorMode no command is run in between.
liveEnsurePublicIngress(o, t) ==
  /\ requireOwnedMembershipLocked(t) /\ Live(o, "funnel", t, NoTarget, NoTarget)
  /\ UNCHANGED records
IngressRecorded(o, i) ==
  /\ LiveIs(o, "funnel") /\ ingress[i] = NoTarget
  /\ ingress' = [ingress EXCEPT ![i] = enroll[o].target]
  /\ LiveEnds(o)
  /\ UNCHANGED <<member, byTarget, meshEdges, services, devices, overtaken>>

\* The record goes first, then the funnel of the guest is reset.
liveRemoveHAEndpoint(o, i) ==
  /\ ingress[i] # NoTarget /\ Live(o, "unfunnel", ingress[i], NoTarget, NoTarget)
  /\ ingress' = [ingress EXCEPT ![i] = NoTarget]
  /\ UNCHANGED <<member, byTarget, meshEdges, services>>
FunnelReset(o) ==
  /\ LiveIs(o, "unfunnel") /\ LiveEnds(o)
  /\ UNCHANGED <<records, devices, overtaken>>

\* liveRemoveMembership: logout and DeleteDevice, whose failures are ignored,
\* then the records.
liveRemoveMembership(o, m) ==
  /\ member[m] # Unknown /\ Live(o, "remove", member[m].target, NoTarget, m)
  /\ UNCHANGED records
MembershipRemoved(o) ==
  LET t == enroll[o].target IN
  /\ LiveIs(o, "remove")
  /\ devices' = devices \ {t} \/ UNCHANGED devices
  /\ Forgets(o, {t}, {enroll[o].ref})
  /\ LiveEnds(o)

\* liveFinalizeOwnedTeardown: the devices of the members at its start, then
\* every record.
liveFinalizeOwnedTeardown(o) ==
  /\ Live(o, "teardown", NoTarget, NoTarget, NoTarget)
  /\ UNCHANGED records
TornDown(o) ==
  LET T == {member[m].target : m \in Memberships} \ {NoTarget} IN
  /\ LiveIs(o, "teardown")
  /\ \E D \in SUBSET T : devices' = devices \ D
  /\ Forgets(o, T, Memberships)
  /\ LiveEnds(o)

OverlayNext ==
  \/ finalizeOwnedTeardown
  \/ \E t \in Targets :
       \/ fakeEnsureMeshAgent(t) \/ fakeEnsureMeshControlPlane(t) \/ ensurePrivateService(t)
       \/ liveEnsureMeshControlPlane(t) \/ \E ready \in BOOLEAN : liveMeshRuntime(t, ready)
       \/ \E p \in Targets : ensurePrivateMesh(t, p)
       \/ \E i \in Ingresses : ensurePublicIngress(t, i) \/ promotePublicIngress(t, i)
       \/ \E m \in Memberships :
            \/ prepareMembership(t, m) \/ attachTarget(t, m) \/ enrollOverlay(t, m)
            \/ livePrepareMembership(t, m)
  \/ \E m \in Memberships : removeMembership(m)
  \/ \E i \in Ingresses : removeHAEndpoint(i)
  \/ \E o \in Enrollers :
       \/ LiveFails(o) \/ GuestEnrolled(o) \/ liveAdoptRemotePeer(o) \/ MeshRecorded(o)
       \/ ServiceRecorded(o) \/ FunnelReset(o) \/ MembershipRemoved(o)
       \/ liveFinalizeOwnedTeardown(o) \/ TornDown(o)
       \/ \E t \in Targets, m \in Memberships : liveAttachTarget(o, t, m) \/ liveEnrollOverlay(o, t, m)
       \/ \E t \in Targets : liveEnsurePrivateService(o, t) \/ liveEnsurePublicIngress(o, t)
       \/ \E s, p \in Targets : liveEnsurePrivateMesh(o, s, p)
       \/ \E m \in Memberships : \/ liveEnrollGuest(o, m) \/ AdoptUpserts(o, m)
                                 \/ liveRemoveMembership(o, m)
       \/ \E i \in Ingresses : IngressRecorded(o, i) \/ liveRemoveHAEndpoint(o, i)

OverlaySpec == OverlayInit /\ [][OverlayNext]_overlayVars

----------------------------------------------------------------------------
\* The reference of a target is a membership of that target, however
\* enrolment, adoption, removal and teardown overlap.
IndexSound ==
  \A t \in Targets : byTarget[t] # NoTarget => member[byTarget[t]].target = t

\* What is recorded for a target belongs to a member, and so goes with it: no
\* edge, service or ingress of a target that is not enrolled, unless the
\* target was forgotten under a running operation.
OwnedByMember ==
  \A t \in Targets \ overtaken :
    byTarget[t] = NoTarget =>
      /\ t \notin services
      /\ \A i \in Ingresses : ingress[i] # t
      /\ \A e \in meshEdges : t \notin {e[1], e[2]}

\* The provider's tables agree: index, memberships and what they own.
OverlayConsistent == IndexSound /\ OwnedByMember
============================================================================
