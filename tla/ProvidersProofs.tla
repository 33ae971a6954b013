--------------------------- MODULE ProvidersProofs ---------------------------
(***************************************************************************)
(* The Tailscale, K3s and Cloudflare providers, for any targets, guests,   *)
(* hosts, tunnels and hostnames and any number of overlapping calls.       *)
(*                                                                         *)
(* A call of a provider is a sequence of requests with no lock across      *)
(* them, so each proof says what a call that is in progress may rely on:   *)
(* what it has read, and what no other call can have changed since.        *)
(***************************************************************************)
EXTENDS K3sMembership, TailscaleOverlay, CloudflareTunnels, FiniteSetTheorems, TLAPS

----------------------------------------------------------------------------
\* Tailscale.  The target whose membership an operation holds a reference of.
Holder(o) == IF enroll[o].kind \in {"adopt", "ping"} THEN enroll[o].peer ELSE enroll[o].target

\* Every operation that holds reference m holds it for target t.
HeldFor(m, t) == \A o \in Enrollers : enroll[o].ref = m => Holder(o) = t

\* An enrolled target, or one that was forgotten under an operation.
InPlace(t) == t \in Targets /\ (t \in overtaken \/ byTarget[t] # NoTarget)

CallPlace(o) ==
  /\ enroll[o].kind \in {"enroll", "adopt", "remove"} => enroll[o].ref \in Memberships
  /\ enroll[o].kind \in {"enroll", "remove"} => enroll[o].target \in Targets
  /\ enroll[o].kind \in {"service", "funnel", "mesh", "adopt", "ping"} => InPlace(enroll[o].target)
  /\ enroll[o].kind \in {"adopt", "ping"} => InPlace(enroll[o].peer)
  /\ enroll[o].ref # NoTarget => member[enroll[o].ref].target \in {NoTarget, Holder(o)}
  /\ backend = "fake" => enroll[o] = NoCall

\* Nothing is recorded of nobody, and a reference has one target for all that hold it.
Indexed == IndexSound /\ \A m \in Memberships : member[m].target = NoTarget => member[m] = Unknown
RefsAgree ==
  \A o, q \in Enrollers : enroll[o].ref = enroll[q].ref /\ enroll[o].ref # NoTarget => Holder(o) = Holder(q)

OverlayInv == OverlayTypeOK /\ Indexed /\ OwnedByMember /\ RefsAgree /\ \A o \in Enrollers : CallPlace(o)

\* A membership that is the target's, or nobody's, becomes the target's.
LEMMA TargetTakes ==
  ASSUME OverlayInv, NEW t \in Targets, NEW m \in Memberships,
         member[m].target \in {NoTarget, t},
         \A o \in Enrollers : enroll[o].ref = m => Holder(o) = t,
         member' \in [Memberships -> Records], member'[m].target = t,
         \A n \in Memberships : n # m => member'[n] = member[n],
         byTarget' = [byTarget EXCEPT ![t] = m],
         UNCHANGED <<backend, meshEdges, services, ingress, overtaken>>
  PROVE  /\ byTarget' \in [Targets -> Memberships \cup {NoTarget}]
         /\ Indexed' /\ OwnedByMember' /\ byTarget'[t] # NoTarget
         /\ \A o \in Enrollers : enroll'[o] = enroll[o] => CallPlace(o)'
<1> USE DEF OverlayInv
<1>1. byTarget' \in [Targets -> Memberships \cup {NoTarget}]
  BY DEF OverlayTypeOK
<1>2. /\ \A u \in Targets : u # t => byTarget'[u] = byTarget[u]
      /\ byTarget'[t] = m /\ m # NoTarget /\ t # NoTarget
      /\ \A n \in Memberships : n # m => member'[n] = member[n]
      /\ member'[m].target = t
  BY OverlayAssumption DEF OverlayTypeOK
<1>3. ASSUME NEW u \in Targets, byTarget'[u] # NoTarget
      PROVE  member'[byTarget'[u]].target = u
  <2>1. CASE u = t
    BY <1>2, <2>1
  <2>2. CASE u # t
    <3>1. byTarget[u] # NoTarget /\ byTarget[u] \in Memberships /\ member[byTarget[u]].target = u
      BY <1>2, <1>3, <2>2 DEF Indexed, IndexSound, OverlayTypeOK
    <3>2. byTarget[u] # m
      BY <2>2, <3>1, OverlayAssumption
    <3> QED
      BY <1>2, <2>2, <3>1, <3>2
  <2> QED
    BY <2>1, <2>2
<1>4. OwnedByMember'
  BY <1>2 DEF OwnedByMember
<1>5. ASSUME NEW o \in Enrollers, enroll'[o] = enroll[o]
      PROVE  CallPlace(o)'
  <2>1. CallPlace(o) /\ Holder(o)' = Holder(o)
    BY <1>5 DEF Holder
  <2>2. \A u : InPlace(u) => InPlace(u)'
    BY <1>2 DEF InPlace
  <2>3. enroll[o].ref # NoTarget => member'[enroll[o].ref].target \in {NoTarget, Holder(o)}
    BY <1>2, <2>1 DEF CallPlace, OverlayTypeOK, OverlayCalls
  <2> QED
    BY <1>5, <2>1, <2>2, <2>3 DEF CallPlace
<1> QED
  BY <1>1, <1>2, <1>3, <1>4, <1>5 DEF Indexed, IndexSound

\* So it does in upsertMembershipLocked.
LEMMA UpsertTakes ==
  ASSUME OverlayInv, NEW t \in Targets, NEW m \in Memberships, NEW attached \in BOOLEAN,
         upsertMembershipLocked(t, m, attached), UNCHANGED <<backend, overtaken>>
  PROVE  /\ member' \in [Memberships -> Records] /\ byTarget' \in [Targets -> Memberships \cup {NoTarget}]
         /\ UNCHANGED <<meshEdges, services, ingress>>
         /\ Indexed' /\ OwnedByMember' /\ byTarget'[t] # NoTarget /\ member'[m].target = t
         /\ \A o \in Enrollers : enroll'[o] = enroll[o] => CallPlace(o)'
         /\ HeldFor(m, t)
<1>1. member[m] \in Records /\ member \in [Memberships -> Records]
  BY DEF OverlayInv, OverlayTypeOK
<1>2. /\ member' \in [Memberships -> Records] /\ member'[m].target = t
      /\ \A n \in Memberships : n # m => member'[n] = member[n]
  BY <1>1 DEF upsertMembershipLocked, Records
<1>3. byTarget' = [byTarget EXCEPT ![t] = m] /\ UNCHANGED <<meshEdges, services, ingress>>
  BY DEF upsertMembershipLocked
<1>4. \/ byTarget[t] = m /\ m # NoTarget
      \/ member[m] = Unknown /\ \A o \in Enrollers : enroll[o].ref # m
  BY OverlayAssumption DEF upsertMembershipLocked, newOpaqueRef
<1>5. member[m].target \in {NoTarget, t}
  BY <1>4 DEF Unknown, OverlayInv, Indexed, IndexSound
<1>6. ASSUME NEW o \in Enrollers, enroll[o].ref = m
      PROVE  Holder(o) = t
  BY <1>4, <1>6, OverlayAssumption DEF OverlayInv, Indexed, IndexSound, CallPlace
<1>7. UNCHANGED <<backend, meshEdges, services, ingress, overtaken>>
  BY <1>3
<1>8. /\ byTarget' \in [Targets -> Memberships \cup {NoTarget}]
      /\ Indexed' /\ OwnedByMember' /\ byTarget'[t] # NoTarget
      /\ \A o \in Enrollers : enroll'[o] = enroll[o] => CallPlace(o)'
  BY <1>2, <1>3, <1>5, <1>6, <1>7, TargetTakes
<1> QED
  BY <1>2, <1>3, <1>6, <1>8 DEF HeldFor

\* Only one operation changes, and agrees with the others on its reference.
LEMMA RefsStay ==
  ASSUME OverlayInv, NEW o \in Enrollers, \A q \in Enrollers : q # o => enroll'[q] = enroll[q],
         enroll'[o].ref # NoTarget =>
           \A q \in Enrollers : enroll[q].ref = enroll'[o].ref => q = o \/ Holder(q) = Holder(o)'
  PROVE  RefsAgree'
<1>1. \A q \in Enrollers : q # o => Holder(q)' = Holder(q)
  BY DEF Holder
<1> QED
  BY <1>1 DEF OverlayInv, RefsAgree

\* A deletion that covers every target whose membership it drops leaves the
\* index sound and nothing behind.
LEMMA ForgetLeaves ==
  ASSUME OverlayInv, NEW T, NEW R, deleteOwnedForTargetLocked(T, R),
         \A u \in Targets : byTarget[u] \in R => u \in T \/ byTarget[u] = NoTarget,
         overtaken \subseteq overtaken'
  PROVE  /\ member' \in [Memberships -> Records] /\ byTarget' \in [Targets -> Memberships \cup {NoTarget}]
         /\ meshEdges' \subseteq Targets \X Targets /\ services' \subseteq Targets
         /\ ingress' \in [Ingresses -> Targets \cup {NoTarget}]
         /\ Indexed' /\ OwnedByMember'
         /\ \A u \in Targets \ T : byTarget'[u] = byTarget[u]
         /\ \A m \in Memberships : member'[m] \in {member[m], Unknown}
<1> USE DEF OverlayInv, deleteOwnedForTargetLocked
<1>1. /\ \A m \in Memberships : member'[m] = IF m \in R THEN Unknown ELSE member[m]
      /\ \A u \in Targets : byTarget'[u] = IF u \in T /\ byTarget[u] \in R THEN NoTarget ELSE byTarget[u]
      /\ \A i \in Ingresses : ingress'[i] = IF ingress[i] \in T THEN NoTarget ELSE ingress[i]
  OBVIOUS
<1>2. member' \in [Memberships -> Records]
  BY DEF OverlayTypeOK, Records, Unknown
<1>3. /\ byTarget' \in [Targets -> Memberships \cup {NoTarget}]
      /\ meshEdges' \subseteq Targets \X Targets /\ services' \subseteq Targets
      /\ ingress' \in [Ingresses -> Targets \cup {NoTarget}]
  BY DEF OverlayTypeOK
<1>4. Indexed'
  <2>1. ASSUME NEW u \in Targets, byTarget'[u] # NoTarget
        PROVE  member'[byTarget'[u]].target = u
    <3>1. byTarget'[u] = byTarget[u] /\ byTarget[u] \notin R /\ byTarget[u] \in Memberships
      BY <1>1, <2>1 DEF OverlayTypeOK
    <3> QED
      BY <1>1, <2>1, <3>1 DEF Indexed, IndexSound
  <2> QED
    BY <2>1 DEF Indexed, IndexSound
<1>5. OwnedByMember'
  <2>1. ASSUME NEW u \in Targets \ overtaken', byTarget'[u] = NoTarget
        PROVE  /\ u \notin services'
               /\ \A i \in Ingresses : ingress'[i] # u
               /\ \A e \in meshEdges' : u \notin {e[1], e[2]}
    <3>1. u # NoTarget /\ u \in Targets \ overtaken
      BY OverlayAssumption
    <3>2. CASE u \in T
      BY <1>1, <3>1, <3>2
    <3>3. CASE u \notin T
      <4>1. byTarget[u] = NoTarget
        BY <1>1, <2>1, <3>3
      <4>2. /\ u \notin services
            /\ \A i \in Ingresses : ingress[i] # u
            /\ \A e \in meshEdges : u \notin {e[1], e[2]}
        BY <3>1, <4>1 DEF OwnedByMember
      <4> QED
        BY <1>1, <3>1, <4>2
    <3> QED
      BY <3>2, <3>3
  <2> QED
    BY <2>1 DEF OwnedByMember
<1> QED
  BY <1>1, <1>2, <1>3, <1>4, <1>5

\* What a live removal forgets under other operations it marks.
LEMMA ForgetsMarks ==
  ASSUME OverlayInv, NEW o \in Enrollers, NEW T \in SUBSET Targets, NEW R, Forgets(o, T, R),
         \A u \in Targets : byTarget[u] \in R => u \in T \/ byTarget[u] = NoTarget,
         UNCHANGED <<backend, runtimes>>, devices' \subseteq devices, backend = "live",
         LiveEnds(o)
  PROVE  OverlayInv'
<1> USE DEF OverlayInv
<1>1. /\ deleteOwnedForTargetLocked(T, R) /\ overtaken \subseteq overtaken'
      /\ overtaken' \subseteq Targets
      /\ \A t \in T : \A q \in Enrollers \ {o} : t \in {enroll[q].target, enroll[q].peer} => t \in overtaken'
  BY DEF Forgets, OverlayTypeOK
<1>2. /\ enroll' \in [Enrollers -> OverlayCalls] /\ enroll'[o] = NoCall
      /\ \A q \in Enrollers : q # o => enroll'[q] = enroll[q]
  BY DEF LiveEnds, OverlayTypeOK, OverlayCalls, NoCall, Unknown, Records
<1>3. /\ member' \in [Memberships -> Records] /\ byTarget' \in [Targets -> Memberships \cup {NoTarget}]
      /\ meshEdges' \subseteq Targets \X Targets /\ services' \subseteq Targets
      /\ ingress' \in [Ingresses -> Targets \cup {NoTarget}]
      /\ Indexed' /\ OwnedByMember'
      /\ \A u \in Targets \ T : byTarget'[u] = byTarget[u]
      /\ \A m \in Memberships : member'[m] \in {member[m], Unknown}
  BY <1>1, ForgetLeaves
<1>4. OverlayTypeOK'
  BY <1>1, <1>2, <1>3 DEF OverlayTypeOK, runtimes
<1>6. RefsAgree'
  BY <1>2, RefsStay DEF NoCall
<1>5. ASSUME NEW q \in Enrollers
      PROVE  CallPlace(q)'
  <2>1. CASE q = o
    BY <1>2, <2>1 DEF CallPlace, NoCall
  <2>2. CASE q # o
    <3>1. CallPlace(q) /\ enroll'[q] = enroll[q] /\ Holder(q)' = Holder(q) /\ enroll[q] \in OverlayCalls
      BY <1>2, <2>2 DEF Holder, OverlayTypeOK
    <3>2. \A u \in {enroll[q].target, enroll[q].peer} : InPlace(u) => InPlace(u)'
      BY <1>1, <1>3, <2>2 DEF InPlace
    <3>3. enroll[q].ref # NoTarget => member'[enroll[q].ref].target \in {NoTarget, Holder(q)}
      BY <1>3, <3>1 DEF CallPlace, OverlayCalls, Unknown
    <3> QED
      BY <3>1, <3>2, <3>3 DEF CallPlace
  <2> QED
    BY <2>1, <2>2
<1> QED
  BY <1>3, <1>4, <1>5, <1>6

\* A live operation begins or goes on while the records stay.
LEMMA CallMoves ==
  ASSUME OverlayInv, NEW o \in Enrollers, enroll' \in [Enrollers -> OverlayCalls],
         \A q \in Enrollers : q # o => enroll'[q] = enroll[q],
         CallPlace(o)', devices' \subseteq Targets,
         enroll'[o].ref # NoTarget =>
           \A q \in Enrollers : enroll[q].ref = enroll'[o].ref => q = o \/ Holder(q) = Holder(o)',
         UNCHANGED <<backend, runtimes, records, overtaken>>
  PROVE  OverlayInv'
<1> USE DEF OverlayInv, records, runtimes
<1>1. OverlayTypeOK' /\ Indexed' /\ OwnedByMember'
  BY DEF OverlayTypeOK, Indexed, IndexSound, OwnedByMember
<1>2. \A q \in Enrollers : q # o => CallPlace(q)'
  BY DEF CallPlace, InPlace, Holder
<1>3. RefsAgree'
  BY RefsStay
<1> QED
  BY <1>1, <1>2, <1>3

\* What Live does to the table of operations.
LEMMA LiveStarts ==
  ASSUME OverlayInv, NEW o \in Enrollers,
         NEW kind \in {"enroll", "mesh", "ping", "service", "funnel", "unfunnel", "remove", "teardown"},
         NEW t \in Targets \cup {NoTarget}, NEW p \in Targets \cup {NoTarget},
         NEW m \in Memberships \cup {NoTarget}, Live(o, kind, t, p, m)
  PROVE  /\ enroll' \in [Enrollers -> OverlayCalls] /\ backend = "live"
         /\ enroll'[o].kind = kind /\ enroll'[o].target = t /\ enroll'[o].peer = p /\ enroll'[o].ref = m
         /\ \A q \in Enrollers : q # o => enroll'[q] = enroll[q]
         /\ UNCHANGED <<backend, runtimes, devices, overtaken>>
<1> DEFINE r == [kind |-> kind, target |-> t, peer |-> p, ref |-> m,
                 found |-> IF m = NoTarget THEN Unknown ELSE member[m]]
<1>1. r \in OverlayCalls
  BY OverlayAssumption DEF OverlayCalls, OverlayInv, OverlayTypeOK, Unknown, Records
<1>2. r.kind = kind /\ r.target = t /\ r.peer = p /\ r.ref = m
  OBVIOUS
<1>3. enroll' = [enroll EXCEPT ![o] = r] /\ backend = "live" /\ UNCHANGED <<backend, runtimes, devices, overtaken>>
  BY DEF Live
<1> HIDE DEF r
<1> QED
  BY <1>1, <1>2, <1>3 DEF OverlayInv, OverlayTypeOK

\* An operation of one critical section, or the first of a live one.
LEMMA LiveStartKeepsInv ==
  ASSUME OverlayInv, NEW o \in Enrollers,
         NEW kind \in {"enroll", "mesh", "ping", "service", "funnel", "unfunnel", "remove", "teardown"},
         NEW t \in Targets \cup {NoTarget}, NEW p \in Targets \cup {NoTarget},
         NEW m \in Memberships \cup {NoTarget}, Live(o, kind, t, p, m), UNCHANGED records,
         kind \in {"enroll", "remove"} => m # NoTarget /\ member[m].target = t /\ t \in Targets,
         kind \in {"service", "funnel", "mesh", "ping"} => InPlace(t) /\ m = NoTarget,
         kind = "ping" => InPlace(p),
         kind \in {"unfunnel", "teardown"} => m = NoTarget
  PROVE  OverlayInv'
<1> USE DEF records
<1>1. /\ enroll' \in [Enrollers -> OverlayCalls] /\ backend = "live"
      /\ enroll'[o].kind = kind /\ enroll'[o].target = t /\ enroll'[o].peer = p /\ enroll'[o].ref = m
      /\ \A q \in Enrollers : q # o => enroll'[q] = enroll[q]
      /\ UNCHANGED <<backend, runtimes, devices, overtaken>>
  BY LiveStarts
<1>2. kind \in {"enroll", "remove"} => Holder(o)' = t
  BY <1>1 DEF Holder
<1>3. CallPlace(o)'
  BY <1>1, <1>2 DEF CallPlace, InPlace
<1>4. ASSUME enroll'[o].ref # NoTarget, NEW q \in Enrollers, enroll[q].ref = enroll'[o].ref
      PROVE  Holder(q) = Holder(o)'
  BY <1>1, <1>2, <1>4, OverlayAssumption DEF OverlayInv, CallPlace
<1> QED
  BY <1>1, <1>3, <1>4, CallMoves DEF OverlayInv, OverlayTypeOK

\* An operation ends.
LEMMA EndsOf ==
  ASSUME OverlayInv, NEW o \in Enrollers, LiveEnds(o)
  PROVE  /\ enroll' \in [Enrollers -> OverlayCalls] /\ enroll'[o].ref = NoTarget
         /\ \A q \in Enrollers : q # o => enroll'[q] = enroll[q]
         /\ CallPlace(o)' /\ RefsAgree'
<1>1. NoCall \in OverlayCalls
  BY DEF OverlayCalls, NoCall, Unknown, Records
<1>2. /\ enroll' \in [Enrollers -> OverlayCalls] /\ enroll'[o] = NoCall
      /\ \A q \in Enrollers : q # o => enroll'[q] = enroll[q]
  BY <1>1 DEF LiveEnds, OverlayInv, OverlayTypeOK
<1>3. CallPlace(o)' /\ enroll'[o].ref = NoTarget
  BY <1>2 DEF CallPlace, NoCall
<1> QED
  BY <1>2, <1>3, RefsStay

\* Targets that are in place may own more; anything may be dropped.
LEMMA OwnsMore ==
  ASSUME OverlayInv, NEW S \in SUBSET Targets, \A u \in S : InPlace(u),
         services' \subseteq services \cup S, meshEdges' \subseteq meshEdges \cup (S \X S),
         ingress' \in [Ingresses -> Targets \cup {NoTarget}],
         \A i \in Ingresses : ingress'[i] \in {ingress[i], NoTarget} \cup S,
         UNCHANGED <<member, byTarget, overtaken>>
  PROVE  /\ meshEdges' \subseteq Targets \X Targets /\ services' \subseteq Targets
         /\ Indexed' /\ OwnedByMember'
<1> USE DEF OverlayInv
<1>1. meshEdges' \subseteq Targets \X Targets /\ services' \subseteq Targets
  BY DEF OverlayTypeOK
<1>2. Indexed'
  BY DEF Indexed, IndexSound
<1>3. ASSUME NEW u \in Targets \ overtaken, byTarget[u] = NoTarget
      PROVE  /\ u \notin services'
             /\ \A i \in Ingresses : ingress'[i] # u
             /\ \A e \in meshEdges' : u \notin {e[1], e[2]}
  <2>1. u \notin S /\ u # NoTarget
    BY <1>3, OverlayAssumption DEF InPlace
  <2>2. /\ u \notin services
        /\ \A i \in Ingresses : ingress[i] # u
        /\ \A e \in meshEdges : u \notin {e[1], e[2]}
    BY <1>3 DEF OwnedByMember
  <2> QED
    BY <2>1, <2>2
<1> QED
  BY <1>1, <1>2, <1>3 DEF OwnedByMember

\* The records grow in one step, and the operation it belongs to ends.
LEMMA OwnsKeepsInv ==
  ASSUME OverlayInv, NEW S \in SUBSET Targets, \A u \in S : InPlace(u),
         services' \subseteq services \cup S, meshEdges' \subseteq meshEdges \cup (S \X S),
         ingress' \in [Ingresses -> Targets \cup {NoTarget}],
         \A i \in Ingresses : ingress'[i] \in {ingress[i], NoTarget} \cup S,
         UNCHANGED <<backend, runtimes, member, byTarget, devices, overtaken>>,
         \/ UNCHANGED enroll
         \/ \E o \in Enrollers : LiveEnds(o)
  PROVE  OverlayInv'
<1> USE DEF OverlayInv, runtimes
<1>1. /\ meshEdges' \subseteq Targets \X Targets /\ services' \subseteq Targets
      /\ Indexed' /\ OwnedByMember'
  BY OwnsMore
<1>2. /\ enroll' \in [Enrollers -> OverlayCalls] /\ RefsAgree'
      /\ \A q \in Enrollers : enroll'[q] = enroll[q] \/ CallPlace(q)'
  <2>1. CASE UNCHANGED enroll
    BY <2>1 DEF OverlayTypeOK, RefsAgree, Holder
  <2>2. CASE \E o \in Enrollers : LiveEnds(o)
    BY <2>2, EndsOf
  <2> QED
    BY <2>1, <2>2
<1>3. OverlayTypeOK'
  BY <1>1, <1>2 DEF OverlayTypeOK
<1>4. ASSUME NEW q \in Enrollers, enroll'[q] = enroll[q]
      PROVE  CallPlace(q)'
  BY <1>4 DEF CallPlace, InPlace, Holder
<1> QED
  BY <1>1, <1>2, <1>3, <1>4

\* A target takes a membership, and the operation that recorded it goes on.
LEMMA TakesKeepsInv ==
  ASSUME OverlayInv, member' \in [Memberships -> Records],
         byTarget' \in [Targets -> Memberships \cup {NoTarget}],
         UNCHANGED <<backend, runtimes, meshEdges, services, ingress, devices, overtaken>>,
         Indexed', OwnedByMember', RefsAgree', enroll' \in [Enrollers -> OverlayCalls],
         \A q \in Enrollers : enroll'[q] = enroll[q] => CallPlace(q)',
         \A q \in Enrollers : enroll'[q] = enroll[q] \/ CallPlace(q)'
  PROVE  OverlayInv'
<1>1. OverlayTypeOK'
  BY DEF OverlayInv, OverlayTypeOK, runtimes
<1> QED
  BY <1>1 DEF OverlayInv

----------------------------------------------------------------------------
\* The fake backend.
LEMMA FakeKeepsInv ==
  ASSUME OverlayInv,
         \/ finalizeOwnedTeardown \/ \E m \in Memberships : removeMembership(m)
         \/ \E i \in Ingresses : removeHAEndpoint(i)
         \/ \E t \in Targets :
              \/ fakeEnsureMeshAgent(t) \/ fakeEnsureMeshControlPlane(t) \/ ensurePrivateService(t)
              \/ \E p \in Targets : ensurePrivateMesh(t, p)
              \/ \E i \in Ingresses : ensurePublicIngress(t, i) \/ promotePublicIngress(t, i)
              \/ \E m \in Memberships : prepareMembership(t, m) \/ attachTarget(t, m) \/ enrollOverlay(t, m)
  PROVE  OverlayInv'
<1> USE DEF OverlayInv
<1>1. ASSUME NEW t \in Targets, fakeEnsureMeshAgent(t) \/ fakeEnsureMeshControlPlane(t)
      PROVE  OverlayInv'
  <2>1. /\ agentReady' \subseteq Targets /\ controlPlane' \subseteq Targets
        /\ UNCHANGED <<backend, member, byTarget, meshEdges, services, ingress, devices, enroll, overtaken>>
    BY <1>1 DEF fakeEnsureMeshAgent, fakeEnsureMeshControlPlane, Fake, records, OverlayTypeOK
  <2> QED
    BY <2>1 DEF OverlayTypeOK, Indexed, IndexSound, OwnedByMember, CallPlace, InPlace, Holder, RefsAgree
<1>2. ASSUME NEW t \in Targets, NEW m \in Memberships, prepareMembership(t, m) \/ enrollOverlay(t, m)
      PROVE  OverlayInv'
  <2>1. PICK attached \in BOOLEAN : upsertMembershipLocked(t, m, attached)
    BY <1>2 DEF prepareMembership, enrollOverlay
  <2>2. UNCHANGED <<backend, runtimes, devices, enroll, overtaken>>
    BY <1>2 DEF prepareMembership, enrollOverlay, Fake
  <2>3. /\ member' \in [Memberships -> Records] /\ byTarget' \in [Targets -> Memberships \cup {NoTarget}]
        /\ UNCHANGED <<meshEdges, services, ingress>>
        /\ Indexed' /\ OwnedByMember'
        /\ \A q \in Enrollers : enroll'[q] = enroll[q] => CallPlace(q)'
    BY <2>1, <2>2, UpsertTakes
  <2>4. enroll' \in [Enrollers -> OverlayCalls] /\ RefsAgree' /\ \A q \in Enrollers : enroll'[q] = enroll[q]
    BY <2>2 DEF OverlayTypeOK, RefsAgree, Holder
  <2> QED
    BY <2>2, <2>3, <2>4, TakesKeepsInv
<1>3. ASSUME NEW t \in Targets, NEW m \in Memberships, attachTarget(t, m)
      PROVE  OverlayInv'
  <2>1. /\ backend = "fake" /\ UNCHANGED <<backend, runtimes, devices, enroll, overtaken>>
        /\ member[m].target = t /\ byTarget' = [byTarget EXCEPT ![t] = m]
        /\ UNCHANGED <<meshEdges, services, ingress>>
    BY <1>3 DEF attachTarget, Fake
  <2>0. member[m] \in Records /\ member \in [Memberships -> Records]
    BY DEF OverlayTypeOK
  <2>2. /\ member' \in [Memberships -> Records] /\ member'[m].target = t
        /\ \A n \in Memberships : n # m => member'[n] = member[n]
    BY <1>3, <2>0, <2>1 DEF attachTarget, Records
  <2>3. \A o \in Enrollers : enroll[o].ref # m
    BY <2>1, OverlayAssumption DEF CallPlace, NoCall
  <2>4. /\ byTarget' \in [Targets -> Memberships \cup {NoTarget}] /\ Indexed' /\ OwnedByMember'
        /\ \A q \in Enrollers : enroll'[q] = enroll[q] => CallPlace(q)'
    <3>1. member[m].target \in {NoTarget, t} /\ UNCHANGED <<backend, meshEdges, services, ingress, overtaken>>
      BY <2>1
    <3>2. \A o \in Enrollers : enroll[o].ref = m => Holder(o) = t
      BY <2>3
    <3> QED
      BY <2>1, <2>2, <3>1, <3>2, TargetTakes
  <2>5. enroll' \in [Enrollers -> OverlayCalls] /\ RefsAgree' /\ \A q \in Enrollers : enroll'[q] = enroll[q]
    BY <2>1 DEF OverlayTypeOK, RefsAgree, Holder
  <2> QED
    BY <2>1, <2>2, <2>4, <2>5, TakesKeepsInv
<1>4. ASSUME NEW t \in Targets, NEW p \in Targets, ensurePrivateMesh(t, p)
      PROVE  OverlayInv'
  <2>1. /\ \A u \in {t, p} : InPlace(u)
        /\ meshEdges' \subseteq meshEdges \cup ({t, p} \X {t, p})
        /\ UNCHANGED <<backend, runtimes, member, byTarget, services, ingress, devices, enroll, overtaken>>
    BY <1>4 DEF ensurePrivateMesh, Fake, requireOwnedMembershipLocked, InPlace
  <2>2. \A i1 \in Ingresses : ingress'[i1] = ingress[i1]
    BY <2>1
  <2>3. /\ ingress' \in [Ingresses -> Targets \cup {NoTarget}]
        /\ {t, p} \in SUBSET Targets /\ services' \subseteq services \cup {t, p}
    BY <2>1 DEF OverlayTypeOK
  <2> QED
    BY <2>1, <2>2, <2>3, OwnsKeepsInv
<1>5. ASSUME NEW t \in Targets,
             ensurePrivateService(t) \/ \E i \in Ingresses : ensurePublicIngress(t, i) \/ promotePublicIngress(t, i)
      PROVE  OverlayInv'
  <2>1. /\ InPlace(t) /\ UNCHANGED <<backend, runtimes, member, byTarget, meshEdges, devices, enroll, overtaken>>
        /\ services' \subseteq services \cup {t}
    BY <1>5 DEF ensurePrivateService, ensurePublicIngress, promotePublicIngress, Fake,
                requireOwnedMembershipLocked, InPlace
  <2>2. /\ ingress' \in [Ingresses -> Targets \cup {NoTarget}]
        /\ \A i1 \in Ingresses : ingress'[i1] \in {ingress[i1], NoTarget} \cup {t}
    BY <1>5 DEF ensurePrivateService, ensurePublicIngress, promotePublicIngress, OverlayTypeOK
  <2> QED
    BY <2>1, <2>2, OwnsKeepsInv
<1>6. ASSUME NEW i \in Ingresses, removeHAEndpoint(i)
      PROVE  OverlayInv'
  <2>1. /\ UNCHANGED <<backend, runtimes, member, byTarget, meshEdges, services, devices, enroll, overtaken>>
        /\ ingress' \in [Ingresses -> Targets \cup {NoTarget}]
        /\ \A i1 \in Ingresses : ingress'[i1] \in {ingress[i1], NoTarget}
    BY <1>6 DEF removeHAEndpoint, Fake, OverlayTypeOK
  <2>2. ASSUME NEW S, S = {}
        PROVE  OverlayInv'
    BY <2>1, <2>2, OwnsKeepsInv
  <2> QED
    BY <2>2
<1>7. CASE finalizeOwnedTeardown \/ \E m \in Memberships : removeMembership(m)
  <2>1. PICK T, R : /\ deleteOwnedForTargetLocked(T, R)
                    /\ \A u \in Targets : byTarget[u] \in R => u \in T \/ byTarget[u] = NoTarget
    <3>1. ASSUME NEW m \in Memberships, removeMembership(m)
          PROVE  \E T, R : /\ deleteOwnedForTargetLocked(T, R)
                           /\ \A u \in Targets : byTarget[u] \in R => u \in T \/ byTarget[u] = NoTarget
      <4>1. deleteOwnedForTargetLocked({member[m].target}, {m})
        BY <3>1 DEF removeMembership
      <4>2. \A u \in Targets : byTarget[u] \in {m} => u \in {member[m].target} \/ byTarget[u] = NoTarget
        BY DEF Indexed, IndexSound
      <4> QED
        BY <4>1, <4>2
    <3>2. CASE finalizeOwnedTeardown
      <4>1. deleteOwnedForTargetLocked({member[n].target : n \in Memberships}, Memberships)
        BY <3>2 DEF finalizeOwnedTeardown
      <4>2. \A u \in Targets : byTarget[u] \in Memberships =>
              u \in {member[n].target : n \in Memberships} \/ byTarget[u] = NoTarget
        BY DEF Indexed, IndexSound
      <4> QED
        BY <4>1, <4>2
    <3> QED
      BY <1>7, <3>1, <3>2
  <2>2. /\ backend = "fake" /\ UNCHANGED <<backend, runtimes, devices, enroll, overtaken>>
    BY <1>7 DEF removeMembership, finalizeOwnedTeardown, Fake
  <2>3. /\ member' \in [Memberships -> Records] /\ byTarget' \in [Targets -> Memberships \cup {NoTarget}]
        /\ meshEdges' \subseteq Targets \X Targets /\ services' \subseteq Targets
        /\ ingress' \in [Ingresses -> Targets \cup {NoTarget}] /\ Indexed' /\ OwnedByMember'
    BY <2>1, <2>2, ForgetLeaves
  <2>4. OverlayTypeOK'
    BY <2>2, <2>3 DEF OverlayTypeOK, runtimes
  <2>5. RefsAgree' /\ \A q \in Enrollers : CallPlace(q)'
    BY <2>2 DEF CallPlace, NoCall, RefsAgree, Holder
  <2> QED
    BY <2>3, <2>4, <2>5
<1> QED
  BY <1>1, <1>2, <1>3, <1>4, <1>5, <1>6, <1>7

----------------------------------------------------------------------------
\* The live backend: what is seen of a runtime is stored.
LEMMA LiveRuntimeKeepsInv ==
  ASSUME OverlayInv, NEW t \in Targets,
         liveEnsureMeshControlPlane(t) \/ \E ready \in BOOLEAN : liveMeshRuntime(t, ready)
  PROVE  OverlayInv'
<1>1. /\ agentReady' \subseteq Targets /\ controlPlane' \subseteq Targets
      /\ UNCHANGED <<backend, member, byTarget, meshEdges, services, ingress, devices, enroll, overtaken>>
  BY DEF liveMeshRuntime, liveEnsureMeshControlPlane, records, OverlayInv, OverlayTypeOK
<1> QED
  BY <1>1 DEF OverlayInv, OverlayTypeOK, Indexed, IndexSound, OwnedByMember, CallPlace, InPlace, Holder, RefsAgree

\* Operations that only read the records, or end.
LEMMA LiveReadKeepsInv ==
  ASSUME OverlayInv, NEW o \in Enrollers,
         \/ LiveFails(o) \/ GuestEnrolled(o) \/ FunnelReset(o) \/ liveFinalizeOwnedTeardown(o)
         \/ \E t, p \in Targets : liveEnsurePrivateMesh(o, t, p)
         \/ \E t \in Targets : liveEnsurePrivateService(o, t) \/ liveEnsurePublicIngress(o, t)
         \/ \E t \in Targets, m \in Memberships : liveAttachTarget(o, t, m)
         \/ \E m \in Memberships : liveRemoveMembership(o, m)
  PROVE  OverlayInv'
<1> USE DEF OverlayInv
<1>1. CASE LiveFails(o) \/ FunnelReset(o)
  <2>1. LiveEnds(o) /\ UNCHANGED <<backend, runtimes, records, devices, overtaken>>
    BY <1>1 DEF LiveFails, FunnelReset, LiveIs
  <2>2. devices' \subseteq Targets
    BY <2>1 DEF OverlayTypeOK
  <2> QED
    BY <2>1, <2>2, EndsOf, CallMoves
<1>2. CASE GuestEnrolled(o)
  <2>1. enroll[o].target \in Targets
    BY <1>2 DEF GuestEnrolled, LiveIs, CallPlace
  <2>2. UNCHANGED <<backend, runtimes, records, enroll, overtaken>>
    BY <1>2 DEF GuestEnrolled, LiveIs
  <2>3. devices' \subseteq Targets /\ enroll' \in [Enrollers -> OverlayCalls]
    BY <1>2, <2>1 DEF GuestEnrolled, OverlayTypeOK, OverlayCalls
  <2>4. CallPlace(o)'
    BY <2>2 DEF CallPlace, InPlace, Holder, records
  <2>5. \A q \in Enrollers : enroll[q].ref = enroll'[o].ref /\ enroll'[o].ref # NoTarget => Holder(q) = Holder(o)'
    BY <2>2 DEF RefsAgree, Holder
  <2> QED
    BY <2>2, <2>3, <2>4, <2>5, CallMoves
<1>4. ASSUME NEW t \in Targets, NEW m \in Memberships, liveAttachTarget(o, t, m)
      PROVE  OverlayInv'
  BY <1>4, LiveStartKeepsInv, OverlayAssumption DEF liveAttachTarget
<1>5. ASSUME NEW t \in Targets, NEW p \in Targets, liveEnsurePrivateMesh(o, t, p)
      PROVE  OverlayInv'
  <2>1. InPlace(t) /\ UNCHANGED records
    BY <1>5 DEF liveEnsurePrivateMesh, InPlace
  <2>2. CASE requireOwnedMembershipLocked(p)
    <3>1. InPlace(p) /\ Live(o, "ping", t, p, NoTarget)
      BY <1>5, <2>2 DEF liveEnsurePrivateMesh, requireOwnedMembershipLocked, InPlace
    <3> QED
      BY <2>1, <3>1, LiveStartKeepsInv
  <2>3. CASE ~requireOwnedMembershipLocked(p)
    <3>1. Live(o, "mesh", t, p, NoTarget)
      BY <1>5, <2>3 DEF liveEnsurePrivateMesh
    <3> QED
      BY <2>1, <3>1, LiveStartKeepsInv
  <2> QED
    BY <2>2, <2>3
<1>6. ASSUME NEW t \in Targets, liveEnsurePrivateService(o, t) \/ liveEnsurePublicIngress(o, t)
      PROVE  OverlayInv'
  <2>1. InPlace(t) /\ UNCHANGED records
    BY <1>6 DEF liveEnsurePrivateService, liveEnsurePublicIngress, requireOwnedMembershipLocked, InPlace
  <2>2. PICK kind \in {"service", "funnel"} : Live(o, kind, t, NoTarget, NoTarget)
    BY <1>6 DEF liveEnsurePrivateService, liveEnsurePublicIngress
  <2> QED
    BY <2>1, <2>2, LiveStartKeepsInv
<1>7. ASSUME NEW m \in Memberships, liveRemoveMembership(o, m)
      PROVE  OverlayInv'
  <2>1. member[m].target \in Targets
    BY <1>7 DEF liveRemoveMembership, OverlayTypeOK, Records, Indexed
  <2> QED
    BY <1>7, <2>1, LiveStartKeepsInv, OverlayAssumption DEF liveRemoveMembership
<1>8. CASE liveFinalizeOwnedTeardown(o)
  BY <1>8, LiveStartKeepsInv DEF liveFinalizeOwnedTeardown
<1> QED
  BY <1>1, <1>2, <1>4, <1>5, <1>6, <1>7, <1>8

\* livePrepareMembership records a reference that is nobody's or the target's.
LEMMA LivePrepareKeepsInv ==
  ASSUME OverlayInv, NEW t \in Targets, NEW m \in Memberships, livePrepareMembership(t, m)
  PROVE  OverlayInv'
<1>1. /\ upsertMembershipLocked(t, m, FALSE)
      /\ UNCHANGED <<backend, runtimes, devices, enroll, overtaken>>
  BY DEF livePrepareMembership
<1>2. /\ member' \in [Memberships -> Records] /\ byTarget' \in [Targets -> Memberships \cup {NoTarget}]
      /\ UNCHANGED <<meshEdges, services, ingress>>
      /\ Indexed' /\ OwnedByMember'
      /\ \A q \in Enrollers : enroll'[q] = enroll[q] => CallPlace(q)'
  BY <1>1, UpsertTakes
<1>3. enroll' \in [Enrollers -> OverlayCalls] /\ RefsAgree' /\ \A q \in Enrollers : enroll'[q] = enroll[q]
  BY <1>1 DEF OverlayInv, OverlayTypeOK, RefsAgree, Holder
<1> QED
  BY <1>1, <1>2, <1>3, TakesKeepsInv

\* Operations that record a membership.
LEMMA LiveTakesKeepsInv ==
  ASSUME OverlayInv, NEW o \in Enrollers,
         \/ liveAdoptRemotePeer(o) \/ \E m \in Memberships : liveEnrollGuest(o, m) \/ AdoptUpserts(o, m)
         \/ \E t \in Targets, m \in Memberships : liveEnrollOverlay(o, t, m)
  PROVE  OverlayInv'
<1> USE DEF OverlayInv
<1>2. ASSUME NEW t \in Targets, NEW m \in Memberships, liveEnrollOverlay(o, t, m)
      PROVE  OverlayInv'
  <2>1. upsertMembershipLocked(t, m, FALSE) /\ Live(o, "enroll", t, NoTarget, m)
    BY <1>2 DEF liveEnrollOverlay
  <2>2. /\ enroll' \in [Enrollers -> OverlayCalls] /\ backend = "live"
        /\ enroll'[o].kind = "enroll" /\ enroll'[o].target = t /\ enroll'[o].ref = m
        /\ \A q \in Enrollers : q # o => enroll'[q] = enroll[q]
        /\ UNCHANGED <<backend, runtimes, devices, overtaken>>
    BY <2>1, LiveStarts
  <2>3. /\ member' \in [Memberships -> Records] /\ byTarget' \in [Targets -> Memberships \cup {NoTarget}]
        /\ UNCHANGED <<meshEdges, services, ingress>>
        /\ Indexed' /\ OwnedByMember' /\ member'[m].target = t
        /\ \A q \in Enrollers : enroll'[q] = enroll[q] => CallPlace(q)'
        /\ HeldFor(m, t)
    BY <2>1, <2>2, UpsertTakes
  <2>4. CallPlace(o)' /\ Holder(o)' = t
    BY <2>2, <2>3 DEF CallPlace, Holder
  <2>5. RefsAgree'
    BY <2>2, <2>3, <2>4, RefsStay DEF HeldFor
  <2> QED
    BY <2>2, <2>3, <2>4, <2>5, TakesKeepsInv
<1>3. ASSUME NEW m \in Memberships, liveEnrollGuest(o, m)
      PROVE  OverlayInv'
  <2> DEFINE u == enroll[o].target
             old == enroll[o].ref
  <2>0. u \in Targets /\ u # NoTarget /\ old \in Memberships /\ Holder(o) = u
    BY <1>3, OverlayAssumption DEF liveEnrollGuest, LiveIs, OverlayTypeOK, CallPlace, Holder
  <2>1. /\ IF member[old] # Unknown THEN m = old
           ELSE IF byTarget[u] # NoTarget THEN m = byTarget[u] ELSE newOpaqueRef(m)
        /\ m # old \/ member[m].target = u
        /\ member' = [member EXCEPT ![m] = [target |-> u, attached |-> TRUE, device |-> TRUE]]
        /\ byTarget' = [byTarget EXCEPT ![u] = m] /\ LiveEnds(o)
        /\ UNCHANGED <<backend, runtimes, meshEdges, services, ingress, devices, overtaken>>
    BY <1>3 DEF liveEnrollGuest, LiveIs
  <2>2. /\ member' \in [Memberships -> Records] /\ member'[m].target = u
        /\ \A n \in Memberships : n # m => member'[n] = member[n]
    BY <2>0, <2>1 DEF OverlayTypeOK, Records
  <2>3. member[m].target = u \/ newOpaqueRef(m)
    BY <2>0, <2>1 DEF Indexed, IndexSound
  <2>4. member[m].target \in {NoTarget, u}
    BY <2>3 DEF newOpaqueRef, Unknown
  <2>5. ASSUME NEW q \in Enrollers, enroll[q].ref = m
        PROVE  Holder(q) = u
    BY <2>0, <2>3, <2>5, OverlayAssumption DEF newOpaqueRef, CallPlace
  <2>6. byTarget' = [byTarget EXCEPT ![u] = m] /\ UNCHANGED <<backend, meshEdges, services, ingress, overtaken>>
    BY <2>1
  <2> HIDE DEF u, old
  <2>7. /\ byTarget' \in [Targets -> Memberships \cup {NoTarget}]
        /\ Indexed' /\ OwnedByMember'
        /\ \A q \in Enrollers : enroll'[q] = enroll[q] => CallPlace(q)'
    BY <2>0, <2>2, <2>4, <2>5, <2>6, TargetTakes
  <2>8. /\ enroll' \in [Enrollers -> OverlayCalls]
        /\ \A q \in Enrollers : q # o => enroll'[q] = enroll[q]
        /\ CallPlace(o)' /\ RefsAgree'
    BY <2>1, EndsOf
  <2> QED
    BY <2>1, <2>2, <2>7, <2>8, TakesKeepsInv
<1>4. ASSUME NEW m \in Memberships, AdoptUpserts(o, m)
      PROVE  OverlayInv'
  <2> DEFINE p == enroll[o].peer
  <2>0. p \in Targets /\ enroll[o] \in OverlayCalls /\ enroll[o].kind = "mesh"
    BY <1>4 DEF AdoptUpserts, LiveIs, OverlayTypeOK
  <2>1. /\ upsertMembershipLocked(p, m, TRUE)
        /\ UNCHANGED <<backend, runtimes, devices, overtaken>>
    BY <1>4 DEF AdoptUpserts, LiveIs
  <2>2. /\ enroll' \in [Enrollers -> OverlayCalls]
        /\ \A q \in Enrollers : q # o => enroll'[q] = enroll[q]
        /\ enroll'[o].kind = "adopt" /\ enroll'[o].ref = m
        /\ enroll'[o].target = enroll[o].target /\ enroll'[o].peer = p
    BY <1>4, <2>0 DEF AdoptUpserts, OverlayTypeOK, OverlayCalls
  <2>3. /\ member' \in [Memberships -> Records] /\ byTarget' \in [Targets -> Memberships \cup {NoTarget}]
        /\ UNCHANGED <<meshEdges, services, ingress>>
        /\ Indexed' /\ OwnedByMember' /\ byTarget'[p] # NoTarget /\ member'[m].target = p
        /\ \A q \in Enrollers : enroll'[q] = enroll[q] => CallPlace(q)'
        /\ HeldFor(m, p)
    BY <2>0, <2>1, UpsertTakes
  <2>4. InPlace(enroll[o].target)'
    <3>1. InPlace(enroll[o].target) /\ backend = "live"
      BY <2>0 DEF CallPlace, NoCall, OverlayTypeOK
    <3>2. \A u \in Targets : byTarget[u] # NoTarget => byTarget'[u] # NoTarget
      BY <2>1, <2>3, OverlayAssumption DEF upsertMembershipLocked, OverlayTypeOK
    <3> QED
      BY <2>1, <2>2, <3>1, <3>2 DEF InPlace
  <2>5. backend = "live"
    BY <2>0 DEF CallPlace, NoCall, OverlayTypeOK
  <2>6. CallPlace(o)' /\ Holder(o)' = p
    BY <2>0, <2>1, <2>2, <2>3, <2>4, <2>5 DEF CallPlace, InPlace, Holder
  <2>7. RefsAgree'
    BY <2>2, <2>3, <2>6, RefsStay DEF HeldFor
  <2> QED
    BY <2>1, <2>2, <2>3, <2>6, <2>7, TakesKeepsInv
<1>5. CASE liveAdoptRemotePeer(o)
  <2> DEFINE p == enroll[o].peer
             n == enroll[o].ref
  <2>0. /\ enroll[o].kind = "adopt" /\ InPlace(p) /\ InPlace(enroll[o].target) /\ p \in Targets
        /\ n \in Memberships /\ Holder(o) = p /\ backend = "live" /\ n # NoTarget
    BY <1>5, OverlayAssumption DEF liveAdoptRemotePeer, LiveIs, CallPlace, InPlace, Holder, NoCall, OverlayTypeOK
  <2>1. /\ member' = [member EXCEPT ![n] = [target |-> p, attached |-> TRUE, device |-> TRUE]]
        /\ byTarget' = [byTarget EXCEPT ![p] = n]
        /\ enroll' = [enroll EXCEPT ![o].kind = "ping"]
        /\ UNCHANGED <<backend, runtimes, meshEdges, services, ingress, devices, overtaken>>
    BY <1>5 DEF liveAdoptRemotePeer, LiveIs, LiveTo
  <2>2. /\ member' \in [Memberships -> Records] /\ member'[n].target = p
        /\ \A x \in Memberships : x # n => member'[x] = member[x]
    BY <2>0, <2>1 DEF OverlayTypeOK, Records
  <2>3. member[n].target \in {NoTarget, p}
    BY <2>0 DEF CallPlace
  <2>4. \A q \in Enrollers : enroll[q].ref = n => Holder(q) = p
    BY <2>0 DEF RefsAgree
  <2>5. byTarget' = [byTarget EXCEPT ![p] = n] /\ UNCHANGED <<backend, meshEdges, services, ingress, overtaken>>
    BY <2>1
  <2> HIDE DEF p, n
  <2>6. /\ byTarget' \in [Targets -> Memberships \cup {NoTarget}]
        /\ Indexed' /\ OwnedByMember'
        /\ \A q \in Enrollers : enroll'[q] = enroll[q] => CallPlace(q)'
    BY <2>0, <2>2, <2>3, <2>4, <2>5, TargetTakes
  <2>7. enroll[o] \in OverlayCalls
    BY DEF OverlayTypeOK
  <2>8. /\ enroll' \in [Enrollers -> OverlayCalls]
        /\ \A q \in Enrollers : q # o => enroll'[q] = enroll[q]
        /\ enroll'[o].kind = "ping" /\ enroll'[o].ref = n
        /\ enroll'[o].target = enroll[o].target /\ enroll'[o].peer = p
    BY <2>1, <2>7 DEF OverlayTypeOK, OverlayCalls, p, n
  <2>9. \A u \in Targets : byTarget[u] # NoTarget => byTarget'[u] # NoTarget
    BY <2>0, <2>1 DEF OverlayTypeOK
  <2>10. Holder(o)' = p /\ CallPlace(o)'
    BY <2>0, <2>1, <2>2, <2>8, <2>9 DEF CallPlace, InPlace, Holder
  <2>11. RefsAgree'
    BY <2>4, <2>8, <2>10, RefsStay
  <2> QED
    BY <2>1, <2>2, <2>6, <2>8, <2>10, <2>11, TakesKeepsInv
<1> QED
  BY <1>2, <1>3, <1>4, <1>5

\* Operations that record what a member owns.
LEMMA LiveOwnsKeepsInv ==
  ASSUME OverlayInv, NEW o \in Enrollers,
         \/ MeshRecorded(o) \/ ServiceRecorded(o)
         \/ \E i \in Ingresses : IngressRecorded(o, i) \/ liveRemoveHAEndpoint(o, i)
  PROVE  OverlayInv'
<1> USE DEF OverlayInv
<1>1. CASE MeshRecorded(o)
  <2> DEFINE S == {enroll[o].target, enroll[o].peer}
  <2>1. S \in SUBSET Targets /\ \A u \in S : InPlace(u)
    BY <1>1 DEF MeshRecorded, LiveIs, CallPlace, InPlace
  <2>2. /\ meshEdges' \subseteq meshEdges \cup (S \X S) /\ LiveEnds(o)
        /\ UNCHANGED <<backend, runtimes, member, byTarget, services, ingress, devices, overtaken>>
    BY <1>1 DEF MeshRecorded, LiveIs
  <2> HIDE DEF S
  <2>3. /\ ingress' \in [Ingresses -> Targets \cup {NoTarget}] /\ services' \subseteq services \cup S
        /\ \A i1 \in Ingresses : ingress'[i1] \in {ingress[i1], NoTarget} \cup S
    BY <2>2 DEF OverlayTypeOK
  <2> QED
    BY <2>1, <2>2, <2>3, OwnsKeepsInv
<1>2. CASE ServiceRecorded(o) \/ \E i \in Ingresses : IngressRecorded(o, i)
  <2> DEFINE S == {enroll[o].target}
  <2>1. S \in SUBSET Targets /\ \A u \in S : InPlace(u)
    BY <1>2 DEF ServiceRecorded, IngressRecorded, LiveIs, CallPlace, InPlace
  <2>2. /\ services' \subseteq services \cup S /\ LiveEnds(o)
        /\ UNCHANGED <<backend, runtimes, member, byTarget, meshEdges, devices, overtaken>>
    BY <1>2 DEF ServiceRecorded, IngressRecorded, LiveIs
  <2>3. /\ ingress' \in [Ingresses -> Targets \cup {NoTarget}] /\ meshEdges' \subseteq meshEdges \cup (S \X S)
        /\ \A i1 \in Ingresses : ingress'[i1] \in {ingress[i1], NoTarget} \cup S
    BY <1>2, <2>1, <2>2 DEF ServiceRecorded, IngressRecorded, OverlayTypeOK
  <2> HIDE DEF S
  <2> QED
    BY <2>1, <2>2, <2>3, OwnsKeepsInv
<1>3. ASSUME NEW i \in Ingresses, liveRemoveHAEndpoint(o, i)
      PROVE  OverlayInv'
  <2>1. /\ Live(o, "unfunnel", ingress[i], NoTarget, NoTarget) /\ ingress[i] \in Targets \cup {NoTarget}
        /\ ingress' = [ingress EXCEPT ![i] = NoTarget]
        /\ UNCHANGED <<member, byTarget, meshEdges, services>>
    BY <1>3 DEF liveRemoveHAEndpoint, OverlayTypeOK
  <2>2. /\ enroll' \in [Enrollers -> OverlayCalls] /\ backend = "live"
        /\ enroll'[o].kind = "unfunnel" /\ enroll'[o].ref = NoTarget
        /\ \A q \in Enrollers : q # o => enroll'[q] = enroll[q]
        /\ UNCHANGED <<backend, runtimes, devices, overtaken>>
    BY <2>1, LiveStarts
  <2>3. OverlayTypeOK' /\ Indexed' /\ OwnedByMember'
    BY <2>1, <2>2, OverlayAssumption DEF OverlayTypeOK, Indexed, IndexSound, OwnedByMember, runtimes
  <2>4. RefsAgree'
    BY <2>2, RefsStay
  <2>5. \A q \in Enrollers : CallPlace(q)'
    BY <2>1, <2>2 DEF CallPlace, InPlace, Holder
  <2> QED
    BY <2>3, <2>4, <2>5
<1> QED
  BY <1>1, <1>2, <1>3

\* Removal and teardown.
LEMMA LiveForgetsKeepsInv ==
  ASSUME OverlayInv, NEW o \in Enrollers, MembershipRemoved(o) \/ TornDown(o)
  PROVE  OverlayInv'
<1> USE DEF OverlayInv
<1>1. backend = "live"
  BY DEF MembershipRemoved, TornDown, LiveIs, CallPlace, NoCall, OverlayTypeOK
<1>2. CASE MembershipRemoved(o)
  <2> DEFINE t == enroll[o].target
             n == enroll[o].ref
  <2>1. /\ Forgets(o, {t}, {n}) /\ LiveEnds(o) /\ UNCHANGED <<backend, runtimes>> /\ devices' \subseteq devices
        /\ enroll[o].kind = "remove"
    BY <1>2 DEF MembershipRemoved, LiveIs
  <2>2. t \in Targets /\ n \in Memberships /\ n # NoTarget /\ Holder(o) = t /\ member[n].target \in {NoTarget, t}
    BY <2>1, OverlayAssumption DEF CallPlace, Holder
  <2>3. \A u \in Targets : byTarget[u] \in {n} => u \in {t} \/ byTarget[u] = NoTarget
    BY <2>2, OverlayAssumption DEF Indexed, IndexSound
  <2> QED
    BY <1>1, <2>1, <2>2, <2>3, ForgetsMarks
<1>3. CASE TornDown(o)
  <2> DEFINE T == {member[m].target : m \in Memberships} \ {NoTarget}
  <2>1. /\ Forgets(o, T, Memberships) /\ LiveEnds(o) /\ UNCHANGED <<backend, runtimes>> /\ devices' \subseteq devices
    BY <1>3 DEF TornDown, LiveIs
  <2>2. T \in SUBSET Targets
    BY DEF OverlayTypeOK, Records
  <2>3. \A u \in Targets : byTarget[u] \in Memberships => u \in T \/ byTarget[u] = NoTarget
    BY OverlayAssumption DEF Indexed, IndexSound
  <2> HIDE DEF T
  <2> QED
    BY <1>1, <2>1, <2>2, <2>3, ForgetsMarks
<1> QED
  BY <1>2, <1>3

\* Every behaviour of the provider keeps its tables consistent.
THEOREM OverlayInvariant == OverlaySpec => []OverlayInv
<1>1. OverlayInit => OverlayInv
  <2> SUFFICES ASSUME OverlayInit PROVE OverlayInv
    OBVIOUS
  <2>1. NoCall \in OverlayCalls /\ Unknown \in Records /\ Unknown.target = NoTarget
    BY DEF OverlayCalls, NoCall, Unknown, Records
  <2>2. OverlayTypeOK
    BY <2>1 DEF OverlayInit, OverlayTypeOK
  <2>3. \A o \in Enrollers : enroll[o] = NoCall
    BY DEF OverlayInit
  <2>4. RefsAgree /\ \A o \in Enrollers : CallPlace(o)
    BY <2>3 DEF RefsAgree, CallPlace, NoCall
  <2>5. Indexed /\ OwnedByMember
    BY OverlayAssumption DEF OverlayInit, Indexed, IndexSound, OwnedByMember
  <2> QED
    BY <2>2, <2>4, <2>5 DEF OverlayInv
<1>2. OverlayInv /\ [OverlayNext]_overlayVars => OverlayInv'
  <2> SUFFICES ASSUME OverlayInv, [OverlayNext]_overlayVars PROVE OverlayInv'
    OBVIOUS
  <2>1. CASE UNCHANGED overlayVars
    BY <2>1 DEF overlayVars, OverlayInv, OverlayTypeOK, Indexed, IndexSound, OwnedByMember, RefsAgree,
                CallPlace, InPlace, Holder
  <2>2. CASE OverlayNext
    <3> HIDE DEF OverlayInv
    <3> QED
      BY <2>2, FakeKeepsInv, LiveRuntimeKeepsInv, LiveReadKeepsInv, LivePrepareKeepsInv, LiveTakesKeepsInv,
         LiveOwnsKeepsInv, LiveForgetsKeepsInv DEF OverlayNext
  <2> QED
    BY <2>1, <2>2
<1> QED
  BY <1>1, <1>2, PTL DEF OverlaySpec

\* The reference of a target is a membership of that target, and no edge,
\* service or ingress is left of a target that is not enrolled, however the
\* live operations overlap (deleteOwnedForTargetLocked, liveEnrollGuest,
\* liveAdoptRemotePeer): a reference a call holds across its guest commands is
\* its target's or nobody's.
THEOREM OverlayIsConsistent == OverlaySpec => []OverlayConsistent
<1>1. OverlayInv => OverlayConsistent
  BY DEF OverlayInv, Indexed, OverlayConsistent
<1> QED
  BY <1>1, OverlayInvariant, PTL

----------------------------------------------------------------------------
\* K3s.  A join in progress holds the invitation it consumed, if it uses one;
\* no other call finds it redeemed.
JoinHolds ==
  \A o \in Operators : op[o].kind = "join" /\ op[o].arg # None =>
    /\ op[o].guest \in Guests /\ op[o].arg \in Refs
    /\ invitation[Home[op[o].guest]][op[o].arg] = "consumed"

MembershipInv ==
  /\ MembershipTypeOK /\ JoinHolds /\ OneJoinPerInvitation
  /\ \A o \in Operators : op[o].kind # "none" => op[o].guest \in Guests

\* A step of one call that takes no invitation, and leaves those of the others.
LEMMA CallKeepsJoins ==
  ASSUME MembershipInv, NEW o \in Operators, \A q \in Operators : q # o => op'[q] = op[q],
         op'[o].kind = "join" /\ op'[o].arg # None
           => op[o].kind = "join" /\ op'[o].guest = op[o].guest /\ op'[o].arg = op[o].arg,
         UNCHANGED invitation
  PROVE  JoinHolds' /\ OneJoinPerInvitation'
<1>1. JoinHolds'
  BY DEF MembershipInv, JoinHolds
<1>2. OneJoinPerInvitation'
  BY DEF MembershipInv, OneJoinPerInvitation
<1> QED
  BY <1>1, <1>2

\* How a call changes when it begins, goes on and returns.
LEMMA BeginOf ==
  ASSUME MembershipInv, NEW o \in Operators,
         NEW kind, NEW pc, NEW g, NEW arg, NEW token, Begin(o, kind, pc, g, arg, token),
         [kind |-> kind, pc |-> pc, guest |-> g, arg |-> arg, token |-> token] \in MembershipOps
  PROVE  /\ op' \in [Operators -> MembershipOps] /\ \A q \in Operators : q # o => op'[q] = op[q]
         /\ op[o].kind = "none" /\ op'[o].kind = kind /\ op'[o].pc = pc /\ op'[o].guest = g
         /\ op'[o].arg = arg /\ op'[o].token = token
<1> DEFINE r == [kind |-> kind, pc |-> pc, guest |-> g, arg |-> arg, token |-> token]
<1>1. /\ r \in MembershipOps /\ r.kind = kind /\ r.pc = pc /\ r.guest = g /\ r.arg = arg /\ r.token = token
      /\ NoOp.kind = "none"
  BY DEF NoOp
<1>2. op' = [op EXCEPT ![o] = r] /\ op[o] = NoOp
  BY DEF Begin
<1> HIDE DEF r
<1> QED
  BY <1>1, <1>2 DEF MembershipInv, MembershipTypeOK

\* A call that goes on keeps its kind, its guest and its argument.
LEMMA GotoOf ==
  ASSUME MembershipInv, NEW o \in Operators,
         NEW pc \in {"await", "verify", "stop", "reset", "start"}, Goto(o, pc)
  PROVE  /\ op' \in [Operators -> MembershipOps] /\ \A q \in Operators : q # o => op'[q] = op[q]
         /\ op'[o].pc = pc /\ op'[o].kind = op[o].kind /\ op'[o].guest = op[o].guest
         /\ op'[o].arg = op[o].arg /\ op'[o].token = op[o].token
<1>1. op \in [Operators -> MembershipOps] /\ op[o] \in MembershipOps
  BY DEF MembershipInv, MembershipTypeOK
<1> QED
  BY <1>1 DEF Goto, MembershipOps

\* A call that returns is idle, and the others stay.
LEMMA ReturnOf ==
  ASSUME MembershipInv, NEW o \in Operators, Return(o)
  PROVE  /\ op' \in [Operators -> MembershipOps] /\ \A q \in Operators : q # o => op'[q] = op[q]
         /\ op'[o].kind = "none"
<1>1. op \in [Operators -> MembershipOps] /\ NoOp \in MembershipOps /\ NoOp.kind = "none"
  BY DEF MembershipInv, MembershipTypeOK, MembershipOps, NoOp
<1> QED
  BY <1>1 DEF Return

\* A call that is no join begins, goes on or returns.
LEMMA CallStepKeepsInv ==
  ASSUME MembershipInv, NEW o \in Operators, op' \in [Operators -> MembershipOps],
         \A q \in Operators : q # o => op'[q] = op[q],
         op'[o].kind = "join" /\ op'[o].arg # None
           => op[o].kind = "join" /\ op'[o].guest = op[o].guest /\ op'[o].arg = op[o].arg,
         op'[o].kind # "none" => op'[o].guest \in Guests,
         unit' \in [Guests -> {"absent", "staged", "running", "stopped"}],
         cluster' \in [Guests -> Clusters \cup {None}], members' \in [Clusters -> SUBSET Guests],
         UNCHANGED invitations, lossKnown' \subseteq Clusters
  PROVE  MembershipInv'
<1>1. UNCHANGED invitation
  BY DEF invitations
<1>2. MembershipTypeOK'
  BY DEF MembershipInv, MembershipTypeOK, invitations
<1>3. JoinHolds' /\ OneJoinPerInvitation'
  BY <1>1, CallKeepsJoins
<1>4. \A q \in Operators : op'[q].kind # "none" => op'[q].guest \in Guests
  BY DEF MembershipInv
<1> QED
  BY <1>2, <1>3, <1>4 DEF MembershipInv

\* So do the first steps of a call that is no join, and the later ones.
LEMMA OtherBeginKeepsInv ==
  ASSUME MembershipInv, NEW o \in Operators,
         NEW kind \in {"provision", "restart", "remove", "recover"},
         NEW pc \in {"install", "await", "delete", "probe"}, NEW g \in Guests, NEW node \in Guests \cup {None},
         Begin(o, kind, pc, g, node, None),
         unit' \in [Guests -> {"absent", "staged", "running", "stopped"}],
         UNCHANGED <<cluster, members, invitations>>, lossKnown' \subseteq Clusters
  PROVE  MembershipInv'
<1>1. /\ op' \in [Operators -> MembershipOps] /\ \A q \in Operators : q # o => op'[q] = op[q]
      /\ op'[o].kind = kind /\ op'[o].guest = g
  <2>1. [kind |-> kind, pc |-> pc, guest |-> g, arg |-> node, token |-> None] \in MembershipOps
    BY DEF MembershipOps
  <2> QED
    BY <2>1, BeginOf
<1>2. op'[o].kind # "join"
  BY <1>1
<1>3. cluster' \in [Guests -> Clusters \cup {None}] /\ members' \in [Clusters -> SUBSET Guests]
  BY DEF MembershipInv, MembershipTypeOK
<1> QED
  BY <1>1, <1>2, <1>3, CallStepKeepsInv

\* A call that is no join may change guests and members, not invitations.
LEMMA OtherStepKeepsInv ==
  ASSUME MembershipInv, NEW o \in Operators, op[o].kind # "join",
         Return(o) \/ \E pc \in {"await", "verify", "stop", "reset", "start"} : Goto(o, pc),
         unit' \in [Guests -> {"absent", "staged", "running", "stopped"}],
         cluster' \in [Guests -> Clusters \cup {None}], members' \in [Clusters -> SUBSET Guests],
         UNCHANGED invitations, lossKnown' \subseteq Clusters
  PROVE  MembershipInv'
<1>1. CASE Return(o)
  <2>1. /\ op' \in [Operators -> MembershipOps] /\ \A q \in Operators : q # o => op'[q] = op[q]
        /\ op'[o].kind = "none"
    BY <1>1, ReturnOf
  <2>2. op'[o].kind # "join"
    BY <2>1
  <2> QED
    BY <2>1, <2>2, CallStepKeepsInv
<1>2. ASSUME NEW pc \in {"await", "verify", "stop", "reset", "start"}, Goto(o, pc)
      PROVE  MembershipInv'
  <2>1. /\ op' \in [Operators -> MembershipOps] /\ \A q \in Operators : q # o => op'[q] = op[q]
        /\ op'[o].pc = pc /\ op'[o].kind = op[o].kind /\ op'[o].guest = op[o].guest
    BY <1>2, GotoOf
  <2>2. /\ op'[o].kind # "join"
        /\ op'[o].kind # "none" => op'[o].guest \in Guests
    BY <2>1 DEF MembershipInv
  <2> QED
    BY <2>1, <2>2, CallStepKeepsInv
<1> QED
  BY <1>1, <1>2

\* Provisioning and restarts.
LEMMA ProvisionKeepsInv ==
  ASSUME MembershipInv, NEW o \in Operators,
         \/ ProvisionInstalls(o) \/ AwaitsClusterInfo(o)
         \/ \E g \in Guests : Provision(o, g) \/ Restart(o, g)
  PROVE  MembershipInv'
<1>0. /\ unit \in [Guests -> {"absent", "staged", "running", "stopped"}]
      /\ cluster \in [Guests -> Clusters \cup {None}] /\ members \in [Clusters -> SUBSET Guests]
      /\ op[o] \in MembershipOps /\ lossKnown \subseteq Clusters
  BY DEF MembershipInv, MembershipTypeOK
<1>1. ASSUME NEW g \in Guests, Provision(o, g)
      PROVE  MembershipInv'
  <2>1. /\ Begin(o, "provision", "install", g, None, None) \/ Begin(o, "provision", "await", g, None, None)
        /\ unit' \in [Guests -> {"absent", "staged", "running", "stopped"}]
        /\ UNCHANGED <<cluster, members, invitations>> /\ lossKnown' \subseteq Clusters
    BY <1>0, <1>1 DEF Provision, guests
  <2> QED
    BY <2>1, OtherBeginKeepsInv
<1>2. ASSUME NEW g \in Guests, Restart(o, g)
      PROVE  MembershipInv'
  <2>1. /\ Begin(o, "restart", "await", g, None, None) /\ UNCHANGED <<cluster, members, invitations>> /\ lossKnown' \subseteq Clusters
        /\ unit' \in [Guests -> {"absent", "staged", "running", "stopped"}]
    BY <1>0, <1>2 DEF Restart, LossTold
  <2> QED
    BY <2>1, OtherBeginKeepsInv
<1>3. CASE ProvisionInstalls(o)
  <2>1. /\ op[o].kind = "provision" /\ UNCHANGED <<invitations, lossKnown>>
        /\ Goto(o, "await") \/ Return(o)
    BY <1>3 DEF ProvisionInstalls, At
  <2>2. op[o].guest \in Guests
    BY <2>1 DEF MembershipInv
  <2>3. /\ unit' \in [Guests -> {"absent", "staged", "running", "stopped"}]
        /\ cluster' \in [Guests -> Clusters \cup {None}] /\ members' \in [Clusters -> SUBSET Guests]
    BY <1>0, <1>3, <2>2 DEF ProvisionInstalls, StartsCluster, ResumesCluster, StageBinary
  <2> QED
    BY <1>0, <2>1, <2>3, OtherStepKeepsInv
<1>4. CASE AwaitsClusterInfo(o)
  <2>1. Return(o) /\ UNCHANGED guests /\ UNCHANGED <<invitations, lossKnown>> /\ op[o].kind # "join"
    BY <1>4 DEF AwaitsClusterInfo, At
  <2> QED
    BY <1>0, <2>1, OtherStepKeepsInv DEF guests
<1> QED
  BY <1>1, <1>2, <1>3, <1>4

\* The collapse of the member list to one server.
LEMMA RecoverKeepsInv ==
  ASSUME MembershipInv, NEW o \in Operators,
         \/ RecoverProbes(o) \/ RecoverStops(o) \/ RecoverResets(o) \/ RecoverStarts(o)
         \/ \E g \in Guests : recoverQuorum(o, g)
  PROVE  MembershipInv'
<1>0. /\ unit \in [Guests -> {"absent", "staged", "running", "stopped"}]
      /\ cluster \in [Guests -> Clusters \cup {None}] /\ members \in [Clusters -> SUBSET Guests]
      /\ lossKnown \subseteq Clusters
  BY DEF MembershipInv, MembershipTypeOK
<1>1. ASSUME NEW g \in Guests, recoverQuorum(o, g)
      PROVE  MembershipInv'
  <2>1. /\ Begin(o, "recover", "probe", g, None, None) /\ UNCHANGED <<cluster, members, invitations, lossKnown>>
        /\ unit' \in [Guests -> {"absent", "staged", "running", "stopped"}]
    BY <1>0, <1>1 DEF recoverQuorum, guests
  <2> QED
    BY <1>0, <2>1, OtherBeginKeepsInv
<1>2. CASE RecoverProbes(o) \/ RecoverStops(o) \/ RecoverResets(o) \/ RecoverStarts(o)
  <2>1. op[o].kind = "recover" /\ UNCHANGED invitations
    BY <1>2 DEF RecoverProbes, RecoverStops, RecoverResets, RecoverStarts, At
  <2>2. op[o].guest \in Guests
    BY <2>1 DEF MembershipInv
  <2>3. Return(o) \/ \E pc \in {"await", "verify", "stop", "reset", "start"} : Goto(o, pc)
    BY <1>2 DEF RecoverProbes, RecoverStops, RecoverResets, RecoverStarts
  <2>4. unit' \in [Guests -> {"absent", "staged", "running", "stopped"}]
    BY <1>0, <1>2 DEF RecoverProbes, RecoverStops, RecoverResets, RecoverStarts, guests
  <2>5. cluster' \in [Guests -> Clusters \cup {None}] /\ members' \in [Clusters -> SUBSET Guests]
    BY <1>0, <1>2, <2>2 DEF RecoverProbes, RecoverStops, RecoverResets, RecoverStarts, guests
  <2>6. lossKnown' \subseteq Clusters
    BY <1>0, <1>2, <2>2 DEF RecoverProbes, RecoverStops, RecoverResets, RecoverStarts, LossTold
  <2> QED
    BY <2>1, <2>3, <2>4, <2>5, <2>6, OtherStepKeepsInv
<1> QED
  BY <1>1, <1>2

\* Retiring a server.
LEMMA RemovalKeepsInv ==
  ASSUME MembershipInv, NEW o \in Operators,
         RemoveDeletes(o) \/ RemoveVerifies(o) \/ \E g, node \in Guests : removeNode(o, g, node)
  PROVE  MembershipInv'
<1>0. /\ unit \in [Guests -> {"absent", "staged", "running", "stopped"}]
      /\ cluster \in [Guests -> Clusters \cup {None}] /\ members \in [Clusters -> SUBSET Guests]
      /\ lossKnown \subseteq Clusters
  BY DEF MembershipInv, MembershipTypeOK
<1>1. ASSUME NEW g \in Guests, NEW node \in Guests, removeNode(o, g, node)
      PROVE  MembershipInv'
  <2>1. Begin(o, "remove", "delete", g, node, None) /\ UNCHANGED <<guests, invitations, lossKnown>>
    BY <1>1 DEF removeNode
  <2>2. unit' \in [Guests -> {"absent", "staged", "running", "stopped"}]
    BY <1>0, <2>1 DEF guests
  <2> QED
    BY <1>0, <2>1, <2>2, OtherBeginKeepsInv DEF guests
<1>2. CASE RemoveDeletes(o) \/ RemoveVerifies(o)
  <2>1. /\ op[o].kind = "remove" /\ UNCHANGED <<unit, cluster, invitations>>
        /\ Return(o) \/ Goto(o, "verify")
    BY <1>2 DEF RemoveDeletes, RemoveVerifies, At, guests
  <2>2. members' \in [Clusters -> SUBSET Guests]
    BY <1>0, <1>2 DEF RemoveDeletes, RemoveVerifies, guests
  <2>3. lossKnown' \subseteq Clusters
    BY <1>0, <1>2 DEF RemoveDeletes, RemoveVerifies, LossTold
  <2> QED
    BY <1>0, <2>1, <2>2, <2>3, OtherStepKeepsInv
<1> QED
  BY <1>1, <1>2

\* An invitation that is consumed is of one join, and no join takes another's.
LEMMA JoinKeepsInv ==
  ASSUME MembershipInv, NEW o \in Operators,
         \/ JoinInstalls(o) \/ JoinSettles(o)
         \/ \E g \in Guests, r \in Refs : joinTokenForNode(o, g, r)
  PROVE  MembershipInv'
<1>0. /\ unit \in [Guests -> {"absent", "staged", "running", "stopped"}]
      /\ cluster \in [Guests -> Clusters \cup {None}] /\ members \in [Clusters -> SUBSET Guests]
      /\ invitation \in [GuestHosts -> [Refs -> {"none", "open", "redeemed", "consumed"}]]
      /\ op \in [Operators -> MembershipOps] /\ lossKnown \subseteq Clusters
      /\ sealed \in [Refs -> [cluster : Clusters \cup {None}, host : GuestHosts \cup {None}, key : Nat]]
  BY DEF MembershipInv, MembershipTypeOK
<1>1. ASSUME NEW g \in Guests, NEW r \in Refs, joinTokenForNode(o, g, r), invitation[Home[g]][r] = "redeemed"
      PROVE  MembershipInv'
  <2> DEFINE c == sealed[r].cluster
  <2>1. /\ Begin(o, "join", "install", g, r, c)
        /\ invitation' = [invitation EXCEPT ![Home[g]][r] = "consumed"] /\ c \in Clusters \cup {None}
        /\ UNCHANGED <<unit, cluster, members, sealed, expired, key, lossKnown>> /\ Home[g] \in GuestHosts
    BY <1>0, <1>1, HomeAssumption DEF joinTokenForNode, guests
  <2> HIDE DEF c
  <2>2. [kind |-> "join", pc |-> "install", guest |-> g, arg |-> r, token |-> c] \in MembershipOps
    BY <2>1 DEF MembershipOps
  <2>3. /\ op' \in [Operators -> MembershipOps] /\ \A q \in Operators : q # o => op'[q] = op[q]
        /\ op'[o].kind = "join" /\ op'[o].guest = g /\ op'[o].arg = r
    BY <2>1, <2>2, BeginOf
  <2>4. /\ invitation' \in [GuestHosts -> [Refs -> {"none", "open", "redeemed", "consumed"}]]
        /\ invitation'[Home[g]][r] = "consumed"
        /\ \A h \in GuestHosts, x \in Refs : <<h, x>> # <<Home[g], r>> => invitation'[h][x] = invitation[h][x]
    BY <1>0, <2>1
  <2>5. ASSUME NEW q \in Operators, op[q].kind = "join", q # o
        PROVE  ~(op[q].arg = r /\ Home[op[q].guest] = Home[g])
    BY <1>1, <2>1, <2>5, NoneAssumption DEF MembershipInv, JoinHolds
  <2>6. JoinHolds'
    <3>1. ASSUME NEW q \in Operators, q # o, op'[q].kind = "join", op'[q].arg # None
          PROVE  /\ op'[q].guest \in Guests /\ op'[q].arg \in Refs
                 /\ invitation'[Home[op'[q].guest]][op'[q].arg] = "consumed"
      <4>1. /\ op[q].kind = "join" /\ op[q].guest \in Guests /\ op[q].arg \in Refs /\ op'[q] = op[q]
            /\ invitation[Home[op[q].guest]][op[q].arg] = "consumed" /\ Home[op[q].guest] \in GuestHosts
        BY <2>3, <3>1, HomeAssumption DEF MembershipInv, JoinHolds
      <4> QED
        BY <2>4, <2>5, <3>1, <4>1
    <3> QED
      BY <2>3, <2>4, <3>1 DEF JoinHolds
  <2>7. OneJoinPerInvitation'
    BY <2>3, <2>5 DEF MembershipInv, OneJoinPerInvitation
  <2>8. /\ \A q \in Operators : op'[q].kind # "none" => op'[q].guest \in Guests
    BY <2>3 DEF MembershipInv
  <2>9. MembershipTypeOK'
    BY <2>1, <2>3, <2>4 DEF MembershipInv, MembershipTypeOK
  <2> QED
    BY <2>6, <2>7, <2>8, <2>9 DEF MembershipInv
<1>2. ASSUME NEW g \in Guests, NEW r \in Refs, joinTokenForNode(o, g, r), invitation[Home[g]][r] # "redeemed"
      PROVE  MembershipInv'
  <2>1. PICK c \in Clusters : Begin(o, "join", "install", g, None, c)
    BY <1>2 DEF joinTokenForNode
  <2>2. UNCHANGED <<unit, cluster, members, invitations, lossKnown>>
    BY <1>2 DEF joinTokenForNode, guests, invitations
  <2>3. [kind |-> "join", pc |-> "install", guest |-> g, arg |-> None, token |-> c] \in MembershipOps
    BY DEF MembershipOps
  <2>4. /\ op' \in [Operators -> MembershipOps] /\ \A q \in Operators : q # o => op'[q] = op[q]
        /\ op'[o].guest = g /\ op'[o].arg = None
    BY <2>1, <2>3, BeginOf
  <2> QED
    BY <1>0, <2>2, <2>4, CallStepKeepsInv
<1>3. CASE JoinInstalls(o)
  <2>1. op[o].kind = "join" /\ Goto(o, "await") /\ UNCHANGED <<invitations, lossKnown>>
    BY <1>3 DEF JoinInstalls, At
  <2>2. op[o].guest \in Guests /\ op[o].token \in Clusters \cup {None}
    BY <1>0, <2>1 DEF MembershipInv, MembershipOps
  <2>3. unit' \in [Guests -> {"absent", "staged", "running", "stopped"}]
    BY <1>0, <1>3 DEF JoinInstalls, ResumesCluster, StageBinary
  <2>4. cluster' \in [Guests -> Clusters \cup {None}] /\ members' \in [Clusters -> SUBSET Guests]
    <3> DEFINE g == op[o].guest
               c == op[o].token
    <3>1. \/ UNCHANGED <<cluster, members>>
          \/ cluster' = [cluster EXCEPT ![g] = c] /\ members' = [members EXCEPT ![c] = @ \cup {g}]
      BY <1>3 DEF JoinInstalls
    <3>2. g \in Guests /\ c \in Clusters \cup {None}
      BY <2>2
    <3> HIDE DEF g, c
    <3> QED
      BY <1>0, <3>1, <3>2
  <2>5. /\ op' \in [Operators -> MembershipOps] /\ \A q \in Operators : q # o => op'[q] = op[q]
        /\ op'[o].kind = "join" /\ op'[o].guest = op[o].guest /\ op'[o].arg = op[o].arg
    BY <2>1, GotoOf
  <2> QED
    BY <1>0, <2>1, <2>2, <2>3, <2>4, <2>5, CallStepKeepsInv
<1>4. CASE JoinSettles(o) /\ UNCHANGED invitation
  <2>1. op[o].kind = "join" /\ Return(o) /\ UNCHANGED <<unit, cluster, members, invitations, lossKnown>>
    BY <1>4 DEF JoinSettles, At, guests, invitations
  <2>2. /\ op' \in [Operators -> MembershipOps] /\ \A q \in Operators : q # o => op'[q] = op[q]
        /\ op'[o].kind = "none"
    BY <2>1, ReturnOf
  <2> QED
    BY <1>0, <2>1, <2>2, CallStepKeepsInv
<1>5. CASE JoinSettles(o) /\ invitation' # invitation
  <2> DEFINE h == Home[op[o].guest]
             r == op[o].arg
  <2>1. /\ op[o].kind = "join" /\ Return(o) /\ UNCHANGED <<unit, cluster, members, sealed, expired, key, lossKnown>>
        /\ invitation' = [invitation EXCEPT ![h][r] = "none"] /\ r # None
    BY <1>5 DEF JoinSettles, At, guests
  <2>2. h \in GuestHosts /\ r \in Refs /\ op[o].guest \in Guests
    BY <2>1, HomeAssumption DEF MembershipInv, JoinHolds
  <2>3. /\ op' \in [Operators -> MembershipOps] /\ \A q \in Operators : q # o => op'[q] = op[q]
        /\ op'[o].kind = "none"
    BY <2>1, ReturnOf
  <2>4. /\ invitation' \in [GuestHosts -> [Refs -> {"none", "open", "redeemed", "consumed"}]]
        /\ \A g \in GuestHosts, x \in Refs : <<g, x>> # <<h, r>> => invitation'[g][x] = invitation[g][x]
    BY <1>0, <2>1, <2>2
  <2>5. ASSUME NEW q \in Operators, op[q].kind = "join", q # o
        PROVE  ~(op[q].arg = r /\ Home[op[q].guest] = h)
    BY <2>1, <2>5 DEF MembershipInv, OneJoinPerInvitation
  <2> HIDE DEF h, r
  <2>6. JoinHolds'
    <3>1. ASSUME NEW q \in Operators, op'[q].kind = "join", op'[q].arg # None
          PROVE  /\ op'[q].guest \in Guests /\ op'[q].arg \in Refs
                 /\ invitation'[Home[op'[q].guest]][op'[q].arg] = "consumed"
      <4>1. /\ op[q].kind = "join" /\ op[q].guest \in Guests /\ op[q].arg \in Refs /\ op'[q] = op[q] /\ q # o
            /\ invitation[Home[op[q].guest]][op[q].arg] = "consumed" /\ Home[op[q].guest] \in GuestHosts
        BY <2>3, <3>1, HomeAssumption DEF MembershipInv, JoinHolds
      <4> QED
        BY <2>4, <2>5, <4>1
    <3> QED
      BY <3>1 DEF JoinHolds
  <2>7. OneJoinPerInvitation'
    BY <2>3 DEF MembershipInv, OneJoinPerInvitation
  <2>8. /\ \A q \in Operators : op'[q].kind # "none" => op'[q].guest \in Guests
    BY <2>3 DEF MembershipInv
  <2>9. MembershipTypeOK'
    BY <2>1, <2>3, <2>4 DEF MembershipInv, MembershipTypeOK
  <2> QED
    BY <2>6, <2>7, <2>8, <2>9 DEF MembershipInv
<1> QED
  BY <1>1, <1>2, <1>3, <1>4, <1>5

\* Steps of no call: an invitation that is consumed stays so.
LEMMA InvitesKeepInv ==
  ASSUME MembershipInv, UNCHANGED op, MembershipTypeOK',
         \A h \in GuestHosts, r \in Refs : invitation[h][r] = "consumed" => invitation'[h][r] = "consumed"
  PROVE  MembershipInv'
<1>1. JoinHolds'
  BY HomeAssumption DEF MembershipInv, JoinHolds
<1>2. OneJoinPerInvitation'
  BY DEF MembershipInv, OneJoinPerInvitation
<1>3. /\ \A q \in Operators : op'[q].kind # "none" => op'[q].guest \in Guests
  BY DEF MembershipInv
<1> QED
  BY <1>1, <1>2, <1>3 DEF MembershipInv

\* Steps of guests, preparations, redemptions and expiries.
LEMMA GuestsKeepInv ==
  ASSUME MembershipInv,
         \/ \E g \in Guests : Remove(g) \/ GuestStops(g) \/ GuestStarts(g)
         \/ \E g \in Guests, r \in Refs, d \in GuestHosts, withKey \in BOOLEAN : prepareJoin(g, r, d, withKey)
         \/ \E h \in GuestHosts, r \in Refs : redeemJoin(h, r)
         \/ \E r \in Refs : Expire(r)
  PROVE  MembershipInv'
<1> USE DEF MembershipInv, MembershipTypeOK
<1>1. ASSUME NEW g \in Guests, Remove(g) \/ GuestStops(g) \/ GuestStarts(g)
      PROVE  MembershipInv'
  <2>1. UNCHANGED <<members, invitation, sealed, expired, key, op>> /\ lossKnown' \subseteq Clusters
    BY <1>1 DEF Remove, GuestStops, GuestStarts, invitations, LossTold
  <2>2. /\ unit' \in [Guests -> {"absent", "staged", "running", "stopped"}]
        /\ cluster' \in [Guests -> Clusters \cup {None}]
    BY <1>1 DEF Remove, GuestStops, GuestStarts
  <2>3. MembershipTypeOK'
    BY <2>1, <2>2
  <2> HIDE DEF MembershipInv, MembershipTypeOK
  <2> QED
    BY <2>1, <2>3, InvitesKeepInv
<1>2. ASSUME NEW g \in Guests, NEW r \in Refs, NEW d \in GuestHosts, NEW withKey \in BOOLEAN,
             prepareJoin(g, r, d, withKey)
      PROVE  MembershipInv'
  <2>1. /\ \A h \in GuestHosts : invitation[h][r] = "none" /\ Home[g] \in GuestHosts
        /\ invitation' = [invitation EXCEPT ![Home[g]][r] = "open"]
        /\ UNCHANGED <<unit, cluster, members, expired, key, op, lossKnown>>
    BY <1>2, HomeAssumption DEF prepareJoin, guests
  <2>2. sealed' \in [Refs -> [cluster : Clusters \cup {None}, host : GuestHosts \cup {None}, key : Nat]]
    BY <1>2 DEF prepareJoin
  <2>3. /\ invitation' \in [GuestHosts -> [Refs -> {"none", "open", "redeemed", "consumed"}]]
        /\ \A h \in GuestHosts, x \in Refs : invitation[h][x] = "consumed" => invitation'[h][x] = "consumed"
    BY <2>1
  <2>4. MembershipTypeOK'
    BY <2>1, <2>2, <2>3
  <2> HIDE DEF MembershipInv, MembershipTypeOK
  <2> QED
    BY <2>1, <2>3, <2>4, InvitesKeepInv
<1>3. ASSUME NEW h \in GuestHosts, NEW r \in Refs, redeemJoin(h, r)
      PROVE  MembershipInv'
  <2>1. /\ invitation[h][r] # "consumed" /\ invitation' = [invitation EXCEPT ![h][r] = "redeemed"]
        /\ UNCHANGED <<unit, cluster, members, sealed, expired, key, op, lossKnown>>
    BY <1>3 DEF redeemJoin, guests
  <2>2. /\ invitation' \in [GuestHosts -> [Refs -> {"none", "open", "redeemed", "consumed"}]]
        /\ \A g \in GuestHosts, x \in Refs : invitation[g][x] = "consumed" => invitation'[g][x] = "consumed"
    BY <2>1
  <2>3. MembershipTypeOK'
    BY <2>1, <2>2
  <2> HIDE DEF MembershipInv, MembershipTypeOK
  <2> QED
    BY <2>1, <2>2, <2>3, InvitesKeepInv
<1>4. ASSUME NEW r \in Refs, Expire(r)
      PROVE  MembershipInv'
  <2>1. UNCHANGED <<unit, cluster, members, invitation, sealed, key, op, lossKnown>> /\ expired' \subseteq Refs
    BY <1>4 DEF Expire, guests
  <2>2. MembershipTypeOK'
    BY <2>1
  <2> HIDE DEF MembershipInv, MembershipTypeOK
  <2> QED
    BY <2>1, <2>2, InvitesKeepInv
<1> QED
  BY <1>1, <1>2, <1>3, <1>4

\* A provider that restarts forgets its invitations and its calls together.
LEMMA ProviderRestartKeepsInv ==
  ASSUME MembershipInv, NEW h \in GuestHosts, ProviderRestarts(h)
  PROVE  MembershipInv'
<1>1. /\ op' = [o \in Operators |-> IF op[o] # NoOp /\ Home[op[o].guest] = h THEN NoOp ELSE op[o]]
      /\ invitation' = [invitation EXCEPT ![h] = [r \in Refs |-> "none"]]
      /\ key' = [key EXCEPT ![h] = @ + 1]
      /\ UNCHANGED <<unit, cluster, members, sealed, expired>> /\ lossKnown' \subseteq Clusters
  BY DEF ProviderRestarts, guests, LossTold, MembershipInv, MembershipTypeOK
<1>2. NoOp \in MembershipOps /\ NoOp.kind = "none"
  BY DEF NoOp, MembershipOps
<1>3. /\ op \in [Operators -> MembershipOps]
      /\ invitation \in [GuestHosts -> [Refs -> {"none", "open", "redeemed", "consumed"}]]
      /\ key \in [GuestHosts -> Nat]
  BY DEF MembershipInv, MembershipTypeOK
<1>4. \A q \in Operators : \/ op'[q].kind = "none"
                           \/ op'[q] = op[q] /\ (op[q] = NoOp \/ Home[op[q].guest] # h)
  BY <1>1, <1>2
<1>5. /\ op' \in [Operators -> MembershipOps]
      /\ invitation' \in [GuestHosts -> [Refs -> {"none", "open", "redeemed", "consumed"}]]
      /\ \A g \in GuestHosts : g # h => invitation'[g] = invitation[g]
      /\ key' \in [GuestHosts -> Nat]
  BY <1>1, <1>2, <1>3
<1>6. MembershipTypeOK'
  BY <1>1, <1>5 DEF MembershipInv, MembershipTypeOK
<1>7. JoinHolds'
  BY <1>2, <1>4, <1>5, HomeAssumption DEF MembershipInv, JoinHolds
<1>8. OneJoinPerInvitation'
  BY <1>4 DEF MembershipInv, OneJoinPerInvitation
<1>9. /\ \A q \in Operators : op'[q].kind # "none" => op'[q].guest \in Guests
  BY <1>4 DEF MembershipInv
<1> QED
  BY <1>6, <1>7, <1>8, <1>9 DEF MembershipInv

\* Every behaviour of the K3s providers keeps the invitations that its joins
\* rely on.
THEOREM MembershipInvariant == MembershipSpec => []MembershipInv
<1>1. MembershipInit => MembershipInv
  <2> SUFFICES ASSUME MembershipInit PROVE MembershipInv
    OBVIOUS
  <2>1. NoOp \in MembershipOps /\ NoOp.kind = "none" /\ \A o \in Operators : op[o] = NoOp
    BY DEF NoOp, MembershipOps, MembershipInit
  <2>2. /\ unit \in [Guests -> {"absent", "staged", "running", "stopped"}]
        /\ cluster \in [Guests -> Clusters \cup {None}] /\ members \in [Clusters -> SUBSET Guests]
    BY ServersAssumption DEF MembershipInit
  <2>3. sealed \in [Refs -> [cluster : Clusters \cup {None}, host : GuestHosts \cup {None}, key : Nat]]
    <3>1. /\ [cluster : {None}, host : {None}, key : {0}]
               \subseteq [cluster : Clusters \cup {None}, host : GuestHosts \cup {None}, key : Nat]
          /\ [cluster : {First}, host : GuestHosts, key : {0}]
               \subseteq [cluster : Clusters \cup {None}, host : GuestHosts \cup {None}, key : Nat]
      BY ServersAssumption
    <3> QED
      BY <3>1 DEF MembershipInit
  <2>4. invitation \in [GuestHosts -> [Refs -> {"none", "open", "redeemed", "consumed"}]]
    BY DEF MembershipInit
  <2>5. lossKnown \subseteq Clusters /\ expired \subseteq Refs /\ key \in [GuestHosts -> Nat] /\ op \in [Operators -> MembershipOps]
    BY <2>1 DEF MembershipInit
  <2> QED
    BY <2>1, <2>2, <2>3, <2>4, <2>5 DEF MembershipInv, MembershipTypeOK, JoinHolds, OneJoinPerInvitation
<1>2. MembershipInv /\ [MembershipNext]_membershipVars => MembershipInv'
  <2> SUFFICES ASSUME MembershipInv, [MembershipNext]_membershipVars PROVE MembershipInv'
    OBVIOUS
  <2>1. CASE UNCHANGED membershipVars
    <3>1. UNCHANGED op /\ MembershipTypeOK' /\ UNCHANGED invitation
      BY <2>1 DEF membershipVars, MembershipInv, MembershipTypeOK
    <3> QED
      BY <3>1, InvitesKeepInv
  <2>2. CASE MembershipNext
    BY <2>2, ProvisionKeepsInv, RecoverKeepsInv, RemovalKeepsInv, JoinKeepsInv, GuestsKeepInv,
       ProviderRestartKeepsInv DEF MembershipNext
  <2> QED
    BY <2>1, <2>2
<1> QED
  BY <1>1, <1>2, PTL DEF MembershipSpec

\* A provider uses an invitation for one join at a time, however redemption,
\* sealed copies, concurrent joins and restarts interleave (joinTokenForNode
\* marks it consumed before the installer runs, and only redeemed ones pass).
THEOREM InvitationsServeOneJoin == MembershipSpec => []OneJoinPerInvitation
<1>1. MembershipInv => OneJoinPerInvitation
  BY DEF MembershipInv
<1> QED
  BY <1>1, MembershipInvariant, PTL

\* What LossIsReported says of one cluster.
Reported(c) ==
  \/ HasMajority(c) \/ c \in lossKnown
  \/ \E o \in Operators : At(o, "remove", "verify") /\ cluster[op[o].guest] = c
\* Removals that have yet to verify still have to.
VerifiesStay == \A q \in Operators : At(q, "remove", "verify") => op'[q] = op[q]

\* Calls other than a removal that verifies leave those.
LEMMA CallLeavesVerifies ==
  ASSUME MembershipInv, NEW o \in Operators, op[o].kind # "remove",
         Return(o) \/ \E pc \in {"await", "verify", "stop", "reset", "start"} : Goto(o, pc)
  PROVE  VerifiesStay
  BY DEF VerifiesStay, At, Return, Goto, MembershipInv, MembershipTypeOK

LEMMA BeginLeavesVerifies ==
  ASSUME MembershipInv, NEW o \in Operators, NEW kind, NEW pc, NEW g, NEW arg, NEW token,
         Begin(o, kind, pc, g, arg, token)
  PROVE  VerifiesStay
  BY DEF VerifiesStay, At, Begin, NoOp, MembershipInv, MembershipTypeOK

\* A cluster whose members and running servers are the same has a majority as before.
LEMMA SameMajority ==
  ASSUME MembershipInv, NEW d \in Clusters, members'[d] = members[d],
         \A x \in Guests : unit'[x] = "running" /\ cluster'[x] = d <=> unit[x] = "running" /\ cluster[x] = d
  PROVE  HasMajority(d)' <=> HasMajority(d)
<1>1. members[d] \subseteq Guests
  BY DEF MembershipInv, MembershipTypeOK
<1>2. readyServers(d)' = readyServers(d)
  BY <1>1 DEF readyServers
<1> QED
  BY <1>2 DEF HasMajority

\* More servers that are ready are still a majority.
LEMMA MoreReady ==
  ASSUME MembershipInv, NEW d \in Clusters, members'[d] = members[d],
         \A x \in Guests : unit[x] = "running" /\ cluster[x] = d => unit'[x] = "running" /\ cluster'[x] = d,
         HasMajority(d)
  PROVE  HasMajority(d)'
<1>1. members[d] \subseteq Guests
  BY DEF MembershipInv, MembershipTypeOK
<1>2. readyServers(d) \subseteq readyServers(d)' /\ readyServers(d)' \subseteq members[d]
  BY <1>1 DEF readyServers
<1>3. IsFiniteSet(members[d]) /\ IsFiniteSet(readyServers(d)') /\ IsFiniteSet(readyServers(d))
  BY <1>1, <1>2, GuestsAssumption, FS_Subset
<1>4. Cardinality(readyServers(d)) <= Cardinality(readyServers(d)')
  BY <1>2, <1>3, FS_Subset
<1>5. /\ Cardinality(readyServers(d)) \in Nat /\ Cardinality(readyServers(d)') \in Nat
      /\ Cardinality(members[d]) \in Nat
  BY <1>3, FS_CardinalityType
<1>6. Cardinality(readyServers(d)) * 2 > Cardinality(members[d])
  BY DEF HasMajority, Majority
<1>7. Cardinality(readyServers(d)') * 2 > Cardinality(members[d])
  BY <1>4, <1>5, <1>6
<1> QED
  BY <1>7 DEF HasMajority, Majority

\* The server of a guest that was in no cluster joins c, which has a majority,
LEMMA JoinKeepsMajority ==
  ASSUME MembershipInv, NEW c \in Clusters, NEW g \in Guests, HasMajority(c), cluster[g] = None,
         unit' = [unit EXCEPT ![g] = "running"], cluster' = [cluster EXCEPT ![g] = c],
         members' = [members EXCEPT ![c] = @ \cup {g}]
  PROVE  HasMajority(c)'
<1>1. members[c] \subseteq Guests /\ members'[c] = members[c] \cup {g} /\ c # None
  BY NoneAssumption DEF MembershipInv, MembershipTypeOK
<1>2. readyServers(c)' = readyServers(c) \cup {g} /\ g \notin readyServers(c)
  BY <1>1 DEF readyServers, MembershipInv, MembershipTypeOK
<1>3. readyServers(c) \subseteq members[c]
  BY DEF readyServers
<1>4. IsFiniteSet(members[c]) /\ IsFiniteSet(readyServers(c))
  BY <1>1, <1>3, GuestsAssumption, FS_Subset
<1>5. /\ Cardinality(readyServers(c) \cup {g}) = Cardinality(readyServers(c)) + 1
      /\ Cardinality(members[c] \cup {g}) <= Cardinality(members[c]) + 1
      /\ Cardinality(members[c]) \in Nat /\ Cardinality(readyServers(c)) \in Nat
      /\ Cardinality(members[c] \cup {g}) \in Nat
  <2>1. Cardinality(members[c]) \in Nat /\ Cardinality(readyServers(c)) \in Nat
    BY <1>4, FS_CardinalityType
  <2>2. Cardinality(readyServers(c) \cup {g}) = Cardinality(readyServers(c)) + 1
    BY <1>2, <1>4, FS_AddElement
  <2>3. Cardinality(members[c] \cup {g})
          = IF g \in members[c] THEN Cardinality(members[c]) ELSE Cardinality(members[c]) + 1
    BY <1>4, FS_AddElement
  <2> QED
    BY <2>1, <2>2, <2>3
<1>6. Cardinality(readyServers(c)) * 2 > Cardinality(members[c])
  BY DEF HasMajority, Majority
<1>7. Cardinality(readyServers(c) \cup {g}) * 2 > Cardinality(members[c] \cup {g})
  BY <1>5, <1>6
<1> QED
  BY <1>1, <1>2, <1>7 DEF HasMajority, Majority

\* and a server that starts a cluster is its majority.
LEMMA StartHasMajority ==
  ASSUME MembershipInv, NEW c \in Clusters, NEW g \in Guests, StartsCluster(g, c)
  PROVE  HasMajority(c)'
<1>1. members'[c] = {g} /\ unit'[g] = "running" /\ cluster'[g] = c
  BY DEF StartsCluster, MembershipInv, MembershipTypeOK
<1>2. readyServers(c)' = {g}
  BY <1>1 DEF readyServers
<1>3. Cardinality({g}) = 1
  <2>1. Cardinality({} \cup {g}) = 1
    BY FS_EmptySet, FS_AddElement
  <2>2. {} \cup {g} = {g}
    OBVIOUS
  <2> QED
    BY <2>1, <2>2
<1> QED
  BY <1>1, <1>2, <1>3 DEF HasMajority, Majority

\* Steps that change no guest.
LEMMA IdleReports ==
  ASSUME MembershipInv, LossIsReported, UNCHANGED guests, lossKnown \subseteq lossKnown', VerifiesStay
  PROVE  LossIsReported'
<1>1. ASSUME NEW c \in Clusters PROVE HasMajority(c)' <=> HasMajority(c)
  BY <1>1 DEF guests, HasMajority, readyServers
<1>2. cluster \in [Guests -> Clusters \cup {None}] /\ cluster' = cluster
  BY DEF guests, MembershipInv, MembershipTypeOK
<1>3. \A o \in Operators : At(o, "remove", "verify") => At(o, "remove", "verify")' /\ op'[o].guest = op[o].guest
  BY DEF VerifiesStay, At
<1> QED
  BY <1>1, <1>2, <1>3 DEF LossIsReported

\* A guest starts, or stops and its cluster is told, or leaves and is told.
LEMMA GuestReports ==
  ASSUME MembershipInv, LossIsReported, NEW g \in Guests, UNCHANGED members,
         \A x \in Guests : x # g => unit'[x] = unit[x] /\ cluster'[x] = cluster[x],
         \/ LossTold({g}) /\ cluster'[g] \in {cluster[g], None}
         \/ lossKnown \subseteq lossKnown' /\ cluster'[g] = cluster[g]
              /\ (unit'[g] = "running" \/ unit[g] # "running"),
         VerifiesStay
  PROVE  LossIsReported'
<1> SUFFICES ASSUME NEW x \in Guests, cluster'[x] # None PROVE Reported(cluster[x])'
  <2>1. ASSUME NEW x \in Guests, cluster'[x] # None PROVE cluster'[x] = cluster[x]
    BY <2>1
  <2> QED
    BY <2>1 DEF LossIsReported, Reported
<1>0. cluster[x] \in Clusters /\ Reported(cluster[x]) /\ cluster'[x] = cluster[x]
  BY DEF LossIsReported, Reported, MembershipInv, MembershipTypeOK
<1> PICK d \in Clusters : d = cluster[x]
  BY <1>0
<1>1. Reported(d) /\ cluster'[x] = d /\ d = cluster[x]
  BY <1>0
<1>2. lossKnown \subseteq lossKnown'
  BY DEF LossTold
<1>3. \A o \in Operators : At(o, "remove", "verify") => op[o].guest \in Guests
  BY DEF MembershipInv, At
<1>4. CASE d # cluster[g]
  <2>1. HasMajority(d)' <=> HasMajority(d)
    BY <1>1, <1>4, NoneAssumption, SameMajority
  <2>2. \A o \in Operators : At(o, "remove", "verify") /\ cluster[op[o].guest] = d
           => At(o, "remove", "verify")' /\ cluster'[op'[o].guest] = d
    BY <1>3, <1>4 DEF VerifiesStay, At
  <2> QED
    BY <1>1, <1>2, <2>1, <2>2 DEF Reported
<1>5. CASE d = cluster[g] /\ LossTold({g})
  <2>1. HasMajority(d)' \/ d \in lossKnown'
    BY <1>1, <1>5 DEF LossTold
  <2> QED
    BY <1>1, <2>1 DEF Reported
<1>6. CASE d = cluster[g] /\ ~LossTold({g})
  <2>1. HasMajority(d) => HasMajority(d)'
    BY <1>1, <1>6, MoreReady
  <2>2. \A o \in Operators : At(o, "remove", "verify") /\ cluster[op[o].guest] = d
           => At(o, "remove", "verify")' /\ cluster'[op'[o].guest] = d
    BY <1>3, <1>6 DEF VerifiesStay, At
  <2> QED
    BY <1>1, <1>2, <2>1, <2>2 DEF Reported
<1> QED
  BY <1>4, <1>5, <1>6

\* A guest comes to a cluster that has a majority with it, or that is told.
LEMMA ArrivalReports ==
  ASSUME MembershipInv, LossIsReported, NEW g \in Guests, NEW c \in Clusters,
         cluster' = [cluster EXCEPT ![g] = c], \A x \in Guests : x # g => unit'[x] = unit[x],
         \A d \in Clusters : d # c => members'[d] = members[d],
         lossKnown \subseteq lossKnown', HasMajority(c)' \/ c \in lossKnown',
         cluster[g] \in Clusters => cluster[g] \in lossKnown', VerifiesStay
  PROVE  LossIsReported'
<1>1. cluster \in [Guests -> Clusters \cup {None}]
  BY DEF MembershipInv, MembershipTypeOK
<1> SUFFICES ASSUME NEW x \in Guests, cluster'[x] # None PROVE Reported(cluster[x])' \/ cluster'[x] = c
  BY DEF LossIsReported, Reported
<1> SUFFICES ASSUME cluster'[x] # c PROVE Reported(cluster[x])'
  OBVIOUS
<1>0. cluster[x] \in Clusters /\ Reported(cluster[x]) /\ cluster'[x] = cluster[x] /\ x # g
  BY <1>1 DEF LossIsReported, Reported
<1> PICK d \in Clusters : d = cluster[x]
  BY <1>0
<1>2. Reported(d) /\ cluster'[x] = d /\ x # g /\ d # c /\ d = cluster[x]
  BY <1>0
<1>3. \A o \in Operators : At(o, "remove", "verify") => op[o].guest \in Guests
  BY DEF MembershipInv, At
<1>4. CASE d = cluster[g]
  BY <1>2, <1>4 DEF Reported
<1>5. CASE d # cluster[g]
  <2>1. HasMajority(d)' <=> HasMajority(d)
    BY <1>1, <1>2, <1>5, SameMajority
  <2>2. \A o \in Operators : At(o, "remove", "verify") /\ cluster[op[o].guest] = d
           => At(o, "remove", "verify")' /\ cluster'[op'[o].guest] = d
    BY <1>1, <1>3, <1>5 DEF VerifiesStay, At
  <2> QED
    BY <1>2, <2>1, <2>2 DEF Reported
<1> QED
  BY <1>4, <1>5

\* Every step of a call that is no removal,
LEMMA CallReports ==
  ASSUME MembershipInv, LossIsReported, NEW o \in Operators,
         \/ \E g \in Guests : Provision(o, g) \/ Restart(o, g) \/ recoverQuorum(o, g)
         \/ \E g \in Guests, r \in Refs : joinTokenForNode(o, g, r)
         \/ ProvisionInstalls(o) \/ AwaitsClusterInfo(o) \/ JoinInstalls(o) \/ JoinSettles(o)
         \/ RecoverProbes(o) \/ RecoverStops(o) \/ RecoverResets(o) \/ RecoverStarts(o)
  PROVE  LossIsReported'
<1>0. /\ unit \in [Guests -> {"absent", "staged", "running", "stopped"}]
      /\ cluster \in [Guests -> Clusters \cup {None}] /\ members \in [Clusters -> SUBSET Guests]
      /\ op \in [Operators -> MembershipOps]
  BY DEF MembershipInv, MembershipTypeOK
<1> DEFINE g == op[o].guest
<1>a. op[o].kind # "none" => g \in Guests
  BY DEF MembershipInv
<1>b. op[o].kind # "remove" /\ (Return(o) \/ \E pc \in {"await", "verify", "stop", "reset", "start"} : Goto(o, pc))
        => VerifiesStay
  BY CallLeavesVerifies
<1>1. ASSUME NEW x \in Guests, Provision(o, x) \/ recoverQuorum(o, x)
      PROVE  LossIsReported'
  <2>1. VerifiesStay
    BY <1>1, BeginLeavesVerifies DEF Provision, recoverQuorum
  <2> QED
    BY <1>1, <2>1, IdleReports DEF Provision, recoverQuorum
<1>2. ASSUME NEW x \in Guests, Restart(o, x)
      PROVE  LossIsReported'
  <2>1. VerifiesStay
    BY <1>2, BeginLeavesVerifies DEF Restart
  <2>2. LossTold({x}) /\ UNCHANGED <<cluster, members>> /\ \A y \in Guests : y # x => unit'[y] = unit[y]
    BY <1>0, <1>2 DEF Restart
  <2> QED
    BY <2>1, <2>2, GuestReports
<1>3. ASSUME NEW x \in Guests, NEW r \in Refs, joinTokenForNode(o, x, r)
      PROVE  LossIsReported'
  <2>1. VerifiesStay
    BY <1>3, BeginLeavesVerifies DEF joinTokenForNode
  <2> QED
    BY <1>3, <2>1, IdleReports DEF joinTokenForNode
<1>4. CASE ProvisionInstalls(o)
  <2>1. VerifiesStay /\ g \in Guests /\ UNCHANGED lossKnown
    BY <1>4, <1>a, <1>b DEF ProvisionInstalls, At
  <2> HIDE DEF g
  <2>2. ASSUME NEW c \in Clusters, StartsCluster(g, c)
        PROVE  LossIsReported'
    <3>1. PICK x \in Guests : x = g
      BY <2>1
    <3>2. StartsCluster(x, c)
      BY <2>2, <3>1
    <3>3. HasMajority(c)'
      BY <3>2, StartHasMajority
    <3> QED
      BY <1>0, <2>1, <3>2, <3>3, NoneAssumption, ArrivalReports DEF StartsCluster
  <2>3. CASE UNCHANGED <<cluster, members>> /\ (ResumesCluster(g) \/ StageBinary(g) \/ UNCHANGED unit)
    <3>1. PICK x \in Guests : x = g
      BY <2>1
    <3>2. /\ \A y \in Guests : y # x => unit'[y] = unit[y]
          /\ unit'[x] = "running" \/ unit[x] # "running"
      BY <1>0, <2>3, <3>1 DEF ResumesCluster, StageBinary
    <3> QED
      BY <2>1, <2>3, <3>2, GuestReports
  <2> QED
    BY <1>4, <2>2, <2>3 DEF ProvisionInstalls, g
<1>5. CASE AwaitsClusterInfo(o) \/ JoinSettles(o) \/ RecoverProbes(o)
  <2>1. VerifiesStay
    BY <1>5, <1>b DEF AwaitsClusterInfo, JoinSettles, RecoverProbes, At
  <2> QED
    BY <1>5, <2>1, IdleReports DEF AwaitsClusterInfo, JoinSettles, RecoverProbes
<1>6. CASE JoinInstalls(o)
  <2>1. VerifiesStay /\ g \in Guests /\ UNCHANGED lossKnown
    BY <1>6, <1>a, <1>b DEF JoinInstalls, At
  <2>2. op[o].token \in Clusters \cup {None}
    BY <1>0 DEF MembershipOps
  <2> HIDE DEF g
  <2>3. CASE UNCHANGED <<cluster, members>> /\ (ResumesCluster(g) \/ StageBinary(g) \/ UNCHANGED unit)
    <3>1. PICK x \in Guests : x = g
      BY <2>1
    <3>2. /\ \A y \in Guests : y # x => unit'[y] = unit[y]
          /\ unit'[x] = "running" \/ unit[x] # "running"
      BY <1>0, <2>3, <3>1 DEF ResumesCluster, StageBinary
    <3> QED
      BY <2>1, <2>3, <3>2, GuestReports
  <2>4. ASSUME NEW c \in Clusters \cup {None}, c = op[o].token, cluster[g] = None, HasMajority(c),
               unit' = [unit EXCEPT ![g] = "running"], cluster' = [cluster EXCEPT ![g] = c],
               members' = [members EXCEPT ![c] = @ \cup {g}]
        PROVE  LossIsReported'
    <3>1. PICK x \in Guests : x = g
      BY <2>1
    <3>2. CASE c = None
      <4>1. UNCHANGED <<cluster, members>> /\ unit'[x] = "running" /\ \A y \in Guests : y # x => unit'[y] = unit[y]
        BY <1>0, <2>4, <3>1, <3>2, NoneAssumption
      <4> QED
        BY <2>1, <4>1, GuestReports
    <3>3. CASE c \in Clusters
      <4>1. HasMajority(c)'
        BY <2>4, <3>1, <3>3, JoinKeepsMajority
      <4> QED
        BY <1>0, <2>1, <2>4, <3>1, <3>3, <4>1, NoneAssumption, ArrivalReports
    <3> QED
      BY <3>2, <3>3
  <2> QED
    BY <1>6, <2>2, <2>3, <2>4 DEF JoinInstalls, g
<1>7. CASE RecoverStops(o) \/ RecoverStarts(o)
  <2>1. VerifiesStay /\ g \in Guests
    BY <1>7, <1>a, <1>b DEF RecoverStops, RecoverStarts, At
  <2>2. PICK x \in Guests : x = g
    BY <2>1
  <2>3. /\ UNCHANGED <<cluster, members>> /\ \A y \in Guests : y # x => unit'[y] = unit[y]
        /\ LossTold({x}) \/ (UNCHANGED lossKnown /\ (unit'[x] = "running" \/ unit[x] # "running"))
    <3>1. CASE RecoverStops(o)
      <4>1. LossTold({g}) /\ {x} = {g}
        BY <2>2, <3>1 DEF RecoverStops
      <4>2. LossTold({x})
        BY <4>1 DEF LossTold
      <4>3. UNCHANGED <<cluster, members>> /\ \A y \in Guests : y # x => unit'[y] = unit[y]
        BY <1>0, <2>2, <3>1 DEF RecoverStops
      <4> QED
        BY <4>2, <4>3
    <3>2. CASE RecoverStarts(o)
      BY <1>0, <2>2, <3>2 DEF RecoverStarts
    <3> QED
      BY <1>7, <3>1, <3>2
  <2> QED
    BY <2>1, <2>3, GuestReports
<1>8. CASE RecoverResets(o)
  <2>1. VerifiesStay /\ g \in Guests
    BY <1>8, <1>a, <1>b DEF RecoverResets, At
  <2>2. PICK x \in Guests : x = g
    BY <2>1
  <2>3. CASE UNCHANGED <<cluster, members, lossKnown, unit>>
    BY <2>1, <2>3, IdleReports DEF guests
  <2>4. ASSUME NEW c \in Clusters, cluster' = [cluster EXCEPT ![x] = c], members' = [members EXCEPT ![c] = {x}],
               lossKnown' = lossKnown \cup {c, cluster[x]}, UNCHANGED unit
        PROVE  LossIsReported'
    BY <1>0, <2>1, <2>4, ArrivalReports
  <2> QED
    BY <1>8, <2>2, <2>3, <2>4 DEF RecoverResets
<1> QED
  BY <1>1, <1>2, <1>3, <1>4, <1>5, <1>6, <1>7, <1>8

\* of a removal,
LEMMA RemovalReports ==
  ASSUME MembershipInv, LossIsReported, NEW o \in Operators,
         RemoveDeletes(o) \/ RemoveVerifies(o) \/ \E g, node \in Guests : removeNode(o, g, node)
  PROVE  LossIsReported'
<1>0. /\ cluster \in [Guests -> Clusters \cup {None}] /\ members \in [Clusters -> SUBSET Guests]
      /\ op \in [Operators -> MembershipOps]
  BY DEF MembershipInv, MembershipTypeOK
<1>1. ASSUME NEW g \in Guests, NEW node \in Guests, removeNode(o, g, node)
      PROVE  LossIsReported'
  <2>1. VerifiesStay
    BY <1>1, BeginLeavesVerifies DEF removeNode
  <2> QED
    BY <1>1, <2>1, IdleReports DEF removeNode
<1>2. CASE RemoveDeletes(o)
  <2>1. PICK g \in Guests : g = op[o].guest
    BY <1>2 DEF RemoveDeletes, At, MembershipInv
  <2>2. /\ VerifiesStay /\ UNCHANGED <<unit, cluster>>
        /\ \A d \in Clusters : d # cluster[g] => members'[d] = members[d]
        /\ (At(o, "remove", "verify")' /\ op'[o].guest = g /\ UNCHANGED lossKnown) \/ LossTold({g})
    BY <1>0, <1>2, <2>1 DEF RemoveDeletes, At, Return, Goto, VerifiesStay, MembershipOps
  <2> SUFFICES ASSUME NEW x \in Guests, cluster'[x] # None PROVE Reported(cluster[x])'
    BY DEF LossIsReported, Reported
  <2>3. cluster[x] \in Clusters /\ Reported(cluster[x])
    BY <1>0, <2>2 DEF LossIsReported, Reported
  <2> PICK d \in Clusters : d = cluster[x]
    BY <2>3
  <2>4. Reported(d) /\ lossKnown \subseteq lossKnown' /\ cluster'[x] = d
    BY <2>2, <2>3 DEF LossTold
  <2>5. CASE d = cluster[g]
    BY <2>2, <2>4, <2>5 DEF Reported, LossTold
  <2>6. CASE d # cluster[g]
    <3>1. HasMajority(d)' <=> HasMajority(d)
      BY <2>2, <2>6, SameMajority
    <3>2. \A q \in Operators : At(q, "remove", "verify") /\ cluster[op[q].guest] = d
             => At(q, "remove", "verify")' /\ cluster'[op'[q].guest] = d
      BY <2>2 DEF VerifiesStay, At
    <3> QED
      BY <2>4, <3>1, <3>2 DEF Reported
  <2> QED
    BY <2>5, <2>6
<1>3. CASE RemoveVerifies(o)
  <2>1. PICK g \in Guests : g = op[o].guest
    BY <1>3 DEF RemoveVerifies, At, MembershipInv
  <2>2. /\ UNCHANGED guests /\ \A q \in Operators : q # o => op'[q] = op[q]
        /\ (readMembership(g) /\ UNCHANGED lossKnown) \/ LossTold({g})
    BY <1>0, <1>3, <2>1 DEF RemoveVerifies, Return
  <2> SUFFICES ASSUME NEW x \in Guests, cluster'[x] # None PROVE Reported(cluster[x])'
    BY DEF LossIsReported, Reported
  <2>3. cluster[x] \in Clusters /\ Reported(cluster[x]) /\ UNCHANGED <<unit, cluster, members>>
    BY <1>0, <2>2 DEF LossIsReported, Reported, guests
  <2> PICK d \in Clusters : d = cluster[x]
    BY <2>3
  <2>4. Reported(d) /\ lossKnown \subseteq lossKnown' /\ cluster'[x] = d
    BY <2>2, <2>3 DEF LossTold
  <2>5. HasMajority(d)' <=> HasMajority(d)
    BY <2>3, SameMajority
  <2>6. CASE d = cluster[g]
    <3>1. HasMajority(d)' \/ d \in lossKnown'
      BY <2>2, <2>5, <2>6 DEF LossTold, readMembership
    <3> QED
      BY <2>4, <3>1 DEF Reported
  <2>7. CASE d # cluster[g]
    <3>1. \A q \in Operators : At(q, "remove", "verify") /\ cluster[op[q].guest] = d
             => At(q, "remove", "verify")' /\ cluster'[op'[q].guest] = d
      BY <2>1, <2>2, <2>3, <2>7 DEF At
    <3> QED
      BY <2>4, <2>5, <3>1 DEF Reported
  <2> QED
    BY <2>6, <2>7
<1> QED
  BY <1>1, <1>2, <1>3

\* of the guests and of the providers' processes.
LEMMA AroundReports ==
  ASSUME MembershipInv, LossIsReported,
         \/ \E g \in Guests : Remove(g) \/ GuestStops(g) \/ GuestStarts(g)
         \/ \E g \in Guests, r \in Refs, d \in GuestHosts, withKey \in BOOLEAN : prepareJoin(g, r, d, withKey)
         \/ \E h \in GuestHosts : ProviderRestarts(h) \/ \E r \in Refs : redeemJoin(h, r)
         \/ \E r \in Refs : Expire(r)
  PROVE  LossIsReported'
<1>0. /\ unit \in [Guests -> {"absent", "staged", "running", "stopped"}]
      /\ cluster \in [Guests -> Clusters \cup {None}] /\ op \in [Operators -> MembershipOps]
  BY DEF MembershipInv, MembershipTypeOK
<1>1. ASSUME NEW g \in Guests, Remove(g) \/ GuestStops(g) \/ GuestStarts(g)
      PROVE  LossIsReported'
  <2>1. VerifiesStay /\ UNCHANGED members
    BY <1>1 DEF Remove, GuestStops, GuestStarts, VerifiesStay
  <2>2. /\ \A x \in Guests : x # g => unit'[x] = unit[x] /\ cluster'[x] = cluster[x]
        /\ \/ LossTold({g}) /\ cluster'[g] \in {cluster[g], None}
           \/ UNCHANGED lossKnown /\ cluster'[g] = cluster[g] /\ unit'[g] = "running"
    BY <1>0, <1>1 DEF Remove, GuestStops, GuestStarts
  <2> QED
    BY <2>1, <2>2, GuestReports
<1>2. ASSUME \/ \E g \in Guests, r \in Refs, d \in GuestHosts, withKey \in BOOLEAN : prepareJoin(g, r, d, withKey)
             \/ \E h \in GuestHosts, r \in Refs : redeemJoin(h, r)
             \/ \E r \in Refs : Expire(r)
      PROVE  LossIsReported'
  <2>1. UNCHANGED <<guests, lossKnown, op>>
    BY <1>2 DEF prepareJoin, redeemJoin, Expire
  <2> QED
    BY <2>1, IdleReports DEF VerifiesStay
<1>3. ASSUME NEW h \in GuestHosts, ProviderRestarts(h)
      PROVE  LossIsReported'
  <2> DEFINE Gone == {op[q].guest : q \in {q \in Operators : At(q, "remove", "verify") /\ op'[q] = NoOp}}
  <2>1. /\ UNCHANGED guests /\ LossTold(Gone)
        /\ \A q \in Operators : op'[q] = op[q] \/ op'[q] = NoOp
    BY <1>3 DEF ProviderRestarts
  <2> SUFFICES ASSUME NEW x \in Guests, cluster'[x] # None PROVE Reported(cluster[x])'
    BY DEF LossIsReported, Reported
  <2>2. cluster[x] \in Clusters /\ Reported(cluster[x]) /\ UNCHANGED <<unit, cluster, members>>
    BY <1>0, <2>1 DEF LossIsReported, Reported, guests
  <2> PICK d \in Clusters : d = cluster[x]
    BY <2>2
  <2>3. Reported(d) /\ lossKnown \subseteq lossKnown' /\ cluster'[x] = d
    BY <2>1, <2>2 DEF LossTold
  <2>4. HasMajority(d)' <=> HasMajority(d)
    BY <2>2, SameMajority
  <2>5. ASSUME NEW q \in Operators, At(q, "remove", "verify"), cluster[op[q].guest] = d
        PROVE  HasMajority(d)' \/ d \in lossKnown' \/ (At(q, "remove", "verify")' /\ cluster'[op'[q].guest] = d)
    <3>1. CASE op'[q] = op[q]
      BY <2>2, <2>5, <3>1 DEF At
    <3>2. CASE op'[q] = NoOp
      <4>1. op[q].guest \in Gone
        BY <2>5, <3>2
      <4>2. d \in {cluster[g] : g \in Gone} \cap Clusters
        BY <2>5, <4>1
      <4>3. HasMajority(d)' \/ d \in {c \in {cluster[g] : g \in Gone} \cap Clusters : ~HasMajority(c)'}
        BY <4>2
      <4> HIDE DEF Gone
      <4> QED
        BY <2>1, <4>3 DEF LossTold
    <3> QED
      BY <2>1, <3>1, <3>2
  <2> QED
    BY <2>3, <2>4, <2>5 DEF Reported
<1> QED
  BY <1>1, <1>2, <1>3

\* No removal costs a cluster its majority unnoticed (removeNode reads the
\* membership again after the deletion; a proof of quorum may be stale by then).
THEOREM LossesAreReported == MembershipSpec => []LossIsReported
<1>1. MembershipInit => LossIsReported
  <2> SUFFICES ASSUME MembershipInit, NEW x \in Guests, cluster[x] # None PROVE HasMajority(cluster[x])
    BY DEF LossIsReported
  <2>1. PICK S \in {Servers, Guests} :
          /\ unit = [g \in Guests |-> IF g \in S THEN "running" ELSE "absent"]
          /\ cluster = [g \in Guests |-> IF g \in S THEN First ELSE None]
          /\ members = [c \in Clusters |-> IF c = First THEN S ELSE {}]
    BY DEF MembershipInit
  <2>2. x \in S /\ cluster[x] = First /\ members[First] = S /\ S \subseteq Guests
    BY <2>1, ServersAssumption
  <2>3. readyServers(First) = S
    BY <2>1, <2>2 DEF readyServers
  <2>4. IsFiniteSet(S) /\ Cardinality(S) \in Nat /\ Cardinality(S) # 0
    BY <2>2, GuestsAssumption, FS_Subset, FS_CardinalityType, FS_EmptySet
  <2> QED
    BY <2>2, <2>3, <2>4 DEF HasMajority, Majority
<1>2. MembershipInv /\ LossIsReported /\ [MembershipNext]_membershipVars => LossIsReported'
  <2> SUFFICES ASSUME MembershipInv, LossIsReported, [MembershipNext]_membershipVars PROVE LossIsReported'
    OBVIOUS
  <2>1. CASE UNCHANGED membershipVars
    BY <2>1, IdleReports DEF membershipVars, guests, VerifiesStay
  <2>2. CASE MembershipNext
    BY <2>2, CallReports, RemovalReports, AroundReports DEF MembershipNext
  <2> QED
    BY <2>1, <2>2
<1> QED
  BY <1>1, <1>2, MembershipInvariant, PTL DEF MembershipSpec

----------------------------------------------------------------------------
\* Cloudflare.  What a call found out stays true until it acts on it, because
\* only a teardown, or the platform itself, changes what a refusal is about.
Calling == {"ensure", "ha", "remove", "undo"}
RouteRows ==
  [kind : Calling \cup {"none", "attach", "leave", "cleanup"},
   pc : {"none", "find", "create", "check", "put", "cname", "clear", "post", "connect", "install",
         "await", "read", "drop"},
   name : Names \cup {NoTunnel}, hosts : SUBSET Hosts, todo : SUBSET Hosts, guests : SUBSET Nodes,
   host : Hosts \cup Nodes \cup {NoTunnel}, tid : TunnelIds \cup MeshRefs \cup {NoTunnel},
   rec : Nat, recs : SUBSET (Hosts \X Nat), alone : BOOLEAN, overtaken : BOOLEAN]
TunnelRows == [name : Names \cup {Platform, NoTunnel}, ingress : SUBSET (Hosts \cup {PlatformHost})]
RecordRows == [to : TunnelIds \cup {NoTunnel, "elsewhere"}, id : Nat]

CloudTypeOK ==
  /\ tunnel \in [TunnelIds -> TunnelRows]
  /\ cname \in [Hosts -> RecordRows]
  /\ serial \in Nat /\ \A h \in Hosts : cname[h].id <= serial
  /\ haEndpoints \subseteq [name : Names, host : Hosts]
  /\ meshBindings \in [MeshRefs -> Nodes \cup {NoTunnel}]
  /\ route \in [Routers -> RouteRows]

NoPlatform(t) == PlatformHost \notin tunnel[t].ingress
PlatformKept == tunnel[Platform] \in {[name |-> Platform, ingress |-> {PlatformHost}], Absent}
\* The record a call is about to delete has become the platform's.
ToPlatform(r) == cname[r.host].id = r.rec /\ cname[r.host].to = Platform /\ Exists(Platform)

\* A call that is alone shares its name and hostnames with no other call.
AloneIsAlone ==
  \A c, d \in Routers : c # d /\ route[c].kind \in Calling /\ route[c].alone
                          => ~Touches(d, route[c].name, route[c].hosts)

\* Where a call is, what it holds, ...
Stepped(r) ==
  /\ r.kind \in Calling => r.tid \in (TunnelIds \ {Platform}) \cup {NoTunnel} /\ r.name \in Names /\ r.pc # "none"
  /\ r.kind = "cleanup" => r.tid \in TunnelIds \cup {NoTunnel}
  /\ r.pc \in {"put", "cname", "clear", "post", "connect", "install", "await"} => r.kind \in {"ensure", "ha"}
  /\ r.pc \in {"check", "put", "cname", "clear", "post", "connect", "install", "await"}
       => r.kind \in Calling /\ r.tid \in TunnelIds
  /\ r.todo \subseteq r.hosts
  /\ r.kind \in {"ensure", "ha"} /\ r.pc \in {"find", "create", "check", "put"} => r.todo = r.hosts
  /\ r.pc \in {"clear", "post"} => r.host \in r.todo
  /\ r.pc = "drop" => r.host \in r.hosts /\ r.kind \in Calling
  /\ r.pc \in {"connect", "install", "await"} => r.todo = {}
\* ... that this is neither the platform's tunnel nor its record, unless it was
\* overtaken, ...
Cleared(r) ==
  /\ r.kind \in Calling /\ r.pc # "check" /\ r.tid # NoTunnel /\ ~r.overtaken => NoPlatform(r.tid)
  /\ r.pc \in {"clear", "drop"} /\ ~r.overtaken => ~ToPlatform(r)
  /\ r.rec <= serial
\* ... that the tunnel has the name of the call, ...
Named(r) == r.kind \in Calling /\ r.tid # NoTunnel /\ Exists(r.tid) => tunnel[r.tid].name = r.name
\* ... and, when the call is alone, that the work it did is in place.
Published(r) ==
  r.pc \in {"cname", "clear", "post", "connect", "install", "await"} /\ r.alone =>
    /\ tunnel[r.tid] = [name |-> r.name, ingress |-> r.hosts]
    /\ \A h \in r.hosts \ r.todo : cname[h].to = r.tid
RoutePlace(c) == Stepped(route[c]) /\ Cleared(route[c]) /\ Named(route[c]) /\ Published(route[c])

CloudInv == CloudTypeOK /\ PlatformKept /\ AloneIsAlone /\ \A c \in Routers : RoutePlace(c)

\* A call that goes on, or ends, leaves the other calls as they are.
LEMMA RouteGoes ==
  ASSUME CloudInv, NEW c \in Routers, NEW r \in RouteRows, route' = [route EXCEPT ![c] = r],
         \/ r.kind \notin Calling
         \/ /\ route[c].kind \in Calling /\ r.name = route[c].name /\ r.hosts = route[c].hosts
            /\ r.alone => route[c].alone
  PROVE  /\ route' \in [Routers -> RouteRows] /\ route'[c] = r
         /\ \A d \in Routers : d # c => route'[d] = route[d]
         /\ AloneIsAlone'
<1>1. route \in [Routers -> RouteRows]
  BY DEF CloudInv, CloudTypeOK
<1>2. /\ route' \in [Routers -> RouteRows] /\ route'[c] = r
      /\ \A d \in Routers : d # c => route'[d] = route[d]
  BY <1>1
<1> QED
  BY <1>2 DEF CloudInv, AloneIsAlone, Touches, Calling

\* Rows of one call that differ at most in what others did to it.
SameCall(q, r) ==
  /\ q.kind = r.kind /\ q.pc = r.pc /\ q.name = r.name /\ q.hosts = r.hosts /\ q.todo = r.todo
  /\ q.host = r.host /\ q.tid = r.tid /\ q.rec = r.rec
  /\ (q.alone => r.alone) /\ (r.overtaken => q.overtaken)

\* What a call keeps when another step changes a tunnel or a record.
LEMMA RouteStays ==
  ASSUME CloudInv, NEW d \in Routers, NEW r \in RouteRows, r = route[d], SameCall(route'[d], r),
         serial' >= serial, serial' \in Nat,
         r.tid \in TunnelIds /\ ~route'[d].overtaken /\ r.pc \notin {"check", "none"}
           => (NoPlatform(r.tid) => NoPlatform(r.tid)'),
         r.pc \in {"clear", "drop"} /\ ~route'[d].overtaken /\ ToPlatform(r)' => ToPlatform(r),
         \A t \in TunnelIds : Exists(t)' /\ r.tid = t => Exists(t) /\ tunnel'[t].name = tunnel[t].name,
         route'[d].alone /\ r.kind \in Calling =>
           /\ r.tid \in TunnelIds /\ Exists(r.tid) => tunnel'[r.tid] = tunnel[r.tid]
           /\ \A h \in r.hosts : cname'[h] = cname[h]
  PROVE  RoutePlace(d)'
<1> PICK q : q = route'[d]
  OBVIOUS
<1>1. Stepped(r) /\ Cleared(r) /\ Named(r) /\ Published(r)
  BY DEF CloudInv, RoutePlace
<1>2. SameCall(q, r)
  OBVIOUS
<1>3. (r.kind \in Calling => r.tid \in TunnelIds \cup {NoTunnel} /\ r.pc # "none") /\ r.hosts \subseteq Hosts
  BY <1>1 DEF Stepped, RouteRows
<1>4. Stepped(q)
  BY <1>1, <1>2 DEF Stepped, SameCall
<1>5. Cleared(q)'
  <2>1. q.kind \in Calling /\ q.pc # "check" /\ q.tid # NoTunnel /\ ~q.overtaken => NoPlatform(r.tid)'
    BY <1>1, <1>2, <1>3 DEF Cleared, SameCall
  <2>2. q.pc \in {"clear", "drop"} /\ ~q.overtaken => ~ToPlatform(r)'
    BY <1>1, <1>2 DEF Cleared, SameCall
  <2>3. q.rec <= serial'
    BY <1>1, <1>2 DEF Cleared, SameCall, CloudInv, CloudTypeOK, RouteRows
  <2> QED
    BY <1>2, <2>1, <2>2, <2>3 DEF Cleared, NoPlatform, ToPlatform, Exists, SameCall
<1>6. Named(q)'
  <2>1. ASSUME r.kind \in Calling, r.tid # NoTunnel, tunnel'[r.tid] # Absent
        PROVE  tunnel'[r.tid].name = r.name
    BY <1>1, <1>3, <2>1 DEF Named, Exists
  <2> QED
    BY <1>2, <2>1 DEF Named, Exists, SameCall
<1>7. Published(q)'
  <2>1. ASSUME r.pc \in {"cname", "clear", "post", "connect", "install", "await"}, q.alone
        PROVE  /\ tunnel'[r.tid] = [name |-> r.name, ingress |-> r.hosts]
               /\ \A h \in r.hosts \ r.todo : cname'[h].to = r.tid
    <3>1. /\ tunnel[r.tid] = [name |-> r.name, ingress |-> r.hosts]
          /\ \A h \in r.hosts \ r.todo : cname[h].to = r.tid
          /\ r.kind \in Calling /\ r.tid \in TunnelIds /\ r.name \in Names
      BY <1>1, <1>2, <2>1 DEF Published, Stepped, SameCall
    <3>2. Exists(r.tid)
      BY <3>1, CloudAssumption DEF Exists, Absent
    <3> QED
      BY <2>1, <3>1, <3>2
  <2> QED
    BY <1>2, <2>1 DEF Published, SameCall
<1> QED
  BY <1>4, <1>5, <1>6, <1>7 DEF RoutePlace, Stepped

\* A caller that is idle relies on nothing.
LEMMA FreeRoute ==
  ASSUME serial \in Nat
  PROVE  /\ Free \in RouteRows /\ Free.kind = "none" /\ Free.pc = "none" /\ Free.kind \notin Calling
         /\ Stepped(Free) /\ Cleared(Free) /\ Named(Free) /\ Published(Free)
BY DEF Free, RouteRows, Calling, Stepped, Cleared, Named, Published

\* A call whose step changes no tunnel and no record.
LEMMA CallGoes ==
  ASSUME CloudInv, NEW c \in Routers, NEW r \in RouteRows, route' = [route EXCEPT ![c] = r],
         \/ r.kind \notin Calling
         \/ /\ route[c].kind \in Calling /\ r.name = route[c].name /\ r.hosts = route[c].hosts
            /\ r.alone => route[c].alone,
         Stepped(r), Cleared(r), Named(r), Published(r),
         UNCHANGED <<tunnel, cname, serial>>,
         haEndpoints' \subseteq [name : Names, host : Hosts],
         meshBindings' \in [MeshRefs -> Nodes \cup {NoTunnel}]
  PROVE  CloudInv'
<1>1. /\ route' \in [Routers -> RouteRows] /\ route'[c] = r
      /\ \A d \in Routers : d # c => route'[d] = route[d]
      /\ AloneIsAlone'
  BY RouteGoes
<1>2. CloudTypeOK' /\ PlatformKept'
  BY <1>1 DEF CloudInv, CloudTypeOK, PlatformKept, NoPlatform
<1>3. RoutePlace(c)'
  BY <1>1 DEF RoutePlace, Cleared, Named, Published, NoPlatform, ToPlatform, Exists, Stepped
<1>4. ASSUME NEW d \in Routers, d # c
      PROVE  RoutePlace(d)'
  <2> PICK x \in RouteRows : x = route[d]
    BY DEF CloudInv, CloudTypeOK
  <2>1. SameCall(route'[d], x)
    BY <1>1, <1>4 DEF SameCall
  <2>2. /\ \A t \in TunnelIds : NoPlatform(t) => NoPlatform(t)'
        /\ \A t \in TunnelIds : Exists(t)' => Exists(t)
        /\ ToPlatform(x)' => ToPlatform(x)
        /\ serial' >= serial /\ serial' \in Nat
    BY DEF NoPlatform, Exists, ToPlatform, CloudInv, CloudTypeOK
  <2> QED
    BY <2>1, <2>2, RouteStays
<1> QED
  BY <1>1, <1>2, <1>3, <1>4 DEF CloudInv

\* What a call may change: the tunnel it found, one that no call found, and
\* the records of its own hostnames.
Changes(c) ==
  /\ \A t \in TunnelIds :
       \/ tunnel'[t] = tunnel[t]
       \/ t = route[c].tid /\ Exists(t) /\ (tunnel'[t] = Absent \/ tunnel'[t].name = tunnel[t].name)
       \/ \A d \in Routers : route[d].tid # t
  /\ \A t \in TunnelIds : NoPlatform(t) => NoPlatform(t)'
  /\ \A h \in Hosts : cname'[h] = cname[h] \/ (h \in route[c].hosts /\ cname'[h].to # Platform)
  /\ Exists(Platform)' => Exists(Platform)
  /\ serial' \in Nat /\ serial' >= serial /\ \A h \in Hosts : cname'[h].id <= serial'

\* A step of one call leaves a call that it crosses no longer alone, and any
\* other as it was.
LEMMA OthersStay ==
  ASSUME CloudInv, NEW c \in Routers, NEW d \in Routers, d # c, route'[d] = route[d],
         route[c].kind \in Calling, Changes(c)
  PROVE  RoutePlace(d)'
<1> PICK r \in RouteRows : r = route[d]
  BY DEF CloudInv, CloudTypeOK
<1>1. r \in RouteRows /\ Named(r) /\ Named(route[c]) /\ RoutePlace(d) /\ RoutePlace(c)
  BY DEF CloudInv, CloudTypeOK, RoutePlace
<1>2. ASSUME NEW t \in TunnelIds, Exists(t)', r.tid = t
      PROVE  Exists(t) /\ tunnel'[t].name = tunnel[t].name
  BY <1>2 DEF Changes, Exists
<1>3. ASSUME r.alone, r.kind \in Calling
      PROVE  /\ r.tid \in TunnelIds /\ Exists(r.tid) => tunnel'[r.tid] = tunnel[r.tid]
             /\ \A h \in r.hosts : cname'[h] = cname[h]
  <2>1. route[c].name # r.name /\ route[c].hosts \cap r.hosts = {}
    BY <1>3 DEF CloudInv, AloneIsAlone, Touches, Calling
  <2>2. r.hosts \subseteq Hosts
    BY <1>1 DEF RouteRows
  <2>3. ASSUME r.tid \in TunnelIds, Exists(r.tid)
        PROVE  tunnel'[r.tid] = tunnel[r.tid]
    <3>1. r.tid # NoTunnel
      BY <2>3, CloudAssumption
    <3>2. route[c].tid # r.tid
      BY <1>1, <1>3, <2>1, <2>3, <3>1 DEF Named
    <3> QED
      BY <2>3, <3>2 DEF Changes
  <2> QED
    BY <2>1, <2>2, <2>3 DEF Changes
<1>4. /\ \A t \in TunnelIds : NoPlatform(t) => NoPlatform(t)'
      /\ serial' \in Nat /\ serial' >= serial /\ SameCall(route'[d], r)
  BY DEF Changes, SameCall
<1>5. r.pc \in {"clear", "drop"} /\ ToPlatform(r)' => ToPlatform(r)
  <2>1. r.pc \in {"clear", "drop"} => r.host \in Hosts
    BY <1>1 DEF RoutePlace, Stepped, RouteRows
  <2> QED
    BY <2>1 DEF ToPlatform, Changes, Exists
<1> QED
  BY <1>2, <1>3, <1>4, <1>5, RouteStays

\* A call whose step changes its tunnel or a record of its own.
LEMMA CallWrites ==
  ASSUME CloudInv, NEW c \in Routers, NEW r \in RouteRows, route' = [route EXCEPT ![c] = r],
         route[c].kind \in Calling,
         \/ r.kind \notin Calling
         \/ r.name = route[c].name /\ r.hosts = route[c].hosts /\ (r.alone => route[c].alone),
         Changes(c), PlatformKept', Stepped(r), Cleared(r)', Named(r)', Published(r)',
         tunnel' \in [TunnelIds -> TunnelRows], cname' \in [Hosts -> RecordRows],
         UNCHANGED <<haEndpoints, meshBindings>>
  PROVE  CloudInv'
<1>1. /\ route' \in [Routers -> RouteRows] /\ route'[c] = r
      /\ \A d \in Routers : d # c => route'[d] = route[d]
      /\ AloneIsAlone'
  BY RouteGoes
<1>2. CloudTypeOK'
  BY <1>1 DEF CloudInv, CloudTypeOK, Changes
<1>3. RoutePlace(c)'
  BY <1>1 DEF RoutePlace, Cleared, Named, Published, NoPlatform, ToPlatform, Exists, Stepped
<1>4. \A d \in Routers : d # c => RoutePlace(d)'
  BY <1>1, OthersStay
<1> QED
  BY <1>1, <1>2, <1>3, <1>4 DEF CloudInv
\* A row that another call touches is no longer alone; any other stays.
LEMMA TouchedRow ==
  ASSUME NEW r \in RouteRows, NEW touched \in BOOLEAN
  PROVE  /\ touched => [r EXCEPT !.alone = @ /\ ~touched] = [r EXCEPT !.alone = FALSE]
         /\ ~touched => [r EXCEPT !.alone = @ /\ ~touched] = r
         /\ [r EXCEPT !.alone = FALSE] \in RouteRows
<1>1. r.alone \in BOOLEAN
  BY DEF RouteRows
<1> DEFINE b == r.alone /\ ~touched
<1>2. (touched => b = FALSE) /\ (~touched => b = r.alone)
  BY <1>1
<1>3. /\ touched => [r EXCEPT !.alone = b] = [r EXCEPT !.alone = FALSE]
      /\ ~touched => [r EXCEPT !.alone = b] = r
  <2>1. [r EXCEPT !.alone = r.alone] = r
    BY DEF RouteRows
  <2> HIDE DEF b
  <2> QED
    BY <1>2, <2>1, Zenon
<1>4. [r EXCEPT !.alone = FALSE] \in RouteRows
  BY DEF RouteRows
<1> QED
  BY <1>3, <1>4, Zenon

\* A call that starts is alone if no other is about its name or hostnames, and
\* those that are no longer are.
LEMMA StartKeepsInv ==
  ASSUME CloudInv, NEW c \in Routers, NEW kind \in Calling, NEW n \in Names, NEW H \in SUBSET Hosts,
         NEW G \in SUBSET Nodes, Starts(c, kind, "find", n, H, G), UNCHANGED <<zone, meshBindings>>,
         haEndpoints' \subseteq haEndpoints
  PROVE  CloudInv'
<1> DEFINE new == [Free EXCEPT !.kind = kind, !.pc = "find", !.name = n, !.hosts = H, !.todo = H,
                               !.guests = G, !.alone = ~\E e \in Routers : Touches(e, n, H)]
<1>0. route \in [Routers -> RouteRows] /\ route[c] = Free
  BY DEF CloudInv, CloudTypeOK, Starts
<1>1. route' = [d \in Routers |-> IF d = c THEN new
                                  ELSE [route[d] EXCEPT !.alone = @ /\ ~Touches(d, n, H)]]
  BY DEF Starts
<1>2. new \in RouteRows
  <2>1. (~\E e \in Routers : Touches(e, n, H)) \in BOOLEAN
    OBVIOUS
  <2> QED
    BY <2>1 DEF Free, RouteRows
<1>3. /\ new.kind = kind /\ new.pc = "find" /\ new.name = n /\ new.hosts = H /\ new.todo = H
      /\ new.tid = NoTunnel /\ new.rec = 0 /\ (new.alone => \A e \in Routers : ~Touches(e, n, H))
  BY DEF Free
<1> HIDE DEF new
<1>4. ASSUME NEW d \in Routers, d # c
      PROVE  /\ Touches(d, n, H) => route'[d] = [route[d] EXCEPT !.alone = FALSE]
             /\ ~Touches(d, n, H) => route'[d] = route[d]
  <2>1. Touches(d, n, H) \in BOOLEAN
    BY DEF Touches
  <2>2. route'[d] = [route[d] EXCEPT !.alone = @ /\ ~Touches(d, n, H)]
    BY <1>0, <1>1, <1>4
  <2> QED
    BY <1>0, <2>1, <2>2, TouchedRow
<1>5. route'[c] = new /\ route' \in [Routers -> RouteRows]
  <2>1. \A d \in Routers : [route[d] EXCEPT !.alone = FALSE] \in RouteRows
    BY <1>0, TouchedRow
  <2>2. \A d \in Routers : d # c => route'[d] \in RouteRows
    BY <1>0, <1>4, <2>1
  <2> QED
    BY <1>1, <1>2, <2>2
<1>6. AloneIsAlone'
  <2>1. ASSUME NEW d \in Routers, d # c
        PROVE  /\ route'[d].kind = route[d].kind /\ route'[d].name = route[d].name
               /\ route'[d].hosts = route[d].hosts
               /\ route'[d].alone => route[d].alone /\ ~Touches(d, n, H)
    BY <1>0, <1>4, <2>1 DEF RouteRows
  <2> QED
    BY <1>3, <1>5, <2>1 DEF CloudInv, AloneIsAlone, Touches, Calling
<1>7. ASSUME NEW d \in Routers
      PROVE  RoutePlace(d)'
  <2>1. CASE d = c
    BY <1>3, <1>5, <2>1 DEF RoutePlace, Stepped, Cleared, Named, Published, CloudInv, CloudTypeOK, zone
  <2>2. CASE d # c
    <3> PICK x \in RouteRows : x = route[d]
      BY <1>0
    <3>1. route'[d] = x \/ (route'[d] = [x EXCEPT !.alone = FALSE])
      BY <1>4, <2>2
    <3>2. SameCall(route'[d], x)
      BY <3>1 DEF SameCall, RouteRows
    <3>3. /\ \A t \in TunnelIds : NoPlatform(t) => NoPlatform(t)'
          /\ \A t \in TunnelIds : Exists(t)' => Exists(t)
          /\ UNCHANGED <<tunnel, cname>> /\ (ToPlatform(x)' => ToPlatform(x))
          /\ serial' >= serial /\ serial' \in Nat
      BY DEF NoPlatform, Exists, ToPlatform, zone, CloudInv, CloudTypeOK
    <3> QED
      BY <3>2, <3>3, RouteStays
  <2> QED
    BY <2>1, <2>2
<1>8. CloudTypeOK' /\ PlatformKept'
  BY <1>5 DEF CloudInv, CloudTypeOK, PlatformKept, NoPlatform, zone
<1> QED
  BY <1>6, <1>7, <1>8 DEF CloudInv
\* Operations that begin a call.
LEMMA BeginsKeepInv ==
  ASSUME CloudInv, NEW c \in Routers,
         \/ \E n \in Names \cup {Platform}, H \in SUBSET Hosts : ensureDedicatedTunnel(c, n, H) \/ removeTunnel(c, n, H)
         \/ \E n \in Names, h \in Hosts : ensureNetworkOverlayHAEndpoint(c, n, h)
         \/ \E e \in haEndpoints : removeNetworkOverlayHAEndpoint(c, e)
  PROVE  CloudInv'
<1>1. ASSUME NEW n \in Names \cup {Platform}, NEW H \in SUBSET Hosts,
             ensureDedicatedTunnel(c, n, H) \/ removeTunnel(c, n, H)
      PROVE  CloudInv'
  <2>1. n \in Names /\ UNCHANGED <<zone, meshBindings, haEndpoints>>
    BY <1>1 DEF ensureDedicatedTunnel, removeTunnel, refusePlatformTunnelName, mesh
  <2>2. PICK kind \in Calling : Starts(c, kind, "find", n, H, {})
    BY <1>1 DEF ensureDedicatedTunnel, removeTunnel, Calling
  <2> QED
    BY <2>1, <2>2, StartKeepsInv
<1>2. ASSUME NEW n \in Names, NEW h \in Hosts, ensureNetworkOverlayHAEndpoint(c, n, h)
      PROVE  CloudInv'
  <2>1. Starts(c, "ha", "find", n, {h}, Nodes) /\ UNCHANGED <<zone, meshBindings, haEndpoints>>
    BY <1>2 DEF ensureNetworkOverlayHAEndpoint, mesh
  <2>2. "ha" \in Calling
    BY DEF Calling
  <2> QED
    BY <2>1, <2>2, StartKeepsInv
<1>3. ASSUME NEW e \in haEndpoints, removeNetworkOverlayHAEndpoint(c, e)
      PROVE  CloudInv'
  <2>1. /\ Starts(c, "remove", "find", e.name, {e.host}, {}) /\ UNCHANGED <<zone, meshBindings>>
        /\ haEndpoints' \subseteq haEndpoints
    BY <1>3 DEF removeNetworkOverlayHAEndpoint, mesh
  <2>2. "remove" \in Calling /\ e.name \in Names /\ e.host \in Hosts
    BY DEF Calling, CloudInv, CloudTypeOK
  <2> QED
    BY <2>1, <2>2, StartKeepsInv
<1> QED
  BY <1>1, <1>2, <1>3

\* A call that ends.
LEMMA EndsKeepInv ==
  ASSUME CloudInv, NEW c \in Routers, route' = [route EXCEPT ![c] = Free],
         UNCHANGED <<tunnel, cname, serial>>,
         haEndpoints' \subseteq [name : Names, host : Hosts],
         meshBindings' \in [MeshRefs -> Nodes \cup {NoTunnel}]
  PROVE  CloudInv'
<1>1. /\ Free \in RouteRows /\ Free.kind \notin Calling
      /\ Stepped(Free) /\ Cleared(Free) /\ Named(Free) /\ Published(Free)
  BY FreeRoute DEF CloudInv, CloudTypeOK
<1> QED
  BY <1>1, CallGoes

\* A call that only goes to another place.
LEMMA ToKeepsInv ==
  ASSUME CloudInv, NEW c \in Routers, route[c].kind \in Calling,
         NEW r \in {[route[c] EXCEPT !.pc = pc] : pc \in {"create", "put", "read", "cname", "connect", "install", "await"}},
         route' = [route EXCEPT ![c] = r],
         Stepped(r), Cleared(r), Published(r),
         UNCHANGED <<tunnel, cname, serial, haEndpoints, meshBindings>>
  PROVE  CloudInv'
<1>1. route[c] \in RouteRows /\ Named(route[c])
  BY DEF CloudInv, CloudTypeOK, RoutePlace
<1>2. r \in RouteRows /\ Named(r)
  BY <1>1 DEF RouteRows, Named
<1>3. r.kind = route[c].kind /\ r.name = route[c].name /\ r.hosts = route[c].hosts /\ r.alone = route[c].alone
  BY <1>1 DEF RouteRows
<1> QED
  BY <1>2, <1>3, CallGoes DEF CloudInv, CloudTypeOK

\* The tunnel of the call's name, and the refusal of the platform's.
LEMMA FindKeepsInv ==
  ASSUME CloudInv, NEW c \in Routers, findCloudflareTunnelByName(c) \/ cloudflareTunnelIngress(c)
  PROVE  CloudInv'
<1> DEFINE r == route[c]
<1>0. r \in RouteRows /\ Stepped(r) /\ Cleared(r) /\ Named(r) /\ Published(r) /\ r.kind \in Calling
  BY DEF CloudInv, CloudTypeOK, RoutePlace, findCloudflareTunnelByName, cloudflareTunnelIngress, RouterAt, Calling
<1>1. UNCHANGED <<tunnel, cname, serial, haEndpoints, meshBindings>>
  BY DEF findCloudflareTunnelByName, cloudflareTunnelIngress, zone, mesh
<1>2. ASSUME NEW t \in TunnelIds, tunnel[t].name = r.name, r.pc = "find",
             Goes(c, [r EXCEPT !.pc = "check", !.tid = t])
      PROVE  CloudInv'
  <2> DEFINE q == [r EXCEPT !.pc = "check", !.tid = t]
  <2>1. q \in RouteRows /\ q.pc = "check" /\ q.tid = t /\ q.kind = r.kind /\ q.name = r.name
        /\ q.hosts = r.hosts /\ q.todo = r.todo /\ q.host = r.host /\ q.alone = r.alone /\ q.rec = r.rec /\ q.overtaken = r.overtaken
    BY <1>0 DEF RouteRows
  <2>2. route' = [route EXCEPT ![c] = q]
    BY <1>2 DEF Goes
  <2>4. t # Platform
    BY <1>0, <1>2, CloudAssumption DEF CloudInv, PlatformKept, Absent, Stepped
  <2> HIDE DEF q
  <2>3. Stepped(q) /\ Cleared(q) /\ Named(q) /\ Published(q)
    BY <1>0, <1>2, <2>1, <2>4 DEF Stepped, Cleared, Named, Published, ToPlatform
  <2> QED
    BY <1>0, <1>1, <2>1, <2>2, <2>3, CallGoes DEF CloudInv, CloudTypeOK
<1>3. ASSUME NEW pc \in {"create", "read", "put"}, To(c, pc), r.pc \in {"find", "check"},
             pc = "put" => r.kind \in {"ensure", "ha"} /\ r.tid \in TunnelIds,
             r.pc = "check" => NoPlatform(r.tid)
      PROVE  CloudInv'
  <2> DEFINE q == [r EXCEPT !.pc = pc]
  <2>1. q.pc = pc /\ q.tid = r.tid /\ q.kind = r.kind /\ q.name = r.name
        /\ q.hosts = r.hosts /\ q.todo = r.todo /\ q.host = r.host /\ q.alone = r.alone /\ q.rec = r.rec /\ q.overtaken = r.overtaken
    BY <1>0 DEF RouteRows
  <2>2. route' = [route EXCEPT ![c] = q]
    BY <1>3 DEF To, Goes
  <2>3. q \in {[route[c] EXCEPT !.pc = x] : x \in {"create", "put", "read", "cname", "connect", "install", "await"}}
    OBVIOUS
  <2> HIDE DEF q
  <2>4. Stepped(q) /\ Cleared(q) /\ Published(q)
    BY <1>0, <1>3, <2>1 DEF Stepped, Cleared, Published, ToPlatform
  <2> QED
    BY <1>0, <1>1, <2>2, <2>3, <2>4, ToKeepsInv
<1>4. CASE findCloudflareTunnelByName(c)
  <2>1. \/ \E t \in TunnelIds : tunnel[t].name = r.name /\ Goes(c, [r EXCEPT !.pc = "check", !.tid = t])
        \/ \E pc \in {"create", "read"} : To(c, pc)
    BY <1>4 DEF findCloudflareTunnelByName
  <2> QED
    BY <1>2, <1>3, <1>4, <2>1 DEF findCloudflareTunnelByName, RouterAt
<1>5. CASE cloudflareTunnelIngress(c)
  <2>1. r.pc = "check" /\ r.tid \in TunnelIds
    BY <1>0, <1>5 DEF cloudflareTunnelIngress, RouterAt, Stepped
  <2>2. CASE Returns(c)
    BY <1>1, <2>2, EndsKeepInv DEF Returns, Goes, CloudInv, CloudTypeOK
  <2>3. CASE ~refusePlatformIngress(r.tid)
    <3>1. \E pc \in {"put", "read"} : To(c, pc) /\ (pc = "put" => r.kind \in {"ensure", "ha"})
      BY <1>5, <2>3 DEF cloudflareTunnelIngress
    <3> QED
      BY <1>3, <2>1, <2>3, <3>1 DEF refusePlatformIngress, NoPlatform
  <2> QED
    BY <1>5, <2>2, <2>3 DEF cloudflareTunnelIngress
<1> QED
  BY <1>4, <1>5
\* Reading the records of a hostname, to replace or to delete them.
LEMMA ReadKeepsInv ==
  ASSUME CloudInv, NEW c \in Routers, NEW h \in Hosts,
         listHostnameDNSRecords(c, h) \/ findHostnameCNAME(c, h)
  PROVE  CloudInv'
<1> DEFINE r == route[c]
<1>0. r \in RouteRows /\ Stepped(r) /\ Cleared(r) /\ Named(r) /\ Published(r) /\ r.kind \in Calling
      /\ h \in r.todo /\ r.pc \in {"cname", "read"}
  BY DEF CloudInv, CloudTypeOK, RoutePlace, listHostnameDNSRecords, findHostnameCNAME, RouterAt, Calling
<1>1. UNCHANGED <<tunnel, cname, serial, haEndpoints, meshBindings>>
  BY DEF listHostnameDNSRecords, findHostnameCNAME, zone, mesh
<1>2. CASE Returns(c)
  BY <1>1, <1>2, EndsKeepInv DEF Returns, Goes, CloudInv, CloudTypeOK
<1>3. ASSUME Goes(c, [r EXCEPT !.todo = @ \ {h}]), r.pc = "cname" => cname[h].to = r.tid
      PROVE  CloudInv'
  <2> DEFINE q == [r EXCEPT !.todo = @ \ {h}]
  <2>1. q \in RouteRows /\ q.pc = r.pc /\ q.tid = r.tid /\ q.kind = r.kind /\ q.name = r.name
        /\ q.hosts = r.hosts /\ q.todo = r.todo \ {h} /\ q.host = r.host /\ q.alone = r.alone /\ q.rec = r.rec /\ q.overtaken = r.overtaken
    BY <1>0 DEF RouteRows
  <2>2. route' = [route EXCEPT ![c] = q]
    BY <1>3 DEF Goes
  <2> HIDE DEF q
  <2>3. Stepped(q) /\ Cleared(q) /\ Named(q) /\ Published(q)
    BY <1>0, <1>3, <2>1 DEF Stepped, Cleared, Named, Published, ToPlatform
  <2> QED
    BY <1>0, <1>1, <2>1, <2>2, <2>3, CallGoes DEF CloudInv, CloudTypeOK
<1>4. ASSUME NEW pc \in {"post", "clear", "drop"},
             Goes(c, [r EXCEPT !.host = h, !.rec = cname[h].id, !.pc = pc]),
             pc = "drop" <=> r.pc = "read", cname[h].to = Platform /\ Exists(Platform) => pc = "post"
      PROVE  CloudInv'
  <2> DEFINE q == [r EXCEPT !.host = h, !.rec = cname[h].id, !.pc = pc]
  <2>0. cname[h].id \in Nat /\ cname[h].id <= serial
    BY DEF CloudInv, CloudTypeOK, RecordRows
  <2>1. q \in RouteRows /\ q.pc = pc /\ q.tid = r.tid /\ q.kind = r.kind /\ q.name = r.name
        /\ q.hosts = r.hosts /\ q.todo = r.todo /\ q.host = h /\ q.alone = r.alone /\ q.rec = cname[h].id /\ q.overtaken = r.overtaken
    BY <1>0, <2>0 DEF RouteRows
  <2>2. route' = [route EXCEPT ![c] = q]
    BY <1>4 DEF Goes
  <2> HIDE DEF q
  <2>3. Stepped(q) /\ Cleared(q) /\ Named(q) /\ Published(q)
    BY <1>0, <1>4, <2>0, <2>1 DEF Stepped, Cleared, Named, Published, ToPlatform
  <2> QED
    BY <1>0, <1>1, <2>1, <2>2, <2>3, CallGoes DEF CloudInv, CloudTypeOK
<1>5. Platform \in TunnelIds /\ (Exists(Platform) => tunnel[Platform].name = Platform)
  BY CloudAssumption DEF CloudInv, PlatformKept, Exists
<1>6. CASE listHostnameDNSRecords(c, h)
  <2>1. r.pc = "cname" /\ r.tid \in TunnelIds
    BY <1>0, <1>6 DEF listHostnameDNSRecords, RouterAt, Stepped
  <2>2. r.tid # Platform
    BY <1>0, <2>1, CloudAssumption DEF Stepped
  <2>3. ~upsertRefuses(h, r.tid) /\ Exists(Platform) => cname[h].to # Platform
    BY <1>5, <2>2 DEF upsertRefuses, refusePlatformTunnelName
  <2>4. \/ Returns(c)
        \/ cname[h].to = r.tid /\ Goes(c, [r EXCEPT !.todo = @ \ {h}])
        \/ /\ ~upsertRefuses(h, r.tid)
           /\ \E pc \in {"post", "clear"} : Goes(c, [r EXCEPT !.host = h, !.rec = cname[h].id, !.pc = pc])
    BY <1>6 DEF listHostnameDNSRecords
  <2> QED
    BY <1>2, <1>3, <1>4, <2>1, <2>3, <2>4
<1>7. CASE findHostnameCNAME(c, h)
  <2>1. ~unpublishRefuses(h) /\ Exists(Platform) => cname[h].to # Platform
    BY <1>5 DEF unpublishRefuses, refusePlatformTunnelName
  <2>2. r.pc = "read"
    BY <1>7 DEF findHostnameCNAME, RouterAt
  <2>3. \/ Returns(c)
        \/ Goes(c, [r EXCEPT !.todo = @ \ {h}])
        \/ /\ ~unpublishRefuses(h)
           /\ Goes(c, [r EXCEPT !.host = h, !.rec = cname[h].id, !.pc = "drop"])
    BY <1>7 DEF findHostnameCNAME
  <2> QED
    BY <1>2, <1>3, <1>4, <2>1, <2>2, <2>3
<1> QED
  BY <1>6, <1>7

\* The connectors, once the records are in place.
LEMMA ConnectKeepsInv ==
  ASSUME CloudInv, NEW c \in Routers,
         \/ cloudflareTunnelToken(c) \/ waitForHAEndpoint(c)
         \/ \E p \in Placements : reconcileHostTunnel(c, p)
         \/ \E g \in Nodes : installHAConnector(c, g)
  PROVE  CloudInv'
<1> DEFINE r == route[c]
<1>0. r \in RouteRows /\ Stepped(r) /\ Cleared(r) /\ Named(r) /\ Published(r) /\ r.kind \in {"ensure", "ha"}
  BY DEF CloudInv, CloudTypeOK, RoutePlace, cloudflareTunnelToken, waitForHAEndpoint, reconcileHostTunnel,
         installHAConnector, RouterAt
<1>1. UNCHANGED <<tunnel, cname, serial, meshBindings>>
  BY DEF cloudflareTunnelToken, waitForHAEndpoint, reconcileHostTunnel, installHAConnector, zone, mesh
<1>2. CASE cloudflareTunnelToken(c)
  <2>1. r.pc = "cname" /\ r.todo = {} /\ UNCHANGED haEndpoints
    BY <1>2 DEF cloudflareTunnelToken, RouterAt
  <2>2. CASE Returns(c)
    BY <1>1, <2>1, <2>2, EndsKeepInv DEF Returns, Goes, CloudInv, CloudTypeOK
  <2>3. ASSUME NEW pc \in {"connect", "install"}, To(c, pc)
        PROVE  CloudInv'
    <3> DEFINE q == [r EXCEPT !.pc = pc]
    <3>1. q.pc = pc /\ q.tid = r.tid /\ q.kind = r.kind /\ q.name = r.name
          /\ q.hosts = r.hosts /\ q.todo = r.todo /\ q.host = r.host /\ q.alone = r.alone /\ q.rec = r.rec /\ q.overtaken = r.overtaken
      BY <1>0 DEF RouteRows
    <3>2. route' = [route EXCEPT ![c] = q]
      BY <2>3 DEF To, Goes
    <3>3. q \in {[route[c] EXCEPT !.pc = x] : x \in {"create", "put", "read", "cname", "connect", "install", "await"}}
      OBVIOUS
    <3> HIDE DEF q
    <3>4. Stepped(q) /\ Cleared(q) /\ Published(q)
      BY <1>0, <2>1, <2>3, <3>1 DEF Stepped, Cleared, Published, ToPlatform
    <3> QED
      BY <1>0, <1>1, <2>1, <3>2, <3>3, <3>4, ToKeepsInv DEF Calling
  <2> QED
    BY <1>2, <2>2, <2>3 DEF cloudflareTunnelToken
<1>3. ASSUME NEW g \in Nodes, installHAConnector(c, g)
      PROVE  CloudInv'
  <2>1. r.pc = "install" /\ UNCHANGED haEndpoints
    BY <1>3 DEF installHAConnector, RouterAt
  <2>2. PICK pc \in {"install", "await"} : Goes(c, [r EXCEPT !.guests = @ \ {g}, !.pc = pc])
    BY <1>3, <2>1 DEF installHAConnector
  <2> DEFINE q == [r EXCEPT !.guests = @ \ {g}, !.pc = pc]
  <2>3. q \in RouteRows /\ q.pc = pc /\ q.tid = r.tid /\ q.kind = r.kind /\ q.name = r.name
        /\ q.hosts = r.hosts /\ q.todo = r.todo /\ q.host = r.host /\ q.alone = r.alone /\ q.rec = r.rec /\ q.overtaken = r.overtaken
    BY <1>0 DEF RouteRows
  <2>4. route' = [route EXCEPT ![c] = q]
    BY <2>2 DEF Goes
  <2> HIDE DEF q
  <2>5. Stepped(q) /\ Cleared(q) /\ Named(q) /\ Published(q)
    BY <1>0, <2>1, <2>3 DEF Stepped, Cleared, Named, Published, ToPlatform
  <2> QED
    BY <1>0, <1>1, <2>1, <2>3, <2>4, <2>5, CallGoes DEF CloudInv, CloudTypeOK, Calling
<1>4. CASE waitForHAEndpoint(c) \/ \E p \in Placements : reconcileHostTunnel(c, p)
  <2>1. Returns(c)
    BY <1>4 DEF waitForHAEndpoint, reconcileHostTunnel
  <2>2. haEndpoints' \subseteq haEndpoints \cup {[name |-> r.name, host |-> h] : h \in r.hosts}
    BY <1>4 DEF waitForHAEndpoint, reconcileHostTunnel
  <2>3. r.name \in Names /\ r.hosts \subseteq Hosts
    BY <1>0 DEF Stepped, Calling, RouteRows
  <2>4. haEndpoints' \subseteq [name : Names, host : Hosts]
    BY <2>2, <2>3 DEF CloudInv, CloudTypeOK
  <2> QED
    BY <1>1, <2>1, <2>4, EndsKeepInv DEF Returns, Goes, CloudInv, CloudTypeOK
<1> QED
  BY <1>2, <1>3, <1>4

\* A call that fails, and the cleaning up of a stable endpoint.
LEMMA FailsKeepInv ==
  ASSUME CloudInv, NEW c \in Routers, installFails(c) \/ endpointNotReached(c) \/ cloudflareJSON(c)
  PROVE  CloudInv'
<1> DEFINE r == route[c]
<1>0. r \in RouteRows /\ Stepped(r) /\ Cleared(r) /\ Named(r) /\ r.kind \in Calling
  BY DEF CloudInv, CloudTypeOK, RoutePlace, installFails, endpointNotReached, cloudflareJSON, RouterAt, Calling
<1>1. UNCHANGED <<tunnel, cname, serial, haEndpoints, meshBindings>>
  BY DEF installFails, endpointNotReached, Undoes, cloudflareJSON, zone, mesh
<1>2. CASE cloudflareJSON(c)
  BY <1>1, <1>2, EndsKeepInv DEF cloudflareJSON, Returns, Goes, CloudInv, CloudTypeOK
<1>3. CASE installFails(c) \/ endpointNotReached(c)
  <2> DEFINE q == [r EXCEPT !.kind = "undo", !.pc = "find", !.todo = r.hosts]
  <2>1. route' = [route EXCEPT ![c] = q] /\ r.pc \in {"install", "await"}
    BY <1>3 DEF installFails, endpointNotReached, Undoes, RouterAt
  <2>2. q \in RouteRows /\ q.pc = "find" /\ q.tid = r.tid /\ q.kind = "undo" /\ q.name = r.name
        /\ q.hosts = r.hosts /\ q.todo = r.hosts /\ q.host = r.host /\ q.alone = r.alone /\ q.rec = r.rec /\ q.overtaken = r.overtaken
    BY <1>0 DEF RouteRows, Calling
  <2> HIDE DEF q
  <2>3. Stepped(q) /\ Cleared(q) /\ Named(q) /\ Published(q)
    BY <1>0, <2>1, <2>2 DEF Stepped, Cleared, Named, Published, Calling, ToPlatform
  <2> QED
    BY <1>0, <1>1, <2>1, <2>2, <2>3, CallGoes DEF CloudInv, CloudTypeOK
<1> QED
  BY <1>2, <1>3
\* A tunnel that is created is one that nothing refers to.
LEMMA CreateKeepsInv ==
  ASSUME CloudInv, NEW c \in Routers, ensureCloudflareTunnelByName(c)
  PROVE  CloudInv'
<1> DEFINE r == route[c]
<1>0. r \in RouteRows /\ Stepped(r) /\ r.kind \in Calling /\ r.name \in Names /\ r.rec <= serial
  BY DEF Cleared, CloudInv, CloudTypeOK, RoutePlace, ensureCloudflareTunnelByName, RouterAt, Calling, Stepped
<1>1. UNCHANGED <<cname, serial, haEndpoints, meshBindings>>
  BY DEF ensureCloudflareTunnelByName, mesh
<1>2. CASE Returns(c) /\ UNCHANGED tunnel
  BY <1>1, <1>2, EndsKeepInv DEF Returns, Goes, CloudInv, CloudTypeOK
<1>3. ASSUME NEW t \in TunnelIds, ~Exists(t), t # Platform, \A d \in Routers : route[d].tid # t, \A h \in Hosts : cname[h].to # t,
             tunnel' = [tunnel EXCEPT ![t] = [name |-> r.name, ingress |-> {}]],
             Goes(c, [r EXCEPT !.pc = "check", !.tid = t])
      PROVE  CloudInv'
  <2> PICK q \in RouteRows : q = [r EXCEPT !.pc = "check", !.tid = t]
    BY <1>0 DEF RouteRows
  <2>1. q.pc = "check" /\ q.tid = t /\ q.kind = r.kind /\ q.name = r.name
        /\ q.hosts = r.hosts /\ q.todo = r.todo /\ q.host = r.host /\ q.alone = r.alone /\ q.rec = r.rec /\ q.overtaken = r.overtaken
    BY <1>0 DEF RouteRows
  <2>2. route' = [route EXCEPT ![c] = q]
    BY <1>3 DEF Goes
  <2>4. /\ tunnel \in [TunnelIds -> TunnelRows] /\ tunnel' \in [TunnelIds -> TunnelRows]
        /\ tunnel'[t] = [name |-> r.name, ingress |-> {}]
        /\ \A u \in TunnelIds : u # t => tunnel'[u] = tunnel[u]
    BY <1>0, <1>3 DEF CloudInv, CloudTypeOK, TunnelRows
  <2>5. Changes(c)
    BY <1>1, <1>3, <2>4, CloudAssumption DEF Changes, NoPlatform, Exists, CloudInv, CloudTypeOK
  <2>6. PlatformKept'
    BY <1>1, <1>3, <2>4, CloudAssumption DEF CloudInv, PlatformKept
  <2>7. Stepped(q) /\ Cleared(q)' /\ Named(q)' /\ Published(q)'
    <3>1. Stepped(q)
      BY <1>0, <1>3, <2>1 DEF Stepped, ensureCloudflareTunnelByName, RouterAt
    <3>2. tunnel'[q.tid].name = q.name
      BY <2>1, <2>4
    <3>3. Cleared(q)'
      BY <1>0, <1>1, <2>1 DEF Cleared
    <3> QED
      BY <2>1, <3>1, <3>2, <3>3 DEF Named, Published
  <2>8. cname' \in [Hosts -> RecordRows] /\ serial' \in Nat
    BY <1>1 DEF CloudInv, CloudTypeOK
  <2> QED
    BY <1>0, <1>1, <2>1, <2>2, <2>4, <2>5, <2>6, <2>7, <2>8, CallWrites
<1> QED
  BY <1>2, <1>3 DEF ensureCloudflareTunnelByName

\* The rules and the deletion of the tunnel a call found.
LEMMA TunnelKeepsInv ==
  ASSUME CloudInv, NEW c \in Routers, putCloudflareTunnelIngress(c) \/ unpublishDedicatedTunnel(c)
  PROVE  CloudInv'
<1> DEFINE r == route[c]
           u == route[c].tid
<1>0. r \in RouteRows /\ Stepped(r) /\ Cleared(r) /\ Named(r) /\ r.kind \in Calling /\ r.name \in Names
  BY DEF CloudInv, CloudTypeOK, RoutePlace, putCloudflareTunnelIngress, unpublishDedicatedTunnel, RouterAt, Calling,
         Stepped
<1>1. UNCHANGED <<cname, serial, haEndpoints, meshBindings>> /\ cname' \in [Hosts -> RecordRows] /\ serial' \in Nat
  BY DEF putCloudflareTunnelIngress, unpublishDedicatedTunnel, mesh, CloudInv, CloudTypeOK
<1>2. tunnel \in [TunnelIds -> TunnelRows]
  BY DEF CloudInv, CloudTypeOK
<1>3. ASSUME u \in TunnelIds, NEW x \in TunnelRows, PlatformHost \notin x.ingress, u # Platform,
             x = tunnel[u] \/ (Exists(u) /\ (x = Absent \/ x.name = tunnel[u].name)),
             tunnel' = [tunnel EXCEPT ![u] = x]
      PROVE  Changes(c) /\ PlatformKept' /\ tunnel' \in [TunnelIds -> TunnelRows] /\ tunnel'[u] = x
  <2>1. /\ tunnel' \in [TunnelIds -> TunnelRows] /\ tunnel'[u] = x
        /\ \A t \in TunnelIds : t # u => tunnel'[t] = tunnel[t]
    BY <1>2, <1>3
  <2>3. \A t \in TunnelIds : NoPlatform(t) => NoPlatform(t)'
    BY <1>3, <2>1 DEF NoPlatform
  <2>4. Changes(c)
    BY <1>1, <1>3, <2>1, <2>3, CloudAssumption DEF Changes, Exists, CloudInv, CloudTypeOK
  <2>5. PlatformKept'
    BY <1>3, <2>1, CloudAssumption DEF CloudInv, PlatformKept
  <2> QED
    BY <2>1, <2>4, <2>5
<1>4. CASE putCloudflareTunnelIngress(c)
  <2> PICK q \in RouteRows : q = [r EXCEPT !.pc = "cname"]
    BY <1>0 DEF RouteRows
  <2> DEFINE x == [tunnel[u] EXCEPT !.ingress = r.hosts]
  <2>1. r.pc = "put" /\ u \in TunnelIds /\ Exists(u) /\ tunnel[u].name = r.name /\ u # Platform /\ r.todo \subseteq r.hosts
        /\ r.kind \in {"ensure", "ha"}
    BY <1>0, <1>4, CloudAssumption DEF putCloudflareTunnelIngress, RouterAt, Stepped, Named, Cleared
  <2>2. q.pc = "cname" /\ q.tid = u /\ q.kind = r.kind /\ q.name = r.name
        /\ q.hosts = r.hosts /\ q.todo = r.todo /\ q.host = r.host /\ q.alone = r.alone /\ q.rec = r.rec /\ q.overtaken = r.overtaken
    BY <1>0 DEF RouteRows
  <2>3. route' = [route EXCEPT ![c] = q] /\ tunnel' = [tunnel EXCEPT ![u] = x]
    BY <1>2, <1>4, <2>1 DEF putCloudflareTunnelIngress, To, Goes
  <2>4. x \in TunnelRows /\ x.ingress = r.hosts /\ x.name = tunnel[u].name /\ x = [name |-> r.name, ingress |-> r.hosts]
    BY <1>0, <1>2, <2>1 DEF TunnelRows, RouteRows
  <2> HIDE DEF x
  <2>5. PlatformHost \notin x.ingress
    BY <1>0, <2>4, CloudAssumption DEF RouteRows
  <2>6. Changes(c) /\ PlatformKept' /\ tunnel' \in [TunnelIds -> TunnelRows] /\ tunnel'[u] = x
    BY <1>3, <2>1, <2>3, <2>4, <2>5
  <2>7. Stepped(q)
    BY <1>0, <2>1, <2>2 DEF Stepped
  <2>8. Cleared(q)' /\ Named(q)'
    BY <1>0, <1>1, <2>1, <2>2, <2>4, <2>5, <2>6 DEF Cleared, Named, NoPlatform
  <2>9. Published(q)'
    <3>1. tunnel'[q.tid] = [name |-> q.name, ingress |-> q.hosts] /\ q.hosts \ q.todo = {}
      BY <1>0, <2>1, <2>2, <2>4, <2>6 DEF Stepped
    <3> QED
      BY <3>1 DEF Published
  <2> QED
    BY <1>0, <1>1, <2>2, <2>3, <2>6, <2>7, <2>8, <2>9, CallWrites
<1>5. CASE unpublishDedicatedTunnel(c)
  <2>1. r.pc = "read" /\ u \in TunnelIds \cup {NoTunnel}
    BY <1>0, <1>5 DEF unpublishDedicatedTunnel, RouterAt, Stepped
  <2>2. CASE u = NoTunnel
    BY <1>1, <1>5, <2>2, EndsKeepInv DEF unpublishDedicatedTunnel, Returns, Goes, CloudInv, CloudTypeOK
  <2>3. CASE u # NoTunnel
    <3>1. u \in TunnelIds /\ u # Platform /\ tunnel' = [tunnel EXCEPT ![u] = Absent] /\ route' = [route EXCEPT ![c] = Free]
      BY <1>0, <1>5, <2>1, <2>3 DEF unpublishDedicatedTunnel, Stepped, Returns, Goes
    <3>2. Absent \in TunnelRows /\ PlatformHost \notin Absent.ingress
      BY DEF Absent, TunnelRows
    <3>3. Absent = tunnel[u] \/ Exists(u)
      BY DEF Exists
    <3>4. Changes(c) /\ PlatformKept' /\ tunnel' \in [TunnelIds -> TunnelRows]
      BY <1>3, <3>1, <3>2, <3>3
    <3>5. /\ Free \in RouteRows /\ Free.kind \notin Calling
          /\ Stepped(Free) /\ Cleared(Free)' /\ Named(Free)' /\ Published(Free)'
      BY <1>1 DEF Free, RouteRows, Calling, Stepped, Cleared, Named, Published
    <3> QED
      BY <1>0, <1>1, <3>1, <3>4, <3>5, CallWrites
  <2> QED
    BY <2>2, <2>3
<1> QED
  BY <1>4, <1>5
\* The records of a call's own hostnames: none becomes the platform's.
LEMMA RecordKeepsInv ==
  ASSUME CloudInv, NEW c \in Routers,
         clearConflicting(c) \/ upsertDedicatedCNAME(c) \/ deleteDedicatedCNAME(c)
  PROVE  CloudInv'
<1> DEFINE r == route[c]
           k == route[c].host
<1>0. r \in RouteRows /\ Stepped(r) /\ Cleared(r) /\ Named(r) /\ Published(r) /\ r.kind \in Calling
  BY DEF CloudInv, CloudTypeOK, RoutePlace, clearConflicting, upsertDedicatedCNAME, deleteDedicatedCNAME,
         RouterAt, Calling
<1>1. /\ UNCHANGED <<tunnel, haEndpoints, meshBindings>> /\ tunnel' \in [TunnelIds -> TunnelRows]
      /\ cname \in [Hosts -> RecordRows]
  BY DEF clearConflicting, upsertDedicatedCNAME, deleteDedicatedCNAME, mesh, CloudInv, CloudTypeOK
<1>2. r.pc \in {"clear", "post", "drop"} /\ k \in r.hosts /\ k \in Hosts
  BY <1>0 DEF clearConflicting, upsertDedicatedCNAME, deleteDedicatedCNAME, RouterAt, Stepped, RouteRows
<1>3. NoRecord \in RecordRows /\ NoRecord.to = NoTunnel /\ NoTunnel \notin TunnelIds /\ NoTunnel # Platform
  BY CloudAssumption DEF NoRecord, RecordRows
<1>4. ASSUME NEW x \in RecordRows, cname' = [cname EXCEPT ![k] = x],
             x = cname[k] \/ x.to # Platform,
             serial' \in Nat, serial' >= serial, x.id <= serial'
      PROVE  Changes(c) /\ PlatformKept' /\ cname' \in [Hosts -> RecordRows] /\ cname'[k] = x
             /\ \A h \in Hosts : h # k => cname'[h] = cname[h]
  <2>1. /\ cname' \in [Hosts -> RecordRows] /\ cname'[k] = x
        /\ \A h \in Hosts : h # k => cname'[h] = cname[h]
    BY <1>1, <1>2, <1>4
  <2>2. Changes(c)
    <3>1. \A h \in Hosts : cname'[h].id <= serial'
      BY <1>1, <1>4, <2>1 DEF CloudInv, CloudTypeOK, RecordRows
    <3> QED
      BY <1>1, <1>2, <1>4, <2>1, <3>1 DEF Changes, NoPlatform, Exists
  <2>3. PlatformKept'
    BY <1>1 DEF CloudInv, PlatformKept
  <2> QED
    BY <2>1, <2>2, <2>3
<1>5. ASSUME r.pc \in {"clear", "drop"}, DeletesRecord(k, r.rec), UNCHANGED serial
      PROVE  /\ Changes(c) /\ PlatformKept' /\ cname' \in [Hosts -> RecordRows] /\ serial' \in Nat
             /\ \A h \in Hosts : h # k => cname'[h] = cname[h]
  <2> DEFINE x == IF cname[k].id = r.rec THEN NoRecord ELSE cname[k]
  <2>1. cname' = [cname EXCEPT ![k] = x] /\ x \in {NoRecord, cname[k]}
    BY <1>5 DEF DeletesRecord
  <2>2. x \in RecordRows /\ (x = cname[k] \/ x.to # Platform) /\ x.id <= serial'
    BY <1>1, <1>2, <1>3, <1>5, <2>1 DEF CloudInv, CloudTypeOK, NoRecord
  <2> HIDE DEF x
  <2>3. serial' \in Nat /\ serial' >= serial
    BY <1>5 DEF CloudInv, CloudTypeOK
  <2> QED
    BY <1>4, <2>1, <2>2, <2>3
<1>6. CASE clearConflicting(c)
  <2> PICK q \in RouteRows : q = [r EXCEPT !.pc = "post"]
    BY <1>0 DEF RouteRows
  <2>1. q.pc = "post" /\ q.tid = r.tid /\ q.kind = r.kind /\ q.name = r.name
        /\ q.hosts = r.hosts /\ q.todo = r.todo /\ q.host = k /\ q.alone = r.alone /\ q.rec = r.rec /\ q.overtaken = r.overtaken
    BY <1>0 DEF RouteRows
  <2>2. route' = [route EXCEPT ![c] = q] /\ r.pc = "clear" /\ DeletesRecord(k, r.rec) /\ UNCHANGED serial
    BY <1>6 DEF clearConflicting, RouterAt, To, Goes
  <2>3. /\ Changes(c) /\ PlatformKept' /\ cname' \in [Hosts -> RecordRows] /\ serial' \in Nat
        /\ \A h \in Hosts : h # k => cname'[h] = cname[h]
    BY <1>5, <2>2
  <2>4. Stepped(q) /\ k \in r.todo /\ r.hosts \subseteq Hosts
    BY <1>0, <2>1, <2>2 DEF Stepped, RouteRows
  <2>5. Cleared(q)' /\ Named(q)'
    BY <1>0, <1>1, <2>1, <2>2 DEF Cleared, Named, NoPlatform, Exists
  <2>6. Published(q)'
    BY <1>0, <1>1, <2>1, <2>2, <2>3, <2>4 DEF Published
  <2> QED
    BY <1>0, <1>1, <2>1, <2>2, <2>3, <2>4, <2>5, <2>6, CallWrites
<1>7. CASE deleteDedicatedCNAME(c)
  <2> PICK q \in RouteRows : q = [r EXCEPT !.pc = "read", !.todo = r.todo \ {k}]
    BY <1>0 DEF RouteRows
  <2>1. q.pc = "read" /\ q.tid = r.tid /\ q.kind = r.kind /\ q.name = r.name
        /\ q.hosts = r.hosts /\ q.todo = r.todo \ {k} /\ q.host = k /\ q.alone = r.alone /\ q.rec = r.rec /\ q.overtaken = r.overtaken
    BY <1>0 DEF RouteRows
  <2>2. route' = [route EXCEPT ![c] = q] /\ r.pc = "drop" /\ r.kind \in {"remove", "undo"}
        /\ DeletesRecord(k, r.rec) /\ UNCHANGED serial
    BY <1>7 DEF deleteDedicatedCNAME, RouterAt, Goes
  <2>3. /\ Changes(c) /\ PlatformKept' /\ cname' \in [Hosts -> RecordRows] /\ serial' \in Nat
    BY <1>5, <2>2
  <2>4. Stepped(q)
    BY <1>0, <2>1, <2>2 DEF Stepped
  <2>5. Cleared(q)' /\ Named(q)' /\ Published(q)'
    BY <1>0, <1>1, <2>1, <2>2 DEF Cleared, Named, Published, NoPlatform, Exists
  <2> QED
    BY <1>0, <1>1, <2>1, <2>2, <2>3, <2>4, <2>5, CallWrites
<1>8. CASE upsertDedicatedCNAME(c)
  <2>1. r.pc = "post" /\ r.kind \in {"ensure", "ha"} /\ r.tid \in TunnelIds /\ r.tid # Platform /\ k \in r.todo
        /\ r.hosts \subseteq Hosts
    BY <1>0, <1>8, CloudAssumption DEF upsertDedicatedCNAME, RouterAt, Stepped, Cleared, RouteRows
  <2>2. CASE Returns(c) /\ UNCHANGED <<cname, serial>>
    BY <1>1, <2>2, EndsKeepInv DEF Returns, Goes, CloudInv, CloudTypeOK
  <2>3. CASE /\ serial' = serial + 1
             /\ cname' = [cname EXCEPT ![k] = [to |-> r.tid, id |-> serial + 1]]
             /\ Goes(c, [r EXCEPT !.pc = "cname", !.todo = @ \ {k}])
    <3> DEFINE x == [to |-> r.tid, id |-> serial + 1]
    <3> PICK q \in RouteRows : q = [r EXCEPT !.pc = "cname", !.todo = r.todo \ {k}]
      BY <1>0 DEF RouteRows
    <3>1. q.pc = "cname" /\ q.tid = r.tid /\ q.kind = r.kind /\ q.name = r.name
          /\ q.hosts = r.hosts /\ q.todo = r.todo \ {k} /\ q.host = k /\ q.alone = r.alone /\ q.rec = r.rec /\ q.overtaken = r.overtaken
      BY <1>0 DEF RouteRows
    <3>2. route' = [route EXCEPT ![c] = q]
      BY <2>3 DEF Goes
    <3>3. serial' \in Nat /\ serial + 1 \in Nat /\ serial' >= serial
      BY <2>3 DEF CloudInv, CloudTypeOK
    <3>5. x \in RecordRows /\ x.to = r.tid /\ x.id <= serial' /\ cname' = [cname EXCEPT ![k] = x]
      BY <2>1, <2>3, <3>3 DEF RecordRows
    <3> HIDE DEF x
    <3>6. Changes(c) /\ PlatformKept' /\ cname' \in [Hosts -> RecordRows] /\ cname'[k] = x
          /\ \A h \in Hosts : h # k => cname'[h] = cname[h]
      BY <1>4, <2>1, <3>3, <3>5
    <3>7. Stepped(q)
      BY <1>0, <2>1, <3>1 DEF Stepped
    <3>8. Cleared(q)' /\ Named(q)'
      BY <1>0, <1>1, <2>1, <2>3, <3>1 DEF Cleared, Named, NoPlatform, Exists, CloudInv, CloudTypeOK, RouteRows
    <3>9. Published(q)'
      BY <1>0, <1>1, <2>1, <3>1, <3>5, <3>6 DEF Published
    <3> QED
      BY <1>0, <1>1, <3>1, <3>2, <3>3, <3>6, <3>7, <3>8, <3>9, CallWrites
  <2> QED
    BY <1>8, <2>2, <2>3 DEF upsertDedicatedCNAME
<1> QED
  BY <1>6, <1>7, <1>8
\* What an outsider's step leaves of a call: the call stays where it is; it is
\* no longer alone if its tunnel or a record of its hostnames changed, ...
Spared(d, T, H) ==
  /\ SameCall(route'[d], route[d])
  /\ route[d].kind \in Calling /\ route'[d].alone => route[d].tid \notin T /\ route[d].hosts \cap H = {}
\* ... and it is overtaken if what it had found out became the platform's.
Overtaken(d) ==
  /\ \A t \in TunnelIds : t = route[d].tid /\ NoPlatform(t) /\ route[d].pc \notin {"check", "none"}
                            => NoPlatform(t)' \/ route'[d].overtaken
  /\ \A x \in RouteRows : x = route[d] /\ x.pc \in {"clear", "drop"} /\ ToPlatform(x)'
                            => ToPlatform(x) \/ route'[d].overtaken

\* Tunnels T and the records of hostnames H change.
LEMMA OutsideKeepsInv ==
  ASSUME CloudInv, NEW T \in SUBSET TunnelIds, NEW H \in SUBSET Hosts,
         tunnel' \in [TunnelIds -> TunnelRows], cname' \in [Hosts -> RecordRows],
         serial' \in Nat, serial' >= serial, \A h \in Hosts : cname'[h].id <= serial',
         \A t \in TunnelIds \ T : tunnel'[t] = tunnel[t], \A h \in Hosts \ H : cname'[h] = cname[h],
         \A t \in TunnelIds : Exists(t)' => Exists(t) /\ tunnel'[t].name = tunnel[t].name,
         PlatformKept', UNCHANGED <<haEndpoints, meshBindings>>,
         route' \in [Routers -> RouteRows],
         \A d \in Routers : \/ Spared(d, T, H) /\ Overtaken(d)
                            \/ route'[d].kind \notin Calling /\ Stepped(route'[d]) /\ route'[d].rec <= serial'
  PROVE  CloudInv'
<1>1. route \in [Routers -> RouteRows]
  BY DEF CloudInv, CloudTypeOK
<1>2. AloneIsAlone'
  <2> SUFFICES ASSUME NEW c \in Routers, NEW d \in Routers, c # d, route'[c].kind \in Calling, route'[c].alone,
                      NEW n, n = route'[c].name, NEW G, G = route'[c].hosts
               PROVE  ~Touches(d, n, G)'
    BY DEF AloneIsAlone, Touches
  <2>1. SameCall(route'[c], route[c])
    BY DEF Spared
  <2>2. ~Touches(d, n, G)
    BY <2>1 DEF CloudInv, AloneIsAlone, SameCall
  <2>3. route'[d].kind \in Calling => SameCall(route'[d], route[d])
    BY DEF Spared
  <2> QED
    BY <2>1, <2>2, <2>3 DEF Touches, SameCall, Calling
<1>3. ASSUME NEW d \in Routers
      PROVE  RoutePlace(d)'
  <2>1. CASE Spared(d, T, H) /\ Overtaken(d)
    <3> PICK x \in RouteRows : x = route[d]
      BY <1>1
    <3>1. x.hosts \subseteq Hosts
      BY DEF RouteRows
    <3>2. route'[d].alone /\ x.kind \in Calling =>
            /\ x.tid \in TunnelIds => tunnel'[x.tid] = tunnel[x.tid]
            /\ \A h \in x.hosts : cname'[h] = cname[h]
      BY <2>1, <3>1 DEF Spared
    <3>3. x.tid \in TunnelIds /\ ~route'[d].overtaken /\ x.pc \notin {"check", "none"}
            => (NoPlatform(x.tid) => NoPlatform(x.tid)')
      BY <2>1 DEF Overtaken
    <3>4. x.pc \in {"clear", "drop"} /\ ~route'[d].overtaken /\ ToPlatform(x)' => ToPlatform(x)
      BY <2>1 DEF Overtaken
    <3>5. SameCall(route'[d], x)
      BY <2>1 DEF Spared
    <3> QED
      BY <3>2, <3>3, <3>4, <3>5, RouteStays
  <2>2. CASE route'[d].kind \notin Calling /\ Stepped(route'[d]) /\ route'[d].rec <= serial'
    BY <2>2 DEF RoutePlace, Stepped, Cleared, Named, Published
  <2> QED
    BY <2>1, <2>2
<1> QED
  BY <1>2, <1>3 DEF CloudInv, CloudTypeOK

\* A row after others crossed or overtook its call.
LEMMA CrossedRow ==
  ASSUME NEW x \in RouteRows, NEW b \in BOOLEAN, NEW o \in BOOLEAN, NEW q,
         q = [[x EXCEPT !.alone = x.alone /\ b] EXCEPT !.overtaken = x.overtaken \/ o]
  PROVE  q \in RouteRows /\ SameCall(q, x) /\ (q.alone => b) /\ (o => q.overtaken)
<1> PICK a \in BOOLEAN : a = (x.alone /\ b)
  OBVIOUS
<1> PICK p \in BOOLEAN : p = (x.overtaken \/ o)
  OBVIOUS
<1>1. q = [[x EXCEPT !.alone = a] EXCEPT !.overtaken = p]
  OBVIOUS
<1>2. q \in RouteRows /\ q.alone = a /\ q.overtaken = p
  BY <1>1 DEF RouteRows
<1>3. /\ q.kind = x.kind /\ q.pc = x.pc /\ q.name = x.name /\ q.hosts = x.hosts /\ q.todo = x.todo
      /\ q.host = x.host /\ q.tid = x.tid /\ q.rec = x.rec
  BY <1>1 DEF RouteRows
<1> QED
  BY <1>2, <1>3 DEF SameCall

LEMMA AloneRow ==
  ASSUME NEW x \in RouteRows, NEW b \in BOOLEAN, NEW q, q = [x EXCEPT !.alone = x.alone /\ b]
  PROVE  q \in RouteRows /\ SameCall(q, x) /\ (q.alone => b) /\ q.overtaken = x.overtaken
<1> PICK a \in BOOLEAN : a = (x.alone /\ b)
  OBVIOUS
<1>1. q = [x EXCEPT !.alone = a]
  OBVIOUS
<1>2. q \in RouteRows /\ q.alone = a /\ q.overtaken = x.overtaken
  BY <1>1 DEF RouteRows
<1>3. /\ q.kind = x.kind /\ q.pc = x.pc /\ q.name = x.name /\ q.hosts = x.hosts /\ q.todo = x.todo
      /\ q.host = x.host /\ q.tid = x.tid /\ q.rec = x.rec
  BY <1>1 DEF RouteRows
<1> QED
  BY <1>2, <1>3 DEF SameCall

\* The same for calls that cannot be overtaken.
LEMMA DisturbedRows ==
  ASSUME CloudInv, NEW t \in TunnelIds \cup {NoTunnel}, NEW H \in SUBSET Hosts, NEW d \in Routers
  PROVE  /\ Disturbed(t, H)[d] \in RouteRows /\ SameCall(Disturbed(t, H)[d], route[d])
         /\ Disturbed(t, H)[d].overtaken = route[d].overtaken
         /\ Disturbed(t, H)[d].alone => /\ route[d].hosts \cap H = {}
                                        /\ t # NoTunnel => route[d].tid # t
<1> PICK x \in RouteRows : x = route[d]
  BY DEF CloudInv, CloudTypeOK
<1> PICK b \in BOOLEAN : b = (/\ x.hosts \cap H = {}
                              /\ t # NoTunnel => x.tid # t /\ ~Touches(d, tunnel[t].name, {}))
  OBVIOUS
<1> PICK y : y = Disturbed(t, H)[d]
  OBVIOUS
<1>1. y = [x EXCEPT !.alone = x.alone /\ b]
  BY DEF Disturbed
<1>2. y \in RouteRows /\ SameCall(y, x) /\ (y.alone => b) /\ y.overtaken = x.overtaken
  BY <1>1, AloneRow
<1> QED
  BY <1>2

\* A cleanup that goes on: it has a tunnel or a record less to delete.
LEMMA CleansUpRow ==
  ASSUME CloudInv, NEW c \in Routers, NEW rest \in [Routers -> RouteRows],
         NEW r \in RouteRows, Stepped(r), r.kind \notin Calling, r.rec <= serial,
         route' = CleansUp(c, r, rest)
  PROVE  /\ route' \in [Routers -> RouteRows]
         /\ \A d \in Routers \ {c} : route'[d] = rest[d]
         /\ route'[c] \in {Free, r}
         /\ route'[c].kind \notin Calling /\ Stepped(route'[c]) /\ route'[c].rec <= serial
<1>4. Free \in RouteRows /\ Free.kind \notin Calling /\ Stepped(Free) /\ Free.rec <= serial
  BY FreeRoute DEF CloudInv, CloudTypeOK, Free
<1>5. PICK q \in {Free, r} : route' = [rest EXCEPT ![c] = q]
  BY DEF CleansUp
<1>6. q \in RouteRows /\ q.kind \notin Calling /\ Stepped(q) /\ q.rec <= serial
  BY <1>4
<1>7. route'[c] = q /\ route' \in [Routers -> RouteRows] /\ \A d \in Routers \ {c} : route'[d] = rest[d]
  BY <1>5, <1>6
<1> QED
  BY <1>6, <1>7

LEMMA LessToClean ==
  ASSUME CloudInv, NEW c \in Routers, route[c].kind = "cleanup", NEW R \in SUBSET (Hosts \X Nat), NEW r,
         r = [[route[c] EXCEPT !.tid = NoTunnel] EXCEPT !.recs = R]
  PROVE  r \in RouteRows /\ Stepped(r) /\ r.kind \notin Calling /\ r.rec <= serial
<1> PICK x \in RouteRows : x = route[c]
  BY DEF CloudInv, CloudTypeOK
<1>1. Stepped(x) /\ x.kind = "cleanup" /\ x.rec <= serial
  BY DEF CloudInv, RoutePlace, Cleared
<1>2. r \in RouteRows /\ r.kind = x.kind /\ r.pc = x.pc /\ r.hosts = x.hosts /\ r.todo = x.todo /\ r.rec = x.rec /\ r.tid = NoTunnel
  BY DEF RouteRows
<1> QED
  BY <1>1, <1>2 DEF Stepped, Calling

\* A teardown's cleanup: it starts with what its inputs name, ...
LEMMA CleanupStarts ==
  ASSUME CloudInv, NEW c \in Routers, NEW t \in TunnelIds \cup {NoTunnel}, NEW H \in SUBSET Hosts,
         cleanupExternalResources(c, t, H)
  PROVE  CloudInv'
<1> DEFINE R == {<<h, cname[h].id>> : h \in H}
<1>1. \A h \in H : cname[h].id \in Nat
  BY DEF CloudInv, CloudTypeOK, RecordRows
<1> PICK q : q = [Free EXCEPT !.kind = "cleanup", !.tid = t, !.recs = R]
  OBVIOUS
<1>2. R \in SUBSET (Hosts \X Nat)
  BY <1>1
<1>3. route' = [route EXCEPT ![c] = q]
  BY DEF cleanupExternalResources
<1> HIDE DEF R
<1>4. q \in RouteRows /\ q.kind = "cleanup" /\ q.pc = "none" /\ q.todo = {} /\ q.hosts = {} /\ q.rec = 0 /\ q.tid = t
  BY <1>2 DEF Free, RouteRows
<1>5. Stepped(q) /\ Cleared(q) /\ Named(q) /\ Published(q) /\ q.kind \notin Calling
  BY <1>4 DEF Stepped, Cleared, Named, Published, Calling, CloudInv, CloudTypeOK
<1>6. UNCHANGED <<tunnel, cname, serial, haEndpoints, meshBindings>>
  BY DEF cleanupExternalResources, zone, mesh
<1> QED
  BY <1>3, <1>4, <1>5, <1>6, CallGoes DEF CloudInv, CloudTypeOK

\* ... and deletes them one by one.
LEMMA CleanupKeepsInv ==
  ASSUME CloudInv, NEW c \in Routers,
         \/ cleanupDeletesTunnel(c)
         \/ \E h \in Hosts : \E id \in {x[2] : x \in route[c].recs} : cleanupDeletesRecord(c, h, id)
  PROVE  CloudInv'
<1>0. /\ route \in [Routers -> RouteRows] /\ cname \in [Hosts -> RecordRows] /\ tunnel \in [TunnelIds -> TunnelRows]
      /\ serial \in Nat /\ \A h \in Hosts : cname[h].id <= serial
  BY DEF CloudInv, CloudTypeOK
<1>1. /\ NoRecord \in RecordRows /\ NoRecord.to = NoTunnel /\ NoRecord.id = 0 /\ NoTunnel \notin TunnelIds
      /\ Absent \in TunnelRows /\ Absent.ingress = {}
  BY CloudAssumption DEF NoRecord, RecordRows, Absent, TunnelRows
<1>2. UNCHANGED <<serial, haEndpoints, meshBindings>> /\ route[c].kind = "cleanup" /\ route[c].tid \in TunnelIds \cup {NoTunnel}
  <2>1. UNCHANGED <<serial, haEndpoints, meshBindings>> /\ route[c].kind = "cleanup"
    BY DEF cleanupDeletesTunnel, cleanupDeletesRecord, mesh
  <2> QED
    BY <2>1 DEF CloudInv, RoutePlace, Stepped
<1>3. ASSUME NEW t \in TunnelIds \cup {NoTunnel}, NEW H \in SUBSET Hosts,
             route' \in [Routers -> RouteRows], \A d \in Routers \ {c} : route'[d] = Disturbed(t, H)[d],
             route'[c].kind \notin Calling, Stepped(route'[c]), route'[c].rec <= serial,
             tunnel' \in [TunnelIds -> TunnelRows], t \in TunnelIds => tunnel'[t] = Absent,
             \A v \in TunnelIds \ {t} : tunnel'[v] = tunnel[v],
             cname' \in [Hosts -> RecordRows], \A h \in H : cname'[h] \in {cname[h], NoRecord},
             \A h \in Hosts \ H : cname'[h] = cname[h]
      PROVE  CloudInv'
  <2> PICK T \in SUBSET TunnelIds : T = {t} \cap TunnelIds
    OBVIOUS
  <2>3. \A v \in TunnelIds : /\ NoPlatform(v) => NoPlatform(v)'
                             /\ Exists(v)' => Exists(v) /\ tunnel'[v].name = tunnel[v].name
    BY <1>1, <1>3 DEF NoPlatform, Exists
  <2>4. ASSUME NEW d \in Routers, d # c
        PROVE  Spared(d, T, H) /\ Overtaken(d)
    <3> PICK x \in RouteRows : x = route[d]
      BY <1>0
    <3>1. Spared(d, T, H)
      <4>1. /\ SameCall(route'[d], route[d])
            /\ route'[d].alone => /\ route[d].hosts \cap H = {}
                                  /\ t # NoTunnel => route[d].tid # t
        BY <1>3, <2>4, DisturbedRows
      <4> QED
        BY <1>1, <4>1 DEF Spared
    <3>2. x.pc \in {"clear", "drop"} /\ ToPlatform(x)' => ToPlatform(x)
      <4>1. x.pc \in {"clear", "drop"} => x.host \in Hosts
        BY DEF CloudInv, RoutePlace, Stepped, RouteRows
      <4>2. Exists(Platform)' => Exists(Platform)
        BY <2>3, CloudAssumption
      <4>3. x.host \in Hosts => cname'[x.host] = cname[x.host] \/ cname'[x.host].to = NoTunnel
        BY <1>1, <1>3
      <4> QED
        BY <4>1, <4>2, <4>3, CloudAssumption DEF ToPlatform
    <3> QED
      BY <2>3, <3>1, <3>2 DEF Overtaken
  <2>5. PlatformKept'
    BY <1>3, CloudAssumption DEF CloudInv, PlatformKept
  <2>6. \A h \in Hosts : cname'[h].id <= serial'
    BY <1>0, <1>1, <1>2, <1>3
  <2>7. serial' \in Nat /\ serial' >= serial /\ serial' = serial
    BY <1>0, <1>2
  <2>8. \A d \in Routers : \/ Spared(d, T, H) /\ Overtaken(d)
                           \/ route'[d].kind \notin Calling /\ Stepped(route'[d]) /\ route'[d].rec <= serial'
    BY <1>3, <2>4, <2>7
  <2>9. /\ \A v \in TunnelIds : Exists(v)' => Exists(v) /\ tunnel'[v].name = tunnel[v].name
        /\ \A v \in TunnelIds \ T : tunnel'[v] = tunnel[v]
    BY <1>3, <2>3
  <2> QED
    BY <1>2, <1>3, <2>5, <2>6, <2>7, <2>8, <2>9, OutsideKeepsInv
<1>4. route[c].recs \in SUBSET (Hosts \X Nat) /\ route[c] \in RouteRows
  BY <1>0 DEF RouteRows
<1>5. ASSUME NEW t \in TunnelIds \cup {NoTunnel}, NEW H \in SUBSET Hosts
      PROVE  Disturbed(t, H) \in [Routers -> RouteRows]
  <2>1. Disturbed(t, H) = [d \in Routers |-> Disturbed(t, H)[d]]
    BY DEF Disturbed
  <2>2. \A d \in Routers : Disturbed(t, H)[d] \in RouteRows
    BY DisturbedRows
  <2> QED
    BY <2>1, <2>2
<1>9. ASSUME NEW r \in RouteRows, Stepped(r), r.kind \notin Calling, r.rec <= serial,
             NEW t \in TunnelIds \cup {NoTunnel}, NEW H \in SUBSET Hosts, route' = CleansUp(c, r, Disturbed(t, H))
      PROVE  /\ route' \in [Routers -> RouteRows] /\ \A d \in Routers \ {c} : route'[d] = Disturbed(t, H)[d]
             /\ route'[c].kind \notin Calling /\ Stepped(route'[c]) /\ route'[c].rec <= serial
  BY <1>5, <1>9, CleansUpRow
\* A request that fails changes nothing but the call's row.
<1>6. ASSUME NEW r \in RouteRows, Stepped(r), r.kind \notin Calling, r.rec <= serial,
             route' = CleansUp(c, r, route), UNCHANGED <<tunnel, cname>>
      PROVE  CloudInv'
  <2> PICK q : q = IF r.tid = NoTunnel /\ r.recs = {} THEN Free ELSE r
    OBVIOUS
  <2>1. route' = [route EXCEPT ![c] = q] /\ route'[c] = q
    BY <1>0, <1>6 DEF CleansUp
  <2>2. q \in RouteRows /\ q.kind \notin Calling /\ Stepped(q) /\ q.rec <= serial
    BY <1>0, <1>6, FreeRoute DEF Free, CloudInv, CloudTypeOK
  <2>3. Cleared(q) /\ Named(q) /\ Published(q)
    BY <2>2 DEF Cleared, Named, Published, Stepped
  <2> QED
    BY <1>2, <1>6, <2>1, <2>2, <2>3, CallGoes DEF CloudInv, CloudTypeOK
<1>7. CASE cleanupDeletesTunnel(c)
  <2> PICK t \in TunnelIds : t = route[c].tid
    BY <1>2, <1>7 DEF cleanupDeletesTunnel
  <2> PICK R \in SUBSET (Hosts \X Nat) : R = route[c].recs
    BY <1>4
  <2> PICK r : r = [route[c] EXCEPT !.tid = NoTunnel]
    OBVIOUS
  <2>1. r \in RouteRows /\ Stepped(r) /\ r.kind \notin Calling /\ r.rec <= serial
    <3>1. r = [[route[c] EXCEPT !.tid = NoTunnel] EXCEPT !.recs = R]
      BY <1>4 DEF RouteRows
    <3> QED
      BY <1>2, <3>1, LessToClean
  <2>2. CASE tunnel' = [tunnel EXCEPT ![t] = Absent] /\ route' = CleansUp(c, r, Disturbed(t, {}))
    <3>1. /\ tunnel' \in [TunnelIds -> TunnelRows] /\ tunnel'[t] = Absent
          /\ \A v \in TunnelIds \ {t} : tunnel'[v] = tunnel[v]
      BY <1>0, <1>1, <2>2
    <3>2. cname' = cname
      BY <1>7 DEF cleanupDeletesTunnel
    <3>3. /\ route' \in [Routers -> RouteRows]
          /\ \A d \in Routers \ {c} : route'[d] = Disturbed(t, {})[d]
          /\ route'[c].kind \notin Calling /\ Stepped(route'[c]) /\ route'[c].rec <= serial
      <4>1. route' = CleansUp(c, r, Disturbed(t, {})) /\ {} \in SUBSET Hosts /\ t \in TunnelIds \cup {NoTunnel}
        BY <2>2
      <4> QED
        BY <1>9, <2>1, <4>1
    <3> QED
      BY <1>0, <1>3, <3>1, <3>2, <3>3
  <2>3. CASE UNCHANGED tunnel /\ route' = CleansUp(c, r, route)
    BY <1>6, <1>7, <2>1, <2>3 DEF cleanupDeletesTunnel
  <2> QED
    BY <1>7, <2>2, <2>3 DEF cleanupDeletesTunnel
<1>8. ASSUME NEW h \in Hosts, NEW id \in {x[2] : x \in route[c].recs}, cleanupDeletesRecord(c, h, id)
      PROVE  CloudInv'
  <2> PICK R \in SUBSET (Hosts \X Nat) : R = route[c].recs \ {<<h, id>>}
    BY <1>4
  <2> PICK r : r = [route[c] EXCEPT !.recs = @ \ {<<h, id>>}]
    OBVIOUS
  <2>1. r \in RouteRows /\ Stepped(r) /\ r.kind \notin Calling /\ r.rec <= serial /\ tunnel' = tunnel
    <3>1. r = [[route[c] EXCEPT !.tid = NoTunnel] EXCEPT !.recs = R] /\ tunnel' = tunnel
      BY <1>4, <1>8 DEF RouteRows, cleanupDeletesRecord
    <3> QED
      BY <1>2, <3>1, LessToClean
  <2>2. CASE DeletesRecord(h, id) /\ route' = CleansUp(c, r, Disturbed(NoTunnel, {h}))
    <3> PICK H \in SUBSET Hosts : H = {h}
      OBVIOUS
    <3>1. /\ cname' \in [Hosts -> RecordRows] /\ \A k \in H : cname'[k] \in {cname[k], NoRecord}
          /\ \A k \in Hosts \ H : cname'[k] = cname[k]
      BY <1>0, <1>1, <2>2 DEF DeletesRecord
    <3>2. /\ route' \in [Routers -> RouteRows]
          /\ \A d \in Routers \ {c} : route'[d] = Disturbed(NoTunnel, H)[d]
          /\ route'[c].kind \notin Calling /\ Stepped(route'[c]) /\ route'[c].rec <= serial
      <4>1. route' = CleansUp(c, r, Disturbed(NoTunnel, H)) /\ NoTunnel \in TunnelIds \cup {NoTunnel}
        BY <2>2
      <4> QED
        BY <1>9, <2>1, <4>1
    <3> QED
      BY <1>0, <1>1, <1>3, <2>1, <3>1, <3>2
  <2>3. CASE UNCHANGED cname /\ route' = CleansUp(c, r, route)
    BY <1>6, <2>1, <2>3
  <2> QED
    BY <1>8, <2>2, <2>3 DEF cleanupDeletesRecord
<1> QED
  BY <1>7, <1>8

\* The platform's own work on the zone.
LEMMA PlatformKeepsInv ==
  ASSUME CloudInv, platformWorks
  PROVE  CloudInv'
<1>0. /\ route \in [Routers -> RouteRows] /\ cname \in [Hosts -> RecordRows] /\ tunnel \in [TunnelIds -> TunnelRows]
      /\ serial \in Nat /\ \A h \in Hosts : cname[h].id <= serial
  BY DEF CloudInv, CloudTypeOK
<1>1. UNCHANGED <<haEndpoints, meshBindings>>
  BY DEF platformWorks, platformPoints, platformRoutes, mesh
<1>2. ASSUME NEW h \in Hosts, platformPoints(h)
      PROVE  CloudInv'
  <2> PICK H \in SUBSET Hosts : H = {h}
    OBVIOUS
  <2> PICK T \in SUBSET TunnelIds : T = {}
    OBVIOUS
  <2>1. tunnel' = tunnel /\ PlatformKept'
    BY <1>2 DEF platformPoints, CloudInv, PlatformKept
  <2>2. /\ cname' \in [Hosts -> RecordRows] /\ \A k \in Hosts \ H : cname'[k] = cname[k]
        /\ serial' \in Nat /\ serial' >= serial /\ \A k \in Hosts : cname'[k].id <= serial'
    <3>1. CASE cname' = [cname EXCEPT ![h].to = Platform] /\ UNCHANGED serial
      <4> PICK y \in RecordRows : y = cname[h]
        BY <1>0
      <4>0. [y EXCEPT !.to = Platform] \in RecordRows
        BY CloudAssumption DEF RecordRows
      <4> PICK x \in RecordRows : x = [y EXCEPT !.to = Platform]
        BY <4>0
      <4>1. cname' = [cname EXCEPT ![h] = x]
        BY <3>1
      <4>2. x.id = cname[h].id
        BY DEF RecordRows
      <4>3. cname'[h] = x /\ \A k \in Hosts \ {h} : cname'[k] = cname[k]
        BY <1>0, <4>1
      <4> QED
        BY <1>0, <3>1, <4>1, <4>2, <4>3
    <3>2. CASE cname' = [cname EXCEPT ![h] = [to |-> Platform, id |-> serial + 1]] /\ serial' = serial + 1
      <4>0. serial + 1 \in Nat
        BY <1>0
      <4> PICK x \in RecordRows : x = [to |-> Platform, id |-> serial + 1]
        BY <4>0, CloudAssumption DEF RecordRows
      <4>1. cname' = [cname EXCEPT ![h] = x] /\ x.id = serial + 1
        BY <3>2
      <4>2. \A k \in Hosts : cname[k].id \in Nat
        BY <1>0 DEF RecordRows
      <4> QED
        BY <1>0, <3>2, <4>1, <4>2
    <3> QED
      BY <1>2, <3>1, <3>2 DEF platformPoints
  <2>3. ASSUME NEW d \in Routers
        PROVE  Spared(d, T, H) /\ Overtaken(d) /\ route'[d] \in RouteRows
    <3> PICK x \in RouteRows : x = route[d]
      BY <1>0
    <3> PICK b \in BOOLEAN : b = (x.hosts \cap {h} = {})
      OBVIOUS
    <3>0. Disturbed(NoTunnel, {h})[d] = [x EXCEPT !.alone = x.alone /\ b]
      BY DEF Disturbed
    <3>1. CASE /\ cname' = [cname EXCEPT ![h].to = Platform]
               /\ route' = [e \in Routers |-> [Disturbed(NoTunnel, {h})[e] EXCEPT !.overtaken =
                    @ \/ (route[e].pc \in {"clear", "drop"} /\ route[e].host = h /\ route[e].rec = cname[h].id)]]
      <4> PICK o \in BOOLEAN : o = (x.pc \in {"clear", "drop"} /\ x.host = h /\ x.rec = cname[h].id)
        OBVIOUS
      <4>1. [x EXCEPT !.alone = x.alone /\ b].overtaken = x.overtaken
        BY DEF RouteRows
      <4>2. route'[d] = [[x EXCEPT !.alone = x.alone /\ b] EXCEPT !.overtaken = x.overtaken \/ o]
        BY <3>0, <3>1, <4>1
      <4>3. route'[d] \in RouteRows /\ SameCall(route'[d], x) /\ (route'[d].alone => b) /\ (o => route'[d].overtaken)
        BY <4>2, CrossedRow
      <4>4. x.pc \in {"clear", "drop"} /\ ToPlatform(x)' => ToPlatform(x) \/ o
        <5>1. x.pc \in {"clear", "drop"} => x.host \in Hosts
          BY DEF CloudInv, RoutePlace, Stepped, RouteRows
        <5>2. \A k \in Hosts : cname'[k].id = cname[k].id /\ (k # h => cname'[k] = cname[k])
          BY <1>0, <3>1 DEF RecordRows
        <5> QED
          BY <2>1, <5>1, <5>2 DEF ToPlatform, Exists
      <4> QED
        BY <2>1, <4>3, <4>4 DEF Spared, Overtaken, NoPlatform
    <3>2. CASE /\ cname' = [cname EXCEPT ![h] = [to |-> Platform, id |-> serial + 1]]
               /\ route' = Disturbed(NoTunnel, {h})
      <4>1. route'[d] \in RouteRows /\ SameCall(route'[d], x) /\ (route'[d].alone => x.hosts \cap {h} = {})
        BY <3>2, DisturbedRows
      <4>2. x.pc \in {"clear", "drop"} /\ ToPlatform(x)' => ToPlatform(x)
        <5>1. x.pc \in {"clear", "drop"} => x.host \in Hosts /\ x.rec <= serial /\ x.rec \in Nat
          BY DEF CloudInv, RoutePlace, Stepped, Cleared, RouteRows
        <5>2. x.host \in Hosts => (cname'[x.host] = cname[x.host] \/ cname'[x.host].id = serial + 1)
          BY <1>0, <3>2
        <5>3. x.host \in Hosts => cname[x.host].id \in Nat
          BY <1>0 DEF RecordRows
        <5> QED
          BY <1>0, <2>1, <5>1, <5>2, <5>3 DEF ToPlatform, Exists
      <4> QED
        BY <2>1, <4>1, <4>2 DEF Spared, Overtaken, NoPlatform
    <3> QED
      BY <1>2, <3>1, <3>2 DEF platformPoints
  <2>4. route' \in [Routers -> RouteRows]
    <3>1. route' = [d \in Routers |-> route'[d]]
      BY <1>2 DEF platformPoints, Disturbed
    <3> QED
      BY <2>3, <3>1
  <2>5. /\ tunnel' \in [TunnelIds -> TunnelRows] /\ \A t \in TunnelIds \ T : tunnel'[t] = tunnel[t]
        /\ \A t \in TunnelIds : Exists(t)' => Exists(t) /\ tunnel'[t].name = tunnel[t].name
    BY <1>0, <2>1 DEF Exists
  <2> QED
    BY <1>1, <2>1, <2>2, <2>3, <2>4, <2>5, OutsideKeepsInv
<1>3. ASSUME NEW t \in TunnelIds, platformRoutes(t)
      PROVE  CloudInv'
  <2> PICK H \in SUBSET Hosts : H = {}
    OBVIOUS
  <2> PICK T \in SUBSET TunnelIds : T = {t}
    OBVIOUS
  <2>1. /\ cname' = cname /\ serial' = serial /\ Exists(t) /\ PlatformHost \notin tunnel[t].ingress
        /\ tunnel' = [tunnel EXCEPT ![t].ingress = @ \cup {PlatformHost}]
    BY <1>3 DEF platformRoutes
  <2>2. t # Platform
    BY <2>1 DEF CloudInv, PlatformKept, Exists
  <2>3. /\ tunnel' \in [TunnelIds -> TunnelRows] /\ \A u \in TunnelIds \ T : tunnel'[u] = tunnel[u]
        /\ tunnel'[t].name = tunnel[t].name
    BY <1>0, <2>1 DEF TunnelRows
  <2>4. /\ \A u \in TunnelIds : Exists(u)' => Exists(u) /\ tunnel'[u].name = tunnel[u].name
        /\ Exists(Platform)' => Exists(Platform)
        /\ PlatformKept'
    BY <2>1, <2>2, <2>3, CloudAssumption DEF Exists, CloudInv, PlatformKept
  <2>5. ASSUME NEW d \in Routers
        PROVE  Spared(d, T, H) /\ Overtaken(d) /\ route'[d] \in RouteRows
    <3> PICK x \in RouteRows : x = route[d]
      BY <1>0
    <3> PICK b \in BOOLEAN : b = (x.tid # t /\ ~Touches(d, tunnel[t].name, {}))
      OBVIOUS
    <3> PICK o \in BOOLEAN : o = (x.tid = t /\ x.pc \notin {"check", "none"})
      OBVIOUS
    <3>0. Disturbed(t, {})[d] = [x EXCEPT !.alone = x.alone /\ b]
      BY CloudAssumption DEF Disturbed
    <3>1. [x EXCEPT !.alone = x.alone /\ b].overtaken = x.overtaken
      BY DEF RouteRows
    <3>2. route'[d] = [[x EXCEPT !.alone = x.alone /\ b] EXCEPT !.overtaken = x.overtaken \/ o]
      BY <1>3, <3>0, <3>1 DEF platformRoutes
    <3>3. route'[d] \in RouteRows /\ SameCall(route'[d], x) /\ (route'[d].alone => b) /\ (o => route'[d].overtaken)
      BY <3>2, CrossedRow
    <3>4. ToPlatform(x)' => ToPlatform(x)
      BY <2>1, <2>4 DEF ToPlatform
    <3>5. \A u \in TunnelIds : u = x.tid /\ NoPlatform(u) /\ x.pc \notin {"check", "none"} => NoPlatform(u)' \/ o
      BY <2>3 DEF NoPlatform
    <3> QED
      BY <3>3, <3>4, <3>5 DEF Spared, Overtaken
  <2>6. route' \in [Routers -> RouteRows]
    <3>1. route' = [d \in Routers |-> route'[d]]
      BY <1>3 DEF platformRoutes, Disturbed
    <3> QED
      BY <2>5, <3>1
  <2>7. /\ serial' \in Nat /\ serial' >= serial /\ \A k \in Hosts : cname'[k].id <= serial'
        /\ cname' \in [Hosts -> RecordRows] /\ \A k \in Hosts \ H : cname'[k] = cname[k]
    BY <1>0, <2>1
  <2> QED
    BY <1>1, <2>3, <2>4, <2>5, <2>6, <2>7, OutsideKeepsInv
<1> QED
  BY <1>2, <1>3 DEF platformWorks

\* Memberships, connectors and the restart of the provider.
LEMMA MeshKeepsInv ==
  ASSUME CloudInv, NEW c \in Routers, NEW m \in MeshRefs, attachNetworkOverlay(c, m) \/ removeNetworkOverlay(c, m)
  PROVE  CloudInv'
<1>0. /\ UNCHANGED <<tunnel, cname, serial, haEndpoints>>
      /\ meshBindings \in [MeshRefs -> Nodes \cup {NoTunnel}]
  BY DEF attachNetworkOverlay, removeNetworkOverlay, zone, CloudInv, CloudTypeOK
<1>1. meshBindings' \in [MeshRefs -> Nodes \cup {NoTunnel}]
  BY <1>0 DEF attachNetworkOverlay, removeNetworkOverlay, mesh
<1>2. CASE Returns(c)
  BY <1>0, <1>1, <1>2, EndsKeepInv DEF Returns, Goes, CloudInv, CloudTypeOK
<1>3. CASE \/ route' = [route EXCEPT ![c] = [Free EXCEPT !.kind = "attach", !.tid = m, !.host = meshBindings[m]]]
           \/ route' = [route EXCEPT ![c] = [Free EXCEPT !.kind = "leave", !.tid = m]]
  <2> PICK q \in {[Free EXCEPT !.kind = "attach", !.tid = m, !.host = meshBindings[m]],
                  [Free EXCEPT !.kind = "leave", !.tid = m]} : route' = [route EXCEPT ![c] = q]
    BY <1>3
  <2>2. /\ q \in RouteRows /\ q.kind \notin Calling \cup {"cleanup"} /\ q.pc = "none" /\ q.todo = {}
        /\ q.hosts = {} /\ q.rec = 0
    <3>1. meshBindings[m] \in Nodes \cup {NoTunnel}
      BY <1>0
    <3>2. /\ [Free EXCEPT !.kind = "attach", !.tid = m, !.host = meshBindings[m]] \in RouteRows
          /\ [Free EXCEPT !.kind = "leave", !.tid = m] \in RouteRows
      BY <3>1 DEF Free, RouteRows
    <3>3. q \in RouteRows /\ q.kind \in {"attach", "leave"} /\ q.pc = "none" /\ q.todo = {} /\ q.hosts = {} /\ q.rec = 0
      <4>1. CASE q = [Free EXCEPT !.kind = "attach", !.tid = m, !.host = meshBindings[m]]
        BY <3>2, <4>1 DEF Free
      <4>2. CASE q = [Free EXCEPT !.kind = "leave", !.tid = m]
        BY <3>2, <4>2 DEF Free
      <4> QED
        BY <4>1, <4>2
    <3> QED
      BY <3>3 DEF Calling
  <2>3. Stepped(q) /\ Cleared(q) /\ Named(q) /\ Published(q)
    BY <2>2 DEF Stepped, Cleared, Named, Published, Calling, CloudInv, CloudTypeOK
  <2> QED
    BY <1>0, <1>1, <2>2, <2>3, CallGoes DEF CloudInv, CloudTypeOK
<1> QED
  BY <1>2, <1>3 DEF attachNetworkOverlay, removeNetworkOverlay

\* Connectors, memberships, restarts and stuttering steps.
LEMMA AroundKeepsInv ==
  ASSUME CloudInv,
         \/ UNCHANGED cloudVars
         \/ \E p \in Placements, t \in TunnelIds : installConnector(p, t)
         \/ deleteConnector
         \/ \E m \in MeshRefs, g \in Nodes : prepareNetworkOverlay(m, g)
         \/ \E g \in Nodes : dispatchMeshRuntimeOperation(g)
         \/ cloudflareRestarts
  PROVE  CloudInv'
<1>1. UNCHANGED <<tunnel, cname, serial>>
  BY DEF cloudVars, installConnector, deleteConnector, prepareNetworkOverlay, dispatchMeshRuntimeOperation,
         cloudflareRestarts, zone
<1>2. /\ haEndpoints' \subseteq haEndpoints
      /\ meshBindings' \in [MeshRefs -> Nodes \cup {NoTunnel}]
  BY DEF cloudVars, installConnector, deleteConnector, prepareNetworkOverlay, dispatchMeshRuntimeOperation,
         cloudflareRestarts, mesh, CloudInv, CloudTypeOK
<1>3. route' = route \/ (route' = [c \in Routers |-> Free])
  BY DEF cloudVars, installConnector, deleteConnector, prepareNetworkOverlay, dispatchMeshRuntimeOperation,
         cloudflareRestarts
<1>4. /\ Free \in RouteRows /\ Free.kind \notin Calling
      /\ Stepped(Free) /\ Cleared(Free)' /\ Named(Free)' /\ Published(Free)'
  BY <1>1, FreeRoute DEF Free, Calling, Cleared, Named, Published, CloudInv, CloudTypeOK
<1>5. \A c \in Routers : RoutePlace(c)'
  <2>1. CASE route' = route
    BY <1>1, <2>1 DEF CloudInv, RoutePlace, Stepped, Cleared, Named, Published, NoPlatform, ToPlatform, Exists
  <2>2. CASE route' = [c \in Routers |-> Free]
    BY <1>4, <2>2 DEF RoutePlace, Cleared, Named, Published, Stepped, Free, Calling
  <2> QED
    BY <1>3, <2>1, <2>2
<1>6. CloudTypeOK' /\ PlatformKept' /\ AloneIsAlone'
  BY <1>1, <1>2, <1>3, <1>4 DEF CloudInv, CloudTypeOK, PlatformKept, NoPlatform, AloneIsAlone, Touches
<1> QED
  BY <1>5, <1>6 DEF CloudInv

\* Every behaviour of the provider keeps what its calls rely on.
THEOREM CloudInvariant == CloudSpec => []CloudInv
<1>1. CloudInit => CloudInv
  <2> SUFFICES ASSUME CloudInit PROVE CloudInv
    OBVIOUS
  <2>1. PICK t \in TunnelIds \ {Platform}, n \in Names, H \in (SUBSET Hosts) \cup {{PlatformHost}} :
          /\ tunnel = [u \in TunnelIds |->
                        CASE u = Platform -> [name |-> Platform, ingress |-> {PlatformHost}]
                          [] u = t /\ H # {} -> [name |-> n, ingress |-> H]
                          [] OTHER -> Absent]
          /\ cname \in {f \in [Hosts -> {NoRecord} \cup [to : {Platform, t, "elsewhere"}, id : {0}]] :
                          \A h \in Hosts : f[h].to = t <=> h \in H}
    BY DEF CloudInit
  <2>2. Absent \in TunnelRows /\ NoRecord \in RecordRows /\ PlatformHost \notin Absent.ingress
    BY DEF Absent, TunnelRows, NoRecord, RecordRows
  <2>3. /\ tunnel[Platform] = [name |-> Platform, ingress |-> {PlatformHost}]
        /\ \A u \in TunnelIds \ {Platform} :
             tunnel[u] = Absent \/ (u = t /\ tunnel[u] = [name |-> n, ingress |-> H])
    BY <2>1, CloudAssumption
  <2>4. tunnel \in [TunnelIds -> TunnelRows]
    <3>1. \A u \in TunnelIds : tunnel[u] \in TunnelRows
      BY <2>1, <2>2, <2>3 DEF TunnelRows
    <3> QED
      BY <2>1, <3>1
  <2>5. cname \in [Hosts -> RecordRows]
    <3>1. [to : {Platform, t, "elsewhere"}, id : {0}] \subseteq RecordRows
      BY <2>1, CloudAssumption DEF RecordRows
    <3> QED
      BY <2>1, <2>2, <3>1
  <2>6. PlatformKept
    BY <2>1, <2>2, <2>3, CloudAssumption DEF PlatformKept, NoPlatform
  <2>7. route = [c \in Routers |-> Free] /\ serial = 0 /\ haEndpoints = {}
        /\ meshBindings = [m \in MeshRefs |-> NoTunnel]
    BY DEF CloudInit
  <2>8. /\ Free \in RouteRows /\ Free.kind \notin Calling
        /\ Stepped(Free) /\ Cleared(Free) /\ Named(Free) /\ Published(Free)
    BY <2>7, FreeRoute
  <2>9. \A h \in Hosts : cname[h].id <= serial
    BY <2>1, <2>7 DEF NoRecord
  <2> QED
    BY <2>4, <2>5, <2>6, <2>7, <2>8, <2>9 DEF CloudInv, CloudTypeOK, AloneIsAlone, RoutePlace
<1>2. CloudInv /\ [CloudNext]_cloudVars => CloudInv'
  BY BeginsKeepInv, FindKeepsInv, ReadKeepsInv, ConnectKeepsInv, FailsKeepInv, CreateKeepsInv, TunnelKeepsInv,
     RecordKeepsInv, CleanupStarts, CleanupKeepsInv, PlatformKeepsInv, MeshKeepsInv, AroundKeepsInv DEF CloudNext
<1> QED
  BY <1>1, <1>2, PTL DEF CloudSpec

\* Once a call has the run token and hands it to connectors, its route is
\* complete, unless another call about the same name or hostname ran meanwhile
\* (putCloudflareTunnelIngress, upsertDedicatedCNAME, cloudflareTunnelToken).
THEOREM RoutesAreComplete == CloudSpec => []RouteComplete
<1>1. CloudInv => RouteComplete
  BY DEF CloudInv, RoutePlace, Stepped, Published, RouteComplete
<1> QED
  BY <1>1, CloudInvariant, PTL

\* A tunnel that carries the platform's hostname, and a record that points to
\* the platform's tunnel, are changed by nothing but a cleanup whose inputs name
\* them and a call that was overtaken, whatever calls run at the same time
\* (refusePlatformIngress, upsertDedicatedCNAME, unpublishDedicatedTunnel,
\* cloudflareDelete by identity).
THEOREM PlatformIsUntouched == CloudSpec => PlatformUntouched
<1> DEFINE Kept ==
      /\ \A t \in TunnelIds : PlatformHost \in tunnel[t].ingress /\ tunnel'[t] # tunnel[t] =>
           \E c \in Routers : route[c].tid = t /\ (route[c].kind = "cleanup" \/ route[c].overtaken)
      /\ \A h \in Hosts : cname[h].to = Platform /\ Exists(Platform) /\ cname'[h] # cname[h] =>
           \E c \in Routers :
             \/ route[c].kind = "cleanup" /\ <<h, cname[h].id>> \in route[c].recs
             \/ route[c].overtaken /\ route[c].host = h /\ route[c].rec = cname[h].id
<1>1. ASSUME CloudInv, NEW c \in Routers,
             \/ ensureCloudflareTunnelByName(c) \/ putCloudflareTunnelIngress(c) \/ unpublishDedicatedTunnel(c)
      PROVE  Kept
  <2> DEFINE r == route[c]
  <2>1. Stepped(r) /\ Cleared(r) /\ UNCHANGED cname /\ tunnel \in [TunnelIds -> TunnelRows]
    BY <1>1 DEF ensureCloudflareTunnelByName, putCloudflareTunnelIngress, unpublishDedicatedTunnel, CloudInv,
                CloudTypeOK, RoutePlace
  <2>2. \/ UNCHANGED tunnel
        \/ \E t \in TunnelIds : ~Exists(t) /\ \A u \in TunnelIds : u # t => tunnel'[u] = tunnel[u]
        \/ /\ r.kind \in Calling /\ r.pc # "check" /\ r.tid # NoTunnel
           /\ \A u \in TunnelIds : u # r.tid => tunnel'[u] = tunnel[u]
    <3>1. CASE ensureCloudflareTunnelByName(c)
      BY <2>1, <3>1 DEF ensureCloudflareTunnelByName
    <3>2. CASE putCloudflareTunnelIngress(c)
      BY <2>1, <3>2, CloudAssumption DEF putCloudflareTunnelIngress, RouterAt, Stepped, Calling
    <3>3. CASE unpublishDedicatedTunnel(c)
      BY <2>1, <3>3 DEF unpublishDedicatedTunnel, RouterAt, Calling
    <3> QED
      BY <1>1, <3>1, <3>2, <3>3
  <2>3. ASSUME NEW t \in TunnelIds, PlatformHost \in tunnel[t].ingress, tunnel'[t] # tunnel[t]
        PROVE  r.tid = t /\ r.overtaken
    BY <2>1, <2>2, <2>3 DEF Cleared, NoPlatform, Exists, Absent
  <2> QED
    BY <2>1, <2>3
<1>2. ASSUME CloudInv, NEW c \in Routers,
             clearConflicting(c) \/ upsertDedicatedCNAME(c) \/ deleteDedicatedCNAME(c)
      PROVE  Kept
  <2> DEFINE r == route[c]
  <2>1. Cleared(r) /\ UNCHANGED tunnel /\ cname \in [Hosts -> RecordRows]
    BY <1>2 DEF clearConflicting, upsertDedicatedCNAME, deleteDedicatedCNAME, CloudInv, CloudTypeOK, RoutePlace
  <2>2. \/ UNCHANGED cname
        \/ cname[r.host] = NoRecord /\ \A h \in Hosts : h # r.host => cname'[h] = cname[h]
        \/ r.pc \in {"clear", "drop"} /\ DeletesRecord(r.host, r.rec)
    BY <1>2, <2>1 DEF clearConflicting, upsertDedicatedCNAME, deleteDedicatedCNAME, RouterAt
  <2>3. ASSUME NEW h \in Hosts, cname[h].to = Platform, Exists(Platform), cname'[h] # cname[h]
        PROVE  r.overtaken /\ r.host = h /\ r.rec = cname[h].id
    <3>1. cname[h] # NoRecord
      BY <2>3, CloudAssumption DEF NoRecord
    <3>2. r.pc \in {"clear", "drop"} /\ DeletesRecord(r.host, r.rec)
      BY <2>2, <2>3, <3>1
    <3>3. r.host = h /\ r.rec = cname[h].id
      BY <2>1, <2>3, <3>2 DEF DeletesRecord
    <3> QED
      BY <2>1, <2>3, <3>2, <3>3 DEF Cleared, ToPlatform
  <2> QED
    BY <2>1, <2>3
<1>3. ASSUME CloudInv, NEW c \in Routers, cleanupDeletesTunnel(c)
      PROVE  Kept
  BY <1>3 DEF cleanupDeletesTunnel, CloudInv, CloudTypeOK
<1>4. ASSUME CloudInv, NEW c \in Routers, NEW h \in Hosts, NEW id, cleanupDeletesRecord(c, h, id)
      PROVE  Kept
  BY <1>4 DEF cleanupDeletesRecord, DeletesRecord, CloudInv, CloudTypeOK
<1>6. ASSUME CloudInv, NEW h \in Hosts, platformPoints(h)
      PROVE  Kept
  <2>1. tunnel' = tunnel /\ cname[h].to # Platform /\ \A k \in Hosts : k # h => cname'[k] = cname[k]
    BY <1>6 DEF platformPoints, CloudInv, CloudTypeOK
  <2> QED
    BY <2>1
<1>7. ASSUME CloudInv, NEW t \in TunnelIds, platformRoutes(t)
      PROVE  Kept
  <2>1. cname' = cname /\ PlatformHost \notin tunnel[t].ingress /\ \A u \in TunnelIds : u # t => tunnel'[u] = tunnel[u]
    BY <1>7 DEF platformRoutes, CloudInv, CloudTypeOK
  <2> QED
    BY <2>1
<1>8. ASSUME CloudInv, UNCHANGED <<tunnel, cname>>
      PROVE  Kept
  BY <1>8
<1>5. CloudInv /\ [CloudNext]_cloudVars => Kept
  <2> SUFFICES ASSUME CloudInv, [CloudNext]_cloudVars PROVE Kept
    OBVIOUS
  <2> HIDE DEF Kept
  <2>1. \/ \E c \in Routers : \/ ensureCloudflareTunnelByName(c) \/ putCloudflareTunnelIngress(c)
                              \/ unpublishDedicatedTunnel(c) \/ clearConflicting(c) \/ upsertDedicatedCNAME(c)
                              \/ deleteDedicatedCNAME(c)
        \/ \E c \in Routers : cleanupDeletesTunnel(c) \/ \E h \in Hosts, id \in Nat : cleanupDeletesRecord(c, h, id)
        \/ platformWorks
        \/ UNCHANGED <<tunnel, cname>>
    <3>1. ASSUME NEW c \in Routers,
                 \/ \E n \in Names \cup {Platform}, H \in SUBSET Hosts :
                      ensureDedicatedTunnel(c, n, H) \/ removeTunnel(c, n, H)
                 \/ \E n \in Names, h \in Hosts : ensureNetworkOverlayHAEndpoint(c, n, h)
                 \/ \E e \in haEndpoints : removeNetworkOverlayHAEndpoint(c, e)
                 \/ \E m \in MeshRefs : attachNetworkOverlay(c, m) \/ removeNetworkOverlay(c, m)
          PROVE  UNCHANGED <<tunnel, cname>>
      BY <3>1 DEF ensureDedicatedTunnel, removeTunnel, ensureNetworkOverlayHAEndpoint,
         removeNetworkOverlayHAEndpoint, attachNetworkOverlay, removeNetworkOverlay, zone
    <3>2. ASSUME NEW c \in Routers,
                 \/ findCloudflareTunnelByName(c) \/ cloudflareTunnelIngress(c)
                 \/ \E h \in Hosts : listHostnameDNSRecords(c, h) \/ findHostnameCNAME(c, h)
                 \/ cloudflareTunnelToken(c) \/ waitForHAEndpoint(c) \/ cloudflareJSON(c)
          PROVE  UNCHANGED <<tunnel, cname>>
      BY <3>2 DEF findCloudflareTunnelByName, cloudflareTunnelIngress, listHostnameDNSRecords, findHostnameCNAME,
         cloudflareTunnelToken, waitForHAEndpoint, cloudflareJSON, zone
    <3>3. ASSUME NEW c \in Routers,
                 \/ \E p \in Placements : reconcileHostTunnel(c, p)
                 \/ \E g \in Nodes : installHAConnector(c, g)
                 \/ installFails(c) \/ endpointNotReached(c)
          PROVE  UNCHANGED <<tunnel, cname>>
      BY <3>3 DEF reconcileHostTunnel, installHAConnector, installFails, endpointNotReached, Undoes, zone
    <3>4. ASSUME \/ UNCHANGED cloudVars
                 \/ \E p \in Placements, t \in TunnelIds : installConnector(p, t)
                 \/ deleteConnector
                 \/ \E m \in MeshRefs, g \in Nodes : prepareNetworkOverlay(m, g)
                 \/ \E g \in Nodes : dispatchMeshRuntimeOperation(g)
                 \/ cloudflareRestarts
          PROVE  UNCHANGED <<tunnel, cname>>
      BY <3>4 DEF cloudVars, installConnector, deleteConnector, prepareNetworkOverlay, dispatchMeshRuntimeOperation,
         cloudflareRestarts, zone
    <3>5. ASSUME NEW c \in Routers, NEW t \in TunnelIds \cup {NoTunnel}, NEW H \in SUBSET Hosts,
                 cleanupExternalResources(c, t, H)
          PROVE  UNCHANGED <<tunnel, cname>>
      BY <3>5 DEF cleanupExternalResources, zone
    <3>6. \A c \in Routers : \A id \in {x[2] : x \in route[c].recs} : id \in Nat
      BY DEF CloudInv, CloudTypeOK, RouteRows
    <3> QED
      BY <3>1, <3>2, <3>3, <3>4, <3>5, <3>6 DEF CloudNext
  <2> QED
    BY <1>1, <1>2, <1>3, <1>4, <1>6, <1>7, <1>8, <2>1 DEF platformWorks
<1> QED
  BY <1>5, CloudInvariant, PTL DEF CloudSpec, PlatformUntouched
=============================================================================
