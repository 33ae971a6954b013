--------------------------- MODULE K3sMembership ---------------------------
(***************************************************************************)
(* The K3s provider (plugins/kubernetes/k3s): provisioning a server in a   *)
(* guest, inviting and joining further servers, retiring one, and the      *)
(* reset of an etcd cluster that lost its majority.                        *)
(*                                                                         *)
(* The provider keeps only the invitations of its process; everything else *)
(* it learns by commands in a guest, one after the other, while guests     *)
(* stop and start and other calls run.  A cluster is its etcd member list; *)
(* a guest's API server answers when the guest runs K3s and the running    *)
(* members of its cluster are a majority.  Versions, addresses, tokens and *)
(* ciphertext are left out: a token works for the cluster it was read in,  *)
(* sealed material opens for the key it was sealed to.                     *)
(***************************************************************************)
EXTENDS ToolCalls, FiniteSets

CONSTANTS Guests, GuestHosts,
          Home,        \* the host, and so the provider process, of a guest
          Operators,   \* calls that may be in progress at the same time
          Refs,        \* redemption references
          Clusters,    \* identities of etcd clusters
          First,       \* the cluster that exists at first
          Servers,     \* and its servers
          None

ASSUME HomeAssumption == Home \in [Guests -> GuestHosts]
ASSUME GuestsAssumption == IsFiniteSet(Guests)
ASSUME ServersAssumption == Servers \subseteq Guests /\ First \in Clusters
ASSUME NoneAssumption == None \notin Guests \cup Clusters \cup GuestHosts \cup Refs

VARIABLES
  unit,        \* K3s in a guest: "absent", "staged" (binary only), "running", "stopped"
  cluster,     \* the etcd cluster in a guest's data directory
  members,     \* the member list of a cluster
  invitation,  \* joinInvitations of a host's provider
  sealed,      \* material handed to the caller: host and key it was sealed to
  expired,     \* references whose time has passed
  key,         \* joinReceiverKey: which one a host's provider has
  op,          \* the call an operator is in
  lossKnown    \* history: clusters without a majority that somebody was told of

membershipVars == <<unit, cluster, members, invitation, sealed, expired, key, op, lossKnown>>

MembershipOps ==
  [kind : {"none", "provision", "restart", "join", "remove", "recover"},
   pc : {"idle", "install", "await", "delete", "verify", "probe", "stop", "reset", "start"},
   guest : Guests \cup {None}, arg : Refs \cup Guests \cup {None},
   token : Clusters \cup {None}]      \* the cluster whose join token the call uses

MembershipTypeOK ==
  /\ unit \in [Guests -> {"absent", "staged", "running", "stopped"}]
  /\ cluster \in [Guests -> Clusters \cup {None}]
  /\ members \in [Clusters -> SUBSET Guests]
  /\ invitation \in [GuestHosts -> [Refs -> {"none", "open", "redeemed", "consumed"}]]
  /\ sealed \in [Refs -> [cluster : Clusters \cup {None}, host : GuestHosts \cup {None}, key : Nat]]
  /\ expired \subseteq Refs
  /\ key \in [GuestHosts -> Nat]
  /\ op \in [Operators -> MembershipOps]
  /\ lossKnown \subseteq Clusters

NoOp == [kind |-> "none", pc |-> "idle", guest |-> None, arg |-> None, token |-> None]
\* Earlier calls formed the first cluster, of Servers or of every guest, and
\* may have prepared an invitation, sealed it and redeemed it.
MembershipInit ==
  /\ \E S \in {Servers, Guests} :
       /\ unit = [g \in Guests |-> IF g \in S THEN "running" ELSE "absent"]
       /\ cluster = [g \in Guests |-> IF g \in S THEN First ELSE None]
       /\ members = [c \in Clusters |-> IF c = First THEN S ELSE {}]
  /\ sealed \in [Refs -> [cluster : {None}, host : {None}, key : {0}]
                           \cup [cluster : {First}, host : GuestHosts, key : {0}]]
  /\ \E g \in Servers, R \in SUBSET Refs :
       invitation = [h \in GuestHosts |-> [r \in Refs |->
         CASE sealed[r].cluster # None /\ sealed[r].host = h /\ r \in R -> "redeemed"
           [] sealed[r].cluster # None /\ Home[g] = h -> "open"
           [] OTHER -> "none"]]
  /\ expired = {}
  /\ key = [h \in GuestHosts |-> 0]
  /\ op = [o \in Operators |-> NoOp]
  /\ lossKnown = {}

----------------------------------------------------------------------------
\* Observations.

\* The nodes of cluster c that are ready.
readyServers(c) == {g \in members[c] : unit[g] = "running" /\ cluster[g] = c}
Majority(ready, all) == Cardinality(ready) * 2 > Cardinality(all)
HasMajority(c) == Majority(readyServers(c), members[c])

\* kubectl answers in guest g; without it there is no observation at all.
readMembership(g) ==
  /\ unit[g] = "running" /\ cluster[g] # None
  /\ HasMajority(cluster[g])

\* The servers that would stay ready are a majority of those that would stay.
quorumAfterRemoval(c, node) ==
  LET remaining == members[c] \ {node}
      ready == readyServers(c) \ {node}
  IN remaining # {} /\ Majority(ready, remaining)

\* The joining guest itself is a ready member, of more than itself.
joinedMembershipSettled(g) ==
  /\ readMembership(g)
  /\ g \in readyServers(cluster[g])
  /\ Cardinality(members[cluster[g]]) >= 2

\* getClusterInfo reports a ready node.
ClusterReady(g) == readMembership(g) /\ readyServers(cluster[g]) # {}

----------------------------------------------------------------------------
\* dispatch: a call begins when its target is well formed; o is free.
Begin(o, kind, pc, g, arg, token) ==
  /\ op[o] = NoOp /\ Called
  /\ op' = [op EXCEPT ![o] = [kind |-> kind, pc |-> pc, guest |-> g, arg |-> arg, token |-> token]]
Goto(o, pc) == op' = [op EXCEPT ![o].pc = pc] /\ UNCHANGED budget
Return(o) == op' = [op EXCEPT ![o] = NoOp] /\ UNCHANGED budget
At(o, kind, pc) == op[o].kind = kind /\ op[o].pc = pc

guests == <<unit, cluster, members>>
invitations == <<invitation, sealed, expired, key>>

\* History: the clusters of guests G that have no majority after the step
\* lost it to a stop or a reset, or an answer says so.
LossTold(G) == lossKnown' = lossKnown \cup
                 {c \in {cluster[g] : g \in G} \cap Clusters : ~HasMajority(c)'}

\* provision: an installed runtime is only observed, otherwise it is installed.
Provision(o, g) ==
  /\ Begin(o, "provision", IF unit[g] = "absent" THEN "install" ELSE "await", g, None, None)
  /\ UNCHANGED <<guests, invitations, lossKnown>>

\* installK3sServer up to the installer: the binary is in the guest.
StageBinary(g) == unit' = [unit EXCEPT ![g] = IF @ = "absent" THEN "staged" ELSE @]

\* The server of a guest with a data directory resumes its cluster.
ResumesCluster(g) == cluster[g] # None /\ unit' = [unit EXCEPT ![g] = "running"]

\* The server of a fresh guest starts a cluster of its own (cluster-init).
StartsCluster(g, c) ==
  /\ cluster[g] = None /\ c \notin {cluster[h] : h \in Guests} /\ members[c] = {}
  /\ unit' = [unit EXCEPT ![g] = "running"]
  /\ cluster' = [cluster EXCEPT ![g] = c]
  /\ members' = [members EXCEPT ![c] = {g}]

ProvisionInstalls(o) ==
  LET g == op[o].guest IN
  /\ At(o, "provision", "install")
  /\ \/ \E c \in Clusters : StartsCluster(g, c) /\ Goto(o, "await")
     \/ ResumesCluster(g) /\ Goto(o, "await") /\ UNCHANGED <<cluster, members>>
     \/ (StageBinary(g) \/ UNCHANGED unit) /\ Return(o) /\ UNCHANGED <<cluster, members>>
  /\ UNCHANGED <<invitations, lossKnown>>

\* waitForClusterInfo of provision, restart and configureRegistry: ready, or
\* the deadline passes.
AwaitsClusterInfo(o) ==
  /\ At(o, "provision", "await") \/ At(o, "restart", "await")
  /\ Return(o)
  /\ UNCHANGED <<guests, invitations, lossKnown>>

\* restart, and configureRegistry, which writes registries.yaml before: the
\* unit is restarted, or the command fails with the unit up or down.
Restart(o, g) ==
  /\ unit[g] \in {"running", "stopped"} /\ cluster[g] # None
  /\ Begin(o, "restart", "await", g, None, None)
  /\ \E u \in {"running", "stopped"} : unit' = [unit EXCEPT ![g] = u]
  /\ UNCHANGED <<cluster, members, invitations>>
  /\ LossTold({g})

\* remove: k3s-uninstall.sh; the member lists of others are not touched.
Remove(g) ==
  /\ unit[g] # "absent" /\ Called
  /\ unit' = [unit EXCEPT ![g] = "absent"]
  /\ cluster' = [cluster EXCEPT ![g] = None]
  /\ UNCHANGED <<members, invitations, op>>
  /\ LossTold({g})

----------------------------------------------------------------------------
\* Joining a server.

\* prepareJoin in guest g for host d; the answer carries sealed material when
\* the destination's public key was given.
prepareJoin(g, r, d, withKey) ==
  /\ readMembership(g) /\ Called
  /\ \A h \in GuestHosts : invitation[h][r] = "none"
  /\ sealed[r].cluster = None
  /\ invitation' = [invitation EXCEPT ![Home[g]][r] = "open"]
  /\ sealed' = [sealed EXCEPT ![r] = [cluster |-> cluster[g], key |-> key[d],
                                      host |-> IF withKey THEN d ELSE None]]
  /\ UNCHANGED <<guests, expired, key, op, lossKnown>>

\* unsealJoinMaterial: only the process whose key it was sealed to can.
unsealJoinMaterial(h, r) == sealed[r].host = h /\ sealed[r].key = key[h]

\* A reference this process does not hold comes from sealed material.
redeemJoin(h, r) ==
  /\ Called
  /\ r \notin expired
  /\ \/ invitation[h][r] \in {"open", "redeemed"}
     \/ invitation[h][r] = "none" /\ unsealJoinMaterial(h, r)
  /\ invitation' = [invitation EXCEPT ![h][r] = "redeemed"]
  /\ UNCHANGED <<guests, sealed, expired, key, op, lossKnown>>

\* Mutant of joinTokenForNode: the invitation is not marked consumed.
TokenNotConsumed(o, g, r) ==
  /\ invitation[Home[g]][r] = "redeemed" /\ r \notin expired
  /\ Begin(o, "join", "install", g, r, sealed[r].cluster)
  /\ UNCHANGED <<guests, invitation, sealed, expired, key, lossKnown>>

\* joinNode takes the token of a redeemed invitation.  For a reference that
\* this process does not hold it takes the token and version the caller
\* brings, whatever cluster they are of, and nothing is marked.
joinTokenForNode(o, g, r) ==
  /\ \/ /\ invitation[Home[g]][r] = "redeemed" /\ r \notin expired
        /\ Begin(o, "join", "install", g, r, sealed[r].cluster)
        /\ invitation' = [invitation EXCEPT ![Home[g]][r] = "consumed"]
     \/ /\ invitation[Home[g]][r] = "none"
        /\ \E c \in Clusters : members[c] # {} /\ Begin(o, "join", "install", g, None, c)
        /\ UNCHANGED invitation
  /\ UNCHANGED <<guests, sealed, expired, key, lossKnown>>

\* The installer runs with the token.  A guest that already has a server
\* keeps its data directory and only restarts; a fresh one becomes a member
\* of the inviting cluster if that answers.  The exit status says nothing.
JoinInstalls(o) ==
  LET g == op[o].guest
      c == op[o].token
  IN
  /\ At(o, "join", "install")
  /\ \/ /\ cluster[g] = None /\ HasMajority(c)
        /\ unit' = [unit EXCEPT ![g] = "running"]
        /\ cluster' = [cluster EXCEPT ![g] = c]
        /\ members' = [members EXCEPT ![c] = @ \cup {g}]
     \/ (ResumesCluster(g) \/ StageBinary(g) \/ UNCHANGED unit) /\ UNCHANGED <<cluster, members>>
  /\ Goto(o, "await")
  /\ UNCHANGED <<invitations, lossKnown>>

\* awaitJoinedMembership: settled, and the invitation, if one was used, is
\* forgotten; or the deadline passes and it stays consumed.
JoinSettles(o) ==
  LET h == Home[op[o].guest] IN
  /\ At(o, "join", "await")
  /\ \/ /\ joinedMembershipSettled(op[o].guest) /\ op[o].arg # None
        /\ invitation' = [invitation EXCEPT ![h][op[o].arg] = "none"]
     \/ UNCHANGED invitation
  /\ Return(o)
  /\ UNCHANGED <<guests, sealed, expired, key, lossKnown>>

----------------------------------------------------------------------------
\* Retiring a server.

\* removeNode through guest g: not itself, a member, and quorum is proved.
removeNode(o, g, node) ==
  /\ readMembership(g)
  /\ node # g /\ node \in members[cluster[g]]
  /\ quorumAfterRemoval(cluster[g], node)
  /\ Begin(o, "remove", "delete", g, node, None)
  /\ UNCHANGED <<guests, invitations, lossKnown>>

\* kubectl delete node makes K3s retire the etcd member.  It succeeds, or the
\* caller gets an error, whether or not the member was retired.
RemoveDeletes(o) ==
  LET g == op[o].guest
      node == op[o].arg
      Retires == /\ readMembership(g) /\ node \in members[cluster[g]]
                 /\ members' = [members EXCEPT ![cluster[g]] = @ \ {node}]
  IN
  /\ At(o, "remove", "delete")
  /\ \/ Retires /\ Goto(o, "verify") /\ UNCHANGED <<unit, cluster, lossKnown>>
     \/ (Retires \/ UNCHANGED members) /\ Return(o) /\ UNCHANGED <<unit, cluster>> /\ LossTold({g})
  /\ UNCHANGED invitations

\* Mutant of RemoveVerifies: the deletion is taken for the proof.
RemoveUnverified(o) ==
  /\ At(o, "remove", "verify")
  /\ Return(o)
  /\ UNCHANGED <<guests, invitations, lossKnown>>

\* The membership is read again: quorumRetained is reported when the node is
\* gone and the ready servers are a majority, otherwise an error.
RemoveVerifies(o) ==
  LET g == op[o].guest IN
  /\ At(o, "remove", "verify")
  /\ Return(o)
  /\ UNCHANGED <<guests, invitations>>
  /\ IF readMembership(g) /\ op[o].arg \notin members[cluster[g]]
     THEN UNCHANGED lossKnown
     ELSE LossTold({g})

----------------------------------------------------------------------------
\* recoverQuorum: the collapse of the member list to one server.

recoverQuorum(o, g) ==
  /\ cluster[g] # None
  /\ Begin(o, "recover", "probe", g, None, None)
  /\ UNCHANGED <<guests, invitations, lossKnown>>

\* probeAPIServerDuringWindow: one answer ends the call, silence admits it.
RecoverProbes(o) ==
  /\ At(o, "recover", "probe")
  /\ IF readMembership(op[o].guest) THEN Return(o) ELSE Goto(o, "stop")
  /\ UNCHANGED <<guests, invitations, lossKnown>>

RecoverStops(o) ==
  LET g == op[o].guest IN
  /\ At(o, "recover", "stop")
  /\ \/ unit' = [unit EXCEPT ![g] = IF @ = "running" THEN "stopped" ELSE @] /\ Goto(o, "reset")
     \/ UNCHANGED unit /\ Return(o)
  /\ UNCHANGED <<cluster, members, invitations>>
  /\ LossTold({g})

\* k3s server --cluster-reset; a failure leaves the unit stopped.
RecoverResets(o) ==
  LET g == op[o].guest IN
  /\ At(o, "recover", "reset")
  /\ \/ \E c \in Clusters :
          /\ c \notin {cluster[h] : h \in Guests} /\ members[c] = {}
          /\ cluster[g] # None
          /\ cluster' = [cluster EXCEPT ![g] = c]
          /\ members' = [members EXCEPT ![c] = {g}]
          /\ Goto(o, "start")
          /\ lossKnown' = lossKnown \cup {c, cluster[g]}
     \/ Return(o) /\ UNCHANGED <<cluster, members, lossKnown>>
  /\ UNCHANGED <<unit, invitations>>

\* The unit is started; then awaitRecoveredMembership.
RecoverStarts(o) ==
  LET g == op[o].guest IN
  /\ At(o, "recover", "start")
  /\ unit' = [unit EXCEPT ![g] = IF @ = "stopped" THEN "running" ELSE @] \/ UNCHANGED unit
  /\ Return(o)
  /\ UNCHANGED <<cluster, members, invitations, lossKnown>>

----------------------------------------------------------------------------
\* Around the provider.

\* A server stops, or the guest is destroyed.
GuestStops(g) ==
  /\ Trouble
  /\ unit[g] = "running"
  /\ \/ unit' = [unit EXCEPT ![g] = "stopped"] /\ UNCHANGED cluster
     \/ unit' = [unit EXCEPT ![g] = "absent"] /\ cluster' = [cluster EXCEPT ![g] = None]
  /\ UNCHANGED <<members, invitations, op>>
  /\ LossTold({g})

\* systemd starts a stopped server again.
GuestStarts(g) ==
  /\ unit[g] = "stopped" /\ cluster[g] # None
  /\ unit' = [unit EXCEPT ![g] = "running"]
  /\ UNCHANGED <<cluster, members, invitations, op, lossKnown, budget>>

\* The provider process of h restarts: its invitations, its key and its
\* calls are gone.
ProviderRestarts(h) ==
  /\ Trouble
  /\ key' = [key EXCEPT ![h] = @ + 1]
  /\ invitation' = [invitation EXCEPT ![h] = [r \in Refs |-> "none"]]
  /\ op' = [o \in Operators |->
              IF op[o] # NoOp /\ Home[op[o].guest] = h THEN NoOp ELSE op[o]]
  /\ UNCHANGED <<guests, sealed, expired>>
  /\ LossTold({op[o].guest : o \in {q \in Operators : At(q, "remove", "verify") /\ op'[q] = NoOp}})

Expire(r) ==
  /\ r \notin expired /\ sealed[r].cluster # None
  /\ expired' = expired \cup {r}
  /\ UNCHANGED <<guests, invitation, sealed, key, op, lossKnown, budget>>

MembershipNext ==
  \/ \E o \in Operators, g \in Guests :
       Provision(o, g) \/ Restart(o, g) \/ recoverQuorum(o, g)
  \/ \E o \in Operators, g \in Guests, r \in Refs : joinTokenForNode(o, g, r)
  \/ \E o \in Operators, g, node \in Guests : removeNode(o, g, node)
  \/ \E o \in Operators :
       \/ ProvisionInstalls(o) \/ AwaitsClusterInfo(o)
       \/ JoinInstalls(o) \/ JoinSettles(o)
       \/ RemoveDeletes(o) \/ RemoveVerifies(o)
       \/ RecoverProbes(o) \/ RecoverStops(o) \/ RecoverResets(o) \/ RecoverStarts(o)
  \/ \E g \in Guests : Remove(g) \/ GuestStops(g) \/ GuestStarts(g)
  \/ \E g \in Guests, r \in Refs, d \in GuestHosts, withKey \in BOOLEAN :
       prepareJoin(g, r, d, withKey)
  \/ \E h \in GuestHosts : ProviderRestarts(h) \/ \E r \in Refs : redeemJoin(h, r)
  \/ \E r \in Refs : Expire(r)

MembershipSpec == MembershipInit /\ [][MembershipNext]_membershipVars

----------------------------------------------------------------------------
\* No removal costs a cluster its majority unnoticed, however stale the proof
\* of quorum is by the time it deletes (a server stopped, another removal went
\* first): the removal still has to read the membership again, or a caller was
\* told, by an error, a lost call or a server that stopped.
LossIsReported ==
  \A g \in Guests : cluster[g] # None =>
    \/ HasMajority(cluster[g])
    \/ cluster[g] \in lossKnown
    \/ \E o \in Operators : At(o, "remove", "verify") /\ cluster[op[o].guest] = cluster[g]

\* A provider uses an invitation for one join at a time, however redemption,
\* sealed copies, concurrent joins and restarts of the process interleave.
\* Joins that bring a token of their own use no invitation.
OneJoinPerInvitation ==
  \A o, q \in Operators :
    /\ op[o].kind = "join" /\ op[q].kind = "join" /\ op[o].arg = op[q].arg /\ op[o].arg # None
    /\ Home[op[o].guest] = Home[op[q].guest]
    => o = q

============================================================================
