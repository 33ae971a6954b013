---------------------------- MODULE MCProviders ----------------------------
(***************************************************************************)
(* The Kubernetes and tunnelling providers.  They are processes of their   *)
(* own and share no state, so a behaviour is about one of them, chosen at  *)
(* the start, with the number of calls its own cases need.  Two calls of  *)
(* the Cloudflare provider overlap, or one and the platform's own work.    *)
(***************************************************************************)
EXTENDS K3sMembership, TailscaleOverlay, CloudflareTunnels, TLC

CONSTANTS t1, t2, g1, g2, n1, n2, h1, h2, c1, c2
Symmetric == UNION {Permutations(S) : S \in {{t1, t2}, {g1, g2}, {n1, n2}, {h1, h2}, {c1, c2}}}

\* Three guests on two hosts; two of them may be servers.
CONSTANTS v1, v2, v3, hA, hB
GuestHome == v1 :> hA @@ v2 :> hB @@ v3 :> hB

CallsOf == [k3s |-> 2, tailscale |-> 5, cloudflare |-> 2, platform |-> 1]
VARIABLE provider

Init ==
  /\ provider \in DOMAIN CallsOf /\ calls = MaxCalls - CallsOf[provider] /\ troubles = 0
  /\ MembershipInit /\ OverlayInit /\ CloudInit
  /\ provider # "k3s" => unit[v3] = "absent" /\ sealed = [r \in Refs |-> [cluster |-> None, host |-> None, key |-> 0]]
  /\ unit[v3] = "running" => \A r \in Refs : sealed[r].cluster = None
  /\ provider # "tailscale" => backend = "fake" /\ devices = {}
  /\ provider \notin {"cloudflare", "platform"} => cname = [h \in Hosts |-> NoRecord] /\ \A t \in {t1, t2} : tunnel[t] = Absent

Next ==
  \/ provider = "k3s" /\ MembershipNext /\ UNCHANGED <<provider, overlayVars, cloudVars>>
  \/ provider = "tailscale" /\ OverlayNext /\ UNCHANGED <<provider, membershipVars, cloudVars>>
  \/ provider \in {"cloudflare", "platform"} /\ CloudNext /\ (platformWorks => provider = "platform")
     /\ UNCHANGED <<provider, membershipVars, overlayVars>>

Spec == Init /\ [][Next]_<<budget, provider, membershipVars, overlayVars, cloudVars>>
============================================================================
