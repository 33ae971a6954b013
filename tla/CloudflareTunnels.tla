-------------------------- MODULE CloudflareTunnels --------------------------
(***************************************************************************)
(* The Cloudflare provider (plugins/tunneling/cloudflare): dedicated       *)
(* tunnels with their ingress rules and DNS records, the connectors that   *)
(* run them, stable endpoints with a connector in several guests, and Mesh *)
(* memberships.  Every step of a call is one request to the Cloudflare API *)
(* or to the Host Agent; the provider takes no lock across them, so calls  *)
(* overlap.  DNS records have identities: a deletion names the record that *)
(* was read, or one its caller names.  The platform's own control plane    *)
(* works on the same account and zone.  Services, tokens and addresses are *)
(* left out; a run token is the tunnel it was issued for.                  *)
(***************************************************************************)
EXTENDS ToolCalls, FiniteSets

CONSTANTS Names, Hosts, TunnelIds, Platform, Nodes, MeshRefs, Routers, NoTunnel
PlatformHost == "platform.opute.io"

ASSUME CloudAssumption ==
  /\ Platform \in TunnelIds /\ Platform \notin Names
  /\ NoTunnel \notin TunnelIds \cup Names
  /\ PlatformHost \notin Hosts

Placements == {"host", "container", "kubernetes"}

VARIABLES
  tunnel,      \* the account's tunnels: name and hostnames of the ingress rules
  cname,       \* the zone: what the record of a hostname points to, and its identity
  serial,      \* identities given to records so far
  connectors,  \* the tunnel whose token a managed connector runs with
  haUnits,     \* guest units of stable endpoints: guest, tunnel name
  haEndpoints, \* meshHAEndpoints: tunnel name and hostname of a reference
  meshNodes,   \* the account's Mesh nodes
  meshBindings,\* meshBindings: the guest of a membership reference
  meshJoined,  \* guests that run the connector of a node
  cfRuntimes,  \* guests whose agent and control plane were marked ready
  route        \* calls in progress

cloudVars == <<tunnel, cname, serial, connectors, haUnits, haEndpoints, meshNodes,
               meshBindings, meshJoined, cfRuntimes, route>>
zone == <<tunnel, cname, serial>>
mesh == <<meshNodes, meshBindings, meshJoined, cfRuntimes>>

Absent == [name |-> NoTunnel, ingress |-> {}]
NoRecord == [to |-> NoTunnel, id |-> 0]
Free == [kind |-> "none", pc |-> "none", name |-> NoTunnel, hosts |-> {}, todo |-> {},
         guests |-> {}, host |-> NoTunnel, tid |-> NoTunnel, rec |-> 0, recs |-> {},
         alone |-> TRUE, overtaken |-> FALSE]

\* A hostname is new, points to the platform tunnel or has another record,
\* and an earlier ensure may have published some of them; or a tunnel of an
\* ordinary name carries the platform's hostname.
CloudInit ==
  /\ \E t \in TunnelIds \ {Platform}, n \in Names, H \in (SUBSET Hosts) \cup {{PlatformHost}} :
       /\ tunnel = [u \in TunnelIds |->
                     CASE u = Platform -> [name |-> Platform, ingress |-> {PlatformHost}]
                       [] u = t /\ H # {} -> [name |-> n, ingress |-> H]
                       [] OTHER -> Absent]
       /\ cname \in {f \in [Hosts -> {NoRecord} \cup [to : {Platform, t, "elsewhere"}, id : {0}]] :
                       \A h \in Hosts : f[h].to = t <=> h \in H}
  /\ serial = 0
  /\ connectors = [p \in Placements |-> NoTunnel]
  /\ haUnits = {} /\ haEndpoints = {}
  /\ meshNodes = {} /\ meshBindings = [r \in MeshRefs |-> NoTunnel] /\ meshJoined = {}
  /\ cfRuntimes = [agent |-> {}, controlPlane |-> {}]
  /\ route = [c \in Routers |-> Free]

Exists(t) == tunnel[t] # Absent
RouterAt(c, kinds, pc) == route[c].kind \in kinds /\ route[c].pc = pc
Goes(c, r) == route' = [route EXCEPT ![c] = r] /\ UNCHANGED budget
To(c, pc) == Goes(c, [route[c] EXCEPT !.pc = pc])
Returns(c) == Goes(c, Free)

----------------------------------------------------------------------------
\* Refusals.

refusePlatformTunnelName(n) == n = Platform
refusePlatformIngress(t) == PlatformHost \in tunnel[t].ingress

\* upsertDedicatedCNAME: the record of another tunnel is only replaced when
\* that tunnel is not the platform's, which is told by its name.
upsertRefuses(h, t) ==
  /\ cname[h].to \in TunnelIds \ {t}
  /\ Exists(cname[h].to) /\ refusePlatformTunnelName(tunnel[cname[h].to].name)

\* unpublishDedicatedTunnel also loads the rules of the tunnel pointed to.
unpublishRefuses(h) ==
  /\ cname[h].to \in TunnelIds /\ Exists(cname[h].to)
  /\ \/ refusePlatformTunnelName(tunnel[cname[h].to].name)
     \/ refusePlatformIngress(cname[h].to)

----------------------------------------------------------------------------
\* Calls.  A call is alone while no other call is about its name or hostnames.

Touches(c, n, H) == route[c].kind \in {"ensure", "ha", "remove", "undo"}
                     /\ (route[c].name = n \/ route[c].hosts \cap H # {})

Starts(c, kind, pc, n, H, G) ==
  /\ route[c] = Free /\ Called
  /\ route' = [d \in Routers |->
       IF d = c THEN [Free EXCEPT !.kind = kind, !.pc = pc, !.name = n, !.hosts = H, !.todo = H,
                                  !.guests = G, !.alone = ~\E e \in Routers : Touches(e, n, H)]
       ELSE [route[d] EXCEPT !.alone = @ /\ ~Touches(d, n, H)]]

\* ensureTunnel of hostnames without a run token
ensureDedicatedTunnel(c, n, H) ==
  /\ ~refusePlatformTunnelName(n) /\ H # {}
  /\ Starts(c, "ensure", "find", n, H, {})
  /\ UNCHANGED <<zone, connectors, haUnits, haEndpoints, mesh>>

ensureNetworkOverlayHAEndpoint(c, n, h) ==
  /\ ~refusePlatformTunnelName(n) /\ Cardinality(Nodes) > 1
  /\ Starts(c, "ha", "find", n, {h}, Nodes)
  /\ UNCHANGED <<zone, connectors, haUnits, haEndpoints, mesh>>

\* removeTunnel: the host's unit is stopped and removed, errors ignored for a
\* dedicated tunnel, then the tunnel is unpublished.
removeTunnel(c, n, H) ==
  /\ ~refusePlatformTunnelName(n) /\ H # {}
  /\ Starts(c, "remove", "find", n, H, {})
  /\ connectors' \in {[connectors EXCEPT !["host"] = NoTunnel], connectors}
  /\ UNCHANGED <<zone, haUnits, haEndpoints, mesh>>

\* removeNetworkOverlayHAEndpoint forgets the endpoint before it cleans up.
removeNetworkOverlayHAEndpoint(c, e) ==
  /\ e \in haEndpoints
  /\ haEndpoints' = haEndpoints \ {e}
  /\ Starts(c, "remove", "find", e.name, {e.host}, {})
  /\ \E kept \in SUBSET {u \in haUnits : u[2] = e.name} :   \* a removal may fail
       haUnits' = {u \in haUnits : u[2] # e.name} \cup kept
  /\ UNCHANGED <<zone, connectors, mesh>>

findCloudflareTunnelByName(c) ==
  /\ RouterAt(c, {"ensure", "ha", "remove", "undo"}, "find")
  /\ \/ \E t \in TunnelIds : tunnel[t].name = route[c].name
          /\ Goes(c, [route[c] EXCEPT !.pc = "check", !.tid = t])
     \/ /\ \A t \in TunnelIds : tunnel[t].name # route[c].name
        /\ To(c, IF route[c].kind \in {"ensure", "ha"} THEN "create" ELSE "read")
  /\ UNCHANGED <<zone, connectors, haUnits, haEndpoints, mesh>>

\* The API refuses a second tunnel of a name.
ensureCloudflareTunnelByName(c) ==
  /\ RouterAt(c, {"ensure", "ha"}, "create")
  /\ IF \E t \in TunnelIds : tunnel[t].name = route[c].name
     THEN Returns(c) /\ UNCHANGED tunnel
     ELSE \E t \in TunnelIds :
            /\ ~Exists(t) /\ t # Platform /\ \A d \in Routers : route[d].tid # t /\ \A h \in Hosts : cname[h].to # t
            /\ tunnel' = [tunnel EXCEPT ![t] = [name |-> route[c].name, ingress |-> {}]]
            /\ Goes(c, [route[c] EXCEPT !.pc = "check", !.tid = t])
  /\ UNCHANGED <<cname, serial, connectors, haUnits, haEndpoints, mesh>>

cloudflareTunnelIngress(c) ==
  /\ RouterAt(c, {"ensure", "ha", "remove", "undo"}, "check")
  /\ IF refusePlatformIngress(route[c].tid) THEN Returns(c)
     ELSE To(c, IF route[c].kind \in {"ensure", "ha"} THEN "put" ELSE "read")
  /\ UNCHANGED <<zone, connectors, haUnits, haEndpoints, mesh>>

\* Mutant of putCloudflareTunnelIngress: only the first hostname is routed.
RoutesOneHost(c) ==
  /\ RouterAt(c, {"ensure", "ha"}, "put") /\ Exists(route[c].tid)
  /\ \E h \in route[c].hosts : tunnel' = [tunnel EXCEPT ![route[c].tid].ingress = {h}]
  /\ To(c, "cname")
  /\ UNCHANGED <<cname, serial, connectors, haUnits, haEndpoints, mesh>>

\* The rules are replaced by those of the hostnames asked for.
putCloudflareTunnelIngress(c) ==
  /\ RouterAt(c, {"ensure", "ha"}, "put") /\ Exists(route[c].tid)
  /\ tunnel' = [tunnel EXCEPT ![route[c].tid].ingress = route[c].hosts]
  /\ To(c, "cname")
  /\ UNCHANGED <<cname, serial, connectors, haUnits, haEndpoints, mesh>>

\* upsertDedicatedCNAME, one hostname: read the records, ...
listHostnameDNSRecords(c, h) ==
  /\ RouterAt(c, {"ensure", "ha"}, "cname") /\ h \in route[c].todo
  /\ \/ upsertRefuses(h, route[c].tid) /\ Returns(c)
     \/ /\ ~upsertRefuses(h, route[c].tid)
        /\ IF cname[h].to = route[c].tid
           THEN Goes(c, [route[c] EXCEPT !.todo = @ \ {h}])
           ELSE Goes(c, [route[c] EXCEPT !.host = h, !.rec = cname[h].id,
                          !.pc = IF cname[h] = NoRecord THEN "post" ELSE "clear"])
  /\ UNCHANGED <<zone, connectors, haUnits, haEndpoints, mesh>>

\* Mutant of DeletesRecord: whatever record the hostname has by now goes.
DeletesHostname(h, id) == cname' = [cname EXCEPT ![h] = NoRecord]

\* cloudflareDelete: a record that is gone counts as deleted.
DeletesRecord(h, id) == cname' = [cname EXCEPT ![h] = IF @.id = id THEN NoRecord ELSE @]

\* ... delete the one in the way, ...
clearConflicting(c) ==
  /\ RouterAt(c, {"ensure", "ha"}, "clear")
  /\ DeletesRecord(route[c].host, route[c].rec)
  /\ To(c, "post")
  /\ UNCHANGED <<tunnel, serial, connectors, haUnits, haEndpoints, mesh>>

\* ... and create it; the API refuses a second record of a hostname.
upsertDedicatedCNAME(c) ==
  /\ RouterAt(c, {"ensure", "ha"}, "post")
  /\ LET h == route[c].host IN
     IF cname[h] # NoRecord THEN Returns(c) /\ UNCHANGED <<cname, serial>>
     ELSE /\ serial' = serial + 1
          /\ cname' = [cname EXCEPT ![h] = [to |-> route[c].tid, id |-> serial + 1]]
          /\ Goes(c, [route[c] EXCEPT !.pc = "cname", !.todo = @ \ {h}])
  /\ UNCHANGED <<tunnel, connectors, haUnits, haEndpoints, mesh>>

cloudflareTunnelToken(c) ==
  /\ RouterAt(c, {"ensure", "ha"}, "cname") /\ route[c].todo = {}
  /\ IF ~Exists(route[c].tid) THEN Returns(c)
     ELSE To(c, IF route[c].kind = "ensure" THEN "connect" ELSE "install")
  /\ UNCHANGED <<zone, connectors, haUnits, haEndpoints, mesh>>

\* ensureTunnel: the connector, when the caller lets the provider manage it.
reconcileHostTunnel(c, p) ==
  /\ RouterAt(c, {"ensure"}, "connect")
  /\ connectors' \in {connectors, [connectors EXCEPT ![p] = route[c].tid]}
  /\ Returns(c)
  /\ UNCHANGED <<zone, haUnits, haEndpoints, mesh>>

installHAConnector(c, g) ==
  /\ RouterAt(c, {"ha"}, "install") /\ g \in route[c].guests
  /\ haUnits' = haUnits \cup {<<g, route[c].name>>}
  /\ LET rest == route[c].guests \ {g} IN
     Goes(c, [route[c] EXCEPT !.guests = rest, !.pc = IF rest = {} THEN "await" ELSE @])
  /\ UNCHANGED <<zone, connectors, haEndpoints, mesh>>

\* An installation that fails: the guests that were done before are cleaned,
\* as far as that succeeds; the failing guest may be left with the unit.
Undoes(c, installed) ==
  /\ Trouble
  /\ \E kept \in SUBSET installed : haUnits' = (haUnits \ {<<g, route[c].name>> : g \in installed})
                                               \cup {<<g, route[c].name>> : g \in kept}
  /\ route' = [route EXCEPT ![c] = [@ EXCEPT !.kind = "undo", !.pc = "find", !.todo = route[c].hosts]]
  /\ UNCHANGED <<zone, connectors, haEndpoints, mesh>>

installFails(c) == RouterAt(c, {"ha"}, "install") /\ Undoes(c, Nodes \ route[c].guests)
endpointNotReached(c) == RouterAt(c, {"ha"}, "await") /\ Undoes(c, Nodes)

waitForHAEndpoint(c) ==
  /\ RouterAt(c, {"ha"}, "await")
  /\ haEndpoints' = haEndpoints \cup {[name |-> route[c].name, host |-> h] : h \in route[c].hosts}
  /\ Returns(c)
  /\ UNCHANGED <<zone, connectors, haUnits, mesh>>

\* unpublishDedicatedTunnel: per hostname, read and check, then delete.
findHostnameCNAME(c, h) ==
  /\ RouterAt(c, {"remove", "undo"}, "read") /\ h \in route[c].todo
  /\ \/ unpublishRefuses(h) /\ Returns(c)
     \/ /\ ~unpublishRefuses(h)
        /\ IF cname[h].to \in TunnelIds
           THEN Goes(c, [route[c] EXCEPT !.host = h, !.rec = cname[h].id, !.pc = "drop"])
           ELSE Goes(c, [route[c] EXCEPT !.todo = @ \ {h}])   \* findHostnameCNAME lists CNAMEs only
  /\ UNCHANGED <<zone, connectors, haUnits, haEndpoints, mesh>>

deleteDedicatedCNAME(c) ==
  /\ RouterAt(c, {"remove", "undo"}, "drop")
  /\ DeletesRecord(route[c].host, route[c].rec)
  /\ Goes(c, [route[c] EXCEPT !.pc = "read", !.todo = @ \ {route[c].host}])
  /\ UNCHANGED <<tunnel, serial, connectors, haUnits, haEndpoints, mesh>>

unpublishDedicatedTunnel(c) ==
  /\ RouterAt(c, {"remove", "undo"}, "read") /\ route[c].todo = {}
  /\ tunnel' = IF route[c].tid = NoTunnel THEN tunnel ELSE [tunnel EXCEPT ![route[c].tid] = Absent]
  /\ Returns(c)
  /\ UNCHANGED <<cname, serial, connectors, haUnits, haEndpoints, mesh>>

\* A request that fails ends the call where it is; the ingress of a tunnel
\* that was deleted cannot be written.
cloudflareJSON(c) ==
  /\ route[c].kind \in {"ensure", "ha", "remove", "undo"} /\ ~RouterAt(c, {"ha"}, "install") /\ ~RouterAt(c, {"ha"}, "await")
  /\ \/ Trouble /\ route' = [route EXCEPT ![c] = Free]
     \/ RouterAt(c, {"ensure", "ha"}, "put") /\ ~Exists(route[c].tid) /\ Returns(c)
  /\ UNCHANGED <<zone, connectors, haUnits, haEndpoints, mesh>>

\* The finalize phase of opute.provider.teardown.  The tunnel and the records
\* are those its inputs name; nothing is looked up or refused.
cleanupExternalResources(c, t, H) ==
  /\ route[c] = Free /\ Called
  /\ t # NoTunnel \/ H # {}
  /\ \A h \in H : cname[h] # NoRecord
  /\ route' = [route EXCEPT ![c] = [Free EXCEPT !.kind = "cleanup", !.tid = t,
                                               !.recs = {<<h, cname[h].id>> : h \in H}]]
  /\ UNCHANGED <<zone, connectors, haUnits, haEndpoints, mesh>>

\* Calls about tunnel t, or about the hostnames H, are no longer alone.
Disturbed(t, H) ==
  [d \in Routers |-> [route[d] EXCEPT !.alone =
     @ /\ route[d].hosts \cap H = {} /\ (t # NoTunnel => route[d].tid # t /\ ~Touches(d, tunnel[t].name, {}))]]
CleansUp(c, r, rest) == [rest EXCEPT ![c] = IF r.tid = NoTunnel /\ r.recs = {} THEN Free ELSE r]

\* One deletion after the other; one that fails does not stop the others.
cleanupDeletesTunnel(c) ==
  LET t == route[c].tid
      r == [route[c] EXCEPT !.tid = NoTunnel]
  IN
  /\ route[c].kind = "cleanup" /\ t # NoTunnel
  /\ \/ /\ tunnel' = [tunnel EXCEPT ![t] = Absent]
        /\ route' = CleansUp(c, r, Disturbed(t, {})) /\ UNCHANGED budget
     \/ Trouble /\ route' = CleansUp(c, r, route) /\ UNCHANGED tunnel
  /\ UNCHANGED <<cname, serial, connectors, haUnits, haEndpoints, mesh>>

cleanupDeletesRecord(c, h, id) ==
  LET r == [route[c] EXCEPT !.recs = @ \ {<<h, id>>}] IN
  /\ route[c].kind = "cleanup" /\ route[c].tid = NoTunnel /\ <<h, id>> \in route[c].recs
  /\ \/ /\ DeletesRecord(h, id)
        /\ route' = CleansUp(c, r, Disturbed(NoTunnel, {h})) /\ UNCHANGED budget
     \/ Trouble /\ route' = CleansUp(c, r, route) /\ UNCHANGED cname
  /\ UNCHANGED <<tunnel, serial, connectors, haUnits, haEndpoints, mesh>>

\* The platform's control plane points a hostname to its tunnel, in a record
\* of its own or by an edit of the one there is.  A call that is about to
\* delete the edited record has been overtaken, ...
platformPoints(h) ==
  /\ Trouble /\ Exists(Platform) /\ cname[h].to # Platform
  /\ \/ /\ cname[h] # NoRecord
        /\ cname' = [cname EXCEPT ![h].to = Platform]
        /\ UNCHANGED serial
        /\ route' = [d \in Routers |-> [Disturbed(NoTunnel, {h})[d] EXCEPT !.overtaken =
             @ \/ (route[d].pc \in {"clear", "drop"} /\ route[d].host = h /\ route[d].rec = cname[h].id)]]
     \/ /\ cname' = [cname EXCEPT ![h] = [to |-> Platform, id |-> serial + 1]]
        /\ serial' = serial + 1
        /\ route' = Disturbed(NoTunnel, {h})
  /\ UNCHANGED <<tunnel, connectors, haUnits, haEndpoints, mesh>>

\* ... and so has one that has read the rules of a tunnel that the platform's
\* hostname is added to.
platformRoutes(t) ==
  /\ Trouble /\ Exists(t) /\ PlatformHost \notin tunnel[t].ingress
  /\ tunnel' = [tunnel EXCEPT ![t].ingress = @ \cup {PlatformHost}]
  /\ route' = [d \in Routers |-> [Disturbed(t, {})[d] EXCEPT !.overtaken =
       @ \/ (route[d].tid = t /\ route[d].pc \notin {"check", "none"})]]
  /\ UNCHANGED <<cname, serial, connectors, haUnits, haEndpoints, mesh>>

installConnector(p, t) ==
  /\ Called /\ p \in {"kubernetes", "container"} /\ t # Platform /\ Exists(t)
  /\ connectors' = [connectors EXCEPT ![p] = t]
  /\ UNCHANGED <<zone, haUnits, haEndpoints, mesh, route>>

deleteConnector ==
  /\ Called /\ connectors' = [connectors EXCEPT !["kubernetes"] = NoTunnel]
  /\ UNCHANGED <<zone, haUnits, haEndpoints, mesh, route>>

----------------------------------------------------------------------------
\* Mesh memberships and the runtime records.

\* prepareNetworkOverlay; a token that cannot be read leaves the node behind.
prepareNetworkOverlay(r, g) ==
  /\ Called /\ r \notin meshNodes /\ meshBindings[r] = NoTunnel
  /\ meshNodes' = meshNodes \cup {r}
  /\ meshBindings' \in {meshBindings, [meshBindings EXCEPT ![r] = g]}
  /\ UNCHANGED <<zone, connectors, haUnits, haEndpoints, meshJoined, cfRuntimes, route>>

attachNetworkOverlay(c, r) ==
  \/ /\ route[c] = Free /\ Called /\ meshBindings[r] # NoTunnel
     /\ route' = [route EXCEPT ![c] = [Free EXCEPT !.kind = "attach", !.tid = r,
                                                   !.host = meshBindings[r]]]
     /\ UNCHANGED <<zone, connectors, haUnits, haEndpoints, mesh>>
  \/ /\ route[c].kind = "attach" /\ route[c].tid = r
     /\ meshJoined' \in {meshJoined \cup {route[c].host} : x \in {r} \cap meshNodes} \cup {meshJoined}
     /\ Returns(c)
     /\ UNCHANGED <<zone, connectors, haUnits, haEndpoints, meshNodes, meshBindings, cfRuntimes>>

\* removeNetworkOverlay: the guest leaves, the node and the binding go; a node
\* that is already gone is an error and keeps the binding.
removeNetworkOverlay(c, r) ==
  \/ /\ route[c] = Free /\ Called /\ meshBindings[r] # NoTunnel
     /\ meshJoined' = meshJoined \ {meshBindings[r]}
     /\ route' = [route EXCEPT ![c] = [Free EXCEPT !.kind = "leave", !.tid = r]]
     /\ UNCHANGED <<zone, connectors, haUnits, haEndpoints, meshNodes, meshBindings, cfRuntimes>>
  \/ /\ route[c].kind = "leave" /\ route[c].tid = r
     /\ meshNodes' = meshNodes \ {r}
     /\ meshBindings' = IF r \in meshNodes THEN [meshBindings EXCEPT ![r] = NoTunnel] ELSE meshBindings
     /\ Returns(c)
     /\ UNCHANGED <<zone, connectors, haUnits, haEndpoints, meshJoined, cfRuntimes>>

dispatchMeshRuntimeOperation(g) ==
  /\ Called
  /\ cfRuntimes' \in {[cfRuntimes EXCEPT !.agent = @ \cup {g}]} \cup
       {[cfRuntimes EXCEPT !.controlPlane = @ \cup {g}] : x \in cfRuntimes.agent \cap {g}}
  /\ UNCHANGED <<zone, connectors, haUnits, haEndpoints, meshNodes, meshBindings, meshJoined, route>>

\* The provider process ends: its records and its calls are lost.
cloudflareRestarts ==
  /\ Trouble
  /\ haEndpoints' = {} /\ meshBindings' = [r \in MeshRefs |-> NoTunnel]
  /\ cfRuntimes' = [agent |-> {}, controlPlane |-> {}]
  /\ route' = [c \in Routers |-> Free]
  /\ UNCHANGED <<zone, connectors, haUnits, meshNodes, meshJoined>>

platformWorks ==
  \/ \E h \in Hosts : platformPoints(h)
  \/ \E t \in TunnelIds : platformRoutes(t)

CloudNext ==
  \/ \E c \in Routers :
       \/ \E n \in Names \cup {Platform}, H \in SUBSET Hosts :
            ensureDedicatedTunnel(c, n, H) \/ removeTunnel(c, n, H)
       \/ \E n \in Names, h \in Hosts : ensureNetworkOverlayHAEndpoint(c, n, h)
       \/ \E e \in haEndpoints : removeNetworkOverlayHAEndpoint(c, e)
       \/ findCloudflareTunnelByName(c) \/ ensureCloudflareTunnelByName(c)
       \/ cloudflareTunnelIngress(c) \/ putCloudflareTunnelIngress(c)
       \/ \E h \in Hosts : listHostnameDNSRecords(c, h) \/ findHostnameCNAME(c, h)
       \/ clearConflicting(c) \/ upsertDedicatedCNAME(c) \/ cloudflareTunnelToken(c)
       \/ \E p \in Placements : reconcileHostTunnel(c, p)
       \/ \E g \in Nodes : installHAConnector(c, g)
       \/ installFails(c) \/ endpointNotReached(c) \/ waitForHAEndpoint(c)
       \/ deleteDedicatedCNAME(c) \/ unpublishDedicatedTunnel(c) \/ cloudflareJSON(c)
       \/ \E r \in MeshRefs : attachNetworkOverlay(c, r) \/ removeNetworkOverlay(c, r)
  \/ \E c \in Routers :
       \/ \E t \in TunnelIds \cup {NoTunnel}, H \in SUBSET Hosts : cleanupExternalResources(c, t, H)
       \/ cleanupDeletesTunnel(c)
       \/ \E h \in Hosts : \E id \in {r[2] : r \in route[c].recs} : cleanupDeletesRecord(c, h, id)
  \/ platformWorks
  \/ \E p \in Placements, t \in TunnelIds : installConnector(p, t)
  \/ deleteConnector
  \/ \E r \in MeshRefs, g \in Nodes : prepareNetworkOverlay(r, g)
  \/ \E g \in Nodes : dispatchMeshRuntimeOperation(g)
  \/ cloudflareRestarts

CloudSpec == CloudInit /\ [][CloudNext]_cloudVars

----------------------------------------------------------------------------
\* A tunnel that carries the platform's hostname, and a record that points to
\* the platform's tunnel, are only changed by a cleanup whose inputs name them,
\* or by a call that was overtaken: the tunnel or that very record became the
\* platform's after the call had read it.  A record that the platform creates
\* in place of one that a call is about to delete is safe.
PlatformUntouched ==
  [][/\ \A t \in TunnelIds : PlatformHost \in tunnel[t].ingress /\ tunnel'[t] # tunnel[t] =>
          \E c \in Routers : route[c].tid = t /\ (route[c].kind = "cleanup" \/ route[c].overtaken)
     /\ \A h \in Hosts : cname[h].to = Platform /\ Exists(Platform) /\ cname'[h] # cname[h] =>
          \E c \in Routers :
            \/ route[c].kind = "cleanup" /\ <<h, cname[h].id>> \in route[c].recs
            \/ route[c].overtaken /\ route[c].host = h /\ route[c].rec = cname[h].id]_cloudVars

\* Once a call has the run token and hands it to connectors, the route is
\* complete: the tunnel exists under its name, its rules are the hostnames
\* asked for and each of these points to it, unless another call, a cleanup or
\* the platform worked on the same name or hostname at the same time.
RouteComplete ==
  \A c \in Routers : route[c].pc \in {"connect", "install", "await"} /\ route[c].alone =>
    /\ tunnel[route[c].tid] = [name |-> route[c].name, ingress |-> route[c].hosts]
    /\ \A h \in route[c].hosts : cname[h].to = route[c].tid
============================================================================
