------------------------------- MODULE Policy -------------------------------
(***************************************************************************)
(* What a configuration means: when it is accepted (Validate), what is     *)
(* left of it once revoked devices are gone (RemoveRevoked), the revision  *)
(* it becomes (BuildDesiredState), and the artefacts the agent derives     *)
(* from a revision before it touches the host: the packet-filter plan, a   *)
(* namespace per tunnel, the resolvers, the peers of the ingress and the   *)
(* users of the fallback listener.  No variables: the modules that change  *)
(* a configuration or apply a revision extend this one.                    *)
(*                                                                         *)
(* Identifiers are numbers in the order the code sorts their names in.  An *)
(* address is a number, a prefix or a DNS zone the set of the addresses or *)
(* names it covers, so two prefixes or zones overlap when the sets do.     *)
(* IPv4 only.  A tunnel's interface vh-<id> is named by its tunnel.        *)
(***************************************************************************)
EXTENDS Integers, FiniteSets

CONSTANTS
  Tunnels,      \* the tunnels of the configuration
  Private,      \* those of role private_network; the others are egresses
  Contained,    \* those whose process runs inside the namespace (xray, openvpn)
  Devices,      \* device ids
  LastClient,   \* clients live in 0 .. LastClient, a subnet's first and last address included
  Direct,       \* EgressDirect: the hub's own uplink
  Anyone,       \* ClientACLAny
  Blank         \* the empty string where an address or a name is expected

ASSUME IdentifiersAssumption ==
  /\ Tunnels \subseteq Nat /\ IsFiniteSet(Tunnels)
  /\ Devices \subseteq Nat /\ IsFiniteSet(Devices)
  /\ Private \subseteq Tunnels /\ Contained \subseteq Tunnels
ASSUME DirectAssumption == Direct \notin Tunnels
ASSUME AnyAssumption == Anyone \notin Devices
ASSUME NoAddressAssumption == Blank \notin Nat
ASSUME SubnetAssumption == LastClient \in Nat /\ LastClient >= 3
\* The /16 the links are carved out of holds 16384 of them.
ASSUME LinksAssumption == Cardinality(Tunnels) <= 16384

Subnet == 0 .. LastClient    \* hub.client_cidr
HubAddress == 1              \* hub.dns_address, the hub's own address on the subnet
RealityPort == 443

\* The fields a section of a configuration has.
HubFields == {"port", "udp443", "reality", "site", "endpoint", "key", "awg"}
DeviceFields == {"address", "key", "egress"}
TunnelFields == {"enabled", "probe", "routes", "zones", "servers", "allowed"}
IsConfiguration(cfg) ==
  /\ DOMAIN cfg = {"hub", "devices", "tunnels", "acls"}
  /\ DOMAIN cfg.hub = HubFields
  /\ DOMAIN cfg.devices \subseteq Devices
  /\ \A d \in DOMAIN cfg.devices : DOMAIN cfg.devices[d] = DeviceFields
  /\ DOMAIN cfg.tunnels \subseteq Tunnels
  /\ \A t \in DOMAIN cfg.tunnels : DOMAIN cfg.tunnels[t] = TunnelFields

-----------------------------------------------------------------------------
(* Validation.                                                             *)

Disjoint(A, B) == A \cap B = {}
Enabled(cfg, t) == cfg.tunnels[t].enabled

\* An empty allowed_devices means every device.
MayUse(tunnel, d) == tunnel.allowed = {} \/ d \in tunnel.allowed

UsableAddress(a) == a \in Subnet \ {0, LastClient, HubAddress}

ValidFallback(hub) ==
  /\ hub.udp443 => hub.port # RealityPort
  /\ hub.reality => hub.site \notin {Blank, hub.endpoint}

ValidDevices(devices) ==
  /\ \A d \in DOMAIN devices : UsableAddress(devices[d].address)
  /\ \A d, e \in DOMAIN devices :
       d # e => /\ devices[d].address # devices[e].address
                /\ devices[d].key # devices[e].key

ValidTunnel(tunnel, ids) ==
  /\ tunnel.allowed \subseteq ids
  /\ tunnel.zones # {} => tunnel.servers # {}

\* Zones, and routes, are compared across tunnels and within one.
NoOverlap(taken) ==
  \A t, u \in DOMAIN taken : \A a \in taken[t], b \in taken[u] :
    t # u \/ a # b => Disjoint(a, b)

ValidEgress(cfg, d) ==
  LET egress == cfg.devices[d].egress
  IN  \/ egress = Direct
      \/ /\ egress \in DOMAIN cfg.tunnels \ Private
         /\ Enabled(cfg, egress)
         /\ MayUse(cfg.tunnels[egress], d)

ValidACL(rule, ids) ==
  /\ rule.source \in ids \cup {Anyone}
  /\ rule.target \in ids
  /\ rule.source # rule.target
  /\ rule.port # 0

SomeWayOut(cfg) ==
  \/ DOMAIN cfg.devices = {}
  \/ \E t \in DOMAIN cfg.tunnels \ Private : Enabled(cfg, t)
  \/ \E d \in DOMAIN cfg.devices : cfg.devices[d].egress = Direct

Validate(cfg) ==
  /\ ValidFallback(cfg.hub)
  /\ ValidDevices(cfg.devices)
  /\ \A t \in DOMAIN cfg.tunnels : ValidTunnel(cfg.tunnels[t], DOMAIN cfg.devices)
  /\ NoOverlap([t \in DOMAIN cfg.tunnels |-> cfg.tunnels[t].zones])
  /\ \A d \in DOMAIN cfg.devices : ValidEgress(cfg, d)
  /\ \A rule \in cfg.acls : ValidACL(rule, DOMAIN cfg.devices)
  /\ SomeWayOut(cfg)
  /\ NoOverlap([t \in DOMAIN cfg.tunnels |-> cfg.tunnels[t].routes])

-----------------------------------------------------------------------------
(* Revisions.                                                              *)

Only(f, S) == [x \in DOMAIN f \cap S |-> f[x]]

\* Mutant: the lists of the tunnels are cleaned up with the devices.
RemoveRevokedEverywhere(cfg, revoked) ==
  [cfg EXCEPT !.devices = Only(cfg.devices, Devices \ revoked),
              !.tunnels = [t \in DOMAIN @ |-> [@[t] EXCEPT !.allowed = @ \ revoked]]]

\* Only the devices go: allowed_devices and the ACLs keep naming them.
RemoveRevoked(cfg, revoked) ==
  [cfg EXCEPT !.devices = Only(cfg.devices, Devices \ revoked)]

BuildDesiredState(cfg) ==
  [cfg EXCEPT !.tunnels = Only(cfg.tunnels, {t \in Tunnels : Enabled(cfg, t)})]

-----------------------------------------------------------------------------
(* The packet-filter plan.                                                 *)

\* How many of S come before x.
Rank(x, S) == Cardinality({y \in S : y < x})

\* The egresses of a plan: every one a device chose, and every egress tunnel.
TunnelEgresses(rev) ==
  ({rev.devices[d].egress : d \in DOMAIN rev.devices} \ {Direct})
    \cup (DOMAIN rev.tunnels \ Private)
PrivateNetworks(rev) == DOMAIN rev.tunnels \cap Private

DirectMark == 256
EgressMark(rev, t) == DirectMark + 1 + Rank(t, TunnelEgresses(rev))
InternalMark(rev, t) ==
  DirectMark + 1 + Cardinality(TunnelEgresses(rev)) + Rank(t, PrivateNetworks(rev))

Grouped(rev, e) ==
  {rev.devices[d].address : d \in {d \in DOMAIN rev.devices : rev.devices[d].egress = e}}

\* Unknown names are skipped, so a list of revoked devices admits nobody.
PermittedClients(rev, t) ==
  {rev.devices[d].address : d \in {d \in DOMAIN rev.devices : MayUse(rev.tunnels[t], d)}}

\* Resolver addresses no declared subnet covers become host routes.
UncoveredResolvers(tunnel) == tunnel.servers \ UNION tunnel.routes

AddressOf(rev, d) == IF d \in DOMAIN rev.devices THEN rev.devices[d].address ELSE Blank
ClientPortACLs(rev) ==
  {[source |-> IF rule.source = Anyone THEN Blank ELSE AddressOf(rev, rule.source),
    target |-> AddressOf(rev, rule.target), proto |-> rule.proto, port |-> rule.port]
   : rule \in rev.acls}

Groups(rev) ==
  {[id |-> t, mark |-> EgressMark(rev, t), contained |-> t \in Contained,
    addresses |-> Grouped(rev, t), clients |-> PermittedClients(rev, t)]
   : t \in TunnelEgresses(rev)}
  \cup {g \in {[id |-> Direct, mark |-> DirectMark, contained |-> FALSE,
                addresses |-> Grouped(rev, Direct), clients |-> {}]} : g.addresses # {}}

InternalNetworks(rev) ==
  {[id |-> t, mark |-> InternalMark(rev, t), contained |-> t \in Contained,
    set |-> (UNION rev.tunnels[t].routes) \cup UncoveredResolvers(rev.tunnels[t]),
    zones |-> rev.tunnels[t].zones, resolvers |-> rev.tunnels[t].servers,
    clients |-> PermittedClients(rev, t)]
   : t \in PrivateNetworks(rev)}

\* The index-th /30 of the link base, beyond the client subnet.
LinkBase == LastClient + 1
HostEnd(index) == LinkBase + 4 * index + 1
PeerEnd(index) == LinkBase + 4 * index + 2

\* Mutant: numbered over the groups that serve somebody.
DNSDestinationsOfServing(groups) ==
  LET numbered == {g.id : g \in {g \in groups : g.addresses # {}}} \ {Direct}
      resolver(g) == IF g.id = Direct THEN HubAddress ELSE HostEnd(Rank(g.id, numbered))
  IN  {[clients |-> g.addresses, resolver |-> resolver(g)]
       : g \in {g \in groups : g.addresses # {}}}

\* Numbered over the groups of the plan, where BuildEgressSpecs numbers placements.
DNSDestinations(groups) ==
  LET numbered == {g.id : g \in groups} \ {Direct}
      resolver(g) == IF g.id = Direct THEN HubAddress ELSE HostEnd(Rank(g.id, numbered))
  IN  {[clients |-> g.addresses, resolver |-> resolver(g)]
       : g \in {g \in groups : g.addresses # {}}}

BuildFirewallPlan(rev) ==
  [listen |-> rev.hub.port, udp443 |-> rev.hub.udp443, reality |-> rev.hub.reality,
   groups |-> Groups(rev), internals |-> InternalNetworks(rev),
   acls |-> ClientPortACLs(rev), destinations |-> DNSDestinations(Groups(rev))]

-----------------------------------------------------------------------------
(* What else the agent derives from a revision and its plan.               *)

\* The egresses first, then the private networks.
Position(plan, t) ==
  LET egresses == {g.id : g \in plan.groups} \ {Direct}
  IN  IF t \in egresses THEN Rank(t, egresses)
      ELSE Cardinality(egresses) + Rank(t, {n.id : n \in plan.internals})

Placements(plan) ==
  {p \in plan.groups \cup plan.internals : p.id # Direct}

BuildEgressSpecs(plan) ==
  {LET i == Position(plan, p.id)
   IN  [id |-> p.id, mark |-> p.mark, table |-> 100 + i, socks |-> 11080 + i,
        host |-> HostEnd(i), peer |-> PeerEnd(i)]
   : p \in Placements(plan)}
SpecOf(specs, t) == CHOOSE s \in specs : s.id = t

SocksEndpoints(plan, specs) ==
  {[id |-> s.id, address |-> s.host, inside |-> s.peer, port |-> s.socks,
    clients |-> (CHOOSE p \in Placements(plan) : p.id = s.id).clients] : s \in specs}

\* A private network's own resolver, and one resolver per chosen egress.
BuildDNSPlan(plan, specs) ==
  [zones |-> UNION {{[zone |-> z, forward |-> SpecOf(specs, n.id).peer, set |-> n.id]
                     : z \in n.zones} : n \in plan.internals},
   egress |-> {[id |-> g.id, clients |-> g.addresses,
                address |-> IF g.id = Direct THEN HubAddress ELSE SpecOf(specs, g.id).host,
                inside |-> IF g.id = Direct THEN HubAddress ELSE SpecOf(specs, g.id).peer]
               : g \in {g \in plan.groups : g.addresses # {}}}]

\* Authenticated users of the fallback listener, with the mark their connections
\* carry; nobody when the fallback is off.
BuildRealityUsers(rev, plan) ==
  {[device |-> d, key |-> rev.devices[d].key,
    mark |-> (CHOOSE g \in plan.groups : g.id = rev.devices[d].egress).mark]
   : d \in {d \in DOMAIN rev.devices : rev.hub.reality}}

BuildIngressPeers(rev) ==
  {[key |-> rev.devices[d].key, address |-> rev.devices[d].address] : d \in DOMAIN rev.devices}

\* The revision with the fallback the host is able to run: none without its key.
WithFallback(rev, keyed) == [rev EXCEPT !.hub.reality = @ /\ keyed]

\* Everything one pass applies, derived before any of it is.
Compile(revision, keyed) ==
  LET rev == WithFallback(revision, keyed)
      plan == BuildFirewallPlan(rev)
      specs == BuildEgressSpecs(plan)
  IN  [firewall |-> plan, specs |-> specs, socks |-> SocksEndpoints(plan, specs),
       dns |-> BuildDNSPlan(plan, specs), peers |-> BuildIngressPeers(rev),
       users |-> BuildRealityUsers(rev, plan)]

=============================================================================
