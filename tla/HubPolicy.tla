------------------------------ MODULE HubPolicy ------------------------------
(***************************************************************************)
(* What an accepted configuration comes to mean on the wire.  The operator *)
(* edits the configuration, revokes devices and lets them back in, and     *)
(* generates the key of the fallback listener; every configuration reached *)
(* is compiled as the agent would, and the packets of each device are      *)
(* followed through the compiled ruleset and compared with what the        *)
(* configuration, as the operator wrote it, says of that device.           *)
(*                                                                         *)
(* The interleaving of edits, deploys and passes is modelled elsewhere     *)
(* (ConfigEditor, DeployConfirm, HostPass): here a configuration is        *)
(* compiled the moment it is accepted.                                     *)
(***************************************************************************)
EXTENDS ConfigEdits, Ruleset

CONSTANTS
  Written,        \* the configurations the operator may start from
  Edits,          \* the edits made from there
  MaxEdits,       \* bound: edits, revocations and re-admissions in a behaviour
  Endpoint,       \* the hub's public address
  Destinations,   \* the addresses packets are sent to, beyond the subnet and the links
  Services        \* the <<proto, port>> pairs they carry, beyond the SOCKS ports

ASSUME MaxEditsAssumption == MaxEdits \in Nat

\* What the routes and the resolvers of the private networks are among: neither the hub's
\* public address nor one of its links, which the validation leaves to the operator.
Addresses == Subnet \cup Destinations
LinkEnds == UNION {{HostEnd(i), PeerEnd(i)} : i \in 0 .. Cardinality(Tunnels) - 1}
WithinAddresses(cfg) ==
  \A t \in DOMAIN cfg.tunnels :
    cfg.tunnels[t].routes \subseteq SUBSET Addresses /\ cfg.tunnels[t].servers \subseteq Addresses
ASSUME DestinationsAssumption ==
  /\ Destinations \cap (Subnet \cup LinkEnds) = {}
  /\ Endpoint \notin Addresses \cup LinkEnds
\* Nor is the clients' subnet a public one, so the listener refuses it as private.
ASSUME PrivateRangeAssumption == Subnet \cup LinkEnds \subseteq PrivateRange

ASSUME WrittenAssumption ==
  \A cfg \in Written : IsConfiguration(cfg) /\ WithinAddresses(cfg) /\ Validate(cfg)

\* What an edit may be of.
EditsAField(e) ==
  /\ e = Edit(e.verb, e.section, e.id, e.field, e.value)
  /\ \/ e.section = "hub" /\ e.verb \in {"set", "unset"} /\ e.field \in HubFields
     \/ e.section = "acls" /\ e.verb \in {"add", "remove"}
     \/ /\ e.section = "devices" /\ e.id \in Devices
        /\ \/ e.verb = "set" /\ e.field \in DeviceFields
           \/ e.verb = "add" /\ DOMAIN e.value = DeviceFields
           \/ e.verb = "remove"
     \/ /\ e.section = "tunnels" /\ e.id \in Tunnels
        /\ \/ e.verb = "set" /\ e.field = "enabled"
           \/ e.verb \in {"set", "unset"} /\ e.field = "probe"
           \/ /\ e.verb \in {"append", "drop"}
              /\ \/ e.field \in {"zones", "allowed"}
                 \/ e.field = "routes" /\ e.value \subseteq Addresses
                 \/ e.field = "servers" /\ e.value \in Addresses
ASSUME EditsAssumption == \A e \in Edits : EditsAField(e)

VARIABLES
  config,         \* the configuration on disk
  revoked,        \* the revocation list beside it
  keyed,          \* has the key of the fallback listener been generated?
  edits           \* how many edits were made

vars == <<config, revoked, keyed, edits>>

Init ==
  /\ config \in Written
  /\ revoked = {}
  /\ keyed = FALSE
  /\ edits = 0

Spend == edits < MaxEdits /\ edits' = edits + 1

\* Mutant: the edit is kept whatever the validation says.
ChangeUnchecked(e) ==
  /\ Applies(config, e)
  /\ config' = Apply(config, e)
  /\ Spend
  /\ UNCHANGED <<revoked, keyed>>

\* An edit the validation refuses is undone, so only accepted ones last.
Change(e) ==
  /\ Applies(config, e)
  /\ Validate(Apply(config, e))
  /\ config' = Apply(config, e)
  /\ Spend
  /\ UNCHANGED <<revoked, keyed>>

Revoke(d) ==
  /\ d \in DOMAIN config.devices \ revoked
  /\ revoked' = revoked \cup {d}
  /\ Spend
  /\ UNCHANGED <<config, keyed>>

Readmit(d) ==
  /\ d \in revoked
  /\ revoked' = revoked \ {d}
  /\ Spend
  /\ UNCHANGED <<config, keyed>>

GenerateRealityKey ==
  /\ ~keyed
  /\ keyed' = TRUE
  /\ UNCHANGED <<config, revoked, edits>>

Next ==
  \/ \E e \in Edits : Change(e)
  \/ \E d \in Devices : Revoke(d) \/ Readmit(d)
  \/ GenerateRealityKey

Spec == Init /\ [][Next]_vars

-----------------------------------------------------------------------------
(* The host a configuration compiles to, in each of the conditions its     *)
(* tunnels may be in.                                                      *)

Revision == BuildDesiredState(RemoveRevoked(config, revoked))
Host == Compile(Revision, keyed)

Ids(host) == {s.id : s \in host.specs}

\* Every namespace standing, or all but one; and what split DNS has learned: nothing,
\* or every address of Destinations for one network with zones.
Conditions(host) ==
  [up : {Ids(host)} \cup {Ids(host) \ {t} : t \in Ids(host)},
   learner : {Blank} \cup {z.set : z \in host.dns.zones}]

SetsIn(host, c) ==
  [t \in DOMAIN StaticSets(host.firewall) |->
     StaticSets(host.firewall)[t] \cup (IF t = c.learner THEN Destinations ELSE {})]
NetIn(host, c) == Converged(host.specs, c.up)

Packets(host, from, sources, new) ==
  LET ends == {s.host : s \in host.specs} \cup {s.peer : s \in host.specs}
      ports == Services \cup {<<"tcp", s.port>> : s \in host.socks}
  IN  {[in |-> from, src |-> s, dst |-> a, proto |-> q[1], port |-> q[2], new |-> new]
       : s \in sources, a \in Subnet \cup Destinations \cup {Endpoint} \cup ends, q \in ports}

\* The nearest private network that covers a destination, if any does.
PrivateFor(host, sets, dst) ==
  LET networks == Matching(host.firewall, sets, dst)
  IN  IF networks = {} THEN {} ELSE {First(networks).id}

-----------------------------------------------------------------------------
(* What the configuration says of a device.                                *)

\* An ACL names a device that is gone.  Compiled, it stands for everyone (its source)
\* or for nothing (its target).
Dangling(cfg, gone) ==
  \E rule \in cfg.acls : rule.source \in gone \/ rule.target \in gone

\* A deployed device may be reached by another one where a rule says so.
ACLPermits(cfg, gone, d, p) ==
  \E rule \in cfg.acls :
    /\ rule.source \in {d, Anyone}
    /\ rule.target \in DOMAIN cfg.devices \ gone
    /\ cfg.devices[rule.target].address = p.dst
    /\ rule.proto = p.proto /\ rule.port = p.port

\* The ways a packet of device d may leave the hub.
WaysOut(cfg, gone, host, sets, c, d, p) ==
  LET egress == cfg.devices[d].egress
      private == PrivateFor(host, sets, p.dst)
      doors == {s.id : s \in {s \in host.socks :
                  p.dst \in {s.address, s.inside} /\ p.proto = "tcp" /\ p.port = s.port}}
  IN  {t \in private : MayUse(cfg.tunnels[t], d)}
      \cup {t \in doors : MayUse(cfg.tunnels[t], d)}
      \cup (IF ACLPermits(cfg, gone, d, p) THEN {Ingress} ELSE {})
      \cup (IF private = {} \/ (egress = Direct /\ private \cap c.up = {})
            THEN {LinkOf(egress)} ELSE {})

-----------------------------------------------------------------------------
(* Properties.                                                             *)

\* An accepted configuration stays one, whatever is edited after it.
TypeOK ==
  /\ IsConfiguration(config) /\ Validate(config)
  /\ revoked \subseteq Devices
  /\ keyed \in BOOLEAN
  /\ edits \in 0 .. MaxEdits

\* A new connection of a device leaves the hub by its own egress, by a private
\* network or a SOCKS endpoint it may use, or towards a client a rule opens to it;
\* and never to a private destination by its egress, unless the network is down and
\* the egress is the uplink (the group's rule accepts it by address there).
OwnWayOut ==
  LET host == Host
  IN  ~Dangling(config, revoked) =>
        \A c \in Conditions(host) :
          LET sets == SetsIn(host, c)
              net == NetIn(host, c)
          IN  \A d \in DOMAIN Revision.devices :
                \A p \in Packets(host, Ingress, {config.devices[d].address}, TRUE) :
                  Delivery(host.firewall, host.socks, sets, net, Endpoint, p)
                    \in WaysOut(config, revoked, host, sets, c, d, p) \cup {Local, Dropped}

\* Where it must arrive, when the tunnel stands: nothing before a rule shadows it.
NothingShadowed ==
  LET host == Host
  IN  ~Dangling(config, revoked) =>
        \A c \in Conditions(host) :
          LET sets == SetsIn(host, c)
              net == NetIn(host, c)
          IN  \A d \in DOMAIN Revision.devices :
                \A p \in Packets(host, Ingress, {config.devices[d].address}, TRUE) :
                  LET egress == config.devices[d].egress
                      private == PrivateFor(host, sets, p.dst)
                      fate == Delivery(host.firewall, host.socks, sets, net, Endpoint, p)
                      plain == p.port \notin {53, 853}
                  IN  /\ \A t \in private \cap c.up :
                           MayUse(config.tunnels[t], d) /\ plain /\ p.dst # HubAddress => fate = t
                      /\ private = {} /\ p.dst \in Destinations /\ plain
                           /\ egress \in c.up \cup {Direct} => fate = LinkOf(egress)
                      /\ private = {} /\ p.port # 53 /\ ACLPermits(config, revoked, d, p)
                           => fate = Ingress
                      /\ \A s \in host.socks :
                           /\ private = {} /\ p.dst = s.address /\ p.port = s.port
                           /\ p.proto = "tcp" /\ s.id \in c.up
                           /\ egress \in {s.id, Direct} /\ MayUse(config.tunnels[s.id], d)
                           => fate = s.id

\* A device's lookups, whatever server they are sent to, reach the resolver that
\* answers for its own egress, or nobody while that egress is down.
DnsOwnEgress ==
  LET host == Host
  IN  \A c \in Conditions(host), d \in DOMAIN Revision.devices :
        LET egress == config.devices[d].egress
            own == CHOOSE r \in host.dns.egress : r.id = egress
        IN  \A p \in Packets(host, Ingress, {config.devices[d].address}, TRUE) : p.port = 53 =>
              /\ config.devices[d].address \in own.clients
              /\ Redirected(host.firewall, host.socks, p) = own.address
              /\ Delivery(host.firewall, host.socks, SetsIn(host, c), NetIn(host, c), Endpoint, p)
                   = IF egress \in c.up \cup {Direct} THEN Local ELSE Dropped

\* What the hub sends itself: a connection of the fallback listener leaves by its
\* device's egress or not at all, the hub's own services included; a query for a private
\* zone leaves by a network that covers its destination, translated to an address that
\* has a way back, and reaches nothing of the hub's own.
HubOriginated ==
  LET host == Host
  IN  \A c \in Conditions(host) :
        LET sets == SetsIn(host, c)
            net == NetIn(host, c)
        IN  \A p \in Packets(host, Blank, {Endpoint}, TRUE) :
              /\ \A u \in host.users :
                   LET egress == config.devices[u.device].egress
                       fate == SentForUser(host.firewall, sets, net, Endpoint, u, p)
                   IN  /\ u.device \notin revoked
                       /\ fate \in {LinkOf(egress), Dropped}
              /\ Matching(host.firewall, sets, p.dst) # {} =>
                   LET fate == Sent(host.firewall, sets, net, Endpoint, 0, p)
                       covering == {n.id : n \in Matching(host.firewall, sets, p.dst)}
                   IN  /\ fate \in covering \cup {Dropped}
                       /\ fate \in covering => Masqueraded(host.firewall, p.src, fate)

\* Nobody else forwards through the hub: not the internet, and a namespace only
\* towards its provider, and only when its tunnel runs inside it.
OutsidersConfined ==
  LET host == Host
  IN  \A c \in Conditions(host) :
        LET sets == SetsIn(host, c)
            net == NetIn(host, c)
            fate(p) == Delivery(host.firewall, host.socks, sets, net, Endpoint, p)
        IN  /\ \A p \in Packets(host, Uplink, Destinations, TRUE) : fate(p) \in {Local, Dropped}
            /\ \A s \in host.specs : \A p \in Packets(host, s.id, {s.peer}, TRUE) :
                 /\ fate(p) \in {Uplink, Local, Dropped}
                 /\ fate(p) = Uplink =>
                      s.id \in Contained /\ Masqueraded(host.firewall, p.src, Uplink)

-----------------------------------------------------------------------------
(* A property the code does not have.                                      *)

\* README: client-to-client traffic is denied until an explicit ACL permits it.
ClientIsolation ==
  LET host == Host
  IN  \A c \in Conditions(host), d \in DOMAIN Revision.devices :
        \A p \in Packets(host, Ingress, {config.devices[d].address}, TRUE) :
          Delivery(host.firewall, host.socks, SetsIn(host, c), NetIn(host, c), Endpoint, p)
            = Ingress => ACLPermits(config, revoked, d, p)
=============================================================================
