------------------------------ MODULE Ruleset ------------------------------
(***************************************************************************)
(* What the kernel does with a packet once a plan's ruleset is loaded: the *)
(* chains RenderRuleset writes, in the order the hooks run them, around    *)
(* the routing decision that the marks and the policy routing of the       *)
(* egress adapter determine.  An operator per chain; a packet's fate is    *)
(* the way it leaves (Ingress, Uplink, a tunnel's link), Local, or Dropped.*)
(*                                                                         *)
(* A packet is [in, src, dst, proto, port, new]; `new` is conntrack's ct   *)
(* state, FALSE on a connection already accepted.  `sets` gives the        *)
(* elements of each private network's nft set, learned ones included.      *)
(* `net` is the kernel's routing: links (tunnel -> number of its /30),     *)
(* rules (<<mark, table>>), routes (table -> link of its default route).   *)
(***************************************************************************)
EXTENDS Policy

CONSTANTS
  Ingress, Uplink, Local, Dropped,   \* where a packet ends up
  Loopback,                          \* `lo`, as an interface packets come in by
  PrivateRange                       \* addresses sing-box calls private (ip_is_private)

\* nft refuses a script with a rule whose address is missing.
Loadable(plan) == \A acl \in plan.acls : acl.target # Blank

\* A packet's fate is one way out, or none.
ASSUME FatesAssumption ==
  /\ Ingress \notin {Uplink, Local, Dropped, Loopback}
  /\ Uplink \notin {Local, Dropped, Loopback} /\ Local # Dropped
  /\ {Ingress, Uplink, Local, Dropped, Loopback} \cap Tunnels = {}

LinkOf(id) == IF id = Direct THEN Uplink ELSE id
First(networks) == CHOOSE n \in networks : \A m \in networks : n.id <= m.id
Matching(plan, sets, dst) == {n \in plan.internals : dst \in sets[n.id]}
StaticSets(plan) ==
  [t \in {n.id : n \in plan.internals} |-> (CHOOSE n \in plan.internals : n.id = t).set]

-----------------------------------------------------------------------------
(* Marks, redirections, routes.                                            *)

\* Mutant: traffic between clients is marked like any other.
MarkClientsToo(plan, sets, p) ==
  LET networks == Matching(plan, sets, p.dst)
      groups == {g \in plan.groups : p.src \in g.addresses}
  IN  CASE p.in # Ingress -> 0
        [] p.in = Ingress /\ networks # {} -> First(networks).mark
        [] OTHER -> IF groups = {} THEN 0 ELSE (CHOOSE g \in groups : TRUE).mark

\* chain prerouting: private destinations first, then clients of the hub, then
\* the device's egress.
MarkOnArrival(plan, sets, p) ==
  LET networks == Matching(plan, sets, p.dst)
      groups == {g \in plan.groups : p.src \in g.addresses}
  IN  CASE p.in # Ingress -> 0
        [] p.in = Ingress /\ networks # {} -> First(networks).mark
        [] p.in = Ingress /\ networks = {} /\ p.dst \in Subnet -> 0
        [] OTHER -> IF groups = {} THEN 0 ELSE (CHOOSE g \in groups : TRUE).mark

AdmittedDNSClients(plan) == UNION {g.addresses : g \in plan.groups}

\* The destination found for a group is the one with the same clients.
DNSDestinationsFor(plan, src) ==
  {d \in plan.destinations : \E g \in plan.groups : src \in g.addresses /\ d.clients = g.addresses}

\* chains prerouting_nat of the hub's table and of the SOCKS tables.
Redirected(plan, socks, p) ==
  LET own == DNSDestinationsFor(plan, p.src)
      endpoint == {s \in socks : p.dst = s.address /\ p.port = s.port /\ p.proto = "tcp"}
  IN  CASE p.in = Ingress /\ p.port = 53 ->
             IF own # {} THEN (CHOOSE d \in own : TRUE).resolver
             ELSE IF p.src \in AdmittedDNSClients(plan) THEN HubAddress
             ELSE p.dst
        [] OTHER -> IF endpoint # {} THEN (CHOOSE s \in endpoint : TRUE).inside ELSE p.dst

\* The port a datagram from the internet is delivered to.
RedirectedPort(plan, p) ==
  IF plan.udp443 /\ p.in = Uplink /\ p.proto = "udp" /\ p.port = RealityPort
  THEN plan.listen ELSE p.port

LocalAddresses(net, endpoint) ==
  {HubAddress, endpoint} \cup {HostEnd(net.links[t]) : t \in DOMAIN net.links}

\* Local addresses first; then `ip rule fwmark M lookup T`, which falls through to
\* the main table when T has no route.
RouteOf(net, endpoint, mark, dst) ==
  LET ways == {net.routes[r[2]] : r \in {r \in net.rules : r[1] = mark /\ r[2] \in DOMAIN net.routes}}
      links == {t \in DOMAIN net.links : dst = PeerEnd(net.links[t])}
  IN  CASE dst \in LocalAddresses(net, endpoint) -> Local
        [] dst \notin LocalAddresses(net, endpoint) /\ ways # {} -> CHOOSE w \in ways : TRUE
        [] OTHER -> IF dst \in Subnet THEN Ingress
                    ELSE IF links # {} THEN CHOOSE t \in links : TRUE
                    ELSE Uplink

-----------------------------------------------------------------------------
(* Filters.                                                                *)

\* The holes between clients, the only ones before the drop of ingress to ingress.
ACLAccepts(plan, p, dst) ==
  \E acl \in plan.acls :
    /\ IF acl.source = Blank THEN p.src \in Subnet ELSE p.src = acl.source
    /\ dst = acl.target /\ p.proto = acl.proto /\ p.port = acl.port

\* chain forward, policy drop.
ForwardAccepts(plan, sets, socks, p, dst, out) ==
  \/ ~p.new
  \/ p.in = Ingress /\ out = Ingress /\ ACLAccepts(plan, p, dst)
  \/ /\ p.in = Ingress /\ out # Ingress
     /\ ~(p.proto = "tcp" /\ p.port = 853)
     /\ \/ \E n \in plan.internals : p.src \in n.clients /\ dst \in sets[n.id] /\ out = n.id
        \/ \E g \in plan.groups : p.src \in g.addresses /\ out = LinkOf(g.id)
        \/ \E s \in socks :
             p.src \in s.clients /\ out = s.id /\ p.proto = "tcp" /\ p.port = s.port
  \/ /\ out = Uplink
     /\ \E g \in plan.groups \cup plan.internals : g.contained /\ p.in = LinkOf(g.id)

\* chain input, policy drop; mark is the socket's on loopback.
InputAccepts(plan, p, mark, dst) ==
  LET own == DNSDestinationsFor(plan, p.src)
      admitted == AdmittedDNSClients(plan)
  IN  IF p.in = Ingress /\ p.port = 53
      THEN IF own # {} THEN dst = (CHOOSE d \in own : TRUE).resolver
           ELSE p.src \in admitted /\ dst = HubAddress
      ELSE \/ ~p.new
           \/ p.in = Loopback /\ mark # 0 /\ admitted # {} /\ dst = HubAddress /\ p.port = 53
           \/ p.in = Loopback /\ mark = 0
           \/ /\ ~(p.in = Loopback /\ mark # 0)
              /\ \/ p.proto = "icmp"
                 \/ p.proto = "tcp" /\ p.port = 22
                 \/ p.proto = "udp" /\ RedirectedPort(plan, p) = plan.listen
                 \/ p.proto = "tcp" /\ p.port = RealityPort /\ plan.reality

\* Mutant: the mark is chosen by the destination alone.
MarkEverySocket(plan, sets, mark, dst) ==
  LET networks == Matching(plan, sets, dst)
  IN  IF networks = {} THEN mark
      ELSE (CHOOSE n \in networks : \A m \in networks : m.id <= n.id).mark

\* chain output_mark: a socket that chose its way out keeps it.  Unlike prerouting,
\* no rule returns, so the last private network that matches wins.
MarkOnOutput(plan, sets, mark, dst) ==
  LET networks == Matching(plan, sets, dst)
  IN  IF mark # 0 \/ networks = {} THEN mark
      ELSE (CHOOSE n \in networks : \A m \in networks : m.id <= n.id).mark

\* chain output: a mark leaves by its own link or not at all.
OutputAccepts(plan, mark, out) ==
  \A g \in plan.groups \cup plan.internals :
    g.id # Direct /\ g.mark = mark => out = g.id

\* Mutant: only clients and private networks are translated.
MasqueradedClients(plan, src, out) ==
  \/ out = Uplink /\ src \in Subnet /\ \E g \in plan.groups : g.id = Direct
  \/ src \notin Subnet /\ \E n \in plan.internals : out = n.id

\* chain postrouting: is the source translated to an address of the interface?
Masqueraded(plan, src, out) ==
  \/ out = Uplink /\ src \in Subnet /\ \E g \in plan.groups : g.id = Direct
  \/ src \notin Subnet /\ \E n \in plan.internals : out = n.id
  \/ /\ out = Uplink /\ src >= LinkBase
     /\ \E g \in plan.groups \cup plan.internals : g.contained

-----------------------------------------------------------------------------
(* Where a packet ends up.                                                 *)

\* A packet that arrives by an interface.
Delivery(plan, socks, sets, net, endpoint, p) ==
  LET mark == MarkOnArrival(plan, sets, p)
      dst == IF p.new THEN Redirected(plan, socks, p) ELSE p.dst
      out == RouteOf(net, endpoint, mark, dst)
      accepted == IF out = Local THEN InputAccepts(plan, p, mark, dst)
                  ELSE ForwardAccepts(plan, sets, socks, p, dst, out)
  IN  IF accepted THEN out ELSE Dropped

\* A packet the hub sends itself, from a socket that carries a mark (0: none).  One to
\* an address of its own leaves by `lo`, so it passes the output chain before input.
Sent(plan, sets, net, endpoint, socket, p) ==
  LET mark == MarkOnOutput(plan, sets, socket, p.dst)
      out == RouteOf(net, endpoint, mark, p.dst)
      accepted ==
        /\ OutputAccepts(plan, mark, out)
        /\ out = Local => InputAccepts(plan, [p EXCEPT !.in = Loopback], mark, p.dst)
  IN  IF accepted THEN out ELSE Dropped

\* A connection the fallback listener opens for a user: private destinations are
\* refused in its own configuration, and all leave with the user's mark.
SentForUser(plan, sets, net, endpoint, user, p) ==
  IF p.dst \in PrivateRange THEN Dropped ELSE Sent(plan, sets, net, endpoint, user.mark, p)

\* Kernel routing once every namespace of `up` stands and is routed to.
Converged(specs, up) ==
  LET standing == {s \in specs : s.id \in up}
  IN  [links |-> [t \in {s.id : s \in standing} |-> SpecOf(specs, t).table - 100],
       rules |-> {<<s.mark, s.table>> : s \in specs},
       routes |-> [r \in {s.table : s \in standing} |->
                     (CHOOSE s \in standing : s.table = r).id]]
=============================================================================
