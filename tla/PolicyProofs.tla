---------------------------- MODULE PolicyProofs ----------------------------
(***************************************************************************)
(* Proofs about HubPolicy, for any devices, tunnels, edits and addresses:  *)
(* whatever is edited and revoked, and whichever namespaces stand, the     *)
(* compiled ruleset delivers a packet where the configuration says.  The   *)
(* argument is that a tunnel has one position in a compiled plan, and its  *)
(* mark, its table, its links and its port are functions of it.            *)
(***************************************************************************)
EXTENDS HubPolicy, WellFoundedInduction, FiniteSetTheorems, TLAPS

-----------------------------------------------------------------------------
(* Numbers and sets.                                                       *)

LEMMA LeastLemma ==
  ASSUME NEW S, S \subseteq Nat, S # {}
  PROVE  \E x \in S : \A y \in S : x <= y
<1>1. PICK x \in S : \A y \in S : ~(<<y, x>> \in OpToRel(<, Nat))
  BY WFMin, NatLessThanWellFounded
<1>2. \A y \in S : x <= y
  <2> SUFFICES ASSUME NEW y \in S, y < x PROVE FALSE
    OBVIOUS
  <2>1. <<y, x>> \in OpToRel(<, Nat)
    BY DEF OpToRel
  <2> QED
    BY <1>1, <2>1
<1> QED
  BY <1>2

\* A greatest one is there when the set is finite.
LEMMA GreatestLemma ==
  ASSUME NEW S, S \subseteq Nat, IsFiniteSet(S), S # {}
  PROVE  \E x \in S : \A y \in S : y <= x
<1> DEFINE Above(x) == {y \in S : x < y}
           Sizes == {Cardinality(Above(x)) : x \in S}
<1>1. \A x \in S : IsFiniteSet(Above(x)) /\ Cardinality(Above(x)) \in Nat
  BY FS_Subset, FS_CardinalityType
<1>2. PICK n \in Sizes : \A m \in Sizes : n <= m
  <2>1. Sizes \subseteq Nat
    BY <1>1
  <2>2. Sizes # {}
    OBVIOUS
  <2> HIDE DEF Sizes
  <2> QED
    BY <2>1, <2>2, LeastLemma
<1>3. PICK x \in S : Cardinality(Above(x)) = n
  OBVIOUS
<1>4. \A y \in S : y <= x
  <2> SUFFICES ASSUME NEW y \in S, x < y PROVE FALSE
    OBVIOUS
  <2>1. Above(y) \subseteq Above(x) /\ Above(y) # Above(x)
    <3>1. \A z \in Above(y) : z \in S /\ x < z
      OBVIOUS
    <3>2. y \in Above(x) /\ y \notin Above(y)
      OBVIOUS
    <3> QED
      BY <3>1, <3>2
  <2>2. Cardinality(Above(y)) < Cardinality(Above(x))
    BY <1>1, <2>1, FS_Subset
  <2>3. n <= Cardinality(Above(y))
    BY <1>2
  <2>4. n \in Nat /\ Cardinality(Above(y)) \in Nat /\ Cardinality(Above(x)) = n
    BY <1>1, <1>3
  <2> HIDE DEF Above, Sizes
  <2> QED
    BY <2>2, <2>3, <2>4
<1> QED
  BY <1>4

\* Positions in a set are told apart by their rank.
LEMMA RankLemma ==
  ASSUME NEW S, S \subseteq Nat, IsFiniteSet(S)
  PROVE  /\ Cardinality(S) \in Nat
         /\ \A x \in S : Rank(x, S) \in Nat /\ Rank(x, S) < Cardinality(S)
         /\ \A x, y \in S : Rank(x, S) = Rank(y, S) => x = y
<1> DEFINE Below(x) == {y \in S : y < x}
<1>0. \A x : Rank(x, S) = Cardinality(Below(x))
  BY DEF Rank
<1>1. Cardinality(S) \in Nat
  BY FS_CardinalityType
<1>2. \A x \in S : IsFiniteSet(Below(x)) /\ Cardinality(Below(x)) \in Nat
  BY FS_Subset, FS_CardinalityType
<1>3. \A x \in S : Cardinality(Below(x)) < Cardinality(S)
  <2> SUFFICES ASSUME NEW x \in S PROVE Cardinality(Below(x)) < Cardinality(S)
    OBVIOUS
  <2>1. Below(x) \subseteq S /\ Below(x) # S
    OBVIOUS
  <2> QED
    BY <1>1, <1>2, <2>1, FS_Subset
<1>4. ASSUME NEW x \in S, NEW y \in S, x < y
      PROVE  Cardinality(Below(x)) < Cardinality(Below(y))
  <2>1. Below(x) \subseteq Below(y) /\ Below(x) # Below(y)
    <3>1. \A z \in Below(x) : z \in S /\ z < y
      BY <1>4
    <3>2. x \in Below(y) /\ x \notin Below(x)
      BY <1>4
    <3> QED
      BY <3>1, <3>2
  <2> QED
    BY <1>2, <2>1, FS_Subset
<1>5. ASSUME NEW x \in S, NEW y \in S, x # y
      PROVE  Cardinality(Below(x)) # Cardinality(Below(y))
  <2>1. CASE x < y
    BY <1>2, <1>4, <2>1
  <2>2. CASE y < x
    BY <1>2, <1>4, <2>2
  <2> QED
    BY <1>5, <2>1, <2>2
<1> QED
  BY <1>0, <1>1, <1>2, <1>3, <1>5

-----------------------------------------------------------------------------
(* The compiled plan of a revision: one record per tunnel, each told from  *)
(* the others by the tunnel's position.                                    *)

\* What compiling asks of a revision: what the validation grants, but for the ACLs and
\* the lists of the tunnels, which go on naming revoked devices.
Deployable(rev) ==
  /\ DOMAIN rev.devices \subseteq Devices
  /\ \A d \in DOMAIN rev.devices :
       /\ UsableAddress(rev.devices[d].address)
       /\ rev.devices[d].egress = Direct \/ rev.devices[d].egress \in DOMAIN rev.tunnels \ Private
  /\ \A d, e \in DOMAIN rev.devices :
       d # e => rev.devices[d].address # rev.devices[e].address
  /\ DOMAIN rev.tunnels \subseteq Tunnels
  /\ WithinAddresses(rev)

Plan(rev) == BuildFirewallPlan(rev)
Specs(rev) == BuildEgressSpecs(Plan(rev))
Socks(rev) == SocksEndpoints(Plan(rev), Specs(rev))

Pos(rev, t) ==
  IF t \in TunnelEgresses(rev) THEN Rank(t, TunnelEgresses(rev))
  ELSE Cardinality(TunnelEgresses(rev)) + Rank(t, PrivateNetworks(rev))

GroupFor(rev, t) ==
  [id |-> t, mark |-> DirectMark + 1 + Pos(rev, t), contained |-> t \in Contained,
   addresses |-> Grouped(rev, t), clients |-> PermittedClients(rev, t)]
DirectGroup(rev) ==
  [id |-> Direct, mark |-> DirectMark, contained |-> FALSE,
   addresses |-> Grouped(rev, Direct), clients |-> {}]
NetworkFor(rev, t) ==
  [id |-> t, mark |-> DirectMark + 1 + Pos(rev, t), contained |-> t \in Contained,
   set |-> (UNION rev.tunnels[t].routes) \cup UncoveredResolvers(rev.tunnels[t]),
   zones |-> rev.tunnels[t].zones, resolvers |-> rev.tunnels[t].servers,
   clients |-> PermittedClients(rev, t)]
SpecFor(rev, t) ==
  [id |-> t, mark |-> DirectMark + 1 + Pos(rev, t), table |-> 100 + Pos(rev, t),
   socks |-> 11080 + Pos(rev, t), host |-> HostEnd(Pos(rev, t)), peer |-> PeerEnd(Pos(rev, t))]
SocksFor(rev, t) ==
  [id |-> t, address |-> HostEnd(Pos(rev, t)), inside |-> PeerEnd(Pos(rev, t)),
   port |-> 11080 + Pos(rev, t), clients |-> PermittedClients(rev, t)]

\* A device of a deployable revision chose a tunnel that is deployed, so the egresses of
\* the plan are the egress tunnels.
LEMMA EgressesLemma ==
  ASSUME NEW rev, Deployable(rev)
  PROVE  /\ TunnelEgresses(rev) = DOMAIN rev.tunnels \ Private
         /\ PrivateNetworks(rev) = DOMAIN rev.tunnels \cap Private
         /\ TunnelEgresses(rev) \cap PrivateNetworks(rev) = {}
         /\ TunnelEgresses(rev) \cup PrivateNetworks(rev) = DOMAIN rev.tunnels
         /\ DOMAIN rev.tunnels \subseteq Tunnels
         /\ Direct \notin DOMAIN rev.tunnels
<1>1. TunnelEgresses(rev) = DOMAIN rev.tunnels \ Private
  BY DEF TunnelEgresses, Deployable
<1> QED
  BY <1>1, DirectAssumption DEF PrivateNetworks, Deployable

\* Both kinds of tunnels are numbered.
LEMMA RanksLemma ==
  ASSUME NEW rev, Deployable(rev)
  PROVE  LET E == TunnelEgresses(rev)
             N == PrivateNetworks(rev)
         IN  /\ Cardinality(E) \in Nat /\ Cardinality(N) \in Nat /\ Cardinality(Tunnels) \in Nat
             /\ Cardinality(E) + Cardinality(N) <= Cardinality(Tunnels)
             /\ \A t \in E : Rank(t, E) \in Nat /\ Rank(t, E) < Cardinality(E)
             /\ \A t, u \in E : Rank(t, E) = Rank(u, E) => t = u
             /\ \A t \in N : Rank(t, N) \in Nat /\ Rank(t, N) < Cardinality(N)
             /\ \A t, u \in N : Rank(t, N) = Rank(u, N) => t = u
<1> DEFINE E == TunnelEgresses(rev)
           N == PrivateNetworks(rev)
<1>1. /\ E \cap N = {} /\ E \cup N = DOMAIN rev.tunnels /\ E \cup N \subseteq Tunnels
  BY EgressesLemma
<1>2. /\ E \subseteq Nat /\ N \subseteq Nat /\ IsFiniteSet(E) /\ IsFiniteSet(N)
      /\ IsFiniteSet(E \cup N)
  BY <1>1, FS_Subset, IdentifiersAssumption
<1>3. /\ Cardinality(E) \in Nat /\ Cardinality(N) \in Nat /\ Cardinality(Tunnels) \in Nat
      /\ Cardinality(E) + Cardinality(N) <= Cardinality(Tunnels)
  <2>1. Cardinality(E \cup N) = Cardinality(E) + Cardinality(N)
    <3>1. Cardinality(E \cup N) = Cardinality(E) + Cardinality(N) - Cardinality(E \cap N)
      BY <1>2, FS_Union
    <3>2. Cardinality(E \cap N) = 0
      BY <1>1, FS_EmptySet
    <3> QED
      BY <1>2, <3>1, <3>2, FS_CardinalityType
  <2>2. Cardinality(E \cup N) <= Cardinality(Tunnels)
    BY <1>1, FS_Subset, IdentifiersAssumption
  <2> QED
    BY <1>2, <2>1, <2>2, FS_CardinalityType, IdentifiersAssumption
<1>4. /\ \A t \in E : Rank(t, E) \in Nat /\ Rank(t, E) < Cardinality(E)
      /\ \A t, u \in E : Rank(t, E) = Rank(u, E) => t = u
  BY <1>2, RankLemma
<1>5. /\ \A t \in N : Rank(t, N) \in Nat /\ Rank(t, N) < Cardinality(N)
      /\ \A t, u \in N : Rank(t, N) = Rank(u, N) => t = u
  BY <1>2, RankLemma
<1> QED
  BY <1>3, <1>4, <1>5

LEMMA PosLemma ==
  ASSUME NEW rev, Deployable(rev)
  PROVE  /\ \A t \in DOMAIN rev.tunnels : Pos(rev, t) \in 0 .. Cardinality(Tunnels) - 1
         /\ \A t, u \in DOMAIN rev.tunnels : Pos(rev, t) = Pos(rev, u) => t = u
<1> DEFINE E == TunnelEgresses(rev)
           N == PrivateNetworks(rev)
<1>1. E \cap N = {} /\ E \cup N = DOMAIN rev.tunnels
  BY EgressesLemma
<1>2. /\ Cardinality(E) \in Nat /\ Cardinality(N) \in Nat /\ Cardinality(Tunnels) \in Nat
      /\ Cardinality(E) + Cardinality(N) <= Cardinality(Tunnels)
      /\ \A t \in E : Rank(t, E) \in Nat /\ Rank(t, E) < Cardinality(E)
      /\ \A t, u \in E : Rank(t, E) = Rank(u, E) => t = u
      /\ \A t \in N : Rank(t, N) \in Nat /\ Rank(t, N) < Cardinality(N)
      /\ \A t, u \in N : Rank(t, N) = Rank(u, N) => t = u
  BY RanksLemma
<1>3. \A t : Pos(rev, t) = IF t \in E THEN Rank(t, E) ELSE Cardinality(E) + Rank(t, N)
  BY DEF Pos
<1> HIDE DEF E, N
<1> QED
  BY <1>1, <1>2, <1>3

LEMMA GroupsLemma ==
  ASSUME NEW rev, Deployable(rev)
  PROVE  /\ \A g \in Plan(rev).groups :
              \/ g.id \in TunnelEgresses(rev) /\ g = GroupFor(rev, g.id)
              \/ g = DirectGroup(rev) /\ g.addresses # {}
         /\ \A t \in TunnelEgresses(rev) : GroupFor(rev, t) \in Plan(rev).groups
         /\ DirectGroup(rev).addresses # {} => DirectGroup(rev) \in Plan(rev).groups
         /\ {g.id : g \in Plan(rev).groups} \ {Direct} = TunnelEgresses(rev)
<1>1. Plan(rev).groups =
        {GroupFor(rev, t) : t \in TunnelEgresses(rev)}
          \cup {g \in {DirectGroup(rev)} : g.addresses # {}}
  BY DEF Plan, BuildFirewallPlan, Groups, GroupFor, DirectGroup, EgressMark, Pos
<1>2. \A t : GroupFor(rev, t).id = t
  BY DEF GroupFor
<1>3. DirectGroup(rev).id = Direct
  BY DEF DirectGroup
<1>4. Direct \notin TunnelEgresses(rev)
  BY EgressesLemma
<1> QED
  BY <1>1, <1>2, <1>3, <1>4

LEMMA NetworksLemma ==
  ASSUME NEW rev, Deployable(rev)
  PROVE  /\ \A n \in Plan(rev).internals :
              n.id \in PrivateNetworks(rev) /\ n = NetworkFor(rev, n.id)
         /\ \A t \in PrivateNetworks(rev) : NetworkFor(rev, t) \in Plan(rev).internals
         /\ {n.id : n \in Plan(rev).internals} = PrivateNetworks(rev)
<1>0. \A t \in PrivateNetworks(rev) : t \notin TunnelEgresses(rev)
  BY EgressesLemma
<1>1. \A t \in PrivateNetworks(rev) : InternalMark(rev, t) = DirectMark + 1 + Pos(rev, t)
  <2> SUFFICES ASSUME NEW t \in PrivateNetworks(rev)
               PROVE  InternalMark(rev, t) = DirectMark + 1 + Pos(rev, t)
    OBVIOUS
  <2>1. Cardinality(TunnelEgresses(rev)) \in Nat /\ Rank(t, PrivateNetworks(rev)) \in Nat
    BY RanksLemma
  <2> QED
    BY <1>0, <2>1 DEF InternalMark, Pos, DirectMark
<1>2. Plan(rev).internals = {NetworkFor(rev, t) : t \in PrivateNetworks(rev)}
  BY <1>1 DEF Plan, BuildFirewallPlan, InternalNetworks, NetworkFor
<1>3. \A t : NetworkFor(rev, t).id = t
  BY DEF NetworkFor
<1> QED
  BY <1>2, <1>3

\* Every tunnel deployed is placed once, as a group or as a network.
LEMMA PlacementsLemma ==
  ASSUME NEW rev, Deployable(rev)
  PROVE  /\ \A p \in Placements(Plan(rev)) :
              /\ p.id \in DOMAIN rev.tunnels
              /\ p.mark = DirectMark + 1 + Pos(rev, p.id)
              /\ p.clients = PermittedClients(rev, p.id)
              /\ p.contained = (p.id \in Contained)
         /\ \A t \in DOMAIN rev.tunnels : \E p \in Placements(Plan(rev)) : p.id = t
<1>1. /\ TunnelEgresses(rev) \cup PrivateNetworks(rev) = DOMAIN rev.tunnels
      /\ Direct \notin DOMAIN rev.tunnels
  BY EgressesLemma
<1>2. ASSUME NEW p \in Placements(Plan(rev))
      PROVE  /\ p.id \in DOMAIN rev.tunnels
             /\ p.mark = DirectMark + 1 + Pos(rev, p.id)
             /\ p.clients = PermittedClients(rev, p.id)
             /\ p.contained = (p.id \in Contained)
  <2>1. p.id # Direct /\ (p \in Plan(rev).groups \/ p \in Plan(rev).internals)
    BY DEF Placements
  <2>2. CASE p \in Plan(rev).groups
    <3>1. DirectGroup(rev).id = Direct
      BY DEF DirectGroup
    <3>2. p.id \in TunnelEgresses(rev) /\ p = GroupFor(rev, p.id)
      BY <2>1, <2>2, <3>1, GroupsLemma
    <3> QED
      BY <1>1, <3>2 DEF GroupFor
  <2>3. CASE p \in Plan(rev).internals
    <3>1. p.id \in PrivateNetworks(rev) /\ p = NetworkFor(rev, p.id)
      BY <2>3, NetworksLemma
    <3> QED
      BY <1>1, <3>1 DEF NetworkFor
  <2> QED
    BY <2>1, <2>2, <2>3
<1>3. \A t \in TunnelEgresses(rev) :
        GroupFor(rev, t) \in Placements(Plan(rev)) /\ GroupFor(rev, t).id = t
  BY <1>1, GroupsLemma DEF Placements, GroupFor
<1>4. \A t \in PrivateNetworks(rev) :
        NetworkFor(rev, t) \in Placements(Plan(rev)) /\ NetworkFor(rev, t).id = t
  BY <1>1, NetworksLemma DEF Placements, NetworkFor
<1> QED
  BY <1>1, <1>2, <1>3, <1>4

LEMMA SpecsLemma ==
  ASSUME NEW rev, Deployable(rev)
  PROVE  /\ Specs(rev) = {SpecFor(rev, t) : t \in DOMAIN rev.tunnels}
         /\ Ids([specs |-> Specs(rev)]) = DOMAIN rev.tunnels
         /\ \A s \in Specs(rev) : s.id \in DOMAIN rev.tunnels /\ s = SpecFor(rev, s.id)
         /\ \A t \in DOMAIN rev.tunnels : SpecOf(Specs(rev), t) = SpecFor(rev, t)
<1> DEFINE plan == Plan(rev)
           Record(p) == LET i == Position(plan, p.id)
                        IN  [id |-> p.id, mark |-> p.mark, table |-> 100 + i, socks |-> 11080 + i,
                             host |-> HostEnd(i), peer |-> PeerEnd(i)]
<1>1. \A t \in DOMAIN rev.tunnels : Position(plan, t) = Pos(rev, t)
  BY GroupsLemma, NetworksLemma DEF Position, Pos
<1>3. \A p \in Placements(plan) :
        p.id \in DOMAIN rev.tunnels /\ p.mark = DirectMark + 1 + Pos(rev, p.id)
  BY PlacementsLemma
<1>4. \A t \in DOMAIN rev.tunnels : \E p \in Placements(plan) : p.id = t
  BY PlacementsLemma
<1>5. \A p \in Placements(plan) : Record(p) = SpecFor(rev, p.id)
  BY <1>1, <1>3 DEF SpecFor
<1>6. Specs(rev) = {Record(p) : p \in Placements(plan)}
  BY DEF Specs, BuildEgressSpecs
<1>7. Specs(rev) = {SpecFor(rev, t) : t \in DOMAIN rev.tunnels}
  <2> HIDE DEF plan, Record
  <2> QED
    BY <1>3, <1>4, <1>5, <1>6
<1>8. \A t : SpecFor(rev, t).id = t
  BY DEF SpecFor
<1> QED
  BY <1>7, <1>8 DEF Ids, SpecOf

\* The endpoint of a tunnel serves the clients of its group, or of its network.
LEMMA SocksLemma ==
  ASSUME NEW rev, Deployable(rev)
  PROVE  Socks(rev) = {SocksFor(rev, t) : t \in DOMAIN rev.tunnels}
<1> DEFINE plan == Plan(rev)
           Served(t) == (CHOOSE p \in Placements(plan) : p.id = t).clients
           Record(s) == [id |-> s.id, address |-> s.host, inside |-> s.peer, port |-> s.socks,
                         clients |-> Served(s.id)]
<1>2. \A p \in Placements(plan) : p.clients = PermittedClients(rev, p.id)
  BY PlacementsLemma
<1>3. \A t \in DOMAIN rev.tunnels : \E p \in Placements(plan) : p.id = t
  BY PlacementsLemma
<1>4. \A t \in DOMAIN rev.tunnels : Served(t) = PermittedClients(rev, t)
  <2> SUFFICES ASSUME NEW t \in DOMAIN rev.tunnels PROVE Served(t) = PermittedClients(rev, t)
    OBVIOUS
  <2>1. \E p \in Placements(plan) : p.id = t
    BY <1>3
  <2> DEFINE p == CHOOSE p \in Placements(plan) : p.id = t
  <2>2. p \in Placements(plan) /\ p.id = t
    BY <2>1
  <2> QED
    BY <1>2, <2>2
<1>5. \A t \in DOMAIN rev.tunnels : Record(SpecFor(rev, t)) = SocksFor(rev, t)
  <2> SUFFICES ASSUME NEW t \in DOMAIN rev.tunnels PROVE Record(SpecFor(rev, t)) = SocksFor(rev, t)
    OBVIOUS
  <2>1. SpecFor(rev, t).id = t
    BY DEF SpecFor
  <2>2. Served(SpecFor(rev, t).id) = PermittedClients(rev, t)
    BY <1>4, <2>1
  <2> HIDE DEF Served
  <2> QED
    BY <2>2 DEF SpecFor, SocksFor
<1>6. Socks(rev) = {Record(s) : s \in Specs(rev)}
  BY DEF Socks, SocksEndpoints
<1>7. Specs(rev) = {SpecFor(rev, t) : t \in DOMAIN rev.tunnels}
  BY SpecsLemma
<1> HIDE DEF Record
<1> QED
  BY <1>5, <1>6, <1>7

\* The links of the namespaces are apart from each other, and from everything else.
LEMMA LinksLemma ==
  ASSUME NEW rev, Deployable(rev), NEW t \in DOMAIN rev.tunnels
  PROVE  /\ HostEnd(Pos(rev, t)) \in LinkEnds /\ PeerEnd(Pos(rev, t)) \in LinkEnds
         /\ HostEnd(Pos(rev, t)) # HubAddress /\ PeerEnd(Pos(rev, t)) # HubAddress
         /\ PeerEnd(Pos(rev, t)) \in Int /\ PeerEnd(Pos(rev, t)) >= LinkBase
         /\ \A u \in DOMAIN rev.tunnels :
              /\ HostEnd(Pos(rev, t)) # PeerEnd(Pos(rev, u))
              /\ HostEnd(Pos(rev, t)) = HostEnd(Pos(rev, u)) => t = u
              /\ PeerEnd(Pos(rev, t)) = PeerEnd(Pos(rev, u)) => t = u
<1>1. /\ Pos(rev, t) \in 0 .. Cardinality(Tunnels) - 1
      /\ \A u \in DOMAIN rev.tunnels : Pos(rev, u) \in 0 .. Cardinality(Tunnels) - 1
      /\ \A u \in DOMAIN rev.tunnels : Pos(rev, t) = Pos(rev, u) => t = u
  BY PosLemma
<1>2. Cardinality(Tunnels) \in Nat
  BY FS_CardinalityType, IdentifiersAssumption
<1>3. HostEnd(Pos(rev, t)) \in LinkEnds /\ PeerEnd(Pos(rev, t)) \in LinkEnds
  BY <1>1 DEF LinkEnds
<1> QED
  BY <1>1, <1>2, <1>3, SubnetAssumption DEF HostEnd, PeerEnd, LinkBase, HubAddress

LEMMA LinkEndsLemma ==
  /\ Addresses \cap LinkEnds = {} /\ Subnet \cap LinkEnds = {}
  /\ HubAddress \in Subnet /\ Subnet \subseteq Addresses
  /\ Endpoint \notin Addresses \cup LinkEnds /\ Endpoint # HubAddress
<1>1. Subnet \cap LinkEnds = {}
  <2> SUFFICES ASSUME NEW i \in 0 .. Cardinality(Tunnels) - 1
               PROVE  HostEnd(i) \notin Subnet /\ PeerEnd(i) \notin Subnet
    BY DEF LinkEnds
  <2>1. Cardinality(Tunnels) \in Nat
    BY FS_CardinalityType, IdentifiersAssumption
  <2> QED
    BY <2>1, SubnetAssumption DEF HostEnd, PeerEnd, LinkBase, Subnet
<1>2. HubAddress \in Subnet
  BY SubnetAssumption DEF HubAddress, Subnet
<1> QED
  BY <1>1, <1>2, DestinationsAssumption DEF Addresses

-----------------------------------------------------------------------------
(* What the plan says of a device.                                         *)

MarkFor(rev, e) == IF e = Direct THEN DirectMark ELSE DirectMark + 1 + Pos(rev, e)
ResolverFor(rev, e) == IF e = Direct THEN HubAddress ELSE HostEnd(Pos(rev, e))

\* An address stands for one device.
LEMMA ClientsLemma ==
  ASSUME NEW rev, Deployable(rev), NEW d \in DOMAIN rev.devices
  PROVE  /\ \A e : rev.devices[d].address \in Grouped(rev, e) <=> rev.devices[d].egress = e
         /\ \A t : rev.devices[d].address \in PermittedClients(rev, t) <=> MayUse(rev.tunnels[t], d)
<1>1. \A f \in DOMAIN rev.devices : rev.devices[f].address = rev.devices[d].address => f = d
  BY DEF Deployable
<1>2. \A e : rev.devices[d].address \in Grouped(rev, e) <=> rev.devices[d].egress = e
  BY <1>1 DEF Grouped
<1>3. ASSUME NEW t
      PROVE  rev.devices[d].address \in PermittedClients(rev, t) <=> MayUse(rev.tunnels[t], d)
  <2> DEFINE Admitted(f) == MayUse(rev.tunnels[t], f)
  <2>1. PermittedClients(rev, t) =
          {rev.devices[f].address : f \in {f \in DOMAIN rev.devices : Admitted(f)}}
    BY DEF PermittedClients
  <2> HIDE DEF Admitted
  <2>2. rev.devices[d].address \in PermittedClients(rev, t) <=> Admitted(d)
    BY <1>1, <2>1
  <2> QED
    BY <2>2 DEF Admitted
<1> QED
  BY <1>2, <1>3

\* The group of a device is the one its address is in.
LEMMA GroupOfLemma ==
  ASSUME NEW rev, Deployable(rev), NEW d \in DOMAIN rev.devices
  PROVE  LET address == rev.devices[d].address
             egress == rev.devices[d].egress
         IN  /\ \E g \in Plan(rev).groups : g.id = egress /\ address \in g.addresses
             /\ \A g \in Plan(rev).groups :
                  /\ address \in g.addresses <=> g.id = egress
                  /\ g.addresses = Grouped(rev, g.id)
                  /\ g.mark = MarkFor(rev, g.id)
                  /\ g.id \in DOMAIN rev.tunnels \cup {Direct}
                  /\ g.contained => g.id \in Contained
<1> DEFINE address == rev.devices[d].address
           egress == rev.devices[d].egress
<1>1. /\ TunnelEgresses(rev) = DOMAIN rev.tunnels \ Private
      /\ Direct \notin DOMAIN rev.tunnels
  BY EgressesLemma
<1>2. \A e : address \in Grouped(rev, e) <=> egress = e
  BY ClientsLemma
<1>3. ASSUME NEW g \in Plan(rev).groups
      PROVE  /\ g.addresses = Grouped(rev, g.id)
             /\ g.mark = MarkFor(rev, g.id)
             /\ g.id \in DOMAIN rev.tunnels \cup {Direct}
             /\ g.contained => g.id \in Contained
  <2>1. CASE g.id \in TunnelEgresses(rev) /\ g = GroupFor(rev, g.id)
    <3>1. g.id # Direct /\ g.id \in DOMAIN rev.tunnels
      BY <1>1, <2>1
    <3>2. g.addresses = Grouped(rev, g.id) /\ g.mark = MarkFor(rev, g.id)
      BY <2>1, <3>1 DEF GroupFor, MarkFor
    <3>3. \A t : GroupFor(rev, t).contained = (t \in Contained)
      BY DEF GroupFor
    <3>4. g.contained = (g.id \in Contained)
      BY <2>1, <3>3, Zenon
    <3> QED
      BY <3>1, <3>2, <3>4
  <2>2. CASE g = DirectGroup(rev)
    BY <2>2 DEF DirectGroup, MarkFor
  <2> QED
    BY <2>1, <2>2, GroupsLemma
<1>4. \E g \in Plan(rev).groups : g.id = egress
  <2>1. egress = Direct \/ egress \in TunnelEgresses(rev)
    BY <1>1 DEF Deployable
  <2>2. CASE egress = Direct
    <3>1. DirectGroup(rev).addresses # {} /\ DirectGroup(rev).id = Direct
      BY <1>2, <2>2 DEF DirectGroup
    <3> QED
      BY <2>2, <3>1, GroupsLemma
  <2>3. CASE egress \in TunnelEgresses(rev)
    <3>1. GroupFor(rev, egress).id = egress
      BY DEF GroupFor
    <3> QED
      BY <2>3, <3>1, GroupsLemma
  <2> QED
    BY <2>1, <2>2, <2>3
<1>5. \A g \in Plan(rev).groups : address \in g.addresses <=> g.id = egress
  BY <1>2, <1>3
<1> HIDE DEF address, egress
<1>6. \E g \in Plan(rev).groups : g.id = egress /\ address \in g.addresses
  BY <1>4, <1>5
<1> QED
  BY <1>3, <1>5, <1>6 DEF address, egress

\* A query is answered for the egress of its device, whoever shares it.
LEMMA ResolverLemma ==
  ASSUME NEW rev, Deployable(rev), NEW d \in DOMAIN rev.devices
  PROVE  LET own == DNSDestinationsFor(Plan(rev), rev.devices[d].address)
         IN  /\ own # {}
             /\ \A r \in own : r.resolver = ResolverFor(rev, rev.devices[d].egress)
<1> DEFINE plan == Plan(rev)
           address == rev.devices[d].address
           egress == rev.devices[d].egress
           own == DNSDestinationsFor(plan, address)
           Resolver(g) == IF g.id = Direct THEN HubAddress
                          ELSE HostEnd(Rank(g.id, TunnelEgresses(rev)))
<1>1. plan.destinations =
        {[clients |-> g.addresses, resolver |-> Resolver(g)] : g \in {g \in plan.groups : g.addresses # {}}}
  <2>1. plan.destinations = DNSDestinations(plan.groups)
    BY DEF Plan, BuildFirewallPlan
  <2>2. {g.id : g \in plan.groups} \ {Direct} = TunnelEgresses(rev)
    BY GroupsLemma
  <2> HIDE DEF plan
  <2> QED
    BY <2>1, <2>2 DEF DNSDestinations
<1>2. /\ \E g \in plan.groups : g.id = egress /\ address \in g.addresses
      /\ \A g \in plan.groups : address \in g.addresses <=> g.id = egress
  BY GroupOfLemma
<1>3. own = {r \in plan.destinations : \E g \in plan.groups : address \in g.addresses /\ r.clients = g.addresses}
  BY DEF DNSDestinationsFor
<1>4. \A g \in plan.groups : g.id = egress => Resolver(g) = ResolverFor(rev, egress)
  <2>1. egress = Direct \/ egress \in TunnelEgresses(rev)
    BY EgressesLemma DEF Deployable
  <2> QED
    BY <2>1 DEF ResolverFor, Pos
<1> HIDE DEF plan, own, Resolver, address, egress
<1>5. own # {}
  <2>1. PICK g \in plan.groups : g.id = egress /\ address \in g.addresses
    BY <1>2
  <2>2. [clients |-> g.addresses, resolver |-> Resolver(g)] \in plan.destinations
    BY <1>1, <2>1
  <2> QED
    BY <1>3, <2>1, <2>2
<1>6. \A r \in own : r.resolver = ResolverFor(rev, egress)
  <2> SUFFICES ASSUME NEW r \in own PROVE r.resolver = ResolverFor(rev, egress)
    OBVIOUS
  <2>1. PICK g \in plan.groups : r = [clients |-> g.addresses, resolver |-> Resolver(g)]
    BY <1>1, <1>3
  <2>2. address \in g.addresses
    BY <1>3, <2>1
  <2> QED
    BY <1>2, <1>4, <2>1, <2>2
<1> QED
  BY <1>5, <1>6 DEF plan, own, address, egress

-----------------------------------------------------------------------------
(* Marks and routes.                                                       *)

\* What the sets of the private networks hold, learned addresses included.
Learned(rev, sets) == \A t \in PrivateNetworks(rev) : sets[t] \subseteq Addresses

\* The first of the networks that match, and the last, are among them.
LEMMA MatchingLemma ==
  ASSUME NEW rev, Deployable(rev), NEW sets, Learned(rev, sets), NEW dst,
         Matching(Plan(rev), sets, dst) # {}
  PROVE  LET networks == Matching(Plan(rev), sets, dst)
             last == CHOOSE n \in networks : \A m \in networks : m.id <= n.id
         IN  /\ \A n \in networks :
                  /\ n \in Plan(rev).internals /\ n = NetworkFor(rev, n.id)
                  /\ n.id \in DOMAIN rev.tunnels \cap Private
                  /\ n.mark = MarkFor(rev, n.id)
                  /\ dst \in sets[n.id] /\ dst \in Addresses
             /\ First(networks) \in networks
             /\ last \in networks
<1> DEFINE networks == Matching(Plan(rev), sets, dst)
           ids == {n.id : n \in networks}
<1>1. /\ PrivateNetworks(rev) = DOMAIN rev.tunnels \cap Private
      /\ DOMAIN rev.tunnels \subseteq Tunnels /\ Direct \notin DOMAIN rev.tunnels
  BY EgressesLemma
<1>2. ASSUME NEW n \in networks
      PROVE  /\ n \in Plan(rev).internals /\ n = NetworkFor(rev, n.id)
             /\ n.id \in DOMAIN rev.tunnels \cap Private
             /\ n.mark = MarkFor(rev, n.id)
             /\ dst \in sets[n.id] /\ dst \in Addresses
  <2>1. n \in Plan(rev).internals /\ dst \in sets[n.id]
    BY DEF Matching
  <2>2. n.id \in PrivateNetworks(rev) /\ n = NetworkFor(rev, n.id)
    BY <2>1, NetworksLemma
  <2>3. n.id # Direct
    BY <1>1, <2>2
  <2>4. NetworkFor(rev, n.id).mark = MarkFor(rev, n.id)
    BY <2>3 DEF NetworkFor, MarkFor
  <2>5. dst \in Addresses
    BY <2>1, <2>2 DEF Learned
  <2> QED
    BY <1>1, <2>1, <2>2, <2>4, <2>5
<1> HIDE DEF networks
<1>3. ids \subseteq Nat /\ IsFiniteSet(ids) /\ ids # {}
  <2>1. ids \subseteq Tunnels
    BY <1>1, <1>2
  <2>2. ids # {}
    BY DEF networks
  <2> QED
    BY <2>1, <2>2, FS_Subset, IdentifiersAssumption
<1>4. First(networks) \in networks
  <2>1. \E x \in ids : \A y \in ids : x <= y
    <3> HIDE DEF ids
    <3> QED
      BY <1>3, LeastLemma
  <2>2. \E n \in networks : \A m \in networks : n.id <= m.id
    BY <2>1
  <2> QED
    BY <2>2 DEF First
<1>5. (CHOOSE n \in networks : \A m \in networks : m.id <= n.id) \in networks
  <2>1. \E x \in ids : \A y \in ids : y <= x
    <3> HIDE DEF ids
    <3> QED
      BY <1>3, GreatestLemma
  <2>2. \E n \in networks : \A m \in networks : m.id <= n.id
    BY <2>1
  <2> QED
    BY <2>2
<1> QED
  BY <1>2, <1>4, <1>5 DEF networks

\* A packet of a device is marked for a network, left to the clients, or for its egress.
LEMMA ArrivalLemma ==
  ASSUME NEW rev, Deployable(rev), NEW sets, NEW d \in DOMAIN rev.devices,
         NEW p, p.in = Ingress, p.src = rev.devices[d].address
  PROVE  LET networks == Matching(Plan(rev), sets, p.dst)
             mark == MarkOnArrival(Plan(rev), sets, p)
         IN  /\ networks # {} => mark = First(networks).mark
             /\ networks = {} /\ p.dst \in Subnet => mark = 0
             /\ networks = {} /\ p.dst \notin Subnet => mark = MarkFor(rev, rev.devices[d].egress)
<1> DEFINE networks == Matching(Plan(rev), sets, p.dst)
           mark == MarkOnArrival(Plan(rev), sets, p)
           groups == {g \in Plan(rev).groups : p.src \in g.addresses}
           egress == rev.devices[d].egress
<1>1. /\ networks # {} => mark = First(networks).mark
      /\ networks = {} /\ p.dst \in Subnet => mark = 0
      /\ networks = {} /\ p.dst \notin Subnet =>
           mark = IF groups = {} THEN 0 ELSE (CHOOSE g \in groups : TRUE).mark
  <2>1. p.in = Ingress
    OBVIOUS
  <2> QED
    BY <2>1, Zenon DEF MarkOnArrival
<1>2. groups # {} /\ \A g \in groups : g.mark = MarkFor(rev, egress)
  BY GroupOfLemma
<1>3. (CHOOSE g \in groups : TRUE) \in groups
  <2> HIDE DEF groups
  <2> QED
    BY <1>2
<1> HIDE DEF networks, mark, groups, egress
<1>4. groups # {} => (CHOOSE g \in groups : TRUE).mark = MarkFor(rev, egress)
  BY <1>2, <1>3
<1>5. networks = {} /\ p.dst \notin Subnet => mark = MarkFor(rev, egress)
  BY <1>1, <1>2, <1>4
<1> QED
  BY <1>1, <1>5 DEF networks, mark, groups, egress

\* The routing of the hub once the namespaces of `up` stand.
Net(rev, up) == Converged(Specs(rev), up)
IsLocal(rev, up, dst) ==
  dst \in {HubAddress, Endpoint} \/ \E t \in up : dst = HostEnd(Pos(rev, t))

LEMMA NetLemma ==
  ASSUME NEW rev, Deployable(rev), NEW up \in SUBSET DOMAIN rev.tunnels
  PROVE  /\ Net(rev, up).links = [t \in up |-> Pos(rev, t)]
         /\ Net(rev, up).rules =
              {<<DirectMark + 1 + Pos(rev, t), 100 + Pos(rev, t)>> : t \in DOMAIN rev.tunnels}
         /\ DOMAIN Net(rev, up).routes = {100 + Pos(rev, t) : t \in up}
         /\ \A t \in up : Net(rev, up).routes[100 + Pos(rev, t)] = t
<1> DEFINE specs == Specs(rev)
           standing == {s \in specs : s.id \in up}
<1>1. /\ specs = {SpecFor(rev, t) : t \in DOMAIN rev.tunnels}
      /\ \A t \in DOMAIN rev.tunnels : SpecOf(specs, t) = SpecFor(rev, t)
  BY SpecsLemma
<1>2. /\ \A t \in DOMAIN rev.tunnels : Pos(rev, t) \in Nat
      /\ \A t, u \in DOMAIN rev.tunnels : Pos(rev, t) = Pos(rev, u) => t = u
  BY PosLemma
<1>3. \A t : /\ SpecFor(rev, t).id = t /\ SpecFor(rev, t).table = 100 + Pos(rev, t)
             /\ SpecFor(rev, t).mark = DirectMark + 1 + Pos(rev, t)
  BY DEF SpecFor
<1> HIDE DEF specs
<1>4. standing = {SpecFor(rev, t) : t \in up}
  BY <1>1, <1>3
<1>5. {s.id : s \in standing} = up
  BY <1>3, <1>4
<1>6. {s.table : s \in standing} = {100 + Pos(rev, t) : t \in up}
  BY <1>3, <1>4
<1>7. {<<s.mark, s.table>> : s \in specs} =
        {<<DirectMark + 1 + Pos(rev, t), 100 + Pos(rev, t)>> : t \in DOMAIN rev.tunnels}
  BY <1>1, <1>3
<1>8. ASSUME NEW t \in up
      PROVE  (CHOOSE s \in standing : s.table = 100 + Pos(rev, t)).id = t
  <2>1. SpecFor(rev, t) \in standing /\ SpecFor(rev, t).table = 100 + Pos(rev, t)
    BY <1>3, <1>4
  <2>2. \A s \in standing : s.table = 100 + Pos(rev, t) => s.id = t
    BY <1>2, <1>3, <1>4
  <2> HIDE DEF standing
  <2> QED
    BY <2>1, <2>2
<1>9. \A t \in up : SpecOf(specs, t).table - 100 = Pos(rev, t)
  BY <1>1, <1>2, <1>3
<1> HIDE DEF standing
<1>10. Net(rev, up) =
         [links |-> [t \in {s.id : s \in standing} |-> SpecOf(specs, t).table - 100],
          rules |-> {<<s.mark, s.table>> : s \in specs},
          routes |-> [r \in {s.table : s \in standing} |->
                        (CHOOSE s \in standing : s.table = r).id]]
  BY DEF Net, Converged, specs, standing
<1>11. /\ Net(rev, up).links = [t \in {s.id : s \in standing} |-> SpecOf(specs, t).table - 100]
       /\ Net(rev, up).rules = {<<s.mark, s.table>> : s \in specs}
       /\ Net(rev, up).routes = [r \in {s.table : s \in standing} |->
                                   (CHOOSE s \in standing : s.table = r).id]
  BY <1>10
<1>12. Net(rev, up).links = [t \in up |-> Pos(rev, t)]
  BY <1>5, <1>9, <1>11
<1>13. DOMAIN Net(rev, up).routes = {100 + Pos(rev, t) : t \in up}
  BY <1>6, <1>11
<1>14. \A t \in up : Net(rev, up).routes[100 + Pos(rev, t)] = t
  <2> SUFFICES ASSUME NEW t \in up PROVE Net(rev, up).routes[100 + Pos(rev, t)] = t
    OBVIOUS
  <2>1. 100 + Pos(rev, t) \in {s.table : s \in standing}
    BY <1>6
  <2> QED
    BY <1>8, <1>11, <2>1
<1> QED
  BY <1>7, <1>11, <1>12, <1>13, <1>14

\* The main table: the clients, a standing link, the provider.
ByMain(rev, up, dst, out) ==
  \/ dst \in Subnet /\ out = Ingress
  \/ dst \notin Subnet /\ out \in up /\ dst = PeerEnd(Pos(rev, out))
  \/ dst \notin Subnet /\ out = Uplink /\ \A t \in up : dst # PeerEnd(Pos(rev, t))

LEMMA RouteLemma ==
  ASSUME NEW rev, Deployable(rev), NEW up \in SUBSET DOMAIN rev.tunnels, NEW mark, NEW dst
  PROVE  LET out == RouteOf(Net(rev, up), Endpoint, mark, dst)
         IN  /\ IsLocal(rev, up, dst) => out = Local
             /\ ~IsLocal(rev, up, dst) =>
                  /\ \A t \in up : mark = MarkFor(rev, t) => out = t
                  /\ (\A t \in up : mark # MarkFor(rev, t)) => ByMain(rev, up, dst, out)
<1> DEFINE net == Net(rev, up)
           used == {r \in net.rules : r[1] = mark /\ r[2] \in DOMAIN net.routes}
           ways == {net.routes[r[2]] : r \in used}
           links == {t \in DOMAIN net.links : dst = PeerEnd(net.links[t])}
           main == IF dst \in Subnet THEN Ingress
                   ELSE IF links # {} THEN CHOOSE t \in links : TRUE
                   ELSE Uplink
           out == RouteOf(net, Endpoint, mark, dst)
<1>1. /\ net.links = [t \in up |-> Pos(rev, t)]
      /\ net.rules = {<<DirectMark + 1 + Pos(rev, t), 100 + Pos(rev, t)>> : t \in DOMAIN rev.tunnels}
      /\ DOMAIN net.routes = {100 + Pos(rev, t) : t \in up}
      /\ \A t \in up : net.routes[100 + Pos(rev, t)] = t
  BY NetLemma
<1>2. /\ \A t \in DOMAIN rev.tunnels : Pos(rev, t) \in Nat
      /\ \A t, u \in DOMAIN rev.tunnels : Pos(rev, t) = Pos(rev, u) => t = u
  BY PosLemma
<1>3. \A t \in DOMAIN rev.tunnels : MarkFor(rev, t) = DirectMark + 1 + Pos(rev, t)
  BY EgressesLemma DEF MarkFor
<1>4. LocalAddresses(net, Endpoint) = {HubAddress, Endpoint} \cup {HostEnd(Pos(rev, t)) : t \in up}
  BY <1>1 DEF LocalAddresses
<1>5. IsLocal(rev, up, dst) <=> dst \in LocalAddresses(net, Endpoint)
  BY <1>4 DEF IsLocal
<1>6. out = CASE dst \in LocalAddresses(net, Endpoint) -> Local
              [] dst \notin LocalAddresses(net, Endpoint) /\ ways # {} -> CHOOSE w \in ways : TRUE
              [] OTHER -> main
  BY Zenon DEF RouteOf
<1>7. /\ \A t \in up : mark = MarkFor(rev, t) => ways = {t}
      /\ (\A t \in up : mark # MarkFor(rev, t)) => ways = {}
  <2>1. \A r \in used : \E t \in up : /\ r = <<DirectMark + 1 + Pos(rev, t), 100 + Pos(rev, t)>>
                                      /\ mark = MarkFor(rev, t)
    <3> SUFFICES ASSUME NEW r \in used
                 PROVE  \E t \in up : /\ r = <<DirectMark + 1 + Pos(rev, t), 100 + Pos(rev, t)>>
                                      /\ mark = MarkFor(rev, t)
      OBVIOUS
    <3>1. PICK t \in DOMAIN rev.tunnels : r = <<DirectMark + 1 + Pos(rev, t), 100 + Pos(rev, t)>>
      BY <1>1
    <3>2. PICK u \in up : r[2] = 100 + Pos(rev, u)
      BY <1>1
    <3>3. t = u
      BY <1>2, <3>1, <3>2
    <3> QED
      BY <1>3, <3>1, <3>3
  <2>2. \A t \in up : mark = MarkFor(rev, t) =>
          <<DirectMark + 1 + Pos(rev, t), 100 + Pos(rev, t)>> \in used
    BY <1>1, <1>3
  <2>3. \A t, u \in up : MarkFor(rev, t) = MarkFor(rev, u) => t = u
    BY <1>2, <1>3 DEF DirectMark
  <2> HIDE DEF used
  <2>4. ASSUME NEW t \in up, mark = MarkFor(rev, t) PROVE ways = {t}
    <3>1. \A r \in used : r = <<DirectMark + 1 + Pos(rev, t), 100 + Pos(rev, t)>>
      BY <2>1, <2>3, <2>4
    <3>2. <<DirectMark + 1 + Pos(rev, t), 100 + Pos(rev, t)>> \in used
      BY <2>2, <2>4
    <3> QED
      BY <1>1, <3>1, <3>2
  <2>5. (\A t \in up : mark # MarkFor(rev, t)) => used = {}
    BY <2>1
  <2> QED
    BY <2>4, <2>5
<1>8. ByMain(rev, up, dst, main)
  <2>1. links = {t \in up : dst = PeerEnd(Pos(rev, t))}
    BY <1>1
  <2> HIDE DEF links
  <2>2. links # {} => (CHOOSE t \in links : TRUE) \in links
    OBVIOUS
  <2> QED
    BY <2>1, <2>2 DEF ByMain
<1> HIDE DEF net, used, ways, links, main, out
<1>9. IsLocal(rev, up, dst) => out = Local
  BY <1>5, <1>6
<1>10. ASSUME ~IsLocal(rev, up, dst), NEW t \in up, mark = MarkFor(rev, t) PROVE out = t
  <2>1. ways = {t}
    BY <1>7, <1>10
  <2> QED
    BY <1>5, <1>6, <1>10, <2>1
<1>11. ASSUME ~IsLocal(rev, up, dst), \A t \in up : mark # MarkFor(rev, t)
       PROVE  ByMain(rev, up, dst, out)
  <2>1. ways = {}
    BY <1>7, <1>11
  <2>2. out = main
    BY <1>5, <1>6, <1>11, <2>1
  <2> QED
    BY <1>8, <2>2
<1> QED
  BY <1>9, <1>10, <1>11 DEF net, out

\* Marks are apart: a mark is of one tunnel, of the uplink, or none.
LEMMA MarksLemma ==
  ASSUME NEW rev, Deployable(rev), NEW t \in DOMAIN rev.tunnels
  PROVE  /\ MarkFor(rev, t) # 0 /\ MarkFor(rev, t) # DirectMark /\ MarkFor(rev, t) # MarkFor(rev, Direct)
         /\ \A u \in DOMAIN rev.tunnels : MarkFor(rev, t) = MarkFor(rev, u) => t = u
<1>1. \A u \in DOMAIN rev.tunnels : MarkFor(rev, u) = DirectMark + 1 + Pos(rev, u) /\ Pos(rev, u) \in Nat
  BY EgressesLemma, PosLemma DEF MarkFor
<1>2. MarkFor(rev, Direct) = DirectMark
  BY DEF MarkFor
<1> QED
  BY <1>1, <1>2, PosLemma DEF DirectMark

-----------------------------------------------------------------------------
(* The host a deployable revision compiles to.                             *)

\* What the steps keep of a configuration.
WellFormed(cfg) == IsConfiguration(cfg) /\ WithinAddresses(cfg) /\ Validate(cfg)
HubInv ==
  /\ WellFormed(config)
  /\ revoked \subseteq Devices
  /\ keyed \in BOOLEAN
  /\ edits \in 0 .. MaxEdits

Deployed == WithFallback(Revision, keyed)

LEMMA DeployedLemma ==
  ASSUME HubInv
  PROVE  /\ DOMAIN Deployed.devices = DOMAIN config.devices \ revoked
         /\ \A d \in DOMAIN Deployed.devices : Deployed.devices[d] = config.devices[d]
         /\ DOMAIN Deployed.tunnels = {t \in DOMAIN config.tunnels : Enabled(config, t)}
         /\ \A t \in DOMAIN Deployed.tunnels : Deployed.tunnels[t] = config.tunnels[t]
         /\ Deployed.acls = config.acls
         /\ DOMAIN Revision.devices = DOMAIN Deployed.devices
         /\ Deployed.hub.reality = (config.hub.reality /\ keyed)
<1> DEFINE left == RemoveRevoked(config, revoked)
<1>1. IsConfiguration(config)
  BY DEF HubInv, WellFormed
<1>2. /\ DOMAIN left = {"hub", "devices", "tunnels", "acls"}
      /\ left.devices = Only(config.devices, Devices \ revoked)
      /\ left.tunnels = config.tunnels /\ left.acls = config.acls /\ left.hub = config.hub
  BY <1>1 DEF RemoveRevoked, IsConfiguration
<1>3. \A t \in DOMAIN config.tunnels : Enabled(left, t) = Enabled(config, t)
  BY <1>2 DEF Enabled
<1> HIDE DEF left
<1>4. /\ DOMAIN Revision = {"hub", "devices", "tunnels", "acls"}
      /\ Revision.tunnels = Only(left.tunnels, {t \in Tunnels : Enabled(left, t)})
      /\ Revision.devices = left.devices /\ Revision.acls = left.acls /\ Revision.hub = left.hub
  BY <1>2 DEF Revision, BuildDesiredState, left
<1>5. /\ Deployed.devices = Revision.devices /\ Deployed.tunnels = Revision.tunnels
      /\ Deployed.acls = Revision.acls
      /\ Deployed.hub.reality = (config.hub.reality /\ keyed)
  BY <1>1, <1>2, <1>4 DEF Deployed, WithFallback, IsConfiguration, HubFields
<1>6. /\ DOMAIN Deployed.devices = DOMAIN config.devices \ revoked
      /\ \A d \in DOMAIN Deployed.devices : Deployed.devices[d] = config.devices[d]
  BY <1>1, <1>2, <1>4, <1>5 DEF Only, IsConfiguration
<1>7. /\ DOMAIN Deployed.tunnels = {t \in DOMAIN config.tunnels : Enabled(config, t)}
      /\ \A t \in DOMAIN Deployed.tunnels : Deployed.tunnels[t] = config.tunnels[t]
  BY <1>1, <1>2, <1>3, <1>4, <1>5 DEF Only, IsConfiguration
<1> QED
  BY <1>2, <1>4, <1>5, <1>6, <1>7

\* The validation of the configuration is what compiling asks of the revision: the egress a
\* device chose is enabled, so it is still there.
LEMMA DeployableLemma ==
  ASSUME HubInv
  PROVE  /\ Deployable(Deployed)
         /\ \A d \in DOMAIN Deployed.devices :
              Deployed.devices[d].egress # Direct =>
                MayUse(Deployed.tunnels[Deployed.devices[d].egress], d)
<1>1. /\ DOMAIN Deployed.devices = DOMAIN config.devices \ revoked
      /\ \A d \in DOMAIN Deployed.devices : Deployed.devices[d] = config.devices[d]
      /\ DOMAIN Deployed.tunnels = {t \in DOMAIN config.tunnels : Enabled(config, t)}
      /\ \A t \in DOMAIN Deployed.tunnels : Deployed.tunnels[t] = config.tunnels[t]
  BY DeployedLemma
<1>2. /\ IsConfiguration(config) /\ WithinAddresses(config)
      /\ ValidDevices(config.devices)
      /\ \A d \in DOMAIN config.devices : ValidEgress(config, d)
  BY DEF HubInv, WellFormed, Validate
<1>3. ASSUME NEW d \in DOMAIN Deployed.devices
      PROVE  /\ UsableAddress(Deployed.devices[d].address)
             /\ LET egress == Deployed.devices[d].egress
                IN  \/ egress = Direct
                    \/ egress \in DOMAIN Deployed.tunnels \ Private /\ MayUse(Deployed.tunnels[egress], d)
  <2> DEFINE egress == config.devices[d].egress
  <2>1. ValidEgress(config, d) /\ UsableAddress(config.devices[d].address)
    BY <1>1, <1>2 DEF ValidDevices
  <2>2. \/ egress = Direct
        \/ /\ egress \in DOMAIN config.tunnels \ Private
           /\ Enabled(config, egress)
           /\ MayUse(config.tunnels[egress], d)
    BY <2>1 DEF ValidEgress
  <2> QED
    BY <1>1, <2>1, <2>2
<1>4. \A d, e \in DOMAIN Deployed.devices :
        d # e => Deployed.devices[d].address # Deployed.devices[e].address
  BY <1>1, <1>2 DEF ValidDevices
<1>5. /\ DOMAIN Deployed.devices \subseteq Devices /\ DOMAIN Deployed.tunnels \subseteq Tunnels
  BY <1>1, <1>2 DEF IsConfiguration
<1>6. WithinAddresses(Deployed)
  BY <1>1, <1>2 DEF WithinAddresses
<1> QED
  BY <1>3, <1>4, <1>5, <1>6, DirectAssumption DEF Deployable

LEMMA HostLemma ==
  /\ Host.firewall = Plan(Deployed) /\ Host.specs = Specs(Deployed)
  /\ Host.socks = Socks(Deployed)
  /\ Host.dns = BuildDNSPlan(Plan(Deployed), Specs(Deployed))
  /\ Host.users = BuildRealityUsers(Deployed, Plan(Deployed))
<1> DEFINE rev == Deployed
           plan == Plan(rev)
           specs == Specs(rev)
<1>1. Host = [firewall |-> plan, specs |-> specs, socks |-> SocksEndpoints(plan, specs),
              dns |-> BuildDNSPlan(plan, specs), peers |-> BuildIngressPeers(rev),
              users |-> BuildRealityUsers(rev, plan)]
  BY DEF Host, Compile, Deployed, Plan, Specs
<1>2. Socks(rev) = SocksEndpoints(plan, specs)
  BY DEF Socks
<1> HIDE DEF rev, plan, specs
<1>3. /\ Host.firewall = plan /\ Host.specs = specs /\ Host.socks = SocksEndpoints(plan, specs)
      /\ Host.dns = BuildDNSPlan(plan, specs) /\ Host.users = BuildRealityUsers(rev, plan)
  BY <1>1
<1> QED
  BY <1>2, <1>3 DEF rev, plan, specs

\* Whichever namespaces stand and whatever split DNS has learned.
LEMMA ConditionsLemma ==
  ASSUME HubInv, NEW c \in Conditions(Host)
  PROVE  /\ c.up \in SUBSET DOMAIN Deployed.tunnels
         /\ NetIn(Host, c) = Net(Deployed, c.up)
         /\ Learned(Deployed, SetsIn(Host, c))
<1>1. Deployable(Deployed) /\ Host.firewall = Plan(Deployed) /\ Host.specs = Specs(Deployed)
  BY DeployableLemma, HostLemma
<1>2. Ids(Host) = DOMAIN Deployed.tunnels
  <2>1. Ids([specs |-> Specs(Deployed)]) = DOMAIN Deployed.tunnels
    BY <1>1, SpecsLemma
  <2> QED
    BY <1>1, <2>1 DEF Ids
<1>3. c.up \in SUBSET DOMAIN Deployed.tunnels
  BY <1>2 DEF Conditions
<1>4. NetIn(Host, c) = Net(Deployed, c.up)
  BY <1>1 DEF NetIn, Net
<1>5. ASSUME NEW t \in PrivateNetworks(Deployed)
      PROVE  SetsIn(Host, c)[t] \subseteq Addresses
  <2> DEFINE plan == Plan(Deployed)
  <2>1. NetworkFor(Deployed, t) \in plan.internals /\ NetworkFor(Deployed, t).id = t
    BY <1>1, NetworksLemma DEF NetworkFor
  <2>2. \A n \in plan.internals : n.id = t => n = NetworkFor(Deployed, t)
    BY <1>1, NetworksLemma
  <2>3. {n.id : n \in plan.internals} = PrivateNetworks(Deployed)
    BY <1>1, NetworksLemma
  <2> HIDE DEF plan
  <2>4. (CHOOSE n \in plan.internals : n.id = t) = NetworkFor(Deployed, t)
    BY <2>1, <2>2
  <2>5. t \in DOMAIN StaticSets(plan) /\ StaticSets(plan)[t] = NetworkFor(Deployed, t).set
    BY <2>3, <2>4 DEF StaticSets
  <2>6. NetworkFor(Deployed, t).set =
          (UNION Deployed.tunnels[t].routes) \cup UncoveredResolvers(Deployed.tunnels[t])
    BY DEF NetworkFor
  <2>7. NetworkFor(Deployed, t).set \subseteq Addresses
    <3>1. /\ Deployed.tunnels[t].routes \subseteq SUBSET Addresses
          /\ Deployed.tunnels[t].servers \subseteq Addresses
      BY <1>1 DEF Deployable, WithinAddresses, PrivateNetworks
    <3>2. UNION Deployed.tunnels[t].routes \subseteq Addresses
      BY <3>1
    <3>3. UncoveredResolvers(Deployed.tunnels[t]) \subseteq Addresses
      BY <3>1 DEF UncoveredResolvers
    <3> QED
      BY <2>6, <3>2, <3>3
  <2>8. Destinations \subseteq Addresses
    BY DEF Addresses
  <2>9. Host.firewall = plan
    BY <1>1 DEF plan
  <2>10. SetsIn(Host, c)[t] = StaticSets(plan)[t] \cup (IF t = c.learner THEN Destinations ELSE {})
    BY <2>5, <2>9 DEF SetsIn
  <2> QED
    BY <2>5, <2>7, <2>8, <2>10
<1> QED
  BY <1>3, <1>4, <1>5 DEF Learned

\* A new connection ends up on the hub, on the way its mark chose, or nowhere.
LEMMA DeliveryLemma ==
  ASSUME NEW plan, NEW socks, NEW sets, NEW net, NEW endpoint, NEW p, p.new = TRUE
  PROVE  LET mark == MarkOnArrival(plan, sets, p)
             dst == Redirected(plan, socks, p)
             out == RouteOf(net, endpoint, mark, dst)
             fate == Delivery(plan, socks, sets, net, endpoint, p)
         IN  /\ out = Local => fate = IF InputAccepts(plan, p, mark, dst) THEN Local ELSE Dropped
             /\ out # Local => fate = IF ForwardAccepts(plan, sets, socks, p, dst, out) THEN out ELSE Dropped
<1> DEFINE mark == MarkOnArrival(plan, sets, p)
           dst == Redirected(plan, socks, p)
           out == RouteOf(net, endpoint, mark, dst)
           kept == IF out = Local THEN InputAccepts(plan, p, mark, dst)
                   ELSE ForwardAccepts(plan, sets, socks, p, dst, out)
<1>1. (IF p.new THEN dst ELSE p.dst) = dst
  OBVIOUS
<1>2. Delivery(plan, socks, sets, net, endpoint, p) = IF kept THEN out ELSE Dropped
  BY <1>1, Zenon DEF Delivery
<1>3. CASE out = Local
  <2>1. kept <=> InputAccepts(plan, p, mark, dst)
    BY <1>3, Zenon
  <2> HIDE DEF kept
  <2> QED
    BY <1>2, <1>3, <2>1, Zenon
<1>4. CASE out # Local
  <2>1. kept <=> ForwardAccepts(plan, sets, socks, p, dst, out)
    BY <1>4, Zenon
  <2> HIDE DEF kept
  <2> QED
    BY <1>2, <1>4, <2>1, Zenon
<1> QED
  BY <1>3, <1>4, Zenon

\* What lets a new connection through the hub: a rule between clients, what a device may
\* use, a namespace on its way to the provider.
Opened(plan, p, dst, out) == p.in = Ingress /\ out = Ingress /\ ACLAccepts(plan, p, dst)
Served(plan, sets, socks, p, dst, out) ==
  /\ p.in = Ingress /\ out # Ingress
  /\ ~(p.proto = "tcp" /\ p.port = 853)
  /\ \/ \E n \in plan.internals : p.src \in n.clients /\ dst \in sets[n.id] /\ out = n.id
     \/ \E g \in plan.groups : p.src \in g.addresses /\ out = LinkOf(g.id)
     \/ \E s \in socks : p.src \in s.clients /\ out = s.id /\ p.proto = "tcp" /\ p.port = s.port
Carried(plan, p, out) ==
  out = Uplink /\ \E g \in plan.groups \cup plan.internals : g.contained /\ p.in = LinkOf(g.id)

LEMMA ForwardLemma ==
  ASSUME NEW plan, NEW sets, NEW socks, NEW p, p.new = TRUE, NEW dst, NEW out
  PROVE  ForwardAccepts(plan, sets, socks, p, dst, out) <=>
           \/ Opened(plan, p, dst, out)
           \/ Served(plan, sets, socks, p, dst, out)
           \/ Carried(plan, p, out)
<1>1. ~(~p.new)
  OBVIOUS
<1> QED
  BY <1>1, Zenon DEF ForwardAccepts, Opened, Served, Carried

\* Nobody but a namespace that runs its process forwards to the provider.
LEMMA ContainedLemma ==
  ASSUME NEW rev, Deployable(rev), NEW in,
         NEW g \in Plan(rev).groups \cup Plan(rev).internals, g.contained, in = LinkOf(g.id)
  PROVE  in = g.id /\ in \in Tunnels /\ in \in Contained
<1>1. CASE g \in Plan(rev).groups
  <2>1. CASE g.id \in TunnelEgresses(rev) /\ g = GroupFor(rev, g.id)
    <3>1. \A t : GroupFor(rev, t).contained = (t \in Contained)
      BY DEF GroupFor
    <3>2. g.id \in Contained
      BY <2>1, <3>1, Zenon
    <3> QED
      BY <2>1, <3>2, EgressesLemma DEF LinkOf
  <2>2. CASE g = DirectGroup(rev)
    BY <2>2 DEF DirectGroup
  <2> QED
    BY <1>1, <2>1, <2>2, GroupsLemma
<1>2. CASE g \in Plan(rev).internals
  <2>1. g.id \in PrivateNetworks(rev) /\ g = NetworkFor(rev, g.id)
    BY <1>2, NetworksLemma
  <2>2. \A t : NetworkFor(rev, t).contained = (t \in Contained)
    BY DEF NetworkFor
  <2>3. g.id \in Contained
    BY <2>1, <2>2, Zenon
  <2> QED
    BY <2>1, <2>3, EgressesLemma DEF LinkOf
<1> QED
  BY <1>1, <1>2

LEMMA OutsiderLemma ==
  ASSUME NEW rev, Deployable(rev), NEW sets, NEW net, NEW p, p.new = TRUE, p.in # Ingress
  PROVE  LET fate == Delivery(Plan(rev), Socks(rev), sets, net, Endpoint, p)
         IN  \/ fate \in {Local, Dropped}
             \/ /\ fate = Uplink /\ p.in \in Tunnels /\ p.in \in Contained
                /\ \E g \in Plan(rev).groups \cup Plan(rev).internals : g.contained
<1> DEFINE plan == Plan(rev)
           dst == Redirected(plan, Socks(rev), p)
           out == RouteOf(net, Endpoint, MarkOnArrival(plan, sets, p), dst)
           fate == Delivery(plan, Socks(rev), sets, net, Endpoint, p)
<1>1. CASE out = Local
  BY <1>1, DeliveryLemma
<1>2. CASE out # Local /\ ~ForwardAccepts(plan, sets, Socks(rev), p, dst, out)
  BY <1>2, DeliveryLemma
<1>3. CASE out # Local /\ ForwardAccepts(plan, sets, Socks(rev), p, dst, out)
  <2>1. fate = out
    BY <1>3, DeliveryLemma
  <2> HIDE DEF dst, out
  <2>2. out = Uplink /\ \E g \in plan.groups \cup plan.internals : g.contained /\ p.in = LinkOf(g.id)
    BY <1>3, ForwardLemma DEF Opened, Served, Carried
  <2>3. PICK g \in plan.groups \cup plan.internals : g.contained /\ p.in = LinkOf(g.id)
    BY <2>2
  <2> HIDE DEF fate
  <2>4. p.in \in Tunnels /\ p.in \in Contained
    BY <2>3, ContainedLemma
  <2> QED
    BY <2>1, <2>2, <2>3, <2>4 DEF fate
<1> QED
  BY <1>1, <1>2, <1>3

LEMMA ConfinedLemma == HubInv => OutsidersConfined
<1> SUFFICES ASSUME HubInv, NEW c \in Conditions(Host)
             PROVE  LET sets == SetsIn(Host, c)
                        net == NetIn(Host, c)
                        fate(p) == Delivery(Host.firewall, Host.socks, sets, net, Endpoint, p)
                    IN  /\ \A p \in Packets(Host, Uplink, Destinations, TRUE) : fate(p) \in {Local, Dropped}
                        /\ \A s \in Host.specs : \A p \in Packets(Host, s.id, {s.peer}, TRUE) :
                             /\ fate(p) \in {Uplink, Local, Dropped}
                             /\ fate(p) = Uplink =>
                                  s.id \in Contained /\ Masqueraded(Host.firewall, p.src, Uplink)
  BY Zenon DEF OutsidersConfined
<1> DEFINE sets == SetsIn(Host, c)
           net == NetIn(Host, c)
           fate(p) == Delivery(Host.firewall, Host.socks, sets, net, Endpoint, p)
<1>1. Deployable(Deployed) /\ Host.firewall = Plan(Deployed) /\ Host.specs = Specs(Deployed)
        /\ Host.socks = Socks(Deployed)
  BY DeployableLemma, HostLemma
<1>2. ASSUME NEW p, p.new = TRUE, p.in # Ingress
      PROVE  \/ fate(p) \in {Local, Dropped}
             \/ /\ fate(p) = Uplink /\ p.in \in Tunnels /\ p.in \in Contained
                /\ \E g \in Host.firewall.groups \cup Host.firewall.internals : g.contained
  BY <1>1, <1>2, OutsiderLemma
<1> HIDE DEF fate
<1>3. ASSUME NEW p \in Packets(Host, Uplink, Destinations, TRUE)
      PROVE  fate(p) \in {Local, Dropped}
  <2>1. p.new = TRUE /\ p.in = Uplink
    BY DEF Packets
  <2> QED
    BY <1>2, <2>1, FatesAssumption
<1>4. ASSUME NEW s \in Host.specs, NEW p \in Packets(Host, s.id, {s.peer}, TRUE)
      PROVE  /\ fate(p) \in {Uplink, Local, Dropped}
             /\ fate(p) = Uplink => s.id \in Contained /\ Masqueraded(Host.firewall, p.src, Uplink)
  <2>1. p.new = TRUE /\ p.in = s.id /\ p.src = s.peer
    BY DEF Packets
  <2>2. s.id \in DOMAIN Deployed.tunnels /\ s = SpecFor(Deployed, s.id)
    BY <1>1, SpecsLemma
  <2>3. s.peer = PeerEnd(Pos(Deployed, s.id))
    BY <2>2 DEF SpecFor
  <2>4. s.id \in Tunnels /\ s.peer >= LinkBase
    BY <1>1, <2>2, <2>3, LinksLemma, EgressesLemma
  <2>5. p.in # Ingress
    BY <2>1, <2>4, FatesAssumption
  <2> QED
    BY <1>2, <2>1, <2>4, <2>5, FatesAssumption DEF Masqueraded
<1> QED
  BY <1>3, <1>4 DEF fate

-----------------------------------------------------------------------------
(* Lookups.                                                                *)

LEMMA RedirectLemma ==
  ASSUME NEW rev, Deployable(rev), NEW d \in DOMAIN rev.devices,
         NEW p, p.in = Ingress, p.src = rev.devices[d].address
  PROVE  LET dst == Redirected(Plan(rev), Socks(rev), p)
         IN  /\ p.port = 53 => dst = ResolverFor(rev, rev.devices[d].egress)
             /\ p.port # 53 =>
                  \/ \E t \in DOMAIN rev.tunnels :
                       /\ p.dst = HostEnd(Pos(rev, t)) /\ dst = PeerEnd(Pos(rev, t))
                       /\ p.port = 11080 + Pos(rev, t) /\ p.proto = "tcp"
                  \/ /\ dst = p.dst
                     /\ \A t \in DOMAIN rev.tunnels :
                          ~(p.dst = HostEnd(Pos(rev, t)) /\ p.port = 11080 + Pos(rev, t) /\ p.proto = "tcp")
<1> DEFINE plan == Plan(rev)
           own == DNSDestinationsFor(plan, p.src)
           endpoint == {s \in Socks(rev) : p.dst = s.address /\ p.port = s.port /\ p.proto = "tcp"}
           chosen == CHOOSE s \in endpoint : TRUE
           dst == Redirected(plan, Socks(rev), p)
<1>1. own # {} /\ \A r \in own : r.resolver = ResolverFor(rev, rev.devices[d].egress)
  BY ResolverLemma
<1>2. p.port = 53 => dst = (CHOOSE r \in own : TRUE).resolver
  <2>1. p.in = Ingress /\ own # {}
    BY <1>1
  <2> QED
    BY <2>1, Zenon DEF Redirected
<1>3. p.port # 53 => dst = IF endpoint # {} THEN chosen.inside ELSE p.dst
  BY Zenon DEF Redirected
<1>4. \A s \in endpoint : \E t \in DOMAIN rev.tunnels : s = SocksFor(rev, t)
  BY SocksLemma
<1>5. \A t : /\ SocksFor(rev, t).address = HostEnd(Pos(rev, t)) /\ SocksFor(rev, t).port = 11080 + Pos(rev, t)
             /\ SocksFor(rev, t).inside = PeerEnd(Pos(rev, t))
  BY DEF SocksFor
<1>6. \A t \in DOMAIN rev.tunnels :
        p.dst = HostEnd(Pos(rev, t)) /\ p.port = 11080 + Pos(rev, t) /\ p.proto = "tcp" =>
          SocksFor(rev, t) \in endpoint
  BY <1>5, SocksLemma
<1>7. ASSUME endpoint # {}
      PROVE  \E t \in DOMAIN rev.tunnels :
               /\ p.dst = HostEnd(Pos(rev, t)) /\ p.port = 11080 + Pos(rev, t) /\ p.proto = "tcp"
               /\ chosen.inside = PeerEnd(Pos(rev, t))
  <2>1. chosen \in endpoint
    BY <1>7
  <2>2. p.dst = chosen.address /\ p.port = chosen.port /\ p.proto = "tcp"
    BY <2>1
  <2> HIDE DEF chosen
  <2>3. PICK t \in DOMAIN rev.tunnels : chosen = SocksFor(rev, t)
    BY <1>4, <2>1
  <2> HIDE DEF endpoint
  <2> QED
    BY <1>5, <2>2, <2>3
<1>8. CASE p.port = 53
  <2> HIDE DEF own, dst
  <2>1. (CHOOSE r \in own : TRUE) \in own
    BY <1>1
  <2>2. dst = ResolverFor(rev, rev.devices[d].egress)
    BY <1>1, <1>2, <1>8, <2>1
  <2> QED
    BY <1>8, <2>2 DEF dst
<1>9. CASE p.port # 53
  <2> HIDE DEF dst, endpoint, chosen
  <2>1. CASE endpoint # {}
    BY <1>3, <1>7, <1>9, <2>1 DEF dst
  <2>2. CASE endpoint = {}
    BY <1>3, <1>6, <1>9, <2>2 DEF dst
  <2> QED
    BY <2>1, <2>2
<1> QED
  BY <1>8, <1>9

\* Where a packet of a device goes by its mark when its destination is not the hub: to
\* the network that claimed it, by its egress, or as the main table says.
LEMMA DeviceRouteLemma ==
  ASSUME NEW rev, Deployable(rev), NEW d \in DOMAIN rev.devices,
         NEW sets, Learned(rev, sets), NEW up \in SUBSET DOMAIN rev.tunnels,
         NEW p, p.in = Ingress, p.src = rev.devices[d].address, NEW dst
  PROVE  LET networks == Matching(Plan(rev), sets, p.dst)
             egress == rev.devices[d].egress
             nearest == First(networks).id
             out == RouteOf(Net(rev, up), Endpoint, MarkOnArrival(Plan(rev), sets, p), dst)
         IN  /\ IsLocal(rev, up, dst) => out = Local
             /\ ~IsLocal(rev, up, dst) =>
                  /\ networks # {} /\ nearest \in up => out = nearest
                  /\ networks # {} /\ nearest \notin up => ByMain(rev, up, dst, out)
                  /\ networks = {} /\ p.dst \in Subnet => ByMain(rev, up, dst, out)
                  /\ networks = {} /\ p.dst \notin Subnet /\ egress \in up => out = egress
                  /\ networks = {} /\ egress \notin up => ByMain(rev, up, dst, out)
<1> DEFINE networks == Matching(Plan(rev), sets, p.dst)
           egress == rev.devices[d].egress
           nearest == First(networks).id
           mark == MarkOnArrival(Plan(rev), sets, p)
           out == RouteOf(Net(rev, up), Endpoint, mark, dst)
<1>1. /\ networks # {} => mark = First(networks).mark
      /\ networks = {} /\ p.dst \in Subnet => mark = 0
      /\ networks = {} /\ p.dst \notin Subnet => mark = MarkFor(rev, egress)
  BY ArrivalLemma
<1>2. networks # {} => First(networks).mark = MarkFor(rev, nearest) /\ nearest \in DOMAIN rev.tunnels
  BY MatchingLemma
<1>3. egress = Direct \/ egress \in DOMAIN rev.tunnels
  BY DEF Deployable
<1>4. /\ IsLocal(rev, up, dst) => out = Local
      /\ ~IsLocal(rev, up, dst) =>
           /\ \A t \in up : mark = MarkFor(rev, t) => out = t
           /\ (\A t \in up : mark # MarkFor(rev, t)) => ByMain(rev, up, dst, out)
  BY RouteLemma
<1>5. /\ \A t \in up : MarkFor(rev, t) # 0 /\ MarkFor(rev, t) # MarkFor(rev, Direct)
      /\ \A t \in up, u \in DOMAIN rev.tunnels : MarkFor(rev, t) = MarkFor(rev, u) => t = u
  BY MarksLemma
<1>6. up \subseteq DOMAIN rev.tunnels /\ Direct \notin up
  BY EgressesLemma
<1> HIDE DEF networks, egress, nearest, mark, out
<1>7. CASE IsLocal(rev, up, dst)
  BY <1>4, <1>7 DEF networks, egress, nearest, mark, out
<1>8. CASE ~IsLocal(rev, up, dst)
  <2>1. networks # {} /\ nearest \in up => out = nearest
    BY <1>1, <1>2, <1>4, <1>8
  <2>2. networks # {} /\ nearest \notin up => ByMain(rev, up, dst, out)
    BY <1>1, <1>2, <1>4, <1>5, <1>8
  <2>3. networks = {} /\ p.dst \in Subnet => ByMain(rev, up, dst, out)
    BY <1>1, <1>4, <1>5, <1>8
  <2>4. networks = {} /\ p.dst \notin Subnet /\ egress \in up => out = egress
    BY <1>1, <1>4, <1>8
  <2>5. networks = {} /\ egress \notin up => ByMain(rev, up, dst, out)
    BY <1>1, <1>3, <1>4, <1>5, <1>8
  <2> QED
    BY <1>8, <2>1, <2>2, <2>3, <2>4, <2>5 DEF networks, egress, nearest, mark, out
<1> QED
  BY <1>7, <1>8

LEMMA LocalLemma ==
  ASSUME NEW rev, Deployable(rev), NEW up \in SUBSET DOMAIN rev.tunnels
  PROVE  /\ IsLocal(rev, up, HubAddress) /\ IsLocal(rev, up, Endpoint)
         /\ \A dst \in Addresses : dst # HubAddress => ~IsLocal(rev, up, dst)
         /\ \A t \in DOMAIN rev.tunnels :
              /\ IsLocal(rev, up, HostEnd(Pos(rev, t))) <=> t \in up
              /\ ~IsLocal(rev, up, PeerEnd(Pos(rev, t)))
<1>1. /\ Addresses \cap LinkEnds = {} /\ Endpoint \notin Addresses \cup LinkEnds
  BY LinkEndsLemma
<1>2. \A t \in DOMAIN rev.tunnels :
        /\ HostEnd(Pos(rev, t)) \in LinkEnds /\ PeerEnd(Pos(rev, t)) \in LinkEnds
        /\ HostEnd(Pos(rev, t)) # HubAddress /\ PeerEnd(Pos(rev, t)) # HubAddress
        /\ \A u \in DOMAIN rev.tunnels :
             /\ HostEnd(Pos(rev, t)) # PeerEnd(Pos(rev, u))
             /\ HostEnd(Pos(rev, t)) = HostEnd(Pos(rev, u)) => t = u
  BY LinksLemma
<1> QED
  BY <1>1, <1>2 DEF IsLocal

\* A new connection of a device, as it arrives.
NewFrom(rev, d, p) == p.in = Ingress /\ p.src = rev.devices[d].address /\ p.new = TRUE

\* A query waits for nobody's resolver but its own egress's.
LEMMA LookupLemma ==
  ASSUME NEW rev, Deployable(rev), NEW d \in DOMAIN rev.devices,
         NEW sets, Learned(rev, sets), NEW up \in SUBSET DOMAIN rev.tunnels,
         NEW p, NewFrom(rev, d, p), p.port = 53
  PROVE  Delivery(Plan(rev), Socks(rev), sets, Net(rev, up), Endpoint, p)
           = IF rev.devices[d].egress \in up \cup {Direct} THEN Local ELSE Dropped
<1> DEFINE plan == Plan(rev)
           socks == Socks(rev)
           egress == rev.devices[d].egress
           mark == MarkOnArrival(plan, sets, p)
           dst == Redirected(plan, socks, p)
           out == RouteOf(Net(rev, up), Endpoint, mark, dst)
           fate == Delivery(plan, socks, sets, Net(rev, up), Endpoint, p)
           networks == Matching(plan, sets, p.dst)
           nearest == First(networks).id
           own == DNSDestinationsFor(plan, p.src)
<1>0. p.in = Ingress /\ p.src = rev.devices[d].address /\ p.new = TRUE
  BY DEF NewFrom
<1>1. /\ out = Local => fate = IF InputAccepts(plan, p, mark, dst) THEN Local ELSE Dropped
      /\ out # Local => fate = IF ForwardAccepts(plan, sets, socks, p, dst, out) THEN out ELSE Dropped
  BY <1>0, DeliveryLemma
<1>2. dst = ResolverFor(rev, egress)
  BY <1>0, RedirectLemma
<1>3. InputAccepts(plan, p, mark, dst)
  <2>1. own # {} /\ \A r \in own : r.resolver = ResolverFor(rev, egress)
    BY <1>0, ResolverLemma
  <2>2. (CHOOSE r \in own : TRUE) \in own
    <3> HIDE DEF own
    <3> QED
      BY <2>1
  <2>3. dst = (CHOOSE r \in own : TRUE).resolver
    <3> HIDE DEF own, dst
    <3> QED
      BY <1>2, <2>1, <2>2
  <2>4. p.in = Ingress /\ p.port = 53 /\ own # {}
    BY <1>0, <2>1
  <2> HIDE DEF dst
  <2> QED
    BY <2>3, <2>4, Zenon DEF InputAccepts
<1>4. egress = Direct \/ (egress \in DOMAIN rev.tunnels /\ egress \notin Private)
  BY DEF Deployable
<1>5. /\ IsLocal(rev, up, dst) => out = Local
      /\ ~IsLocal(rev, up, dst) =>
           /\ networks # {} /\ nearest \in up => out = nearest
           /\ networks # {} /\ nearest \notin up => ByMain(rev, up, dst, out)
           /\ networks = {} /\ egress \notin up => ByMain(rev, up, dst, out)
  BY <1>0, DeviceRouteLemma
<1>6. CASE egress \in up \cup {Direct}
  <2>1. egress = Direct => dst = HubAddress
    BY <1>2 DEF ResolverFor
  <2>2. egress # Direct => egress \in up /\ dst = HostEnd(Pos(rev, egress))
    BY <1>2, <1>6 DEF ResolverFor
  <2> HIDE DEF dst, egress
  <2>3. IsLocal(rev, up, dst)
    BY <1>4, <2>1, <2>2, LocalLemma
  <2> HIDE DEF out, fate
  <2>4. fate = Local
    BY <1>1, <1>3, <1>5, <2>3
  <2> QED
    BY <1>6, <2>4 DEF fate, egress, dst
<1>7. CASE egress \notin up \cup {Direct}
  <2>1. egress \in DOMAIN rev.tunnels /\ egress \notin Private /\ egress \notin up /\ egress # Direct
    BY <1>4, <1>7
  <2>2. dst = HostEnd(Pos(rev, egress))
    BY <1>2, <2>1 DEF ResolverFor
  <2>3. \A g \in plan.groups : p.src \in g.addresses => g.id = egress
    BY <1>0, GroupOfLemma
  <2>4. \A n \in plan.internals : n.id \in PrivateNetworks(rev)
    BY NetworksLemma
  <2>5. \A s \in socks : p.port # s.port
    <3> SUFFICES ASSUME NEW s \in socks PROVE s.port # 53
      OBVIOUS
    <3>1. PICK t \in DOMAIN rev.tunnels : s = SocksFor(rev, t)
      BY SocksLemma
    <3>2. s.port = 11080 + Pos(rev, t) /\ Pos(rev, t) \in Nat
      BY <3>1, PosLemma DEF SocksFor
    <3> QED
      BY <3>2
  <2>6. networks # {} => nearest \in DOMAIN rev.tunnels \cap Private
    BY MatchingLemma
  <2>7. LinkOf(egress) = egress
    BY <2>1 DEF LinkOf
  <2>8. /\ up \subseteq Tunnels /\ egress \in Tunnels
    BY <2>1, EgressesLemma
  <2>9. /\ dst \notin Addresses /\ dst \notin Subnet /\ ~IsLocal(rev, up, dst)
        /\ \A t \in up : dst # PeerEnd(Pos(rev, t))
    <3> HIDE DEF dst, egress
    <3>1. dst \in LinkEnds /\ \A t \in DOMAIN rev.tunnels : dst # PeerEnd(Pos(rev, t))
      BY <2>1, <2>2, LinksLemma
    <3>2. dst \notin Addresses /\ dst \notin Subnet
      BY <3>1, LinkEndsLemma
    <3>3. ~IsLocal(rev, up, dst)
      BY <2>1, <2>2, LocalLemma
    <3> QED
      BY <3>1, <3>2, <3>3
  <2>10. out \in Tunnels \cup {Uplink} /\ out # egress
    <3> HIDE DEF dst, egress, out, networks, nearest
    <3>1. CASE networks # {} /\ nearest \in up
      BY <1>5, <2>1, <2>6, <2>8, <2>9, <3>1
    <3>2. CASE networks # {} /\ nearest \notin up
      BY <1>5, <2>8, <2>9, <3>2, FatesAssumption DEF ByMain
    <3>3. CASE networks = {}
      BY <1>5, <2>1, <2>8, <2>9, <3>3, FatesAssumption DEF ByMain
    <3> QED
      BY <3>1, <3>2, <3>3
  <2>11. out # Local /\ out # Ingress
    BY <2>10, FatesAssumption
  <2> HIDE DEF dst, out, egress
  <2>12. ~ \E n \in plan.internals : dst \in sets[n.id]
    BY <2>4, <2>9 DEF Learned
  <2>13. ~ \E g \in plan.groups : p.src \in g.addresses /\ out = LinkOf(g.id)
    BY <2>3, <2>7, <2>10
  <2>14. ~ \E g \in plan.groups \cup plan.internals : g.contained /\ p.in = LinkOf(g.id)
    BY <1>0, ContainedLemma, FatesAssumption
  <2> HIDE DEF plan, socks
  <2>15. ~ForwardAccepts(plan, sets, socks, p, dst, out)
    <3>1. ~Opened(plan, p, dst, out)
      BY <2>11 DEF Opened
    <3>2. ~Served(plan, sets, socks, p, dst, out)
      BY <2>5, <2>12, <2>13 DEF Served
    <3>3. ~Carried(plan, p, out)
      BY <2>14, Zenon DEF Carried
    <3> QED
      BY <1>0, <3>1, <3>2, <3>3, ForwardLemma
  <2>16. fate = Dropped
    BY <1>1, <2>11, <2>15 DEF plan, socks, dst, out
  <2> QED
    BY <1>7, <2>16 DEF plan, socks, dst, out, egress
<1> QED
  BY <1>6, <1>7

\* The resolver of a device's egress serves its address, on the hub or on the link.
LEMMA OwnResolverLemma ==
  ASSUME NEW rev, Deployable(rev), NEW d \in DOMAIN rev.devices
  PROVE  LET egress == rev.devices[d].egress
             own == CHOOSE r \in BuildDNSPlan(Plan(rev), Specs(rev)).egress : r.id = egress
         IN  /\ rev.devices[d].address \in own.clients
             /\ own.address = ResolverFor(rev, egress)
<1> DEFINE plan == Plan(rev)
           specs == Specs(rev)
           egress == rev.devices[d].egress
           Record(g) == [id |-> g.id, clients |-> g.addresses,
                         address |-> IF g.id = Direct THEN HubAddress ELSE SpecOf(specs, g.id).host,
                         inside |-> IF g.id = Direct THEN HubAddress ELSE SpecOf(specs, g.id).peer]
           resolvers == {Record(g) : g \in {g \in plan.groups : g.addresses # {}}}
           own == CHOOSE r \in resolvers : r.id = egress
<1>1. BuildDNSPlan(plan, specs).egress = resolvers
  BY DEF BuildDNSPlan
<1>2. /\ \E g \in plan.groups : g.id = egress /\ rev.devices[d].address \in g.addresses
      /\ \A g \in plan.groups : rev.devices[d].address \in g.addresses <=> g.id = egress
  BY GroupOfLemma
<1>3. \A g : /\ Record(g).id = g.id /\ Record(g).clients = g.addresses
             /\ Record(g).address = IF g.id = Direct THEN HubAddress ELSE SpecOf(specs, g.id).host
  OBVIOUS
<1>4. egress # Direct => SpecOf(specs, egress).host = HostEnd(Pos(rev, egress))
  <2> SUFFICES ASSUME egress # Direct PROVE SpecOf(specs, egress).host = HostEnd(Pos(rev, egress))
    OBVIOUS
  <2>1. egress \in DOMAIN rev.tunnels
    BY DEF Deployable
  <2>2. SpecOf(specs, egress) = SpecFor(rev, egress)
    BY <2>1, SpecsLemma
  <2> QED
    BY <2>2 DEF SpecFor
<1> HIDE DEF plan, specs, egress, Record
<1>5. PICK g \in plan.groups : own = Record(g) /\ g.id = egress
  <2>1. PICK g \in plan.groups : g.id = egress /\ rev.devices[d].address \in g.addresses
    BY <1>2
  <2>2. Record(g) \in resolvers /\ Record(g).id = egress
    BY <1>3, <2>1
  <2>3. own \in resolvers /\ own.id = egress
    <3> HIDE DEF resolvers
    <3> QED
      BY <2>2
  <2> HIDE DEF own
  <2> QED
    BY <1>3, <2>3
<1> HIDE DEF own, resolvers
<1>6. rev.devices[d].address \in own.clients
  BY <1>2, <1>3, <1>5
<1>7. own.address = ResolverFor(rev, egress)
  BY <1>3, <1>4, <1>5 DEF ResolverFor
<1> QED
  BY <1>1, <1>6, <1>7 DEF own, egress, plan, specs

LEMMA DnsLemma == HubInv => DnsOwnEgress
<1> SUFFICES ASSUME HubInv, NEW c \in Conditions(Host), NEW d \in DOMAIN Revision.devices
             PROVE  LET egress == config.devices[d].egress
                        own == CHOOSE r \in Host.dns.egress : r.id = egress
                    IN  \A p \in Packets(Host, Ingress, {config.devices[d].address}, TRUE) : p.port = 53 =>
                          /\ config.devices[d].address \in own.clients
                          /\ Redirected(Host.firewall, Host.socks, p) = own.address
                          /\ Delivery(Host.firewall, Host.socks, SetsIn(Host, c), NetIn(Host, c), Endpoint, p)
                               = IF egress \in c.up \cup {Direct} THEN Local ELSE Dropped
  BY Zenon DEF DnsOwnEgress
<1> DEFINE rev == Deployed
           egress == config.devices[d].egress
           own == CHOOSE r \in Host.dns.egress : r.id = egress
<1>1. /\ Deployable(rev) /\ d \in DOMAIN rev.devices /\ rev.devices[d] = config.devices[d]
  BY DeployableLemma, DeployedLemma
<1>2. /\ Host.firewall = Plan(rev) /\ Host.socks = Socks(rev)
      /\ Host.dns = BuildDNSPlan(Plan(rev), Specs(rev))
  BY HostLemma
<1>3. /\ c.up \in SUBSET DOMAIN rev.tunnels /\ NetIn(Host, c) = Net(rev, c.up)
      /\ Learned(rev, SetsIn(Host, c))
  BY ConditionsLemma
<1>4. config.devices[d].address \in own.clients /\ own.address = ResolverFor(rev, egress)
  <2>1. LET chosen == CHOOSE r \in BuildDNSPlan(Plan(rev), Specs(rev)).egress :
                        r.id = rev.devices[d].egress
        IN  /\ rev.devices[d].address \in chosen.clients
            /\ chosen.address = ResolverFor(rev, rev.devices[d].egress)
    BY <1>1, OwnResolverLemma
  <2> HIDE DEF rev
  <2> QED
    BY <1>1, <1>2, <2>1
<1> HIDE DEF own
<1>5. ASSUME NEW p \in Packets(Host, Ingress, {config.devices[d].address}, TRUE), p.port = 53
      PROVE  /\ Redirected(Host.firewall, Host.socks, p) = own.address
             /\ Delivery(Host.firewall, Host.socks, SetsIn(Host, c), NetIn(Host, c), Endpoint, p)
                  = IF egress \in c.up \cup {Direct} THEN Local ELSE Dropped
  <2>1. p.in = Ingress /\ p.src = rev.devices[d].address /\ p.new = TRUE
    BY <1>1 DEF Packets
  <2> HIDE DEF rev
  <2>2. Redirected(Plan(rev), Socks(rev), p) = ResolverFor(rev, rev.devices[d].egress)
    BY <1>1, <1>5, <2>1, RedirectLemma
  <2>3. Delivery(Plan(rev), Socks(rev), SetsIn(Host, c), Net(rev, c.up), Endpoint, p)
          = IF rev.devices[d].egress \in c.up \cup {Direct} THEN Local ELSE Dropped
    <3> DEFINE sets == SetsIn(Host, c)
               up == c.up
    <3>1. up \in SUBSET DOMAIN rev.tunnels /\ Learned(rev, sets)
      BY <1>3
    <3> HIDE DEF sets, up
    <3>2. Delivery(Plan(rev), Socks(rev), sets, Net(rev, up), Endpoint, p)
            = IF rev.devices[d].egress \in up \cup {Direct} THEN Local ELSE Dropped
      <4>1. Deployable(rev) /\ d \in DOMAIN rev.devices
        BY <1>1
      <4>2. NewFrom(rev, d, p) /\ p.port = 53
        BY <1>5, <2>1 DEF NewFrom
      <4> QED
        BY <3>1, <4>1, <4>2, LookupLemma
    <3> QED
      BY <3>2 DEF sets, up
  <2> QED
    BY <1>1, <1>2, <1>3, <1>4, <2>2, <2>3
<1> QED
  BY <1>4, <1>5 DEF own

-----------------------------------------------------------------------------
(* What the hub sends itself.                                              *)

LEMMA SentLemma ==
  ASSUME NEW plan, NEW sets, NEW net, NEW endpoint, NEW socket, NEW p
  PROVE  LET mark == MarkOnOutput(plan, sets, socket, p.dst)
             out == RouteOf(net, endpoint, mark, p.dst)
             fate == Sent(plan, sets, net, endpoint, socket, p)
             taken == InputAccepts(plan, [p EXCEPT !.in = Loopback], mark, p.dst)
         IN  fate = IF OutputAccepts(plan, mark, out) /\ (out = Local => taken)
                    THEN out ELSE Dropped
  BY Zenon DEF Sent

\* A mark leaves by its own link, or not at all.
LEMMA OutputLemma ==
  ASSUME NEW rev, Deployable(rev), NEW e \in DOMAIN rev.tunnels, NEW out,
         OutputAccepts(Plan(rev), MarkFor(rev, e), out)
  PROVE  out = e
<1>1. e # Direct /\ (e \in TunnelEgresses(rev) \/ e \in PrivateNetworks(rev))
  BY EgressesLemma
<1>2. \A g \in Plan(rev).groups \cup Plan(rev).internals :
        g.id # Direct /\ g.mark = MarkFor(rev, e) => out = g.id
  BY DEF OutputAccepts
<1>3. CASE e \in TunnelEgresses(rev)
  <2>1. GroupFor(rev, e) \in Plan(rev).groups
    BY <1>3, GroupsLemma
  <2>2. GroupFor(rev, e).id = e /\ GroupFor(rev, e).mark = MarkFor(rev, e)
    BY <1>1 DEF GroupFor, MarkFor
  <2> QED
    BY <1>1, <1>2, <2>1, <2>2
<1>4. CASE e \in PrivateNetworks(rev)
  <2>1. NetworkFor(rev, e) \in Plan(rev).internals
    BY <1>4, NetworksLemma
  <2>2. NetworkFor(rev, e).id = e /\ NetworkFor(rev, e).mark = MarkFor(rev, e)
    BY <1>1 DEF NetworkFor, MarkFor
  <2> QED
    BY <1>1, <1>2, <2>1, <2>2
<1> QED
  BY <1>1, <1>3, <1>4

\* The mark of a user of the fallback listener is the one of the device's egress.
LEMMA UsersLemma ==
  ASSUME NEW rev, Deployable(rev), NEW u \in BuildRealityUsers(rev, Plan(rev))
  PROVE  /\ u.device \in DOMAIN rev.devices
         /\ u.mark = MarkFor(rev, rev.devices[u.device].egress)
<1> DEFINE plan == Plan(rev)
           Chosen(d) == CHOOSE g \in plan.groups : g.id = rev.devices[d].egress
           Record(d) == [device |-> d, key |-> rev.devices[d].key, mark |-> Chosen(d).mark]
           users == {d \in DOMAIN rev.devices : rev.hub.reality}
<1>1. BuildRealityUsers(rev, plan) = {Record(d) : d \in users}
  BY DEF BuildRealityUsers
<1>2. \A d : Record(d).device = d /\ Record(d).mark = Chosen(d).mark
  OBVIOUS
<1>3. \A d \in users : d \in DOMAIN rev.devices
  OBVIOUS
<1> HIDE DEF plan, Record, users
<1>4. PICK d \in DOMAIN rev.devices : u = Record(d)
  BY <1>1, <1>3 DEF plan
<1>5. Chosen(d).mark = MarkFor(rev, rev.devices[d].egress)
  <2>1. /\ \E g \in plan.groups : g.id = rev.devices[d].egress
        /\ \A g \in plan.groups : g.mark = MarkFor(rev, g.id)
    BY GroupOfLemma DEF plan
  <2> QED
    BY <2>1
<1> QED
  BY <1>2, <1>4, <1>5

LEMMA UserLemma ==
  ASSUME NEW rev, Deployable(rev), NEW up \in SUBSET DOMAIN rev.tunnels, NEW sets,
         NEW u \in BuildRealityUsers(rev, Plan(rev)), NEW p, p.new = TRUE, "in" \in DOMAIN p
  PROVE  SentForUser(Plan(rev), sets, Net(rev, up), Endpoint, u, p)
           \in {LinkOf(rev.devices[u.device].egress), Dropped}
<1> DEFINE plan == Plan(rev)
           egress == rev.devices[u.device].egress
           net == Net(rev, up)
           mark == MarkOnOutput(plan, sets, u.mark, p.dst)
           out == RouteOf(net, Endpoint, mark, p.dst)
           fate == Sent(plan, sets, net, Endpoint, u.mark, p)
           q == [p EXCEPT !.in = Loopback]
<1>1. CASE p.dst \in PrivateRange
  BY <1>1, Zenon DEF SentForUser
<1>2. CASE p.dst \notin PrivateRange
  <2>1. SentForUser(plan, sets, net, Endpoint, u, p) = fate
    BY <1>2, Zenon DEF SentForUser
  <2>2. /\ out = Local /\ ~InputAccepts(plan, q, mark, p.dst) => fate = Dropped
        /\ out # Local => fate = IF OutputAccepts(plan, mark, out) THEN out ELSE Dropped
    BY SentLemma, Zenon
  <2>3. u.mark = MarkFor(rev, egress) /\ (egress = Direct \/ egress \in DOMAIN rev.tunnels)
    BY UsersLemma DEF Deployable
  <2>4. u.mark # 0
    BY <2>3, MarksLemma DEF MarkFor, DirectMark
  <2>5. mark = MarkFor(rev, egress)
    <3>1. u.mark # 0 \/ Matching(plan, sets, p.dst) = {}
      BY <2>4
    <3>2. mark = u.mark
      BY <3>1, Zenon DEF MarkOnOutput
    <3> QED
      BY <2>3, <3>2
  <2>6. p.dst \notin Subnet /\ p.dst \notin LinkEnds /\ p.dst # HubAddress
    BY <1>2, PrivateRangeAssumption, LinkEndsLemma
  <2>7. /\ IsLocal(rev, up, p.dst) => out = Local
        /\ ~IsLocal(rev, up, p.dst) =>
             /\ \A t \in up : mark = MarkFor(rev, t) => out = t
             /\ (\A t \in up : mark # MarkFor(rev, t)) => ByMain(rev, up, p.dst, out)
    BY RouteLemma
  <2>8. ~InputAccepts(plan, q, mark, p.dst)
    <3>1. q.in = Loopback /\ q.new = TRUE
      OBVIOUS
    <3>2. Loopback # Ingress
      BY FatesAssumption
    <3>3. mark # 0
      BY <2>3, <2>4, <2>5
    <3> HIDE DEF q, mark
    <3>4. ~(q.in = Ingress /\ q.port = 53) /\ ~(~q.new) /\ ~(q.in = Loopback /\ mark = 0)
          /\ q.in = Loopback /\ mark # 0
      BY <3>1, <3>2, <3>3
    <3> QED
      BY <2>6, <3>4, Zenon DEF InputAccepts
  <2>9. CASE IsLocal(rev, up, p.dst)
    BY <2>1, <2>2, <2>7, <2>8, <2>9
  <2>10. CASE ~IsLocal(rev, up, p.dst) /\ egress \in up
    <3>1. egress \in Tunnels /\ LinkOf(egress) = egress
      BY <2>10, EgressesLemma DEF LinkOf
    <3> HIDE DEF out, fate, mark, egress
    <3>2. out = egress /\ out # Local
      BY <2>5, <2>7, <2>10, <3>1, FatesAssumption
    <3>3. fate \in {LinkOf(egress), Dropped}
      BY <2>2, <3>1, <3>2
    <3> QED
      BY <2>1, <3>3 DEF fate, egress
  <2>11. CASE ~IsLocal(rev, up, p.dst) /\ egress \notin up
    <3>1. \A t \in up : mark # MarkFor(rev, t)
      BY <2>3, <2>5, <2>11, MarksLemma
    <3>2. \A t \in up : PeerEnd(Pos(rev, t)) \in LinkEnds
      BY LinksLemma
    <3> HIDE DEF out, fate, mark, egress
    <3>3. out = Uplink
      BY <2>6, <2>7, <2>11, <3>1, <3>2 DEF ByMain
    <3>4. CASE egress = Direct
      BY <2>1, <2>2, <3>3, <3>4, FatesAssumption DEF LinkOf, fate, egress
    <3>5. CASE egress # Direct
      <4>1. ~OutputAccepts(plan, mark, out)
        BY <2>3, <2>5, <3>3, <3>5, OutputLemma, EgressesLemma, FatesAssumption
      <4> QED
        BY <2>1, <2>2, <3>3, <4>1, FatesAssumption DEF fate
    <3> QED
      BY <3>4, <3>5
  <2> QED
    BY <2>9, <2>10, <2>11
<1> QED
  BY <1>1, <1>2

\* A query for a private zone leaves by the network its mark names.
LEMMA ZoneQueryLemma ==
  ASSUME NEW rev, Deployable(rev), NEW up \in SUBSET DOMAIN rev.tunnels,
         NEW sets, Learned(rev, sets), NEW p, Matching(Plan(rev), sets, p.dst) # {}
  PROVE  Sent(Plan(rev), sets, Net(rev, up), Endpoint, 0, p)
           \in {n.id : n \in Matching(Plan(rev), sets, p.dst)} \cup {Dropped}
<1> DEFINE plan == Plan(rev)
           networks == Matching(plan, sets, p.dst)
           last == CHOOSE n \in networks : \A m \in networks : m.id <= n.id
           mark == MarkOnOutput(plan, sets, 0, p.dst)
           out == RouteOf(Net(rev, up), Endpoint, mark, p.dst)
           fate == Sent(plan, sets, Net(rev, up), Endpoint, 0, p)
<1>1. last \in networks /\ last.mark = MarkFor(rev, last.id) /\ last.id \in DOMAIN rev.tunnels
  BY MatchingLemma
<1>2. mark = last.mark
  <2>1. ~(0 # 0 \/ networks = {})
    OBVIOUS
  <2> QED
    BY <2>1, Zenon DEF MarkOnOutput
<1>3. ~OutputAccepts(plan, mark, out) => fate = Dropped
  BY SentLemma, Zenon
<1>4. fate \in {out, Dropped}
  BY SentLemma, Zenon
<1> HIDE DEF networks, last, mark, out, fate
<1>5. OutputAccepts(plan, mark, out) => out = last.id
  BY <1>1, <1>2, OutputLemma
<1>6. fate \in {n.id : n \in networks} \cup {Dropped}
  BY <1>1, <1>3, <1>4, <1>5
<1> QED
  BY <1>6 DEF fate, networks

LEMMA OriginatedLemma == HubInv => HubOriginated
<1> SUFFICES ASSUME HubInv, NEW c \in Conditions(Host), NEW p \in Packets(Host, Blank, {Endpoint}, TRUE)
             PROVE  LET sets == SetsIn(Host, c)
                        net == NetIn(Host, c)
                    IN  /\ \A u \in Host.users :
                             LET egress == config.devices[u.device].egress
                                 fate == SentForUser(Host.firewall, sets, net, Endpoint, u, p)
                             IN  /\ u.device \notin revoked
                                 /\ fate \in {LinkOf(egress), Dropped}
                        /\ Matching(Host.firewall, sets, p.dst) # {} =>
                             LET fate == Sent(Host.firewall, sets, net, Endpoint, 0, p)
                                 covering == {n.id : n \in Matching(Host.firewall, sets, p.dst)}
                             IN  /\ fate \in covering \cup {Dropped}
                                 /\ fate \in covering => Masqueraded(Host.firewall, p.src, fate)
  BY Zenon DEF HubOriginated
<1> DEFINE rev == Deployed
           sets == SetsIn(Host, c)
           net == NetIn(Host, c)
           up == c.up
<1>1. /\ Deployable(rev)
      /\ DOMAIN rev.devices = DOMAIN config.devices \ revoked
      /\ \A d \in DOMAIN rev.devices : rev.devices[d] = config.devices[d]
  BY DeployableLemma, DeployedLemma
<1>2. /\ Host.firewall = Plan(rev) /\ Host.users = BuildRealityUsers(rev, Plan(rev))
  BY HostLemma
<1>3. up \in SUBSET DOMAIN rev.tunnels /\ net = Net(rev, up) /\ Learned(rev, sets)
  BY ConditionsLemma
<1>4. p.new = TRUE /\ "in" \in DOMAIN p /\ p.src = Endpoint
  BY DEF Packets
<1> HIDE DEF rev, sets, net, up
<1>5. ASSUME NEW u \in Host.users
      PROVE  LET egress == config.devices[u.device].egress
                 fate == SentForUser(Host.firewall, sets, net, Endpoint, u, p)
             IN  /\ u.device \notin revoked
                 /\ fate \in {LinkOf(egress), Dropped}
  <2> DEFINE egress == config.devices[u.device].egress
             fate == SentForUser(Host.firewall, sets, net, Endpoint, u, p)
  <2>1. u \in BuildRealityUsers(rev, Plan(rev))
    BY <1>2
  <2>2. u.device \in DOMAIN rev.devices
    BY <1>1, <2>1, UsersLemma
  <2>3. u.device \notin revoked /\ rev.devices[u.device].egress = egress
    BY <1>1, <2>2
  <2>4. fate \in {LinkOf(rev.devices[u.device].egress), Dropped}
    BY <1>1, <1>2, <1>3, <1>4, <2>1, UserLemma
  <2> HIDE DEF fate, egress
  <2>5. fate \in {LinkOf(egress), Dropped}
    BY <2>3, <2>4
  <2> QED
    BY <2>3, <2>5 DEF fate, egress
<1>6. ASSUME Matching(Host.firewall, sets, p.dst) # {}
      PROVE  LET fate == Sent(Host.firewall, sets, net, Endpoint, 0, p)
                 covering == {n.id : n \in Matching(Host.firewall, sets, p.dst)}
             IN  /\ fate \in covering \cup {Dropped}
                 /\ fate \in covering => Masqueraded(Host.firewall, p.src, fate)
  <2> DEFINE fate == Sent(Host.firewall, sets, net, Endpoint, 0, p)
             covering == {n.id : n \in Matching(Host.firewall, sets, p.dst)}
  <2>1. fate \in covering \cup {Dropped}
    BY <1>1, <1>2, <1>3, <1>6, ZoneQueryLemma
  <2>2. \A t \in covering : \E n \in Host.firewall.internals : t = n.id
    BY DEF Matching
  <2>3. p.src \notin Subnet
    BY <1>4, LinkEndsLemma
  <2> HIDE DEF fate, covering
  <2>4. fate \in covering => Masqueraded(Host.firewall, p.src, fate)
    BY <2>2, <2>3, Zenon DEF Masqueraded
  <2> QED
    BY <2>1, <2>4 DEF fate, covering
<1> QED
  BY <1>5, <1>6 DEF sets, net

-----------------------------------------------------------------------------
(* Connections of a device.                                                *)

\* What a device may leave by: a network, its egress, the endpoint of a tunnel.
UsedBy(rev, sets, d, p, dst, out) ==
  \/ out \in PrivateNetworks(rev) /\ MayUse(rev.tunnels[out], d) /\ dst \in sets[out]
  \/ out = LinkOf(rev.devices[d].egress)
  \/ /\ out \in DOMAIN rev.tunnels /\ MayUse(rev.tunnels[out], d)
     /\ p.proto = "tcp" /\ p.port = 11080 + Pos(rev, out)

LEMMA ServedLemma ==
  ASSUME NEW rev, Deployable(rev), NEW d \in DOMAIN rev.devices, NEW sets,
         NEW p, NewFrom(rev, d, p), NEW dst, NEW out
  PROVE  Served(Plan(rev), sets, Socks(rev), p, dst, out) <=>
           out # Ingress /\ ~(p.proto = "tcp" /\ p.port = 853) /\ UsedBy(rev, sets, d, p, dst, out)
<1> DEFINE plan == Plan(rev)
           socks == Socks(rev)
           address == rev.devices[d].address
           egress == rev.devices[d].egress
           ByNetwork == \E n \in plan.internals : p.src \in n.clients /\ dst \in sets[n.id] /\ out = n.id
           ByGroup == \E g \in plan.groups : p.src \in g.addresses /\ out = LinkOf(g.id)
           BySocks == \E s \in socks :
                        p.src \in s.clients /\ out = s.id /\ p.proto = "tcp" /\ p.port = s.port
<1>0. p.in = Ingress /\ p.src = address
  BY DEF NewFrom
<1>1. ByNetwork <=>
        out \in PrivateNetworks(rev) /\ MayUse(rev.tunnels[out], d) /\ dst \in sets[out]
  <2>1. \A n \in plan.internals : n.id \in PrivateNetworks(rev) /\ n = NetworkFor(rev, n.id)
    BY NetworksLemma
  <2>2. \A t \in PrivateNetworks(rev) : NetworkFor(rev, t) \in plan.internals
    BY NetworksLemma
  <2>3. \A t : NetworkFor(rev, t).id = t /\ NetworkFor(rev, t).clients = PermittedClients(rev, t)
    BY DEF NetworkFor
  <2>4. \A t : p.src \in PermittedClients(rev, t) <=> MayUse(rev.tunnels[t], d)
    BY <1>0, ClientsLemma
  <2> HIDE DEF plan
  <2>5. \A n \in plan.internals : p.src \in n.clients <=> MayUse(rev.tunnels[n.id], d)
    BY <2>1, <2>3, <2>4
  <2> QED
    BY <2>1, <2>2, <2>3, <2>5
<1>2. ByGroup <=> out = LinkOf(egress)
  <2>1. /\ \E g \in plan.groups : g.id = egress /\ address \in g.addresses
        /\ \A g \in plan.groups : address \in g.addresses <=> g.id = egress
    BY GroupOfLemma
  <2> HIDE DEF plan, egress, address
  <2> QED
    BY <1>0, <2>1
<1>3. BySocks <=>
            /\ out \in DOMAIN rev.tunnels /\ MayUse(rev.tunnels[out], d)
            /\ p.proto = "tcp" /\ p.port = 11080 + Pos(rev, out)
  <2>1. socks = {SocksFor(rev, t) : t \in DOMAIN rev.tunnels}
    BY SocksLemma
  <2>2. \A t : /\ SocksFor(rev, t).id = t /\ SocksFor(rev, t).port = 11080 + Pos(rev, t)
               /\ SocksFor(rev, t).clients = PermittedClients(rev, t)
    BY DEF SocksFor
  <2>3. \A t : p.src \in PermittedClients(rev, t) <=> MayUse(rev.tunnels[t], d)
    BY <1>0, ClientsLemma
  <2> HIDE DEF socks
  <2> QED
    BY <2>1, <2>2, <2>3
<1> HIDE DEF plan, socks, egress
<1>4. Served(plan, sets, socks, p, dst, out) <=>
        out # Ingress /\ ~(p.proto = "tcp" /\ p.port = 853) /\ (ByNetwork \/ ByGroup \/ BySocks)
  BY <1>0, ZenonT(60) DEF Served
<1> HIDE DEF ByNetwork, ByGroup, BySocks
<1>5. UsedBy(rev, sets, d, p, dst, out) <=>
        \/ out \in PrivateNetworks(rev) /\ MayUse(rev.tunnels[out], d) /\ dst \in sets[out]
        \/ out = LinkOf(egress)
        \/ /\ out \in DOMAIN rev.tunnels /\ MayUse(rev.tunnels[out], d)
           /\ p.proto = "tcp" /\ p.port = 11080 + Pos(rev, out)
  BY DEF UsedBy, egress
<1>6. UsedBy(rev, sets, d, p, dst, out) <=> ByNetwork \/ ByGroup \/ BySocks
  BY <1>1, <1>2, <1>3, <1>5
<1>7. Served(plan, sets, socks, p, dst, out) <=>
        out # Ingress /\ ~(p.proto = "tcp" /\ p.port = 853) /\ UsedBy(rev, sets, d, p, dst, out)
  BY <1>4, <1>6, ZenonT(60)
<1> QED
  BY <1>7 DEF plan, socks

LEMMA DeviceForwardLemma ==
  ASSUME NEW rev, Deployable(rev), NEW d \in DOMAIN rev.devices, NEW sets,
         NEW p, NewFrom(rev, d, p), NEW dst, NEW out
  PROVE  ForwardAccepts(Plan(rev), sets, Socks(rev), p, dst, out) <=>
           \/ out = Ingress /\ ACLAccepts(Plan(rev), p, dst)
           \/ /\ out # Ingress /\ ~(p.proto = "tcp" /\ p.port = 853)
              /\ UsedBy(rev, sets, d, p, dst, out)
<1>1. p.in = Ingress /\ p.new = TRUE
  BY DEF NewFrom
<1>2. ~Carried(Plan(rev), p, out)
  BY <1>1, ContainedLemma, FatesAssumption DEF Carried
<1>3. Opened(Plan(rev), p, dst, out) <=> out = Ingress /\ ACLAccepts(Plan(rev), p, dst)
  BY <1>1 DEF Opened
<1>4. Served(Plan(rev), sets, Socks(rev), p, dst, out) <=>
        out # Ingress /\ ~(p.proto = "tcp" /\ p.port = 853) /\ UsedBy(rev, sets, d, p, dst, out)
  BY ServedLemma
<1>5. ForwardAccepts(Plan(rev), sets, Socks(rev), p, dst, out) <=>
        \/ Opened(Plan(rev), p, dst, out)
        \/ Served(Plan(rev), sets, Socks(rev), p, dst, out)
        \/ Carried(Plan(rev), p, out)
  BY <1>1, ForwardLemma
<1> QED
  BY <1>2, <1>3, <1>4, <1>5, Zenon

\* A rule between clients stands for what it says, unless it names a device that is gone.
LEMMA RulesLemma ==
  ASSUME HubInv, NEW d \in DOMAIN Deployed.devices, NEW p, p.src = Deployed.devices[d].address, NEW dst
  PROVE  /\ ACLAccepts(Plan(Deployed), p, dst) /\ ~Dangling(config, revoked) =>
              \E rule \in config.acls :
                /\ rule.source \in {d, Anyone} /\ rule.target \in DOMAIN config.devices \ revoked
                /\ config.devices[rule.target].address = dst
                /\ rule.proto = p.proto /\ rule.port = p.port
         /\ ACLPermits(config, revoked, d, p) => ACLAccepts(Plan(Deployed), p, p.dst)
<1> DEFINE rev == Deployed
           Source(rule) == IF rule.source = Anyone THEN Blank ELSE AddressOf(rev, rule.source)
           Record(rule) == [source |-> Source(rule), target |-> AddressOf(rev, rule.target),
                            proto |-> rule.proto, port |-> rule.port]
<1>1. /\ Deployable(rev) /\ rev.acls = config.acls
      /\ DOMAIN rev.devices = DOMAIN config.devices \ revoked
      /\ \A e \in DOMAIN rev.devices : rev.devices[e] = config.devices[e]
  BY DeployableLemma, DeployedLemma
<1>2. /\ \A rule \in config.acls : ValidACL(rule, DOMAIN config.devices)
      /\ DOMAIN config.devices \subseteq Devices
  BY DEF HubInv, WellFormed, Validate, IsConfiguration
<1>3. /\ \A e \in DOMAIN rev.devices :
           rev.devices[e].address \in Subnet /\ rev.devices[e].address # Blank
      /\ \A e \in DOMAIN rev.devices : rev.devices[e].address = p.src => e = d
  BY <1>1, NoAddressAssumption, SubnetAssumption DEF Deployable, UsableAddress, Subnet
<1>4. Plan(rev).acls = {Record(rule) : rule \in config.acls}
  <2>1. Plan(rev).acls = ClientPortACLs(rev)
    BY DEF Plan, BuildFirewallPlan
  <2>2. ClientPortACLs(rev) = {Record(rule) : rule \in rev.acls}
    BY DEF ClientPortACLs
  <2> HIDE DEF rev, Record
  <2> QED
    BY <1>1, <2>1, <2>2
<1>5. \A rule : /\ Record(rule).source = Source(rule) /\ Record(rule).target = AddressOf(rev, rule.target)
                /\ Record(rule).proto = rule.proto /\ Record(rule).port = rule.port
  OBVIOUS
<1>6. \A e : AddressOf(rev, e) = IF e \in DOMAIN rev.devices THEN rev.devices[e].address ELSE Blank
  BY DEF AddressOf
<1> HIDE DEF rev, Record, Source
<1>7. ACLAccepts(Plan(rev), p, dst) <=>
        \E rule \in config.acls :
          /\ IF Source(rule) = Blank THEN p.src \in Subnet ELSE p.src = Source(rule)
          /\ dst = AddressOf(rev, rule.target) /\ p.proto = rule.proto /\ p.port = rule.port
  <2>1. ACLAccepts(Plan(rev), p, dst) <=>
          \E acl \in Plan(rev).acls :
            /\ IF acl.source = Blank THEN p.src \in Subnet ELSE p.src = acl.source
            /\ dst = acl.target /\ p.proto = acl.proto /\ p.port = acl.port
    BY Zenon DEF ACLAccepts
  <2> QED
    BY <1>4, <1>5, <2>1
<1>8. ACLAccepts(Plan(rev), p, p.dst) <=>
        \E rule \in config.acls :
          /\ IF Source(rule) = Blank THEN p.src \in Subnet ELSE p.src = Source(rule)
          /\ p.dst = AddressOf(rev, rule.target) /\ p.proto = rule.proto /\ p.port = rule.port
  <2>1. ACLAccepts(Plan(rev), p, p.dst) <=>
          \E acl \in Plan(rev).acls :
            /\ IF acl.source = Blank THEN p.src \in Subnet ELSE p.src = acl.source
            /\ p.dst = acl.target /\ p.proto = acl.proto /\ p.port = acl.port
    BY Zenon DEF ACLAccepts
  <2> QED
    BY <1>4, <1>5, <2>1
<1>9. p.src \in Subnet /\ p.src # Blank /\ d \in DOMAIN rev.devices /\ p.src = rev.devices[d].address
  BY <1>3 DEF rev
<1>10. ASSUME ~Dangling(config, revoked), NEW rule \in config.acls,
              IF Source(rule) = Blank THEN p.src \in Subnet ELSE p.src = Source(rule),
              dst = AddressOf(rev, rule.target)
       PROVE  /\ rule.source \in {d, Anyone} /\ rule.target \in DOMAIN config.devices \ revoked
              /\ config.devices[rule.target].address = dst
  <2>1. /\ rule.source \in DOMAIN config.devices \cup {Anyone} /\ rule.target \in DOMAIN config.devices
        /\ rule.source \notin revoked /\ rule.target \notin revoked
    BY <1>2, <1>10 DEF ValidACL, Dangling
  <2>2. rule.target \in DOMAIN rev.devices /\ config.devices[rule.target].address = dst
    BY <1>1, <1>6, <1>10, <2>1
  <2>3. CASE rule.source # Anyone
    <3>1. rule.source \in DOMAIN rev.devices
      BY <1>1, <2>1, <2>3
    <3>2. Source(rule) = rev.devices[rule.source].address
      BY <1>6, <2>3, <3>1 DEF Source
    <3>3. p.src = rev.devices[rule.source].address
      BY <1>3, <1>10, <3>1, <3>2
    <3>4. rule.source = d
      BY <1>3, <3>1, <3>3
    <3> QED
      BY <2>1, <2>2, <3>4
  <2> QED
    BY <2>1, <2>2, <2>3
<1>11. ASSUME ACLPermits(config, revoked, d, p) PROVE ACLAccepts(Plan(rev), p, p.dst)
  <2>1. PICK rule \in config.acls :
          /\ rule.source \in {d, Anyone}
          /\ rule.target \in DOMAIN config.devices \ revoked
          /\ config.devices[rule.target].address = p.dst
          /\ rule.proto = p.proto /\ rule.port = p.port
    BY <1>11 DEF ACLPermits
  <2>2. p.dst = AddressOf(rev, rule.target)
    BY <1>1, <1>6, <2>1
  <2>3. IF Source(rule) = Blank THEN p.src \in Subnet ELSE p.src = Source(rule)
    <3>1. CASE rule.source = Anyone
      BY <1>9, <3>1 DEF Source
    <3>2. CASE rule.source # Anyone
      BY <1>6, <1>9, <2>1, <3>2 DEF Source
    <3> QED
      BY <3>1, <3>2
  <2> QED
    BY <1>8, <2>1, <2>2, <2>3
<1> QED
  BY <1>7, <1>10, <1>11 DEF rev

\* The ways out the configuration grants, as the plan finds them.
LEMMA WaysLemma ==
  ASSUME HubInv, NEW c \in Conditions(Host), NEW d \in DOMAIN Deployed.devices, NEW sets, NEW p
  PROVE  LET networks == Matching(Plan(Deployed), sets, p.dst)
             nearest == First(networks).id
             egress == Deployed.devices[d].egress
             ways == WaysOut(config, revoked, Host, sets, c, d, p)
         IN  /\ networks # {} /\ nearest \in DOMAIN Deployed.tunnels
                  /\ MayUse(Deployed.tunnels[nearest], d) => nearest \in ways
             /\ \A t \in DOMAIN Deployed.tunnels :
                  /\ p.dst \in {HostEnd(Pos(Deployed, t)), PeerEnd(Pos(Deployed, t))}
                  /\ p.proto = "tcp" /\ p.port = 11080 + Pos(Deployed, t)
                  /\ MayUse(Deployed.tunnels[t], d)
                  => t \in ways
             /\ ACLPermits(config, revoked, d, p) => Ingress \in ways
             /\ networks = {} => LinkOf(egress) \in ways
             /\ egress = Direct /\ nearest \notin c.up => LinkOf(egress) \in ways
<1> DEFINE rev == Deployed
           networks == Matching(Plan(rev), sets, p.dst)
           nearest == First(networks).id
           egress == rev.devices[d].egress
           private == PrivateFor(Host, sets, p.dst)
           doors == {s.id : s \in {s \in Host.socks :
                       p.dst \in {s.address, s.inside} /\ p.proto = "tcp" /\ p.port = s.port}}
           ways == WaysOut(config, revoked, Host, sets, c, d, p)
<1>1. /\ Deployable(rev) /\ Host.firewall = Plan(rev) /\ Host.socks = Socks(rev)
      /\ rev.devices[d] = config.devices[d]
      /\ \A t \in DOMAIN rev.tunnels : rev.tunnels[t] = config.tunnels[t]
  BY DeployableLemma, HostLemma, DeployedLemma
<1>2. private = IF networks = {} THEN {} ELSE {nearest}
  BY <1>1, Zenon DEF PrivateFor
<1>3. \A t \in DOMAIN rev.tunnels :
        /\ p.dst \in {HostEnd(Pos(rev, t)), PeerEnd(Pos(rev, t))}
        /\ p.proto = "tcp" /\ p.port = 11080 + Pos(rev, t)
        => t \in doors
  <2>1. \A t \in DOMAIN rev.tunnels : SocksFor(rev, t) \in Host.socks
    BY <1>1, SocksLemma
  <2>2. \A t : /\ SocksFor(rev, t).id = t /\ SocksFor(rev, t).address = HostEnd(Pos(rev, t))
               /\ SocksFor(rev, t).inside = PeerEnd(Pos(rev, t)) /\ SocksFor(rev, t).port = 11080 + Pos(rev, t)
    BY DEF SocksFor
  <2> SUFFICES ASSUME NEW t \in DOMAIN rev.tunnels,
                      p.dst \in {HostEnd(Pos(rev, t)), PeerEnd(Pos(rev, t))},
                      p.proto = "tcp", p.port = 11080 + Pos(rev, t)
               PROVE  t \in doors
    OBVIOUS
  <2> DEFINE s == SocksFor(rev, t)
  <2>3. s \in Host.socks /\ s.id = t /\ p.dst \in {s.address, s.inside} /\ p.port = s.port
    BY <2>1, <2>2
  <2> HIDE DEF s, rev
  <2> QED
    BY <2>3
<1>4. ways = {t \in private : MayUse(config.tunnels[t], d)}
               \cup {t \in doors : MayUse(config.tunnels[t], d)}
               \cup (IF ACLPermits(config, revoked, d, p) THEN {Ingress} ELSE {})
               \cup (IF private = {} \/ (config.devices[d].egress = Direct /\ private \cap c.up = {})
                     THEN {LinkOf(config.devices[d].egress)} ELSE {})
  BY Zenon DEF WaysOut
<1> HIDE DEF rev, networks, nearest, egress, private, doors, ways
<1>5. config.devices[d].egress = egress
  BY <1>1 DEF egress
<1>6. networks # {} /\ nearest \in DOMAIN rev.tunnels /\ MayUse(rev.tunnels[nearest], d) => nearest \in ways
  BY <1>1, <1>2, <1>4
<1>7. \A t \in DOMAIN rev.tunnels :
        /\ p.dst \in {HostEnd(Pos(rev, t)), PeerEnd(Pos(rev, t))}
        /\ p.proto = "tcp" /\ p.port = 11080 + Pos(rev, t)
        /\ MayUse(rev.tunnels[t], d)
        => t \in ways
  <2>1. \A t \in DOMAIN rev.tunnels : t \in doors /\ MayUse(rev.tunnels[t], d) => t \in ways
    BY <1>1, <1>4
  <2> QED
    BY <1>3, <2>1
<1>8. ACLPermits(config, revoked, d, p) => Ingress \in ways
  BY <1>4
<1>9. /\ networks = {} => LinkOf(egress) \in ways
      /\ egress = Direct /\ nearest \notin c.up => LinkOf(egress) \in ways
  BY <1>2, <1>4, <1>5
<1> QED
  BY <1>6, <1>7, <1>8, <1>9 DEF rev, networks, nearest, egress, ways

LEMMA WayOutLemma ==
  ASSUME HubInv, ~Dangling(config, revoked), NEW c \in Conditions(Host),
         NEW d \in DOMAIN Deployed.devices, NEW sets, Learned(Deployed, sets),
         NEW p, NewFrom(Deployed, d, p), p.port # 53
  PROVE  Delivery(Plan(Deployed), Socks(Deployed), sets, Net(Deployed, c.up), Endpoint, p)
           \in WaysOut(config, revoked, Host, sets, c, d, p) \cup {Local, Dropped}
<1> DEFINE rev == Deployed
           up == c.up
           plan == Plan(rev)
           socks == Socks(rev)
           egress == rev.devices[d].egress
           networks == Matching(plan, sets, p.dst)
           nearest == First(networks).id
           mark == MarkOnArrival(plan, sets, p)
           dst == Redirected(plan, socks, p)
           out == RouteOf(Net(rev, up), Endpoint, mark, dst)
           fate == Delivery(plan, socks, sets, Net(rev, up), Endpoint, p)
           ways == WaysOut(config, revoked, Host, sets, c, d, p)
<1>1. /\ p.in = Ingress /\ p.new = TRUE /\ p.src = rev.devices[d].address
  BY DEF NewFrom
<1>2. /\ Deployable(rev) /\ up \in SUBSET DOMAIN rev.tunnels
  BY DeployableLemma, ConditionsLemma
<1>3. /\ out = Local => fate = IF InputAccepts(plan, p, mark, dst) THEN Local ELSE Dropped
      /\ out # Local => fate = IF ForwardAccepts(plan, sets, socks, p, dst, out) THEN out ELSE Dropped
  BY <1>1, DeliveryLemma
<1>4. ForwardAccepts(plan, sets, socks, p, dst, out) <=>
        \/ out = Ingress /\ ACLAccepts(plan, p, dst)
        \/ /\ out # Ingress /\ ~(p.proto = "tcp" /\ p.port = 853)
           /\ UsedBy(rev, sets, d, p, dst, out)
  BY <1>2, DeviceForwardLemma
<1>5. \/ \E t \in DOMAIN rev.tunnels :
           p.dst = HostEnd(Pos(rev, t)) /\ dst = PeerEnd(Pos(rev, t))
      \/ dst = p.dst
  BY <1>1, <1>2, RedirectLemma
<1>6. /\ IsLocal(rev, up, dst) => out = Local
      /\ ~IsLocal(rev, up, dst) =>
           /\ networks # {} /\ nearest \in up => out = nearest
           /\ networks # {} /\ nearest \notin up => ByMain(rev, up, dst, out)
           /\ networks = {} /\ p.dst \in Subnet => ByMain(rev, up, dst, out)
           /\ networks = {} /\ p.dst \notin Subnet /\ egress \in up => out = egress
           /\ networks = {} /\ egress \notin up => ByMain(rev, up, dst, out)
  BY <1>1, <1>2, DeviceRouteLemma
<1>7. networks # {} => nearest \in DOMAIN rev.tunnels \cap Private /\ p.dst \in Addresses
  BY <1>2, MatchingLemma
<1>8. \A t \in DOMAIN rev.tunnels :
        HostEnd(Pos(rev, t)) \notin Addresses /\ PeerEnd(Pos(rev, t)) \notin Addresses
          /\ HostEnd(Pos(rev, t)) \notin Subnet /\ PeerEnd(Pos(rev, t)) \notin Subnet
  BY <1>2, LinksLemma, LinkEndsLemma
<1>9. /\ DOMAIN rev.tunnels \subseteq Tunnels /\ Direct \notin DOMAIN rev.tunnels
      /\ egress = Direct \/ (egress \in DOMAIN rev.tunnels /\ egress \notin Private)
      /\ PrivateNetworks(rev) = DOMAIN rev.tunnels \cap Private
  BY <1>2, EgressesLemma DEF Deployable
<1>10. /\ networks # {} /\ nearest \in DOMAIN rev.tunnels /\ MayUse(rev.tunnels[nearest], d)
            => nearest \in ways
       /\ \A t \in DOMAIN rev.tunnels :
            /\ p.dst \in {HostEnd(Pos(rev, t)), PeerEnd(Pos(rev, t))}
            /\ p.proto = "tcp" /\ p.port = 11080 + Pos(rev, t)
            /\ MayUse(rev.tunnels[t], d)
        => t \in ways
       /\ ACLPermits(config, revoked, d, p) => Ingress \in ways
       /\ networks = {} => LinkOf(egress) \in ways
       /\ egress = Direct /\ nearest \notin up => LinkOf(egress) \in ways
  BY WaysLemma
<1>11. ACLAccepts(plan, p, dst) =>
         \E rule \in config.acls :
           /\ rule.source \in {d, Anyone} /\ rule.target \in DOMAIN config.devices \ revoked
           /\ config.devices[rule.target].address = dst
           /\ rule.proto = p.proto /\ rule.port = p.port
  BY <1>1, RulesLemma
<1>12. \A e \in DOMAIN config.devices : config.devices[e].address \in Subnet
  BY DEF HubInv, WellFormed, Validate, ValidDevices, UsableAddress
<1>13. \A t, u \in DOMAIN rev.tunnels : PeerEnd(Pos(rev, t)) = PeerEnd(Pos(rev, u)) => t = u
  BY <1>2, LinksLemma
<1>14. \A n \in PrivateNetworks(rev) : p.dst \in sets[n] => networks # {}
  <2>1. \A t \in PrivateNetworks(rev) : NetworkFor(rev, t) \in plan.internals /\ NetworkFor(rev, t).id = t
    BY <1>2, NetworksLemma DEF NetworkFor
  <2> HIDE DEF rev
  <2> QED
    BY <2>1 DEF Matching
<1>15. LinkOf(egress) = IF egress = Direct THEN Uplink ELSE egress
  BY DEF LinkOf
<1>16. \A n \in PrivateNetworks(rev) : sets[n] \subseteq Addresses
  BY DEF Learned
<1> HIDE DEF rev, up, plan, socks, egress, networks, nearest, mark, dst, out, fate, ways
<1>17. CASE out = Local
  BY <1>3, <1>17 DEF rev, up, plan, socks, fate
<1>18. CASE out # Local /\ ~ForwardAccepts(plan, sets, socks, p, dst, out)
  BY <1>3, <1>18 DEF rev, up, plan, socks, fate
<1>19. ASSUME out # Local, out = Ingress, ACLAccepts(plan, p, dst) PROVE out \in ways
  <2>1. PICK rule \in config.acls :
          /\ rule.source \in {d, Anyone} /\ rule.target \in DOMAIN config.devices \ revoked
          /\ config.devices[rule.target].address = dst
          /\ rule.proto = p.proto /\ rule.port = p.port
    BY <1>11, <1>19
  <2>2. dst \in Subnet
    BY <1>12, <2>1
  <2>3. dst = p.dst
    BY <1>5, <1>8, <2>2
  <2>4. ACLPermits(config, revoked, d, p)
    BY <2>1, <2>3 DEF ACLPermits
  <2> QED
    BY <1>10, <1>19, <2>4
<1>20. ASSUME out # Local, out # Ingress, UsedBy(rev, sets, d, p, dst, out) PROVE out \in ways
  <2>0. ~IsLocal(rev, up, dst)
    BY <1>6, <1>20
  <2>1. CASE out \in PrivateNetworks(rev) /\ MayUse(rev.tunnels[out], d) /\ dst \in sets[out]
    <3>1. dst \in Addresses /\ dst = p.dst
      BY <1>5, <1>8, <1>16, <2>1
    <3>2. networks # {} /\ out \in DOMAIN rev.tunnels /\ out \in Tunnels
      BY <1>9, <1>14, <2>1, <3>1
    <3>3. nearest \in up
      <4> SUFFICES ASSUME nearest \notin up PROVE FALSE
        OBVIOUS
      <4>1. ByMain(rev, up, dst, out)
        BY <1>6, <2>0, <3>2
      <4> QED
        BY <1>2, <1>8, <1>20, <3>1, <3>2, <4>1, FatesAssumption DEF ByMain
    <3> QED
      BY <1>6, <1>10, <2>0, <2>1, <3>2, <3>3
  <2>2. CASE out = LinkOf(egress)
    <3> SUFFICES ASSUME networks # {}, egress # Direct \/ nearest \in up PROVE FALSE
      BY <1>10, <2>2
    <3>1. nearest \in Tunnels /\ nearest \in Private /\ p.dst \in Addresses
      BY <1>7, <1>9
    <3>2. nearest \notin up
      BY <1>6, <1>9, <1>15, <2>0, <2>2, <3>1, FatesAssumption
    <3>3. ByMain(rev, up, dst, out)
      BY <1>6, <2>0, <3>2
    <3>4. out = egress /\ out \in DOMAIN rev.tunnels /\ out \in Tunnels
      BY <1>9, <1>15, <2>2, <3>2
    <3>5. dst = PeerEnd(Pos(rev, out))
      BY <1>20, <3>3, <3>4, FatesAssumption DEF ByMain
    <3> QED
      BY <1>5, <1>8, <3>1, <3>4, <3>5
  <2>3. CASE /\ out \in DOMAIN rev.tunnels /\ MayUse(rev.tunnels[out], d)
             /\ p.proto = "tcp" /\ p.port = 11080 + Pos(rev, out)
    <3>1. out \in Tunnels /\ out # Uplink /\ out # Ingress
      BY <1>9, <2>3, FatesAssumption
    <3>2. CASE ByMain(rev, up, dst, out)
      <4>1. dst = PeerEnd(Pos(rev, out))
        BY <3>1, <3>2 DEF ByMain
      <4>2. p.dst \in {HostEnd(Pos(rev, out)), PeerEnd(Pos(rev, out))}
        BY <1>5, <1>13, <2>3, <4>1
      <4> QED
        BY <1>10, <2>3, <4>2
    <3>3. CASE networks # {} /\ nearest \in up
      BY <1>6, <1>10, <2>0, <2>3, <3>3
    <3>4. CASE networks = {} /\ p.dst \notin Subnet /\ egress \in up
      <4>1. out = egress /\ egress # Direct
        BY <1>6, <1>9, <2>0, <2>3, <3>4
      <4> QED
        BY <1>10, <1>15, <3>4, <4>1
    <3> QED
      BY <1>6, <2>0, <3>2, <3>3, <3>4
  <2> QED
    BY <1>20, <2>1, <2>2, <2>3 DEF UsedBy, egress
<1>21. CASE out # Local /\ ForwardAccepts(plan, sets, socks, p, dst, out)
  <2>1. fate = out /\ out \in ways
    BY <1>3, <1>4, <1>19, <1>20, <1>21
  <2> QED
    BY <2>1 DEF rev, up, plan, socks, fate, ways
<1> QED
  BY <1>17, <1>18, <1>21

LEMMA PacketLemma ==
  ASSUME HubInv, NEW d \in DOMAIN Revision.devices,
         NEW p \in Packets(Host, Ingress, {config.devices[d].address}, TRUE)
  PROVE  /\ d \in DOMAIN Deployed.devices /\ Deployed.devices[d] = config.devices[d]
         /\ NewFrom(Deployed, d, p)
<1>1. d \in DOMAIN Deployed.devices /\ Deployed.devices[d] = config.devices[d]
  BY DeployedLemma
<1>2. p.in = Ingress /\ p.src = config.devices[d].address /\ p.new = TRUE
  BY DEF Packets
<1> QED
  BY <1>1, <1>2 DEF NewFrom

LEMMA OwnWayLemma == HubInv => OwnWayOut
<1> SUFFICES ASSUME HubInv, ~Dangling(config, revoked), NEW c \in Conditions(Host),
                    NEW d \in DOMAIN Revision.devices,
                    NEW p \in Packets(Host, Ingress, {config.devices[d].address}, TRUE)
             PROVE  Delivery(Host.firewall, Host.socks, SetsIn(Host, c), NetIn(Host, c), Endpoint, p)
                      \in WaysOut(config, revoked, Host, SetsIn(Host, c), c, d, p) \cup {Local, Dropped}
  BY Zenon DEF OwnWayOut
<1> DEFINE sets == SetsIn(Host, c)
           up == c.up
<1>1. /\ Deployable(Deployed) /\ Host.firewall = Plan(Deployed) /\ Host.socks = Socks(Deployed)
      /\ NetIn(Host, c) = Net(Deployed, up)
  BY DeployableLemma, HostLemma, ConditionsLemma
<1>2. Learned(Deployed, sets) /\ up \in SUBSET DOMAIN Deployed.tunnels
  BY ConditionsLemma
<1>3. d \in DOMAIN Deployed.devices /\ NewFrom(Deployed, d, p)
  BY PacketLemma
<1> HIDE DEF sets
<1>4. CASE p.port = 53
  <2> HIDE DEF up
  <2>1. Delivery(Plan(Deployed), Socks(Deployed), sets, Net(Deployed, up), Endpoint, p)
          = IF Deployed.devices[d].egress \in up \cup {Direct} THEN Local ELSE Dropped
    BY <1>1, <1>2, <1>3, <1>4, LookupLemma
  <2> QED
    BY <1>1, <2>1 DEF sets
<1>5. CASE p.port # 53
  <2>1. Delivery(Plan(Deployed), Socks(Deployed), sets, Net(Deployed, up), Endpoint, p)
          \in WaysOut(config, revoked, Host, sets, c, d, p) \cup {Local, Dropped}
    BY <1>2, <1>3, <1>5, WayOutLemma
  <2> QED
    BY <1>1, <2>1 DEF sets
<1> QED
  BY <1>4, <1>5

\* Where a new connection of a device must arrive.
ArrivesWhereItMust(up, d, sets, p) ==
  LET networks == Matching(Plan(Deployed), sets, p.dst)
      nearest == First(networks).id
      egress == Deployed.devices[d].egress
      fate == Delivery(Plan(Deployed), Socks(Deployed), sets, Net(Deployed, up), Endpoint, p)
  IN  /\ /\ networks # {} /\ nearest \in up /\ MayUse(Deployed.tunnels[nearest], d)
         /\ p.port # 853 /\ p.dst # HubAddress
         => fate = nearest
      /\ /\ networks = {} /\ p.dst \in Destinations /\ p.port # 853
         /\ egress \in up \cup {Direct}
         => fate = LinkOf(egress)
      /\ networks = {} /\ ACLPermits(config, revoked, d, p) => fate = Ingress
      /\ \A t \in up :
           /\ networks = {} /\ p.dst = HostEnd(Pos(Deployed, t))
           /\ p.port = 11080 + Pos(Deployed, t) /\ p.proto = "tcp"
           /\ egress \in {t, Direct} /\ MayUse(Deployed.tunnels[t], d)
           => fate = t

LEMMA ArrivesLemma ==
  ASSUME HubInv, NEW up \in SUBSET DOMAIN Deployed.tunnels, NEW d \in DOMAIN Deployed.devices,
         NEW sets, Learned(Deployed, sets), NEW p, NewFrom(Deployed, d, p), p.port # 53
  PROVE  ArrivesWhereItMust(up, d, sets, p)
<1> DEFINE rev == Deployed
           plan == Plan(rev)
           socks == Socks(rev)
           egress == rev.devices[d].egress
           networks == Matching(plan, sets, p.dst)
           nearest == First(networks).id
           mark == MarkOnArrival(plan, sets, p)
           dst == Redirected(plan, socks, p)
           out == RouteOf(Net(rev, up), Endpoint, mark, dst)
           fate == Delivery(plan, socks, sets, Net(rev, up), Endpoint, p)
<1>1. /\ p.in = Ingress /\ p.new = TRUE /\ p.src = rev.devices[d].address
  BY DEF NewFrom
<1>2. Deployable(rev)
  BY DeployableLemma
<1>3. out # Local => fate = IF ForwardAccepts(plan, sets, socks, p, dst, out) THEN out ELSE Dropped
  BY <1>1, DeliveryLemma
<1>4. ForwardAccepts(plan, sets, socks, p, dst, out) <=>
        \/ out = Ingress /\ ACLAccepts(plan, p, dst)
        \/ /\ out # Ingress /\ ~(p.proto = "tcp" /\ p.port = 853)
           /\ UsedBy(rev, sets, d, p, dst, out)
  BY <1>2, DeviceForwardLemma
<1>5. \/ \E t \in DOMAIN rev.tunnels :
           p.dst = HostEnd(Pos(rev, t)) /\ dst = PeerEnd(Pos(rev, t))
      \/ /\ dst = p.dst
         /\ \A t \in DOMAIN rev.tunnels :
              ~(p.dst = HostEnd(Pos(rev, t)) /\ p.port = 11080 + Pos(rev, t) /\ p.proto = "tcp")
  BY <1>1, <1>2, RedirectLemma
<1>6. ~IsLocal(rev, up, dst) =>
        /\ networks # {} /\ nearest \in up => out = nearest
        /\ networks = {} /\ p.dst \in Subnet => ByMain(rev, up, dst, out)
        /\ networks = {} /\ p.dst \notin Subnet /\ egress \in up => out = egress
        /\ networks = {} /\ egress \notin up => ByMain(rev, up, dst, out)
  BY <1>1, <1>2, DeviceRouteLemma
<1>7. networks # {} => /\ nearest \in PrivateNetworks(rev) /\ p.dst \in Addresses
                       /\ p.dst \in sets[nearest]
  BY <1>2, MatchingLemma, EgressesLemma
<1>8. \A t \in DOMAIN rev.tunnels :
        HostEnd(Pos(rev, t)) \notin Addresses /\ PeerEnd(Pos(rev, t)) \notin Addresses
          /\ HostEnd(Pos(rev, t)) \notin Subnet /\ PeerEnd(Pos(rev, t)) \notin Subnet
  BY <1>2, LinksLemma, LinkEndsLemma
<1>9. /\ DOMAIN rev.tunnels \subseteq Tunnels /\ Direct \notin DOMAIN rev.tunnels
      /\ egress = Direct \/ egress \in DOMAIN rev.tunnels
      /\ PrivateNetworks(rev) \subseteq DOMAIN rev.tunnels
  BY <1>2, EgressesLemma DEF Deployable
<1>10. /\ \A a \in Addresses : a # HubAddress => ~IsLocal(rev, up, a)
       /\ \A t \in DOMAIN rev.tunnels : ~IsLocal(rev, up, PeerEnd(Pos(rev, t)))
  BY <1>2, LocalLemma
<1>11. ACLPermits(config, revoked, d, p) => ACLAccepts(plan, p, p.dst)
  BY <1>1, RulesLemma
<1>12. \A t, u \in DOMAIN rev.tunnels :
         /\ HostEnd(Pos(rev, t)) = HostEnd(Pos(rev, u)) => t = u
         /\ PeerEnd(Pos(rev, t)) = PeerEnd(Pos(rev, u)) => t = u
  BY <1>2, LinksLemma
<1>13. LinkOf(egress) = IF egress = Direct THEN Uplink ELSE egress
  BY DEF LinkOf
<1>14. p.dst \in Addresses => dst = p.dst
  BY <1>5, <1>8
<1>15. /\ Subnet \subseteq Addresses /\ Destinations \subseteq Addresses
       /\ Destinations \cap Subnet = {} /\ HubAddress \in Subnet
  BY LinkEndsLemma, DestinationsAssumption DEF Addresses
<1>16. /\ out \in Tunnels \cup {Uplink} /\ UsedBy(rev, sets, d, p, dst, out) /\ p.port # 853 => fate = out
       /\ out = Ingress /\ ACLAccepts(plan, p, dst) => fate = out
  <2> HIDE DEF plan, socks, rev, dst, out, fate
  <2> QED
    BY <1>3, <1>4, FatesAssumption
<1>17. \A t \in DOMAIN rev.tunnels : Pos(rev, t) \in Nat
  BY <1>2, PosLemma
<1> HIDE DEF rev, plan, socks, egress, networks, nearest, mark, dst, out, fate
<1>18. ASSUME networks # {}, nearest \in up, MayUse(rev.tunnels[nearest], d), p.port # 853, p.dst # HubAddress
       PROVE  fate = nearest
  <2>1. out = nearest /\ nearest \in Tunnels
    BY <1>6, <1>7, <1>9, <1>10, <1>14, <1>18
  <2>2. UsedBy(rev, sets, d, p, dst, out)
    BY <1>7, <1>14, <1>18, <2>1 DEF UsedBy
  <2> QED
    BY <1>16, <1>18, <2>1, <2>2
<1>19. ASSUME networks = {}, p.dst \in Destinations, p.port # 853, egress \in up \cup {Direct}
       PROVE  fate = LinkOf(egress)
  <2>1. dst = p.dst /\ ~IsLocal(rev, up, dst) /\ dst \notin Subnet /\ dst \in Addresses
    BY <1>10, <1>14, <1>15, <1>19
  <2>2. out = LinkOf(egress)
    <3>1. CASE egress = Direct
      <4>1. ByMain(rev, up, dst, out)
        BY <1>6, <1>9, <1>19, <2>1, <3>1 DEF rev
      <4> QED
        BY <1>8, <1>13, <2>1, <3>1, <4>1 DEF ByMain, rev
    <3>2. CASE egress # Direct
      BY <1>6, <1>13, <1>19, <2>1, <3>2
    <3> QED
      BY <3>1, <3>2
  <2>3. out \in Tunnels \cup {Uplink}
    BY <1>9, <1>13, <2>2
  <2>4. UsedBy(rev, sets, d, p, dst, out)
    BY <2>2 DEF UsedBy, egress
  <2> QED
    BY <1>16, <1>19, <2>2, <2>3, <2>4
<1>20. ASSUME networks = {}, ACLPermits(config, revoked, d, p) PROVE fate = Ingress
  <2>1. p.dst \in Subnet /\ p.dst # HubAddress
    <3>1. PICK e \in DOMAIN config.devices : config.devices[e].address = p.dst
      BY <1>20 DEF ACLPermits
    <3>2. UsableAddress(config.devices[e].address)
      BY DEF HubInv, WellFormed, Validate, ValidDevices
    <3> QED
      BY <3>1, <3>2 DEF UsableAddress
  <2>2. dst = p.dst /\ ~IsLocal(rev, up, dst)
    BY <1>10, <1>14, <1>15, <2>1
  <2>3. out = Ingress
    BY <1>6, <1>20, <2>1, <2>2 DEF ByMain
  <2> QED
    BY <1>11, <1>16, <1>20, <2>2, <2>3
<1>21. ASSUME NEW t \in up, networks = {}, p.dst = HostEnd(Pos(rev, t)),
              p.port = 11080 + Pos(rev, t), p.proto = "tcp",
              egress \in {t, Direct}, MayUse(rev.tunnels[t], d)
       PROVE  fate = t
  <2>0. t \in DOMAIN rev.tunnels
    BY DEF rev
  <2>1. dst = PeerEnd(Pos(rev, t))
    BY <1>5, <1>12, <1>21, <2>0
  <2>2. ~IsLocal(rev, up, dst) /\ dst \notin Subnet /\ p.dst \notin Subnet
    BY <1>8, <1>10, <1>21, <2>0, <2>1
  <2>3. out = t
    <3>1. CASE egress = t
      BY <1>6, <1>21, <2>2, <3>1
    <3>2. CASE egress = Direct
      <4>1. ByMain(rev, up, dst, out)
        BY <1>6, <1>9, <1>21, <2>2, <3>2 DEF rev
      <4> QED
        BY <1>12, <2>0, <2>1, <2>2, <4>1 DEF ByMain, rev
    <3> QED
      BY <1>21, <3>1, <3>2
  <2>4. UsedBy(rev, sets, d, p, dst, out) /\ out \in Tunnels
    BY <1>9, <1>21, <2>0, <2>3 DEF UsedBy
  <2>5. p.port # 853
    BY <1>17, <1>21, <2>0
  <2> QED
    BY <1>16, <2>3, <2>4, <2>5
<1> QED
  BY <1>18, <1>19, <1>20, <1>21 DEF ArrivesWhereItMust, rev, plan, socks, egress, networks, nearest, fate


LEMMA ShadowLemma == HubInv => NothingShadowed
<1> SUFFICES ASSUME HubInv, NEW c \in Conditions(Host),
                    NEW d \in DOMAIN Revision.devices,
                    NEW p \in Packets(Host, Ingress, {config.devices[d].address}, TRUE)
             PROVE  LET sets == SetsIn(Host, c)
                        egress == config.devices[d].egress
                        private == PrivateFor(Host, sets, p.dst)
                        fate == Delivery(Host.firewall, Host.socks, sets, NetIn(Host, c), Endpoint, p)
                        plain == p.port \notin {53, 853}
                    IN  /\ \A t \in private \cap c.up :
                             MayUse(config.tunnels[t], d) /\ plain /\ p.dst # HubAddress => fate = t
                        /\ private = {} /\ p.dst \in Destinations /\ plain
                             /\ egress \in c.up \cup {Direct} => fate = LinkOf(egress)
                        /\ private = {} /\ p.port # 53 /\ ACLPermits(config, revoked, d, p)
                             => fate = Ingress
                        /\ \A s \in Host.socks :
                             /\ private = {} /\ p.dst = s.address /\ p.port = s.port
                             /\ p.proto = "tcp" /\ s.id \in c.up
                             /\ egress \in {s.id, Direct} /\ MayUse(config.tunnels[s.id], d)
                             => fate = s.id
  BY Zenon DEF NothingShadowed
<1> DEFINE rev == Deployed
           sets == SetsIn(Host, c)
           up == c.up
           egress == config.devices[d].egress
           networks == Matching(Plan(rev), sets, p.dst)
           nearest == First(networks).id
           private == PrivateFor(Host, sets, p.dst)
           fate == Delivery(Host.firewall, Host.socks, sets, NetIn(Host, c), Endpoint, p)
<1>1. /\ Deployable(rev) /\ Host.firewall = Plan(rev) /\ Host.socks = Socks(rev)
      /\ NetIn(Host, c) = Net(rev, up)
  BY DeployableLemma, HostLemma, ConditionsLemma
<1>2. Learned(rev, sets) /\ up \in SUBSET DOMAIN rev.tunnels
  BY ConditionsLemma
<1>3. d \in DOMAIN rev.devices /\ NewFrom(rev, d, p) /\ egress = rev.devices[d].egress
  BY PacketLemma
<1>4. private = IF networks = {} THEN {} ELSE {nearest}
  BY <1>1, Zenon DEF PrivateFor
<1>5. \A t \in up : config.tunnels[t] = rev.tunnels[t]
  BY <1>2, DeployedLemma
<1>6. \A s \in Host.socks : /\ s.id \in DOMAIN rev.tunnels /\ s.address = HostEnd(Pos(rev, s.id))
                            /\ s.port = 11080 + Pos(rev, s.id) /\ s.port # 53
  <2>1. \A t \in DOMAIN rev.tunnels : Pos(rev, t) \in Nat
    BY <1>1, PosLemma
  <2> SUFFICES ASSUME NEW s \in Host.socks
               PROVE  /\ s.id \in DOMAIN rev.tunnels /\ s.address = HostEnd(Pos(rev, s.id))
                      /\ s.port = 11080 + Pos(rev, s.id) /\ s.port # 53
    OBVIOUS
  <2>2. PICK t \in DOMAIN rev.tunnels : s = SocksFor(rev, t)
    BY <1>1, SocksLemma
  <2>3. s.id = t /\ s.address = HostEnd(Pos(rev, t)) /\ s.port = 11080 + Pos(rev, t)
    BY <2>2 DEF SocksFor
  <2> QED
    BY <2>1, <2>3
<1>7. p.port # 53 =>
        /\ /\ networks # {} /\ nearest \in up /\ MayUse(rev.tunnels[nearest], d)
           /\ p.port # 853 /\ p.dst # HubAddress
           => fate = nearest
        /\ /\ networks = {} /\ p.dst \in Destinations /\ p.port # 853
           /\ egress \in up \cup {Direct}
           => fate = LinkOf(egress)
        /\ networks = {} /\ ACLPermits(config, revoked, d, p) => fate = Ingress
        /\ \A t \in up :
             /\ networks = {} /\ p.dst = HostEnd(Pos(rev, t))
             /\ p.port = 11080 + Pos(rev, t) /\ p.proto = "tcp"
             /\ egress \in {t, Direct} /\ MayUse(rev.tunnels[t], d)
             => fate = t
  <2> DEFINE way == rev.devices[d].egress
             end == Delivery(Plan(rev), Socks(rev), sets, Net(rev, up), Endpoint, p)
  <2>1. egress = way /\ fate = end
    BY <1>1, <1>3
  <2>2. CASE p.port # 53
    <3>1. /\ /\ networks # {} /\ nearest \in up /\ MayUse(rev.tunnels[nearest], d)
             /\ p.port # 853 /\ p.dst # HubAddress
             => end = nearest
          /\ /\ networks = {} /\ p.dst \in Destinations /\ p.port # 853
             /\ way \in up \cup {Direct}
             => end = LinkOf(way)
          /\ networks = {} /\ ACLPermits(config, revoked, d, p) => end = Ingress
          /\ \A t \in up :
               /\ networks = {} /\ p.dst = HostEnd(Pos(rev, t))
               /\ p.port = 11080 + Pos(rev, t) /\ p.proto = "tcp"
               /\ way \in {t, Direct} /\ MayUse(rev.tunnels[t], d)
               => end = t
      <4>1. ArrivesWhereItMust(up, d, sets, p)
        <5> HIDE DEF sets, up
        <5> QED
          BY <1>2, <1>3, <2>2, ArrivesLemma
      <4> HIDE DEF sets, up
      <4> QED
        BY <4>1 DEF ArrivesWhereItMust
    <3> HIDE DEF rev, sets, up, egress, networks, nearest, private, fate, way, end
    <3> QED
      BY <2>1, <3>1
  <2> QED
    BY <2>2
<1> HIDE DEF rev, sets, up, egress, networks, nearest, private, fate
<1>8. \A t \in private \cap up :
        MayUse(config.tunnels[t], d) /\ p.port \notin {53, 853} /\ p.dst # HubAddress => fate = t
  BY <1>4, <1>5, <1>7
<1>9. private = {} /\ p.dst \in Destinations /\ p.port \notin {53, 853}
        /\ egress \in up \cup {Direct} => fate = LinkOf(egress)
  BY <1>4, <1>7
<1>10. private = {} /\ p.port # 53 /\ ACLPermits(config, revoked, d, p) => fate = Ingress
  BY <1>4, <1>7
<1>11. ASSUME NEW s \in Host.socks, private = {}, p.dst = s.address, p.port = s.port,
              p.proto = "tcp", s.id \in up, egress \in {s.id, Direct}, MayUse(config.tunnels[s.id], d)
       PROVE  fate = s.id
  <2>1. p.port # 53 /\ networks = {} /\ MayUse(rev.tunnels[s.id], d)
    BY <1>4, <1>5, <1>6, <1>11
  <2> QED
    BY <1>6, <1>7, <1>11, <2>1
<1> QED
  BY <1>8, <1>9, <1>10, <1>11 DEF rev, sets, up, egress, private, fate


-----------------------------------------------------------------------------
(* What the edits keep.                                                    *)

\* An edit leaves a configuration of the same shape, with routes and resolvers among
\* the same addresses; that it is valid is what the edit's guard is for.
LEMMA EditedLemma ==
  ASSUME NEW cfg, IsConfiguration(cfg), WithinAddresses(cfg), NEW e, EditsAField(e)
  PROVE  IsConfiguration(Apply(cfg, e)) /\ WithinAddresses(Apply(cfg, e))
<1> DEFINE new == Apply(cfg, e)
<1>1. CASE e.section = "hub" /\ e.verb \in {"set", "unset"} /\ e.field \in HubFields
  <2>1. new = [cfg EXCEPT !.hub = [cfg.hub EXCEPT ![e.field] = e.value]]
    BY <1>1 DEF Apply
  <2>2. /\ DOMAIN new = {"hub", "devices", "tunnels", "acls"}
        /\ new.hub = [cfg.hub EXCEPT ![e.field] = e.value]
        /\ new.devices = cfg.devices /\ new.tunnels = cfg.tunnels
    BY <2>1 DEF IsConfiguration
  <2> HIDE DEF new
  <2> QED
    BY <2>2 DEF IsConfiguration, WithinAddresses, new
<1>2. CASE e.section = "acls" /\ e.verb \in {"add", "remove"}
  <2> DEFINE acls == IF e.verb = "add" THEN cfg.acls \cup {e.value} ELSE cfg.acls \ {e.value}
  <2>1. new = [cfg EXCEPT !.acls = acls]
    <3>1. CASE e.verb = "add"
      BY <1>2, <3>1 DEF Apply
    <3>2. CASE e.verb = "remove"
      BY <1>2, <3>2 DEF Apply
    <3> QED
      BY <1>2, <3>1, <3>2
  <2> HIDE DEF acls
  <2>2. /\ DOMAIN new = {"hub", "devices", "tunnels", "acls"}
        /\ new.hub = cfg.hub /\ new.devices = cfg.devices /\ new.tunnels = cfg.tunnels
    BY <2>1 DEF IsConfiguration
  <2> HIDE DEF new
  <2> QED
    BY <2>2 DEF IsConfiguration, WithinAddresses, new
<1>3. ASSUME e.section = "devices", e.id \in Devices,
             \/ e.verb = "set" /\ e.field \in DeviceFields
             \/ e.verb = "add" /\ DOMAIN e.value = DeviceFields
             \/ e.verb = "remove"
      PROVE  IsConfiguration(new) /\ WithinAddresses(new)
  <2> DEFINE set == [cfg.devices EXCEPT ![e.id] = [cfg.devices[e.id] EXCEPT ![e.field] = e.value]]
             devices == IF e.verb = "set" THEN set
                        ELSE IF e.verb = "add" THEN With(cfg.devices, e.id, e.value)
                        ELSE Only(cfg.devices, DOMAIN cfg.devices \ {e.id})
  <2>1. new = [cfg EXCEPT !.devices = devices]
    <3>1. CASE e.verb = "set"
      BY <1>3, <3>1 DEF Apply
    <3>2. CASE e.verb = "add"
      BY <1>3, <3>2 DEF Apply
    <3>3. CASE e.verb = "remove"
      BY <1>3, <3>3 DEF Apply
    <3> QED
      BY <1>3, <3>1, <3>2, <3>3
  <2>2. /\ DOMAIN devices \subseteq Devices
        /\ \A d \in DOMAIN devices : DOMAIN devices[d] = DeviceFields
    <3>1. CASE e.verb = "set"
      <4>1. devices = set
        BY <3>1
      <4>2. DOMAIN set = DOMAIN cfg.devices /\ \A d \in DOMAIN set : DOMAIN set[d] = DeviceFields
        BY DEF IsConfiguration
      <4> HIDE DEF set, devices
      <4> QED
        BY <4>1, <4>2 DEF IsConfiguration
    <3>2. CASE e.verb = "add"
      BY <1>3, <3>2 DEF IsConfiguration, With
    <3>3. CASE e.verb = "remove"
      BY <1>3, <3>3 DEF IsConfiguration, Only
    <3> QED
      BY <1>3, <3>1, <3>2, <3>3
  <2> HIDE DEF devices
  <2>3. /\ DOMAIN new = {"hub", "devices", "tunnels", "acls"}
        /\ new.hub = cfg.hub /\ new.devices = devices /\ new.tunnels = cfg.tunnels
    BY <2>1 DEF IsConfiguration
  <2> HIDE DEF new
  <2> QED
    BY <2>2, <2>3 DEF IsConfiguration, WithinAddresses
<1>4. ASSUME e.section = "tunnels", e.id \in Tunnels,
             \/ e.verb = "set" /\ e.field = "enabled"
             \/ e.verb \in {"set", "unset"} /\ e.field = "probe"
             \/ /\ e.verb \in {"append", "drop"}
                /\ \/ e.field \in {"zones", "allowed"}
                   \/ e.field = "routes" /\ e.value \subseteq Addresses
                   \/ e.field = "servers" /\ e.value \in Addresses
      PROVE  IsConfiguration(new) /\ WithinAddresses(new)
  <2> DEFINE old == cfg.tunnels[e.id][e.field]
             value == IF e.verb \in {"set", "unset"} THEN e.value
                      ELSE IF e.verb = "append" THEN old \cup {e.value} ELSE old \ {e.value}
             tunnels == [cfg.tunnels EXCEPT ![e.id] = [cfg.tunnels[e.id] EXCEPT ![e.field] = value]]
  <2>1. new = [cfg EXCEPT !.tunnels = tunnels]
    <3>1. CASE e.verb \in {"set", "unset"}
      BY <1>4, <3>1 DEF Apply
    <3>2. CASE e.verb = "append"
      BY <1>4, <3>2 DEF Apply
    <3>3. CASE e.verb = "drop"
      BY <1>4, <3>3 DEF Apply
    <3> QED
      BY <1>4, <3>1, <3>2, <3>3
  <2>2. e.id \in DOMAIN cfg.tunnels =>
          /\ e.field = "routes" => value \subseteq SUBSET Addresses
          /\ e.field = "servers" => value \subseteq Addresses
    <3> SUFFICES ASSUME e.id \in DOMAIN cfg.tunnels, e.field \in {"routes", "servers"}
                 PROVE  /\ e.field = "routes" => value \subseteq SUBSET Addresses
                        /\ e.field = "servers" => value \subseteq Addresses
      OBVIOUS
    <3>1. value \in {old \cup {e.value}, old \ {e.value}}
      BY <1>4
    <3>2. /\ e.field = "routes" => old \subseteq SUBSET Addresses /\ e.value \in SUBSET Addresses
          /\ e.field = "servers" => old \subseteq Addresses /\ e.value \in Addresses
      BY <1>4 DEF WithinAddresses
    <3> HIDE DEF old, value
    <3> QED
      BY <3>1, <3>2
  <2> HIDE DEF value
  <2>3. DOMAIN tunnels = DOMAIN cfg.tunnels
    OBVIOUS
  <2>4. ASSUME NEW t \in DOMAIN cfg.tunnels
        PROVE  /\ DOMAIN tunnels[t] = TunnelFields
               /\ \A field \in TunnelFields :
                    tunnels[t][field] = IF t = e.id /\ field = e.field THEN value ELSE cfg.tunnels[t][field]
    BY DEF IsConfiguration
  <2> HIDE DEF tunnels
  <2>5. \A t \in DOMAIN tunnels : tunnels[t].routes \subseteq SUBSET Addresses /\ tunnels[t].servers \subseteq Addresses
    <3>1. "routes" \in TunnelFields /\ "servers" \in TunnelFields
      BY DEF TunnelFields
    <3> SUFFICES ASSUME NEW t \in DOMAIN tunnels
                 PROVE  tunnels[t].routes \subseteq SUBSET Addresses /\ tunnels[t].servers \subseteq Addresses
      OBVIOUS
    <3>2. cfg.tunnels[t].routes \subseteq SUBSET Addresses /\ cfg.tunnels[t].servers \subseteq Addresses
      BY <2>3 DEF WithinAddresses
    <3>3. tunnels[t].routes \subseteq SUBSET Addresses
      BY <2>2, <2>3, <2>4, <3>1, <3>2
    <3>4. tunnels[t].servers \subseteq Addresses
      BY <2>2, <2>3, <2>4, <3>1, <3>2
    <3> QED
      BY <3>3, <3>4
  <2>6. /\ DOMAIN new = {"hub", "devices", "tunnels", "acls"}
        /\ new.hub = cfg.hub /\ new.devices = cfg.devices /\ new.tunnels = tunnels
    BY <2>1 DEF IsConfiguration
  <2> HIDE DEF new
  <2> QED
    BY <2>3, <2>4, <2>5, <2>6 DEF IsConfiguration, WithinAddresses
<1> QED
  BY <1>1, <1>2, <1>3, <1>4 DEF EditsAField

LEMMA InitLemma == Init => HubInv
<1> SUFFICES ASSUME Init PROVE HubInv
  OBVIOUS
<1>1. WellFormed(config)
  BY WrittenAssumption DEF Init, WellFormed
<1>2. revoked \subseteq Devices /\ edits \in 0 .. MaxEdits
  BY MaxEditsAssumption DEF Init
<1>3. keyed \in BOOLEAN
  BY Zenon DEF Init
<1> QED
  BY <1>1, <1>2, <1>3 DEF HubInv

LEMMA NextLemma == HubInv /\ [Next]_vars => HubInv'
<1> SUFFICES ASSUME HubInv, [Next]_vars PROVE HubInv'
  OBVIOUS
<1>1. Spend => edits' \in 0 .. MaxEdits
  BY MaxEditsAssumption DEF Spend, HubInv
<1>2. ASSUME NEW e \in Edits, Change(e) PROVE HubInv'
  <2>1. IsConfiguration(config) /\ WithinAddresses(config) /\ EditsAField(e)
    BY EditsAssumption DEF HubInv, WellFormed
  <2>2. config' = Apply(config, e) /\ Validate(Apply(config, e)) /\ Spend
        /\ revoked' = revoked /\ keyed' = keyed
    BY <1>2 DEF Change
  <2>3. WellFormed(Apply(config, e))
    BY <2>1, <2>2, EditedLemma DEF WellFormed
  <2>4. WellFormed(config)'
    BY <2>2, <2>3
  <2> QED
    BY <1>1, <2>2, <2>4 DEF HubInv
<1>3. ASSUME NEW d \in Devices, Revoke(d) \/ Readmit(d) PROVE HubInv'
  <2>1. config' = config /\ keyed' = keyed /\ revoked' \subseteq Devices /\ Spend
    BY <1>3 DEF Revoke, Readmit, HubInv
  <2>2. WellFormed(config)'
    BY <2>1 DEF HubInv
  <2> QED
    BY <1>1, <2>1, <2>2 DEF HubInv
<1>4. CASE GenerateRealityKey
  <2>1. WellFormed(config)'
    BY <1>4 DEF GenerateRealityKey, HubInv
  <2> QED
    BY <1>4, <2>1 DEF GenerateRealityKey, HubInv
<1>5. CASE UNCHANGED vars
  <2>1. WellFormed(config)'
    BY <1>5 DEF vars, HubInv
  <2> QED
    BY <1>5, <2>1 DEF vars, HubInv
<1> QED
  BY <1>2, <1>3, <1>4, <1>5 DEF Next

-----------------------------------------------------------------------------
(* Theorems.                                                               *)

\* The configuration the operator keeps editing stays one the validation accepts, and
\* the revocation list names devices: what everything below is compiled from.
THEOREM HubTypeCorrect == Spec => []TypeOK
<1>1. HubInv => TypeOK
  BY DEF HubInv, WellFormed, TypeOK
<1> QED
  BY <1>1, InitLemma, NextLemma, PTL DEF Spec

\* Whatever is edited, revoked and let back in, and whichever namespaces stand: a new
\* connection of a device leaves by its own egress, by a private network or a SOCKS
\* endpoint it may use, or towards a client an ACL opens to it.
THEOREM DevicesLeaveTheirOwnWay == Spec => []OwnWayOut
  BY InitLemma, NextLemma, OwnWayLemma, PTL DEF Spec

\* Nothing in the ruleset stands before a rule a connection needs: where the
\* configuration sends it and the tunnel stands, it arrives.
THEOREM ConnectionsArrive == Spec => []NothingShadowed
  BY InitLemma, NextLemma, ShadowLemma, PTL DEF Spec

\* A lookup of a device, whatever server it is sent to, is answered by the resolver of
\* the device's own egress, or by nobody while that egress is down.
THEOREM LookupsStayWithTheEgress == Spec => []DnsOwnEgress
  BY InitLemma, NextLemma, DnsLemma, PTL DEF Spec

\* What the hub sends itself, for the users of the fallback listener and for the
\* resolvers of private zones, leaves by the tunnel it was meant for.
THEOREM OwnTrafficIsConfined == Spec => []HubOriginated
  BY InitLemma, NextLemma, OriginatedLemma, PTL DEF Spec

\* Neither the internet nor a tunnel's far end is forwarded through the hub; a
\* namespace reaches its provider and nothing else.
THEOREM OutsidersAreConfined == Spec => []OutsidersConfined
  BY InitLemma, NextLemma, ConfinedLemma, PTL DEF Spec
=============================================================================
