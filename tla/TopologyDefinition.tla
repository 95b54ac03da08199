-------------------------- MODULE TopologyDefinition --------------------------
(***************************************************************************)
(* A topology definition while it is loaded: the attributes are set in the *)
(* order of the class, each is validated against those set before it, and  *)
(* the first that does not pass rejects the document.  Once loaded, with   *)
(* the file of its containers, it is checked again when a sandbox          *)
(* definition is made of it (CreateDefinition of module TopologyInstance). *)
(*                                                                         *)
(* Lists are sets where their order decides nothing; an address is an      *)
(* integer, and a CIDR is the set of its addresses.                        *)
(***************************************************************************)
EXTENDS Integers, Sequences, SequencesExt, FiniteSets, TLC

CONSTANTS
  ValidNames,    \* the names in use that match the expression for names
  HostPool, RouterPool, WanPool, NetworkPool,   \* what documents may list
  NetMappingPool, RouterMappingPool,
  GroupPool, MonitoringPool, VpnPool, ContainersPool,
  MaxNodes,      \* bound: hosts, routers or networks of a document
  MaxMappings,   \* bound: mappings of hosts, or of routers, of a document
  MaxExtras      \* bound: groups, monitoring, vpn and containers together

VARIABLES
  topology,  \* the attributes set so far
  at         \* the attribute to be set next, or what became of the document

Attributes == << "hosts", "routers", "networks", "net_mappings", "router_mappings",
                 "groups", "monitoring_targets", "vpn", "containers", "loaded" >>
Verdicts == {"accepted", "rejected"}

NamesOf(elements) == {e.name : e \in elements}
\* No two elements with one name.
OneEach(elements) == Cardinality(NamesOf(elements)) = Cardinality(elements)

-----------------------------------------------------------------------------
(* The classes.  An image stands for a base box together with its flavor. *)

Protocol == {"SSH", "WINRM"}
NoVolumes == -1
Host == [name : STRING, image : STRING, protocol : Protocol, hidden : BOOLEAN,
         volumes : (Nat \ {0}) \union {NoVolumes}]
Router == [name : STRING, image : STRING, protocol : Protocol, hidden : BOOLEAN]
Network == [name : STRING, cidr : SUBSET Int, accessible_by_user : BOOLEAN, hidden : BOOLEAN]
WAN == [name : STRING, cidr : SUBSET Int]
NetworkMapping == [host : STRING, network : STRING, ip : Int]
RouterMapping == [router : STRING, network : STRING, ip : Int]
Group == [name : STRING, nodes : SUBSET STRING]

Address == {"none", "ip", "fqdn", "other"}
Where == [interface : BOOLEAN, address : Address]
TargetTCP == [interface : BOOLEAN, address : Address, port : Int]
MonitoringTargets == [tcp : SUBSET [name : STRING, targets : SUBSET TargetTCP],
                      icmp : SUBSET [name : STRING, targets : SUBSET Where],
                      http : SUBSET STRING]
IpKinds == {"v4", "v6", "malformed"}
Vpn == [entrypoints : SUBSET [name : STRING, routes : SUBSET IpKinds],
        dns : SUBSET [servers : SUBSET IpKinds, search_domains : SUBSET BOOLEAN]]
DockerContainers ==
  [given : BOOLEAN,
   containers : SUBSET [name : STRING, image : BOOLEAN,
                        dockerfile : {"none", "found", "missing"}],
   container_mappings : SUBSET [container : STRING, host : STRING]]

NoMonitoring == [tcp |-> {}, icmp |-> {}, http |-> {}]
NoVpn == [entrypoints |-> {}, dns |-> {}]
NoContainers == [given |-> FALSE, containers |-> {}, container_mappings |-> {}]

Blank == [groups |-> {}, monitoring_targets |-> NoMonitoring, vpn |-> NoVpn,
          containers |-> NoContainers]

\* What documents list is of the types the parser gives it, before any validator; a document
\* lists finitely many elements.
ASSUME PoolAssumption ==
  /\ HostPool \subseteq [name : STRING, image : STRING, protocol : Protocol, hidden : BOOLEAN,
                         volumes : Nat \union {NoVolumes}]
  /\ RouterPool \subseteq Router /\ NetworkPool \subseteq Network /\ WanPool \subseteq WAN
  /\ IsFiniteSet(HostPool) /\ IsFiniteSet(RouterPool) /\ IsFiniteSet(NetworkPool)
  /\ NetMappingPool \subseteq NetworkMapping /\ RouterMappingPool \subseteq RouterMapping
  /\ GroupPool \subseteq Group /\ MonitoringPool \subseteq MonitoringTargets
  /\ VpnPool \subseteq Vpn /\ ContainersPool \subseteq DockerContainers
  /\ MaxMappings \in Nat

TypeOK ==
  /\ at \in ToSet(Attributes) \union Verdicts
  /\ \A h \in topology.hosts : h \in Host
  /\ \A r \in topology.routers : r \in Router
  /\ \A n \in topology.networks : n \in Network
  /\ topology.wan \in WAN
  /\ \A m \in ToSet(topology.net_mappings) : m \in NetworkMapping
  /\ \A m \in ToSet(topology.router_mappings) : m \in RouterMapping
  /\ \A g \in topology.groups : g \in Group
  /\ topology.monitoring_targets \in MonitoringTargets
  /\ topology.vpn \in Vpn
  /\ topology.containers \in DockerContainers

-----------------------------------------------------------------------------
(* The validators. *)

IsValidOstackName(name) == name \in ValidNames
IsVolumesValid(h) == h.volumes # 0

Nodes(t) == t.hosts \union t.routers

ValidateNameUniqueness(t, networks) ==
  Cardinality({t.name, t.wan.name} \union NamesOf(t.hosts \union t.routers \union networks))
    = 2 + Cardinality(t.hosts) + Cardinality(t.routers) + Cardinality(networks)

ValidateNetMappings(t, mappings) ==
  \A m \in ToSet(mappings) : m.host \in NamesOf(t.hosts) /\ m.network \in NamesOf(t.networks)

ValidateNameMappings(t, mappings) ==
  \A m \in ToSet(mappings) :
    m.router \in NamesOf(t.routers) /\ m.network \in NamesOf(t.networks)

RaiseIfOverlaps(t) ==
  \A a, b \in t.networks \union {t.wan} : a.name = b.name \/ a.cidr \intersect b.cidr = {}

\* The addresses are put in a dictionary by network: of each only the last is looked at.
RaiseIfNotInNetwork(t, mappings) ==
  \A n \in t.networks :
    LET on == SelectSeq(mappings, LAMBDA m : m.network = n.name)
    IN  on = <<>> \/ Last(on).ip \in n.cidr

RaiseIfIpNotUnique(t, mappings) ==
  LET all == [i \in DOMAIN t.net_mappings |-> t.net_mappings[i].ip]
               \o [i \in DOMAIN mappings |-> mappings[i].ip]
  IN  \A i, j \in DOMAIN all : all[i] = all[j] => i = j

ValidateRouterMappings(t, mappings) ==
  /\ ValidateNameMappings(t, mappings)
  /\ RaiseIfOverlaps(t)
  /\ RaiseIfNotInNetwork(t, t.net_mappings)
  /\ RaiseIfNotInNetwork(t, mappings)
  /\ RaiseIfIpNotUnique(t, mappings)

ValidateGroups(t, groups) ==
  /\ OneEach(groups)
  /\ \A g \in groups : IsValidOstackName(g.name) /\ g.nodes \subseteq NamesOf(Nodes(t))

\* A target names an interface or an address, never both; what the address is, is not checked.
OneOf(target) == target.interface # (target.address # "none")
ValidateTargetsTcp(targets) == \A x \in targets : OneOf(x) /\ x.port \in 1..65535
ValidateTargetsIcmp(targets) == \A x \in targets : OneOf(x)
ValidateTargetsHttp(urls) == urls \subseteq {"http", "https"}
ValidateMonitoringTargets(t, m) ==
  /\ OneEach(m.tcp) /\ \A x \in m.tcp : ValidateTargetsTcp(x.targets)
  /\ OneEach(m.icmp) /\ \A x \in m.icmp : ValidateTargetsIcmp(x.targets)
  /\ ValidateTargetsHttp(m.http)
  /\ NamesOf(m.tcp \union m.icmp) \subseteq NamesOf(Nodes(t))

ValidateVpnEntrypoint(e) == e.name # "" /\ e.routes # {} /\ e.routes \subseteq {"v4"}
ValidateVpnDns(d) == d.servers # {} /\ d.servers \subseteq {"v4"} /\ FALSE \notin d.search_domains
ValidateVpn(t, vpn) ==
  /\ \A e \in vpn.entrypoints : ValidateVpnEntrypoint(e)
  /\ \A d \in vpn.dns : ValidateVpnDns(d)
  /\ NamesOf(vpn.entrypoints) \subseteq NamesOf(Nodes(t))

-----------------------------------------------------------------------------
(* Loading. *)

Init ==
  /\ at = "hosts"
  /\ \E wan \in WanPool :
       topology = [name |-> "sandbox", hosts |-> {}, routers |-> {}, wan |-> wan,
                   networks |-> {}, net_mappings |-> <<>>, router_mappings |-> <<>>,
                   groups |-> Blank.groups, monitoring_targets |-> Blank.monitoring_targets,
                   vpn |-> Blank.vpn, containers |-> Blank.containers]

\* An attribute gets its value, or its validator raises and there is no document.
Assign(attribute, value, valid) ==
  LET next == Attributes[1 + CHOOSE i \in DOMAIN Attributes : Attributes[i] = attribute]
  IN  /\ at = attribute
      /\ IF valid
         THEN topology' = [topology EXCEPT ![attribute] = value] /\ at' = next
         ELSE UNCHANGED topology /\ at' = "rejected"

Few(pool) == {s \in SUBSET pool : Cardinality(s) <= MaxNodes}
Lists(pool) == UNION {[1..n -> pool] : n \in 0..MaxMappings}
Extras == Cardinality({a \in DOMAIN Blank : topology[a] # Blank[a]})

LoadHosts ==
  \E hosts \in Few(HostPool) :
    Assign("hosts", hosts, \A h \in hosts : IsValidOstackName(h.name) /\ IsVolumesValid(h))
LoadRouters ==
  \E routers \in Few(RouterPool) :
    Assign("routers", routers, \A r \in routers : IsValidOstackName(r.name))
LoadNetworks ==
  \E networks \in Few(NetworkPool) :
    Assign("networks", networks, /\ \A n \in networks : IsValidOstackName(n.name)
                                 /\ ValidateNameUniqueness(topology, networks))
LoadNetMappings ==
  \E mappings \in Lists(NetMappingPool) :
    Assign("net_mappings", mappings, ValidateNetMappings(topology, mappings))
LoadRouterMappings ==
  \E mappings \in Lists(RouterMappingPool) :
    Assign("router_mappings", mappings, ValidateRouterMappings(topology, mappings))
LoadGroups ==
  \E groups \in SUBSET {g \in GroupPool : Extras < MaxExtras} :
    Assign("groups", groups, ValidateGroups(topology, groups))
LoadMonitoringTargets ==
  \E m \in {NoMonitoring} \union {x \in MonitoringPool : Extras < MaxExtras} :
    Assign("monitoring_targets", m, ValidateMonitoringTargets(topology, m))
LoadVpn ==
  \E vpn \in {NoVpn} \union {x \in VpnPool : Extras < MaxExtras} :
    Assign("vpn", vpn, ValidateVpn(topology, vpn))
LoadContainers ==
  \E c \in {NoContainers} \union {x \in ContainersPool : Extras < MaxExtras} :
    Assign("containers", c, TRUE)

Load ==
  \/ LoadHosts \/ LoadRouters \/ LoadNetworks \/ LoadNetMappings \/ LoadRouterMappings
  \/ LoadGroups \/ LoadMonitoringTargets \/ LoadVpn \/ LoadContainers
==============================================================================
