----------------------------- MODULE SandboxViews -----------------------------
(***************************************************************************)
(* What is read off an accepted definition: the Ansible inventory of the   *)
(* runner, the topology and the addresses a trainee is shown, and the SSH  *)
(* configurations.  Each is made by code of its own from the queries of    *)
(* TopologyInstance, and they have to agree.                               *)
(***************************************************************************)
EXTENDS TopologyInstance

CONSTANT Alphabet   \* the names of routers in alphabetical order

ASSUME AlphabetAssumption ==
  /\ Alphabet \in Seq(STRING)
  /\ \A i, j \in DOMAIN Alphabet : Alphabet[i] = Alphabet[j] => i = j
  /\ \A r \in RouterPool : \E i \in DOMAIN Alphabet : Alphabet[i] = r.name

Accepted == at = "accepted"

-----------------------------------------------------------------------------
(* The inventory: hosts, routes and groups. *)

ProxyJump == "proxy-jump"
CreateHosts(t) == NamesOf(GetNodes(t)) \union {ProxyJump}

\* Of the routers of a network, the first in the alphabet.
NetworkToRouterMapping(t, n) ==
  LET of == {m.router : m \in {x \in ToSet(t.router_mappings) : x.network = n.name}}
  IN  Alphabet[CHOOSE i \in DOMAIN Alphabet :
                 Alphabet[i] \in of /\ \A j \in 1..(i - 1) : Alphabet[j] \notin of]

HostNetworksForRouting(t, router) ==
  {l \in GetNodeLinks(t, router, HostsNetworks(t)) :
     router.name = NetworkToRouterMapping(t, l.network)}

\* Interfaces are kept by node, then by the mac of the link.
CreateInterfaceForLink(l, gateway) == [node |-> l.node.name, link |-> l, def_gw |-> gateway]
Interfaces(t) ==
  {CreateInterfaceForLink(l, "") : l \in GetLinkBetweenNodeAndNetwork(t, MAN, WanOf(t))}
    \union {CreateInterfaceForLink(l, MAN.name) : l \in GetLinksFromWanToRouters(t)}

\* The routes on the interface of the management node: a network and the router to it.
SandboxRouting(t) ==
  UNION {{[network |-> l.network, via |-> w.node] : l \in HostNetworksForRouting(t, w.node)} :
           w \in GetLinksFromWanToRouters(t)}

IpForward(t) == NamesOf(RouterObjs(t)) \union {MAN.name}

WithProtocol(t, p) ==
  {x.name : x \in {y \in GetNodes(t) \ {MAN} : NodeOf(t, y).protocol = p}}

\* An address of a monitoring target becomes a CIDR, stays a domain name, or raises.
NormalizeAddress(address) == CASE address = "none" -> {} [] address = "ip" -> {"cidr"}
                               [] address = "fqdn" -> {"fqdn"} [] OTHER -> {"raises"}
TargetAddresses(t) ==
  UNION {UNION {NormalizeAddress(x.address) : x \in m.targets} :
           m \in GetMonitoredHosts(t).tcp \union GetMonitoredHosts(t).icmp}

DockerHosts(t) == {m.host : m \in t.containers.container_mappings}

WindowsHosts(t) == {x.name : x \in {y \in Nodes(t) : y.image \in WindowsImages}}

GroupNodes(t) ==
  [hosts |-> NamesOf(t.hosts),
   management |-> {MAN.name},
   routers |-> NamesOf(t.routers),
   winrm_nodes |-> WithProtocol(t, "WINRM"),
   ssh_nodes |-> WithProtocol(t, "SSH"),
   user_accessible_nodes |-> {l.node.name : l \in GetLinksToUserAccessibleNodes(t)},
   hidden_hosts |-> NamesOf({h \in t.hosts : h.hidden}),
   docker_hosts |-> DockerHosts(t),
   monitored_hosts_tcp |-> NamesOf(GetMonitoredHosts(t).tcp),
   monitored_hosts_icmp |-> NamesOf(GetMonitoredHosts(t).icmp),
   windows_hosts |-> WindowsHosts(t),
   vpn_entrypoints |-> NamesOf(t.vpn.entrypoints) \intersect CreateHosts(t)]

\* Groups that are only added when they have a reason to be, and have none.
LeftOut(t) ==
  {g \in {"docker_hosts"} : ~ t.containers.given}
    \union {g \in {"vpn_entrypoints"} : t.vpn.entrypoints = {}}
    \union {g \in {"monitored_hosts_tcp", "monitored_hosts_icmp", "windows_hosts"} :
              GroupNodes(t)[g] = {}}
CreateGroups(t) == [g \in DefaultAnsibleHostsGroups \ LeftOut(t) |-> GroupNodes(t)[g]]

\* Groups are kept by name: those of the user come last, and replace.
CreateUserDefinedGroups(t) ==
  [n \in NamesOf(GetGroups(t)) |-> (CHOOSE g \in GetGroups(t) : g.name = n).nodes]
InventoryGroups(t) ==
  [g \in DOMAIN CreateGroups(t) \union DOMAIN CreateUserDefinedGroups(t) |->
     IF g \in DOMAIN CreateUserDefinedGroups(t) THEN CreateUserDefinedGroups(t)[g]
     ELSE CreateGroups(t)[g]]

\* Nodes with the variable user_network_ip, and hosts with containers_path.
UserNetworkIps(t) ==
  {[node |-> l.node.name, ip |-> l.ip] :
     l \in {k \in Links(t) : k.network \in HostsNetworks(t) /\ k.node.name # "uan"}}
UpdateDockerHosts(t) == CreateHosts(t) \intersect DockerHosts(t)

\* Everything the constructor looks up: a name it does not have raises.
Inventory(t) ==
  [hosts |-> CreateHosts(t), interfaces |-> Interfaces(t), ip_forward |-> IpForward(t),
   groups |-> InventoryGroups(t), user_network |-> UserNetworkIps(t),
   containers_path |-> UpdateDockerHosts(t),
   management |-> [n \in CreateHosts(t) \ {ProxyJump} |->
                     {l \in Links(t) : l.network = ManNetwork /\ l.node.name = n}]]

-----------------------------------------------------------------------------
(* The topology that a trainee is shown. *)

\* In whatever letters.
IsWanNetwork(n) == n.name \in {"wan", "Wan", "wAn", "waN", "WAn", "WaN", "wAN", "WAN"}
HostsForNetwork(t, n) == {l.node : l \in GetNetworkLinks(t, n, GetVisibleHosts(t))}
Subnets(t) == {n \in GetVisibleNetworks(t) : ~ IsWanNetwork(n)}
SubnetsForRouter(t, router) ==
  {n \in {l.network : l \in GetNodeLinks(t, router, HostsNetworks(t))} : n \in Subnets(t)}

\* One row for each router, subnet and host; a host is marked by its network.
Topology(t) ==
  UNION {UNION {{[router |-> r, subnet |-> n, host |-> x,
                  is_accessible |-> NetworkOf(t, n).accessible_by_user] :
                   x \in HostsForNetwork(t, n)} : n \in SubnetsForRouter(t, r)} :
           r \in GetVisibleRouters(t)}

-----------------------------------------------------------------------------
(* Access.  An entry of an SSH configuration: its alias, its address and   *)
(* the entry it jumps through.                                             *)

Entry(alias, ip, via) == [alias |-> alias, ip |-> ip, via |-> via]
Doors == {Entry(ProxyJump, 0, ""), Entry(MAN.name, 0, ProxyJump)}

\* Mutant: only networks that are shown have entries.
ConfigOfVisible(t) ==
  Doors
    \union {Entry(l.node.name, l.ip, MAN.name) :
              l \in {k \in GetLinksToUserAccessibleNodes(t) : k.network \in GetVisibleNetworks(t)}}

CrczpUserSSHConfig(t) ==
  Doors
    \union {Entry(l.node.name, l.ip, MAN.name) : l \in GetLinksToUserAccessibleNodes(t)}
    \union {Entry(m.container, 0, m.host) : m \in t.containers.container_mappings}

CrczpMgmtSSHConfig(t) ==
  Doors \union {Entry(p[2].node.name, p[2].ip, MAN.name) : p \in ManToNodes(t)}

\* The address handed out for access in the browser; 0 on the wan, -1 when it raises.  The
\* first link decides, and a host's come in the order of their definition.
GetNodeIp(t, x) ==
  LET of == {i \in DOMAIN t.net_mappings : Obj("host", t.net_mappings[i].host) = x}
      first == t.net_mappings[CHOOSE i \in of : \A j \in of : i <= j]
  IN  IF x.kind = "router" THEN 0
      ELSE IF of = {} \/ ~ NetworkOf(t, Obj("user", first.network)).accessible_by_user THEN -1
      ELSE first.ip

-----------------------------------------------------------------------------
(* Properties. *)

\* The names "man" and "man-network" are left to the management node and its network.
ManReserved ==
  /\ \A x \in HostPool \union RouterPool : x.name # MAN.name
  /\ \A n \in NetworkPool \union WanPool : n.name # ManNetwork.name

\* A network that is taken for the WAN by its name has the WAN's name.
WanRecognised == \A n \in NetworkPool, w \in WanPool : IsWanNetwork(n) => n.name = w.name

\* Nothing a trainee is shown is hidden, by its own attribute or by that of the network or of
\* the router it is reached through, and what is not hidden is shown.
NothingHiddenShown ==
  Accepted =>
    /\ \A row \in Topology(topology) :
         /\ ~ HostOf(topology, row.host).hidden
         /\ ~ NetworkOf(topology, row.subnet).hidden
         /\ ~ NodeOf(topology, row.router).hidden
    /\ \A m \in ToSet(topology.net_mappings), r \in ToSet(topology.router_mappings) :
         /\ m.network = r.network
         /\ ~ HostOf(topology, Obj("host", m.host)).hidden
         /\ ~ NetworkOf(topology, Obj("user", m.network)).hidden
         /\ ~ NodeOf(topology, Obj("router", r.router)).hidden
         => \E row \in Topology(topology) : row.host.name = m.host /\ row.subnet.name = m.network

\* The management node routes to each network of the user exactly once, through the router
\* that the template of the cloud made the gateway of that network, that forwards, and that
\* answers through the management node.
RoutedThroughGateway ==
  Accepted =>
    \A n \in HostsNetworks(topology) :
      /\ {r \in SandboxRouting(topology) : r.network = n}
        = {[network |-> n, via |-> l.node] : l \in GetNetworkDefaultGatewayLink(topology, n)}
      /\ \A r \in SandboxRouting(topology) :
           /\ r.via.name \in IpForward(topology)
           /\ {i.def_gw : i \in {j \in Interfaces(topology) : j.node = r.via.name}} = {MAN.name}

\* Each link finds its port in the state of the stack, on one machine; the inventory is made
\* without looking up a host or an address that it does not have; whatever groups the user
\* defines, its default groups have the nodes that the roles expect, every node but the
\* management node is managed by one protocol, and the management configuration has every node,
\* once: the queries it is made of raise an error otherwise.
InventoryComplete ==
  Accepted =>
    LET inventory == Inventory(topology)
        groups == inventory.groups
    IN  /\ GetEnrichedTopologyInstance(topology)
        /\ \A l \in Links(topology) :
             Cardinality({x \in GetNodes(topology) : l \in TfInstance(topology, x)}) = 1
        /\ \A n \in DOMAIN inventory.management : Cardinality(inventory.management[n]) = 1
        /\ \A i \in inventory.interfaces \union inventory.user_network : i.node \in inventory.hosts
        /\ DockerHosts(topology) \subseteq inventory.containers_path
        /\ \A g \in DOMAIN groups : groups[g] \subseteq inventory.hosts
        /\ groups["hosts"] = NamesOf(topology.hosts)
        /\ groups["routers"] = NamesOf(topology.routers)
        /\ groups["management"] = {MAN.name}
        /\ groups["hosts"] \union groups["routers"]
             = groups["ssh_nodes"] \union groups["winrm_nodes"]
        /\ groups["ssh_nodes"] \intersect groups["winrm_nodes"] = {}
        /\ ManReachesNodes(topology)
        /\ {e.alias : e \in CrczpMgmtSSHConfig(topology)} = CreateHosts(topology)

\* The address that is handed out for a host is of no other port of the networks, is in the
\* trainee's SSH configuration, and the host is not shown as out of reach on its network.
AccessConfigured ==
  Accepted =>
    \A x \in HostObjs(topology) :
      LET ip == GetNodeIp(topology, x)
      IN  ip > 0 =>
            /\ Cardinality({l \in Links(topology) : l.ip = ip}) = 1
            /\ Entry(x.name, ip, MAN.name) \in CrczpUserSSHConfig(topology)
            /\ \A row \in Topology(topology), l \in Links(topology) :
                 row.host = x /\ l.node = x /\ l.ip = ip /\ l.network = row.subnet
                   => row.is_accessible

\* The addresses of the monitoring targets of an accepted definition are ones the inventory can
\* be made with.  This does not hold: only the inventory looks at them.
TargetsNormalise == Accepted => "raises" \notin TargetAddresses(topology)

\* "Raise error if IP is not in network": an address is one of the network it is mapped to.
\* This does not hold: of the mappings of one network only the last address is compared.
AddressInNetwork ==
  Accepted => \A m \in ToSet(topology.net_mappings \o topology.router_mappings) :
                m.ip \in NetworkOf(topology, Obj("user", m.network)).cidr
==============================================================================
