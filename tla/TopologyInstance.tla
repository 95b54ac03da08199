--------------------------- MODULE TopologyInstance ---------------------------
(***************************************************************************)
(* What a definition becomes: its links, the queries on them that the      *)
(* templates of the cloud, the inventory and the trainees' views are made  *)
(* of, and the rendering of the template that decides whether a sandbox    *)
(* definition is accepted.                                                 *)
(*                                                                         *)
(* The constructor keeps nodes and networks in dictionaries by name, in    *)
(* which the management node "man" and its network come last and replace   *)
(* what has their name; links keep the object they were made for.          *)
(***************************************************************************)
EXTENDS TopologyDefinition

CONSTANTS
  CloudImages,    \* images that the cloud has (with their flavors)
  WindowsImages,  \* those of them whose os_type is windows
  Cloud           \* whose template is rendered

ASSUME CloudAssumption ==
  /\ WindowsImages \subseteq CloudImages
  /\ Cloud \in {"openstack", "aws"}

-----------------------------------------------------------------------------
(* Nodes, networks and links.  A link's ip is 0 when the cloud chooses it. *)

Obj(kind, name) == [kind |-> kind, name |-> name]
MAN == Obj("man", "man")
ManNetwork == Obj("management", "man-network")
WanOf(t) == Obj("wan", t.wan.name)
Link(node, network, ip) == [node |-> node, network |-> network, ip |-> ip]

ExtraNodesLinks(t) == {Link(MAN, ManNetwork, 0), Link(MAN, WanOf(t), 0)}
HostsLinks(t) ==
  {Link(Obj("host", h.name), ManNetwork, 0) : h \in t.hosts}
    \union {Link(Obj("host", m.host), Obj("user", m.network), m.ip) : m \in ToSet(t.net_mappings)}
RoutersLinks(t) ==
  {Link(Obj("router", r.name), n, 0) : r \in t.routers, n \in {ManNetwork, WanOf(t)}}
    \union {Link(Obj("router", m.router), Obj("user", m.network), m.ip) :
              m \in ToSet(t.router_mappings)}
Links(t) == ExtraNodesLinks(t) \union HostsLinks(t) \union RoutersLinks(t)

HostObjs(t) == {Obj("host", n) : n \in NamesOf(t.hosts)}
RouterObjs(t) == {Obj("router", n) : n \in NamesOf(t.routers)}
HostsNetworks(t) == {Obj("user", n) : n \in NamesOf(t.networks)}
\* The values of the dictionaries.
GetNodes(t) == {x \in HostObjs(t) \union RouterObjs(t) : x.name # MAN.name} \union {MAN}
GetNetworks(t) ==
  {n \in HostsNetworks(t) \union {WanOf(t)} : n.name # ManNetwork.name} \union {ManNetwork}

HostOf(t, x) == CHOOSE h \in t.hosts : h.name = x.name
NodeOf(t, x) == CHOOSE n \in Nodes(t) : n.name = x.name
NetworkOf(t, n) == CHOOSE m \in t.networks : m.name = n.name

-----------------------------------------------------------------------------
(* Queries. *)

GetNodeLinks(t, x, networks) == {l \in Links(t) : l.node.name = x.name /\ l.network \in networks}
GetNetworkLinks(t, n, nodes) == {l \in Links(t) : l.network.name = n.name /\ l.node \in nodes}

GetVisibleRouters(t) == {x \in RouterObjs(t) : ~ NodeOf(t, x).hidden}
\* Networks of a router that is not hidden; the network itself is not hidden either.
GetVisibleNetworks(t) ==
  {n \in HostsNetworks(t) :
     /\ ~ NetworkOf(t, n).hidden
     /\ \E m \in ToSet(t.router_mappings) :
          m.network = n.name /\ Obj("router", m.router) \in GetVisibleRouters(t)}
    \union {WanOf(t)}
\* Mutant: the hosts' own attribute is forgotten.
VisibleByNetwork(t) ==
  {x \in HostObjs(t) :
     \E m \in ToSet(t.net_mappings) :
       m.host = x.name /\ Obj("user", m.network) \in GetVisibleNetworks(t)}

GetVisibleHosts(t) ==
  {x \in HostObjs(t) :
     /\ ~ HostOf(t, x).hidden
     /\ \E m \in ToSet(t.net_mappings) :
          m.host = x.name /\ Obj("user", m.network) \in GetVisibleNetworks(t)}

UserAccessible(t) == {n \in HostsNetworks(t) : NetworkOf(t, n).accessible_by_user}
GetLinksToUserAccessibleNodes(t) ==
  UNION {GetNetworkLinks(t, n, HostObjs(t) \union RouterObjs(t)) : n \in UserAccessible(t)}

\* The gateways of a network: the templates raise unless there is exactly one.
GetNetworkDefaultGatewayLink(t, n) == GetNetworkLinks(t, n, RouterObjs(t))

\* At most one, or it raises.
GetLinkBetweenNodeAndNetwork(t, x, n) == GetNodeLinks(t, x, {n})
GetLinksFromWanToRouters(t) ==
  UNION {GetLinkBetweenNodeAndNetwork(t, x, WanOf(t)) : x \in RouterObjs(t)}

GetMonitoredHosts(t) ==
  [tcp |-> t.monitoring_targets.tcp, icmp |-> t.monitoring_targets.icmp]
GetGroups(t) == t.groups

\* Pairs from the management node over its network; raises unless one for every other node.
GetNodeToNodesLinkPairs(t, x, networks) ==
  {p \in Links(t) \X Links(t) :
     /\ p[1] \in GetNodeLinks(t, x, networks)
     /\ p[2].network.name = p[1].network.name /\ p[2].node # x}
ManToNodes(t) == GetNodeToNodesLinkPairs(t, MAN, {ManNetwork})
ManReachesNodes(t) ==
  /\ Cardinality(ManToNodes(t)) = Cardinality(GetNodes(t)) - 1
  /\ \A p \in ManToNodes(t) : p[1].network = p[2].network

-----------------------------------------------------------------------------
(* The template, and the state of the stack that is read back.             *)

\* A port for each link, in the loop over the networks; with an address or one of the cloud's.
TfPorts(t) == UNION {GetNetworkLinks(t, n, {l.node : l \in Links(t)}) : n \in GetNetworks(t)}
\* The ports of an instance, in the loop over the nodes.
TfInstance(t, x) == {l \in Links(t) : l.node.name = x.name}

\* Each link finds the port that has its name, and takes address and mac from it.
GetEnrichedTopologyInstance(t) == Links(t) \subseteq TfPorts(t)

-----------------------------------------------------------------------------
(* Acceptance: definitions.create_definition. *)

DefaultAnsibleHostsGroups ==
  {"hosts", "management", "routers", "ssh_nodes", "winrm_nodes", "user_accessible_nodes",
   "hidden_hosts", "docker_hosts", "monitored_hosts_tcp", "monitored_hosts_icmp",
   "windows_hosts", "vpn_entrypoints"}

\* Mutant: groups of the user may take the names of the default ones.
GroupsUnchecked(t) == {x.image : x \in Nodes(t)} \subseteq CloudImages

ValidateTopologyDefinition(t) ==
  /\ NamesOf(t.groups) \intersect DefaultAnsibleHostsGroups = {}
  /\ {x.image : x \in Nodes(t)} \subseteq CloudImages

ValidateDockerContainers(t) ==
  /\ \A c \in t.containers.containers :
       c.image = (c.dockerfile = "none") /\ c.dockerfile # "missing"
  /\ \A m \in t.containers.container_mappings :
       m.container \in NamesOf(t.containers.containers) /\ m.host \in NamesOf(t.hosts)

\* Mutant: a network may have several gateways.
ManyGateways(t) ==
  \A n \in HostsNetworks(t) : Cardinality(GetNetworkDefaultGatewayLink(t, n)) >= 1

\* Rendering: each user network has one gateway; AWS also wants a default route for every
\* node, so each is on a network of the user.
CreateTerraformTemplate(t) ==
  /\ \A n \in GetNetworks(t) \intersect HostsNetworks(t) :
       Cardinality(GetNetworkDefaultGatewayLink(t, n)) = 1
  /\ Cloud = "aws" =>
       \A x \in GetNodes(t) \ {MAN} : GetNodeLinks(t, x, HostsNetworks(t)) # {}

CreateDefinition ==
  /\ at = "loaded"
  /\ at' = IF /\ ValidateTopologyDefinition(topology)
              /\ ValidateDockerContainers(topology)
              /\ CreateTerraformTemplate(topology)
           THEN "accepted" ELSE "rejected"
  /\ UNCHANGED topology

Next == Load \/ CreateDefinition
Spec == Init /\ [][Next]_<<topology, at>>
==============================================================================
