--------------------------- MODULE SandboxViewsProofs ---------------------------
(***************************************************************************)
(* Proofs about every document and every reader of it.  The inductive      *)
(* invariant says what the validators have left true of the attributes set *)
(* so far; the rest are facts about one accepted document: names identify  *)
(* its elements, its links are known, and so are the queries on them.      *)
(***************************************************************************)
EXTENDS SandboxViews, FiniteSetTheorems, TLAPS

Fields == {"name", "hosts", "routers", "wan", "networks", "net_mappings", "router_mappings",
           "groups", "monitoring_targets", "vpn", "containers"}

\* A document lists what the pools have.
Drawn(t) ==
  /\ DOMAIN t = Fields
  /\ t.hosts \subseteq HostPool /\ t.routers \subseteq RouterPool
  /\ t.networks \subseteq NetworkPool /\ t.wan \in WanPool
  /\ t.net_mappings \in Seq(NetMappingPool) /\ t.router_mappings \in Seq(RouterMappingPool)
  /\ t.groups \subseteq GroupPool
  /\ t.monitoring_targets \in {NoMonitoring} \union MonitoringPool
  /\ t.vpn \in {NoVpn} \union VpnPool
  /\ t.containers \in {NoContainers} \union ContainersPool

\* The attributes that are set after a, and what becomes of a document that has them all.
AfterContainers == {"loaded", "accepted"}
AfterVpn == {"containers"} \union AfterContainers
AfterMonitoringTargets == {"vpn"} \union AfterVpn
AfterGroups == {"monitoring_targets"} \union AfterMonitoringTargets
AfterRouterMappings == {"groups"} \union AfterGroups
AfterNetMappings == {"router_mappings"} \union AfterRouterMappings
AfterNetworks == {"net_mappings"} \union AfterNetMappings

\* Each attribute that is set has passed its validator, and still would.
Checked ==
  /\ at \in AfterNetworks => ValidateNameUniqueness(topology, topology.networks)
  /\ at \in AfterNetMappings => ValidateNetMappings(topology, topology.net_mappings)
  /\ at \in AfterRouterMappings => ValidateRouterMappings(topology, topology.router_mappings)
  /\ at \in AfterGroups => ValidateGroups(topology, topology.groups)
  /\ at \in AfterMonitoringTargets =>
       ValidateMonitoringTargets(topology, topology.monitoring_targets)
  /\ at \in AfterVpn => ValidateVpn(topology, topology.vpn)
  /\ Accepted => /\ ValidateTopologyDefinition(topology)
                 /\ ValidateDockerContainers(topology)
                 /\ CreateTerraformTemplate(topology)

VolumesChecked == \A h \in topology.hosts : IsVolumesValid(h)
Inv ==
  /\ at \in ToSet(Attributes) \union Verdicts
  /\ Drawn(topology)
  /\ VolumesChecked
  /\ Checked

-----------------------------------------------------------------------------
(* The attributes and their order. *)

\* The attribute that is set after each.
LEMMA Order ==
  /\ ToSet(Attributes) = {"hosts", "routers", "networks", "net_mappings", "router_mappings",
                          "groups", "monitoring_targets", "vpn", "containers", "loaded"}
  /\ \A i \in 1..9 :
       Attributes[1 + CHOOSE j \in DOMAIN Attributes : Attributes[j] = Attributes[i]]
         = Attributes[i + 1]
<1>1. DOMAIN Attributes = 1..10
  BY DEF Attributes
<1>2. \A i, j \in 1..10 : Attributes[i] = Attributes[j] => i = j
  BY DEF Attributes
<1>3. ASSUME NEW i \in 1..9
      PROVE  Attributes[1 + CHOOSE j \in DOMAIN Attributes : Attributes[j] = Attributes[i]]
               = Attributes[i + 1]
  <2> DEFINE k == CHOOSE j \in DOMAIN Attributes : Attributes[j] = Attributes[i]
  <2>1. i \in DOMAIN Attributes
    BY <1>1
  <2>2. k \in 1..10 /\ Attributes[k] = Attributes[i]
    BY <1>1, <2>1
  <2>3. k = i
    BY <1>2, <2>2
  <2> HIDE DEF k
  <2>4. Attributes[1 + k] = Attributes[i + 1]
    BY <2>3
  <2> QED
    BY <2>4 DEF k
<1>4. ToSet(Attributes) = {"hosts", "routers", "networks", "net_mappings", "router_mappings",
                           "groups", "monitoring_targets", "vpn", "containers", "loaded"}
  BY <1>1 DEF ToSet, Attributes
<1> QED
  BY <1>3, <1>4

\* What an attribute that passes leaves: the others as they were, and the next to be set.
LEMMA AssignSets ==
  ASSUME NEW i \in 1..9, NEW value, NEW valid \in BOOLEAN,
         Assign(Attributes[i], value, valid), DOMAIN topology = Fields, at' # "rejected"
  PROVE  /\ at = Attributes[i] /\ at' = Attributes[i + 1]
         /\ valid
         /\ topology' = [topology EXCEPT ![Attributes[i]] = value]
BY Order DEF Assign

-----------------------------------------------------------------------------
(* The invariant. *)

\* A validator looks at what has been set before, and at nothing else.
LEMMA SameParts ==
  ASSUME NEW s, NEW t, s.name = t.name, s.wan = t.wan, s.hosts = t.hosts,
         s.routers = t.routers
  PROVE  /\ \A n : ValidateNameUniqueness(s, n) <=> ValidateNameUniqueness(t, n)
         /\ \A g : ValidateGroups(s, g) <=> ValidateGroups(t, g)
         /\ \A m : ValidateMonitoringTargets(s, m) <=> ValidateMonitoringTargets(t, m)
         /\ \A v : ValidateVpn(s, v) <=> ValidateVpn(t, v)
         /\ s.networks = t.networks =>
              /\ \A m : ValidateNetMappings(s, m) <=> ValidateNetMappings(t, m)
              /\ s.net_mappings = t.net_mappings =>
                   \A m : ValidateRouterMappings(s, m) <=> ValidateRouterMappings(t, m)
<1>1. \A n : ValidateNameUniqueness(s, n) <=> ValidateNameUniqueness(t, n)
  BY DEF ValidateNameUniqueness
<1>2. \A g : ValidateGroups(s, g) <=> ValidateGroups(t, g)
  BY DEF ValidateGroups, Nodes
<1>3. \A m : ValidateMonitoringTargets(s, m) <=> ValidateMonitoringTargets(t, m)
  BY DEF ValidateMonitoringTargets, Nodes
<1>4. \A v : ValidateVpn(s, v) <=> ValidateVpn(t, v)
  BY DEF ValidateVpn, Nodes
<1>5. ASSUME s.networks = t.networks
      PROVE  \A m : ValidateNetMappings(s, m) <=> ValidateNetMappings(t, m)
  BY <1>5 DEF ValidateNetMappings
<1>6. ASSUME s.networks = t.networks, s.net_mappings = t.net_mappings
      PROVE  \A m : ValidateRouterMappings(s, m) <=> ValidateRouterMappings(t, m)
  <2>1. \A m : ValidateNameMappings(s, m) <=> ValidateNameMappings(t, m)
    BY <1>6 DEF ValidateNameMappings
  <2>2. RaiseIfOverlaps(s) <=> RaiseIfOverlaps(t)
    BY <1>6 DEF RaiseIfOverlaps
  <2>3. \A m : RaiseIfNotInNetwork(s, m) <=> RaiseIfNotInNetwork(t, m)
    BY <1>6 DEF RaiseIfNotInNetwork
  <2>4. \A m : RaiseIfIpNotUnique(s, m) <=> RaiseIfIpNotUnique(t, m)
    BY <1>6 DEF RaiseIfIpNotUnique
  <2> QED
    BY <1>6, <2>1, <2>2, <2>3, <2>4 DEF ValidateRouterMappings
<1> QED
  BY <1>1, <1>2, <1>3, <1>4, <1>5, <1>6

LEMMA InitInv == Init => Inv
<1> SUFFICES ASSUME Init PROVE Inv
  OBVIOUS
<1>1. Drawn(topology)
  BY DEF Init, Drawn, Fields, Blank
<1>2. at = "hosts" /\ topology.hosts = {}
  BY DEF Init
<1> QED
  BY <1>1, <1>2, Order
     DEF Inv, Checked, VolumesChecked, Accepted, AfterNetworks, AfterNetMappings,
         AfterRouterMappings, AfterGroups, AfterMonitoringTargets, AfterVpn, AfterContainers

\* A document that is rejected is not looked at again.
LEMMA RejectedKeeps ==
  ASSUME Inv, UNCHANGED topology, at' = "rejected"
  PROVE  Inv'
BY DEF Inv, Checked, VolumesChecked, Accepted, Verdicts, AfterNetworks, AfterNetMappings,
       AfterRouterMappings, AfterGroups, AfterMonitoringTargets, AfterVpn, AfterContainers

\* An attribute is set, or the document is rejected.
LEMMA AssignCases ==
  ASSUME NEW i \in 1..9, NEW value, NEW valid \in BOOLEAN, Assign(Attributes[i], value, valid),
         at' = "rejected"
  PROVE  UNCHANGED topology
BY Order DEF Assign, Attributes

\* Mappings are lists of what the pools have.
LEMMA ListsAreSeqs == ASSUME NEW pool, NEW s \in Lists(pool) PROVE s \in Seq(pool)
BY PoolAssumption DEF Lists

\* The places of the attributes.
LEMMA Places ==
  /\ Attributes[1] = "hosts" /\ Attributes[2] = "routers" /\ Attributes[3] = "networks"
  /\ Attributes[4] = "net_mappings" /\ Attributes[5] = "router_mappings"
  /\ Attributes[6] = "groups" /\ Attributes[7] = "monitoring_targets"
  /\ Attributes[8] = "vpn" /\ Attributes[9] = "containers" /\ Attributes[10] = "loaded"
BY DEF Attributes

LEMMA LoadHostsInv == Inv /\ LoadHosts => Inv'
<1> SUFFICES ASSUME Inv, LoadHosts PROVE Inv'
  OBVIOUS
<1>1. PICK hosts \in Few(HostPool) :
        Assign("hosts", hosts, \A h \in hosts : IsValidOstackName(h.name) /\ IsVolumesValid(h))
  BY DEF LoadHosts
<1> DEFINE valid == \A h \in hosts : IsValidOstackName(h.name) /\ IsVolumesValid(h)
<1>2. valid \in BOOLEAN /\ Assign(Attributes[1], hosts, valid)
  BY <1>1, Places
<1>3. DOMAIN topology = Fields
  BY DEF Inv, Drawn
<1> HIDE DEF valid
<1>4. CASE at' = "rejected"
  <2>1. UNCHANGED topology
    BY <1>2, <1>4, AssignCases
  <2> QED
    BY <1>4, <2>1, RejectedKeeps
<1>5. CASE at' # "rejected"
  <2>1. /\ at = "hosts" /\ at' = "routers"
        /\ valid
        /\ topology' = [topology EXCEPT !["hosts"] = hosts]
    BY <1>2, <1>3, <1>5, AssignSets, Places
  <2>2. /\ DOMAIN topology' = Fields /\ topology'.hosts = hosts
        /\ topology'.name = topology.name
        /\ topology'.routers = topology.routers
        /\ topology'.wan = topology.wan
        /\ topology'.networks = topology.networks
        /\ topology'.net_mappings = topology.net_mappings
        /\ topology'.router_mappings = topology.router_mappings
        /\ topology'.groups = topology.groups
        /\ topology'.monitoring_targets = topology.monitoring_targets
        /\ topology'.vpn = topology.vpn
        /\ topology'.containers = topology.containers
    BY <1>3, <2>1 DEF Fields
  <2> HIDE DEF valid
  <2>3. Drawn(topology')
    BY <1>1, <2>2 DEF Inv, Drawn, Few
  <2>4. VolumesChecked'
    BY <2>1, <2>2 DEF Inv, VolumesChecked, valid
  <2>5. Checked'
    BY <2>1, <2>2, SameParts
       DEF Inv, Checked, valid, Accepted, AfterNetworks, AfterNetMappings, AfterRouterMappings,
           AfterGroups, AfterMonitoringTargets, AfterVpn, AfterContainers
  <2> QED
    BY <2>1, <2>3, <2>4, <2>5, Order DEF Inv
<1> QED
  BY <1>4, <1>5

LEMMA LoadRoutersInv == Inv /\ LoadRouters => Inv'
<1> SUFFICES ASSUME Inv, LoadRouters PROVE Inv'
  OBVIOUS
<1>1. PICK routers \in Few(RouterPool) :
        Assign("routers", routers, \A r \in routers : IsValidOstackName(r.name))
  BY DEF LoadRouters
<1> DEFINE valid == \A r \in routers : IsValidOstackName(r.name)
<1>2. valid \in BOOLEAN /\ Assign(Attributes[2], routers, valid)
  BY <1>1, Places
<1>3. DOMAIN topology = Fields
  BY DEF Inv, Drawn
<1> HIDE DEF valid
<1>4. CASE at' = "rejected"
  <2>1. UNCHANGED topology
    BY <1>2, <1>4, AssignCases
  <2> QED
    BY <1>4, <2>1, RejectedKeeps
<1>5. CASE at' # "rejected"
  <2>1. /\ at = "routers" /\ at' = "networks"
        /\ valid
        /\ topology' = [topology EXCEPT !["routers"] = routers]
    BY <1>2, <1>3, <1>5, AssignSets, Places
  <2>2. /\ DOMAIN topology' = Fields /\ topology'.routers = routers
        /\ topology'.name = topology.name
        /\ topology'.hosts = topology.hosts
        /\ topology'.wan = topology.wan
        /\ topology'.networks = topology.networks
        /\ topology'.net_mappings = topology.net_mappings
        /\ topology'.router_mappings = topology.router_mappings
        /\ topology'.groups = topology.groups
        /\ topology'.monitoring_targets = topology.monitoring_targets
        /\ topology'.vpn = topology.vpn
        /\ topology'.containers = topology.containers
    BY <1>3, <2>1 DEF Fields
  <2> HIDE DEF valid
  <2>3. Drawn(topology')
    BY <1>1, <2>2 DEF Inv, Drawn, Few
  <2>4. VolumesChecked'
    BY <2>1, <2>2 DEF Inv, VolumesChecked
  <2>5. Checked'
    BY <2>1, <2>2, SameParts
       DEF Inv, Checked, valid, Accepted, AfterNetworks, AfterNetMappings, AfterRouterMappings,
           AfterGroups, AfterMonitoringTargets, AfterVpn, AfterContainers
  <2> QED
    BY <2>1, <2>3, <2>4, <2>5, Order DEF Inv
<1> QED
  BY <1>4, <1>5

LEMMA LoadNetworksInv == Inv /\ LoadNetworks => Inv'
<1> SUFFICES ASSUME Inv, LoadNetworks PROVE Inv'
  OBVIOUS
<1>1. PICK networks \in Few(NetworkPool) :
        Assign("networks", networks, (\A n \in networks : IsValidOstackName(n.name)) /\ ValidateNameUniqueness(topology, networks))
  BY DEF LoadNetworks
<1> DEFINE valid == (\A n \in networks : IsValidOstackName(n.name)) /\ ValidateNameUniqueness(topology, networks)
<1>2. valid \in BOOLEAN /\ Assign(Attributes[3], networks, valid)
  BY <1>1, Places
<1>3. DOMAIN topology = Fields
  BY DEF Inv, Drawn
<1> HIDE DEF valid
<1>4. CASE at' = "rejected"
  <2>1. UNCHANGED topology
    BY <1>2, <1>4, AssignCases
  <2> QED
    BY <1>4, <2>1, RejectedKeeps
<1>5. CASE at' # "rejected"
  <2>1. /\ at = "networks" /\ at' = "net_mappings"
        /\ valid
        /\ topology' = [topology EXCEPT !["networks"] = networks]
    BY <1>2, <1>3, <1>5, AssignSets, Places
  <2>2. /\ DOMAIN topology' = Fields /\ topology'.networks = networks
        /\ topology'.name = topology.name
        /\ topology'.hosts = topology.hosts
        /\ topology'.routers = topology.routers
        /\ topology'.wan = topology.wan
        /\ topology'.net_mappings = topology.net_mappings
        /\ topology'.router_mappings = topology.router_mappings
        /\ topology'.groups = topology.groups
        /\ topology'.monitoring_targets = topology.monitoring_targets
        /\ topology'.vpn = topology.vpn
        /\ topology'.containers = topology.containers
    BY <1>3, <2>1 DEF Fields
  <2> HIDE DEF valid
  <2>3. Drawn(topology')
    BY <1>1, <2>2 DEF Inv, Drawn, Few
  <2>4. VolumesChecked'
    BY <2>1, <2>2 DEF Inv, VolumesChecked
  <2>5. Checked'
    BY <2>1, <2>2, SameParts
       DEF Inv, Checked, valid, Accepted, AfterNetworks, AfterNetMappings, AfterRouterMappings,
           AfterGroups, AfterMonitoringTargets, AfterVpn, AfterContainers
  <2> QED
    BY <2>1, <2>3, <2>4, <2>5, Order DEF Inv
<1> QED
  BY <1>4, <1>5

LEMMA LoadNetMappingsInv == Inv /\ LoadNetMappings => Inv'
<1> SUFFICES ASSUME Inv, LoadNetMappings PROVE Inv'
  OBVIOUS
<1>1. PICK mappings \in Lists(NetMappingPool) :
        Assign("net_mappings", mappings, ValidateNetMappings(topology, mappings))
  BY DEF LoadNetMappings
<1> DEFINE valid == ValidateNetMappings(topology, mappings)
<1>2. valid \in BOOLEAN /\ Assign(Attributes[4], mappings, valid)
  <2>1. valid \in BOOLEAN
    BY DEF ValidateNetMappings
  <2> QED
    BY <1>1, <2>1, Places
<1>3. DOMAIN topology = Fields
  BY DEF Inv, Drawn
<1> HIDE DEF valid
<1>4. CASE at' = "rejected"
  <2>1. UNCHANGED topology
    BY <1>2, <1>4, AssignCases
  <2> QED
    BY <1>4, <2>1, RejectedKeeps
<1>5. CASE at' # "rejected"
  <2>1. /\ at = "net_mappings" /\ at' = "router_mappings"
        /\ valid
        /\ topology' = [topology EXCEPT !["net_mappings"] = mappings]
    BY <1>2, <1>3, <1>5, AssignSets, Places
  <2>2. /\ DOMAIN topology' = Fields /\ topology'.net_mappings = mappings
        /\ topology'.name = topology.name
        /\ topology'.hosts = topology.hosts
        /\ topology'.routers = topology.routers
        /\ topology'.wan = topology.wan
        /\ topology'.networks = topology.networks
        /\ topology'.router_mappings = topology.router_mappings
        /\ topology'.groups = topology.groups
        /\ topology'.monitoring_targets = topology.monitoring_targets
        /\ topology'.vpn = topology.vpn
        /\ topology'.containers = topology.containers
    BY <1>3, <2>1 DEF Fields
  <2> HIDE DEF valid
  <2>3. Drawn(topology')
    BY <1>1, <2>2, ListsAreSeqs DEF Inv, Drawn
  <2>4. VolumesChecked'
    BY <2>1, <2>2 DEF Inv, VolumesChecked
  <2>5. \A x : ValidateNetMappings(topology', x) <=> ValidateNetMappings(topology, x)
    BY <2>2, SameParts
  <2>6. ValidateNetMappings(topology', topology'.net_mappings)
    BY <2>1, <2>2, <2>5 DEF valid
  <2>7. Checked'
    BY <2>1, <2>2, <2>6, SameParts
       DEF Inv, Checked, Accepted, AfterNetworks, AfterNetMappings, AfterRouterMappings,
           AfterGroups, AfterMonitoringTargets, AfterVpn, AfterContainers
  <2> QED
    BY <2>1, <2>3, <2>4, <2>7, Order DEF Inv
<1> QED
  BY <1>4, <1>5

LEMMA LoadRouterMappingsInv == Inv /\ LoadRouterMappings => Inv'
<1> SUFFICES ASSUME Inv, LoadRouterMappings PROVE Inv'
  OBVIOUS
<1>1. PICK mappings \in Lists(RouterMappingPool) :
        Assign("router_mappings", mappings, ValidateRouterMappings(topology, mappings))
  BY DEF LoadRouterMappings
<1> DEFINE valid == ValidateRouterMappings(topology, mappings)
<1>2. valid \in BOOLEAN /\ Assign(Attributes[5], mappings, valid)
  <2>1. valid \in BOOLEAN
    BY DEF ValidateRouterMappings
  <2> QED
    BY <1>1, <2>1, Places
<1>3. DOMAIN topology = Fields
  BY DEF Inv, Drawn
<1> HIDE DEF valid
<1>4. CASE at' = "rejected"
  <2>1. UNCHANGED topology
    BY <1>2, <1>4, AssignCases
  <2> QED
    BY <1>4, <2>1, RejectedKeeps
<1>5. CASE at' # "rejected"
  <2>1. /\ at = "router_mappings" /\ at' = "groups"
        /\ valid
        /\ topology' = [topology EXCEPT !["router_mappings"] = mappings]
    BY <1>2, <1>3, <1>5, AssignSets, Places
  <2>2. /\ DOMAIN topology' = Fields /\ topology'.router_mappings = mappings
        /\ topology'.name = topology.name
        /\ topology'.hosts = topology.hosts
        /\ topology'.routers = topology.routers
        /\ topology'.wan = topology.wan
        /\ topology'.networks = topology.networks
        /\ topology'.net_mappings = topology.net_mappings
        /\ topology'.groups = topology.groups
        /\ topology'.monitoring_targets = topology.monitoring_targets
        /\ topology'.vpn = topology.vpn
        /\ topology'.containers = topology.containers
    BY <1>3, <2>1 DEF Fields
  <2> HIDE DEF valid
  <2>3. Drawn(topology')
    BY <1>1, <2>2, ListsAreSeqs DEF Inv, Drawn
  <2>4. VolumesChecked'
    BY <2>1, <2>2 DEF Inv, VolumesChecked
  <2>5. \A x : ValidateRouterMappings(topology', x) <=> ValidateRouterMappings(topology, x)
    BY <2>2, SameParts
  <2>6. ValidateRouterMappings(topology', topology'.router_mappings)
    BY <2>1, <2>2, <2>5 DEF valid
  <2>7. Checked'
    BY <2>1, <2>2, <2>6, SameParts
       DEF Inv, Checked, Accepted, AfterNetworks, AfterNetMappings, AfterRouterMappings,
           AfterGroups, AfterMonitoringTargets, AfterVpn, AfterContainers
  <2> QED
    BY <2>1, <2>3, <2>4, <2>7, Order DEF Inv
<1> QED
  BY <1>4, <1>5

LEMMA LoadGroupsInv == Inv /\ LoadGroups => Inv'
<1> SUFFICES ASSUME Inv, LoadGroups PROVE Inv'
  OBVIOUS
<1>1. PICK groups \in SUBSET {g \in GroupPool : Extras < MaxExtras} :
        Assign("groups", groups, ValidateGroups(topology, groups))
  BY DEF LoadGroups
<1> DEFINE valid == ValidateGroups(topology, groups)
<1>2. valid \in BOOLEAN /\ Assign(Attributes[6], groups, valid)
  <2>1. valid \in BOOLEAN
    BY DEF ValidateGroups
  <2> QED
    BY <1>1, <2>1, Places
<1>3. DOMAIN topology = Fields
  BY DEF Inv, Drawn
<1> HIDE DEF valid
<1>4. CASE at' = "rejected"
  <2>1. UNCHANGED topology
    BY <1>2, <1>4, AssignCases
  <2> QED
    BY <1>4, <2>1, RejectedKeeps
<1>5. CASE at' # "rejected"
  <2>1. /\ at = "groups" /\ at' = "monitoring_targets"
        /\ valid
        /\ topology' = [topology EXCEPT !["groups"] = groups]
    BY <1>2, <1>3, <1>5, AssignSets, Places
  <2>2. /\ DOMAIN topology' = Fields /\ topology'.groups = groups
        /\ topology'.name = topology.name
        /\ topology'.hosts = topology.hosts
        /\ topology'.routers = topology.routers
        /\ topology'.wan = topology.wan
        /\ topology'.networks = topology.networks
        /\ topology'.net_mappings = topology.net_mappings
        /\ topology'.router_mappings = topology.router_mappings
        /\ topology'.monitoring_targets = topology.monitoring_targets
        /\ topology'.vpn = topology.vpn
        /\ topology'.containers = topology.containers
    BY <1>3, <2>1 DEF Fields
  <2> HIDE DEF valid
  <2>3. Drawn(topology')
    BY <1>1, <2>2 DEF Inv, Drawn
  <2>4. VolumesChecked'
    BY <2>1, <2>2 DEF Inv, VolumesChecked
  <2>5. \A x : ValidateGroups(topology', x) <=> ValidateGroups(topology, x)
    BY <2>2, SameParts
  <2>6. ValidateGroups(topology', topology'.groups)
    BY <2>1, <2>2, <2>5 DEF valid
  <2>7. Checked'
    BY <2>1, <2>2, <2>6, SameParts
       DEF Inv, Checked, Accepted, AfterNetworks, AfterNetMappings, AfterRouterMappings,
           AfterGroups, AfterMonitoringTargets, AfterVpn, AfterContainers
  <2> QED
    BY <2>1, <2>3, <2>4, <2>7, Order DEF Inv
<1> QED
  BY <1>4, <1>5

LEMMA LoadMonitoringTargetsInv == Inv /\ LoadMonitoringTargets => Inv'
<1> SUFFICES ASSUME Inv, LoadMonitoringTargets PROVE Inv'
  OBVIOUS
<1>1. PICK m \in {NoMonitoring} \union {x \in MonitoringPool : Extras < MaxExtras} :
        Assign("monitoring_targets", m, ValidateMonitoringTargets(topology, m))
  BY DEF LoadMonitoringTargets
<1> DEFINE valid == ValidateMonitoringTargets(topology, m)
<1>2. valid \in BOOLEAN /\ Assign(Attributes[7], m, valid)
  <2>1. valid \in BOOLEAN
    BY DEF ValidateMonitoringTargets
  <2> QED
    BY <1>1, <2>1, Places
<1>3. DOMAIN topology = Fields
  BY DEF Inv, Drawn
<1> HIDE DEF valid
<1>4. CASE at' = "rejected"
  <2>1. UNCHANGED topology
    BY <1>2, <1>4, AssignCases
  <2> QED
    BY <1>4, <2>1, RejectedKeeps
<1>5. CASE at' # "rejected"
  <2>1. /\ at = "monitoring_targets" /\ at' = "vpn"
        /\ valid
        /\ topology' = [topology EXCEPT !["monitoring_targets"] = m]
    BY <1>2, <1>3, <1>5, AssignSets, Places
  <2>2. /\ DOMAIN topology' = Fields /\ topology'.monitoring_targets = m
        /\ topology'.name = topology.name
        /\ topology'.hosts = topology.hosts
        /\ topology'.routers = topology.routers
        /\ topology'.wan = topology.wan
        /\ topology'.networks = topology.networks
        /\ topology'.net_mappings = topology.net_mappings
        /\ topology'.router_mappings = topology.router_mappings
        /\ topology'.groups = topology.groups
        /\ topology'.vpn = topology.vpn
        /\ topology'.containers = topology.containers
    BY <1>3, <2>1 DEF Fields
  <2> HIDE DEF valid
  <2>3. Drawn(topology')
    BY <1>1, <2>2 DEF Inv, Drawn
  <2>4. VolumesChecked'
    BY <2>1, <2>2 DEF Inv, VolumesChecked
  <2>5. \A x : ValidateMonitoringTargets(topology', x) <=> ValidateMonitoringTargets(topology, x)
    BY <2>2, SameParts
  <2>6. ValidateMonitoringTargets(topology', topology'.monitoring_targets)
    BY <2>1, <2>2, <2>5 DEF valid
  <2>7. Checked'
    BY <2>1, <2>2, <2>6, SameParts
       DEF Inv, Checked, Accepted, AfterNetworks, AfterNetMappings, AfterRouterMappings,
           AfterGroups, AfterMonitoringTargets, AfterVpn, AfterContainers
  <2> QED
    BY <2>1, <2>3, <2>4, <2>7, Order DEF Inv
<1> QED
  BY <1>4, <1>5

LEMMA LoadVpnInv == Inv /\ LoadVpn => Inv'
<1> SUFFICES ASSUME Inv, LoadVpn PROVE Inv'
  OBVIOUS
<1>1. PICK vpn \in {NoVpn} \union {x \in VpnPool : Extras < MaxExtras} :
        Assign("vpn", vpn, ValidateVpn(topology, vpn))
  BY DEF LoadVpn
<1> DEFINE valid == ValidateVpn(topology, vpn)
<1>2. valid \in BOOLEAN /\ Assign(Attributes[8], vpn, valid)
  <2>1. valid \in BOOLEAN
    BY DEF ValidateVpn
  <2> QED
    BY <1>1, <2>1, Places
<1>3. DOMAIN topology = Fields
  BY DEF Inv, Drawn
<1> HIDE DEF valid
<1>4. CASE at' = "rejected"
  <2>1. UNCHANGED topology
    BY <1>2, <1>4, AssignCases
  <2> QED
    BY <1>4, <2>1, RejectedKeeps
<1>5. CASE at' # "rejected"
  <2>1. /\ at = "vpn" /\ at' = "containers"
        /\ valid
        /\ topology' = [topology EXCEPT !["vpn"] = vpn]
    BY <1>2, <1>3, <1>5, AssignSets, Places
  <2>2. /\ DOMAIN topology' = Fields /\ topology'.vpn = vpn
        /\ topology'.name = topology.name
        /\ topology'.hosts = topology.hosts
        /\ topology'.routers = topology.routers
        /\ topology'.wan = topology.wan
        /\ topology'.networks = topology.networks
        /\ topology'.net_mappings = topology.net_mappings
        /\ topology'.router_mappings = topology.router_mappings
        /\ topology'.groups = topology.groups
        /\ topology'.monitoring_targets = topology.monitoring_targets
        /\ topology'.containers = topology.containers
    BY <1>3, <2>1 DEF Fields
  <2> HIDE DEF valid
  <2>3. Drawn(topology')
    BY <1>1, <2>2 DEF Inv, Drawn
  <2>4. VolumesChecked'
    BY <2>1, <2>2 DEF Inv, VolumesChecked
  <2>5. \A x : ValidateVpn(topology', x) <=> ValidateVpn(topology, x)
    BY <2>2, SameParts
  <2>6. ValidateVpn(topology', topology'.vpn)
    BY <2>1, <2>2, <2>5 DEF valid
  <2>7. Checked'
    BY <2>1, <2>2, <2>6, SameParts
       DEF Inv, Checked, Accepted, AfterNetworks, AfterNetMappings, AfterRouterMappings,
           AfterGroups, AfterMonitoringTargets, AfterVpn, AfterContainers
  <2> QED
    BY <2>1, <2>3, <2>4, <2>7, Order DEF Inv
<1> QED
  BY <1>4, <1>5

LEMMA LoadContainersInv == Inv /\ LoadContainers => Inv'
<1> SUFFICES ASSUME Inv, LoadContainers PROVE Inv'
  OBVIOUS
<1>1. PICK c \in {NoContainers} \union {x \in ContainersPool : Extras < MaxExtras} :
        Assign("containers", c, TRUE)
  BY DEF LoadContainers
<1> DEFINE valid == TRUE
<1>2. valid \in BOOLEAN /\ Assign(Attributes[9], c, valid)
  BY <1>1, Places
<1>3. DOMAIN topology = Fields
  BY DEF Inv, Drawn
<1> HIDE DEF valid
<1>4. CASE at' = "rejected"
  <2>1. UNCHANGED topology
    BY <1>2, <1>4, AssignCases
  <2> QED
    BY <1>4, <2>1, RejectedKeeps
<1>5. CASE at' # "rejected"
  <2>1. /\ at = "containers" /\ at' = "loaded"
        /\ valid
        /\ topology' = [topology EXCEPT !["containers"] = c]
    BY <1>2, <1>3, <1>5, AssignSets, Places
  <2>2. /\ DOMAIN topology' = Fields /\ topology'.containers = c
        /\ topology'.name = topology.name
        /\ topology'.hosts = topology.hosts
        /\ topology'.routers = topology.routers
        /\ topology'.wan = topology.wan
        /\ topology'.networks = topology.networks
        /\ topology'.net_mappings = topology.net_mappings
        /\ topology'.router_mappings = topology.router_mappings
        /\ topology'.groups = topology.groups
        /\ topology'.monitoring_targets = topology.monitoring_targets
        /\ topology'.vpn = topology.vpn
    BY <1>3, <2>1 DEF Fields
  <2> HIDE DEF valid
  <2>3. Drawn(topology')
    BY <1>1, <2>2 DEF Inv, Drawn
  <2>4. VolumesChecked'
    BY <2>1, <2>2 DEF Inv, VolumesChecked
  <2>5. Checked'
    BY <2>1, <2>2, SameParts
       DEF Inv, Checked, valid, Accepted, AfterNetworks, AfterNetMappings, AfterRouterMappings,
           AfterGroups, AfterMonitoringTargets, AfterVpn, AfterContainers
  <2> QED
    BY <2>1, <2>3, <2>4, <2>5, Order DEF Inv
<1> QED
  BY <1>4, <1>5

\* A definition is accepted when the three further checks pass.
LEMMA CreateDefinitionInv == Inv /\ CreateDefinition => Inv'
<1> SUFFICES ASSUME Inv, CreateDefinition PROVE Inv'
  OBVIOUS
<1>1. UNCHANGED topology /\ at = "loaded" /\ at' \in Verdicts
  BY DEF CreateDefinition, Verdicts
<1>2. CASE at' = "rejected"
  BY <1>1, <1>2, RejectedKeeps
<1>3. CASE at' = "accepted"
  <2>1. /\ ValidateTopologyDefinition(topology)
        /\ ValidateDockerContainers(topology)
        /\ CreateTerraformTemplate(topology)
    BY <1>3 DEF CreateDefinition
  <2>2. Checked'
    BY <1>1, <1>3, <2>1
       DEF Inv, Checked, Accepted, AfterNetworks, AfterNetMappings, AfterRouterMappings,
           AfterGroups, AfterMonitoringTargets, AfterVpn, AfterContainers
  <2> QED
    BY <1>1, <2>2 DEF Inv, VolumesChecked
<1> QED
  BY <1>1, <1>2, <1>3 DEF Verdicts

LEMMA Invariance == Spec => []Inv
<1>1. Inv /\ [Next]_<<topology, at>> => Inv'
  <2> SUFFICES ASSUME Inv, [Next]_<<topology, at>> PROVE Inv'
    OBVIOUS
  <2>1. CASE Load
    BY <2>1, LoadHostsInv, LoadRoutersInv, LoadNetworksInv, LoadNetMappingsInv,
       LoadRouterMappingsInv, LoadGroupsInv, LoadMonitoringTargetsInv, LoadVpnInv,
       LoadContainersInv DEF Load
  <2>2. CASE CreateDefinition
    BY <2>2, CreateDefinitionInv
  <2>3. CASE UNCHANGED <<topology, at>>
    BY <2>3 DEF Inv, Checked, VolumesChecked, Accepted
  <2> QED
    BY <2>1, <2>2, <2>3 DEF Next
<1> QED
  BY InitInv, <1>1, PTL DEF Spec

\* An accepted document.
AcceptedDocument(t) ==
  /\ Drawn(t)
  /\ ValidateNameUniqueness(t, t.networks)
  /\ ValidateNetMappings(t, t.net_mappings)
  /\ ValidateRouterMappings(t, t.router_mappings)
  /\ ValidateGroups(t, t.groups)
  /\ ValidateMonitoringTargets(t, t.monitoring_targets)
  /\ ValidateVpn(t, t.vpn)
  /\ ValidateTopologyDefinition(t)
  /\ ValidateDockerContainers(t)
  /\ CreateTerraformTemplate(t)

LEMMA AcceptedIsSound == Inv /\ Accepted => AcceptedDocument(topology)
BY DEF Inv, Checked, Accepted, AcceptedDocument, AfterNetworks, AfterNetMappings,
       AfterRouterMappings, AfterGroups, AfterMonitoringTargets, AfterVpn, AfterContainers

\* Every attribute has the type of its class, whatever is read: what the parser leaves open, the
\* validators close (a volume has a size).
THEOREM DocumentTyped == Spec => []TypeOK
<1>1. Inv => TypeOK
  <2> SUFFICES ASSUME Inv PROVE TypeOK
    OBVIOUS
  <2>1. \A h \in topology.hosts : h \in Host
    BY PoolAssumption DEF Inv, Drawn, VolumesChecked, IsVolumesValid, Host
  <2>2. /\ \A r \in topology.routers : r \in Router
        /\ \A n \in topology.networks : n \in Network
        /\ topology.wan \in WAN
        /\ \A g \in topology.groups : g \in Group
    BY PoolAssumption DEF Inv, Drawn
  <2>3. /\ \A m \in ToSet(topology.net_mappings) : m \in NetworkMapping
        /\ \A m \in ToSet(topology.router_mappings) : m \in RouterMapping
    BY PoolAssumption DEF Inv, Drawn, ToSet
  <2>4. /\ topology.monitoring_targets \in MonitoringTargets
        /\ topology.vpn \in Vpn
        /\ topology.containers \in DockerContainers
    <3>1. NoMonitoring \in MonitoringTargets
      BY DEF NoMonitoring, MonitoringTargets
    <3>2. NoVpn \in Vpn
      BY DEF NoVpn, Vpn
    <3>3. NoContainers \in DockerContainers
      BY DEF NoContainers, DockerContainers
    <3> QED
      BY PoolAssumption, <3>1, <3>2, <3>3 DEF Inv, Drawn
  <2> QED
    BY <2>1, <2>2, <2>3, <2>4 DEF Inv, TypeOK
<1> QED
  BY Invariance, <1>1, PTL

-----------------------------------------------------------------------------
(* Names. *)

\* There are at most as many names as elements, and as many only if no two have one name.
LEMMA NamesAtMost ==
  ASSUME NEW S, IsFiniteSet(S)
  PROVE  /\ IsFiniteSet(NamesOf(S))
         /\ Cardinality(NamesOf(S)) \in Nat /\ Cardinality(S) \in Nat
         /\ Cardinality(NamesOf(S)) <= Cardinality(S)
         /\ Cardinality(NamesOf(S)) = Cardinality(S) =>
              \A a, b \in S : a.name = b.name => a = b
<1> DEFINE f == [e \in S |-> e.name]
<1>1. f \in Surjection(S, NamesOf(S))
  BY DEF Surjection, NamesOf
<1> HIDE DEF f
<1>2. /\ IsFiniteSet(NamesOf(S))
      /\ Cardinality(NamesOf(S)) <= Cardinality(S)
      /\ Cardinality(NamesOf(S)) = Cardinality(S) <=> f \in Injection(S, NamesOf(S))
  BY <1>1, FS_Surjection
<1>3. ASSUME f \in Injection(S, NamesOf(S)), NEW a \in S, NEW b \in S, a.name = b.name
      PROVE  a = b
  BY <1>3 DEF f, Injection, IsInjective
<1> QED
  BY <1>2, <1>3, FS_CardinalityType

\* Two finite sets have at most as many elements together as each for itself, and as many only
\* if they share none.
LEMMA UnionAtMost ==
  ASSUME NEW S, NEW T, IsFiniteSet(S), IsFiniteSet(T)
  PROVE  /\ IsFiniteSet(S \union T)
         /\ Cardinality(S) \in Nat /\ Cardinality(T) \in Nat /\ Cardinality(S \union T) \in Nat
         /\ Cardinality(S \union T) <= Cardinality(S) + Cardinality(T)
         /\ Cardinality(S \union T) = Cardinality(S) + Cardinality(T) => S \intersect T = {}
<1>1. /\ IsFiniteSet(S \union T)
      /\ Cardinality(S \union T) = Cardinality(S) + Cardinality(T) - Cardinality(S \intersect T)
  BY FS_Union
<1>2. IsFiniteSet(S \intersect T)
  BY FS_Subset, S \intersect T \in SUBSET S
<1>3. Cardinality(S \intersect T) \in Nat /\ Cardinality(S) \in Nat /\ Cardinality(T) \in Nat
  BY <1>2, FS_CardinalityType
<1>4. Cardinality(S \union T) \in Nat
  BY <1>1, FS_CardinalityType
<1>5. Cardinality(S \intersect T) = 0 => S \intersect T = {}
  BY <1>2, FS_EmptySet
<1> QED
  BY <1>1, <1>3, <1>4, <1>5

UniqueNames(t) ==
  /\ \A a, b \in t.hosts : a.name = b.name => a = b
  /\ \A a, b \in t.routers : a.name = b.name => a = b
  /\ \A a, b \in t.networks : a.name = b.name => a = b
  /\ NamesOf(t.hosts) \intersect NamesOf(t.routers) = {}
  /\ t.wan.name \notin NamesOf(t.networks)

\* Names identify hosts, routers and networks among each other: the validator only counts.
LEMMA NamesIdentify ==
  ASSUME NEW t, Drawn(t), ValidateNameUniqueness(t, t.networks)
  PROVE  UniqueNames(t)
<1> DEFINE H == NamesOf(t.hosts)
           R == NamesOf(t.routers)
           N == NamesOf(t.networks)
           O == {t.name, t.wan.name}
<1>1. /\ IsFiniteSet(t.hosts) /\ IsFiniteSet(t.routers) /\ IsFiniteSet(t.networks)
  BY PoolAssumption, FS_Subset DEF Drawn
<1>2. IsFiniteSet(O) /\ Cardinality(O) \in Nat /\ Cardinality(O) <= 2
  <2>1. IsFiniteSet({t.name}) /\ Cardinality({t.name}) = 1
    BY FS_Singleton
  <2>2. /\ IsFiniteSet({t.name} \union {t.wan.name})
        /\ Cardinality({t.name} \union {t.wan.name}) \in {1, 2}
    BY <2>1, FS_AddElement
  <2>3. O = {t.name} \union {t.wan.name}
    OBVIOUS
  <2> QED
    BY <2>2, <2>3
<1>3. O \union NamesOf(t.hosts \union t.routers \union t.networks) = O \union (N \union (H \union R))
  BY DEF NamesOf
<1>4. Cardinality(O \union (N \union (H \union R)))
        = 2 + Cardinality(t.hosts) + Cardinality(t.routers) + Cardinality(t.networks)
  BY <1>3 DEF ValidateNameUniqueness
<1>5. /\ IsFiniteSet(H) /\ Cardinality(H) \in Nat /\ Cardinality(t.hosts) \in Nat
      /\ Cardinality(H) <= Cardinality(t.hosts)
      /\ Cardinality(H) = Cardinality(t.hosts) => \A a, b \in t.hosts : a.name = b.name => a = b
  BY <1>1, NamesAtMost
<1>6. /\ IsFiniteSet(R) /\ Cardinality(R) \in Nat /\ Cardinality(t.routers) \in Nat
      /\ Cardinality(R) <= Cardinality(t.routers)
      /\ Cardinality(R) = Cardinality(t.routers) => \A a, b \in t.routers : a.name = b.name => a = b
  BY <1>1, NamesAtMost
<1>7. /\ IsFiniteSet(N) /\ Cardinality(N) \in Nat /\ Cardinality(t.networks) \in Nat
      /\ Cardinality(N) <= Cardinality(t.networks)
      /\ Cardinality(N) = Cardinality(t.networks) => \A a, b \in t.networks : a.name = b.name => a = b
  BY <1>1, NamesAtMost
<1> HIDE DEF H, R, N, O
<1>8. /\ IsFiniteSet(H \union R) /\ Cardinality(H \union R) \in Nat
      /\ Cardinality(H \union R) <= Cardinality(H) + Cardinality(R)
      /\ Cardinality(H \union R) = Cardinality(H) + Cardinality(R) => H \intersect R = {}
  BY <1>5, <1>6, UnionAtMost
<1>9. /\ IsFiniteSet(N \union (H \union R)) /\ Cardinality(N \union (H \union R)) \in Nat
      /\ Cardinality(N \union (H \union R)) <= Cardinality(N) + Cardinality(H \union R)
  BY <1>7, <1>8, UnionAtMost
<1>10. /\ Cardinality(O \union (N \union (H \union R))) <= Cardinality(O) + Cardinality(N \union (H \union R))
       /\ Cardinality(O \union (N \union (H \union R))) = Cardinality(O) + Cardinality(N \union (H \union R))
            => O \intersect (N \union (H \union R)) = {}
  BY <1>2, <1>9, UnionAtMost
<1>11. /\ Cardinality(H) = Cardinality(t.hosts) /\ Cardinality(R) = Cardinality(t.routers)
       /\ Cardinality(N) = Cardinality(t.networks)
       /\ Cardinality(H \union R) = Cardinality(H) + Cardinality(R)
       /\ Cardinality(O \union (N \union (H \union R))) = Cardinality(O) + Cardinality(N \union (H \union R))
  BY <1>2, <1>4, <1>5, <1>6, <1>7, <1>8, <1>9, <1>10
<1>12. t.wan.name \notin N
  BY <1>10, <1>11 DEF O
<1> QED
  BY <1>5, <1>6, <1>7, <1>8, <1>11, <1>12 DEF H, R, N, UniqueNames

-----------------------------------------------------------------------------
(* Links. *)

LEMMA Parts ==
  /\ \A k, n : Obj(k, n).kind = k /\ Obj(k, n).name = n
  /\ \A x, n, i : /\ Link(x, n, i).node = x /\ Link(x, n, i).network = n
                  /\ Link(x, n, i).ip = i
BY DEF Obj, Link

HostLink(m) == Link(Obj("host", m.host), Obj("user", m.network), m.ip)
RouterLink(m) == Link(Obj("router", m.router), Obj("user", m.network), m.ip)

\* The mappings refer to what the document has; an address is of one port.
LEMMA MappingsFit ==
  ASSUME NEW t, AcceptedDocument(t)
  PROVE  /\ \A i \in DOMAIN t.net_mappings :
              /\ t.net_mappings[i] \in NetMappingPool
              /\ t.net_mappings[i].host \in NamesOf(t.hosts)
              /\ t.net_mappings[i].network \in NamesOf(t.networks)
         /\ \A i \in DOMAIN t.router_mappings :
              /\ t.router_mappings[i] \in RouterMappingPool
              /\ t.router_mappings[i].router \in NamesOf(t.routers)
              /\ t.router_mappings[i].network \in NamesOf(t.networks)
<1>1. /\ \A i \in DOMAIN t.net_mappings : t.net_mappings[i] \in NetMappingPool
      /\ \A i \in DOMAIN t.router_mappings : t.router_mappings[i] \in RouterMappingPool
  BY DEF AcceptedDocument, Drawn
<1>2. \A m \in ToSet(t.net_mappings) : m.host \in NamesOf(t.hosts) /\ m.network \in NamesOf(t.networks)
  BY DEF AcceptedDocument, ValidateNetMappings
<1>3. \A m \in ToSet(t.router_mappings) :
        m.router \in NamesOf(t.routers) /\ m.network \in NamesOf(t.networks)
  BY DEF AcceptedDocument, ValidateRouterMappings, ValidateNameMappings
<1> QED
  BY <1>1, <1>2, <1>3 DEF ToSet

\* What links there are.
LEMMA LinksHas ==
  ASSUME NEW t
  PROVE  /\ Link(MAN, ManNetwork, 0) \in Links(t) /\ Link(MAN, WanOf(t), 0) \in Links(t)
         /\ \A x \in HostObjs(t) \union RouterObjs(t) : Link(x, ManNetwork, 0) \in Links(t)
         /\ \A x \in RouterObjs(t) : Link(x, WanOf(t), 0) \in Links(t)
         /\ \A i \in DOMAIN t.net_mappings : HostLink(t.net_mappings[i]) \in Links(t)
         /\ \A i \in DOMAIN t.router_mappings : RouterLink(t.router_mappings[i]) \in Links(t)
<1>1. Link(MAN, ManNetwork, 0) \in Links(t) /\ Link(MAN, WanOf(t), 0) \in Links(t)
  BY DEF Links, ExtraNodesLinks
<1>2. \A h \in t.hosts : Link(Obj("host", h.name), ManNetwork, 0) \in Links(t)
  BY DEF Links, HostsLinks
<1>3. \A r \in t.routers : /\ Link(Obj("router", r.name), ManNetwork, 0) \in Links(t)
                           /\ Link(Obj("router", r.name), WanOf(t), 0) \in Links(t)
  BY DEF Links, RoutersLinks
<1>4. \A i \in DOMAIN t.net_mappings : HostLink(t.net_mappings[i]) \in Links(t)
  BY DEF Links, HostsLinks, HostLink, ToSet
<1>5. \A i \in DOMAIN t.router_mappings : RouterLink(t.router_mappings[i]) \in Links(t)
  BY DEF Links, RoutersLinks, RouterLink, ToSet
<1>6. /\ \A x \in HostObjs(t) : \E h \in t.hosts : x = Obj("host", h.name)
      /\ \A x \in RouterObjs(t) : \E r \in t.routers : x = Obj("router", r.name)
  BY DEF HostObjs, RouterObjs, NamesOf
<1> QED
  BY <1>1, <1>2, <1>3, <1>4, <1>5, <1>6

LEMMA LinkCases ==
  ASSUME NEW t, NEW l \in Links(t)
  PROVE  \/ l = Link(MAN, ManNetwork, 0)
         \/ l = Link(MAN, WanOf(t), 0)
         \/ \E x \in HostObjs(t) \union RouterObjs(t) : l = Link(x, ManNetwork, 0)
         \/ \E x \in RouterObjs(t) : l = Link(x, WanOf(t), 0)
         \/ \E i \in DOMAIN t.net_mappings : l = HostLink(t.net_mappings[i])
         \/ \E i \in DOMAIN t.router_mappings : l = RouterLink(t.router_mappings[i])
<1>1. CASE l \in ExtraNodesLinks(t)
  BY <1>1 DEF ExtraNodesLinks
<1>2. CASE l \in HostsLinks(t)
  <2>1. CASE \E h \in t.hosts : l = Link(Obj("host", h.name), ManNetwork, 0)
    BY <2>1 DEF HostObjs, NamesOf
  <2>2. CASE \E i \in DOMAIN t.net_mappings : l = HostLink(t.net_mappings[i])
    BY <2>2
  <2> QED
    BY <1>2, <2>1, <2>2 DEF HostsLinks, HostLink, ToSet
<1>3. CASE l \in RoutersLinks(t)
  <2>1. CASE \E r \in t.routers, n \in {ManNetwork, WanOf(t)} : l = Link(Obj("router", r.name), n, 0)
    BY <2>1 DEF RouterObjs, NamesOf
  <2>2. CASE \E i \in DOMAIN t.router_mappings : l = RouterLink(t.router_mappings[i])
    BY <2>2
  <2> QED
    BY <1>3, <2>1, <2>2 DEF RoutersLinks, RouterLink, ToSet
<1> QED
  BY <1>1, <1>2, <1>3 DEF Links

\* Whose link it is, and of which network.
LEMMA LinkIs ==
  ASSUME NEW t, AcceptedDocument(t), NEW l \in Links(t)
  PROVE  /\ l.node \in HostObjs(t) \union RouterObjs(t) \union {MAN}
         /\ l.network \in HostsNetworks(t) \union {ManNetwork, WanOf(t)}
         /\ l.network = ManNetwork => l = Link(l.node, ManNetwork, 0)
         /\ l.network = WanOf(t) => /\ l.node \in RouterObjs(t) \union {MAN}
                                    /\ l = Link(l.node, WanOf(t), 0)
         /\ l.network \in HostsNetworks(t) =>
              \/ /\ l.node \in HostObjs(t)
                 /\ \E i \in DOMAIN t.net_mappings : l = HostLink(t.net_mappings[i])
              \/ /\ l.node \in RouterObjs(t)
                 /\ \E i \in DOMAIN t.router_mappings : l = RouterLink(t.router_mappings[i])
<1>1. /\ ManNetwork.kind = "management" /\ WanOf(t).kind = "wan"
      /\ \A n \in HostsNetworks(t) : n.kind = "user"
  BY DEF ManNetwork, WanOf, HostsNetworks, Obj
<1>2. CASE \E x \in HostObjs(t) \union RouterObjs(t) \union {MAN} : l = Link(x, ManNetwork, 0)
  BY <1>1, <1>2, Parts
<1>3. CASE \E x \in RouterObjs(t) \union {MAN} : l = Link(x, WanOf(t), 0)
  BY <1>1, <1>3, Parts
<1>4. CASE \E i \in DOMAIN t.net_mappings : l = HostLink(t.net_mappings[i])
  <2>1. PICK i \in DOMAIN t.net_mappings : l = HostLink(t.net_mappings[i])
    BY <1>4
  <2>2. l.node = Obj("host", t.net_mappings[i].host) /\ l.network = Obj("user", t.net_mappings[i].network)
    BY <2>1, Parts DEF HostLink
  <2>3. l.node \in HostObjs(t) /\ l.network \in HostsNetworks(t)
    BY <2>2, MappingsFit DEF HostObjs, HostsNetworks
  <2> QED
    BY <1>1, <2>1, <2>3
<1>5. CASE \E i \in DOMAIN t.router_mappings : l = RouterLink(t.router_mappings[i])
  <2>1. PICK i \in DOMAIN t.router_mappings : l = RouterLink(t.router_mappings[i])
    BY <1>5
  <2>2. /\ l.node = Obj("router", t.router_mappings[i].router)
        /\ l.network = Obj("user", t.router_mappings[i].network)
    BY <2>1, Parts DEF RouterLink
  <2>3. l.node \in RouterObjs(t) /\ l.network \in HostsNetworks(t)
    BY <2>2, MappingsFit DEF RouterObjs, HostsNetworks
  <2> QED
    BY <1>1, <2>1, <2>3
<1> QED
  BY <1>2, <1>3, <1>4, <1>5, LinkCases

-----------------------------------------------------------------------------
(* What a trainee is shown. *)

Row(t, r, n, x) ==
  [router |-> r, subnet |-> n, host |-> x,
   is_accessible |-> NetworkOf(t, n).accessible_by_user]

LEMMA Rows ==
  ASSUME NEW t, NEW row
  PROVE  row \in Topology(t) <=>
           \E r \in GetVisibleRouters(t) : \E n \in SubnetsForRouter(t, r) :
             \E x \in HostsForNetwork(t, n) : row = Row(t, r, n, x)
<1> DEFINE S(r, n) == {Row(t, r, n, x) : x \in HostsForNetwork(t, n)}
           U(r) == UNION {S(r, n) : n \in SubnetsForRouter(t, r)}
<1>1. Topology(t) = UNION {U(r) : r \in GetVisibleRouters(t)}
  BY DEF Topology, Row
<1>2. \A r, n : row \in S(r, n) <=> \E x \in HostsForNetwork(t, n) : row = Row(t, r, n, x)
  OBVIOUS
<1> HIDE DEF S
<1>3. \A r : row \in U(r) <=> \E n \in SubnetsForRouter(t, r) : row \in S(r, n)
  OBVIOUS
<1> HIDE DEF U
<1>4. row \in UNION {U(r) : r \in GetVisibleRouters(t)} <=>
        \E r \in GetVisibleRouters(t) : row \in U(r)
  OBVIOUS
<1> QED
  BY <1>1, <1>2, <1>3, <1>4

\* A row's parts are visible, each by the query that it comes from.
LEMMA RowIsVisible ==
  ASSUME NEW t, AcceptedDocument(t), NEW row \in Topology(t)
  PROVE  /\ row.router \in GetVisibleRouters(t)
         /\ row.subnet \in HostsNetworks(t) \intersect GetVisibleNetworks(t)
         /\ row.host \in GetVisibleHosts(t)
         /\ row.is_accessible = NetworkOf(t, row.subnet).accessible_by_user
<1>1. PICK r \in GetVisibleRouters(t) : \E n \in SubnetsForRouter(t, r) :
             \E x \in HostsForNetwork(t, n) : row = Row(t, r, n, x)
  BY Rows
<1>2. PICK n \in SubnetsForRouter(t, r) : \E x \in HostsForNetwork(t, n) : row = Row(t, r, n, x)
  BY <1>1
<1>3. PICK x \in HostsForNetwork(t, n) : row = Row(t, r, n, x)
  BY <1>2
<1>4. n \in HostsNetworks(t) \intersect GetVisibleNetworks(t)
  BY DEF SubnetsForRouter, Subnets, GetNodeLinks
<1>5. x \in GetVisibleHosts(t)
  BY DEF HostsForNetwork, GetNetworkLinks
<1> QED
  BY <1>3, <1>4, <1>5 DEF Row

\* A host and a router of one network meet in a row, if neither they nor the network are hidden.
LEMMA VisibleIsShown ==
  ASSUME NEW t, AcceptedDocument(t), WanRecognised,
         NEW i \in DOMAIN t.net_mappings, NEW j \in DOMAIN t.router_mappings,
         t.net_mappings[i].network = t.router_mappings[j].network,
         ~ HostOf(t, Obj("host", t.net_mappings[i].host)).hidden,
         ~ NetworkOf(t, Obj("user", t.net_mappings[i].network)).hidden,
         ~ NodeOf(t, Obj("router", t.router_mappings[j].router)).hidden
  PROVE  \E row \in Topology(t) : /\ row.host.name = t.net_mappings[i].host
                                  /\ row.subnet.name = t.net_mappings[i].network
<1> DEFINE x == Obj("host", t.net_mappings[i].host)
           n == Obj("user", t.net_mappings[i].network)
           r == Obj("router", t.router_mappings[j].router)
<1>1. x \in HostObjs(t) /\ n \in HostsNetworks(t) /\ r \in RouterObjs(t)
  BY MappingsFit DEF HostObjs, HostsNetworks, RouterObjs
<1>2. HostLink(t.net_mappings[i]) \in Links(t) /\ RouterLink(t.router_mappings[j]) \in Links(t)
  BY LinksHas
<1>3. /\ HostLink(t.net_mappings[i]).node = x /\ HostLink(t.net_mappings[i]).network = n
      /\ RouterLink(t.router_mappings[j]).node = r /\ RouterLink(t.router_mappings[j]).network = n
  BY Parts DEF HostLink, RouterLink
<1>4. x.name = t.net_mappings[i].host /\ n.name = t.net_mappings[i].network
  BY Parts
<1>5. r \in GetVisibleRouters(t)
  BY <1>1 DEF GetVisibleRouters
<1>6. n \in GetVisibleNetworks(t)
  BY <1>1, <1>4, <1>5 DEF GetVisibleNetworks, ToSet
<1>7. x \in GetVisibleHosts(t)
  BY <1>1, <1>4, <1>6 DEF GetVisibleHosts, ToSet
<1>8. ~ IsWanNetwork(n)
  <2>1. PICK m \in t.networks : m.name = n.name
    BY <1>1, Parts DEF HostsNetworks, NamesOf
  <2>2. m \in NetworkPool /\ t.wan \in WanPool /\ m.name # t.wan.name
    BY NamesIdentify DEF AcceptedDocument, Drawn, UniqueNames, NamesOf
  <2> QED
    BY <2>1, <2>2 DEF WanRecognised, IsWanNetwork
<1> HIDE DEF x, n, r
<1>9. n \in SubnetsForRouter(t, r)
  <2>1. RouterLink(t.router_mappings[j]) \in GetNodeLinks(t, r, HostsNetworks(t))
    BY <1>1, <1>2, <1>3 DEF GetNodeLinks
  <2> QED
    BY <1>3, <1>6, <1>8, <2>1 DEF SubnetsForRouter, Subnets
<1>10. x \in HostsForNetwork(t, n)
  <2>1. HostLink(t.net_mappings[i]) \in GetNetworkLinks(t, n, GetVisibleHosts(t))
    BY <1>2, <1>3, <1>7 DEF GetNetworkLinks
  <2> QED
    BY <1>3, <2>1 DEF HostsForNetwork
<1>11. Row(t, r, n, x) \in Topology(t)
  BY <1>5, <1>9, <1>10, Rows
<1>12. Row(t, r, n, x).host = x /\ Row(t, r, n, x).subnet = n
  BY DEF Row
<1> QED
  BY <1>4, <1>11, <1>12

\* The topology shown to a trainee (lib/topology.py) has no hidden host, network or router and
\* lacks none that is not, whatever the document; provided no user network takes the name by
\* which the code recognises the WAN, when the WAN has another.
THEOREM TraineesSeeWhatIsVisible ==
  ASSUME WanRecognised
  PROVE  Spec => []NothingHiddenShown
<1>1. ASSUME Inv, Accepted PROVE NothingHiddenShown
  <2>1. AcceptedDocument(topology)
    BY <1>1, AcceptedIsSound
  <2>2. ASSUME NEW row \in Topology(topology)
        PROVE  /\ ~ HostOf(topology, row.host).hidden
               /\ ~ NetworkOf(topology, row.subnet).hidden
               /\ ~ NodeOf(topology, row.router).hidden
    <3>1. /\ row.router \in GetVisibleRouters(topology)
          /\ row.subnet \in HostsNetworks(topology) \intersect GetVisibleNetworks(topology)
          /\ row.host \in GetVisibleHosts(topology)
      BY <2>1, RowIsVisible
    <3>2. row.subnet # WanOf(topology)
      BY <3>1 DEF HostsNetworks, WanOf, Obj
    <3> QED
      BY <3>1, <3>2 DEF GetVisibleRouters, GetVisibleNetworks, GetVisibleHosts
  <2>3. ASSUME NEW m \in ToSet(topology.net_mappings), NEW r \in ToSet(topology.router_mappings),
               m.network = r.network,
               ~ HostOf(topology, Obj("host", m.host)).hidden,
               ~ NetworkOf(topology, Obj("user", m.network)).hidden,
               ~ NodeOf(topology, Obj("router", r.router)).hidden
        PROVE  \E row \in Topology(topology) : row.host.name = m.host /\ row.subnet.name = m.network
    <3>1. PICK i \in DOMAIN topology.net_mappings : m = topology.net_mappings[i]
      BY DEF ToSet
    <3>2. PICK j \in DOMAIN topology.router_mappings : r = topology.router_mappings[j]
      BY DEF ToSet
    <3> QED
      BY <2>1, <2>3, <3>1, <3>2, VisibleIsShown
  <2> QED
    BY <2>2, <2>3 DEF NothingHiddenShown
<1>2. Inv => NothingHiddenShown
  BY <1>1 DEF NothingHiddenShown
<1> QED
  BY Invariance, <1>2, PTL

-----------------------------------------------------------------------------
(* Routes. *)

\* A node, and a network of the user, is known by its name.
LEMMA ByName ==
  ASSUME NEW t, AcceptedDocument(t), ManReserved
  PROVE  /\ \A x, y \in HostObjs(t) \union RouterObjs(t) \union {MAN} : x.name = y.name => x = y
         /\ \A n \in HostsNetworks(t), m \in HostsNetworks(t) \union {ManNetwork, WanOf(t)} :
              m.name = n.name => m = n
         /\ \A n \in HostsNetworks(t) \union {WanOf(t)} : n.name # ManNetwork.name
         /\ \A x \in HostObjs(t) \union RouterObjs(t) : x.name # MAN.name
<1>1. UniqueNames(t)
  BY NamesIdentify DEF AcceptedDocument
<1>2. /\ \A x \in HostObjs(t) : /\ x.name \in NamesOf(t.hosts) /\ x = Obj("host", x.name)
                                /\ x.name # MAN.name
      /\ \A x \in RouterObjs(t) : /\ x.name \in NamesOf(t.routers) /\ x = Obj("router", x.name)
                                  /\ x.name # MAN.name
  BY Parts DEF HostObjs, RouterObjs, AcceptedDocument, Drawn, ManReserved, NamesOf
<1>3. \A n \in HostsNetworks(t) : /\ n.name \in NamesOf(t.networks) /\ n = Obj("user", n.name)
                                  /\ n.name # ManNetwork.name
  BY Parts DEF HostsNetworks, AcceptedDocument, Drawn, ManReserved, NamesOf
<1>4. WanOf(t).name = t.wan.name /\ t.wan.name # ManNetwork.name
  BY Parts DEF WanOf, AcceptedDocument, Drawn, ManReserved
<1>5. \A x, y \in HostObjs(t) \union RouterObjs(t) \union {MAN} : x.name = y.name => x = y
  BY <1>1, <1>2 DEF UniqueNames
<1>6. \A n \in HostsNetworks(t), m \in HostsNetworks(t) \union {ManNetwork, WanOf(t)} :
        m.name = n.name => m = n
  BY <1>1, <1>3, <1>4 DEF UniqueNames
<1> QED
  BY <1>2, <1>3, <1>4, <1>5, <1>6

\* The values of a function on a finite set are finitely many.
LEMMA ImageFinite ==
  ASSUME NEW f, IsFiniteSet(DOMAIN f)
  PROVE  IsFiniteSet({f[x] : x \in DOMAIN f})
<1> DEFINE g == [x \in DOMAIN f |-> f[x]]
<1>1. g \in Surjection(DOMAIN f, {f[x] : x \in DOMAIN f})
  BY DEF Surjection
<1> QED
  BY <1>1, FS_Surjection

LEMMA SeqDomainFinite ==
  ASSUME NEW S, NEW s \in Seq(S)
  PROVE  IsFiniteSet(DOMAIN s)
<1>1. Len(s) \in Nat /\ DOMAIN s = 1..Len(s)
  OBVIOUS
<1> QED
  BY <1>1, FS_Interval

\* The one link between a network and its router.
LEMMA OneGateway ==
  ASSUME NEW t, AcceptedDocument(t), ManReserved, NEW n \in HostsNetworks(t)
  PROVE  /\ \A l \in GetNetworkDefaultGatewayLink(t, n) :
              l \in Links(t) /\ l.network = n /\ l.node \in RouterObjs(t)
         /\ \A l \in Links(t) : l.network = n /\ l.node \in RouterObjs(t) =>
              l \in GetNetworkDefaultGatewayLink(t, n)
         /\ \E g : GetNetworkDefaultGatewayLink(t, n) = {g}
<1>1. ASSUME NEW l \in GetNetworkDefaultGatewayLink(t, n)
      PROVE  l \in Links(t) /\ l.network = n /\ l.node \in RouterObjs(t)
  <2>1. l \in Links(t) /\ l.network.name = n.name /\ l.node \in RouterObjs(t)
    BY DEF GetNetworkDefaultGatewayLink, GetNetworkLinks
  <2>2. l.network \in HostsNetworks(t) \union {ManNetwork, WanOf(t)}
    BY <2>1, LinkIs
  <2> QED
    BY <2>1, <2>2, ByName
<1>2. \A l \in Links(t) : l.network = n /\ l.node \in RouterObjs(t) =>
        l \in GetNetworkDefaultGatewayLink(t, n)
  BY DEF GetNetworkDefaultGatewayLink, GetNetworkLinks
<1>3. Cardinality(GetNetworkDefaultGatewayLink(t, n)) = 1
  <2>1. n.name # ManNetwork.name
    BY ByName
  <2>2. n \in GetNetworks(t)
    BY <2>1 DEF GetNetworks
  <2> QED
    BY <2>2 DEF AcceptedDocument, CreateTerraformTemplate
<1>4. IsFiniteSet(GetNetworkDefaultGatewayLink(t, n))
  <2> DEFINE f == [i \in DOMAIN t.router_mappings |-> RouterLink(t.router_mappings[i])]
  <2>1. IsFiniteSet(DOMAIN t.router_mappings)
    BY SeqDomainFinite DEF AcceptedDocument, Drawn
  <2>2. IsFiniteSet({f[i] : i \in DOMAIN f})
    BY <2>1, ImageFinite
  <2>3. ASSUME NEW l \in GetNetworkDefaultGatewayLink(t, n)
        PROVE  l \in {f[i] : i \in DOMAIN f}
    <3>1. l \in Links(t) /\ l.network \in HostsNetworks(t) /\ l.node \in RouterObjs(t)
      BY <1>1
    <3>2. l.node \notin HostObjs(t)
      BY <3>1 DEF HostObjs, RouterObjs, Obj
    <3>3. \E i \in DOMAIN t.router_mappings : l = RouterLink(t.router_mappings[i])
      BY <3>1, <3>2, LinkIs
    <3> QED
      BY <3>3
  <2> QED
    BY <2>2, <2>3, FS_Subset
<1>5. \E g : GetNetworkDefaultGatewayLink(t, n) = {g}
  BY <1>3, <1>4, FS_Singleton
<1> QED
  BY <1>1, <1>2, <1>5

\* The inventory's choice of a router by the alphabet is the gateway of the template.
LEMMA RouterIsGateway ==
  ASSUME NEW t, AcceptedDocument(t), ManReserved, NEW n \in HostsNetworks(t),
         NEW g, GetNetworkDefaultGatewayLink(t, n) = {g}
  PROVE  NetworkToRouterMapping(t, n) = g.node.name
<1> DEFINE of == {m.router : m \in {x \in ToSet(t.router_mappings) : x.network = n.name}}
           first(i) == Alphabet[i] \in of /\ \A j \in 1..(i - 1) : Alphabet[j] \notin of
<1>1. g \in Links(t) /\ g.network = n /\ g.node \in RouterObjs(t)
  BY OneGateway
<1>2. g.node.name \in of
  <2>1. g.node \notin HostObjs(t)
    BY <1>1 DEF HostObjs, RouterObjs, Obj
  <2>2. PICK i \in DOMAIN t.router_mappings : g = RouterLink(t.router_mappings[i])
    BY <1>1, <2>1, LinkIs
  <2>3. g.node.name = t.router_mappings[i].router /\ n.name = t.router_mappings[i].network
    BY <1>1, <2>2, Parts DEF RouterLink
  <2> QED
    BY <2>3 DEF ToSet
<1>3. ASSUME NEW r \in of PROVE r = g.node.name
  <2>1. PICK m \in ToSet(t.router_mappings) : m.network = n.name /\ m.router = r
    OBVIOUS
  <2>2. PICK i \in DOMAIN t.router_mappings : m = t.router_mappings[i]
    BY DEF ToSet
  <2>3. /\ RouterLink(m) \in Links(t) /\ RouterLink(m).node = Obj("router", r)
        /\ RouterLink(m).network = Obj("user", n.name)
    BY <2>1, <2>2, LinksHas, Parts DEF RouterLink
  <2>4. Obj("router", r) \in RouterObjs(t)
    BY <2>1, <2>2, MappingsFit DEF RouterObjs
  <2>5. Obj("user", n.name) = n
    BY Parts DEF HostsNetworks
  <2>6. RouterLink(m) \in GetNetworkDefaultGatewayLink(t, n)
    BY <2>3, <2>4, <2>5, OneGateway
  <2>7. RouterLink(m) = g
    BY <2>6
  <2> QED
    BY <2>3, <2>7, Parts
<1>4. of = {g.node.name}
  BY <1>2, <1>3
<1>5. PICK k \in DOMAIN Alphabet : Alphabet[k] = g.node.name
  <2>1. PICK r \in t.routers : r.name = g.node.name
    BY <1>1, Parts DEF RouterObjs, NamesOf
  <2>2. r \in RouterPool
    BY DEF AcceptedDocument, Drawn
  <2> QED
    BY <2>1, <2>2, AlphabetAssumption
<1>6. DOMAIN Alphabet = 1..Len(Alphabet) /\ Len(Alphabet) \in Nat
  BY AlphabetAssumption
<1>7. NetworkToRouterMapping(t, n) = Alphabet[CHOOSE i \in DOMAIN Alphabet : first(i)]
  BY DEF NetworkToRouterMapping
<1> HIDE DEF of
<1>8. first(k)
  <2>1. ASSUME NEW j \in 1..(k - 1), Alphabet[j] \in of PROVE FALSE
    <3>1. j \in DOMAIN Alphabet /\ Alphabet[j] = Alphabet[k]
      BY <1>4, <1>5, <1>6, <2>1
    <3>2. j = k
      BY <1>5, <3>1, AlphabetAssumption
    <3> QED
      BY <1>6, <3>2
  <2> QED
    BY <1>4, <1>5, <2>1
<1>9. \A i \in DOMAIN Alphabet : first(i) => Alphabet[i] = g.node.name
  BY <1>4
<1> HIDE DEF first
<1>10. Alphabet[CHOOSE i \in DOMAIN Alphabet : first(i)] = g.node.name
  BY <1>5, <1>8, <1>9
<1> QED
  BY <1>7, <1>10

\* The links of the WAN to routers.
LEMMA WanLinks ==
  ASSUME NEW t, AcceptedDocument(t), ManReserved
  PROVE  /\ \A w \in GetLinksFromWanToRouters(t) :
              w \in Links(t) /\ w.network = WanOf(t) /\ w.node \in RouterObjs(t)
         /\ \A x \in RouterObjs(t) :
              \E w \in GetLinksFromWanToRouters(t) : w.node = x /\ w.network = WanOf(t)
<1>1. ASSUME NEW w \in GetLinksFromWanToRouters(t)
      PROVE  w \in Links(t) /\ w.network = WanOf(t) /\ w.node \in RouterObjs(t)
  <2>1. PICK x \in RouterObjs(t) : w \in GetLinkBetweenNodeAndNetwork(t, x, WanOf(t))
    BY DEF GetLinksFromWanToRouters
  <2>2. w \in Links(t) /\ w.node.name = x.name /\ w.network = WanOf(t)
    BY <2>1 DEF GetLinkBetweenNodeAndNetwork, GetNodeLinks
  <2>3. w.node \in RouterObjs(t) \union {MAN}
    BY <2>2, LinkIs
  <2> QED
    BY <2>2, <2>3, ByName
<1>2. ASSUME NEW x \in RouterObjs(t)
      PROVE  \E w \in GetLinksFromWanToRouters(t) : w.node = x /\ w.network = WanOf(t)
  <2> DEFINE w == Link(x, WanOf(t), 0)
  <2>1. w \in Links(t) /\ w.node = x /\ w.network = WanOf(t)
    BY LinksHas, Parts
  <2> HIDE DEF w
  <2>2. w \in GetLinkBetweenNodeAndNetwork(t, x, WanOf(t))
    BY <2>1 DEF GetLinkBetweenNodeAndNetwork, GetNodeLinks
  <2>3. w \in GetLinksFromWanToRouters(t)
    BY <2>2 DEF GetLinksFromWanToRouters
  <2> QED
    BY <2>1, <2>3
<1> QED
  BY <1>1, <1>2

\* The routes of the management node.
LEMMA Routes ==
  ASSUME NEW t, AcceptedDocument(t), ManReserved, NEW r
  PROVE  r \in SandboxRouting(t) <=>
           \E n \in HostsNetworks(t) : \E l \in GetNetworkDefaultGatewayLink(t, n) :
             r = [network |-> n, via |-> l.node]
<1> DEFINE Via(w) == {[network |-> l.network, via |-> w.node] : l \in HostNetworksForRouting(t, w.node)}
<1>1. r \in SandboxRouting(t) <=> \E w \in GetLinksFromWanToRouters(t) : r \in Via(w)
  <2>1. SandboxRouting(t) = UNION {Via(w) : w \in GetLinksFromWanToRouters(t)}
    BY DEF SandboxRouting
  <2> HIDE DEF Via
  <2> QED
    BY <2>1
<1>2. ASSUME NEW w \in GetLinksFromWanToRouters(t), r \in Via(w)
      PROVE  \E n \in HostsNetworks(t) : \E l \in GetNetworkDefaultGatewayLink(t, n) :
               r = [network |-> n, via |-> l.node]
  <2>1. PICK l \in HostNetworksForRouting(t, w.node) : r = [network |-> l.network, via |-> w.node]
    BY <1>2
  <2>2. w.node \in RouterObjs(t)
    BY WanLinks
  <2>3. l \in Links(t) /\ l.node.name = w.node.name /\ l.network \in HostsNetworks(t)
    BY DEF HostNetworksForRouting, GetNodeLinks
  <2>4. l.node = w.node
    BY <2>2, <2>3, LinkIs, ByName
  <2>5. l \in GetNetworkDefaultGatewayLink(t, l.network)
    BY <2>2, <2>3, <2>4, OneGateway
  <2> QED
    BY <2>1, <2>3, <2>4, <2>5
<1>3. ASSUME NEW n \in HostsNetworks(t), NEW l \in GetNetworkDefaultGatewayLink(t, n),
             r = [network |-> n, via |-> l.node]
      PROVE  \E w \in GetLinksFromWanToRouters(t) : r \in Via(w)
  <2>1. l \in Links(t) /\ l.network = n /\ l.node \in RouterObjs(t)
    BY OneGateway
  <2>2. PICK w \in GetLinksFromWanToRouters(t) : w.node = l.node
    BY <2>1, WanLinks
  <2>3. PICK g : GetNetworkDefaultGatewayLink(t, n) = {g}
    BY OneGateway
  <2>4. l = g /\ NetworkToRouterMapping(t, n) = l.node.name
    BY <2>3, RouterIsGateway
  <2>5. l \in HostNetworksForRouting(t, w.node)
    BY <2>1, <2>2, <2>4 DEF HostNetworksForRouting, GetNodeLinks
  <2>6. r \in Via(w)
    BY <1>3, <2>1, <2>2, <2>5
  <2> QED
    BY <2>6
<1> HIDE DEF Via
<1> QED
  BY <1>1, <1>2, <1>3

\* The interfaces of a router that is on the WAN answer through the management node.
LEMMA RoutersAnswer ==
  ASSUME NEW t, AcceptedDocument(t), ManReserved, NEW x \in RouterObjs(t)
  PROVE  {i.def_gw : i \in {j \in Interfaces(t) : j.node = x.name}} = {MAN.name}
<1> DEFINE A == {CreateInterfaceForLink(l, "") : l \in GetLinkBetweenNodeAndNetwork(t, MAN, WanOf(t))}
           B == {CreateInterfaceForLink(l, MAN.name) : l \in GetLinksFromWanToRouters(t)}
<1>1. ASSUME NEW j \in A PROVE j.node = MAN.name
  <2>1. PICK l \in GetLinkBetweenNodeAndNetwork(t, MAN, WanOf(t)) : j = CreateInterfaceForLink(l, "")
    OBVIOUS
  <2>2. l.node.name = MAN.name
    BY DEF GetLinkBetweenNodeAndNetwork, GetNodeLinks
  <2> QED
    BY <2>1, <2>2 DEF CreateInterfaceForLink
<1>2. ASSUME NEW j \in B PROVE j.def_gw = MAN.name
  BY DEF CreateInterfaceForLink
<1>3. \E j \in B : j.node = x.name
  <2>1. PICK w \in GetLinksFromWanToRouters(t) : w.node = x
    BY WanLinks
  <2>2. CreateInterfaceForLink(w, MAN.name).node = x.name
    BY <2>1 DEF CreateInterfaceForLink
  <2> QED
    BY <2>2
<1>4. Interfaces(t) = A \union B
  BY DEF Interfaces
<1>5. x.name # MAN.name
  BY ByName
<1> HIDE DEF A, B
<1> QED
  BY <1>1, <1>2, <1>3, <1>4, <1>5

\* The management node routes to each network of the user once, through the router that the
\* template makes the gateway of the network and that answers through the management node
\* (Routing of inventory.py against get_network_default_gateway_link), whatever the document, if
\* it leaves the names of the management node and its network alone.
THEOREM NetworksAreRouted ==
  ASSUME ManReserved
  PROVE  Spec => []RoutedThroughGateway
<1>1. ASSUME Inv, Accepted PROVE RoutedThroughGateway
  <2>1. AcceptedDocument(topology)
    BY <1>1, AcceptedIsSound
  <2>2. ASSUME NEW n \in HostsNetworks(topology)
        PROVE  {r \in SandboxRouting(topology) : r.network = n}
                 = {[network |-> n, via |-> l.node] : l \in GetNetworkDefaultGatewayLink(topology, n)}
    <3>1. ASSUME NEW r \in SandboxRouting(topology), r.network = n
          PROVE  \E l \in GetNetworkDefaultGatewayLink(topology, n) : r = [network |-> n, via |-> l.node]
      BY <2>1, <3>1, Routes
    <3>2. ASSUME NEW l \in GetNetworkDefaultGatewayLink(topology, n)
          PROVE  [network |-> n, via |-> l.node] \in SandboxRouting(topology)
      BY <2>1, Routes
    <3> QED
      BY <3>1, <3>2
  <2>3. ASSUME NEW r \in SandboxRouting(topology)
        PROVE  /\ r.via.name \in IpForward(topology)
               /\ {i.def_gw : i \in {j \in Interfaces(topology) : j.node = r.via.name}} = {MAN.name}
    <3>1. PICK n \in HostsNetworks(topology) : \E l \in GetNetworkDefaultGatewayLink(topology, n) :
                 r = [network |-> n, via |-> l.node]
      BY <2>1, Routes
    <3>2. r.via \in RouterObjs(topology)
      BY <2>1, <3>1, OneGateway
    <3> QED
      BY <2>1, <3>2, RoutersAnswer DEF IpForward, NamesOf
  <2> QED
    BY <2>2, <2>3 DEF RoutedThroughGateway
<1>2. Inv => RoutedThroughGateway
  BY <1>1 DEF RoutedThroughGateway
<1> QED
  BY Invariance, <1>2, PTL

-----------------------------------------------------------------------------
(* Access. *)

\* A set of natural numbers that is not empty has a least element.
LEMMA Least ==
  ASSUME NEW S \in SUBSET Nat, S # {}
  PROVE  \E i \in S : \A j \in S : i <= j
<1> DEFINE below == {p \in Nat \X Nat : p[1] < p[2]}
<1>1. IsWellFoundedOn(below, Nat)
  BY NatLessThanWellFounded DEF OpToRel
<1> HIDE DEF below
<1>2. PICK i \in S : \A j \in S : ~ (<<j, i>> \in below)
  BY <1>1, WFMin
<1>3. ASSUME NEW j \in S PROVE i <= j
  <2>1. i \in Nat /\ j \in Nat
    OBVIOUS
  <2>2. ~ (j < i)
    BY <1>2, <2>1 DEF below
  <2> QED
    BY <2>1, <2>2
<1> QED
  BY <1>3

LEMMA Joined ==
  ASSUME NEW f \in Seq(Int), NEW g \in Seq(Int), NEW h, h = f \o g
  PROVE  /\ DOMAIN h = 1..(Len(f) + Len(g))
         /\ \A i \in 1..Len(f) : h[i] = f[i]
         /\ \A i \in 1..Len(g) : h[Len(f) + i] = g[i]
<1>1. Len(f) \in Nat /\ Len(g) \in Nat
  OBVIOUS
<1> QED
  BY <1>1

LEMMA AddressesOf ==
  ASSUME NEW P, NEW s \in Seq(P), \A m \in P : m.ip \in Int
  PROVE  /\ Len(s) \in Nat /\ DOMAIN s = 1..Len(s)
         /\ [i \in DOMAIN s |-> s[i].ip] \in Seq(Int)
         /\ Len([i \in DOMAIN s |-> s[i].ip]) = Len(s)
<1> DEFINE h == [i \in DOMAIN s |-> s[i].ip]
<1>1. Len(s) \in Nat /\ DOMAIN s = 1..Len(s) /\ \A i \in 1..Len(s) : s[i] \in P
  OBVIOUS
<1>2. h \in [1..Len(s) -> Int]
  BY <1>1
<1> HIDE DEF h
<1>3. h \in Seq(Int) /\ Len(h) = Len(s)
  BY <1>1, <1>2
<1> QED
  BY <1>1, <1>3 DEF h

\* A link with an address is a mapping's, and no two mappings have one address.
LEMMA AddressIsOneLink ==
  ASSUME NEW t, AcceptedDocument(t), NEW l \in Links(t), NEW k \in Links(t),
         l.ip = k.ip, l.ip # 0
  PROVE  l = k
<1> DEFINE hosts == [i \in DOMAIN t.net_mappings |-> t.net_mappings[i].ip]
           routers == [i \in DOMAIN t.router_mappings |-> t.router_mappings[i].ip]
           all == hosts \o routers
<1>1. \A i, j \in DOMAIN all : all[i] = all[j] => i = j
  BY DEF AcceptedDocument, ValidateRouterMappings, RaiseIfIpNotUnique
<1>2. /\ hosts \in Seq(Int) /\ Len(hosts) = Len(t.net_mappings) /\ Len(t.net_mappings) \in Nat
      /\ DOMAIN t.net_mappings = 1..Len(t.net_mappings)
      /\ routers \in Seq(Int) /\ Len(routers) = Len(t.router_mappings)
      /\ Len(t.router_mappings) \in Nat
      /\ DOMAIN t.router_mappings = 1..Len(t.router_mappings)
  <2>1. /\ t.net_mappings \in Seq(NetMappingPool) /\ t.router_mappings \in Seq(RouterMappingPool)
    BY DEF AcceptedDocument, Drawn
  <2>2. /\ \A m \in NetMappingPool : m.ip \in Int
        /\ \A m \in RouterMappingPool : m.ip \in Int
    BY PoolAssumption DEF NetworkMapping, RouterMapping
  <2> QED
    BY <2>1, <2>2, AddressesOf
<1> DEFINE N == Len(t.net_mappings)
           M == Len(t.router_mappings)
<1>3. /\ \A i \in 1..N : i \in DOMAIN all /\ all[i] = t.net_mappings[i].ip
      /\ \A i \in 1..M : N + i \in DOMAIN all /\ all[N + i] = t.router_mappings[i].ip
  <2> HIDE DEF hosts, routers
  <2>1. /\ DOMAIN all = 1..(N + M)
        /\ \A i \in 1..N : all[i] = hosts[i]
        /\ \A i \in 1..M : all[N + i] = routers[i]
    <3>1. hosts \in Seq(Int) /\ routers \in Seq(Int) /\ Len(hosts) = N /\ Len(routers) = M
      BY <1>2
    <3>2. all = hosts \o routers
      OBVIOUS
    <3> HIDE DEF N, M, all
    <3>3. /\ DOMAIN all = 1..(Len(hosts) + Len(routers))
          /\ \A i \in 1..Len(hosts) : all[i] = hosts[i]
          /\ \A i \in 1..Len(routers) : all[Len(hosts) + i] = routers[i]
      BY <3>1, <3>2, Joined
    <3> QED
      BY <3>1, <3>3
  <2> HIDE DEF all
  <2>2. /\ \A i \in 1..N : hosts[i] = t.net_mappings[i].ip
        /\ \A i \in 1..M : routers[i] = t.router_mappings[i].ip
    BY <1>2 DEF hosts, routers
  <2>3. N \in Nat /\ M \in Nat
    BY <1>2
  <2> HIDE DEF N, M
  <2>4. \A i \in 1..N : i \in 1..(N + M)
    BY <2>3
  <2>5. \A i \in 1..M : N + i \in 1..(N + M)
    BY <2>3
  <2> QED
    BY <2>1, <2>2, <2>4, <2>5
<1> HIDE DEF all, hosts, routers
<1>4. \A i, j \in 1..N : t.net_mappings[i].ip = t.net_mappings[j].ip => i = j
  BY <1>1, <1>3
<1>5. \A i, j \in 1..M : t.router_mappings[i].ip = t.router_mappings[j].ip => i = j
  <2>1. \A i, j \in 1..M : t.router_mappings[i].ip = t.router_mappings[j].ip => N + i = N + j
    BY <1>1, <1>3
  <2> QED
    BY <1>2, <2>1
<1>6. \A i \in 1..N, j \in 1..M : t.net_mappings[i].ip # t.router_mappings[j].ip
  <2>1. \A i \in 1..N, j \in 1..M : t.net_mappings[i].ip = t.router_mappings[j].ip => i = N + j
    BY <1>1, <1>3
  <2> QED
    BY <1>2, <2>1
<1>7. ASSUME NEW x \in {l, k}
      PROVE  \/ \E i \in 1..N : x = HostLink(t.net_mappings[i]) /\ x.ip = t.net_mappings[i].ip
             \/ \E i \in 1..M : x = RouterLink(t.router_mappings[i]) /\ x.ip = t.router_mappings[i].ip
  <2>1. x \in Links(t) /\ x.ip # 0
    OBVIOUS
  <2>2. \/ \E i \in DOMAIN t.net_mappings : x = HostLink(t.net_mappings[i])
        \/ \E i \in DOMAIN t.router_mappings : x = RouterLink(t.router_mappings[i])
    BY <2>1, LinkCases, Parts
  <2>3. CASE \E i \in DOMAIN t.net_mappings : x = HostLink(t.net_mappings[i])
    <3>1. PICK i \in DOMAIN t.net_mappings : x = HostLink(t.net_mappings[i])
      BY <2>3
    <3>2. i \in 1..N /\ x.ip = t.net_mappings[i].ip
      BY <1>2, <3>1, Parts DEF HostLink
    <3> QED
      BY <3>1, <3>2
  <2>4. CASE \E i \in DOMAIN t.router_mappings : x = RouterLink(t.router_mappings[i])
    <3>1. PICK i \in DOMAIN t.router_mappings : x = RouterLink(t.router_mappings[i])
      BY <2>4
    <3>2. i \in 1..M /\ x.ip = t.router_mappings[i].ip
      BY <1>2, <3>1, Parts DEF RouterLink
    <3> QED
      BY <3>1, <3>2
  <2> QED
    BY <2>2, <2>3, <2>4
<1> HIDE DEF N, M
<1> QED
  BY <1>4, <1>5, <1>6, <1>7

\* The address handed out for a host is that of its first mapping, if the network of that is in reach.
LEMMA AddressIsMapped ==
  ASSUME NEW t, AcceptedDocument(t), NEW x \in HostObjs(t), GetNodeIp(t, x) > 0
  PROVE  \E i \in DOMAIN t.net_mappings :
           /\ Obj("host", t.net_mappings[i].host) = x
           /\ t.net_mappings[i].ip = GetNodeIp(t, x)
           /\ NetworkOf(t, Obj("user", t.net_mappings[i].network)).accessible_by_user
<1> DEFINE of == {i \in DOMAIN t.net_mappings : Obj("host", t.net_mappings[i].host) = x}
           k == CHOOSE i \in of : \A j \in of : i <= j
           m == t.net_mappings[k]
<1>1. x.kind # "router"
  BY DEF HostObjs, Obj
<1>2. GetNodeIp(t, x) = IF of = {} \/ ~ NetworkOf(t, Obj("user", m.network)).accessible_by_user
                        THEN -1 ELSE m.ip
  BY <1>1 DEF GetNodeIp
<1>3. /\ of # {} /\ NetworkOf(t, Obj("user", m.network)).accessible_by_user
      /\ m.ip = GetNodeIp(t, x)
  BY <1>2
<1>4. of \in SUBSET Nat
  BY DEF AcceptedDocument, Drawn
<1>5. \E i \in of : \A j \in of : i <= j
  BY <1>3, <1>4, Least
<1>6. k \in of
  BY <1>5
<1> HIDE DEF k
<1> QED
  BY <1>3, <1>6

\* The address that is handed out for access in the browser (lib/nodes.py) is of one port, is one
\* that the trainee's SSH configuration (lib/sshconfig.py) has under the name of the host, and is not
\* marked as out of reach in the topology (lib/topology.py), whatever the document.
THEOREM AddressesAreInReach == Spec => []AccessConfigured
<1>1. ASSUME Inv, Accepted PROVE AccessConfigured
  <2>1. AcceptedDocument(topology)
    BY <1>1, AcceptedIsSound
  <2> SUFFICES ASSUME NEW x \in HostObjs(topology), GetNodeIp(topology, x) > 0
               PROVE  /\ Cardinality({l \in Links(topology) : l.ip = GetNodeIp(topology, x)}) = 1
                      /\ Entry(x.name, GetNodeIp(topology, x), MAN.name) \in CrczpUserSSHConfig(topology)
                      /\ \A row \in Topology(topology), l \in Links(topology) :
                           /\ row.host = x /\ l.node = x
                           /\ l.ip = GetNodeIp(topology, x) /\ l.network = row.subnet
                           => row.is_accessible
    BY DEF AccessConfigured
  <2>2. PICK i \in DOMAIN topology.net_mappings :
          /\ Obj("host", topology.net_mappings[i].host) = x
          /\ topology.net_mappings[i].ip = GetNodeIp(topology, x)
          /\ NetworkOf(topology, Obj("user", topology.net_mappings[i].network)).accessible_by_user
    BY <2>1, AddressIsMapped
  <2> DEFINE ip == GetNodeIp(topology, x)
             n == Obj("user", topology.net_mappings[i].network)
             k == HostLink(topology.net_mappings[i])
  <2>3. k \in Links(topology) /\ k.node = x /\ k.network = n /\ k.ip = ip
    BY <2>2, LinksHas, Parts DEF HostLink
  <2>4. n \in HostsNetworks(topology)
    BY <2>1, MappingsFit DEF HostsNetworks
  <2>5. NetworkOf(topology, n).accessible_by_user
    BY <2>2
  <2>6. ip # 0
    OBVIOUS
  <2> HIDE DEF ip, n, k
  <2>7. {l \in Links(topology) : l.ip = ip} = {k}
    BY <2>1, <2>3, <2>6, AddressIsOneLink
  <2>8. Cardinality({l \in Links(topology) : l.ip = ip}) = 1
    BY <2>7, FS_Singleton
  <2>9. k \in GetLinksToUserAccessibleNodes(topology)
    <3>1. n \in UserAccessible(topology)
      BY <2>4, <2>5 DEF UserAccessible
    <3>2. k \in GetNetworkLinks(topology, n, HostObjs(topology) \union RouterObjs(topology))
      BY <2>3 DEF GetNetworkLinks
    <3> QED
      BY <3>1, <3>2 DEF GetLinksToUserAccessibleNodes
  <2>10. Entry(x.name, ip, MAN.name) \in CrczpUserSSHConfig(topology)
    BY <2>3, <2>9 DEF CrczpUserSSHConfig
  <2>11. ASSUME NEW row \in Topology(topology), NEW l \in Links(topology),
                l.ip = ip, l.network = row.subnet
         PROVE  row.is_accessible
    <3>1. l = k
      BY <2>7, <2>11
    <3>2. row.subnet = n
      BY <2>3, <2>11, <3>1
    <3> QED
      BY <2>1, <2>5, <3>2, RowIsVisible
  <2> QED
    BY <2>8, <2>10, <2>11 DEF ip
<1>2. Inv => AccessConfigured
  BY <1>1 DEF AccessConfigured
<1> QED
  BY Invariance, <1>2, PTL

-----------------------------------------------------------------------------
(* The inventory. *)

AllNodes(t) == HostObjs(t) \union RouterObjs(t) \union {MAN}

LEMMA NodesAre ==
  ASSUME NEW t, AcceptedDocument(t), ManReserved
  PROVE  /\ GetNodes(t) = AllNodes(t)
         /\ NamesOf(HostObjs(t)) = NamesOf(t.hosts) /\ NamesOf(RouterObjs(t)) = NamesOf(t.routers)
         /\ NamesOf(GetNodes(t)) = NamesOf(t.hosts) \union NamesOf(t.routers) \union {MAN.name}
         /\ MAN \notin HostObjs(t) \union RouterObjs(t)
<1>1. GetNodes(t) = AllNodes(t)
  BY ByName DEF GetNodes, AllNodes
<1>2. NamesOf(HostObjs(t)) = NamesOf(t.hosts)
  BY Parts DEF HostObjs, NamesOf
<1>3. NamesOf(RouterObjs(t)) = NamesOf(t.routers)
  BY Parts DEF RouterObjs, NamesOf
<1>4. NamesOf(AllNodes(t)) = NamesOf(HostObjs(t)) \union NamesOf(RouterObjs(t)) \union {MAN.name}
  BY DEF AllNodes, NamesOf
<1>5. MAN \notin HostObjs(t) \union RouterObjs(t)
  BY ByName
<1> QED
  BY <1>1, <1>2, <1>3, <1>4, <1>5

LEMMA NodesFinite ==
  ASSUME NEW t, AcceptedDocument(t), ManReserved
  PROVE  IsFiniteSet(AllNodes(t))
<1>1. IsFiniteSet(t.hosts) /\ IsFiniteSet(t.routers)
  BY PoolAssumption, FS_Subset DEF AcceptedDocument, Drawn
<1>2. IsFiniteSet(HostObjs(t))
  <2> DEFINE f == [h \in t.hosts |-> Obj("host", h.name)]
  <2>1. IsFiniteSet({f[h] : h \in DOMAIN f})
    BY <1>1, ImageFinite
  <2>2. HostObjs(t) = {f[h] : h \in DOMAIN f}
    BY DEF HostObjs, NamesOf
  <2> QED
    BY <2>1, <2>2
<1>3. IsFiniteSet(RouterObjs(t))
  <2> DEFINE f == [r \in t.routers |-> Obj("router", r.name)]
  <2>1. IsFiniteSet({f[r] : r \in DOMAIN f})
    BY <1>1, ImageFinite
  <2>2. RouterObjs(t) = {f[r] : r \in DOMAIN f}
    BY DEF RouterObjs, NamesOf
  <2> QED
    BY <2>1, <2>2
<1>4. IsFiniteSet(HostObjs(t) \union RouterObjs(t))
  BY <1>2, <1>3, FS_Union
<1> QED
  BY <1>4, FS_AddElement DEF AllNodes

\* Every link is a port of a network that the loop of the template comes to.
LEMMA LinksHavePorts ==
  ASSUME NEW t, AcceptedDocument(t), ManReserved
  PROVE  GetEnrichedTopologyInstance(t)
<1>1. ASSUME NEW l \in Links(t) PROVE l \in TfPorts(t)
  <2>1. l.network \in GetNetworks(t)
    BY LinkIs, ByName DEF GetNetworks
  <2>2. l \in GetNetworkLinks(t, l.network, {k.node : k \in Links(t)})
    BY DEF GetNetworkLinks
  <2> QED
    BY <2>1, <2>2 DEF TfPorts
<1> QED
  BY <1>1 DEF GetEnrichedTopologyInstance

\* ... and of one machine.
LEMMA LinksHaveMachines ==
  ASSUME NEW t, AcceptedDocument(t), ManReserved, NEW l \in Links(t)
  PROVE  Cardinality({x \in GetNodes(t) : l \in TfInstance(t, x)}) = 1
<1>1. l.node \in AllNodes(t)
  BY LinkIs DEF AllNodes
<1>2. \A x \in AllNodes(t) : l \in TfInstance(t, x) => x = l.node
  BY <1>1, ByName DEF AllNodes, TfInstance
<1>3. l \in TfInstance(t, l.node)
  BY DEF TfInstance
<1>4. {x \in GetNodes(t) : l \in TfInstance(t, x)} = {l.node}
  BY <1>1, <1>2, <1>3, NodesAre
<1> QED
  BY <1>4, FS_Singleton

\* Every node has one link to the management network.
LEMMA NodesAreManaged ==
  ASSUME NEW t, AcceptedDocument(t), ManReserved, NEW x \in AllNodes(t)
  PROVE  {l \in Links(t) : l.network = ManNetwork /\ l.node.name = x.name} = {Link(x, ManNetwork, 0)}
<1>1. Link(x, ManNetwork, 0) \in Links(t)
  BY LinksHas DEF AllNodes
<1>2. Link(x, ManNetwork, 0).network = ManNetwork /\ Link(x, ManNetwork, 0).node.name = x.name
  BY Parts
<1>3. ASSUME NEW l \in Links(t), l.network = ManNetwork, l.node.name = x.name
      PROVE  l = Link(x, ManNetwork, 0)
  <2>1. l.node = x
    BY <1>3, LinkIs, ByName DEF AllNodes
  <2> QED
    BY <1>3, <2>1, LinkIs
<1> QED
  BY <1>1, <1>2, <1>3

LEMMA ManagementFound ==
  ASSUME NEW t, AcceptedDocument(t), ManReserved, NEW n \in CreateHosts(t) \ {ProxyJump}
  PROVE  Cardinality({l \in Links(t) : l.network = ManNetwork /\ l.node.name = n}) = 1
<1>1. PICK x \in AllNodes(t) : x.name = n
  BY NodesAre DEF CreateHosts, NamesOf
<1>2. {l \in Links(t) : l.network = ManNetwork /\ l.node.name = n} = {Link(x, ManNetwork, 0)}
  BY <1>1, NodesAreManaged
<1> QED
  BY <1>2, FS_Singleton

\* Who has an interface or an address is a host of the inventory.
LEMMA LinksAreOfHosts ==
  ASSUME NEW t, AcceptedDocument(t), ManReserved
  PROVE  /\ \A l \in Links(t) : l.node.name \in CreateHosts(t)
         /\ \A i \in Interfaces(t) \union UserNetworkIps(t) : i.node \in CreateHosts(t)
<1>1. \A l \in Links(t) : l.node.name \in CreateHosts(t)
  BY LinkIs, NodesAre DEF AllNodes, CreateHosts, NamesOf
<1>2. ASSUME NEW i \in Interfaces(t) PROVE i.node \in CreateHosts(t)
  <2>1. CASE \E l \in GetLinkBetweenNodeAndNetwork(t, MAN, WanOf(t)) : i = CreateInterfaceForLink(l, "")
    <3>1. PICK l \in GetLinkBetweenNodeAndNetwork(t, MAN, WanOf(t)) : i = CreateInterfaceForLink(l, "")
      BY <2>1
    <3>2. l \in Links(t)
      BY DEF GetLinkBetweenNodeAndNetwork, GetNodeLinks
    <3> QED
      BY <1>1, <3>1, <3>2 DEF CreateInterfaceForLink
  <2>2. CASE \E l \in GetLinksFromWanToRouters(t) : i = CreateInterfaceForLink(l, MAN.name)
    BY <1>1, <2>2, WanLinks DEF CreateInterfaceForLink
  <2> QED
    BY <2>1, <2>2 DEF Interfaces
<1>3. ASSUME NEW i \in UserNetworkIps(t) PROVE i.node \in CreateHosts(t)
  BY <1>1 DEF UserNetworkIps
<1> QED
  BY <1>1, <1>2, <1>3

LEMMA DockerHostsAreHosts ==
  ASSUME NEW t, AcceptedDocument(t)
  PROVE  DockerHosts(t) \subseteq NamesOf(t.hosts)
BY DEF AcceptedDocument, ValidateDockerContainers, DockerHosts

LEMMA NamesAreHosts ==
  ASSUME NEW t, AcceptedDocument(t), ManReserved
  PROVE  /\ NamesOf(Nodes(t)) = NamesOf(t.hosts) \union NamesOf(t.routers)
         /\ NamesOf(Nodes(t)) \subseteq CreateHosts(t)
         /\ MAN.name \in CreateHosts(t)
<1>1. NamesOf(Nodes(t)) = NamesOf(t.hosts) \union NamesOf(t.routers)
  BY DEF Nodes, NamesOf
<1> QED
  BY <1>1, NodesAre DEF CreateHosts

\* The protocol of a node is that of the one element that has its name.
LEMMA Protocols ==
  ASSUME NEW t, AcceptedDocument(t), ManReserved
  PROVE  /\ WithProtocol(t, "SSH") \union WithProtocol(t, "WINRM") = NamesOf(Nodes(t))
         /\ WithProtocol(t, "SSH") \intersect WithProtocol(t, "WINRM") = {}
<1> DEFINE protocol(n) == (CHOOSE x \in Nodes(t) : x.name = n).protocol
<1>1. \A p : WithProtocol(t, p) = {n \in NamesOf(Nodes(t)) : protocol(n) = p}
  <2> SUFFICES ASSUME NEW p
               PROVE  WithProtocol(t, p) = {n \in NamesOf(Nodes(t)) : protocol(n) = p}
    OBVIOUS
  <2>1. \A x : NodeOf(t, x).protocol = protocol(x.name)
    BY DEF NodeOf
  <2> HIDE DEF protocol
  <2>2. GetNodes(t) \ {MAN} = HostObjs(t) \union RouterObjs(t)
    BY NodesAre DEF AllNodes
  <2>3. NamesOf(HostObjs(t) \union RouterObjs(t)) = NamesOf(Nodes(t))
    <3>1. NamesOf(HostObjs(t) \union RouterObjs(t)) = NamesOf(HostObjs(t)) \union NamesOf(RouterObjs(t))
      BY DEF NamesOf
    <3> QED
      BY <3>1, NodesAre, NamesAreHosts
  <2>4. WithProtocol(t, p) = {x.name : x \in {y \in HostObjs(t) \union RouterObjs(t) : protocol(y.name) = p}}
    BY <2>1, <2>2 DEF WithProtocol
  <2>5. {x.name : x \in {y \in HostObjs(t) \union RouterObjs(t) : protocol(y.name) = p}}
          = {n \in NamesOf(HostObjs(t) \union RouterObjs(t)) : protocol(n) = p}
    BY DEF NamesOf
  <2> QED
    BY <2>3, <2>4, <2>5
<1>2. \A n \in NamesOf(Nodes(t)) : protocol(n) \in {"SSH", "WINRM"}
  <2>1. \A x \in Nodes(t) : x.protocol \in {"SSH", "WINRM"}
    BY PoolAssumption DEF AcceptedDocument, Drawn, Nodes, Router, Protocol
  <2>2. \A n \in NamesOf(Nodes(t)) : (CHOOSE x \in Nodes(t) : x.name = n) \in Nodes(t)
    BY DEF NamesOf
  <2> QED
    BY <2>1, <2>2
<1> HIDE DEF protocol
<1> QED
  BY <1>1, <1>2

\* The default groups consist of hosts of the inventory.
LEMMA GroupNodesAreHosts ==
  ASSUME NEW t, AcceptedDocument(t), ManReserved, NEW g \in DefaultAnsibleHostsGroups
  PROVE  GroupNodes(t)[g] \subseteq CreateHosts(t)
<1>1. NamesOf(t.hosts) \subseteq CreateHosts(t) /\ NamesOf(t.routers) \subseteq CreateHosts(t)
  BY NamesAreHosts
<1>2. WithProtocol(t, "SSH") \subseteq CreateHosts(t) /\ WithProtocol(t, "WINRM") \subseteq CreateHosts(t)
  BY Protocols, NamesAreHosts
<1>3. {l.node.name : l \in GetLinksToUserAccessibleNodes(t)} \subseteq CreateHosts(t)
  <2>1. GetLinksToUserAccessibleNodes(t) \subseteq Links(t)
    BY DEF GetLinksToUserAccessibleNodes, GetNetworkLinks
  <2> QED
    BY <2>1, LinksAreOfHosts
<1>4. NamesOf({h \in t.hosts : h.hidden}) \subseteq CreateHosts(t)
  BY <1>1 DEF NamesOf
<1>5. DockerHosts(t) \subseteq CreateHosts(t)
  BY <1>1, DockerHostsAreHosts
<1>6. /\ NamesOf(GetMonitoredHosts(t).tcp) \subseteq CreateHosts(t)
      /\ NamesOf(GetMonitoredHosts(t).icmp) \subseteq CreateHosts(t)
  <2>1. NamesOf(t.monitoring_targets.tcp \union t.monitoring_targets.icmp) \subseteq NamesOf(Nodes(t))
    BY DEF AcceptedDocument, ValidateMonitoringTargets
  <2>2. /\ GetMonitoredHosts(t).tcp = t.monitoring_targets.tcp
        /\ GetMonitoredHosts(t).icmp = t.monitoring_targets.icmp
    BY DEF GetMonitoredHosts
  <2> QED
    BY <2>1, <2>2, NamesAreHosts DEF NamesOf
<1>7. WindowsHosts(t) \subseteq CreateHosts(t)
  <2>1. WindowsHosts(t) \subseteq NamesOf(Nodes(t))
    BY DEF WindowsHosts, NamesOf
  <2> QED
    BY <2>1, NamesAreHosts
<1>8. {MAN.name} \subseteq CreateHosts(t)
  BY NamesAreHosts
<1> QED
  BY <1>1, <1>2, <1>3, <1>4, <1>5, <1>6, <1>7, <1>8
     DEF GroupNodes, DefaultAnsibleHostsGroups

\* A default group that is made keeps its nodes, whatever groups the user defines.
LEMMA DefaultGroupsKept ==
  ASSUME NEW t, AcceptedDocument(t), NEW g \in DefaultAnsibleHostsGroups \ LeftOut(t)
  PROVE  g \in DOMAIN InventoryGroups(t) /\ InventoryGroups(t)[g] = GroupNodes(t)[g]
<1>1. g \notin NamesOf(t.groups)
  BY DEF AcceptedDocument, ValidateTopologyDefinition
<1>2. DOMAIN CreateUserDefinedGroups(t) = NamesOf(t.groups)
  BY DEF CreateUserDefinedGroups, GetGroups
<1>3. g \in DOMAIN CreateGroups(t) /\ CreateGroups(t)[g] = GroupNodes(t)[g]
  BY DEF CreateGroups
<1> QED
  BY <1>1, <1>2, <1>3 DEF InventoryGroups

LEMMA GroupsHaveHosts ==
  ASSUME NEW t, AcceptedDocument(t), ManReserved, NEW g \in DOMAIN InventoryGroups(t)
  PROVE  InventoryGroups(t)[g] \subseteq CreateHosts(t)
<1>1. DOMAIN CreateUserDefinedGroups(t) = NamesOf(t.groups)
  BY DEF CreateUserDefinedGroups, GetGroups
<1>2. DOMAIN CreateGroups(t) = DefaultAnsibleHostsGroups \ LeftOut(t)
  BY DEF CreateGroups
<1>3. CASE g \in NamesOf(t.groups)
  <2> DEFINE u == CHOOSE x \in t.groups : x.name = g
  <2>1. u \in t.groups
    BY <1>3 DEF NamesOf
  <2>2. CreateUserDefinedGroups(t)[g] = u.nodes
    BY <1>3 DEF CreateUserDefinedGroups, GetGroups
  <2>3. InventoryGroups(t)[g] = u.nodes
    BY <1>1, <1>3, <2>2 DEF InventoryGroups
  <2> HIDE DEF u
  <2>4. u.nodes \subseteq NamesOf(Nodes(t))
    BY <2>1 DEF AcceptedDocument, ValidateGroups
  <2> QED
    BY <2>3, <2>4, NamesAreHosts
<1>4. CASE g \notin NamesOf(t.groups)
  <2>1. g \in DefaultAnsibleHostsGroups \ LeftOut(t)
    BY <1>1, <1>2, <1>4 DEF InventoryGroups
  <2> QED
    BY <2>1, DefaultGroupsKept, GroupNodesAreHosts
<1> QED
  BY <1>3, <1>4

\* The management node meets every other node once over its network, and nothing else on it.
LEMMA ManPairs ==
  ASSUME NEW t, AcceptedDocument(t), ManReserved
  PROVE  ManToNodes(t) = {<<Link(MAN, ManNetwork, 0), Link(x, ManNetwork, 0)>> :
                            x \in AllNodes(t) \ {MAN}}
<1> DEFINE L == Link(MAN, ManNetwork, 0)
<1>1. ManNetwork.kind = "management" /\ MAN \in AllNodes(t)
  BY DEF ManNetwork, Obj, AllNodes
<1>2. ASSUME NEW l \in Links(t) PROVE l \in GetNodeLinks(t, MAN, {ManNetwork}) <=> l = L
  <2>1. GetNodeLinks(t, MAN, {ManNetwork}) = {L}
    BY <1>1, NodesAreManaged DEF GetNodeLinks
  <2> QED
    BY <2>1
<1>3. L \in Links(t) /\ L.network = ManNetwork
  BY LinksHas, Parts
<1>4. ASSUME NEW l \in Links(t), l.network.name = ManNetwork.name, l.node # MAN
      PROVE  \E x \in AllNodes(t) \ {MAN} : l = Link(x, ManNetwork, 0)
  <2>1. l.network = ManNetwork
    BY <1>4, LinkIs, ByName
  <2> QED
    BY <1>4, <2>1, LinkIs DEF AllNodes
<1>5. ASSUME NEW x \in AllNodes(t) \ {MAN}
      PROVE  /\ Link(x, ManNetwork, 0) \in Links(t) /\ Link(x, ManNetwork, 0).network = ManNetwork
             /\ Link(x, ManNetwork, 0).node # MAN
  BY LinksHas, Parts DEF AllNodes
<1> HIDE DEF L
<1>6. ASSUME NEW p \in ManToNodes(t)
      PROVE  \E x \in AllNodes(t) \ {MAN} : p = <<L, Link(x, ManNetwork, 0)>>
  <2>1. /\ p \in Links(t) \X Links(t) /\ p[1] \in GetNodeLinks(t, MAN, {ManNetwork})
        /\ p[2].network.name = p[1].network.name /\ p[2].node # MAN
    BY DEF ManToNodes, GetNodeToNodesLinkPairs
  <2>2. p[1] = L /\ p[2] \in Links(t) /\ p = <<p[1], p[2]>>
    BY <1>2, <2>1
  <2>3. \E x \in AllNodes(t) \ {MAN} : p[2] = Link(x, ManNetwork, 0)
    BY <1>3, <1>4, <2>1, <2>2
  <2> QED
    BY <2>2, <2>3
<1>7. ASSUME NEW x \in AllNodes(t) \ {MAN}
      PROVE  <<L, Link(x, ManNetwork, 0)>> \in ManToNodes(t)
  <2>1. L \in GetNodeLinks(t, MAN, {ManNetwork})
    BY <1>2, <1>3
  <2> QED
    BY <1>3, <1>5, <2>1 DEF ManToNodes, GetNodeToNodesLinkPairs
<1>8. ManToNodes(t) = {<<L, Link(x, ManNetwork, 0)>> : x \in AllNodes(t) \ {MAN}}
  BY <1>6, <1>7
<1> QED
  BY <1>8 DEF L

LEMMA ManReachesAll ==
  ASSUME NEW t, AcceptedDocument(t), ManReserved
  PROVE  ManReachesNodes(t)
<1> DEFINE S == AllNodes(t) \ {MAN}
           f == [x \in S |-> <<Link(MAN, ManNetwork, 0), Link(x, ManNetwork, 0)>>]
<1>1. f \in Surjection(S, ManToNodes(t)) /\ f \in Injection(S, ManToNodes(t))
  <2>1. ManToNodes(t) = {f[x] : x \in S}
    BY ManPairs
  <2>2. \A x, y \in S : f[x] = f[y] => x = y
    BY Parts
  <2> HIDE DEF f, S
  <2>3. f \in [S -> ManToNodes(t)]
    BY <2>1 DEF f
  <2>4. DOMAIN f = S
    BY DEF f
  <2> QED
    BY <2>1, <2>2, <2>3, <2>4 DEF Surjection, Injection, IsInjective
<1>2. IsFiniteSet(AllNodes(t)) /\ MAN \in AllNodes(t)
  BY NodesFinite DEF AllNodes
<1>3. IsFiniteSet(S) /\ Cardinality(S) = Cardinality(AllNodes(t)) - 1
  BY <1>2, FS_RemoveElement
<1> HIDE DEF f, S
<1>4. Cardinality(ManToNodes(t)) = Cardinality(S)
  BY <1>1, <1>3, FS_Surjection
<1>5. \A p \in ManToNodes(t) : p[1].network = p[2].network
  BY ManPairs, Parts
<1> QED
  BY <1>3, <1>4, <1>5, NodesAre DEF ManReachesNodes

LEMMA AllNodesHaveEntries ==
  ASSUME NEW t, AcceptedDocument(t), ManReserved
  PROVE  {e.alias : e \in CrczpMgmtSSHConfig(t)} = CreateHosts(t)
<1> DEFINE E == {Entry(p[2].node.name, p[2].ip, MAN.name) : p \in ManToNodes(t)}
<1>1. \A a, i, v : Entry(a, i, v).alias = a
  BY DEF Entry
<1>2. ASSUME NEW e \in E PROVE \E x \in AllNodes(t) \ {MAN} : e.alias = x.name
  <2>1. PICK p \in ManToNodes(t) : e = Entry(p[2].node.name, p[2].ip, MAN.name)
    OBVIOUS
  <2>2. PICK x \in AllNodes(t) \ {MAN} : p = <<Link(MAN, ManNetwork, 0), Link(x, ManNetwork, 0)>>
    BY ManPairs
  <2> QED
    BY <1>1, <2>1, <2>2, Parts
<1>3. ASSUME NEW x \in AllNodes(t) \ {MAN} PROVE \E e \in E : e.alias = x.name
  <2> DEFINE p == <<Link(MAN, ManNetwork, 0), Link(x, ManNetwork, 0)>>
  <2>1. p \in ManToNodes(t) /\ p[2].node = x
    BY ManPairs, Parts
  <2> HIDE DEF p
  <2>2. Entry(p[2].node.name, p[2].ip, MAN.name) \in E
    BY <2>1
  <2> QED
    BY <1>1, <2>1, <2>2
<1>4. CrczpMgmtSSHConfig(t) = Doors \union E
  BY DEF CrczpMgmtSSHConfig
<1> HIDE DEF E
<1>5. {e.alias : e \in Doors} = {ProxyJump, MAN.name}
  <2> DEFINE a == Entry(ProxyJump, 0, "")
             b == Entry(MAN.name, 0, ProxyJump)
  <2>1. a.alias = ProxyJump /\ b.alias = MAN.name
    BY <1>1
  <2>2. Doors = {a, b}
    BY DEF Doors
  <2> HIDE DEF a, b
  <2> QED
    BY <2>1, <2>2
<1>6. {e.alias : e \in E} = {x.name : x \in AllNodes(t) \ {MAN}}
  BY <1>2, <1>3
<1>7. CreateHosts(t) = {x.name : x \in AllNodes(t) \ {MAN}} \union {ProxyJump, MAN.name}
  BY NodesAre DEF CreateHosts, NamesOf, AllNodes
<1>8. {e.alias : e \in Doors \union E} = {e.alias : e \in Doors} \union {e.alias : e \in E}
  OBVIOUS
<1> QED
  BY <1>4, <1>5, <1>6, <1>7, <1>8

\* Whatever document is accepted, the constructor of the inventory finds every host and address it
\* looks up, the default groups keep the nodes that the roles run on in spite of the groups of the
\* user, each node but the management node is managed by one protocol, and the queries that raise
\* unless there is exactly one link find one; if the names of the management node and its network
\* are left alone.
THEOREM InventoriesAreComplete ==
  ASSUME ManReserved
  PROVE  Spec => []InventoryComplete
<1>1. ASSUME Inv, Accepted PROVE InventoryComplete
  <2> DEFINE t == topology
             groups == InventoryGroups(t)
  <2>1. AcceptedDocument(t)
    BY <1>1, AcceptedIsSound
  <2> HIDE DEF t
  <2>2. /\ Inventory(t).groups = groups /\ Inventory(t).hosts = CreateHosts(t)
        /\ Inventory(t).interfaces = Interfaces(t) /\ Inventory(t).user_network = UserNetworkIps(t)
        /\ Inventory(t).containers_path = UpdateDockerHosts(t)
        /\ DOMAIN Inventory(t).management = CreateHosts(t) \ {ProxyJump}
        /\ \A n \in CreateHosts(t) \ {ProxyJump} :
             Inventory(t).management[n] = {l \in Links(t) : l.network = ManNetwork /\ l.node.name = n}
    BY DEF Inventory
  <2> HIDE DEF groups
  <2>3. \A n \in CreateHosts(t) \ {ProxyJump} : Cardinality(Inventory(t).management[n]) = 1
    BY <2>1, <2>2, ManagementFound
  <2>4. DockerHosts(t) \subseteq UpdateDockerHosts(t)
    BY <2>1, DockerHostsAreHosts, NamesAreHosts DEF UpdateDockerHosts
  <2>5. \A g \in DOMAIN groups : groups[g] \subseteq CreateHosts(t)
    BY <2>1, GroupsHaveHosts DEF groups
  <2>6. {"hosts", "routers", "management", "ssh_nodes", "winrm_nodes"}
          \subseteq DefaultAnsibleHostsGroups \ LeftOut(t)
    BY DEF DefaultAnsibleHostsGroups, LeftOut
  <2>7. /\ groups["hosts"] = NamesOf(t.hosts) /\ groups["routers"] = NamesOf(t.routers)
        /\ groups["management"] = {MAN.name}
        /\ groups["ssh_nodes"] = WithProtocol(t, "SSH")
        /\ groups["winrm_nodes"] = WithProtocol(t, "WINRM")
    <3>1. \A g \in {"hosts", "routers", "management", "ssh_nodes", "winrm_nodes"} :
            groups[g] = GroupNodes(t)[g]
      BY <2>1, <2>6, DefaultGroupsKept DEF groups
    <3> QED
      BY <3>1 DEF GroupNodes
  <2>8. /\ groups["hosts"] \union groups["routers"] = groups["ssh_nodes"] \union groups["winrm_nodes"]
        /\ groups["ssh_nodes"] \intersect groups["winrm_nodes"] = {}
    BY <2>1, <2>7, Protocols, NamesAreHosts
  <2>9. /\ GetEnrichedTopologyInstance(t)
        /\ \A l \in Links(t) : Cardinality({x \in GetNodes(t) : l \in TfInstance(t, x)}) = 1
    BY <2>1, LinksHavePorts, LinksHaveMachines
  <2>10. \A i \in Interfaces(t) \union UserNetworkIps(t) : i.node \in CreateHosts(t)
    BY <2>1, LinksAreOfHosts
  <2>11. ManReachesNodes(t) /\ {e.alias : e \in CrczpMgmtSSHConfig(t)} = CreateHosts(t)
    BY <2>1, ManReachesAll, AllNodesHaveEntries
  <2> QED
    BY <2>2, <2>3, <2>4, <2>5, <2>7, <2>8, <2>9, <2>10, <2>11 DEF t, InventoryComplete
<1>2. Inv => InventoryComplete
  BY <1>1 DEF InventoryComplete
<1> QED
  BY Invariance, <1>2, PTL
=============================================================================
