---------------------------- MODULE MCSandboxViews ----------------------------
(* Documents for model checking: two networks of six addresses, hosts and    *)
(* routers that are hidden or not, mappings that go wrong in every way the   *)
(* validators look for, and one that only the last of a network is saved by. *)
EXTENDS SandboxViews

Names == {"a", "b", "r1", "r2", "n1", "n2", "n3", "sandbox", "wan", "g", "hosts", "man"}

AHost(name, image, protocol, hidden) ==
  [name |-> name, image |-> image, protocol |-> protocol, hidden |-> hidden,
   volumes |-> NoVolumes]
Hosts == {AHost("a", "linux", "SSH", FALSE), AHost("b", "win", "WINRM", TRUE),
          [AHost("b", "gone", "SSH", FALSE) EXCEPT !.volumes = 0],
          AHost("Z", "linux", "SSH", FALSE)}

ARouter(name, hidden) ==
  [name |-> name, image |-> "linux", protocol |-> "SSH", hidden |-> hidden]
Routers == {ARouter("r1", FALSE), ARouter("r2", TRUE), ARouter("a", FALSE)}

ANetwork(name, cidr, accessible, hidden) ==
  [name |-> name, cidr |-> cidr, accessible_by_user |-> accessible, hidden |-> hidden]
Networks == {ANetwork("n1", 1..3, TRUE, FALSE), ANetwork("n2", 4..6, FALSE, FALSE),
             ANetwork("n3", 6..9, TRUE, TRUE)}
Wans == {[name |-> "wan", cidr |-> 10..11]}

NetMap(h, n, ip) == [host |-> h, network |-> n, ip |-> ip]
NetMaps == {NetMap("a", "n1", 1), NetMap("a", "n2", 4), NetMap("b", "n1", 2),
            NetMap("a", "n3", 7), NetMap("a", "n1", 4)}
RouterMap(r, n, ip) == [router |-> r, network |-> n, ip |-> ip]
RouterMaps == {RouterMap("r1", "n1", 3), RouterMap("r1", "n2", 4), RouterMap("r2", "n2", 5),
               RouterMap("r2", "n1", 2), RouterMap("r1", "n3", 8)}

Groups == {[name |-> "g", nodes |-> {"a", "r1"}], [name |-> "hosts", nodes |-> {"a"}],
           [name |-> "g", nodes |-> {"lost"}]}
Monitored(name, port) ==
  [NoMonitoring EXCEPT !.tcp = {[name |-> name, targets |->
     {[interface |-> TRUE, address |-> "none", port |-> port]}]}]
Monitorings == {Monitored("a", 80), Monitored("a", 0), Monitored("lost", 80)}
Entry1(name) == [NoVpn EXCEPT !.entrypoints = {[name |-> name, routes |-> {"v4"}]}]
Vpns == {Entry1("a"), Entry1("lost")}
Mapped(host, file) ==
  [given |-> TRUE, containers |-> {[name |-> "c", image |-> FALSE, dockerfile |-> file]},
   container_mappings |-> {[container |-> "c", host |-> host]}]
Containers == {Mapped("a", "found"), Mapped("a", "missing"), Mapped("r1", "found")}

Letters == << "a", "r1", "r2" >>
==============================================================================
