--------------------------- MODULE MCNetbirdAccess ---------------------------
(* Values of the constants of NetbirdAccess for model checking. *)
EXTENDS NetbirdAccess

HostOfEach == [e1 |-> "h1"]
RoutesEach == [e1 |-> 1]
==============================================================================
