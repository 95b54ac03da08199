------------------------ MODULE MCSandboxLifecycle ------------------------
(* Values of the constants of SandboxLifecycle for model checking. *)
EXTENDS SandboxLifecycle, TLC

CONSTANT u1

OneUnit == {u1}
===========================================================================
