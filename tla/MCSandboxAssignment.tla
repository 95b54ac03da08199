------------------------ MODULE MCSandboxAssignment ------------------------
(* Values of the constants of SandboxAssignment for model checking. *)
EXTENDS SandboxAssignment, TLC

CONSTANTS r1, r2, r3, r4, alice, bob, carol, t1

\* Two requests of one trainee, one of another, and an organizer.
Everybody == r1 :> alice @@ r2 :> alice @@ r3 :> bob @@ r4 :> carol
=============================================================================
