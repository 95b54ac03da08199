--------------------------- MODULE MCRequestGroup ---------------------------
(* Values of the constants of RequestGroup for model checking. *)
EXTENDS RequestGroup, TLC

CONSTANTS u1, u2, u3

ThreeUnits == {u1, u2, u3}
Symmetry == Permutations(ThreeUnits)
=============================================================================
