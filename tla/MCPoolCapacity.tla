--------------------------- MODULE MCPoolCapacity ---------------------------
(* Values of the constants of PoolCapacity for model checking. *)
EXTENDS PoolCapacity, TLC

CONSTANTS u1, u2, u3, v1, v2

TwoUnits == {u1, u2}
ThreeUnits == {u1, u2, u3}
OneVisitor == {v1}
TwoVisitors == {v1, v2}
Symmetry == Permutations(ThreeUnits) \union Permutations(TwoVisitors)
=============================================================================
