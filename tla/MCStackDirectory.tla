-------------------------- MODULE MCStackDirectory --------------------------
(* Values of the constants of StackDirectory for model checking. *)
EXTENDS StackDirectory
==============================================================================
