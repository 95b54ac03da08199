---------------------------- MODULE MCAnsibleRun ----------------------------
(* AnsibleRun on small instances. *)
EXTENDS AnsibleRun
=============================================================================
