---------------------------- MODULE StackPromise ----------------------------
(***************************************************************************)
(* What the stages of an allocation unit promise about the resources of    *)
(* its stack, with no word on directories, workspaces and processes:       *)
(* a stack is built, is complete when it is reported built and stays so    *)
(* until a cleanup is asked for; a cleanup that is reported done has left  *)
(* nothing, and nothing is made after it.                                  *)
(***************************************************************************)

CONSTANT Resources  \* everything that may be made for the stack
CONSTANT Complete   \* what a complete stack consists of

VARIABLES
  phase,  \* "building", "built", "cleaning", "cleaned"
  cloud   \* the resources that exist

vars == <<phase, cloud>>

Init == phase = "building" /\ cloud = {}

Make == /\ phase \in {"building", "cleaning"}
        /\ \E r \in Resources : cloud' = cloud \union {r}
        /\ UNCHANGED phase

Remove == /\ phase \in {"building", "cleaning"}
          /\ \E r \in cloud : cloud' = cloud \ {r}
          /\ UNCHANGED phase

ReportBuilt == /\ phase = "building" /\ cloud = Complete
               /\ phase' = "built"
               /\ UNCHANGED cloud

AskCleanup == /\ phase \in {"building", "built"}
              /\ phase' = "cleaning"
              /\ UNCHANGED cloud

ReportCleaned == /\ phase = "cleaning" /\ cloud = {}
                 /\ phase' = "cleaned"
                 /\ UNCHANGED cloud

Next == Make \/ Remove \/ ReportBuilt \/ AskCleanup \/ ReportCleaned

Spec == Init /\ [][Next]_vars
==============================================================================
