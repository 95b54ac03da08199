--------------------------- MODULE MCRevisionReads ---------------------------
(* Commit 1 is in order; the topology of commit 2 does not pass validation; that *)
(* of commit 3 does, but its containers fit neither topology.                    *)
EXTENDS RevisionReads

MCLoads == {1, 3}
MCMatches == {<<1, 1>>}
==============================================================================
