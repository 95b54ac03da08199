---------------------------- MODULE RequestGroup ----------------------------
(***************************************************************************)
(* SandboxRequestGroup: the row that counts how many of the allocations    *)
(* asked for at the same time have finished, and sends the mails about     *)
(* them.  The worker of every unit reports to the row by itself; a report  *)
(* reads the row, and writes it back whole in a later step.                *)
(*                                                                         *)
(* A unit reports at most twice, so that every behaviour is finite.        *)
(***************************************************************************)
EXTENDS Integers, FiniteSets, Sequences

CONSTANTS
  Units,   \* the allocation units created by one request
  Faults   \* what may go wrong: see FaultKinds

(***************************************************************************)
(* "mail":      the mail server refuses a mail.                            *)
(* "container": the Ansible container cannot be removed after a success.   *)
(* "cancel":    an operator cancels a unit before its stages have begun.   *)
(***************************************************************************)
FaultKinds == {"mail", "container", "cancel"}

ASSUME ConstantsAssumption ==
  /\ IsFiniteSet(Units)
  /\ Units # {}
  /\ Faults \subseteq FaultKinds

UnitCount == Cardinality(Units)

VARIABLES
  group,    \* the row: does it exist, failed_count, finished_count
  mem,      \* the counts in the object that the worker of a unit holds
  pc,       \* where the worker of a unit is
  hooks,    \* what is to be called when its transaction has committed
  outcome,  \* how the allocation of a unit really ended
  alerts,   \* mails about a failure, sent or refused
  reports   \* final reports sent

vars == <<group, mem, pc, hooks, outcome, alerts, reports>>

Counts == {c \in [failed : Nat, finished : Nat] : c.failed <= c.finished}
Pc == {"allocating", "end", "saveend", "mailend", "container",
       "fail", "savefail", "mailfail", "done"}
Report == [successful : Nat, failed : Nat]

TypeOK ==
  /\ group.live \in BOOLEAN
  /\ [failed |-> group.failed, finished |-> group.finished] \in Counts
  /\ mem \in [Units -> Counts]
  /\ pc \in [Units -> Pc]
  /\ hooks \in [Units -> SUBSET {"alert", "summary"}]
  /\ outcome \in [Units -> {"open", "ready", "failed", "cancelled", "stranded"}]
  /\ alerts \in Nat
  /\ reports \in Seq(Report)

\* create_request_group
Init ==
  /\ group = [live |-> TRUE, failed |-> 0, finished |-> 0]
  /\ mem = [u \in Units |-> [failed |-> 0, finished |-> 0]]
  /\ pc = [u \in Units |-> "allocating"]
  /\ hooks = [u \in Units |-> {}]
  /\ outcome = [u \in Units |-> "open"]
  /\ alerts = 0
  /\ reports = <<>>

-----------------------------------------------------------------------------
Go(u, to) == pc' = [pc EXCEPT ![u] = to]

\* The playbooks of the user stage end well: on_allocation_end is called next.
AllocationSucceeds(u) ==
  /\ pc[u] = "allocating"
  /\ Go(u, "end")
  /\ outcome' = [outcome EXCEPT ![u] = "ready"]
  /\ UNCHANGED <<group, mem, hooks, alerts, reports>>

\* A stage of the unit raises: execute calls on_allocation_fail.
AllocationFails(u) ==
  /\ pc[u] = "allocating"
  /\ Go(u, "fail")
  /\ outcome' = [outcome EXCEPT ![u] = "failed"]
  /\ UNCHANGED <<group, mem, hooks, alerts, reports>>

\* The jobs of a cancelled unit never run, and nobody reports.
AllocationCancelled(u) ==
  /\ "cancel" \in Faults
  /\ pc[u] = "allocating"
  /\ Go(u, "done")
  /\ outcome' = [outcome EXCEPT ![u] = "cancelled"]
  /\ UNCHANGED <<group, mem, hooks, alerts, reports>>

\* refresh_from_db in a transaction, without a lock; it raises when the row is
\* gone: the stage of a unit that ended well then fails as well.
RefreshFromDb(u) ==
  /\ pc[u] \in {"end", "fail"}
  /\ IF group.live
       THEN /\ mem' = [mem EXCEPT ![u] = [failed |-> group.failed,
                                         finished |-> group.finished]]
            /\ Go(u, IF pc[u] = "end" THEN "saveend" ELSE "savefail")
       ELSE /\ Go(u, IF pc[u] = "end" THEN "fail" ELSE "done")
            /\ UNCHANGED mem
  /\ UNCHANGED <<group, hooks, outcome, alerts, reports>>

\* Mutant: finished_count is taken not to count the failures.
SummaryDueTwiceCounted(c) == c.finished + c.failed >= UnitCount

\* The last of the allocations has been counted.
SummaryDue(c) == c.finished = UnitCount

\* save() writes every column, and inserts the row if it has been deleted.
Save(u, c) ==
  /\ mem' = [mem EXCEPT ![u] = c]
  /\ group' = [live |-> TRUE, failed |-> c.failed, finished |-> c.finished]
  /\ UNCHANGED <<outcome, alerts, reports>>

\* The rest of on_allocation_end.
SaveEnd(u) ==
  LET c == [mem[u] EXCEPT !.finished = @ + 1]
  IN /\ pc[u] = "saveend"
     /\ Save(u, c)
     /\ hooks' = [hooks EXCEPT ![u] = IF SummaryDue(c) THEN {"summary"} ELSE {}]
     /\ Go(u, "mailend")

\* Mutant: the failure is finished, but not counted as a failure.
SaveFailUncounted(u) ==
  LET c == [mem[u] EXCEPT !.finished = @ + 1]
  IN /\ pc[u] = "savefail"
     /\ Save(u, c)
     /\ hooks' = [hooks EXCEPT ![u] = {"alert"} \union
                    (IF SummaryDue(c) THEN {"summary"} ELSE {})]
     /\ Go(u, "mailfail")

\* Mutant: failed_count is looked at after it has been increased.
SaveFailCountedFirst(u) ==
  LET c == [failed |-> mem[u].failed + 1, finished |-> mem[u].finished + 1]
  IN /\ pc[u] = "savefail"
     /\ Save(u, c)
     /\ hooks' = [hooks EXCEPT ![u] =
                    (IF c.failed = 0 THEN {"alert"} ELSE {}) \union
                    (IF SummaryDue(c) THEN {"summary"} ELSE {})]
     /\ Go(u, "mailfail")

\* The rest of on_allocation_fail.
SaveFail(u) ==
  LET c == [failed |-> mem[u].failed + 1, finished |-> mem[u].finished + 1]
  IN /\ pc[u] = "savefail"
     /\ Save(u, c)
     /\ hooks' = [hooks EXCEPT ![u] =
                    (IF mem[u].failed = 0 THEN {"alert"} ELSE {}) \union
                    (IF SummaryDue(c) THEN {"summary"} ELSE {})]
     /\ Go(u, "mailfail")

\* A mail that cannot be sent raises: the later hooks are not called, and a
\* unit that ended well has its failure reported.
MailRefused(u) ==
  /\ hooks' = [hooks EXCEPT ![u] = {}]
  /\ Go(u, IF pc[u] = "mailend" THEN "fail" ELSE "done")

SendFailNotification(u) ==
  /\ "alert" \in hooks[u]
  /\ alerts' = alerts + 1
  /\ \/ /\ hooks' = [hooks EXCEPT ![u] = @ \ {"alert"}]
        /\ UNCHANGED pc
     \/ /\ "mail" \in Faults
        /\ MailRefused(u)
  /\ UNCHANGED <<group, mem, outcome, reports>>

\* Whether or not the report could be sent, the row is deleted.
SendSummaryNotification(u) ==
  /\ hooks[u] = {"summary"}
  /\ group' = [group EXCEPT !.live = FALSE]
  /\ \/ /\ reports' = Append(reports, [successful |-> mem[u].finished - mem[u].failed,
                                       failed |-> mem[u].failed])
        /\ hooks' = [hooks EXCEPT ![u] = {}]
        /\ UNCHANGED pc
     \/ /\ "mail" \in Faults
        /\ MailRefused(u)
        /\ UNCHANGED reports
  /\ UNCHANGED <<mem, outcome, alerts>>

\* The transaction and its hooks are over.
ReportDone(u) ==
  /\ pc[u] \in {"mailend", "mailfail"}
  /\ hooks[u] = {}
  /\ Go(u, IF pc[u] = "mailend" THEN "container" ELSE "done")
  /\ UNCHANGED <<group, mem, hooks, outcome, alerts, reports>>

\* container.delete() of the user stage, after the success was reported: when it
\* raises, the stage is failed and reported as such.
DeleteContainer(u) ==
  /\ pc[u] = "container"
  /\ \/ Go(u, "done") /\ UNCHANGED outcome
     \/ /\ "container" \in Faults
        /\ Go(u, "fail")
        /\ outcome' = [outcome EXCEPT ![u] = "stranded"]
  /\ UNCHANGED <<group, mem, hooks, alerts, reports>>

Next ==
  \E u \in Units : \/ AllocationSucceeds(u)
                   \/ AllocationFails(u)
                   \/ AllocationCancelled(u)
                   \/ RefreshFromDb(u)
                   \/ SaveEnd(u)
                   \/ SaveFail(u)
                   \/ SendFailNotification(u)
                   \/ SendSummaryNotification(u)
                   \/ ReportDone(u)
                   \/ DeleteContainer(u)

Spec == Init /\ [][Next]_vars

-----------------------------------------------------------------------------
WithOutcome(o) == {u \in Units : outcome[u] = o}

\* No unit has reported twice: first a success, then the failure to tidy up.
ReportedOnce == WithOutcome("stranded") = {}

\* "All allocations you created in Pool ... have finished": a final report is
\* sent only when they have, and its two numbers are the true ones, although the
\* counts it is made from are subject to lost updates.
SummaryTrue ==
  ReportedOnce =>
    \A i \in DOMAIN reports :
      /\ reports[i] = [successful |-> Cardinality(WithOutcome("ready")),
                       failed |-> Cardinality(WithOutcome("failed"))]
      /\ WithOutcome("open") = {}

\* The row is there for every unit that has not reported yet: no first report
\* raises, and so no stage that ended well is marked failed by its own report.
GroupOutlivesUnits ==
  ReportedOnce =>
    \A u \in Units :
      \/ pc[u] \in {"allocating", "end"}
      \/ pc[u] = "fail" /\ outcome[u] = "failed"
      => group.live

\* A failure never goes by without an attempt to mail it to the user, whatever the
\* counts have come to by lost updates and double reports.
FailureMailed ==
  (\E u \in Units : outcome[u] = "failed" /\ pc[u] \in {"mailfail", "done"})
    => alerts > 0 \/ \E u \in Units : "alert" \in hooks[u]
=============================================================================
