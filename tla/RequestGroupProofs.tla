------------------------- MODULE RequestGroupProofs -------------------------
(***************************************************************************)
(* What the mails about a group of allocations say is true, for any number *)
(* of units, although their workers overwrite each other's counts.         *)
(*                                                                         *)
(* The argument: lost updates only make the counts too small.  As long as  *)
(* no unit has reported twice, every pair of counts, in the row or in a    *)
(* worker, is that of some set of the units that have reported; so a count *)
(* of all units has lost none, and only the last unit to report makes it.  *)
(***************************************************************************)
EXTENDS RequestGroup, FiniteSetTheorems, TLAPS

Row == [live : BOOLEAN, failed : Nat, finished : Nat]

Typed == TypeOK /\ group \in Row

\* Where the worker of a unit is tells how its allocation ended, and its hooks.
Stages ==
  \A u \in Units :
    /\ pc[u] = "allocating" => outcome[u] = "open"
    /\ pc[u] \in {"end", "saveend", "mailend", "container"} => outcome[u] = "ready"
    /\ pc[u] \in {"fail", "savefail", "mailfail"} => outcome[u] \in {"ready", "failed", "stranded"}
    /\ pc[u] = "done" => outcome[u] # "open"
    /\ "alert" \in hooks[u] => pc[u] = "mailfail"
    /\ "summary" \in hooks[u] => pc[u] \in {"mailend", "mailfail"} /\ mem[u].finished = UnitCount

Alerted == alerts > 0 \/ \E u \in Units : "alert" \in hooks[u]

\* Whoever has counted a failure, in the row or in an object, has the mail sent.
FailuresAlerted ==
  /\ group.failed > 0 => Alerted
  /\ \A u \in Units : mem[u].failed > 0 => Alerted

-----------------------------------------------------------------------------
(* Types, and the places of the workers. *)

LEMMA UnitCountIsNat == UnitCount \in Nat
BY ConstantsAssumption, FS_CardinalityType DEF UnitCount

LEMMA InitTyped == Init => Typed /\ Stages
<1> SUFFICES ASSUME Init PROVE Typed /\ Stages
  OBVIOUS
<1>1. [failed |-> 0, finished |-> 0] \in Counts
  BY DEF Counts
<1>2. <<>> \in Seq(Report)
  OBVIOUS
<1>3. Typed
  BY <1>1, <1>2 DEF Init, Typed, TypeOK, Row, Pc
<1>4. Stages
  BY DEF Init, Stages
<1> QED BY <1>3, <1>4

\* A report adds one to the counts, in the object and, whole, in the row.
LEMMA SaveTyped ==
  ASSUME Typed, NEW u \in Units, NEW c \in Counts, Save(u, c)
  PROVE  /\ group' \in Row
         /\ [failed |-> group'.failed, finished |-> group'.finished] \in Counts
         /\ mem' \in [Units -> Counts]
         /\ group'.live /\ group'.failed = c.failed /\ group'.finished = c.finished
         /\ mem'[u] = c /\ \A v \in Units : v # u => mem'[v] = mem[v]
<1>1. c.failed \in Nat /\ c.finished \in Nat /\ c.failed <= c.finished
  BY DEF Counts
<1>2. group' = [live |-> TRUE, failed |-> c.failed, finished |-> c.finished]
  BY DEF Save
<1>3. group' \in Row
  BY <1>1, <1>2 DEF Row
<1>4. [failed |-> group'.failed, finished |-> group'.finished] \in Counts
  BY <1>1, <1>2 DEF Counts
<1> QED BY <1>2, <1>3, <1>4 DEF Save, Typed, TypeOK

LEMMA CountedOnce ==
  ASSUME Typed, NEW u \in Units
  PROVE  /\ mem[u].failed \in Nat /\ mem[u].finished \in Nat /\ mem[u].failed <= mem[u].finished
         /\ [mem[u] EXCEPT !.finished = @ + 1]
              = [failed |-> mem[u].failed, finished |-> mem[u].finished + 1]
         /\ [failed |-> mem[u].failed, finished |-> mem[u].finished + 1] \in Counts
         /\ [failed |-> mem[u].failed + 1, finished |-> mem[u].finished + 1] \in Counts
<1>1. mem[u] \in [failed : Nat, finished : Nat] /\ mem[u].failed <= mem[u].finished
  BY DEF Typed, TypeOK, Counts
<1>2. [mem[u] EXCEPT !.finished = @ + 1]
        = [failed |-> mem[u].failed, finished |-> mem[u].finished + 1]
  BY <1>1
<1> QED BY <1>1, <1>2 DEF Counts

\* What a worker does, apart from its own place, hooks, counts and outcome.
LEMMA Alone ==
  ASSUME Typed, Stages, NEW u \in Units,
         \/ AllocationSucceeds(u) \/ AllocationFails(u) \/ AllocationCancelled(u)
         \/ RefreshFromDb(u) \/ SaveEnd(u) \/ SaveFail(u) \/ SendFailNotification(u)
         \/ SendSummaryNotification(u) \/ ReportDone(u) \/ DeleteContainer(u)
  PROVE  \A v \in Units : v # u => /\ pc'[v] = pc[v] /\ hooks'[v] = hooks[v]
                                   /\ mem'[v] = mem[v] /\ outcome'[v] = outcome[v]
<1>1. \A v \in Units : v # u => pc'[v] = pc[v]
  BY DEF AllocationSucceeds, AllocationFails, AllocationCancelled, RefreshFromDb, SaveEnd,
         SaveFail, SendFailNotification, SendSummaryNotification, ReportDone, DeleteContainer,
         MailRefused, Go, Typed, TypeOK
<1>2. \A v \in Units : v # u => hooks'[v] = hooks[v]
  BY DEF AllocationSucceeds, AllocationFails, AllocationCancelled, RefreshFromDb, SaveEnd,
         SaveFail, SendFailNotification, SendSummaryNotification, ReportDone, DeleteContainer,
         MailRefused, Typed, TypeOK
<1>3. \A v \in Units : v # u => mem'[v] = mem[v]
  BY DEF AllocationSucceeds, AllocationFails, AllocationCancelled, RefreshFromDb, SaveEnd,
         SaveFail, SendFailNotification, SendSummaryNotification, ReportDone, DeleteContainer,
         Save, Typed, TypeOK
<1>4. \A v \in Units : v # u => outcome'[v] = outcome[v]
  BY DEF AllocationSucceeds, AllocationFails, AllocationCancelled, RefreshFromDb, SaveEnd,
         SaveFail, SendFailNotification, SendSummaryNotification, ReportDone, DeleteContainer,
         Save, Typed, TypeOK
<1> QED BY <1>1, <1>2, <1>3, <1>4

\* The two ways to report, with their records written out.
LEMMA SaveEndDoes ==
  ASSUME Typed, NEW u \in Units, SaveEnd(u)
  PROVE  LET c == [failed |-> mem[u].failed, finished |-> mem[u].finished + 1]
         IN /\ pc[u] = "saveend" /\ pc' = [pc EXCEPT ![u] = "mailend"]
            /\ Save(u, c) /\ c \in Counts
            /\ \E h \in SUBSET {"alert", "summary"} :
                 /\ hooks' = [hooks EXCEPT ![u] = h]
                 /\ "alert" \notin h
                 /\ "summary" \in h <=> c.finished = UnitCount
            /\ UNCHANGED <<outcome, alerts, reports>>
<1> DEFINE c == [mem[u] EXCEPT !.finished = @ + 1]
           d == [failed |-> mem[u].failed, finished |-> mem[u].finished + 1]
<1>1. c = d /\ d \in Counts
  BY CountedOnce
<1>2. /\ pc[u] = "saveend" /\ Save(u, c) /\ Go(u, "mailend")
      /\ hooks' = [hooks EXCEPT ![u] = IF SummaryDue(c) THEN {"summary"} ELSE {}]
  BY Zenon DEF SaveEnd
<1> HIDE DEF c
<1>3. /\ pc[u] = "saveend" /\ Save(u, d) /\ Go(u, "mailend")
      /\ hooks' = [hooks EXCEPT ![u] = IF SummaryDue(d) THEN {"summary"} ELSE {}]
  BY <1>1, <1>2, Zenon
<1> DEFINE h == IF d.finished = UnitCount THEN {"summary"} ELSE {}
<1>4. hooks' = [hooks EXCEPT ![u] = h]
  BY <1>3, Zenon DEF SummaryDue
<1>5. /\ h \in SUBSET {"alert", "summary"} /\ "alert" \notin h
      /\ "summary" \in h <=> d.finished = UnitCount
  OBVIOUS
<1> HIDE DEF h
<1>6. /\ pc[u] = "saveend" /\ pc' = [pc EXCEPT ![u] = "mailend"] /\ Save(u, d) /\ d \in Counts
      /\ UNCHANGED <<outcome, alerts, reports>>
  BY <1>1, <1>3 DEF Save, Go
<1> HIDE DEF d
<1> QED BY <1>4, <1>5, <1>6 DEF d

LEMMA SaveFailDoes ==
  ASSUME Typed, NEW u \in Units, SaveFail(u)
  PROVE  LET c == [failed |-> mem[u].failed + 1, finished |-> mem[u].finished + 1]
         IN /\ pc[u] = "savefail" /\ pc' = [pc EXCEPT ![u] = "mailfail"]
            /\ Save(u, c) /\ c \in Counts
            /\ \E h \in SUBSET {"alert", "summary"} :
                 /\ hooks' = [hooks EXCEPT ![u] = h]
                 /\ "alert" \in h <=> mem[u].failed = 0
                 /\ "summary" \in h <=> c.finished = UnitCount
            /\ UNCHANGED <<outcome, alerts, reports>>
<1> DEFINE c == [failed |-> mem[u].failed + 1, finished |-> mem[u].finished + 1]
           h == (IF mem[u].failed = 0 THEN {"alert"} ELSE {}) \union
                (IF c.finished = UnitCount THEN {"summary"} ELSE {})
<1>1. /\ pc[u] = "savefail" /\ Save(u, c) /\ pc' = [pc EXCEPT ![u] = "mailfail"]
      /\ hooks' = [hooks EXCEPT ![u] = h]
  BY Zenon DEF SaveFail, Go, SummaryDue
<1>2. /\ h \in SUBSET {"alert", "summary"}
      /\ "alert" \in h <=> mem[u].failed = 0
      /\ "summary" \in h <=> c.finished = UnitCount
  OBVIOUS
<1>3. c \in Counts /\ UNCHANGED <<outcome, alerts, reports>>
  BY <1>1, CountedOnce DEF Save
<1> HIDE DEF c, h
<1> QED BY <1>1, <1>2, <1>3 DEF c

LEMMA TypedStep == Typed /\ Stages /\ [Next]_vars => Typed'
<1> SUFFICES ASSUME Typed, Stages, [Next]_vars PROVE Typed'
  OBVIOUS
<1> USE DEF Typed
<1>1. ASSUME NEW u \in Units,
             AllocationSucceeds(u) \/ AllocationFails(u) \/ AllocationCancelled(u)
             \/ ReportDone(u) \/ DeleteContainer(u)
      PROVE  Typed'
  <2>1. pc' \in [Units -> Pc] /\ outcome' \in [Units -> {"open", "ready", "failed", "cancelled", "stranded"}]
    BY <1>1 DEF AllocationSucceeds, AllocationFails, AllocationCancelled, ReportDone,
                DeleteContainer, Go, TypeOK, Pc
  <2>2. UNCHANGED <<group, mem, hooks, alerts, reports>>
    BY <1>1 DEF AllocationSucceeds, AllocationFails, AllocationCancelled, ReportDone, DeleteContainer
  <2> QED BY <2>1, <2>2 DEF TypeOK
<1>2. ASSUME NEW u \in Units, RefreshFromDb(u) PROVE Typed'
  <2>1. pc' \in [Units -> Pc] /\ UNCHANGED <<group, hooks, outcome, alerts, reports>>
    BY <1>2 DEF RefreshFromDb, Go, TypeOK, Pc
  <2>2. mem' \in [Units -> Counts]
    BY <1>2 DEF RefreshFromDb, TypeOK
  <2> QED BY <2>1, <2>2 DEF TypeOK
<1>3. ASSUME NEW u \in Units, SaveEnd(u) PROVE Typed'
  <2>1. PICK c \in Counts : Save(u, c)
    BY <1>3, SaveEndDoes
  <2>2. PICK h \in SUBSET {"alert", "summary"} : hooks' = [hooks EXCEPT ![u] = h]
    BY <1>3, SaveEndDoes
  <2>3. PICK to \in Pc : pc' = [pc EXCEPT ![u] = to]
    BY <1>3, SaveEndDoes DEF Pc
  <2>4. UNCHANGED <<outcome, alerts, reports>>
    BY <1>3, SaveEndDoes
  <2>5. pc' \in [Units -> Pc] /\ hooks' \in [Units -> SUBSET {"alert", "summary"}]
    BY <2>2, <2>3 DEF TypeOK
  <2> QED BY <2>1, <2>4, <2>5, SaveTyped DEF TypeOK
<1>4. ASSUME NEW u \in Units, SaveFail(u) PROVE Typed'
  <2>1. PICK c \in Counts : Save(u, c)
    BY <1>4, SaveFailDoes
  <2>2. PICK h \in SUBSET {"alert", "summary"} : hooks' = [hooks EXCEPT ![u] = h]
    BY <1>4, SaveFailDoes
  <2>3. PICK to \in Pc : pc' = [pc EXCEPT ![u] = to]
    BY <1>4, SaveFailDoes DEF Pc
  <2>4. UNCHANGED <<outcome, alerts, reports>>
    BY <1>4, SaveFailDoes
  <2>5. pc' \in [Units -> Pc] /\ hooks' \in [Units -> SUBSET {"alert", "summary"}]
    BY <2>2, <2>3 DEF TypeOK
  <2> QED BY <2>1, <2>4, <2>5, SaveTyped DEF TypeOK
<1>5. ASSUME NEW u \in Units, SendFailNotification(u) PROVE Typed'
  <2>1. pc' \in [Units -> Pc] /\ hooks' \in [Units -> SUBSET {"alert", "summary"}]
    BY <1>5 DEF SendFailNotification, MailRefused, Go, TypeOK, Pc
  <2> QED BY <1>5, <2>1 DEF SendFailNotification, TypeOK
<1>6. ASSUME NEW u \in Units, SendSummaryNotification(u) PROVE Typed'
  <2>1. pc' \in [Units -> Pc] /\ hooks' \in [Units -> SUBSET {"alert", "summary"}]
        /\ UNCHANGED <<mem, outcome, alerts>>
    BY <1>6 DEF SendSummaryNotification, MailRefused, Go, TypeOK, Pc
  <2>2. group' \in Row /\ group'.failed = group.failed /\ group'.finished = group.finished
    BY <1>6 DEF SendSummaryNotification, Row
  <2>3. group'.live \in BOOLEAN
        /\ [failed |-> group'.failed, finished |-> group'.finished] \in Counts
    BY <2>2 DEF TypeOK, Row
  <2>4. [successful |-> mem[u].finished - mem[u].failed, failed |-> mem[u].failed] \in Report
    <3>1. mem[u].finished - mem[u].failed \in Nat /\ mem[u].failed \in Nat
      <4>1. \A a, b \in Nat : b <= a => a - b \in Nat
        OBVIOUS
      <4> QED BY <4>1, CountedOnce
    <3> QED BY <3>1 DEF Report
  <2>5. reports' \in Seq(Report)
    <3>1. reports' = reports \/ \E r \in Report : reports' = Append(reports, r)
      BY <1>6, <2>4 DEF SendSummaryNotification
    <3> QED BY <3>1 DEF TypeOK
  <2> QED BY <2>1, <2>2, <2>3, <2>5 DEF TypeOK
<1>7. CASE UNCHANGED vars
  BY <1>7 DEF vars, TypeOK
<1> QED BY <1>1, <1>2, <1>3, <1>4, <1>5, <1>6, <1>7 DEF Next

LEMMA StagesStep == Typed /\ Stages /\ [Next]_vars => Stages'
<1> SUFFICES ASSUME Typed, Stages, [Next]_vars PROVE Stages'
  OBVIOUS
<1> DEFINE StageOf(v) ==
      /\ pc[v] = "allocating" => outcome[v] = "open"
      /\ pc[v] \in {"end", "saveend", "mailend", "container"} => outcome[v] = "ready"
      /\ pc[v] \in {"fail", "savefail", "mailfail"} => outcome[v] \in {"ready", "failed", "stranded"}
      /\ pc[v] = "done" => outcome[v] # "open"
      /\ "alert" \in hooks[v] => pc[v] = "mailfail"
      /\ "summary" \in hooks[v] => pc[v] \in {"mailend", "mailfail"} /\ mem[v].finished = UnitCount
<1>1. \A v \in Units : StageOf(v)
  BY DEF Stages
<1>2. UnitCount' = UnitCount
  BY DEF UnitCount
<1>3. ASSUME NEW u \in Units,
             \/ AllocationSucceeds(u) \/ AllocationFails(u) \/ AllocationCancelled(u)
             \/ RefreshFromDb(u) \/ SaveEnd(u) \/ SaveFail(u) \/ SendFailNotification(u)
             \/ SendSummaryNotification(u) \/ ReportDone(u) \/ DeleteContainer(u),
             StageOf(u)'
      PROVE  Stages'
  <2>1. \A v \in Units : v # u => StageOf(v)'
    BY <1>1, <1>2, <1>3, Alone
  <2> QED BY <1>3, <2>1 DEF Stages
<1>4. ASSUME NEW u \in Units,
             AllocationSucceeds(u) \/ AllocationFails(u) \/ AllocationCancelled(u)
             \/ ReportDone(u) \/ DeleteContainer(u)
      PROVE  StageOf(u)'
  BY <1>1, <1>4 DEF AllocationSucceeds, AllocationFails, AllocationCancelled, ReportDone,
                    DeleteContainer, Go, Typed, TypeOK
<1>5. ASSUME NEW u \in Units, RefreshFromDb(u) PROVE StageOf(u)'
  BY <1>1, <1>5 DEF RefreshFromDb, Go, Typed, TypeOK
<1>6. ASSUME NEW u \in Units, SaveEnd(u) PROVE StageOf(u)'
  <2> DEFINE c == [failed |-> mem[u].failed, finished |-> mem[u].finished + 1]
  <2>1. /\ pc[u] = "saveend" /\ pc'[u] = "mailend" /\ Save(u, c) /\ c \in Counts
        /\ "alert" \notin hooks'[u]
        /\ "summary" \in hooks'[u] => c.finished = UnitCount
        /\ outcome' = outcome
    BY <1>6, SaveEndDoes DEF Typed, TypeOK
  <2>2. mem'[u] = c
    BY <2>1, SaveTyped
  <2> QED BY <1>1, <1>2, <2>1, <2>2
<1>7. ASSUME NEW u \in Units, SaveFail(u) PROVE StageOf(u)'
  <2> DEFINE c == [failed |-> mem[u].failed + 1, finished |-> mem[u].finished + 1]
  <2>1. /\ pc[u] = "savefail" /\ pc'[u] = "mailfail" /\ Save(u, c) /\ c \in Counts
        /\ "summary" \in hooks'[u] => c.finished = UnitCount
        /\ outcome' = outcome
    BY <1>7, SaveFailDoes DEF Typed, TypeOK
  <2>2. mem'[u] = c
    BY <2>1, SaveTyped
  <2> QED BY <1>1, <1>2, <2>1, <2>2
<1>8. ASSUME NEW u \in Units, SendFailNotification(u) PROVE StageOf(u)'
  <2>1. pc[u] = "mailfail" /\ UNCHANGED <<mem, outcome>>
    BY <1>1, <1>8 DEF SendFailNotification
  <2>2. \/ hooks'[u] = hooks[u] \ {"alert"} /\ pc'[u] = pc[u]
        \/ hooks'[u] = {} /\ pc'[u] = "done"
    BY <1>8, <2>1 DEF SendFailNotification, MailRefused, Go, Typed, TypeOK
  <2> QED BY <1>1, <1>2, <2>1, <2>2
<1>9. ASSUME NEW u \in Units, SendSummaryNotification(u) PROVE StageOf(u)'
  <2>1. pc[u] \in {"mailend", "mailfail"} /\ UNCHANGED <<mem, outcome>>
    BY <1>1, <1>9 DEF SendSummaryNotification
  <2>2. hooks'[u] = {} /\ (pc'[u] = pc[u] \/ pc'[u] = (IF pc[u] = "mailend" THEN "fail" ELSE "done"))
    BY <1>9, <2>1 DEF SendSummaryNotification, MailRefused, Go, Typed, TypeOK
  <2> QED BY <1>1, <1>2, <2>1, <2>2
<1>10. CASE UNCHANGED vars
  BY <1>2, <1>10 DEF vars, Stages
<1> QED BY <1>3, <1>4, <1>5, <1>6, <1>7, <1>8, <1>9, <1>10 DEF Next

-----------------------------------------------------------------------------
(* Alerts: a failure that has been counted has its mail sent. *)

\* What a step of the worker of u may be.
Step(u) ==
  \/ AllocationSucceeds(u) \/ AllocationFails(u) \/ AllocationCancelled(u)
  \/ RefreshFromDb(u) \/ SaveEnd(u) \/ SaveFail(u) \/ SendFailNotification(u)
  \/ SendSummaryNotification(u) \/ ReportDone(u) \/ DeleteContainer(u)

LEMMA AlertsLast ==
  ASSUME Typed, Stages, NEW u \in Units, Step(u), Alerted
  PROVE  Alerted'
<1>1. CASE SendFailNotification(u)
  BY <1>1 DEF SendFailNotification, Alerted, Typed, TypeOK
<1>2. CASE ~SendFailNotification(u)
  <2>1. alerts' = alerts
    BY <1>2 DEF Step, AllocationSucceeds, AllocationFails, AllocationCancelled, RefreshFromDb,
                SaveEnd, SaveFail, SendSummaryNotification, ReportDone, DeleteContainer, Save
  <2>2. ASSUME NEW v \in Units, "alert" \in hooks[v] PROVE "alert" \in hooks'[v]
    <3>1. pc[v] = "mailfail" /\ hooks[v] # {"summary"} /\ hooks[v] # {}
      BY <2>2 DEF Stages
    <3>2. v # u
      BY <1>2, <3>1 DEF Step, AllocationSucceeds, AllocationFails, AllocationCancelled,
             RefreshFromDb, SaveEnd, SaveFail, SendSummaryNotification, ReportDone, DeleteContainer
    <3> QED BY <2>2, <3>2, Alone DEF Step
  <2> QED BY <2>1, <2>2 DEF Alerted
<1> QED BY <1>1, <1>2

LEMMA FailuresAlertedStep ==
  ASSUME Typed, Stages, FailuresAlerted, NEW u \in Units, Step(u)
  PROVE  FailuresAlerted'
<1>1. CASE SaveEnd(u) \/ SaveFail(u)
  <2>1. PICK c \in Counts : Save(u, c) /\ (c.failed = mem[u].failed \/ SaveFail(u))
    BY <1>1, SaveEndDoes, SaveFailDoes
  <2>2. ASSUME SaveFail(u), mem[u].failed = 0 PROVE Alerted'
    <3>1. PICK h : hooks' = [hooks EXCEPT ![u] = h] /\ "alert" \in h
      BY <2>2, SaveFailDoes, Zenon
    <3>2. "alert" \in hooks'[u]
      BY <3>1 DEF Typed, TypeOK
    <3> QED BY <3>2 DEF Alerted
  <2>3. mem[u].failed > 0 => Alerted'
    BY AlertsLast DEF FailuresAlerted
  <2>4. mem[u].failed = 0 \/ mem[u].failed > 0
    <3>1. mem[u].failed \in Nat
      BY CountedOnce
    <3> QED BY <3>1
  <2>5. c.failed > 0 => Alerted'
    BY <2>1, <2>2, <2>3, <2>4
  <2>6. group'.failed = c.failed /\ mem'[u].failed = c.failed
        /\ \A v \in Units : v # u => mem'[v] = mem[v]
    BY <2>1, SaveTyped
  <2> QED BY <2>5, <2>6, AlertsLast DEF FailuresAlerted
<1>2. CASE ~(SaveEnd(u) \/ SaveFail(u))
  <2>1. group'.failed = group.failed
    BY <1>2 DEF Step, AllocationSucceeds, AllocationFails, AllocationCancelled, RefreshFromDb,
           SendFailNotification, SendSummaryNotification, ReportDone, DeleteContainer, Typed, Row
  <2>2. mem'[u].failed \in {mem[u].failed, group.failed}
    BY <1>2 DEF Step, AllocationSucceeds, AllocationFails, AllocationCancelled, RefreshFromDb,
           SendFailNotification, SendSummaryNotification, ReportDone, DeleteContainer, Typed, TypeOK
  <2> QED BY <2>1, <2>2, Alone, AlertsLast DEF FailuresAlerted, Step
<1> QED BY <1>1, <1>2

-----------------------------------------------------------------------------
(* Counting: the counts are those of a set of units. *)

\* The units that have reported, and those that found nobody to report to.
Counted ==
  {u \in Units : /\ outcome[u] \notin {"open", "cancelled"}
                 /\ pc[u] \notin {"end", "saveend"}
                 /\ ~(outcome[u] = "failed" /\ pc[u] \in {"fail", "savefail"})}

\* The counts of a set of some of the units in C, of which those in F failed.
CountsOf(C, F, failed, finished) ==
  \E S \in SUBSET C : finished = Cardinality(S) /\ failed = Cardinality(S \intersect F)

LEMMA CountsOfMore ==
  ASSUME NEW C, NEW D, NEW F, NEW G, NEW failed, NEW finished,
         C \subseteq D, C \intersect F = C \intersect G, CountsOf(C, F, failed, finished)
  PROVE  CountsOf(D, G, failed, finished)
<1>1. PICK S \in SUBSET C : finished = Cardinality(S) /\ failed = Cardinality(S \intersect F)
  BY DEF CountsOf
<1>2. S \in SUBSET D /\ S \intersect F = S \intersect G
  OBVIOUS
<1> QED BY <1>1, <1>2 DEF CountsOf

LEMMA CountsOfOneMore ==
  ASSUME NEW C \in SUBSET Units, NEW D, NEW F, NEW G, NEW u, NEW failed, NEW finished,
         u \notin C, C \union {u} \subseteq D, C \intersect F = C \intersect G,
         CountsOf(C, F, failed, finished)
  PROVE  /\ u \in G => CountsOf(D, G, failed + 1, finished + 1)
         /\ u \notin G => CountsOf(D, G, failed, finished + 1)
<1>1. PICK S \in SUBSET C : finished = Cardinality(S) /\ failed = Cardinality(S \intersect F)
  BY DEF CountsOf
<1>2. IsFiniteSet(S) /\ IsFiniteSet(S \intersect F)
  <2>1. S \in SUBSET Units /\ S \intersect F \in SUBSET Units
    OBVIOUS
  <2> QED BY <2>1, ConstantsAssumption, FS_Subset
<1>3. u \notin S /\ u \notin S \intersect F
  OBVIOUS
<1>4. Cardinality(S \union {u}) = finished + 1
  BY <1>1, <1>2, <1>3, FS_AddElement
<1>5. Cardinality((S \intersect F) \union {u}) = failed + 1
  BY <1>1, <1>2, <1>3, FS_AddElement
<1>6. (S \union {u}) \intersect G = IF u \in G THEN (S \intersect F) \union {u} ELSE S \intersect F
  OBVIOUS
<1>7. S \union {u} \in SUBSET D
  OBVIOUS
<1> QED BY <1>1, <1>4, <1>5, <1>6, <1>7 DEF CountsOf

LEMMA CountsOfAll ==
  ASSUME NEW C \in SUBSET Units, NEW F \in SUBSET Units, NEW failed,
         CountsOf(C, F, failed, UnitCount)
  PROVE  C = Units /\ failed = Cardinality(F)
<1>1. PICK S \in SUBSET C : UnitCount = Cardinality(S) /\ failed = Cardinality(S \intersect F)
  BY DEF CountsOf
<1>2. S = Units
  <2>1. S \in SUBSET Units
    OBVIOUS
  <2> QED BY <1>1, <2>1, ConstantsAssumption, FS_Subset DEF UnitCount
<1>3. S \intersect F = F
  BY <1>2
<1> QED BY <1>1, <1>2, <1>3

\* Who has reported stays so, and who has failed has failed.
LEMMA CountedGrows ==
  ASSUME Typed, Stages, NEW u \in Units, Step(u)
  PROVE  /\ Counted \subseteq Counted'
         /\ Counted \intersect WithOutcome("failed") = Counted \intersect WithOutcome("failed")'
<1>1. ASSUME NEW v \in Counted
      PROVE  v \in Counted' /\ (outcome'[v] = "failed" <=> outcome[v] = "failed")
  <2>1. v \in Units
    BY DEF Counted
  <2>2. CASE v # u
    BY <1>1, <2>1, <2>2, Alone DEF Step, Counted
  <2>3. CASE v = u
    <3>1. pc[u] \in {"fail", "savefail", "mailend", "mailfail", "container", "done"}
      BY <1>1, <2>3 DEF Counted, Stages, Typed, TypeOK, Pc
    <3>2. \/ outcome'[u] = outcome[u]
          \/ outcome[u] = "ready" /\ outcome'[u] = "stranded"
      BY <3>1 DEF Step, AllocationSucceeds, AllocationFails, AllocationCancelled, RefreshFromDb,
             SaveEnd, SaveFail, SendFailNotification, SendSummaryNotification, ReportDone,
             DeleteContainer, Save, Stages, Typed, TypeOK
    <3>3. CASE SaveEnd(u) \/ SaveFail(u)
      <4>1. pc'[u] \in {"mailend", "mailfail"}
        <5>1. pc' = [pc EXCEPT ![u] = "mailend"] \/ pc' = [pc EXCEPT ![u] = "mailfail"]
          BY <3>3, SaveEndDoes, SaveFailDoes, Zenon
        <5> QED BY <5>1 DEF Typed, TypeOK
      <4> QED BY <1>1, <2>1, <2>3, <3>2, <4>1 DEF Counted
    <3>4. CASE ~(SaveEnd(u) \/ SaveFail(u))
      <4>1. /\ pc'[u] \in {"fail", "savefail", "mailend", "mailfail", "container", "done"}
            /\ pc'[u] \in {"fail", "savefail"} => pc[u] \in {"fail", "mailend", "container"}
        BY <3>1, <3>4 DEF Step, AllocationSucceeds, AllocationFails, AllocationCancelled,
               RefreshFromDb, SendFailNotification, SendSummaryNotification, ReportDone,
               DeleteContainer, MailRefused, Go, Stages, Typed, TypeOK
      <4>2. pc[u] \in {"mailend", "container"} => outcome[u] = "ready"
        BY DEF Stages
      <4> QED BY <1>1, <2>1, <2>3, <3>2, <4>1, <4>2 DEF Counted
    <3> QED BY <3>3, <3>4
  <2> QED BY <2>2, <2>3
<1> QED BY <1>1 DEF Counted, WithOutcome

\* As long as no unit has tidied up in vain, or no failure has been counted, no
\* unit counts twice.
Straight == ReportedOnce \/ ~Alerted

CountsHeld ==
  /\ CountsOf(Counted, WithOutcome("failed"), group.failed, group.finished)
  /\ \A u \in Units : CountsOf(Counted, WithOutcome("failed"), mem[u].failed, mem[u].finished)

\* The final report is due, and the row deleted, when all units have reported.
EndSeen ==
  (~group.live \/ \E u \in Units : "summary" \in hooks[u]) => Counted = Units

\* A unit that has ended well reports a failure only to a row that is gone.
NoSecondReport ==
  \A u \in Units :
    /\ pc[u] = "fail" /\ outcome[u] = "ready" => ~group.live
    /\ pc[u] = "savefail" => outcome[u] # "ready"

Honest == Straight => CountsHeld /\ EndSeen /\ NoSecondReport

Mailed ==
  \A u \in Units : outcome[u] = "failed" /\ pc[u] \in {"mailfail", "done"} => Alerted

Told == Typed /\ Stages /\ FailuresAlerted /\ Honest /\ Mailed /\ SummaryTrue

LEMMA InitTold == Init => Told
<1> SUFFICES ASSUME Init PROVE Told
  OBVIOUS
<1>1. Typed /\ Stages
  BY InitTyped
<1>2. FailuresAlerted /\ Mailed /\ SummaryTrue
  BY DEF Init, FailuresAlerted, Mailed, SummaryTrue
<1>3. CountsOf(Counted, WithOutcome("failed"), 0, 0)
  <2>1. {} \in SUBSET Counted /\ {} \intersect WithOutcome("failed") = {} /\ Cardinality({}) = 0
    BY FS_EmptySet
  <2> QED BY <2>1 DEF CountsOf
<1>4. CountsHeld /\ EndSeen /\ NoSecondReport
  BY <1>3 DEF Init, CountsHeld, EndSeen, NoSecondReport
<1> QED BY <1>1, <1>2, <1>4 DEF Told, Honest

\* No step makes a crooked history straight.
LEMMA StraightBefore ==
  ASSUME Typed, Stages, NEW u \in Units, Step(u), Straight'
  PROVE  Straight
<1>1. \A v \in Units : outcome[v] = "stranded" => outcome'[v] = "stranded"
  <2>1. outcome[u] = "stranded" => outcome'[u] = "stranded"
    BY DEF Step, AllocationSucceeds, AllocationFails, AllocationCancelled, RefreshFromDb,
           SaveEnd, SaveFail, SendFailNotification, SendSummaryNotification, ReportDone,
           DeleteContainer, Save, Stages
  <2> QED BY <2>1, Alone DEF Step
<1>2. ReportedOnce' => ReportedOnce
  BY <1>1 DEF ReportedOnce, WithOutcome
<1> QED BY <1>2, AlertsLast DEF Straight

\* Whoever counts a failure has it mailed, or finds it done.
LEMMA SaveFailAlerts ==
  ASSUME Typed, Stages, FailuresAlerted, NEW u \in Units, SaveFail(u)
  PROVE  Alerted'
<1>1. CASE mem[u].failed = 0
  <2>1. PICK h : hooks' = [hooks EXCEPT ![u] = h] /\ "alert" \in h
    BY <1>1, SaveFailDoes, Zenon
  <2>2. "alert" \in hooks'[u]
    BY <2>1 DEF Typed, TypeOK
  <2> QED BY <2>2 DEF Alerted
<1>2. CASE mem[u].failed # 0
  <2>1. mem[u].failed \in Nat
    BY CountedOnce
  <2> QED BY <1>2, <2>1, AlertsLast DEF FailuresAlerted, Step
<1> QED BY <1>1, <1>2

\* Only a unit that has not reported yet counts, and then it has reported.
LEMMA SaveOnce ==
  ASSUME Told, NEW u \in Units, SaveEnd(u) \/ SaveFail(u), Straight'
  PROVE  /\ u \notin Counted /\ u \in Counted'
         /\ outcome' = outcome
         /\ group'.live
         /\ group'.failed = mem'[u].failed /\ group'.finished = mem'[u].finished
         /\ mem'[u].failed = (IF outcome[u] = "failed" THEN mem[u].failed + 1 ELSE mem[u].failed)
         /\ mem'[u].finished = mem[u].finished + 1
<1> USE DEF Told
<1>1. Straight
  BY StraightBefore DEF Step
<1>2. CASE SaveEnd(u)
  <2> DEFINE c == [failed |-> mem[u].failed, finished |-> mem[u].finished + 1]
  <2>1. /\ pc[u] = "saveend" /\ pc' = [pc EXCEPT ![u] = "mailend"]
        /\ Save(u, c) /\ c \in Counts /\ outcome' = outcome
    BY <1>2, SaveEndDoes, Zenon
  <2>2. outcome[u] = "ready" /\ pc'[u] = "mailend"
    BY <2>1 DEF Stages, Typed, TypeOK
  <2>3. u \notin Counted /\ u \in Counted'
    BY <2>1, <2>2 DEF Counted
  <2>4. c.failed = mem[u].failed /\ c.finished = mem[u].finished + 1
    OBVIOUS
  <2> HIDE DEF c
  <2> QED BY <2>1, <2>2, <2>3, <2>4, SaveTyped
<1>3. CASE SaveFail(u)
  <2> DEFINE c == [failed |-> mem[u].failed + 1, finished |-> mem[u].finished + 1]
  <2>1. /\ pc[u] = "savefail" /\ pc' = [pc EXCEPT ![u] = "mailfail"]
        /\ Save(u, c) /\ c \in Counts /\ outcome' = outcome
    BY <1>3, SaveFailDoes, Zenon
  <2>2. ReportedOnce'
    BY <1>3, SaveFailAlerts DEF Straight
  <2>3. outcome[u] = "failed" /\ pc'[u] = "mailfail"
    <3>1. outcome[u] # "stranded"
      BY <2>1, <2>2 DEF ReportedOnce, WithOutcome
    <3>2. outcome[u] # "ready"
      BY <1>1, <2>1 DEF Honest, NoSecondReport
    <3> QED BY <2>1, <3>1, <3>2 DEF Stages, Typed, TypeOK
  <2>4. u \notin Counted /\ u \in Counted'
    BY <2>1, <2>3 DEF Counted
  <2>5. c.failed = mem[u].failed + 1 /\ c.finished = mem[u].finished + 1
    OBVIOUS
  <2> HIDE DEF c
  <2> QED BY <2>1, <2>3, <2>4, <2>5, SaveTyped
<1> QED BY <1>2, <1>3

LEMMA CountsHeldStep ==
  ASSUME Told, NEW u \in Units, Step(u), Straight'
  PROVE  CountsHeld'
<1> DEFINE F == WithOutcome("failed")
<1> USE DEF Told
<1>1. Straight /\ CountsHeld
  BY StraightBefore DEF Honest
<1>2. Counted \subseteq Counted' /\ Counted \intersect F = Counted \intersect F'
  BY CountedGrows
<1>3. CountsOf(Counted, F, group.failed, group.finished)
      /\ \A v \in Units : CountsOf(Counted, F, mem[v].failed, mem[v].finished)
  BY <1>1 DEF CountsHeld
<1>4. ASSUME NEW failed, NEW finished, CountsOf(Counted, F, failed, finished)
      PROVE  CountsOf(Counted', F', failed, finished)
  <2> HIDE DEF F
  <2> QED BY <1>2, <1>4, CountsOfMore
<1>5. CASE SaveEnd(u) \/ SaveFail(u)
  <2>1. u \notin Counted /\ Counted \union {u} \subseteq Counted' /\ Counted \in SUBSET Units
    BY <1>2, <1>5, SaveOnce DEF Counted
  <2>2. u \in F' <=> outcome[u] = "failed"
    BY <1>5, SaveOnce DEF WithOutcome
  <2>3. mem'[u].failed = (IF u \in F' THEN mem[u].failed + 1 ELSE mem[u].failed)
        /\ mem'[u].finished = mem[u].finished + 1
    BY <1>5, <2>2, SaveOnce
  <2>4. CountsOf(Counted', F', mem'[u].failed, mem'[u].finished)
    <3>1. CountsOf(Counted, F, mem[u].failed, mem[u].finished)
      BY <1>3
    <3> HIDE DEF F
    <3>2. /\ u \in F' => CountsOf(Counted', F', mem[u].failed + 1, mem[u].finished + 1)
          /\ u \notin F' => CountsOf(Counted', F', mem[u].failed, mem[u].finished + 1)
      BY <1>2, <2>1, <3>1, CountsOfOneMore, Zenon
    <3> QED BY <2>3, <3>2
  <2>5. CountsOf(Counted', F', group'.failed, group'.finished)
    BY <1>5, <2>4, SaveOnce
  <2>6. \A v \in Units : v # u => CountsOf(Counted', F', mem'[v].failed, mem'[v].finished)
    BY <1>3, <1>4, Alone DEF Step
  <2> QED BY <2>4, <2>5, <2>6 DEF CountsHeld
<1>6. CASE ~(SaveEnd(u) \/ SaveFail(u))
  <2>1. group'.failed = group.failed /\ group'.finished = group.finished
    BY <1>6 DEF Step, AllocationSucceeds, AllocationFails, AllocationCancelled, RefreshFromDb,
           SendFailNotification, SendSummaryNotification, ReportDone, DeleteContainer, Typed, Row
  <2>2. \/ mem'[u].failed = mem[u].failed /\ mem'[u].finished = mem[u].finished
        \/ mem'[u].failed = group.failed /\ mem'[u].finished = group.finished
    BY <1>6 DEF Step, AllocationSucceeds, AllocationFails, AllocationCancelled, RefreshFromDb,
           SendFailNotification, SendSummaryNotification, ReportDone, DeleteContainer, Typed, TypeOK
  <2>3. \A v \in Units : v # u => mem'[v] = mem[v]
    BY Alone DEF Step
  <2> QED BY <1>3, <1>4, <2>1, <2>2, <2>3 DEF CountsHeld
<1> QED BY <1>5, <1>6

LEMMA EndSeenStep ==
  ASSUME Told, NEW u \in Units, Step(u), Straight'
  PROVE  EndSeen'
<1> USE DEF Told
<1>1. EndSeen /\ CountsHeld' /\ Counted \subseteq Counted' /\ Counted' \subseteq Units
  BY StraightBefore, CountsHeldStep, CountedGrows DEF Honest, Counted
<1>2. CASE SaveEnd(u) \/ SaveFail(u)
  <2>1. group'.live /\ u \notin Counted
    BY <1>2, SaveOnce
  <2>2. group.live /\ \A v \in Units : "summary" \notin hooks[v]
    BY <1>1, <2>1 DEF EndSeen
  <2>3. \A v \in Units : v # u => "summary" \notin hooks'[v]
    BY <2>2, Alone DEF Step
  <2>4. ASSUME "summary" \in hooks'[u] PROVE Counted' = Units
    <3>1. mem'[u].finished = UnitCount
      BY <2>4, StagesStep DEF Stages, Next, Step, UnitCount
    <3>2. CountsOf(Counted', WithOutcome("failed")', mem'[u].failed, UnitCount)
      BY <1>1, <3>1 DEF CountsHeld
    <3>3. WithOutcome("failed")' \in SUBSET Units
      BY DEF WithOutcome
    <3> QED BY <1>1, <3>2, <3>3, CountsOfAll, Zenon
  <2> QED BY <2>1, <2>3, <2>4 DEF EndSeen
<1>3. CASE ~(SaveEnd(u) \/ SaveFail(u))
  <2>1. \A v \in Units : "summary" \in hooks'[v] => "summary" \in hooks[v]
    <3>1. "summary" \in hooks'[u] => "summary" \in hooks[u]
      BY <1>3 DEF Step, AllocationSucceeds, AllocationFails, AllocationCancelled, RefreshFromDb,
             SendFailNotification, SendSummaryNotification, ReportDone, DeleteContainer,
             MailRefused, Typed, TypeOK
    <3> QED BY <3>1, Alone DEF Step
  <2>2. ~group'.live => ~group.live \/ "summary" \in hooks[u]
    BY <1>3 DEF Step, AllocationSucceeds, AllocationFails, AllocationCancelled, RefreshFromDb,
           SendFailNotification, SendSummaryNotification, ReportDone, DeleteContainer
  <2> QED BY <1>1, <2>1, <2>2 DEF EndSeen
<1> QED BY <1>2, <1>3

LEMMA NoSecondReportStep ==
  ASSUME Told, NEW u \in Units, Step(u), Straight'
  PROVE  NoSecondReport'
<1> USE DEF Told
<1>1. EndSeen /\ NoSecondReport
  BY StraightBefore DEF Honest
<1>2. CASE SaveEnd(u) \/ SaveFail(u)
  <2>1. u \notin Counted /\ outcome' = outcome
    BY <1>2, SaveOnce
  <2>2. group.live
    BY <1>1, <2>1 DEF EndSeen
  <2>3. pc' = [pc EXCEPT ![u] = "mailend"] \/ pc' = [pc EXCEPT ![u] = "mailfail"]
    BY <1>2, SaveEndDoes, SaveFailDoes, Zenon
  <2>4. \A v \in Units : pc'[v] \in {"fail", "savefail"} => pc[v] = pc'[v]
    BY <2>3 DEF Typed, TypeOK
  <2> QED BY <1>1, <2>1, <2>2, <2>4 DEF NoSecondReport
<1>3. CASE ~(SaveEnd(u) \/ SaveFail(u))
  <2>1. ~group.live => ~group'.live
    BY <1>3 DEF Step, AllocationSucceeds, AllocationFails, AllocationCancelled, RefreshFromDb,
           SendFailNotification, SendSummaryNotification, ReportDone, DeleteContainer, Typed, Row
  <2>2. \A v \in Units : v # u => pc'[v] = pc[v] /\ outcome'[v] = outcome[v]
    BY Alone DEF Step
  <2>3. pc'[u] = "fail" /\ outcome'[u] = "ready" => ~group'.live
    <3>1. CASE SendSummaryNotification(u)
      BY <3>1 DEF SendSummaryNotification, Typed, Row
    <3>2. CASE ~SendSummaryNotification(u)
      <4>1. pc'[u] = "fail" /\ outcome'[u] = "ready" =>
              \/ pc[u] = "fail" /\ outcome[u] = "ready"
              \/ pc[u] = "end" /\ ~group.live
        BY <1>3, <3>2 DEF Step, AllocationSucceeds, AllocationFails, AllocationCancelled,
               RefreshFromDb, SendFailNotification, ReportDone, DeleteContainer, MailRefused, Go,
               Stages, Typed, TypeOK
      <4> QED BY <1>1, <2>1, <4>1 DEF NoSecondReport
    <3> QED BY <3>1, <3>2
  <2>4. pc'[u] = "savefail" => outcome'[u] # "ready"
    <3>1. pc'[u] = "savefail" =>
            /\ outcome'[u] = outcome[u]
            /\ pc[u] = "savefail" \/ (pc[u] = "fail" /\ group.live)
      BY <1>3 DEF Step, AllocationSucceeds, AllocationFails, AllocationCancelled, RefreshFromDb,
             SendFailNotification, SendSummaryNotification, ReportDone, DeleteContainer,
             MailRefused, Go, Typed, TypeOK
    <3> QED BY <1>1, <3>1 DEF NoSecondReport
  <2> QED BY <1>1, <2>1, <2>2, <2>3, <2>4 DEF NoSecondReport
<1> QED BY <1>2, <1>3

LEMMA MailedStep ==
  ASSUME Told, NEW u \in Units, Step(u)
  PROVE  Mailed'
<1> USE DEF Told
<1>1. \A v \in Units : v # u => pc'[v] = pc[v] /\ outcome'[v] = outcome[v]
  BY Alone DEF Step
<1>2. Alerted => Alerted'
  BY AlertsLast
<1>3. ASSUME outcome'[u] = "failed", pc'[u] \in {"mailfail", "done"} PROVE Alerted'
  <2>1. CASE SaveFail(u)
    BY <2>1, SaveFailAlerts
  <2>2. CASE SaveEnd(u)
    <3>1. pc' = [pc EXCEPT ![u] = "mailend"]
      BY <2>2, SaveEndDoes, Zenon
    <3> QED BY <1>3, <3>1 DEF Typed, TypeOK
  <2>3. CASE ~SaveFail(u) /\ ~SaveEnd(u)
    <3>1. outcome[u] = "failed" /\ (pc[u] \in {"mailfail", "done"} \/ (pc[u] = "fail" /\ ~group.live))
      BY <1>3, <2>3 DEF Step, AllocationSucceeds, AllocationFails, AllocationCancelled, RefreshFromDb,
             SendFailNotification, SendSummaryNotification, ReportDone, DeleteContainer,
             MailRefused, Go, Stages, Typed, TypeOK
    <3>2. CASE pc[u] = "fail" /\ ~group.live
      <4>1. u \notin Counted
        BY <3>1, <3>2 DEF Counted
      <4>2. ~EndSeen
        BY <3>2, <4>1 DEF EndSeen
      <4> QED BY <1>2, <4>2 DEF Honest, Straight
    <3> QED BY <1>2, <3>1, <3>2 DEF Mailed
  <2> QED BY <2>1, <2>2, <2>3
<1> QED BY <1>1, <1>2, <1>3 DEF Mailed

\* When all units have reported once, those that are not failed are ready.
LEMMA AllReported ==
  ASSUME ReportedOnce, Counted = Units, Typed
  PROVE  /\ WithOutcome("open") = {}
         /\ Cardinality(WithOutcome("ready")) = UnitCount - Cardinality(WithOutcome("failed"))
<1>1. \A v \in Units : outcome[v] \in {"ready", "failed"}
  BY DEF Counted, ReportedOnce, WithOutcome, Typed, TypeOK
<1>2. WithOutcome("open") = {}
  BY <1>1 DEF WithOutcome
<1>3. WithOutcome("ready") = Units \ WithOutcome("failed")
  BY <1>1 DEF WithOutcome
<1>4. WithOutcome("failed") \in SUBSET Units
  BY DEF WithOutcome
<1>5. IsFiniteSet(WithOutcome("failed"))
  BY <1>4, ConstantsAssumption, FS_Subset
<1>6. Cardinality(Units \ WithOutcome("failed"))
        = Cardinality(Units) - Cardinality(Units \intersect WithOutcome("failed"))
  BY <1>5, ConstantsAssumption, FS_Difference
<1>7. Units \intersect WithOutcome("failed") = WithOutcome("failed")
  BY <1>4
<1> QED BY <1>2, <1>3, <1>6, <1>7 DEF UnitCount

LEMMA SummaryStep ==
  ASSUME Told, NEW u \in Units, Step(u)
  PROVE  SummaryTrue'
<1> USE DEF Told
<1> SUFFICES ASSUME ReportedOnce', NEW i \in DOMAIN reports'
             PROVE  /\ reports'[i] = [successful |-> Cardinality(WithOutcome("ready")'),
                                      failed |-> Cardinality(WithOutcome("failed")')]
                    /\ WithOutcome("open")' = {}
  BY DEF SummaryTrue
<1>1. Straight /\ ReportedOnce
  <2>1. outcome[u] = "stranded" => outcome'[u] = "stranded"
    BY DEF Step, AllocationSucceeds, AllocationFails, AllocationCancelled, RefreshFromDb,
           SaveEnd, SaveFail, SendFailNotification, SendSummaryNotification, ReportDone,
           DeleteContainer, Save, Stages
  <2> QED BY <2>1, Alone DEF Step, Straight, ReportedOnce, WithOutcome
<1>2. CASE reports' = reports
  <2>1. i \in DOMAIN reports
    BY <1>2
  <2>2. /\ reports[i] = [successful |-> Cardinality(WithOutcome("ready")),
                         failed |-> Cardinality(WithOutcome("failed"))]
        /\ WithOutcome("open") = {}
    BY <1>1, <2>1 DEF SummaryTrue
  <2>3. outcome'[u] = outcome[u]
    <3>1. outcome[u] # "open" /\ outcome'[u] # "stranded"
      BY <2>2 DEF WithOutcome, ReportedOnce
    <3> QED BY <3>1 DEF Step, AllocationSucceeds, AllocationFails, AllocationCancelled, RefreshFromDb,
           SaveEnd, SaveFail, SendFailNotification, SendSummaryNotification, ReportDone,
           DeleteContainer, Save, Stages, Typed, TypeOK
  <2>4. \A v \in Units : outcome'[v] = outcome[v]
    BY <2>3, Alone DEF Step
  <2>5. \A o : WithOutcome(o)' = WithOutcome(o)
    BY <2>4 DEF WithOutcome
  <2> QED BY <1>2, <2>2, <2>5
<1>3. CASE reports' # reports
  <2>1. SendSummaryNotification(u)
    BY <1>3 DEF Step, AllocationSucceeds, AllocationFails, AllocationCancelled, RefreshFromDb,
           SaveEnd, SaveFail, SendFailNotification, ReportDone, DeleteContainer, Save
  <2>2. /\ hooks[u] = {"summary"} /\ outcome' = outcome
        /\ reports' = Append(reports, [successful |-> mem[u].finished - mem[u].failed,
                                       failed |-> mem[u].failed])
    BY <1>3, <2>1 DEF SendSummaryNotification
  <2>3. Counted = Units /\ mem[u].finished = UnitCount
    BY <1>1, <2>2 DEF Honest, EndSeen, Stages
  <2>4. mem[u].failed = Cardinality(WithOutcome("failed"))
    <3>1. CountsOf(Counted, WithOutcome("failed"), mem[u].failed, UnitCount)
      BY <1>1, <2>3 DEF Honest, CountsHeld
    <3>2. Counted \in SUBSET Units /\ WithOutcome("failed") \in SUBSET Units
      BY DEF Counted, WithOutcome
    <3> QED BY <3>1, <3>2, CountsOfAll, Zenon
  <2>5. WithOutcome("open") = {} /\ Cardinality(WithOutcome("ready")) = mem[u].finished - mem[u].failed
    BY <1>1, <2>3, <2>4, AllReported
  <2>6. \A o : WithOutcome(o)' = WithOutcome(o)
    BY <2>2 DEF WithOutcome
  <2>7. i \in DOMAIN reports \/ reports'[i] = [successful |-> mem[u].finished - mem[u].failed,
                                               failed |-> mem[u].failed]
    <3>1. reports \in Seq(Report)
      BY DEF Typed, TypeOK
    <3> QED BY <2>2, <3>1
  <2>8. i \in DOMAIN reports => reports'[i] = reports[i]
    <3>1. reports \in Seq(Report)
      BY DEF Typed, TypeOK
    <3> QED BY <2>2, <3>1
  <2>9. i \in DOMAIN reports =>
          reports[i] = [successful |-> Cardinality(WithOutcome("ready")),
                        failed |-> Cardinality(WithOutcome("failed"))]
    BY <1>1 DEF SummaryTrue
  <2> QED BY <2>4, <2>5, <2>6, <2>7, <2>8, <2>9
<1> QED BY <1>2, <1>3

LEMMA ToldStep == Told /\ [Next]_vars => Told'
<1> SUFFICES ASSUME Told, [Next]_vars PROVE Told'
  OBVIOUS
<1>1. Typed' /\ Stages'
  BY TypedStep, StagesStep DEF Told
<1>2. ASSUME NEW u \in Units, Step(u) PROVE Told'
  <2>1. FailuresAlerted' /\ Mailed' /\ SummaryTrue'
    BY <1>2, FailuresAlertedStep, MailedStep, SummaryStep DEF Told
  <2>2. Honest'
    BY <1>2, CountsHeldStep, EndSeenStep, NoSecondReportStep DEF Honest
  <2> QED BY <1>1, <2>1, <2>2 DEF Told
<1>3. CASE UNCHANGED vars
  <2>1. Alerted' = Alerted /\ Counted' = Counted /\ \A o : WithOutcome(o)' = WithOutcome(o)
    BY <1>3 DEF vars, Alerted, Counted, WithOutcome
  <2>2. FailuresAlerted' /\ Mailed' /\ SummaryTrue'
    BY <1>3, <2>1 DEF vars, Told, FailuresAlerted, Mailed, SummaryTrue, ReportedOnce
  <2>3. Honest'
    BY <1>3, <2>1 DEF vars, Told, Honest, Straight, ReportedOnce, CountsHeld, EndSeen, NoSecondReport
  <2> QED BY <1>1, <2>2, <2>3 DEF Told
<1> QED BY <1>2, <1>3 DEF Next, Step

-----------------------------------------------------------------------------
\* Every variable keeps its type, for any number of units and any faults.
THEOREM GroupTyped == Spec => []TypeOK
<1>1. Told => TypeOK
  BY DEF Told, Typed
<1> QED BY InitTold, ToldStep, <1>1, PTL DEF Spec

\* A failed allocation is always mailed to its user: on_allocation_fail sends the
\* alert only when it finds failed_count at zero, and yet no order of the workers,
\* no lost update and no double report makes all of them believe it was sent.
THEOREM FailuresAreMailed == Spec => []FailureMailed
<1>1. Told => FailureMailed
  BY DEF Told, Mailed, FailureMailed, Alerted
<1> QED BY InitTold, ToldStep, <1>1, PTL DEF Spec

\* If no unit reports twice, a final report is sent when all have finished only,
\* with the true numbers, although concurrent reports may overwrite each other.
THEOREM SummariesAreTrue == Spec => []SummaryTrue
<1>1. Told => SummaryTrue
  BY DEF Told
<1> QED BY InitTold, ToldStep, <1>1, PTL DEF Spec

\* If no unit reports twice, the row is not deleted before its last reader.
THEOREM GroupIsThere == Spec => []GroupOutlivesUnits
<1>1. Told => GroupOutlivesUnits
  <2> SUFFICES ASSUME Told, ReportedOnce, NEW u \in Units,
                      pc[u] \in {"allocating", "end"} \/ (pc[u] = "fail" /\ outcome[u] = "failed")
               PROVE  group.live
    BY DEF GroupOutlivesUnits
  <2>1. u \notin Counted
    BY DEF Told, Stages, Counted
  <2> QED BY <2>1 DEF Told, Honest, Straight, EndSeen
<1> QED BY InitTold, ToldStep, <1>1, PTL DEF Spec
=============================================================================
