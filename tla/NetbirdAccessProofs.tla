------------------------- MODULE NetbirdAccessProofs -------------------------
(***************************************************************************)
(* What the job and the teardown of NetBird objects promise, for any       *)
(* entrypoints with any number of routes, whatever calls fail and whoever  *)
(* dies.                                                                   *)
(*                                                                         *)
(* The deadline: a teardown makes at most two calls between two looks at   *)
(* it, so what counts is how many it may still make (BoundedCalls).        *)
(*                                                                         *)
(* Names: while nobody tears down, the object in the hands of the job is   *)
(* as it is saved, and the policy of an entrypoint comes after its routes  *)
(* are saved (Tracked).                                                    *)
(*                                                                         *)
(* The end: a teardown that begins with every object named keeps each of   *)
(* them in sight, behind what refers to it, until it is gone; a peer does  *)
(* not come back, as the key goes before the peers are listed (Clean).     *)
(***************************************************************************)
EXTENDS NetbirdAccess, TLAPS

\* No two entries of the vpn block name the same node, so that each has a row of its own.
NamesDiffer == \A d, e \in Entrypoints : Host[d] = Host[e] => d = e

\* What the job may be about to make: each kind belongs to the access or to the entrypoints.
MakesOwnKind ==
  at["job"] = "make" =>
    kind["job"] \in IF on["job"] = Access THEN {"group", "key", "dns"}
                                          ELSE {"group", "key", "route", "policy"}

Typed == TypeOK /\ MakesOwnKind

\* An entry's row is known by an entry, and never by the access.
LEMMA RowIsOwner == \A b \in Owners : Row(b) \in Owners /\ (Row(b) = Access <=> b = Access)
<1> SUFFICES ASSUME NEW b \in Owners PROVE Row(b) \in Owners /\ (Row(b) = Access <=> b = Access)
  OBVIOUS
<1>1. CASE b = Access
  BY <1>1 DEF Row, Owners
<1>2. CASE b # Access
  <2>1. b \in Entrypoints
    BY <1>2 DEF Owners
  <2>2. \E e \in Entrypoints : Host[e] = Host[b]
    BY <2>1
  <2>3. Row(b) \in Entrypoints
    BY <1>2, <2>2 DEF Row
  <2> QED BY <1>2, <2>3, ConstantsAssumption DEF Owners
<1> QED BY <1>1, <1>2

LEMMA RowOfItsOwn == NamesDiffer => \A b \in Owners : Row(b) = b
<1> SUFFICES ASSUME NamesDiffer, NEW b \in Owners PROVE Row(b) = b
  OBVIOUS
<1>1. CASE b = Access
  BY <1>1 DEF Row
<1>2. CASE b # Access
  <2>1. b \in Entrypoints
    BY <1>2 DEF Owners
  <2>2. \E e \in Entrypoints : Host[e] = Host[b]
    BY <2>1
  <2>3. Row(b) \in Entrypoints /\ Host[Row(b)] = Host[b]
    BY <1>2, <2>2 DEF Row
  <2> QED BY <2>1, <2>3 DEF NamesDiffer
<1> QED BY <1>1, <1>2

\* An object belongs to one owner only.
LEMMA ObjectsOfOwner ==
  \A b \in Owners : /\ ObjectsOf(b) \subseteq Objects
                    /\ \A o \in ObjectsOf(b) : o.of = b /\ o.kind \in Kinds
<1> SUFFICES ASSUME NEW b \in Owners
             PROVE  /\ ObjectsOf(b) \subseteq Objects
                    /\ \A o \in ObjectsOf(b) : o.of = b /\ o.kind \in Kinds
  OBVIOUS
<1>1. ObjectsOf(b) \subseteq Objects
  BY DEF Objects
<1>2. ASSUME NEW o \in ObjectsOf(b) PROVE o.of = b /\ o.kind \in Kinds
  BY <1>2 DEF ObjectsOf, Group, Key, Nameservers, Policy, RoutesOf, Obj, Kinds
<1> QED BY <1>1, <1>2

LEMMA ObjectHasOwner == \A o \in Objects : o.of \in Owners /\ o \in ObjectsOf(o.of)
<1> SUFFICES ASSUME NEW o \in Objects PROVE o.of \in Owners /\ o \in ObjectsOf(o.of)
  OBVIOUS
<1>1. PICK b \in Owners : o \in ObjectsOf(b)
  BY DEF Objects
<1>2. o.of = b
  BY <1>1, ObjectsOfOwner
<1> QED BY <1>1, <1>2

LEMMA ToMakeTyped ==
  ASSUME TypeOK PROVE ToMake \subseteq Objects /\ \A o \in ToMake : o.of = on["job"]
BY ObjectsOfOwner DEF ToMake, OfKind, TypeOK, Actors

LEMMA InitTyped == Init => Typed
<1> SUFFICES ASSUME Init PROVE Typed
  OBVIOUS
<1>1. TypeOK
  BY ConstantsAssumption DEF Init, TypeOK, Actors, Owners, Nothing, Kinds, Provisioning, Requesting
<1>2. at["job"] = "guard"
  BY DEF Init, Actors
<1> QED BY <1>1, <1>2 DEF Typed, MakesOwnKind

\* Types, action by action.
LEMMA SkipProvisionTyped == ASSUME Typed, SkipProvision PROVE Typed'
BY DEF Typed, TypeOK, MakesOwnKind, Actors, Provisioning, TearingDown, Requesting, db, netbird,
   SkipProvision, Ends, Nothing, Kinds, Owners

LEMMA StartGuardTyped == ASSUME Typed, StartGuard PROVE Typed'
BY DEF Typed, TypeOK, MakesOwnKind, Actors, Provisioning, TearingDown, Requesting, db, netbird,
   StartGuard, Ends, Go, Nothing, Kinds, Owners

LEMMA CreateRowTyped == ASSUME Typed, CreateRow PROVE Typed'
BY RowIsOwner DEF Typed, TypeOK, MakesOwnKind, Actors, Provisioning, TearingDown, Requesting,
   netbird, CreateRow, Holds, Turn, Go, Raise, Kinds

LEMMA MakeTyped == ASSUME Typed, Make PROVE Typed'
<1>1. at["job"] = "make" /\ UNCHANGED <<sandbox, rows, named, peers, on, left, mem, late, overrun>>
  BY DEF Make, db
<1>2. PICK o \in ToMake \ made :
        \/ /\ cloud' = cloud \union {o} /\ made' = made \union {o}
           /\ UNCHANGED <<at, kind, blame>>
        \/ /\ made' = {} /\ Raise(mem["job"][o.of])
           /\ blame' = blame \union {"refuse"}
           /\ UNCHANGED cloud
  BY DEF Make
<1>3. o \in Objects
  BY ToMakeTyped DEF Typed
<1>4. CASE cloud' = cloud \union {o} /\ made' = made \union {o} /\ UNCHANGED <<at, kind, blame>>
  BY <1>1, <1>3, <1>4 DEF Typed, TypeOK, MakesOwnKind
<1>5. CASE /\ made' = {} /\ Raise(mem["job"][o.of])
           /\ blame' = blame \union {"refuse"}
           /\ UNCHANGED cloud
  BY <1>1, <1>5 DEF Typed, TypeOK, MakesOwnKind, Raise, Turn, Go, Actors, Kinds, FaultKinds,
     Provisioning, TearingDown, Requesting
<1> QED BY <1>2, <1>4, <1>5

LEMMA SaveTyped == ASSUME Typed, Save PROVE Typed'
BY RowIsOwner DEF Typed, TypeOK, MakesOwnKind, Actors, Provisioning, TearingDown, Requesting,
   netbird, Save, Saved, Holds, Proceed, Turn, Go, Raise, Kinds

LEMMA RereadTyped == ASSUME Typed, Reread PROVE Typed'
BY RowIsOwner DEF Typed, TypeOK, MakesOwnKind, Actors, Provisioning, TearingDown, Requesting,
   db, netbird, Reread, Holds, Go

LEMMA NextEntrypointTyped == ASSUME Typed, NextEntrypoint PROVE Typed'
BY DEF Typed, TypeOK, MakesOwnKind, Actors, Provisioning, TearingDown, Requesting, db, netbird,
   NextEntrypoint, Go, Owners

LEMMA EndGuardTyped == ASSUME Typed, EndGuard PROVE Typed'
BY DEF Typed, TypeOK, MakesOwnKind, Actors, Provisioning, TearingDown, Requesting, db, netbird,
   EndGuard, Ends, Go, Nothing, Kinds, Owners

LEMMA WorkerDiesTyped == ASSUME Typed, WorkerDies PROVE Typed'
BY DEF Typed, TypeOK, MakesOwnKind, Actors, Provisioning, TearingDown, Requesting, db, netbird,
   WorkerDies, Ends, Nothing, Kinds, Owners, FaultKinds

LEMMA DestroyNetbirdTyped == ASSUME Typed, DestroyNetbird PROVE Typed'
<1>1. \/ Go("web", "access") /\ blame' \in {blame, blame \union {"race"}}
      \/ Go("web", "delete") /\ blame' = blame \union {"refuse"}
  BY DEF DestroyNetbird
<1>2. blame' \subseteq FaultKinds \union {"race"}
  BY <1>1 DEF Typed, TypeOK, FaultKinds
<1> QED BY <1>1, <1>2 DEF Typed, TypeOK, MakesOwnKind, Actors, Provisioning, TearingDown,
        Requesting, db, netbird, DestroyNetbird, Go

LEMMA ReadAccessTyped == ASSUME Typed, ReadAccess PROVE Typed'
BY DEF Typed, TypeOK, MakesOwnKind, Actors, Provisioning, TearingDown, Requesting, db, netbird,
   ReadAccess, Go, Holds, Owners

LEMMA ReadHostsTyped == ASSUME Typed, ReadHosts PROVE Typed'
BY DEF Typed, TypeOK, MakesOwnKind, Actors, Provisioning, TearingDown, Requesting, db, netbird,
   ReadHosts, Go, Owners

LEMMA ExpireTyped == ASSUME Typed, Expire PROVE Typed'
BY DEF Typed, TypeOK, MakesOwnKind, Actors, Provisioning, TearingDown, Requesting, db, netbird,
   actors, Expire, FaultKinds

LEMMA DeleteSandboxTyped == ASSUME Typed, DeleteSandbox PROVE Typed'
BY DEF Typed, TypeOK, MakesOwnKind, Actors, Provisioning, TearingDown, Requesting, netbird,
   DeleteSandbox, Go, Nothing

LEMMA PickTyped == ASSUME Typed, NEW a \in Actors, Pick(a) PROVE Typed'
BY DEF Typed, TypeOK, MakesOwnKind, Actors, Provisioning, TearingDown, Requesting, db, netbird,
   Pick, EntrypointsFirst, Turn, Ends, Nothing, Kinds, Owners

LEMMA CheckDeadlineTyped == ASSUME Typed, NEW a \in Actors, CheckDeadline(a) PROVE Typed'
BY DEF Typed, TypeOK, MakesOwnKind, Actors, Provisioning, TearingDown, Requesting, db, netbird,
   CheckDeadline, Ends, Go, Nothing, Kinds, Owners

LEMMA AfterCallTyped ==
  ASSUME TypeOK, NEW a \in Actors, at[a] \in TearingDown,
         NEW k \in Kinds \union {"peer"}, NEW ids, AfterCall(a, k, ids)
  PROVE  /\ at' \in [Actors -> Provisioning \union TearingDown \union Requesting \union {"idle"}]
         /\ at'["web"] \notin Provisioning /\ at'["job"] \notin Requesting
         /\ kind' \in [Actors -> Kinds \union {"peer"}]
         /\ at'[a] \in TearingDown /\ \A c \in Actors \ {a} : at'[c] = at[c] /\ kind'[c] = kind[c]
<1>1. \/ \E k2 \in Kinds : Turn(a, "check", k2) \/ Turn(a, "list", k2)
      \/ Go(a, "forget")
  BY DEF AfterCall, KeyIsNext, GroupIsNext, Kinds
<1>2. ASSUME NEW k2 \in Kinds, NEW where \in {"check", "list"}, Turn(a, where, k2)
      PROVE  /\ at' = [at EXCEPT ![a] = where]
             /\ kind' \in [Actors -> Kinds \union {"peer"}]
             /\ \A c \in Actors \ {a} : kind'[c] = kind[c]
  BY <1>2 DEF Turn, TypeOK
<1>3. \E where \in {"check", "list", "forget"} : at' = [at EXCEPT ![a] = where]
  BY <1>1, <1>2 DEF Go
<1>4. /\ kind' \in [Actors -> Kinds \union {"peer"}]
      /\ \A c \in Actors \ {a} : kind'[c] = kind[c]
  BY <1>1, <1>2 DEF Go, TypeOK
<1>5. /\ at' \in [Actors -> Provisioning \union TearingDown \union Requesting \union {"idle"}]
      /\ at'["web"] \notin Provisioning /\ at'["job"] \notin Requesting
      /\ at'[a] \in TearingDown /\ \A c \in Actors \ {a} : at'[c] = at[c]
  BY <1>3 DEF TypeOK, Actors, Provisioning, TearingDown, Requesting
<1> QED BY <1>4, <1>5

LEMMA UnmakeTyped == ASSUME Typed, NEW a \in Actors, Unmake(a) PROVE Typed'
<1>1. /\ at[a] \in TearingDown /\ on[a] \in Owners /\ kind[a] \in Kinds \union {"peer"}
      /\ UNCHANGED <<sandbox, rows, named, peers, on, left, made, late>>
  BY DEF Unmake, TearingDown, Typed, TypeOK, db
<1>2. \E ids : AfterCall(a, kind[a], ids)
  BY DEF Unmake
<1>3. /\ mem' \in [Actors -> [Owners -> SUBSET Objects]] /\ overrun' \in Nat
      /\ cloud' \subseteq Objects /\ blame' \subseteq FaultKinds \union {"race"}
  <2>1. \/ (\E o : Holds(a, on[a], mem[a][on[a]] \ {o})) /\ Overruns(a)
        \/ mem' = mem /\ overrun' = overrun
    BY DEF Unmake
  <2>2. mem' \in [Actors -> [Owners -> SUBSET Objects]]
    <3>1. mem \in [Actors -> [Owners -> SUBSET Objects]]
      BY DEF Typed, TypeOK
    <3>2. ASSUME NEW o, Holds(a, on[a], mem[a][on[a]] \ {o})
          PROVE  mem' \in [Actors -> [Owners -> SUBSET Objects]]
      <4>1. mem[a] \in [Owners -> SUBSET Objects] /\ mem[a][on[a]] \ {o} \in SUBSET Objects
        BY <1>1, <3>1
      <4>2. [mem[a] EXCEPT ![on[a]] = mem[a][on[a]] \ {o}] \in [Owners -> SUBSET Objects]
        BY <4>1
      <4> QED BY <3>1, <3>2, <4>2 DEF Holds
    <3> QED BY <2>1, <3>1, <3>2
  <2>3. overrun' \in Nat
    BY <2>1 DEF Overruns, Typed, TypeOK
  <2>4. cloud' \subseteq Objects
    BY DEF Unmake, Typed, TypeOK
  <2>5. blame' \subseteq FaultKinds \union {"race"}
    BY DEF Unmake, Typed, TypeOK, FaultKinds
  <2> QED BY <2>2, <2>3, <2>4, <2>5
<1>4. MakesOwnKind'
  BY <1>1, <1>2, AfterCallTyped DEF Typed, MakesOwnKind, TearingDown, Actors
<1> QED BY <1>1, <1>2, <1>3, <1>4, AfterCallTyped DEF Typed, TypeOK

LEMMA ListPeersTyped == ASSUME Typed, NEW a \in Actors, ListPeers(a) PROVE Typed'
<1>1. at[a] = "list" /\ UNCHANGED <<sandbox, rows, named, cloud, peers, on, left, mem, made, late>>
  BY DEF ListPeers, db, netbird
<1>2. /\ \E k \in {"peer", "group"} : Turn(a, "check", k)
      /\ blame' \subseteq FaultKinds \union {"race"}
  BY DEF ListPeers, Typed, TypeOK, FaultKinds
<1>3. overrun' \in Nat
  BY DEF ListPeers, Overruns, Typed, TypeOK
<1> QED BY <1>1, <1>2, <1>3 DEF Typed, TypeOK, MakesOwnKind, Turn, Actors, Kinds,
        Provisioning, TearingDown, Requesting

LEMMA DeletePeerTyped == ASSUME Typed, NEW a \in Actors, DeletePeer(a) PROVE Typed'
BY DEF Typed, TypeOK, MakesOwnKind, Actors, Provisioning, TearingDown, Requesting, db,
   DeletePeer, OfKind, Overruns, AfterCall, GroupIsNext, Turn, Kinds, FaultKinds

LEMMA ForgetTyped == ASSUME Typed, NEW a \in Actors, Forget(a) PROVE Typed'
BY RowIsOwner DEF Typed, TypeOK, MakesOwnKind, Actors, Provisioning, TearingDown, Requesting,
   netbird, Forget, Go

LEMMA RegisterTyped == ASSUME Typed, NEW b \in Owners, Register(b) PROVE Typed'
BY DEF Typed, TypeOK, MakesOwnKind, Actors, Provisioning, TearingDown, Requesting, db, actors,
   Register

LEMMA StutterTyped == ASSUME Typed, UNCHANGED vars PROVE Typed'
BY DEF Typed, TypeOK, MakesOwnKind, vars, db, netbird, actors

LEMMA NextTyped == ASSUME Typed, [Next]_vars PROVE Typed'
<1>1. ASSUME NEW a \in Actors, Teardown(a) PROVE Typed'
  BY <1>1, PickTyped, CheckDeadlineTyped, UnmakeTyped, ListPeersTyped, DeletePeerTyped, ForgetTyped
  DEF Teardown
<1>2. ASSUME Job PROVE Typed'
  BY <1>1, <1>2, StartGuardTyped, CreateRowTyped, MakeTyped, SaveTyped, RereadTyped,
     NextEntrypointTyped, EndGuardTyped DEF Job, Actors
<1>3. ASSUME Web PROVE Typed'
  BY <1>1, <1>3, ReadAccessTyped, ReadHostsTyped, DeleteSandboxTyped DEF Web, Actors
<1> QED BY <1>2, <1>3, SkipProvisionTyped, WorkerDiesTyped, DestroyNetbirdTyped, ExpireTyped,
        RegisterTyped, StutterTyped DEF Next

\* Every variable keeps its type, and rows of ids do not outlive their sandbox, whatever
\* entrypoints there are and whatever fails.
THEOREM AccessTyped == Spec => []TypeOK
<1>1. Init => Typed
  BY InitTyped
<1>2. Typed /\ [Next]_vars => Typed'
  BY NextTyped
<1>3. Typed => TypeOK
  BY DEF Typed
<1> QED BY <1>1, <1>2, <1>3, PTL DEF Spec

-----------------------------------------------------------------------------
\* How many calls a teardown may still make before it looks at the deadline again.
Unchecked ==
  CASE at["web"] = "unmake" /\ kind["web"] = "key" -> 2
    [] at["web"] = "unmake" /\ kind["web"] # "key" -> 1
    [] at["web"] = "list" -> 1
    [] OTHER -> 0

BoundedCalls == (~late => overrun = 0) /\ overrun + Unchecked <= 2

LEMMA UncheckedSmall == Unchecked \in 0..2
BY DEF Unchecked

\* The steps of everybody else, and those of the teardown that do not lead to a call.
LEMMA BoundedOthers ==
  ASSUME Typed, BoundedCalls, late' = late, overrun' = overrun, at'["web"] = at["web"],
         kind'["web"] = kind["web"]
  PROVE  BoundedCalls'
BY DEF BoundedCalls, Unchecked

LEMMA BoundedNotCalling ==
  ASSUME Typed, BoundedCalls, overrun' = overrun, late => late',
         at'["web"] \notin {"unmake", "list"}
  PROVE  BoundedCalls'
BY UncheckedSmall DEF BoundedCalls, Unchecked, Typed, TypeOK

LEMMA BoundedStep == ASSUME Typed, BoundedCalls, [Next]_vars PROVE BoundedCalls'
<1> USE DEF Typed, TypeOK, Actors
<1>1. ASSUME Teardown("web") PROVE BoundedCalls'
  <2>1. CASE Pick("web")
    BY <2>1, BoundedNotCalling DEF Pick, Turn, Ends
  <2>2. CASE CheckDeadline("web")
    BY <2>2, UncheckedSmall DEF CheckDeadline, Ends, Go, BoundedCalls, Unchecked
  <2>3. CASE Unmake("web")
    <3>1. /\ at["web"] = "unmake" /\ kind["web"] # "peer" /\ late' = late
          /\ \E ids : AfterCall("web", kind["web"], ids)
          /\ Overruns("web") \/ overrun' = overrun
      BY <2>3 DEF Unmake
    <3>2. IF kind["web"] = "key" THEN Unchecked = 2 /\ Unchecked' \in {0, 1}
                                 ELSE Unchecked = 1 /\ Unchecked' = 0
      BY <3>1 DEF Unchecked, AfterCall, KeyIsNext, GroupIsNext, Turn, Go, Kinds
    <3> QED BY <3>1, <3>2 DEF BoundedCalls, Overruns
  <2>4. CASE ListPeers("web")
    <3>1. at["web"] = "list" /\ late' = late /\ Overruns("web") /\ at'["web"] = "check"
      BY <2>4 DEF ListPeers, Turn
    <3> QED BY <3>1 DEF BoundedCalls, Unchecked, Overruns
  <2>5. CASE DeletePeer("web")
    <3>1. /\ at["web"] = "unmake" /\ kind["web"] = "peer" /\ late' = late
          /\ Overruns("web") /\ at'["web"] = "check"
      BY <2>5 DEF DeletePeer, AfterCall, GroupIsNext, Turn
    <3> QED BY <3>1 DEF BoundedCalls, Unchecked, Overruns
  <2>6. CASE Forget("web")
    BY <2>6, BoundedNotCalling DEF Forget, Go
  <2> QED BY <1>1, <2>1, <2>2, <2>3, <2>4, <2>5, <2>6 DEF Teardown
<1>2. ASSUME Teardown("job") PROVE BoundedCalls'
  <2>1. late' = late /\ overrun' = overrun
    BY <1>2 DEF Teardown, Pick, CheckDeadline, Unmake, ListPeers, DeletePeer, Forget, Overruns
  <2>2. at'["web"] = at["web"] /\ kind'["web"] = kind["web"]
    <3>1. CASE Unmake("job")
      <4>1. at["job"] \in TearingDown /\ \E ids : AfterCall("job", kind["job"], ids)
        BY <3>1 DEF Unmake, TearingDown
      <4> QED BY <4>1, AfterCallTyped
    <3>2. CASE DeletePeer("job")
      BY <3>2 DEF DeletePeer, AfterCall, GroupIsNext, Turn
    <3>3. CASE Pick("job") \/ CheckDeadline("job") \/ ListPeers("job") \/ Forget("job")
      BY <3>3 DEF Pick, CheckDeadline, ListPeers, Forget, Turn, Go, Ends
    <3> QED BY <1>2, <3>1, <3>2, <3>3 DEF Teardown
  <2> QED BY <2>1, <2>2, BoundedOthers
<1>3. ASSUME Job PROVE BoundedCalls'
  <2>1. CASE StartGuard \/ CreateRow \/ Make \/ Save \/ Reread \/ NextEntrypoint \/ EndGuard
    <3>1. late' = late /\ overrun' = overrun
      BY <2>1 DEF StartGuard, CreateRow, Make, Save, Reread, NextEntrypoint, EndGuard
    <3>2. at'["web"] = at["web"] /\ kind'["web"] = kind["web"]
      BY <2>1 DEF StartGuard, CreateRow, Make, Save, Reread, NextEntrypoint, EndGuard, Raise,
         Proceed, Turn, Go, Ends
    <3> QED BY <3>1, <3>2, BoundedOthers
  <2> QED BY <1>2, <1>3, <2>1 DEF Job
<1>4. ASSUME Web PROVE BoundedCalls'
  <2>1. CASE ReadAccess \/ ReadHosts \/ DeleteSandbox
    BY <2>1, BoundedNotCalling DEF ReadAccess, ReadHosts, DeleteSandbox, Go
  <2> QED BY <1>1, <1>4, <2>1 DEF Web
<1>5. CASE SkipProvision \/ WorkerDies
  BY <1>5, BoundedOthers DEF SkipProvision, WorkerDies, Ends
<1>6. CASE DestroyNetbird
  BY <1>6, BoundedNotCalling DEF DestroyNetbird, Go
<1>7. CASE Expire
  BY <1>7, UncheckedSmall DEF Expire, BoundedCalls, Unchecked, actors
<1>8. CASE \E b \in Owners : Register(b)
  BY <1>8, BoundedOthers DEF Register, actors
<1>9. CASE UNCHANGED vars
  BY <1>9, BoundedOthers DEF vars, actors
<1> QED BY <1>3, <1>4, <1>5, <1>6, <1>7, <1>8, <1>9 DEF Next

\* However many entrypoints, routes and peers there are to remove, a teardown whose time
\* is up makes two calls to NetBird at most before it gives up.
THEOREM TeardownKeepsDeadline == Spec => []OverrunBounded
<1>1. Init => Typed /\ BoundedCalls
  BY InitTyped DEF Init, BoundedCalls, Unchecked, Actors
<1>2. Typed /\ BoundedCalls /\ [Next]_vars => (Typed /\ BoundedCalls)'
  BY NextTyped, BoundedStep
<1>3. Typed /\ BoundedCalls => OverrunBounded
  BY UncheckedSmall DEF Typed, TypeOK, BoundedCalls, OverrunBounded
<1> QED BY <1>1, <1>2, <1>3, PTL DEF Spec

-----------------------------------------------------------------------------
\* What is saved, held or being made for an owner are objects of its own.
OwnIds ==
  /\ \A b \in Owners : named[b] \subseteq ObjectsOf(b)
  /\ \A a \in Actors, b \in Owners : mem[a][b] \subseteq ObjectsOf(b)
  /\ IF at["job"] = "make" THEN made \subseteq ToMake ELSE made = {}
  /\ at["job"] \in TearingDown => ~sandbox

\* Steps that save, hold and make nothing new.
LEMMA OwnIdsKept ==
  ASSUME Typed, OwnIds, at["job"] # "make", made' = made, sandbox' => sandbox,
         at'["job"] \in TearingDown => ~sandbox',
         \A b \in Owners : named'[b] \subseteq ObjectsOf(b),
         \A a \in Actors, b \in Owners : mem'[a][b] \subseteq ObjectsOf(b)
  PROVE  OwnIds'
BY DEF OwnIds, ToMake, OfKind

LEMMA OwnIdsOfOthers ==
  ASSUME Typed, OwnIds, made' = made, sandbox' => sandbox,
         at'["job"] = at["job"], kind'["job"] = kind["job"], on'["job"] = on["job"],
         \A b \in Owners : named'[b] \subseteq ObjectsOf(b),
         \A a \in Actors, b \in Owners : mem'[a][b] \subseteq ObjectsOf(b)
  PROVE  OwnIds'
BY DEF OwnIds, ToMake, OfKind

\* A teardown only strikes ids.
LEMMA TeardownOwnIds ==
  ASSUME Typed, OwnIds, NEW a \in Actors, Teardown(a) PROVE OwnIds'
<1> USE DEF Typed, TypeOK
<1>1. /\ at[a] \in TearingDown /\ sandbox' = sandbox /\ made' = made
      /\ \A c \in Actors \ {a} : at'[c] = at[c] /\ kind'[c] = kind[c] /\ on'[c] = on[c]
  <2>1. CASE Unmake(a)
    <3>1. /\ at[a] \in TearingDown /\ kind[a] \in Kinds \union {"peer"}
          /\ \E ids : AfterCall(a, kind[a], ids)
      BY <2>1 DEF Unmake, TearingDown
    <3> QED BY <2>1, <3>1, AfterCallTyped DEF Unmake, db
  <2>2. CASE Pick(a) \/ CheckDeadline(a) \/ ListPeers(a) \/ DeletePeer(a) \/ Forget(a)
    BY <2>2 DEF Pick, CheckDeadline, ListPeers, DeletePeer, Forget, AfterCall, GroupIsNext,
       Turn, Go, Ends, db, TearingDown
  <2> QED BY <1>1, <2>1, <2>2 DEF Teardown
<1>2. \A b \in Owners : named'[b] \subseteq ObjectsOf(b)
  BY DEF Teardown, Pick, CheckDeadline, Unmake, ListPeers, DeletePeer, Forget, db, OwnIds
<1>3. \A c \in Actors, b \in Owners : mem'[c][b] \subseteq ObjectsOf(b)
  <2>1. CASE Unmake(a)
    <3>1. (\E o : Holds(a, on[a], mem[a][on[a]] \ {o})) \/ mem' = mem
      BY <2>1 DEF Unmake
    <3>2. ASSUME NEW o, Holds(a, on[a], mem[a][on[a]] \ {o}), NEW c \in Actors, NEW b \in Owners
          PROVE  mem'[c][b] \subseteq mem[c][b]
      BY <3>2 DEF Holds
    <3> QED BY <3>1, <3>2 DEF OwnIds
  <2>2. CASE Pick(a) \/ CheckDeadline(a) \/ ListPeers(a) \/ DeletePeer(a) \/ Forget(a)
    BY <2>2 DEF Pick, CheckDeadline, ListPeers, DeletePeer, Forget, Ends, Nothing, OwnIds
  <2> QED BY <1>1, <2>1, <2>2 DEF Teardown
<1>4. CASE a = "job"
  <2>1. at'["job"] \in TearingDown => ~sandbox'
    BY <1>1, <1>4 DEF OwnIds
  <2> QED BY <1>1, <1>2, <1>3, <1>4, <2>1, OwnIdsKept DEF TearingDown
<1>5. CASE a = "web"
  <2>1. at'["job"] = at["job"] /\ kind'["job"] = kind["job"] /\ on'["job"] = on["job"]
    BY <1>1, <1>5 DEF Actors
  <2> QED BY <1>1, <1>2, <1>3, <2>1, OwnIdsOfOthers
<1> QED BY <1>4, <1>5 DEF Actors

LEMMA OwnIdsStep == ASSUME NamesDiffer, Typed, OwnIds, [Next]_vars PROVE OwnIds'
<1> USE DEF Typed, TypeOK
<1>1. ASSUME Job PROVE OwnIds'
  <2>1. CASE StartGuard
    BY <2>1, OwnIdsKept DEF StartGuard, Go, Ends, Nothing, OwnIds, db, Actors, TearingDown
  <2>2. CASE CreateRow
    BY <2>2, OwnIdsKept, RowOfItsOwn DEF CreateRow, Holds, Raise, Turn, Go, OwnIds, Actors,
       TearingDown
  <2>3. CASE Make
    <3>1. at["job"] = "make" /\ UNCHANGED <<sandbox, named, on, mem>>
      BY <2>3 DEF Make, db
    <3>2. PICK o \in ToMake \ made :
            \/ made' = made \union {o} /\ UNCHANGED <<at, kind>>
            \/ made' = {} /\ Raise(mem["job"][o.of])
      BY <2>3 DEF Make
    <3>3. CASE made' = made \union {o} /\ UNCHANGED <<at, kind>>
      BY <3>1, <3>3 DEF OwnIds, ToMake, OfKind, TearingDown
    <3>4. CASE made' = {} /\ Raise(mem["job"][o.of])
      BY <3>1, <3>4 DEF OwnIds, Raise, Turn, Go, TearingDown, Actors
    <3> QED BY <3>2, <3>3, <3>4
  <2>4. CASE Save
    <3> DEFINE b == on["job"]
               ids == (mem["job"][b] \ OfKind(mem["job"][b], kind["job"])) \union made
    <3>1. /\ b \in Owners /\ at["job"] = "make" /\ made' = {} /\ sandbox' = sandbox
          /\ Holds("job", b, ids)
          /\ named' = [named EXCEPT ![b] = ids] \/ named' = named
          /\ Proceed \/ Raise(ids)
      BY <2>4, RowOfItsOwn DEF Save, Saved, Actors
    <3>2. ids \subseteq ObjectsOf(b)
      BY <3>1 DEF OwnIds, ToMake, OfKind, Actors
    <3> HIDE DEF ids
    <3>3. at'["job"] \notin TearingDown
      BY <3>1 DEF Proceed, Raise, Turn, Go, TearingDown, Actors
    <3>4. \A c \in Owners : named'[c] \subseteq ObjectsOf(c)
      BY <3>1, <3>2 DEF OwnIds
    <3>5. \A a \in Actors, c \in Owners : mem'[a][c] \subseteq ObjectsOf(c)
      BY <3>1, <3>2 DEF OwnIds, Holds
    <3> QED BY <3>1, <3>3, <3>4, <3>5 DEF OwnIds
  <2>5. CASE Reread
    BY <2>5, OwnIdsKept, RowOfItsOwn DEF Reread, Holds, Go, OwnIds, db, Actors, TearingDown
  <2>6. CASE NextEntrypoint
    BY <2>6, OwnIdsKept DEF NextEntrypoint, Go, OwnIds, db, Actors, TearingDown
  <2>7. CASE EndGuard
    BY <2>7, OwnIdsKept DEF EndGuard, Go, Ends, Nothing, OwnIds, db, Actors, TearingDown
  <2> QED BY <1>1, <2>1, <2>2, <2>3, <2>4, <2>5, <2>6, <2>7, TeardownOwnIds DEF Job, Actors
<1>2. ASSUME Web PROVE OwnIds'
  <2>1. CASE ReadAccess
    BY <2>1, OwnIdsOfOthers DEF ReadAccess, Holds, Go, OwnIds, db, Actors, Owners
  <2>2. CASE ReadHosts
    BY <2>2, OwnIdsOfOthers DEF ReadHosts, Go, OwnIds, db, Actors, Owners
  <2>3. CASE DeleteSandbox
    BY <2>3, OwnIdsOfOthers DEF DeleteSandbox, Go, Nothing, OwnIds, Actors
  <2> QED BY <1>2, <2>1, <2>2, <2>3, TeardownOwnIds DEF Web, Actors
<1>3. CASE SkipProvision
  BY <1>3, OwnIdsKept DEF SkipProvision, Ends, Nothing, OwnIds, db, Actors, TearingDown
<1>4. CASE WorkerDies
  BY <1>4 DEF WorkerDies, Ends, Nothing, OwnIds, db, Actors, TearingDown
<1>5. CASE DestroyNetbird
  BY <1>5, OwnIdsOfOthers DEF DestroyNetbird, Go, OwnIds, db, Actors
<1>6. CASE Expire \/ (\E b \in Owners : Register(b)) \/ UNCHANGED vars
  BY <1>6, OwnIdsOfOthers DEF Expire, Register, vars, OwnIds, db, actors, Actors
<1> QED BY <1>1, <1>2, <1>3, <1>4, <1>5, <1>6 DEF Next

LEMMA InitOwnIds == Init => OwnIds
BY DEF Init, OwnIds, Nothing, Actors, TearingDown

-----------------------------------------------------------------------------
\* Nobody tears down, and the worker lives.
Undisturbed == sandbox /\ at["web"] = "idle" /\ "crash" \notin blame

\* The entrypoints come after the access, one after the other, each with its policy last.
InTurn ==
  /\ at["job"] = "guard" => on["job"] = Access
  /\ at["job"] \in Provisioning => Access \notin left["job"]
  /\ at["job"] \in {"row", "make"} => on["job"] \notin left["job"]
  /\ \A e \in Entrypoints : Policy(e) \in cloud =>
       /\ e \notin left["job"]
       /\ on["job"] = e => at["job"] # "row" /\ (at["job"] = "make" => kind["job"] = "policy")

\* The object the job works on is as it has been saved.
InStep ==
  at["job"] = "make" =>
    /\ mem["job"][on["job"]] = named[on["job"]]
    /\ kind["job"] = "policy" => RoutesOf(on["job"]) \subseteq named[on["job"]]

Stray(o) == o.kind = "route" /\ Policy(o.of) \notin cloud

NamedOrMade ==
  \A o \in cloud : o \in named[o.of] \/ o \in made \/ (blame # {} /\ Stray(o))

Tracked == Undisturbed => InTurn /\ InStep /\ NamedOrMade

\* What has been disturbed stays so; until then, only the job changes anything.
LEMMA UndisturbedBefore ==
  ASSUME Typed, OwnIds, [Next]_vars, Undisturbed'
  PROVE  /\ Undisturbed
         /\ \/ StartGuard \/ CreateRow \/ Make \/ Save \/ Reread \/ NextEntrypoint
            \/ EndGuard \/ SkipProvision
            \/ UNCHANGED <<db, cloud, actors, mem, made, blame>>
<1> USE DEF Typed, TypeOK, Actors, Undisturbed
<1>1. ~ (Web \/ Expire \/ DestroyNetbird \/ WorkerDies \/ Teardown("job"))
  <2>1. ~ (ReadAccess \/ ReadHosts \/ DeleteSandbox \/ DestroyNetbird)
    BY DEF ReadAccess, ReadHosts, DeleteSandbox, DestroyNetbird, Go
  <2>2. ~ WorkerDies
    BY DEF WorkerDies
  <2>3. ~ Unmake("web")
    <3>1. ASSUME Unmake("web") PROVE at'["web"] # "idle"
      <4>1. at["web"] \in TearingDown /\ \E ids : AfterCall("web", kind["web"], ids)
        BY <3>1 DEF Unmake, TearingDown
      <4> QED BY <4>1, AfterCallTyped DEF TearingDown
    <3> QED BY <3>1
  <2>4. ~ Teardown("web")
    BY <2>3 DEF Teardown, Pick, CheckDeadline, AfterCall, GroupIsNext, ListPeers, DeletePeer,
       Forget, Turn, Go, Ends
  <2>5. ~ Teardown("job")
    BY DEF Teardown, Pick, CheckDeadline, Unmake, ListPeers, DeletePeer, Forget, TearingDown,
       db, OwnIds
  <2>6. ~ Expire
    BY DEF Expire, TearingDown, actors
  <2> QED BY <2>1, <2>2, <2>4, <2>5, <2>6 DEF Web
<1>2. \/ StartGuard \/ CreateRow \/ Make \/ Save \/ Reread \/ NextEntrypoint
      \/ EndGuard \/ SkipProvision
      \/ UNCHANGED <<db, cloud, actors, mem, made, blame>>
  BY <1>1 DEF Next, Job, Register, vars, netbird
<1>3. Undisturbed
  BY <1>2 DEF StartGuard, CreateRow, Make, Save, Reread, NextEntrypoint, EndGuard, SkipProvision,
     Raise, Proceed, Turn, Go, Ends, db, actors
<1> QED BY <1>2, <1>3

\* Steps that create and save nothing.
LEMMA TrackedKept ==
  ASSUME Typed, OwnIds, Tracked, Undisturbed, cloud' = cloud, named' = named,
         at["job"] # "make", made' = made, blame' = blame,
         at'["job"] \notin {"make", "row", "guard"}, left'["job"] \subseteq left["job"],
         at'["job"] \in Provisioning => at["job"] \in Provisioning
  PROVE  Tracked'
BY ConstantsAssumption DEF Tracked, InTurn, InStep, NamedOrMade, Stray, OwnIds

LEMMA TrackedStep ==
  ASSUME NamesDiffer, Typed, OwnIds, Tracked, [Next]_vars PROVE Tracked'
<1> USE DEF Typed, TypeOK, Actors
<1> SUFFICES ASSUME Undisturbed' PROVE (InTurn /\ InStep /\ NamedOrMade)'
  BY DEF Tracked
<1>1. Undisturbed /\ InTurn /\ InStep /\ NamedOrMade
  BY UndisturbedBefore DEF Tracked
<1>2. CASE StartGuard
  <2>1. /\ at["job"] = "guard" /\ at'["job"] = "row"
        /\ UNCHANGED <<named, cloud, on, left, mem, made, blame>>
    BY <1>1, <1>2 DEF StartGuard, Go, db, netbird, Undisturbed
  <2> QED BY <1>1, <2>1, ConstantsAssumption DEF InTurn, InStep, NamedOrMade, Stray, Provisioning
<1>3. CASE SkipProvision
  BY <1>1, <1>3, TrackedKept DEF SkipProvision, Ends, Provisioning, db, netbird, Undisturbed,
     Tracked
<1>4. CASE CreateRow
  <2>1. /\ sandbox /\ at["job"] = "row" /\ at'["job"] = "make" /\ kind'["job"] = "group"
        /\ mem'["job"][on["job"]] = named[on["job"]]
        /\ UNCHANGED <<named, cloud, on, left, made, blame>>
    BY <1>1, <1>4, RowOfItsOwn DEF CreateRow, Undisturbed, Holds, Turn, netbird
  <2> QED BY <1>1, <2>1 DEF InTurn, InStep, NamedOrMade, Stray, Provisioning
<1>5. CASE Reread
  BY <1>1, <1>5, TrackedKept DEF Reread, Go, Provisioning, db, netbird, Tracked
<1>6. CASE NextEntrypoint
  BY <1>1, <1>6 DEF NextEntrypoint, Go, db, netbird, Provisioning, InTurn, InStep, NamedOrMade,
     Stray
<1>7. CASE EndGuard
  BY <1>1, <1>7, TrackedKept DEF EndGuard, Ends, Provisioning, db, netbird, Undisturbed, Tracked
<1>8. CASE UNCHANGED <<db, cloud, actors, mem, made, blame>>
  BY <1>1, <1>8 DEF db, actors, InTurn, InStep, NamedOrMade, Stray
<1>9. CASE Make
  <2> DEFINE b == on["job"]
  <2>1. /\ at["job"] = "make" /\ b \in Owners /\ UNCHANGED <<sandbox, named, on, left, mem>>
        /\ made \subseteq ToMake /\ ToMake \subseteq ObjectsOf(b)
    BY <1>9 DEF Make, db, OwnIds, ToMake, OfKind
  <2>2. PICK o \in ToMake \ made :
          \/ /\ cloud' = cloud \union {o} /\ made' = made \union {o}
             /\ UNCHANGED <<at, kind, blame>>
          \/ /\ made' = {} /\ Raise(mem["job"][o.of])
             /\ blame' = blame \union {"refuse"}
             /\ UNCHANGED cloud
    BY <1>9 DEF Make
  <2>3. o.of = b /\ o.kind = kind["job"] /\ o \in ObjectsOf(b)
    BY <2>1, ToMakeTyped DEF ToMake, OfKind
  <2>4. \A e \in Entrypoints : o = Policy(e) => e = b /\ kind["job"] = "policy"
    BY <2>3 DEF Policy, Obj
  <2>5. CASE cloud' = cloud \union {o} /\ made' = made \union {o} /\ UNCHANGED <<at, kind, blame>>
    <3>1. InTurn'
      BY <1>1, <2>1, <2>4, <2>5 DEF InTurn
    <3>2. InStep'
      BY <1>1, <2>1, <2>5 DEF InStep
    <3>3. ASSUME NEW x \in cloud, x \in named[x.of] \/ x \in made
          PROVE  x \in named'[x.of] \/ x \in made'
      BY <2>1, <2>5, <3>3
    <3>4. ASSUME NEW x \in cloud, x \notin named[x.of], x \notin made
          PROVE  x \in named'[x.of] \/ (blame' # {} /\ Stray(x)')
      <4>1. blame # {} /\ x.kind = "route" /\ Policy(x.of) \notin cloud /\ x.of \in Owners
        BY <1>1, <3>4, ObjectHasOwner DEF NamedOrMade, Stray
      <4>2. CASE o # Policy(x.of)
        BY <2>5, <4>1, <4>2 DEF Stray
      <4>3. CASE o = Policy(x.of)
        <5>1. x.of = b /\ kind["job"] = "policy" /\ x \in ObjectsOf(b)
          BY <2>3, <4>3, <4>1, ObjectHasOwner DEF Policy, Obj
        <5>2. x \in RoutesOf(b)
          BY <5>1, <4>1 DEF ObjectsOf, Group, Key, Nameservers, Policy, Obj
        <5> QED BY <1>1, <2>1, <3>4, <5>1, <5>2 DEF InStep
      <4> QED BY <4>2, <4>3
    <3> QED BY <2>5, <3>1, <3>2, <3>3, <3>4 DEF NamedOrMade
  <2>6. CASE /\ made' = {} /\ Raise(mem["job"][o.of])
             /\ blame' = blame \union {"refuse"}
             /\ UNCHANGED cloud
    <3>1. at'["job"] # "row" /\ (at'["job"] = "make" => b = Access /\ kind'["job"] = "dns")
      BY <2>1, <2>6 DEF Raise, Turn, Go
    <3>2. InTurn'
      BY <1>1, <2>1, <2>6, <3>1, ConstantsAssumption DEF InTurn, Raise, Turn, Go, Provisioning
    <3>3. InStep'
      BY <1>1, <2>1, <2>6, <3>1 DEF InStep
    <3>4. ASSUME NEW x \in made, x \in cloud PROVE Stray(x)
      <4>1. x # o /\ {x, o} \subseteq ToMake
        BY <2>1, <2>2
      <4>2. x.of = b /\ x.kind = kind["job"] /\ kind["job"] = "route" /\ b # Access
        BY <2>1, <2>3, <4>1 DEF ToMake, OfKind, ObjectsOf, Group, Key, Nameservers, Policy,
           RoutesOf, Obj
      <4> QED BY <1>1, <2>1, <4>2 DEF InTurn, Stray, Owners
    <3> QED BY <1>1, <2>1, <2>6, <3>2, <3>3, <3>4 DEF NamedOrMade, Stray
  <2> QED BY <2>2, <2>5, <2>6
<1>10. CASE Save
  <2> DEFINE b == on["job"]
             ids == (mem["job"][b] \ OfKind(mem["job"][b], kind["job"])) \union made
  <2>1. /\ at["job"] = "make" /\ b \in Owners /\ UNCHANGED <<cloud, on, left, blame>>
        /\ ToMake \subseteq made /\ made' = {}
        /\ Holds("job", b, ids)
        /\ named' = [named EXCEPT ![b] = ids]
        /\ Proceed
    BY <1>1, <1>10, RowOfItsOwn DEF Save, Saved, netbird, Undisturbed
  <2>2. mem["job"][b] = named[b] /\ mem["job"][b] \subseteq ObjectsOf(b)
    BY <1>1, <2>1 DEF InStep, OwnIds
  <2>3. OfKind(mem["job"][b], kind["job"]) \subseteq made
    BY <2>1, <2>2 DEF ToMake, OfKind
  <2>4. named[b] \union made = ids
    BY <2>2, <2>3
  <2>5. \A o \in made : o.of = b
    BY <2>1, ToMakeTyped DEF OwnIds
  <2> HIDE DEF ids
  <2>6. NamedOrMade'
    <3>1. \A o \in cloud : o.of \in Owners
      BY ObjectHasOwner
    <3> QED BY <1>1, <2>1, <2>4, <2>5, <3>1 DEF NamedOrMade, Stray
  <2>7. /\ at'["job"] # "row"
        /\ at'["job"] = "make" => kind["job"] # "policy"
        /\ kind'["job"] = "policy" /\ at'["job"] = "make" => kind["job"] = "route"
    BY <2>1 DEF Proceed, Turn, Go, Typed, MakesOwnKind
  <2>8. InTurn'
    BY <1>1, <2>1, <2>7 DEF InTurn, Proceed, Turn, Go, Provisioning
  <2>9. mem'["job"][b] = ids /\ named'[b] = ids
    BY <2>1 DEF Holds
  <2>10. kind["job"] = "route" => RoutesOf(b) \subseteq ids
    <3>1. ASSUME kind["job"] = "route", NEW o \in RoutesOf(b) PROVE o \in ToMake
      <4>1. b # Access
        BY <2>1, <3>1 DEF Typed, MakesOwnKind
      <4> QED BY <3>1, <4>1 DEF ToMake, OfKind, ObjectsOf, RoutesOf
    <3> QED BY <2>1, <2>4, <3>1
  <2>11. InStep'
    BY <2>1, <2>7, <2>9, <2>10 DEF InStep, RoutesOf
  <2> QED BY <2>6, <2>8, <2>11
<1> QED BY <1>2, <1>3, <1>4, <1>5, <1>6, <1>7, <1>8, <1>9, <1>10, UndisturbedBefore

LEMMA InitTracked == Init => Tracked
BY ConstantsAssumption DEF Init, Tracked, InTurn, InStep, NamedOrMade, Actors

\* If no two entries of the vpn block name one node, the ids of all objects that the job
\* has made are saved or about to be, as long as nobody tears down and the worker lives,
\* but for the routes of an entrypoint that has failed before its policy.
THEOREM EverythingIsNamed == ASSUME NamesDiffer PROVE Spec => []EverythingNamed
<1> DEFINE Inv == Typed /\ OwnIds /\ Tracked
<1>1. Init => Inv
  BY InitTyped, InitOwnIds, InitTracked
<1>2. Inv /\ [Next]_vars => Inv'
  BY NextTyped, OwnIdsStep, TrackedStep
<1>3. Inv => EverythingNamed
  <2> SUFFICES ASSUME Inv, Undisturbed, NEW o \in cloud
               PROVE  \/ o \in named[Row(o.of)]
                      \/ o.kind = "route" /\ Policy(o.of) \notin cloud
                      \/ o \in made
    BY DEF EverythingNamed, Undisturbed
  <2>1. Row(o.of) = o.of
    BY ObjectHasOwner, RowOfItsOwn DEF Typed, TypeOK
  <2> QED BY <2>1 DEF Tracked, NamedOrMade, Stray
<1> QED BY <1>1, <1>2, <1>3, PTL DEF Spec

-----------------------------------------------------------------------------
\* The kinds of objects that its turn in the teardown has not come to.
Ahead ==
  CASE at["web"] = "list" \/ kind["web"] \in {"peer", "group"} -> {"group"}
    [] at["web"] # "list" /\ kind["web"] \in {"policy", "dns"} -> Kinds
    [] at["web"] # "list" /\ kind["web"] = "route" -> {"route", "key", "group"}
    [] at["web"] # "list" /\ kind["web"] = "key" -> {"key", "group"}

Working == at["web"] \in {"check", "unmake", "list"}

\* An object that is there is named, and still to come.
InSight(o) ==
  /\ at["web"] = "idle" => sandbox
  /\ at["web"] = "access" => o \in named[o.of]
  /\ at["web"] = "hosts" =>
       IF o.of = Access THEN o \in mem["web"][Access] /\ Access \in left["web"]
                        ELSE o \in named[o.of]
  /\ at["web"] \in TearingDown => o \in mem["web"][o.of]
  /\ at["web"] \in {"pick", "forget"} => o.of \in left["web"]
  /\ Working => o.of \in left["web"] \/ (o.of = on["web"] /\ o.kind \in Ahead)
  /\ at["web"] # "delete"

AllInSight == \A o \in cloud : InSight(o)

\* The access comes last; its name servers take the place of a policy.
AccessLast ==
  Working => /\ on["web"] \notin left["web"]
             /\ on["web"] = Access => left["web"] = {} /\ kind["web"] # "policy"
             /\ on["web"] # Access => kind["web"] # "dns"

\* A peer is known by its group, and does not outlive it.
PeersGoFirst ==
  /\ peers \subseteq cloud
  /\ at["web"] \in {"check", "unmake"} /\ kind["web"] = "group" => Group(on["web"]) \notin peers

OneAtATime == ~late /\ (at["job"] # "idle" => sandbox /\ at["web"] = "idle")

Clean == blame = {} => OneAtATime /\ AccessLast /\ PeersGoFirst /\ AllInSight

LEMMA InitClean == Init => Clean
BY DEF Init, Clean, OneAtATime, AccessLast, PeersGoFirst, AllInSight, InSight, Working, Actors,
   TearingDown

LEMMA BlameStays == ASSUME [Next]_vars, blame' = {} PROVE blame = {}
BY DEF Next, Job, Web, Teardown, vars, StartGuard, CreateRow, Make, Save, Reread, NextEntrypoint,
   EndGuard, SkipProvision, WorkerDies, DestroyNetbird, Expire, ReadAccess, ReadHosts,
   DeleteSandbox,
   Pick, CheckDeadline, Unmake, ListPeers, DeletePeer, Forget, Register

\* While the job is at work, nobody tears down.
LEMMA CleanWithJob ==
  ASSUME Typed, OwnIds, Clean, [Next]_vars, blame' = {}, at["job"] # "idle"
  PROVE  Clean'
<1> USE DEF Typed, TypeOK, Actors
<1>1. blame = {} /\ sandbox /\ at["web"] = "idle" /\ ~late /\ peers \subseteq cloud
  BY BlameStays DEF Clean, OneAtATime, PeersGoFirst
<1>2. ~ (Web \/ Expire \/ DestroyNetbird \/ WorkerDies \/ Teardown("job"))
  <2>1. ~ (ReadAccess \/ ReadHosts \/ DeleteSandbox \/ DestroyNetbird \/ WorkerDies)
    BY <1>1 DEF ReadAccess, ReadHosts, DeleteSandbox, DestroyNetbird, WorkerDies
  <2>2. ~ Teardown("web")
    BY <1>1 DEF Teardown, Pick, CheckDeadline, Unmake, ListPeers, DeletePeer, Forget
  <2>3. ~ Teardown("job")
    BY <1>1 DEF Teardown, Pick, CheckDeadline, Unmake, ListPeers, DeletePeer, Forget, TearingDown,
       OwnIds
  <2>4. ~ Expire
    BY DEF Expire
  <2> QED BY <2>1, <2>2, <2>3, <2>4 DEF Web
<1>3. /\ sandbox' /\ at'["web"] = "idle" /\ ~late' /\ peers' \subseteq cloud'
  <2>1. CASE \E b \in Owners : Register(b)
    BY <1>1, <2>1 DEF Register, db, actors
  <2>2. CASE \/ StartGuard \/ CreateRow \/ Make \/ Save
             \/ Reread \/ NextEntrypoint \/ EndGuard \/ SkipProvision
    <3>1. sandbox' = sandbox /\ late' = late /\ peers' = peers /\ cloud \subseteq cloud'
      BY <2>2 DEF StartGuard, CreateRow, Make, Save, Reread, NextEntrypoint, EndGuard,
         SkipProvision,
         db, netbird
    <3>2. at'["web"] = at["web"]
      BY <2>2 DEF StartGuard, CreateRow, Make, Save, Reread, NextEntrypoint, EndGuard,
         SkipProvision,
         Raise, Proceed, Turn, Go, Ends, actors
    <3> QED BY <1>1, <3>1, <3>2
  <2>3. CASE UNCHANGED vars
    BY <1>1, <2>3 DEF vars, db, netbird, actors
  <2> QED BY <1>2, <2>1, <2>2, <2>3 DEF Next, Job
<1> QED BY <1>3 DEF Clean, OneAtATime, AccessLast, PeersGoFirst, AllInSight, InSight, Working,
        TearingDown

\* Where a teardown goes on.
LEMMA AfterCallGoesOn ==
  ASSUME TypeOK, NEW a \in Actors, NEW k \in Kinds \union {"peer"}, NEW ids, AfterCall(a, k, ids)
  PROVE  /\ \A c \in Actors \ {a} : at'[c] = at[c]
         /\ k \in {"policy", "dns", "route"} =>
              /\ at'[a] = "check"
              /\ kind'[a] = IF OfKind(ids, "route") # {} THEN "route" ELSE "key"
         /\ k = "key" =>
              /\ at'[a] = IF OfKind(ids, "group") # {} THEN "list" ELSE "check"
              /\ kind'[a] = "group"
         /\ k = "peer" => at'[a] = "check" /\ kind'[a] = "group"
         /\ k = "group" => at'[a] = "forget" /\ kind'[a] = kind[a]
<1> USE DEF TypeOK, AfterCall, KeyIsNext, GroupIsNext, Turn, Go
<1>1. CASE k \in {"policy", "dns", "route"}
  BY <1>1
<1>2. CASE k = "key"
  BY <1>2
<1>3. CASE k = "peer"
  BY <1>3
<1>4. CASE k = "group"
  BY <1>4
<1> QED BY <1>1, <1>2, <1>3, <1>4 DEF Kinds

\* Objects of one kind are one object, but for routes.
LEMMA OneOfAKind ==
  ASSUME NEW b \in Owners, NEW o \in ObjectsOf(b), NEW x \in ObjectsOf(b),
         o.kind = x.kind, o.kind # "route"
  PROVE  o = x
BY DEF ObjectsOf, Group, Key, Nameservers, Policy, RoutesOf, Obj

LEMMA UsesGroups ==
  ASSUME NEW x \in Objects, NEW o \in Uses(x)
  PROVE  /\ o.kind = "group" /\ o \in {Group(x.of), Group(Access)}
         /\ x.kind \notin {"group", "key"}
         /\ x.kind = "dns" => o = Group(Access)
<1>1. x.kind \in Kinds
  BY ObjectsOfOwner, ObjectHasOwner
<1> QED BY <1>1 DEF Uses, References, Group, Obj, Kinds

\* A deletion finds nothing that refers to its object, and all that is left comes later.
LEMMA UnmakeClean ==
  ASSUME Typed, OwnIds, Clean, Unmake("web"), blame' = {}, blame = {}, at["job"] = "idle"
  PROVE  Clean'
<1> USE DEF Typed, TypeOK, Actors
<1> DEFINE b == on["web"]
           k == kind["web"]
           ids == mem["web"][b]
<1>1. /\ at["web"] = "unmake" /\ k \in Kinds /\ b \in Owners /\ ids \subseteq ObjectsOf(b)
      /\ UNCHANGED <<sandbox, rows, named, peers, on, left, made, late>>
      /\ ~late /\ b \notin left["web"]
      /\ (b = Access => left["web"] = {} /\ k # "policy") /\ (b # Access => k # "dns")
  BY DEF Unmake, db, OwnIds, Clean, OneAtATime, AccessLast, Working
<1>2. /\ peers \subseteq cloud /\ (k = "group" => Group(b) \notin peers)
      /\ \A o \in cloud : /\ o.of \in Owners /\ o \in Objects /\ o \in mem["web"][o.of]
                          /\ o.of \in left["web"] \/ (o.of = b /\ o.kind \in Ahead)
  BY <1>1, ObjectHasOwner DEF Clean, PeersGoFirst, AllInSight, InSight, Working, TearingDown
<1>3. ASSUME NEW o \in OfKind(ids, k), NEW x \in cloud, o \in Uses(x) PROVE FALSE
  <2>1. x \in Objects /\ o.of = b
    BY <1>1, <1>2, ObjectsOfOwner DEF OfKind
  <2>2. o.kind = "group" /\ o.kind = k /\ x.kind # "group" /\ (x.of = b \/ b = Access)
    BY <1>3, <2>1, UsesGroups DEF OfKind, Group, Obj
  <2>3. x.of = b
    BY <1>1, <1>2, <2>2
  <2>4. Ahead = {"group"}
    BY <1>1, <2>2 DEF Ahead
  <2> QED BY <1>1, <1>2, <2>2, <2>3, <2>4
<1>4. PICK ids2 :
        /\ AfterCall("web", k, ids2) /\ ids2 \subseteq ids
        /\ mem'["web"][b] = ids2 /\ \A c \in Owners \ {b} : mem'["web"][c] = mem["web"][c]
        /\ cloud' \subseteq cloud
        /\ \A x \in cloud \ cloud' : x \in OfKind(ids, k)
        /\ \A x \in cloud' : x.of = b => x \in ids2 /\ (k # "route" => x.kind # k)
  <2>1. CASE OfKind(ids, k) = {} /\ AfterCall("web", k, ids) /\ UNCHANGED <<cloud, mem>>
    BY <1>2, <2>1 DEF OfKind
  <2>2. ASSUME NEW o \in OfKind(ids, k), Holds("web", b, ids \ {o}), AfterCall("web", k, ids \ {o}),
               cloud' = cloud \ {o}
        PROVE  \E ids2 :
        /\ AfterCall("web", k, ids2) /\ ids2 \subseteq ids
        /\ mem'["web"][b] = ids2 /\ \A c \in Owners \ {b} : mem'["web"][c] = mem["web"][c]
        /\ cloud' \subseteq cloud
        /\ \A x \in cloud \ cloud' : x \in OfKind(ids, k)
        /\ \A x \in cloud' : x.of = b => x \in ids2 /\ (k # "route" => x.kind # k)
    <3>1. /\ mem'["web"][b] = ids \ {o} /\ \A c \in Owners \ {b} : mem'["web"][c] = mem["web"][c]
      BY <1>1, <2>2 DEF Holds
    <3>2. ASSUME NEW x \in cloud', x.of = b PROVE x \in ids \ {o} /\ (k # "route" => x.kind # k)
      <4>1. x \in ids /\ x # o /\ x \in ObjectsOf(b) /\ o \in ObjectsOf(b) /\ o.kind = k
        BY <1>1, <1>2, <2>2, <3>2 DEF OfKind
      <4> QED BY <1>1, <4>1, OneOfAKind
    <3> QED BY <2>2, <3>1, <3>2
  <2>3. \/ OfKind(ids, k) = {} /\ AfterCall("web", k, ids) /\ UNCHANGED <<cloud, mem>>
        \/ \E o \in OfKind(ids, k) :
             /\ Holds("web", b, ids \ {o}) /\ AfterCall("web", k, ids \ {o})
             /\ cloud' = cloud \ {o}
    BY <1>3 DEF Unmake
  <2> QED BY <2>1, <2>2, <2>3
<1> HIDE DEF ids
<1>5. /\ at'["job"] = "idle" /\ at'["web"] \in {"check", "list", "forget"}
  BY <1>1, <1>4, AfterCallGoesOn DEF Kinds
<1>6. peers' \subseteq cloud'
  <2>1. ASSUME NEW x \in OfKind(ids, k), x \in peers PROVE FALSE
    <3>1. x.of = b /\ x.kind = k /\ \E c \in Owners : x = Group(c)
      BY <1>1, <2>1, ObjectsOfOwner DEF OfKind, ids
    <3>2. x = Group(b) /\ k = "group"
      BY <3>1 DEF Group, Obj
    <3> QED BY <1>2, <2>1, <3>2
  <2> QED BY <1>1, <1>2, <1>4, <2>1
<1>7. (at'["web"] \in {"check", "unmake"} /\ kind'["web"] = "group") => Group(b) \notin peers'
  <2> SUFFICES ASSUME at'["web"] = "check", kind'["web"] = "group" PROVE Group(b) \notin cloud'
    BY <1>5, <1>6
  <2>1. k = "key" /\ OfKind(ids2, "group") = {}
    BY <1>1, <1>4, AfterCallGoesOn DEF Kinds
  <2> QED BY <1>4, <2>1 DEF OfKind, Group, Obj
<1>8. ASSUME NEW x \in cloud' PROVE InSight(x)'
  <2>1. /\ x \in mem'["web"][x.of] /\ x.of \in Owners
    BY <1>2, <1>4
  <2>2. CASE x.of \in left["web"]
    BY <1>1, <1>5, <2>1, <2>2 DEF InSight, Working
  <2>3. CASE x.of = b /\ x.kind \in Ahead
    <3>1. x \in ids2 /\ x \in ObjectsOf(b) /\ (k # "route" => x.kind # k)
      BY <1>1, <1>4, <2>3 DEF ids
    <3>2. /\ x.kind \in Kinds
          /\ IF b = Access THEN x.kind \notin {"policy", "route"} ELSE x.kind # "dns"
      BY <1>1, <3>1, ObjectsOfOwner DEF ObjectsOf, Group, Key, Nameservers, Policy, RoutesOf, Obj
    <3>3. at'["web"] # "forget" /\ x.kind \in Ahead'
      <4>1. CASE k \in {"policy", "dns", "route"}
        <5>1. /\ at'["web"] = "check"
              /\ kind'["web"] = IF OfKind(ids2, "route") # {} THEN "route" ELSE "key"
          BY <1>4, <4>1, AfterCallGoesOn
        <5>2. x.kind \notin {"policy", "dns"}
          BY <1>1, <2>3, <3>1, <3>2, <4>1 DEF Ahead
        <5>3. OfKind(ids2, "route") = {} => x.kind # "route"
          BY <3>1 DEF OfKind
        <5> QED BY <3>2, <5>1, <5>2, <5>3 DEF Ahead, Kinds
      <4>2. CASE k = "key"
        <5>1. x.kind = "group"
          BY <1>1, <2>3, <3>1, <4>2 DEF Ahead
        <5>2. /\ kind'["web"] = "group" /\ at'["web"] \in {"list", "check"}
          BY <1>4, <4>2, AfterCallGoesOn
        <5> QED BY <5>1, <5>2 DEF Ahead
      <4>3. CASE k = "group"
        BY <1>1, <2>3, <3>1, <4>3 DEF Ahead
      <4> QED BY <1>1, <4>1, <4>2, <4>3 DEF Kinds
    <3> QED BY <1>1, <1>5, <2>1, <2>3, <3>3 DEF InSight, Working
  <2> QED BY <1>2, <1>4, <2>2, <2>3
<1>9. AccessLast'
  BY <1>1, <1>4, AfterCallGoesOn DEF AccessLast, Working, Kinds
<1> QED BY <1>1, <1>5, <1>6, <1>7, <1>8, <1>9 DEF Clean, OneAtATime, PeersGoFirst, AllInSight

\* A row has one group.
LEMMA OnlyGroup ==
  ASSUME Typed, OwnIds, NEW a \in Actors, NEW g \in OfKind(mem[a][on[a]], "group")
  PROVE  g = Group(on[a])
<1>1. on[a] \in Owners /\ g \in ObjectsOf(on[a]) /\ g.kind = "group"
  BY DEF Typed, TypeOK, OwnIds, OfKind
<1>2. Group(on[a]) \in ObjectsOf(on[a]) /\ Group(on[a]).kind = "group"
  BY DEF ObjectsOf, Group, Obj
<1> QED BY <1>1, <1>2, OneOfAKind

\* What each step of an undisturbed teardown starts from.
LEMMA CleanBefore ==
  ASSUME Typed, Clean, blame = {}, at["web"] # "idle"
  PROVE  /\ ~late /\ at["job"] = "idle"
         /\ AccessLast /\ PeersGoFirst /\ AllInSight
         /\ \A o \in cloud : o.of \in Owners
BY ObjectHasOwner DEF Clean, OneAtATime, Typed, TypeOK

LEMMA ListPeersClean ==
  ASSUME Typed, OwnIds, Clean, ListPeers("web"), blame' = {}, blame = {} PROVE Clean'
<1> USE DEF Typed, TypeOK, Actors
<1>1. /\ at["web"] = "list"
      /\ UNCHANGED <<sandbox, rows, named, cloud, peers, on, left, mem, made, late>>
  BY DEF ListPeers, db, netbird
<1>2. PICK g \in OfKind(mem["web"][on["web"]], "group") :
        Turn("web", "check", IF g \in peers \intersect cloud THEN "peer" ELSE "group")
  BY DEF ListPeers
<1>3. g = Group(on["web"])
  BY <1>2, OnlyGroup
<1>4. /\ at'["web"] = "check" /\ at'["job"] = at["job"] /\ kind'["web"] \in {"peer", "group"}
      /\ kind'["web"] = "group" => Group(on["web"]) \notin peers
  BY <1>1, <1>2, <1>3, CleanBefore DEF Turn, PeersGoFirst
<1>5. AllInSight'
  BY <1>1, <1>4, CleanBefore DEF AllInSight, InSight, Working, Ahead, TearingDown
<1> QED BY <1>1, <1>4, <1>5, CleanBefore DEF Clean, OneAtATime, AccessLast, PeersGoFirst, Working

LEMMA DeletePeerClean ==
  ASSUME Typed, OwnIds, Clean, DeletePeer("web"), blame' = {}, blame = {} PROVE Clean'
<1> USE DEF Typed, TypeOK, Actors
<1>1. /\ at["web"] = "unmake" /\ kind["web"] = "peer"
      /\ UNCHANGED <<sandbox, rows, named, cloud, on, left, mem, made, late>>
      /\ AfterCall("web", "peer", {})
      /\ \E g \in OfKind(mem["web"][on["web"]], "group") : peers' = peers \ {g}
  BY DEF DeletePeer, db
<1>2. peers' = peers \ {Group(on["web"])}
  BY <1>1, OnlyGroup
<1>3. /\ at'["web"] = "check" /\ at'["job"] = at["job"] /\ kind'["web"] = "group"
  BY <1>1, AfterCallGoesOn
<1>4. AllInSight'
  BY <1>1, <1>3, CleanBefore DEF AllInSight, InSight, Working, Ahead, TearingDown
<1> QED BY <1>1, <1>2, <1>3, <1>4, CleanBefore DEF Clean, OneAtATime, AccessLast, PeersGoFirst,
        Working

LEMMA PickClean ==
  ASSUME Typed, OwnIds, Clean, Pick("web"), blame' = {}, blame = {} PROVE Clean'
<1> USE DEF Typed, TypeOK, Actors
<1>1. at["web"] = "pick" /\ UNCHANGED <<sandbox, rows, named, cloud, peers, made, late>>
  BY DEF Pick, db, netbird
<1>2. ASSUME NEW b \in EntrypointsFirst("web"),
             on' = [on EXCEPT !["web"] = b], left' = [left EXCEPT !["web"] = @ \ {b}],
             Turn("web", "check", IF b = Access THEN "dns" ELSE "policy"), UNCHANGED mem
      PROVE  Clean'
  <2>1. /\ on'["web"] = b /\ left'["web"] = left["web"] \ {b} /\ at'["web"] = "check"
        /\ at'["job"] = at["job"] /\ b \in left["web"]
        /\ kind'["web"] = IF b = Access THEN "dns" ELSE "policy"
    BY <1>2 DEF Turn, EntrypointsFirst
  <2>2. b = Access => left'["web"] = {}
    BY <1>2, <2>1 DEF EntrypointsFirst
  <2>3. AccessLast'
    BY <2>1, <2>2 DEF AccessLast, Working
  <2>4. Ahead' = Kinds
    BY <2>1 DEF Ahead
  <2>5. ASSUME NEW o \in cloud' PROVE InSight(o)'
    <3>1. /\ o \in mem["web"][o.of] /\ o.of \in left["web"] /\ o.kind \in Kinds
      BY <1>1, <2>5, CleanBefore, ObjectHasOwner, ObjectsOfOwner DEF AllInSight, InSight,
         TearingDown
    <3> QED BY <1>2, <2>1, <2>4, <3>1 DEF InSight, Working, TearingDown
  <2> QED BY <1>1, <2>1, <2>3, <2>5, CleanBefore DEF Clean, OneAtATime, PeersGoFirst, AllInSight
<1>3. ASSUME left["web"] = {}, Ends("web") PROVE Clean'
  <2>1. cloud = {}
    BY <1>1, <1>3, CleanBefore DEF AllInSight, InSight
  <2>2. at'["web"] = "delete" /\ at'["job"] = at["job"]
    BY <1>3 DEF Ends
  <2> QED BY <1>1, <2>1, <2>2, CleanBefore DEF Clean, OneAtATime, AccessLast, Working,
          PeersGoFirst, AllInSight
<1> QED BY <1>2, <1>3 DEF Pick

LEMMA CheckDeadlineClean ==
  ASSUME Typed, OwnIds, Clean, CheckDeadline("web"), blame' = {}, blame = {} PROVE Clean'
<1> USE DEF Typed, TypeOK, Actors
<1>1. /\ at["web"] = "check" /\ at'["web"] = "unmake" /\ at'["job"] = at["job"]
      /\ UNCHANGED <<sandbox, rows, named, cloud, peers, kind, on, left, mem, made, late>>
  BY CleanBefore DEF CheckDeadline, Go, db, netbird
<1>2. AllInSight'
  BY <1>1, CleanBefore DEF AllInSight, InSight, Working, Ahead, TearingDown
<1> QED BY <1>1, <1>2, CleanBefore DEF Clean, OneAtATime, AccessLast, PeersGoFirst, Working

LEMMA ForgetClean ==
  ASSUME Typed, OwnIds, Clean, Forget("web"), blame' = {}, blame = {} PROVE Clean'
<1> USE DEF Typed, TypeOK, Actors
<1>1. /\ at["web"] = "forget" /\ at'["web"] = "pick" /\ at'["job"] = at["job"]
      /\ UNCHANGED <<sandbox, cloud, peers, kind, on, left, mem, made, late>>
  BY DEF Forget, Go, netbird
<1>2. AllInSight'
  BY <1>1, CleanBefore DEF AllInSight, InSight, Working, TearingDown
<1> QED BY <1>1, <1>2, CleanBefore DEF Clean, OneAtATime, AccessLast, PeersGoFirst, Working

LEMMA WebClean ==
  ASSUME Typed, OwnIds, Clean, Web \/ Expire, blame' = {}, blame = {} PROVE Clean'
<1> USE DEF Typed, TypeOK, Actors
<1>1. CASE ReadAccess
  <2>1. /\ at["web"] = "access" /\ at'["web"] = "hosts" /\ at'["job"] = at["job"]
        /\ left'["web"] = rows \intersect {Access} /\ mem'["web"][Access] = named[Access]
        /\ UNCHANGED <<sandbox, rows, named, cloud, peers, late>>
    BY <1>1 DEF ReadAccess, Holds, Go, db, netbird, Owners
  <2>2. AllInSight'
    BY <2>1, CleanBefore DEF AllInSight, InSight, Working, TearingDown
  <2> QED BY <2>1, <2>2, CleanBefore DEF Clean, OneAtATime, AccessLast, PeersGoFirst, Working
<1>2. CASE ReadHosts
  <2>1. /\ at["web"] = "hosts" /\ at'["web"] = "pick" /\ at'["job"] = at["job"]
        /\ left'["web"] = left["web"] \union (rows \ {Access})
        /\ mem'["web"][Access] = mem["web"][Access]
        /\ \A b \in Owners \ {Access} : mem'["web"][b] = named[b]
        /\ UNCHANGED <<sandbox, rows, named, cloud, peers, late>>
    BY <1>2 DEF ReadHosts, Go, db, netbird, Owners
  <2>2. AllInSight'
    BY <2>1, CleanBefore DEF AllInSight, InSight, Working, TearingDown
  <2> QED BY <2>1, <2>2, CleanBefore DEF Clean, OneAtATime, AccessLast, PeersGoFirst, Working
<1>3. CASE DeleteSandbox
  <2>1. /\ at["web"] = "delete" /\ at'["web"] = "idle" /\ at'["job"] = at["job"]
        /\ UNCHANGED <<cloud, peers, late>>
    BY <1>3 DEF DeleteSandbox, Go, netbird
  <2>2. cloud = {}
    BY <2>1, CleanBefore DEF AllInSight, InSight
  <2> QED BY <2>1, <2>2, CleanBefore DEF Clean, OneAtATime, AccessLast, PeersGoFirst, AllInSight,
          Working
<1>4. CASE Unmake("web")
  BY <1>4, UnmakeClean, CleanBefore DEF Unmake
<1> QED BY <1>1, <1>2, <1>3, <1>4, ListPeersClean, DeletePeerClean, PickClean, CheckDeadlineClean,
        ForgetClean DEF Web, Teardown, Expire

\* When a group is about to go, its key is gone, and nobody registers into it.
LEMMA RegisterClean ==
  ASSUME Typed, OwnIds, Clean, NEW b \in Owners, Register(b), blame' = {}, blame = {} PROVE Clean'
<1> USE DEF Typed, TypeOK, Actors
<1>1. /\ {Group(b), Key(b)} \subseteq cloud /\ peers' = peers \union {Group(b)}
      /\ UNCHANGED <<sandbox, rows, named, cloud, at, kind, on, left, mem, made, late>>
  BY DEF Register, db, actors
<1>2. OneAtATime /\ AccessLast /\ PeersGoFirst /\ AllInSight
  BY DEF Clean
<1>3. ASSUME at["web"] \in {"check", "unmake"}, kind["web"] = "group"
      PROVE  Group(on["web"]) # Group(b)
  <2>1. Key(b).of = b /\ Key(b).kind = "key" /\ Group(b).of = b /\ Group(on["web"]).of = on["web"]
    BY DEF Key, Group, Obj
  <2>2. Ahead = {"group"} /\ Working
    BY <1>3 DEF Ahead, Working
  <2> QED BY <1>1, <1>2, <2>1, <2>2 DEF AllInSight, InSight, AccessLast
<1> QED BY <1>1, <1>2, <1>3 DEF Clean, OneAtATime, AccessLast, PeersGoFirst, AllInSight, InSight,
        Working, Ahead

LEMMA DestroyNetbirdClean ==
  ASSUME Typed, OwnIds, Tracked, Clean, DestroyNetbird, blame' = {}, blame = {} PROVE Clean'
<1> USE DEF Typed, TypeOK, Actors
<1>1. /\ sandbox /\ at["web"] = "idle" /\ at["job"] = "idle"
      /\ at'["web"] = "access" /\ at'["job"] = "idle"
      /\ UNCHANGED <<sandbox, rows, named, cloud, peers, kind, on, left, mem, made, late>>
  BY DEF DestroyNetbird, Go, db, netbird
<1>2. \A o \in cloud : o \in named[o.of]
  BY <1>1 DEF Tracked, Undisturbed, NamedOrMade, OwnIds
<1> QED BY <1>1, <1>2 DEF Clean, OneAtATime, AccessLast, PeersGoFirst, AllInSight, InSight,
        Working, TearingDown

LEMMA CleanStep ==
  ASSUME Typed, OwnIds, Tracked, Clean, [Next]_vars PROVE Clean'
<1> SUFFICES ASSUME blame' = {} PROVE Clean'
  BY DEF Clean
<1>1. blame = {}
  BY BlameStays
<1>2. CASE at["job"] # "idle"
  BY <1>2, CleanWithJob
<1>3. CASE at["job"] = "idle"
  <2>1. ~ (Job \/ SkipProvision \/ WorkerDies)
    BY <1>3 DEF Job, SkipProvision, WorkerDies, StartGuard, CreateRow, Make, Save, Reread,
       NextEntrypoint, EndGuard, Teardown, Pick, CheckDeadline, Unmake, ListPeers, DeletePeer,
       Forget
  <2>2. CASE UNCHANGED vars
    BY <1>1, <2>2 DEF vars, db, netbird, actors, Clean, OneAtATime, AccessLast, PeersGoFirst,
       AllInSight, InSight, Working, Ahead
  <2> QED BY <1>1, <2>1, <2>2, WebClean, RegisterClean, DestroyNetbirdClean DEF Next
<1> QED BY <1>2, <1>3

\* If no two entries of the vpn block name one node, a teardown that begins after the
\* provisioning, and in which nothing fails, leaves neither an object nor a peer.
THEOREM NothingIsLeft == ASSUME NamesDiffer PROVE Spec => []NothingLeft
<1> DEFINE Inv == Typed /\ OwnIds /\ Tracked /\ Clean
<1>1. Init => Inv
  BY InitTyped, InitOwnIds, InitTracked, InitClean
<1>2. Inv /\ [Next]_vars => Inv'
  BY NextTyped, OwnIdsStep, TrackedStep, CleanStep
<1>3. Inv => NothingLeft
  BY DEF Clean, AllInSight, InSight, PeersGoFirst, NothingLeft, Over
<1> QED BY <1>1, <1>2, <1>3, PTL DEF Spec
=============================================================================
