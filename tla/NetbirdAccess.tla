---------------------------- MODULE NetbirdAccess ----------------------------
(***************************************************************************)
(* The NetBird objects of one sandbox: the job that provisions them and    *)
(* the request (a cleanup or a restart) that tears them down and then      *)
(* deletes the sandbox.  Each object is created by one call, and its id is *)
(* saved in a row of the database by a later step; rows go with the        *)
(* sandbox.  Both actors run at once, and nothing locks them out.          *)
(***************************************************************************)
EXTENDS Integers, FiniteSets

CONSTANTS
  Entrypoints,  \* the entries of the vpn block, whatever their order
  Host,         \* the node that each of them names
  Routes,       \* how many routes each of them has
  Dns,          \* the vpn block has name servers
  Faults        \* what may go wrong: see FaultKinds

(***************************************************************************)
(* "refuse": a call fails, whatever its reason, or there is no client.     *)
(* "slow":   the time budget of the teardown runs out.                     *)
(* "crash":  the worker that provisions dies.                              *)
(***************************************************************************)
FaultKinds == {"refuse", "slow", "crash"}

Access == "access"

ASSUME ConstantsAssumption ==
  /\ Entrypoints \subseteq STRING /\ Access \notin Entrypoints
  /\ Host \in [Entrypoints -> STRING]
  /\ Routes \in [Entrypoints -> Nat]
  /\ Dns \in BOOLEAN
  /\ Faults \subseteq FaultKinds

\* What has a row of ids: the sandbox, for its access, and each entry; the entries of one node
\* share a row, known by one of them.
Owners == Entrypoints \union {Access}
Row(b) == IF b = Access THEN b ELSE CHOOSE e \in Entrypoints : Host[e] = Host[b]

\* An object is known by its kind, whose it is, and a number.
Kinds == {"group", "key", "dns", "route", "policy"}
Obj(kind_, b) == [kind |-> kind_, of |-> b, nr |-> 0]
Group(b) == Obj("group", b)
Key(b) == Obj("key", b)
Policy(e) == Obj("policy", e)
Nameservers == Obj("dns", Access)
RoutesOf(e) == {[kind |-> "route", of |-> e, nr |-> n] : n \in 1..Routes[e]}
ObjectsOf(b) ==
  {Group(b), Key(b)} \union (IF b = Access THEN {Nameservers} ELSE {Policy(b)} \union RoutesOf(b))
Objects == UNION {ObjectsOf(b) : b \in Owners}
OfKind(ids, k) == {o \in ids : o.kind = k}

\* The groups a creation names: NetBird keeps a group that something refers to.
References(o) ==
  CASE o.kind = "group" -> {}
    [] o.kind = "key" -> {Group(o.of)}
    [] o.kind = "dns" -> {Group(Access)}
    [] o.kind \in {"route", "policy"} -> {Group(o.of), Group(Access)}

\* References that make NetBird reject the deletion of a group.
Uses(o) == IF o.kind = "key" THEN {} ELSE References(o)

VARIABLES
  sandbox,  \* the row of the sandbox exists
  rows,     \* owners that have a row of ids
  named,    \* the ids saved in these rows
  cloud,    \* objects at NetBird
  peers,    \* groups that a peer has registered into
  at,       \* what each actor does next
  kind,     \* to objects of which kind
  on,       \* of which owner
  left,     \* owners it has still to come to
  mem,      \* ids in the objects it holds; a teardown strikes those it has dealt with
  made,     \* objects the job has just made, and not saved
  late,     \* the time budget of the teardown is used up
  overrun,  \* calls the teardown has made since then
  blame     \* what may have left something behind at NetBird

db == <<sandbox, rows, named>>
netbird == <<cloud, peers>>
actors == <<at, kind, on, left>>
vars == <<db, netbird, actors, mem, made, late, overrun, blame>>

Actors == {"job", "web"}
Nothing == [b \in Owners |-> {}]
Provisioning == {"guard", "row", "make", "reread", "next", "end"}
TearingDown == {"pick", "check", "unmake", "list", "forget"}
Requesting == {"access", "hosts", "delete"}

TypeOK ==
  /\ sandbox \in BOOLEAN
  /\ rows \subseteq Owners
  /\ named \in [Owners -> SUBSET Objects]
  /\ cloud \subseteq Objects
  /\ peers \subseteq {Group(b) : b \in Owners}
  /\ at \in [Actors -> Provisioning \union TearingDown \union Requesting \union {"idle"}]
  /\ at["web"] \notin Provisioning /\ at["job"] \notin Requesting
  /\ kind \in [Actors -> Kinds \union {"peer"}]
  /\ on \in [Actors -> Owners]
  /\ left \in [Actors -> SUBSET Owners]
  /\ mem \in [Actors -> [Owners -> SUBSET Objects]]
  /\ made \subseteq Objects
  /\ late \in BOOLEAN
  /\ overrun \in Nat
  /\ blame \subseteq FaultKinds \union {"race"}
  /\ ~ sandbox => rows = {}
  /\ \A b \in Owners \ rows : named[b] = {}

-----------------------------------------------------------------------------
Init ==
  /\ sandbox = TRUE
  /\ rows = {} /\ named = Nothing /\ cloud = {} /\ peers = {}
  /\ at = [a \in Actors |-> IF a = "job" THEN "guard" ELSE "idle"]
  /\ kind = [a \in Actors |-> "group"] /\ on = [a \in Actors |-> Access]
  /\ left = [a \in Actors |-> IF a = "job" THEN Entrypoints ELSE {}]
  /\ mem = [a \in Actors |-> Nothing] /\ made = {}
  /\ late = FALSE /\ overrun = 0 /\ blame = {}

Go(a, where) == at' = [at EXCEPT ![a] = where] /\ UNCHANGED kind
Turn(a, where, k) == at' = [at EXCEPT ![a] = where] /\ kind' = [kind EXCEPT ![a] = k]
\* The actor has come to an end, and what it holds is gone; the request deletes the sandbox.
Ends(a) ==
  /\ at' = [at EXCEPT ![a] = IF a = "web" THEN "delete" ELSE "idle"]
  /\ kind' = [kind EXCEPT ![a] = "group"]
  /\ on' = [on EXCEPT ![a] = Access] /\ left' = [left EXCEPT ![a] = {}]
  /\ mem' = [mem EXCEPT ![a] = Nothing]
Holds(a, b, ids) == mem' = [mem EXCEPT ![a] = [@ EXCEPT ![b] = ids]]

\* There is no configuration or token, the definition cannot be read, or it asks for no VPN.
SkipProvision ==
  /\ at["job"] = "guard"
  /\ Ends("job")
  /\ UNCHANGED <<db, netbird, made, late, overrun, blame>>

StartGuard ==
  /\ at["job"] = "guard"
  /\ IF sandbox THEN Go("job", "row") /\ UNCHANGED <<on, left, mem>> ELSE Ends("job")
  /\ UNCHANGED <<db, netbird, made, late, overrun, blame>>

\* What follows an exception, with these ids at hand.  Without an access group nothing more is
\* made; without its key, or name servers, the entrypoints still are.
Raise(ids) ==
  IF on["job"] # Access THEN Go("job", "reread")
     ELSE IF OfKind(ids, "group") = {} THEN Go("job", "end")
     ELSE IF Dns /\ kind["job"] # "dns" THEN Turn("job", "make", "dns")
     ELSE Go("job", "next")

\* get_or_create
CreateRow ==
  LET b == on["job"]
  IN /\ at["job"] = "row"
     /\ IF sandbox THEN /\ rows' = rows \union {Row(b)}
                        /\ Holds("job", b, named[Row(b)])
                        /\ Turn("job", "make", "group")
                   ELSE UNCHANGED <<rows, mem>> /\ Raise({})
     /\ UNCHANGED <<sandbox, named, netbird, on, left, made, late, overrun, blame>>

ToMake == OfKind(ObjectsOf(on["job"]), kind["job"])

\* A creation; NetBird may reject it if a group it names has gone.
Make ==
  /\ at["job"] = "make"
  /\ \E o \in ToMake \ made :
       \/ /\ cloud' = cloud \union {o} /\ made' = made \union {o}
          /\ UNCHANGED <<at, kind, blame>>
       \/ /\ ~ References(o) \subseteq cloud \/ "refuse" \in Faults
          /\ made' = {} /\ Raise(mem["job"][o.of])
          /\ blame' = blame \union {"refuse"}
          /\ UNCHANGED cloud
  /\ UNCHANGED <<db, peers, on, left, mem, late, overrun>>

\* _provision_access and _provision_dns on one row, _provision_single_entrypoint on the others.
Proceed ==
  LET k == kind["job"]
      next == CASE k = "group" -> "key"
                [] k = "key" -> IF on["job"] = Access THEN "dns" ELSE "route"
                [] k = "route" -> "policy"
                [] k \in {"dns", "policy"} -> "none"
  IN IF next = "none" \/ (next = "dns" /\ ~ Dns) THEN Go("job", "next")
     ELSE Turn("job", "make", next)

\* Mutant: the ids are saved when the policy has been made.
SavedAtTheEnd(b, ids) ==
  IF kind["job"] \in {"policy", "dns"} THEN [named EXCEPT ![Row(b)] = ids] ELSE named

Saved(b, ids) == [named EXCEPT ![Row(b)] = ids]

\* The ids are set when all objects of a kind are made.  save() writes all ids, and inserts the
\* row again if it has been deleted; it fails when the sandbox is gone.
Save ==
  LET b == on["job"]
      ids == (mem["job"][b] \ OfKind(mem["job"][b], kind["job"])) \union made
  IN /\ at["job"] = "make" /\ ToMake \subseteq made
     /\ Holds("job", b, ids) /\ made' = {}
     /\ IF sandbox THEN /\ rows' = rows \union {Row(b)}
                        /\ named' = Saved(b, ids)
                        /\ Proceed
                   ELSE UNCHANGED <<rows, named>> /\ Raise(ids)
     /\ UNCHANGED <<sandbox, netbird, on, left, late, overrun, blame>>

\* After an exception, the job forgets its object and gets the row, if it is there.
Reread ==
  /\ at["job"] = "reread"
  /\ Holds("job", on["job"], named[Row(on["job"])])
  /\ Go("job", "next")
  /\ UNCHANGED <<db, netbird, on, left, made, late, overrun, blame>>

NextEntrypoint ==
  /\ at["job"] = "next"
  /\ \E e \in left["job"] :
       /\ on' = [on EXCEPT !["job"] = e] /\ left' = [left EXCEPT !["job"] = @ \ {e}]
       /\ Go("job", "row")
  /\ UNCHANGED <<db, netbird, mem, made, late, overrun, blame>>

\* If the sandbox is there the job is done, else it tears down all that it knows of.
EndGuard ==
  /\ at["job"] = "end" \/ (at["job"] = "next" /\ left["job"] = {})
  /\ IF sandbox THEN Ends("job")
                ELSE /\ Go("job", "pick") /\ left' = [left EXCEPT !["job"] = Owners]
                     /\ UNCHANGED <<on, mem>>
  /\ UNCHANGED <<db, netbird, made, late, overrun, blame>>

WorkerDies ==
  /\ "crash" \in Faults /\ at["job"] # "idle"
  /\ Ends("job") /\ made' = {}
  /\ blame' = blame \union {"crash"}
  /\ UNCHANGED <<db, netbird, late, overrun>>

-----------------------------------------------------------------------------
\* A cleanup or a restart reaches destroy_netbird_for_sandbox; without a client nothing is done.
DestroyNetbird ==
  /\ sandbox /\ at["web"] = "idle"
  /\ \/ /\ Go("web", "access")
        /\ blame' = IF at["job"] # "idle" THEN blame \union {"race"} ELSE blame
     \/ /\ "refuse" \in Faults
        /\ Go("web", "delete")
        /\ blame' = blame \union {"refuse"}
  /\ UNCHANGED <<db, netbird, on, left, mem, made, late, overrun>>

ReadAccess ==
  /\ at["web"] = "access"
  /\ left' = [left EXCEPT !["web"] = rows \intersect {Access}]
  /\ Holds("web", Access, named[Access])
  /\ Go("web", "hosts")
  /\ UNCHANGED <<db, netbird, on, made, late, overrun, blame>>

ReadHosts ==
  /\ at["web"] = "hosts"
  /\ left' = [left EXCEPT !["web"] = @ \union (rows \ {Access})]
  /\ mem' = [mem EXCEPT !["web"] = [named EXCEPT ![Access] = mem["web"][Access]]]
  /\ Go("web", "pick")
  /\ UNCHANGED <<db, netbird, on, made, late, overrun, blame>>

\* The time budget runs out at any moment after the deadline has been set.
Expire ==
  /\ "slow" \in Faults /\ ~late /\ at["web"] \in TearingDown
  /\ late' = TRUE
  /\ blame' = blame \union {"slow"}
  /\ UNCHANGED <<db, netbird, actors, mem, made, overrun>>

\* Mutant: the access group may go first.
AnyOfAll(a) == left[a]

\* The entrypoints first, in whatever order, and then what they refer to.
EntrypointsFirst(a) == IF left[a] \subseteq {Access} THEN left[a] ELSE left[a] \ {Access}

Pick(a) ==
  /\ at[a] = "pick"
  /\ \/ \E b \in EntrypointsFirst(a) :
          /\ on' = [on EXCEPT ![a] = b] /\ left' = [left EXCEPT ![a] = @ \ {b}]
          /\ Turn(a, "check", IF b = Access THEN "dns" ELSE "policy")
          /\ UNCHANGED mem
     \/ /\ left[a] = {}
        /\ Ends(a)
  /\ UNCHANGED <<db, netbird, made, late, overrun, blame>>

\* _expired: the rest of the teardown is given up.
CheckDeadline(a) ==
  /\ at[a] = "check"
  /\ IF a = "web" /\ late THEN Ends(a) ELSE Go(a, "unmake") /\ UNCHANGED <<on, left, mem>>
  /\ UNCHANGED <<db, netbird, made, late, overrun, blame>>

Overruns(a) == overrun' = IF a = "web" /\ late THEN overrun + 1 ELSE overrun

\* Mutant: the deadline is not looked at before the key is deleted.
KeyUnchecked(a) == Turn(a, "unmake", "key")

KeyIsNext(a) == Turn(a, "check", "key")

\* Mutant: peers are listed until there are none.
PeersAgain(a) == Turn(a, "list", "group")

GroupIsNext(a) == Turn(a, "check", "group")

\* Where _destroy_single_entrypoint and _destroy_access go on after a call, with these ids left.
AfterCall(a, k, ids) ==
  CASE k \in {"policy", "dns", "route"} ->
         IF OfKind(ids, "route") # {} THEN Turn(a, "check", "route") ELSE KeyIsNext(a)
    [] k = "key" -> IF OfKind(ids, "group") # {} THEN Turn(a, "list", "group") ELSE GroupIsNext(a)
    [] k = "peer" -> GroupIsNext(a)
    [] k = "group" -> Go(a, "forget")

\* A deletion: what is gone already counts as deleted; a failure is only logged.
Unmake(a) ==
  LET ids == mem[a][on[a]]
  IN /\ at[a] = "unmake" /\ kind[a] # "peer"
     /\ \/ \E o \in OfKind(ids, kind[a]) :
             /\ \/ /\ \A x \in cloud : o \notin Uses(x)
                   /\ cloud' = cloud \ {o}
                   /\ UNCHANGED blame
                \/ /\ \E x \in cloud : o \in Uses(x)
                   /\ UNCHANGED <<cloud, blame>>
                \/ /\ "refuse" \in Faults
                   /\ blame' = blame \union {"refuse"}
                   /\ UNCHANGED cloud
             /\ Holds(a, on[a], ids \ {o}) /\ Overruns(a)
             /\ AfterCall(a, kind[a], ids \ {o})
        \/ /\ OfKind(ids, kind[a]) = {}
           /\ AfterCall(a, kind[a], ids)
           /\ UNCHANGED <<cloud, mem, overrun, blame>>
     /\ UNCHANGED <<db, peers, on, left, made, late>>

\* list_group_peer_ids: a group that is gone has no peers.
ListPeers(a) ==
  /\ at[a] = "list"
  /\ \E g \in OfKind(mem[a][on[a]], "group") :
       \/ /\ Turn(a, "check", IF g \in peers \intersect cloud THEN "peer" ELSE "group")
          /\ UNCHANGED blame
       \/ /\ "refuse" \in Faults
          /\ Turn(a, "check", "group")
          /\ blame' = blame \union {"refuse"}
  /\ Overruns(a)
  /\ UNCHANGED <<db, netbird, on, left, mem, made, late>>

DeletePeer(a) ==
  /\ at[a] = "unmake" /\ kind[a] = "peer"
  /\ \E g \in OfKind(mem[a][on[a]], "group") :
       \/ peers' = peers \ {g} /\ UNCHANGED blame
       \/ /\ "refuse" \in Faults
          /\ blame' = blame \union {"refuse"}
          /\ UNCHANGED peers
  /\ AfterCall(a, "peer", {}) /\ Overruns(a)
  /\ UNCHANGED <<db, cloud, on, left, mem, made, late>>

\* nbr.delete() and access.delete()
Forget(a) ==
  /\ at[a] = "forget"
  /\ rows' = rows \ {Row(on[a])}
  /\ named' = [named EXCEPT ![Row(on[a])] = {}]
  /\ Go(a, "pick")
  /\ UNCHANGED <<sandbox, netbird, on, left, mem, made, late, overrun, blame>>

\* sandbox.delete(), which takes the rows with it.
DeleteSandbox ==
  /\ at["web"] = "delete"
  /\ sandbox' = FALSE /\ rows' = {} /\ named' = Nothing
  /\ Go("web", "idle")
  /\ UNCHANGED <<netbird, on, left, mem, made, late, overrun, blame>>

\* A host or a trainee uses a setup key.
Register(b) ==
  /\ {Group(b), Key(b)} \subseteq cloud
  /\ peers' = peers \union {Group(b)}
  /\ UNCHANGED <<db, cloud, actors, mem, made, late, overrun, blame>>

-----------------------------------------------------------------------------
Teardown(a) ==
  \/ Pick(a) \/ CheckDeadline(a) \/ Unmake(a) \/ ListPeers(a) \/ DeletePeer(a) \/ Forget(a)
Job ==
  \/ StartGuard \/ CreateRow \/ Make \/ Save \/ Reread \/ NextEntrypoint \/ EndGuard
  \/ Teardown("job")
Web == ReadAccess \/ ReadHosts \/ DeleteSandbox \/ Teardown("web")

Next ==
  \/ Job \/ SkipProvision \/ WorkerDies
  \/ Web \/ DestroyNetbird \/ Expire
  \/ \E b \in Owners : Register(b)

Spec == Init /\ [][Next]_vars

\* Workers and web servers go on; every call has a timeout.
FairSpec == Spec /\ WF_vars(Job) /\ WF_vars(Web)

-----------------------------------------------------------------------------
Over == ~sandbox /\ at["job"] = "idle" /\ at["web"] = "idle"

\* As long as nobody tears down, the ids of all there is at NetBird are in the
\* database or about to be: except the routes of an entrypoint that has failed
\* before it got its policy, and what a worker that died had just made.
EverythingNamed ==
  sandbox /\ at["web"] = "idle" /\ "crash" \notin blame =>
    \A o \in cloud : \/ o \in named[Row(o.of)]
                     \/ o.kind = "route" /\ Policy(o.of) \notin cloud
                     \/ o \in made

\* A teardown that begins when provisioning is over removes every object and every
\* peer, if nothing goes wrong: nothing it deletes is still in use, and no peer can
\* register behind its back.
NothingLeft == Over /\ blame = {} => cloud = {} /\ peers = {}

\* "the deadline is checked before every cloud call, so the worst-case overrun is
\* one in-flight call's timeout": it is two, as the peers are listed unchecked.
OverrunBounded == overrun <= 2

\* "tear down every cloud object we already created so we don't leave orphans
\* behind": provisioning that meets the deletion of its sandbox leaves nothing.
RaceLeavesNothing == Over /\ blame \subseteq {"race"} => cloud = {}

\* Whatever NetBird does, the job ends, as the user stage waits for it; and the
\* request gets to delete the sandbox and to enqueue its stages.
JobAndRequestEnd ==
  /\ <>(at["job"] = "idle")
  /\ (at["web"] # "idle") ~> ~sandbox
=============================================================================
