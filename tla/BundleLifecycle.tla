--------------------------- MODULE BundleLifecycle ---------------------------
(***************************************************************************)
(* The ai-ops bundle lifecycle: pulling a runtime bundle onto the local    *)
(* model storage, registering it, activating it and rolling a network back *)
(* (ops/lifecycle.py over db/repositories.py and bundles/active.py).       *)
(*                                                                         *)
(* Three stores are written by separate steps of one request: the          *)
(* model_bundle table, the bundle directories and the active.json pointer  *)
(* of each network.  Requests come from the thread pool of the HTTP server *)
(* and from the auto-sync threads, so their steps interleave; a request    *)
(* may raise, and the process may crash, between any two of them.          *)
(*                                                                         *)
(* A database transaction is two steps, as in a session at REPEATABLE READ *)
(* (docker-compose runs MySQL; SQLite locks no earlier than the flush):    *)
(* the SELECTs at the start see one state of the table, the flush at the   *)
(* end writes the columns whose loaded value the transaction changed.      *)
(***************************************************************************)
EXTENDS Integers, FiniteSets

CONSTANTS
    Bundles,      \* bundle ids of kind "runtime"
    Networks,     \* (tenant, network) pairs; one tenant per network id
    NoBundle,     \* Python's None where a bundle id is expected
    NetOf,        \* network named by each bundle's manifest
    VersionOf,    \* version named by each bundle's manifest
    Requests,     \* concurrent callers of the lifecycle operations
    Serialized,   \* TRUE: callers never overlap on one network
    WholeSeconds, \* TRUE: the database keeps no fraction of a second (MySQL)
    MaxRequests,  \* bound: requests that callers make
    MaxFaults     \* bound: exceptions and crashes

ASSUME LifecycleAssumption ==
    /\ NoBundle \notin Bundles
    /\ NetOf \in [Bundles -> Networks]
    /\ Serialized \in BOOLEAN
    /\ WholeSeconds \in BOOLEAN
    /\ MaxRequests \in Nat
    /\ MaxFaults \in Nat

VARIABLES
    rows,       \* model_bundle: status, is_active and activated_at of each id
    onDisk,     \* bundles whose directory networks/<net>/bundles/<id> exists
    elsewhere,  \* bundles whose row has a local_path outside that directory
    pointer,    \* active.json of each network
    lastEvent,  \* last switch recorded in bundle_event for each network
    req,        \* the local state of each request
    clock,      \* the time, as a column of the table keeps it
    begun,      \* requests made so far
    faults      \* exceptions and crashes so far

vars == <<rows, onDisk, elsewhere, pointer, lastEvent, req, clock, begun, faults>>
-----------------------------------------------------------------------------
BundleOrNone == Bundles \cup {NoBundle}

\* "none": the table has no row for this id.
Status == {"none", "validated", "active", "rolled_back", "deprecated"}

Activatable == {"validated", "active", "rolled_back", "deprecated"}

\* activatedAt = 0 is NULL.
Row == [status : Status, isActive : BOOLEAN, activatedAt : Nat]

NoRow == [status |-> "none", isActive |-> FALSE, activatedAt |-> 0]
NoRows == [b \in Bundles |-> NoRow]

Pointer == [bundle : BundleOrNone, previous : BundleOrNone]

(***************************************************************************)
(* A request.  pc names the step it takes next: "move", "register" and     *)
(* "activate" belong to a pull, "commit", "pointer" and "notify" to an     *)
(* activation or a rollback.  seen is the table as its transaction read    *)
(* it, stamp the activated_at it will write.                               *)
(***************************************************************************)
Request ==
    [pc : {"idle", "move", "register", "activate", "commit", "pointer", "notify"},
     op : {"none", "activate", "restore"},
     bundle : BundleOrNone,
     previous : BundleOrNone,
     auto : BOOLEAN,
     seen : [Bundles -> Row],
     stamp : Nat]

Idle ==
    [pc |-> "idle", op |-> "none", bundle |-> NoBundle, previous |-> NoBundle,
     auto |-> FALSE, seen |-> NoRows, stamp |-> 0]

Busy(r) == req[r].pc # "idle"

BusyOn(r, n) == Busy(r) /\ NetOf[req[r].bundle] = n

OfNet(n) == {b \in Bundles : NetOf[b] = n}
-----------------------------------------------------------------------------
Init ==
    /\ rows = NoRows
    /\ onDisk = {}
    /\ elsewhere = {}
    /\ pointer = [n \in Networks |-> [bundle |-> NoBundle, previous |-> NoBundle]]
    /\ lastEvent = [n \in Networks |-> "none"]
    /\ req = [r \in Requests |-> Idle]
    /\ clock = 1
    /\ begun = 0
    /\ faults = 0

(***************************************************************************)
(* When a caller may start a request on network n.  Nothing in the code    *)
(* keeps two requests of a network apart; Serialized = TRUE describes a    *)
(* deployment whose callers do.                                            *)
(***************************************************************************)
MayBegin(r, n) ==
    /\ ~Busy(r)
    /\ begun < MaxRequests
    /\ Serialized => \A q \in Requests : ~BusyOn(q, n)
-----------------------------------------------------------------------------
(***************************************************************************)
(* Queries.                                                                *)
(***************************************************************************)

\* ORDER BY activated_at DESC LIMIT 1 over the ids in S.
IsLatest(table, S, b) ==
    IF S = {} THEN b = NoBundle
    ELSE b \in S /\ \A c \in S : table[c].activatedAt <= table[b].activatedAt

ActiveRows(table, n) == {b \in OfNet(n) : table[b].isActive}

EverActiveBut(table, n, x) ==
    {b \in OfNet(n) : b # x /\ table[b].activatedAt # 0}

get_active_bundle(table, n, b) == IsLatest(table, ActiveRows(table, n), b)

get_previous_active_bundle(table, n, x, b) ==
    IsLatest(table, EverActiveBut(table, n, x), b)

(***************************************************************************)
(* What a transaction wants the table it read to become.                   *)
(***************************************************************************)

\* Faulty variants, each named Bug...: what a slip in the definition it precedes
\* would do.  They are used only to show that the properties notice.
BugSiblingsStayActive(table, b, now) ==
    [table EXCEPT ![b] = [status |-> "active", isActive |-> TRUE, activatedAt |-> now]]

BugSiblingsKeepStatus(table, b, now) ==
    [x \in Bundles |->
        IF x = b THEN [status |-> "active", isActive |-> TRUE, activatedAt |-> now]
        ELSE [table[x] EXCEPT !.isActive = @ /\ NetOf[x] # NetOf[b]]]

\* repo.activate_bundle: b becomes active, the active siblings are retired.
Activated(table, b, now) ==
    [x \in Bundles |->
        IF x = b
        THEN [status |-> "active", isActive |-> TRUE, activatedAt |-> now]
        ELSE IF NetOf[x] = NetOf[b] /\ table[x].isActive
        THEN [status |-> IF table[x].status = "active" THEN "deprecated"
                                                       ELSE table[x].status,
              isActive |-> FALSE,
              activatedAt |-> table[x].activatedAt]
        ELSE table[x]]

BugRollbackForgets(table, b) ==
    [table EXCEPT ![b] = [status |-> "rolled_back", isActive |-> FALSE, activatedAt |-> 0]]

BugRollbackStatus(table, b) ==
    [table EXCEPT ![b].status = "rolledback", ![b].isActive = FALSE]

\* repo.set_bundle_status(..., "rolled_back")
RolledBack(table, b) ==
    [table EXCEPT ![b].status = "rolled_back", ![b].isActive = FALSE]

Wanted(q) ==
    IF q.op = "restore"
    THEN Activated(RolledBack(q.seen, q.previous), q.bundle, q.stamp)
    ELSE Activated(q.seen, q.bundle, q.stamp)

\* The unit of work: a column is written when the session changed its value.
Column(cur, seen, want) == IF want = seen THEN cur ELSE want

\* activated_at of the bundle always is: what the session assigns has microseconds, even
\* where the column drops them.
Flushed(q) ==
    [x \in Bundles |->
        [status |-> Column(rows[x].status, q.seen[x].status, Wanted(q)[x].status),
         isActive |-> Column(rows[x].isActive, q.seen[x].isActive, Wanted(q)[x].isActive),
         activatedAt |->
            IF x = q.bundle THEN Wanted(q)[x].activatedAt
            ELSE Column(rows[x].activatedAt, q.seen[x].activatedAt, Wanted(q)[x].activatedAt)]]
-----------------------------------------------------------------------------
(***************************************************************************)
(* activate_bundle and rollback_bundle: read, commit, pointer, notify.     *)
(***************************************************************************)

\* datetime.utcnow() when a transaction starts.  A column of MySQL keeps whole seconds,
\* in which any number of transactions may fall; SQLite keeps the microseconds, in which
\* no two do.
Now == IF WholeSeconds THEN {clock, clock + 1} ELSE {clock + 1}

BugNoCommit(op, b, prev, now) ==
    [pc |-> "pointer", op |-> op, bundle |-> b, previous |-> prev,
     auto |-> FALSE, seen |-> rows, stamp |-> now]

InTxn(op, b, prev, now) ==
    [pc |-> "commit", op |-> op, bundle |-> b, previous |-> prev,
     auto |-> FALSE, seen |-> rows, stamp |-> now]

\* The reads of activate_bundle; an id of another status, or of none, raises.
ReadForActivation(r, b) ==
    /\ rows[b].status \in Activatable
    /\ \E prev \in BundleOrNone, now \in Now :
        /\ get_active_bundle(rows, NetOf[b], prev)
        /\ req' = [req EXCEPT ![r] = InTxn("activate", b, prev, now)]
        /\ clock' = now
    /\ UNCHANGED <<rows, onDisk, elsewhere, pointer, lastEvent, faults>>

Activate(r, b) ==
    /\ MayBegin(r, NetOf[b])
    /\ ReadForActivation(r, b)
    /\ begun' = begun + 1

\* The last leg of a pull that activates.
AutoActivate(r) ==
    /\ req[r].pc = "activate"
    /\ ReadForActivation(r, req[r].bundle)
    /\ UNCHANGED begun

\* The reads of a rollback; without a current and a previous bundle it raises.
Rollback(r, n) ==
    /\ MayBegin(r, n)
    /\ \E cur, prev \in Bundles, now \in Now :
        /\ get_active_bundle(rows, n, cur)
        /\ get_previous_active_bundle(rows, n, cur, prev)
        /\ req' = [req EXCEPT ![r] = InTxn("restore", prev, cur, now)]
        /\ clock' = now
    /\ begun' = begun + 1
    /\ UNCHANGED <<rows, onDisk, elsewhere, pointer, lastEvent, faults>>

TxnCommit(r) ==
    /\ req[r].pc = "commit"
    /\ rows' = Flushed(req[r])
    /\ lastEvent' = [lastEvent EXCEPT ![NetOf[req[r].bundle]] = req[r].op]
    /\ req' = [req EXCEPT ![r].pc = "pointer", ![r].seen = NoRows, ![r].stamp = 0]
    /\ UNCHANGED <<onDisk, elsewhere, pointer, clock, begun, faults>>

BugPointerNotRestored(r) ==
    /\ req[r].pc = "pointer"
    /\ pointer' = IF req[r].op = "restore" THEN pointer
                  ELSE [pointer EXCEPT ![NetOf[req[r].bundle]] =
                           [bundle |-> req[r].bundle, previous |-> req[r].previous]]
    /\ req' = [req EXCEPT ![r].pc = "notify"]
    /\ UNCHANGED <<rows, onDisk, elsewhere, lastEvent, clock, begun, faults>>

BugPointerSwapped(r) ==
    /\ req[r].pc = "pointer"
    /\ pointer' = [pointer EXCEPT ![NetOf[req[r].bundle]] =
                      IF req[r].op = "restore"
                      THEN [bundle |-> req[r].previous, previous |-> req[r].bundle]
                      ELSE [bundle |-> req[r].bundle, previous |-> req[r].previous]]
    /\ req' = [req EXCEPT ![r].pc = "notify"]
    /\ UNCHANGED <<rows, onDisk, elsewhere, lastEvent, clock, begun, faults>>

\* os.replace makes the write atomic; it happens after the commit.
WritePointer(r) ==
    /\ req[r].pc = "pointer"
    /\ pointer' = [pointer EXCEPT ![NetOf[req[r].bundle]] =
                      [bundle |-> req[r].bundle, previous |-> req[r].previous]]
    /\ req' = [req EXCEPT ![r].pc = "notify"]
    /\ UNCHANGED <<rows, onDisk, elsewhere, lastEvent, clock, begun, faults>>

\* Best-effort HTTP reload of ai-runtime: no store of this module changes.
NotifyRuntime(r) ==
    /\ req[r].pc = "notify"
    /\ req' = [req EXCEPT ![r] = Idle]
    /\ UNCHANGED <<rows, onDisk, elsewhere, pointer, lastEvent, clock, begun, faults>>
-----------------------------------------------------------------------------
(***************************************************************************)
(* _register_bundle_from_zip, for a ZIP that validated: replace the        *)
(* directory, upsert the row, and activate when asked to.  A ZIP that does *)
(* not validate, or whose area is inactive, raises before the first step.  *)
(***************************************************************************)

BugRemoveNetwork(r, b, auto) ==
    /\ MayBegin(r, NetOf[b])
    /\ onDisk' = onDisk \ OfNet(NetOf[b])
    /\ req' = [req EXCEPT ![r] = [Idle EXCEPT !.pc = "move", !.bundle = b, !.auto = auto]]
    /\ begun' = begun + 1
    /\ UNCHANGED <<rows, elsewhere, pointer, lastEvent, clock, faults>>

PullRemoveOld(r, b, auto) ==
    /\ MayBegin(r, NetOf[b])
    /\ onDisk' = onDisk \ {b}
    /\ req' = [req EXCEPT ![r] = [Idle EXCEPT !.pc = "move", !.bundle = b, !.auto = auto]]
    /\ begun' = begun + 1
    /\ UNCHANGED <<rows, elsewhere, pointer, lastEvent, clock, faults>>

BugZipNotMoved(r) ==
    /\ req[r].pc = "move"
    /\ req' = [req EXCEPT ![r].pc = "register"]
    /\ UNCHANGED <<rows, onDisk, elsewhere, pointer, lastEvent, clock, begun, faults>>

PullMoveIn(r) ==
    /\ req[r].pc = "move"
    /\ onDisk' = onDisk \cup {req[r].bundle}
    /\ req' = [req EXCEPT ![r].pc = "register"]
    /\ UNCHANGED <<rows, elsewhere, pointer, lastEvent, clock, begun, faults>>

\* UNIQUE (tenant_id, network_id, version, bundle_kind)
VersionTaken(b) ==
    \E c \in OfNet(NetOf[b]) \ {b} :
        rows[c].status # "none" /\ VersionOf[c] = VersionOf[b]

BugFreshRow(b) == rows' = [rows EXCEPT ![b] = [NoRow EXCEPT !.status = "validated"]]

\* repo.upsert_bundle: is_active and activated_at of an old row are kept.
upsert_bundle(b) == rows' = [rows EXCEPT ![b].status = "validated"]

PullRegister(r) ==
    /\ req[r].pc = "register"
    /\ ~VersionTaken(req[r].bundle)
    /\ upsert_bundle(req[r].bundle)
    /\ elsewhere' = elsewhere \ {req[r].bundle}
    /\ req' = [req EXCEPT ![r] = IF @.auto THEN [@ EXCEPT !.pc = "activate"] ELSE Idle]
    /\ UNCHANGED <<onDisk, pointer, lastEvent, clock, begun, faults>>

\* IntegrityError: the directory has been replaced, the table is unchanged.
PullConflict(r) ==
    /\ req[r].pc = "register"
    /\ VersionTaken(req[r].bundle)
    /\ req' = [req EXCEPT ![r] = Idle]
    /\ UNCHANGED <<rows, onDisk, elsewhere, pointer, lastEvent, clock, begun, faults>>

\* register_local_bundle: any directory that validates gets a row, and no file is moved.
\* It may be the bundle's own directory of the model storage, or another.
RegisterLocal(r, b) ==
    /\ MayBegin(r, NetOf[b])
    /\ ~VersionTaken(b)
    /\ upsert_bundle(b)
    /\ \/ b \in onDisk /\ elsewhere' = elsewhere \ {b}
       \/ elsewhere' = elsewhere \cup {b}
    /\ begun' = begun + 1
    /\ UNCHANGED <<onDisk, pointer, lastEvent, req, clock, faults>>
-----------------------------------------------------------------------------
(***************************************************************************)
(* Faults.  An exception rolls the open transaction back and ends the      *)
(* request; a crash ends all of them.  Tables and files survive both.      *)
(***************************************************************************)

Fail(r) ==
    /\ faults < MaxFaults
    /\ Busy(r)
    /\ req[r].pc # "notify"
    /\ req' = [req EXCEPT ![r] = Idle]
    /\ faults' = faults + 1
    /\ UNCHANGED <<rows, onDisk, elsewhere, pointer, lastEvent, clock, begun>>

Crash ==
    /\ faults < MaxFaults
    /\ \E r \in Requests : Busy(r)
    /\ req' = [r \in Requests |-> Idle]
    /\ faults' = faults + 1
    /\ UNCHANGED <<rows, onDisk, elsewhere, pointer, lastEvent, clock, begun>>

\* The steps a request takes once it has begun.
Continue(r) ==
    \/ AutoActivate(r)
    \/ TxnCommit(r)
    \/ WritePointer(r)
    \/ NotifyRuntime(r)
    \/ PullMoveIn(r)
    \/ PullRegister(r)
    \/ PullConflict(r)

Begin(r) ==
    \/ \E b \in Bundles : Activate(r, b)
    \/ \E n \in Networks : Rollback(r, n)
    \/ \E b \in Bundles, auto \in BOOLEAN : PullRemoveOld(r, b, auto)
    \/ \E b \in Bundles : RegisterLocal(r, b)

Next ==
    \/ \E r \in Requests : Begin(r) \/ Continue(r) \/ Fail(r)
    \/ Crash

Spec == Init /\ [][Next]_vars

(***************************************************************************)
(* A request that has begun runs on: a thread of the pool is not starved   *)
(* and every call it makes returns (the reload has a two-second timeout).  *)
(***************************************************************************)
FairSpec == Spec /\ \A r \in Requests : WF_vars(Continue(r))
-----------------------------------------------------------------------------
(***************************************************************************)
(* Properties.                                                             *)
(***************************************************************************)

TypeOK ==
    /\ rows \in [Bundles -> Row]
    /\ onDisk \in SUBSET Bundles
    /\ elsewhere \in SUBSET Bundles
    /\ pointer \in [Networks -> Pointer]
    /\ lastEvent \in [Networks -> {"none", "activate", "restore"}]
    /\ req \in [Requests -> Request]
    /\ clock \in Nat \ {0}
    /\ begun \in Nat
    /\ faults \in Nat

\* The docstring of repo.activate_bundle promises that the other bundles of the
\* (tenant, network) are deactivated: no two rows of a network are active.
AtMostOneActive ==
    \A b, c \in Bundles :
        rows[b].isActive /\ rows[c].isActive /\ NetOf[b] = NetOf[c] => b = c

\* The status column never claims "active" for a row whose is_active flag, the
\* column every query uses, is off.
ActiveStatusHasFlag ==
    \A b \in Bundles : rows[b].status = "active" => rows[b].isActive

\* A pointer file only ever names a bundle that the table has registered and
\* activated, even when requests overlap, fail or die half-way.
PointerWasActivated ==
    \A n \in Networks :
        LET b == pointer[n].bundle IN
        b # NoBundle => /\ NetOf[b] = n
                        /\ rows[b].status # "none"
                        /\ rows[b].activatedAt # 0

\* What active.json selects after its write is what the table calls active:
\* the write never publishes a choice that was already superseded.
PointerWritesActive ==
    [][\A n \in Networks :
        pointer'[n] # pointer[n] => rows'[pointer'[n].bundle].isActive]_vars

\* Once no request is under way on a network, and none ever failed, active.json
\* and the table agree on what it serves (or both say nothing).
PointerInSync ==
    \A n \in Networks :
        faults = 0 /\ (\A r \in Requests : ~BusyOn(r, n))
            => get_active_bundle(rows, n, pointer[n].bundle)

\* The directory active.json leads ai-runtime to is missing only while a pull of
\* that same bundle is between its rmtree and its move, or after a fault, or when the
\* bundle was registered from some other directory, where ai-runtime does not look.
ServedBundleOnDisk ==
    \A n \in Networks :
        LET b == pointer[n].bundle IN
        faults = 0 /\ b # NoBundle
            => \/ b \in onDisk
               \/ \E r \in Requests : req[r].pc = "move" /\ req[r].bundle = b
               \/ b \in elsewhere

\* What rollback_bundle and get_previous_active_bundle say of themselves: a rollback goes
\* to the bundle before.  Where nothing failed and no request is under way, the bundle
\* that active.json records as displaced by the one in service is an answer of the query
\* through re-pulls, activations and earlier rollbacks, and where the database keeps
\* fractions of a second it is the only one.  (A repeated activation records the bundle as
\* its own predecessor; in whole seconds, bundles activated in one second tie.)
RollbackUndoesLastSwitch ==
    \A n \in Networks :
        LET p == pointer[n]
            Answers(b) == get_previous_active_bundle(rows, n, p.bundle, b) IN
        /\ faults = 0
        /\ \A r \in Requests : ~BusyOn(r, n)
        /\ p.previous \notin {NoBundle, p.bundle}
        => /\ Answers(p.previous)
           /\ WholeSeconds \/ \A b \in Bundles : Answers(b) => b = p.previous

\* Without a fault a committed switch reaches active.json, unless a later one
\* replaces it.
SwitchReachesPointer ==
    \A b \in Bundles :
        rows[b].isActive
            ~> (pointer[NetOf[b]].bundle = b \/ ~rows[b].isActive \/ faults > 0)

(***************************************************************************)
(* The registers of ActivationHistory, as the queries compute them.        *)
(***************************************************************************)

Latest(table, S) ==
    IF S = {} THEN NoBundle ELSE CHOOSE b \in S : IsLatest(table, S, b)

Current(n) == Latest(rows, ActiveRows(rows, n))

\* Every answer that the query of a rollback may give.
Targets(table, n, x) ==
    LET S == EverActiveBut(table, n, x) IN {b \in S : IsLatest(table, S, b)}

\* A target was activated in the very second in which x was.
TiedWith(table, n, x) ==
    \E b \in Targets(table, n, x) : table[b].activatedAt = table[x].activatedAt

History ==
    INSTANCE ActivationHistory WITH
        current <- [n \in Networks |-> Current(n)],
        displaced <- [n \in Networks |-> Targets(rows, n, Current(n))],
        sameSecond <- [n \in Networks |-> TiedWith(rows, n, Current(n))],
        lastSwitch <- lastEvent

\* Reading "the active row" and "the newest other row that was ever active" off
\* activated_at yields exactly the bundle in service and the ones it displaced in one
\* second: a rollback undoes the last switch, up to switches of that same second and, where
\* the database keeps microseconds, exactly, through re-pulls, repeated activations,
\* earlier rollbacks and faults.
Refines == History!Spec
=============================================================================
