----------------------------- MODULE SimPipeline -----------------------------
(***************************************************************************)
(* From a sim bundle in object storage to a registered runtime bundle:     *)
(* auto-sync and operators pull sim bundles (ops/auto_sync.py,             *)
(* ops/lifecycle.py), the controller uploads snapshots of the real network *)
(* (services/sync_service.py), and the composer needs both                 *)
(* (ops/composer.py).  A sim bundle that arrives before its snapshot is    *)
(* parked as "pending_real_snapshot" and composed by the snapshot's sync.  *)
(*                                                                         *)
(* Pulls and syncs run in threads of one process and share only the        *)
(* database, the sim bundle directories and auto-sync's in_progress set;   *)
(* each action below is one transaction or one call.  Registering the      *)
(* composed bundle is one step here; BundleLifecycle has its detail.       *)
(***************************************************************************)
EXTENDS Integers, FiniteSets

CONSTANTS
    Sims,        \* sim bundles; each is one object, one id, one network
    Networks,
    Payloads,    \* contents of a real-network snapshot
    Events,      \* source_event_id values the controller uses
    SimNet,      \* network named by each sim manifest
    PayloadNet,  \* network named by each snapshot
    Verdict,     \* what composing a sim bundle with a snapshot comes to
    None,
    AutoPulls,   \* the listeners and the poller of auto-sync
    Poller,      \* which of them is the poller, or None
    ApiPulls,    \* concurrent POST /ops/sim-bundles/pull callers
    Syncs,       \* concurrent PUT .../real-network callers
    Deployments  \* who pulls and syncs in a deployment, whether they meet, and (a
                 \* bound) how many exceptions, failed downloads and crashes there are

\* "register_error" is a BundleLifecycleError of the registration, "exception"
\* any error that is neither that nor a ComposeError: the ValueError of
\* compile_real_normalization, the IntegrityError of a version already taken.
Verdicts == {"composed", "compose_error", "register_error", "exception"}

Pulls == AutoPulls \cup ApiPulls

ASSUME SimPipelineAssumption ==
    /\ SimNet \in [Sims -> Networks]
    /\ PayloadNet \in [Payloads -> Networks]
    /\ Verdict \in [Sims -> [Payloads -> Verdicts]]
    /\ None \notin Sims \cup Payloads \cup AutoPulls
    /\ AutoPulls \cap ApiPulls = {}
    /\ Poller \in AutoPulls \cup {None}
    /\ \A d \in Deployments :
         d \in [pulls : SUBSET Pulls, syncs : SUBSET Syncs, overlap : BOOLEAN, faults : Nat]

VARIABLES
    deployment,  \* one of Deployments, for the whole behaviour
    bucket,      \* sim bundles uploaded to object storage
    simRow,      \* model_bundle.status of each sim bundle
    simDir,      \* sim bundles unpacked under sim_bundles/
    runtime,     \* snapshot each registered runtime bundle was composed with
    snapshot,    \* real_network_snapshot of each network
    compiled,    \* the composer's real_normalization.json: the snapshot it was made from
    event,       \* sync_event: the payload recorded under each event id
    inProgress,  \* auto_sync._state.in_progress
    pull,        \* the local state of each pull
    sync,        \* the local state of each snapshot sync
    faults,
    blind        \* sim bundles pulled although their look-up failed (a history)

vars == <<deployment, blind, compiled, bucket, simRow, simDir, runtime, snapshot, event, inProgress,
          pull, sync, faults>>
-----------------------------------------------------------------------------
\* "none": the table has no row for this id.  Operators named Bug... are faulty
\* variants of the definition they precede, to show that the properties notice.
SimStatus == {"none", "staged", "pending_real_snapshot", "composed", "rejected"}

\* pc names the step a pull or a sync takes next.
Pull ==
    [pc : {"idle", "check", "download", "store", "stage", "compose", "map", "defer",
           "register", "release"},
     sim : Sims \cup {None},
     built : Payloads \cup {None}]

Sync ==
    [pc : {"idle", "list", "retry", "map", "register", "mark", "reject"},
     net : Networks \cup {None},
     todo : SUBSET Sims,
     sim : Sims \cup {None},
     built : Payloads \cup {None}]

NoPull == [pc |-> "idle", sim |-> None, built |-> None]
NoSync == [pc |-> "idle", net |-> None, todo |-> {}, sim |-> None, built |-> None]

PullOn(w, n) == pull[w].pc # "idle" /\ SimNet[pull[w].sim] = n
SyncOn(c, n) == sync[c].pc # "idle" /\ sync[c].net = n

Quiet(n) == (\A w \in Pulls : ~PullOn(w, n)) /\ (\A c \in Syncs : ~SyncOn(c, n))

\* Nothing in the code keeps a pull and a sync apart: without overlap, it is the
\* deployment in which they happen not to meet.
MayBegin(n) == deployment.overlap \/ Quiet(n)

Init ==
    /\ deployment \in Deployments
    /\ bucket = {}
    /\ simRow = [s \in Sims |-> "none"]
    /\ simDir = {}
    /\ runtime = [s \in Sims |-> None]
    /\ snapshot = [n \in Networks |-> None]
    /\ compiled = [n \in Networks |-> None]
    /\ event = [e \in Events |-> None]
    /\ inProgress = {}
    /\ pull = [w \in Pulls |-> NoPull]
    /\ sync = [c \in Syncs |-> NoSync]
    /\ faults = 0
    /\ blind = {}

\* build-sim-bundle and mc cp, outside this service.
Upload(s) ==
    /\ s \notin bucket
    /\ bucket' = bucket \cup {s}
    /\ UNCHANGED <<deployment, blind, compiled, simRow, simDir, runtime, snapshot, event, inProgress, pull, sync, faults>>
-----------------------------------------------------------------------------
(***************************************************************************)
(* Pulls.                                                                  *)
(***************************************************************************)

Advance(w, pc) == pull' = [pull EXCEPT ![w].pc = pc]

BugClaimUnlocked(w, s) ==
    /\ pull[w].pc = "idle"
    /\ s \in bucket
    /\ MayBegin(SimNet[s])
    /\ inProgress' = inProgress \cup {s}
    /\ pull' = [pull EXCEPT ![w] = [NoPull EXCEPT !.pc = "check", !.sim = s]]
    /\ UNCHANGED <<deployment, blind, compiled, bucket, simRow, simDir, runtime, snapshot, event, sync, faults>>

\* _handle_uri returns at once when another thread is on the same object.
Claim(w, s) ==
    /\ pull[w].pc = "idle"
    /\ s \in bucket
    /\ s \notin inProgress
    /\ MayBegin(SimNet[s])
    /\ inProgress' = inProgress \cup {s}
    /\ pull' = [pull EXCEPT ![w] = [NoPull EXCEPT !.pc = "check", !.sim = s]]
    /\ UNCHANGED <<deployment, blind, compiled, bucket, simRow, simDir, runtime, snapshot, event, sync, faults>>

BugKnownWhenComposed(w) ==
    /\ pull[w].pc = "check"
    /\ Advance(w, IF simRow[pull[w].sim] # "composed" THEN "download" ELSE "release")
    /\ UNCHANGED <<deployment, blind, compiled, bucket, simRow, simDir, runtime, snapshot, event, inProgress, sync, faults>>

BugNeedsSnapshot(w) ==
    /\ pull[w].pc = "check"
    /\ Advance(w, IF simRow[pull[w].sim] = "none" /\ snapshot[SimNet[pull[w].sim]] # None
                  THEN "download" ELSE "release")
    /\ UNCHANGED <<deployment, blind, compiled, bucket, simRow, simDir, runtime, snapshot, event, inProgress, sync, faults>>

\* A row of any status makes the object known; it is never pulled again.
CheckKnown(w) ==
    /\ pull[w].pc = "check"
    /\ Advance(w, IF simRow[pull[w].sim] = "none" THEN "download" ELSE "release")
    /\ UNCHANGED <<deployment, blind, compiled, bucket, simRow, simDir, runtime, snapshot, event, inProgress, sync, faults>>

\* A look-up that fails says the object is unknown.
CheckFails(w) ==
    /\ faults < deployment.faults
    /\ pull[w].pc = "check"
    /\ Advance(w, "download")
    /\ faults' = faults + 1
    /\ blind' = blind \cup {pull[w].sim}
    /\ UNCHANGED <<deployment, compiled, bucket, simRow, simDir, runtime, snapshot, event, inProgress, sync>>

\* An operator's pull asks neither question.
ApiPull(w, s) ==
    /\ pull[w].pc = "idle"
    /\ s \in bucket
    /\ MayBegin(SimNet[s])
    /\ pull' = [pull EXCEPT ![w] = [NoPull EXCEPT !.pc = "download", !.sim = s]]
    /\ UNCHANGED <<deployment, blind, compiled, bucket, simRow, simDir, runtime, snapshot, event, inProgress, sync, faults>>

\* Download, validate, and remove the directory of an earlier pull.
Download(w) ==
    /\ pull[w].pc = "download"
    /\ simDir' = simDir \ {pull[w].sim}
    /\ Advance(w, "store")
    /\ UNCHANGED <<deployment, blind, compiled, bucket, simRow, runtime, snapshot, event, inProgress, sync, faults>>

Store(w) ==
    /\ pull[w].pc = "store"
    /\ simDir' = simDir \cup {pull[w].sim}
    /\ Advance(w, "stage")
    /\ UNCHANGED <<deployment, blind, compiled, bucket, simRow, runtime, snapshot, event, inProgress, sync, faults>>

Stage(w) ==
    /\ pull[w].pc = "stage"
    /\ simRow' = [simRow EXCEPT ![pull[w].sim] = "staged"]
    /\ Advance(w, "compose")
    /\ UNCHANGED <<deployment, blind, compiled, bucket, simDir, runtime, snapshot, event, inProgress, sync, faults>>

\* compile_real_normalization; no file for a snapshot that composes with nothing.
Compile(n) ==
    LET p == snapshot[n] IN
    IF \A s \in Sims : SimNet[s] = n => Verdict[s][p] = "exception" THEN compiled
    ELSE [compiled EXCEPT ![n] = p]

(***************************************************************************)
(* compose_runtime_bundle_from_sim_zip looks for the snapshot              *)
(* (MissingRealSnapshotError without one), compiles it to a file of the    *)
(* area, ...                                                               *)
(***************************************************************************)
Compose(w) ==
    /\ pull[w].pc = "compose"
    /\ LET n == SimNet[pull[w].sim] IN
       IF snapshot[n] = None
       THEN Advance(w, "defer") /\ UNCHANGED compiled
       ELSE /\ compiled' = Compile(n)
            /\ Advance(w, IF compiled'[n] = snapshot[n] THEN "map" ELSE "release")
    /\ UNCHANGED <<deployment, blind, bucket, simRow, simDir, runtime, snapshot, event, inProgress, sync, faults>>

\* ... and maps the bundle onto what that file then says, which may be the work of
\* another composer.  An error ends the pull with the row still "staged".
MapOnto(w) ==
    /\ pull[w].pc = "map"
    /\ LET s == pull[w].sim
           p == compiled[SimNet[s]]
       IN  pull' = [pull EXCEPT ![w] =
               [@ EXCEPT !.pc = IF Verdict[s][p] = "composed" THEN "register" ELSE "release",
                         !.built = p]]
    /\ UNCHANGED <<deployment, blind, compiled, bucket, simRow, simDir, runtime, snapshot, event, inProgress, sync, faults>>

\* A transaction of its own, some time after the composer looked.
Defer(w) ==
    /\ pull[w].pc = "defer"
    /\ simRow' = [simRow EXCEPT ![pull[w].sim] = "pending_real_snapshot"]
    /\ Advance(w, "release")
    /\ UNCHANGED <<deployment, blind, compiled, bucket, simDir, runtime, snapshot, event, inProgress, sync, faults>>

\* The sim row stays "staged" on this path.
Register(w) ==
    /\ pull[w].pc = "register"
    /\ runtime' = [runtime EXCEPT ![pull[w].sim] = pull[w].built]
    /\ Advance(w, "release")
    /\ UNCHANGED <<deployment, blind, compiled, bucket, simRow, simDir, snapshot, event, inProgress, sync, faults>>

\* The finally block of _handle_uri; an operator's pull just returns.
Release(w) ==
    /\ pull[w].pc = "release"
    /\ inProgress' = IF w \in AutoPulls THEN inProgress \ {pull[w].sim} ELSE inProgress
    /\ pull' = [pull EXCEPT ![w] = NoPull]
    /\ UNCHANGED <<deployment, blind, compiled, bucket, simRow, simDir, runtime, snapshot, event, sync, faults>>
-----------------------------------------------------------------------------
(***************************************************************************)
(* Snapshot syncs.                                                         *)
(***************************************************************************)

\* An id already recorded ends the request at once: "duplicate" for the same payload,
\* a conflict error for another.  The transaction is one step here, so that no two
\* deliveries of one id overlap; SyncEvents has its steps, and what comes of those.
Put(c, e, p) ==
    /\ sync[c].pc = "idle"
    /\ event[e] = None
    /\ MayBegin(PayloadNet[p])
    /\ event' = [event EXCEPT ![e] = p]
    /\ snapshot' = [snapshot EXCEPT ![PayloadNet[p]] = p]
    /\ sync' = [sync EXCEPT ![c] = [NoSync EXCEPT !.pc = "list", !.net = PayloadNet[p]]]
    /\ UNCHANGED <<deployment, blind, compiled, bucket, simRow, simDir, runtime, inProgress, pull, faults>>

\* The sync itself goes on to the next sim bundle of its list, or returns.
NextRetry(c, todo) ==
    sync' = [sync EXCEPT ![c] =
                IF todo = {} THEN NoSync
                ELSE [NoSync EXCEPT !.pc = "retry", !.net = sync[c].net, !.todo = todo]]

\* retry_pending_sim_bundles lists once; compiling real_normalization and the
\* reload of ai-runtime have come before, and no error of theirs gets this far.
ListPending(c) ==
    /\ sync[c].pc = "list"
    /\ NextRetry(c, {s \in Sims : SimNet[s] = sync[c].net
                                    /\ simRow[s] = "pending_real_snapshot"})
    /\ UNCHANGED <<deployment, blind, compiled, bucket, simRow, simDir, runtime, snapshot, event, inProgress, pull, faults>>

\* One turn of the loop; without the directory or a snapshot the bundle stays pending.
\* (The order is created_at DESC, to the second.)
RetryCompose(c, s) ==
    /\ sync[c].pc = "retry"
    /\ s \in sync[c].todo
    /\ LET n == SimNet[s]
           rest == sync[c].todo \ {s}
       IN  IF s \notin simDir \/ snapshot[n] = None
           THEN NextRetry(c, rest) /\ UNCHANGED compiled
           ELSE /\ compiled' = Compile(n)
                /\ IF compiled'[n] # snapshot[n] THEN NextRetry(c, {})
                   ELSE sync' = [sync EXCEPT ![c] =
                           [@ EXCEPT !.pc = "map", !.todo = rest, !.sim = s]]
    /\ UNCHANGED <<deployment, blind, bucket, simRow, simDir, runtime, snapshot, event, inProgress, pull, faults>>

BugOneRetryOnly(c) ==
    /\ sync[c].pc = "map"
    /\ NextRetry(c, {})
    /\ UNCHANGED <<deployment, blind, compiled, bucket, simRow, simDir, runtime, snapshot, event, inProgress, pull, faults>>

\* A registration error leaves the bundle pending and goes on; an exception of another
\* class leaves the loop.
RetryMap(c) ==
    /\ sync[c].pc = "map"
    /\ LET s == sync[c].sim
           p == compiled[SimNet[s]]
           To(pc) == sync' = [sync EXCEPT ![c] = [@ EXCEPT !.pc = pc, !.built = p]]
       IN  CASE Verdict[s][p] = "composed" -> To("register")
             [] Verdict[s][p] = "compose_error" -> To("reject")
             [] Verdict[s][p] = "register_error" -> NextRetry(c, sync[c].todo)
             [] Verdict[s][p] = "exception" -> NextRetry(c, {})
    /\ UNCHANGED <<deployment, blind, compiled, bucket, simRow, simDir, runtime, snapshot, event, inProgress, pull, faults>>

BugMarkWithoutRegister(c) ==
    /\ sync[c].pc = "register"
    /\ sync' = [sync EXCEPT ![c].pc = "mark"]
    /\ UNCHANGED <<deployment, blind, compiled, bucket, simRow, simDir, runtime, snapshot, event, inProgress, pull, faults>>

RetryRegister(c) ==
    /\ sync[c].pc = "register"
    /\ runtime' = [runtime EXCEPT ![sync[c].sim] = sync[c].built]
    /\ sync' = [sync EXCEPT ![c].pc = "mark"]
    /\ UNCHANGED <<deployment, blind, compiled, bucket, simRow, simDir, snapshot, event, inProgress, pull, faults>>

BugRetryStatus(c) ==
    /\ sync[c].pc = "mark"
    /\ simRow' = [simRow EXCEPT ![sync[c].sim] = "validated"]
    /\ NextRetry(c, sync[c].todo)
    /\ UNCHANGED <<deployment, blind, compiled, bucket, simDir, runtime, snapshot, event, inProgress, pull, faults>>

RetryMark(c) ==
    /\ sync[c].pc = "mark"
    /\ simRow' = [simRow EXCEPT ![sync[c].sim] = "composed"]
    /\ NextRetry(c, sync[c].todo)
    /\ UNCHANGED <<deployment, blind, compiled, bucket, simDir, runtime, snapshot, event, inProgress, pull, faults>>

RetryReject(c) ==
    /\ sync[c].pc = "reject"
    /\ simRow' = [simRow EXCEPT ![sync[c].sim] = "rejected"]
    /\ NextRetry(c, sync[c].todo)
    /\ UNCHANGED <<deployment, blind, compiled, bucket, simDir, runtime, snapshot, event, inProgress, pull, faults>>
-----------------------------------------------------------------------------
(***************************************************************************)
(* Faults.                                                                 *)
(***************************************************************************)

\* Any error of a pull reaches the handler and the finally block.
FailPull(w) ==
    /\ faults < deployment.faults
    /\ pull[w].pc \notin {"idle", "check", "release"}
    /\ Advance(w, "release")
    /\ faults' = faults + 1
    /\ UNCHANGED <<deployment, blind, compiled, bucket, simRow, simDir, runtime, snapshot, event, inProgress, sync>>

\* sync_real_network_snapshot swallows every error after its commit.
FailSync(c) ==
    /\ faults < deployment.faults
    /\ sync[c].pc # "idle"
    /\ sync' = [sync EXCEPT ![c] = NoSync]
    /\ faults' = faults + 1
    /\ UNCHANGED <<deployment, blind, compiled, bucket, simRow, simDir, runtime, snapshot, event, inProgress, pull>>

\* in_progress lives in memory; the tables and the directories do not.
Crash ==
    /\ faults < deployment.faults
    /\ pull' = [w \in Pulls |-> NoPull]
    /\ sync' = [c \in Syncs |-> NoSync]
    /\ inProgress' = {}
    /\ faults' = faults + 1
    /\ UNCHANGED <<deployment, blind, compiled, bucket, simRow, simDir, runtime, snapshot, event>>
-----------------------------------------------------------------------------
PullStep(w) ==
    \/ CheckKnown(w)
    \/ Download(w)
    \/ Store(w)
    \/ Stage(w)
    \/ Compose(w)
    \/ MapOnto(w)
    \/ Defer(w)
    \/ Register(w)
    \/ Release(w)

SyncStep(c) ==
    \/ ListPending(c)
    \/ \E s \in Sims : RetryCompose(c, s)
    \/ RetryMap(c)
    \/ RetryRegister(c)
    \/ RetryMark(c)
    \/ RetryReject(c)

Next ==
    \/ \E s \in Sims : Upload(s)
    \/ \E w \in AutoPulls \cap deployment.pulls, s \in Sims : Claim(w, s)
    \/ \E w \in ApiPulls \cap deployment.pulls, s \in Sims : ApiPull(w, s)
    \/ \E w \in Pulls : PullStep(w) \/ CheckFails(w) \/ FailPull(w)
    \/ \E c \in deployment.syncs, e \in Events, p \in Payloads : Put(c, e, p)
    \/ \E c \in Syncs : SyncStep(c) \/ FailSync(c)
    \/ Crash

Spec == Init /\ [][Next]_vars

(***************************************************************************)
(* Threads run on, and the poller hands every object it lists to           *)
(* _handle_uri on every pass.                                              *)
(***************************************************************************)
FairSpec ==
    /\ Spec
    /\ \A w \in Pulls : WF_vars(PullStep(w))
    /\ \A c \in Syncs : WF_vars(SyncStep(c))
    /\ \A s \in Sims : SF_vars(Poller # None /\ Claim(Poller, s))
-----------------------------------------------------------------------------
(***************************************************************************)
(* Properties.                                                             *)
(***************************************************************************)

TypeOK ==
    /\ deployment \in Deployments
    /\ bucket \in SUBSET Sims
    /\ simRow \in [Sims -> SimStatus]
    /\ simDir \in SUBSET Sims
    /\ runtime \in [Sims -> Payloads \cup {None}]
    /\ snapshot \in [Networks -> Payloads \cup {None}]
    /\ compiled \in [Networks -> Payloads \cup {None}]
    /\ event \in [Events -> Payloads \cup {None}]
    /\ inProgress \in SUBSET Sims
    /\ pull \in [Pulls -> Pull]
    /\ sync \in [Syncs -> Sync]
    /\ faults \in Nat
    /\ blind \in SUBSET Sims

\* A runtime bundle descends from a sim bundle the table knows, and was composed
\* with a snapshot of its own network that the controller really delivered and
\* that fits it, although composers share the file it is compiled to; a row says
\* "composed" only when that runtime bundle exists.
Lineage ==
    \A s \in Sims :
        /\ simRow[s] = "composed" => runtime[s] # None
        /\ runtime[s] # None =>
             /\ simRow[s] # "none"
             /\ PayloadNet[runtime[s]] = SimNet[s]
             /\ Verdict[s][runtime[s]] = "composed"
             /\ \E e \in Events : event[e] = runtime[s]

\* Auto-sync pulls an object once: whichever of the listeners and the poller finds it,
\* and however often, its row is never put back to "staged", unless a look-up of the row
\* failed.
AutoSyncPullsOnce ==
    [][deployment.pulls \subseteq AutoPulls => \A s \in Sims \ blind :
        simRow[s] \notin {"none", "staged"} => simRow'[s] # "staged"]_vars

\* Nothing but the first pull of an object touches its directory: once auto-sync
\* has a row for a sim bundle, the files a later retry composes from are there.
KnownSimOnDisk ==
    deployment.pulls \subseteq AutoPulls =>
        \A s \in Sims \ blind : simRow[s] # "none" => s \in simDir

\* The snapshot p cannot compose s, or may end the retry before its turn.
Unlucky(s, p) ==
    /\ p # None
    /\ \/ Verdict[s][p] = "register_error"
       \/ \E t \in Sims : SimNet[t] = SimNet[s] /\ Verdict[t][p] = "exception"

\* Where pulls and syncs do not meet: when a sim bundle is parked although the
\* snapshot it waits for is there, and nothing is under way and nothing failed,
\* composing or registering it is what does not work, or an exception over another
\* bundle ended the retry.
ParkedForAReason ==
    \A s \in Sims :
        LET p == snapshot[SimNet[s]] IN
        ~deployment.overlap /\ faults = 0 /\ Quiet(SimNet[s])
            => (p # None /\ simRow[s] = "pending_real_snapshot" => Unlucky(s, p))

\* Every uploaded sim bundle is registered in the end, although notifications get
\* lost: the poller finds it.
UploadedGetsKnown ==
    \A s \in Sims : s \in bucket ~> simRow[s] # "none"

\* Pulled first and parked: without a fault, and where pulls and syncs do not meet, a
\* sim bundle whose network gets a snapshot that fits is composed in the end.
ParkedGetsComposed ==
    \A s \in Sims :
        LET p == snapshot[SimNet[s]] IN
        simRow[s] = "pending_real_snapshot" /\ p # None
            ~> \/ runtime[s] # None \/ simRow[s] = "rejected"
               \/ Unlucky(s, p) \/ faults > 0 \/ deployment.overlap
=============================================================================
