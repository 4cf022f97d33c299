------------------------------ MODULE SyncEvents ------------------------------
(***************************************************************************)
(* The internal sync API of one area (api/internal_sync.py over            *)
(* services/sync_service.py and db/repositories.py): the central backend   *)
(* delivers areas, artifacts, cross configs and snapshots of the real      *)
(* network, each under a source_event_id, and may deliver anything again   *)
(* at any time.  Handlers run in the thread pool of the HTTP server and    *)
(* may overlap, fail and crash.  A handler                                 *)
(*                                                                         *)
(*   check    looks the event id up,                                       *)
(*   load     reads the rows it is about to change,                        *)
(*   write    flushes, records the event and commits,                      *)
(*   read..   works on files, outside the transaction.                     *)
(*                                                                         *)
(* What a snapshot compiles to is Commissioning's part, the bundles that   *)
(* wait for it are SimPipeline's; here a file is the payload it was made   *)
(* from.                                                                   *)
(***************************************************************************)
EXTENDS Integers, Sequences, FiniteSets

CONSTANTS
    Callers,        \* requests under way at once
    Ids,            \* source_event_id values
    Crosses,
    Versions,       \* (policy, config) versions of an artifact
    Payloads,       \* contents of a config or a snapshot
    NetworkIds,
    DefaultNetwork, \* area_<id>
    None,
    Settings,       \* [database, deliveries]: what a behaviour runs on and sends
    MaxFaults       \* bound: exceptions and crashes

Keys == {"area", "snapshot"} \cup Crosses \cup Versions

\* What the backend may send.
Delivery ==
    [kind : {"area"}, id : Ids, network : NetworkIds \cup {None}, active : BOOLEAN]
    \cup [kind : {"snapshot"}, id : Ids, network : NetworkIds \cup {None}, data : Payloads]
    \cup [kind : {"config"}, id : Ids, cross : Crosses, data : Payloads]
    \cup [kind : {"artifact"}, id : Ids, version : Versions, path : Payloads, activate : BOOLEAN]

\* Rows of the tables.
Area == [network : NetworkIds, active : BOOLEAN]
Content == [network : NetworkIds, data : Payloads]
Config == [data : Payloads]
Artifact == [path : Payloads, status : {"ready", "invalid", "deprecated"}, active : BOOLEAN]

ASSUME SyncAssumption ==
    /\ None \notin Payloads \cup NetworkIds \cup Delivery
    /\ None \notin Area \cup Content \cup Config \cup Artifact
    /\ DefaultNetwork \in NetworkIds
    /\ Crosses \cap Versions = {} /\ {"area", "snapshot"} \cap (Crosses \cup Versions) = {}
    /\ \A s \in Settings : s.database \in {"mysql", "sqlite"} /\ s.deliveries \subseteq Delivery
    /\ MaxFaults \in Nat

VARIABLES
    setting,    \* one of Settings
    rows,       \* the four tables: a row, or None, under each key
    event,      \* sync_event: the delivery recorded under each id, or None
    legacy,     \* cross config files
    norm,       \* files of real_normalization: the payload each was compiled from
    call,       \* the local state of each handler
    faults,
    applied,    \* deliveries committed under each id, in order (a history)
    met,        \* ids of which two deliveries were under way at once (a history)
    calm        \* keys that the last change settled alone and to its end (a history)

vars == <<setting, rows, event, legacy, norm, call, faults, applied, met, calm>>
-----------------------------------------------------------------------------
Idle == [pc |-> "idle", job |-> None, seen |-> None, data |-> None, alone |-> FALSE]

\* A job other than a delivery: no event id goes with it.
Recompile == [kind |-> "recompile"]
Activate(v) == [kind |-> "activate", version |-> v]

\* Rows that a job is about.
KeysOf(j) ==
    CASE j.kind = "area" -> {"area"}
      [] j.kind = "snapshot" -> {"area", "snapshot"}
      [] j.kind = "recompile" -> {"snapshot"}
      [] j.kind = "config" -> {j.cross}
      [] j.kind \in {"artifact", "activate"} -> Versions

Busy(c) == call[c].pc # "idle"

BusyOn(c, K) == Busy(c) /\ KeysOf(call[c].job) \cap K # {}

Delivering(c, id) == Busy(c) /\ call[c].job.kind \notin {"recompile", "activate"} /\ call[c].job.id = id

Init ==
    /\ setting \in Settings
    /\ rows = [k \in Keys |-> None]
    /\ event = [i \in Ids |-> None]
    /\ legacy = [x \in Crosses |-> None]
    /\ norm = [crosses |-> None, network |-> None, report |-> None]
    /\ call = [c \in Callers |-> Idle]
    /\ faults = 0
    /\ applied = [i \in Ids |-> << >>]
    /\ met = {}
    /\ calm = Keys
-----------------------------------------------------------------------------
(***************************************************************************)
(* What a transaction makes of the rows it has read.                       *)
(***************************************************************************)

\* A network id that is left out keeps the one stored, or is area_<id>.
upsert_area(seen, network, active) ==
    [network |-> IF network # None THEN network
                 ELSE IF seen["area"] # None THEN seen["area"].network ELSE DefaultNetwork,
     active  |-> active]

\* The siblings are selected after the row of the artifact itself.
activate_artifact(seen, siblings, v) ==
    [w \in {u \in Versions : u = v \/ siblings[u] # None} |->
        IF w = v THEN [seen[v] EXCEPT !.active = TRUE, !.status = "ready"]
        ELSE IF siblings[w].active
             THEN [siblings[w] EXCEPT !.active = FALSE, !.status = "deprecated"]
        ELSE siblings[w]]

\* is_active is not touched, so that an active artifact may become invalid.
upsert_artifact(seen, d) ==
    [path |-> d.path, status |-> "invalid",
     active |-> IF seen[d.version] = None THEN FALSE ELSE seen[d.version].active]

Wanted(j, seen, siblings) ==
    CASE j.kind = "area" -> [k \in {"area"} |-> upsert_area(seen, j.network, j.active)]
      [] j.kind = "snapshot" ->
            LET net == IF j.network # None THEN j.network ELSE DefaultNetwork IN
            [k \in {"area", "snapshot"} |->
                IF k = "area" THEN upsert_area(seen, net, TRUE)
                ELSE [network |-> net, data |-> j.data]]
      [] j.kind = "config" -> [k \in {j.cross} |-> [data |-> j.data]]
      [] j.kind = "artifact" ->
            LET art == [seen EXCEPT ![j.version] = upsert_artifact(seen, j)] IN
            IF j.activate THEN activate_artifact(art, siblings, j.version)
            ELSE [k \in {j.version} |-> art[k]]
      [] j.kind = "activate" -> activate_artifact(seen, siblings, j.version)

\* An UPDATE sets the columns that differ from what was loaded.
Column(now, old, new) == IF new # old THEN new ELSE now

Flushed(j, seen, siblings) ==
    LET want == Wanted(j, seen, siblings)
        old(k) == IF k = "area" \/ k = "snapshot" \/ seen[k] # None THEN seen[k] ELSE siblings[k]
    IN  [k \in Keys |->
            IF k \notin DOMAIN want THEN rows[k]
            ELSE IF old(k) = None THEN want[k]
            ELSE [f \in DOMAIN want[k] |-> Column(rows[k][f], old(k)[f], want[k][f])]]

\* An INSERT of a row that another transaction has inserted meanwhile.
Inserted(j, seen) ==
    \E k \in KeysOf(j) \ (IF j.kind = "artifact" THEN Versions \ {j.version} ELSE {}) :
        seen[k] = None /\ rows[k] # None
-----------------------------------------------------------------------------
(***************************************************************************)
(* Requests.                                                               *)
(***************************************************************************)

\* Whoever is under way on one of the rows is no longer alone.
Start(c, j, pc) ==
    /\ ~Busy(c)
    /\ call' = [q \in Callers |->
          IF q = c THEN [Idle EXCEPT !.pc = pc, !.job = j,
                                     !.alone = \A r \in Callers : ~BusyOn(r, KeysOf(j))]
          ELSE IF BusyOn(q, KeysOf(j)) THEN [call[q] EXCEPT !.alone = FALSE]
          ELSE call[q]]

\* PUT of an area, an artifact, a cross config or a snapshot; first come or again.
Deliver(c, d) ==
    /\ Start(c, d, "check")
    /\ met' = IF \E q \in Callers : Delivering(q, d.id) THEN met \cup {d.id} ELSE met
    /\ UNCHANGED <<setting, rows, event, legacy, norm, faults, applied, calm>>

\* POST real-normalization/recompile; an error without a snapshot.
PostRecompile(c) ==
    /\ rows["snapshot"] # None
    /\ Start(c, Recompile, "read")
    /\ UNCHANGED <<setting, rows, event, legacy, norm, faults, applied, met, calm>>

\* POST artifacts/<id>/activate: no event id, and an error for an unknown artifact.
PostActivate(c, v) ==
    /\ rows[v] # None
    /\ Start(c, Activate(v), "load")
    /\ UNCHANGED <<setting, rows, event, legacy, norm, faults, applied, met, calm>>

\* Rows that a job brings in step with their siblings or their files.
Settles(j) == IF j.kind = "artifact" /\ ~j.activate THEN {} ELSE KeysOf(j)

\* A job that is done with k: k is calm if nobody else was on it meanwhile.
Finish(c) ==
    /\ call' = [call EXCEPT ![c] = Idle]
    /\ calm' = IF call[c].alone THEN calm \cup Settles(call[c].job) ELSE calm

Answer(c) == call' = [call EXCEPT ![c] = Idle] /\ UNCHANGED calm

BugOrphanConfig(j) == j.kind = "artifact" /\ rows["area"] = None

\* An artifact and a config need an area.
Orphan(j) == j.kind \in {"artifact", "config"} /\ rows["area"] = None

BugConflictReplaces(c) ==
    /\ call[c].pc = "check"
    /\ IF event[call[c].job.id] = call[c].job THEN Answer(c)
       ELSE IF setting.database = "sqlite"
            THEN call' = [call EXCEPT ![c].pc = "load"] /\ UNCHANGED calm
       ELSE IF Orphan(call[c].job) THEN Answer(c)
       ELSE call' = [call EXCEPT ![c].pc = "write", ![c].seen = rows] /\ UNCHANGED calm
    /\ UNCHANGED <<setting, rows, event, legacy, norm, faults, applied, met>>

(***************************************************************************)
(* _ensure_idempotent: a recorded id ends the request, as a duplicate or   *)
(* as a conflict.  The first SELECT fixes what a transaction of MySQL      *)
(* reads (REPEATABLE READ); SQLite's driver begins none before the flush.  *)
(***************************************************************************)
Check(c) ==
    /\ call[c].pc = "check"
    /\ IF event[call[c].job.id] # None THEN Answer(c)
       ELSE IF setting.database = "sqlite"
            THEN call' = [call EXCEPT ![c].pc = "load"] /\ UNCHANGED calm
       ELSE IF Orphan(call[c].job) THEN Answer(c)
       ELSE call' = [call EXCEPT ![c].pc = "write", ![c].seen = rows] /\ UNCHANGED calm
    /\ UNCHANGED <<setting, rows, event, legacy, norm, faults, applied, met>>

Load(c) ==
    /\ call[c].pc = "load"
    /\ IF Orphan(call[c].job) THEN Answer(c)
       ELSE call' = [call EXCEPT ![c].pc = "write", ![c].seen = rows] /\ UNCHANGED calm
    /\ UNCHANGED <<setting, rows, event, legacy, norm, faults, applied, met>>

IsDelivery(j) == j.kind \notin {"recompile", "activate"}

\* record_sync_event looks the id up once more, and is content to find it.  What MySQL
\* shows it is as old as the first look, so that the unique key decides.
Refused(c) ==
    \/ Inserted(call[c].job, call[c].seen)
    \/ /\ IsDelivery(call[c].job) /\ setting.database = "mysql"
       /\ event[call[c].job.id] # None

\* What the SELECT of the siblings shows.
Siblings(c) == {call[c].seen} \cup (IF setting.database = "sqlite" THEN {rows} ELSE {})

AfterWrite == [area |-> "end", artifact |-> "end", activate |-> "end", config |-> "file",
               snapshot |-> "read"]

BugActivateKeepsSiblings(c) ==
    /\ call[c].pc = "write"
    /\ ~Refused(c)
    /\ LET j == call[c].job IN
          /\ rows' = Flushed(j, call[c].seen, [v \in Keys |-> None])
          /\ calm' = calm \ Settles(j)
          /\ IF IsDelivery(j)
             THEN /\ event' = [event EXCEPT ![j.id] = IF @ = None THEN j ELSE @]
                  /\ applied' = [applied EXCEPT ![j.id] = Append(@, j)]
             ELSE UNCHANGED <<event, applied>>
          /\ call' = [call EXCEPT ![c].pc = AfterWrite[j.kind], ![c].seen = None]
    /\ UNCHANGED <<setting, legacy, norm, faults, met>>

Write(c) ==
    /\ call[c].pc = "write"
    /\ ~Refused(c)
    /\ LET j == call[c].job IN
          /\ \E siblings \in Siblings(c) : rows' = Flushed(j, call[c].seen, siblings)
          /\ calm' = calm \ Settles(j)
          /\ IF IsDelivery(j)
             THEN /\ event' = [event EXCEPT ![j.id] = IF @ = None THEN j ELSE @]
                  /\ applied' = [applied EXCEPT ![j.id] = Append(@, j)]
             ELSE UNCHANGED <<event, applied>>
          /\ call' = [call EXCEPT ![c].pc = AfterWrite[j.kind], ![c].seen = None]
    /\ UNCHANGED <<setting, legacy, norm, faults, met>>

\* IntegrityError: the transaction is rolled back.
WriteRefused(c) ==
    /\ call[c].pc = "write"
    /\ Refused(c)
    /\ Answer(c)
    /\ UNCHANGED <<setting, rows, event, legacy, norm, faults, applied, met>>

End(c) ==
    /\ call[c].pc = "end"
    /\ Finish(c)
    /\ UNCHANGED <<setting, rows, event, legacy, norm, faults, applied, met>>
-----------------------------------------------------------------------------
(***************************************************************************)
(* Files.                                                                  *)
(***************************************************************************)

BugKeepFile(c) ==
    /\ call[c].pc = "file"
    /\ LET j == call[c].job IN
       legacy' = [legacy EXCEPT ![j.cross] = IF @ = None THEN j.data ELSE @]
    /\ Finish(c)
    /\ UNCHANGED <<setting, rows, event, norm, faults, applied, met>>

\* save_config writes what this request delivered.
SaveConfig(c) ==
    /\ call[c].pc = "file"
    /\ LET j == call[c].job IN legacy' = [legacy EXCEPT ![j.cross] = j.data]
    /\ Finish(c)
    /\ UNCHANGED <<setting, rows, event, norm, faults, applied, met>>

\* compile_real_normalization reads the row, through a connection of its own.
ReadSnapshot(c) ==
    /\ call[c].pc = "read"
    /\ call' = [call EXCEPT ![c].pc = "crosses", ![c].data = rows["snapshot"].data]
    /\ calm' = calm \ {"snapshot"}
    /\ UNCHANGED <<setting, rows, event, legacy, norm, faults, applied, met>>

WriteCrosses(c) ==
    /\ call[c].pc = "crosses"
    /\ norm' = [norm EXCEPT !.crosses = call[c].data]
    /\ call' = [call EXCEPT ![c].pc = "network"]
    /\ UNCHANGED <<setting, rows, event, legacy, faults, applied, met, calm>>

WriteNetwork(c) ==
    /\ call[c].pc = "network"
    /\ norm' = [norm EXCEPT !.network = call[c].data]
    /\ call' = [call EXCEPT ![c].pc = "report"]
    /\ UNCHANGED <<setting, rows, event, legacy, faults, applied, met, calm>>

\* real_normalization.json comes last; then the config cache is cleared and ai-runtime told.
WriteReport(c) ==
    /\ call[c].pc = "report"
    /\ norm' = [norm EXCEPT !.report = call[c].data]
    /\ Finish(c)
    /\ UNCHANGED <<setting, rows, event, legacy, faults, applied, met>>

\* Before the commit an exception undoes everything; after it the file work ends there,
\* and the request is answered as applied.
Fail(c) ==
    /\ faults < MaxFaults
    /\ Busy(c)
    /\ Answer(c)
    /\ faults' = faults + 1
    /\ UNCHANGED <<setting, rows, event, legacy, norm, applied, met>>

Crash ==
    /\ faults < MaxFaults
    /\ call' = [c \in Callers |-> Idle]
    /\ faults' = faults + 1
    /\ UNCHANGED <<setting, rows, event, legacy, norm, applied, met, calm>>
-----------------------------------------------------------------------------
Step(c) ==
    \/ Check(c)
    \/ Load(c)
    \/ Write(c)
    \/ WriteRefused(c)
    \/ End(c)
    \/ SaveConfig(c)
    \/ ReadSnapshot(c)
    \/ WriteCrosses(c)
    \/ WriteNetwork(c)
    \/ WriteReport(c)

Next ==
    \/ \E c \in Callers :
          \/ \E d \in setting.deliveries : Deliver(c, d)
          \/ PostRecompile(c)
          \/ \E v \in Versions : PostActivate(c, v)
          \/ Step(c)
          \/ Fail(c)
    \/ Crash

Spec == Init /\ [][Next]_vars
-----------------------------------------------------------------------------
(***************************************************************************)
(* Properties.                                                             *)
(***************************************************************************)

\* Types of the state; an artifact, a config and a snapshot have an area.
TypeOK ==
    /\ setting \in Settings
    /\ DOMAIN rows = Keys
    /\ rows["area"] \in Area \cup {None}
    /\ rows["snapshot"] \in Content \cup {None}
    /\ \A x \in Crosses : rows[x] \in Config \cup {None}
    /\ \A v \in Versions : rows[v] \in Artifact \cup {None}
    /\ rows["area"] = None => \A k \in Keys : rows[k] = None
    /\ event \in [Ids -> setting.deliveries \cup {None}]
    /\ legacy \in [Crosses -> Payloads \cup {None}]
    /\ norm \in [{"crosses", "network", "report"} -> Payloads \cup {None}]
    /\ \A c \in Callers :
          /\ call[c].pc \in {"idle", "check", "load", "write", "end", "file", "read",
                             "crosses", "network", "report"}
          /\ call[c].pc \in {"crosses", "network", "report"} => call[c].data \in Payloads
    /\ faults \in 0..MaxFaults
    /\ met \subseteq Ids /\ calm \subseteq Keys

\* core-controller-integration-api.md: a delivery takes effect once, however often it
\* comes, and a payload other than the recorded one takes none.  _ensure_idempotent
\* sees to it for deliveries that do not overlap; the unique key for the others, on a
\* database whose transaction cannot see it coming.
AppliedOnce ==
    \A i \in Ids :
        (setting.database = "mysql" \/ i \notin met) =>
            applied[i] = IF event[i] = None THEN << >> ELSE <<event[i]>>

\* The same of every delivery.
IdempotentById == \A i \in Ids : Len(applied[i]) <= 1

\* activate_artifact retires the siblings: whatever is delivered again, activated by
\* hand and interrupted, no two artifacts of the area are active while nobody has
\* overlapped with the last change.
OneActiveArtifact ==
    Versions \subseteq calm =>
        Cardinality({v \in Versions : rows[v] # None /\ rows[v].active}) <= 1

\* The next change that runs alone and to its end repairs whatever overlapping and
\* failing ones have left: the rows' files are those of the rows, all of them.  (A
\* redelivery is no such change: it is answered as a duplicate before any file work.)
UndisturbedSyncRepairs ==
    /\ "snapshot" \in calm =>
          \A f \in DOMAIN norm :
              norm[f] = IF rows["snapshot"] = None THEN None ELSE rows["snapshot"].data
    /\ \A x \in Crosses : x \in calm =>
          legacy[x] = IF rows[x] = None THEN None ELSE rows[x].data
=============================================================================
