--------------------------- MODULE SyncRows_proofs ---------------------------
(***************************************************************************)
(* Proofs about the tables and the files of SyncEvents, for any callers,   *)
(* deliveries, databases and number of faults.                             *)
(***************************************************************************)
EXTENDS SyncEvents, FiniteSetTheorems, TLAPS

(***************************************************************************)
(* Types, and what is known of a handler from the step it takes next.      *)
(***************************************************************************)

Jobs == setting.deliveries \cup {Recompile} \cup {Activate(v) : v \in Versions}

RowSet(k) ==
    IF k = "area" THEN Area
    ELSE IF k = "snapshot" THEN Content
    ELSE IF k \in Crosses THEN Config ELSE Artifact

IsTable(t) ==
    t = [k \in Keys |-> t[k]] /\ \A k \in Keys : t[k] \in RowSet(k) \cup {None}

HasArea(t) == t["area"] = None => \A k \in Keys : t[k] = None

Stores ==
    /\ setting \in Settings
    /\ IsTable(rows) /\ HasArea(rows)
    /\ event \in [Ids -> setting.deliveries \cup {None}]
    /\ legacy \in [Crosses -> Payloads \cup {None}]
    /\ norm \in [{"crosses", "network", "report"} -> Payloads \cup {None}]
    /\ call = [c \in Callers |-> call[c]]
    /\ faults \in 0..MaxFaults
    /\ met \subseteq Ids /\ calm \subseteq Keys

Compiling == {"crosses", "network", "report"}

IsCall(r) ==
    r = [pc |-> r.pc, job |-> r.job, seen |-> r.seen, data |-> r.data, alone |-> r.alone]

\* Rows are never deleted, so that what has been seen is still there.
CallGood(c) ==
    LET r == call[c]
        j == call[c].job
    IN  /\ IsCall(r)
        /\ r.pc \in {"idle", "check", "load", "write", "end", "file", "read"} \cup Compiling
        /\ r.pc # "idle" => j \in Jobs
        /\ r.pc = "check" => j \in setting.deliveries
        /\ r.pc \in {"load", "write"} => j.kind # "recompile"
        /\ r.pc = "load" /\ j.kind = "activate" => rows[j.version] # None
        /\ r.pc = "write" =>
              /\ IsTable(r.seen)
              /\ \A k \in Keys : r.seen[k] # None => rows[k] # None
              /\ j.kind \in {"artifact", "config"} => rows["area"] # None
              /\ j.kind = "activate" => r.seen[j.version] # None
        /\ r.pc = "end" => j.kind \in {"area", "artifact", "activate"}
        /\ r.pc = "file" => j.kind = "config"
        /\ r.pc \in {"read"} \cup Compiling =>
              j.kind \in {"snapshot", "recompile"} /\ rows["snapshot"] # None
        /\ r.pc \in Compiling => r.data \in Payloads

(***************************************************************************)
(* A handler that is alone on its rows: what it has seen is what is there, *)
(* and what it has done so far nobody has undone.                          *)
(***************************************************************************)

Apart ==
    \A c, d \in Callers :
        c # d /\ Busy(c) /\ call[c].alone => ~BusyOn(d, KeysOf(call[c].job))

IsActive(t, v) == t[v] # None /\ t[v].active

OneActive(t) == \A v, w \in Versions : IsActive(t, v) /\ IsActive(t, w) => v = w

Activates(j) == j.kind = "activate" \/ (j.kind = "artifact" /\ j.activate)

AloneGood(c) ==
    LET r == call[c]
        j == call[c].job
    IN  r.alone =>
        /\ r.pc = "write" => \A k \in KeysOf(j) : r.seen[k] = rows[k]
        /\ r.pc = "end" /\ Activates(j) => OneActive(rows)
        /\ r.pc = "file" => rows[j.cross] # None /\ rows[j.cross].data = j.data
        /\ r.pc \in Compiling => r.data = rows["snapshot"].data
        /\ r.pc \in {"network", "report"} => norm["crosses"] = r.data
        /\ r.pc = "report" => norm["network"] = r.data

\* Whoever is about to write a file has made its row uncalm.
Unsettled(c) ==
    /\ call[c].pc = "file" => call[c].job.cross \notin calm
    /\ call[c].pc \in Compiling => "snapshot" \notin calm

CalmGood ==
    /\ Versions \subseteq calm => OneActive(rows)
    /\ UndisturbedSyncRepairs

CallsGood == \A c \in Callers : CallGood(c) /\ AloneGood(c) /\ Unsettled(c)

Inv == Stores /\ Apart /\ CalmGood /\ CallsGood
-----------------------------------------------------------------------------
(***************************************************************************)
(* Jobs and rows.                                                          *)
(***************************************************************************)

LEMMA Deliveries ==
    ASSUME setting \in Settings, NEW d \in setting.deliveries
    PROVE  d # None /\ d.id \in Ids /\ d.kind \in {"area", "snapshot", "config", "artifact"}
  <1>1. None \notin Delivery /\ d \in Delivery
    BY SyncAssumption
  <1> QED BY <1>1 DEF Delivery

\* What each kind of job has, and the rows it is about.
LEMMA JobFacts ==
    ASSUME setting \in Settings, NEW j \in Jobs
    PROVE  \/ /\ j.kind = "area" /\ KeysOf(j) = {"area"}
              /\ j.network \in NetworkIds \cup {None} /\ j.active \in BOOLEAN
           \/ /\ j.kind = "snapshot" /\ KeysOf(j) = {"area", "snapshot"}
              /\ j.network \in NetworkIds \cup {None} /\ j.data \in Payloads
           \/ /\ j.kind = "config" /\ KeysOf(j) = {j.cross}
              /\ j.cross \in Crosses /\ j.data \in Payloads
           \/ /\ j.kind = "artifact" /\ KeysOf(j) = Versions
              /\ j.version \in Versions /\ j.path \in Payloads /\ j.activate \in BOOLEAN
           \/ /\ j.kind = "activate" /\ KeysOf(j) = Versions /\ j.version \in Versions
           \/ j.kind = "recompile" /\ KeysOf(j) = {"snapshot"}
  <1>1. CASE j = Recompile
    BY <1>1 DEF Recompile, KeysOf
  <1>2. ASSUME NEW v \in Versions, j = Activate(v) PROVE j.kind = "activate" /\ j.version = v
    BY <1>2 DEF Activate
  <1>3. ASSUME NEW v \in Versions, j = Activate(v) PROVE KeysOf(j) = Versions
    BY <1>2, <1>3 DEF KeysOf
  <1>4. CASE j \in setting.deliveries
    <2>1. j \in Delivery
      BY <1>4, SyncAssumption
    <2> QED BY <2>1 DEF Delivery, KeysOf
  <1> QED BY <1>1, <1>2, <1>3, <1>4 DEF Jobs

LEMMA KeysApart ==
    /\ "area" \in Keys /\ "snapshot" \in Keys /\ Crosses \subseteq Keys /\ Versions \subseteq Keys
    /\ "area" \notin Crosses /\ "snapshot" \notin Crosses
    /\ "area" \notin Versions /\ "snapshot" \notin Versions
    /\ \A k \in Keys : k \notin {"area", "snapshot"} /\ k \notin Crosses => k \in Versions
    /\ Crosses \cap Versions = {}
  BY SyncAssumption DEF Keys

LEMMA NoneIsNoRow == \A k \in Keys : None \notin RowSet(k)
  BY SyncAssumption DEF RowSet

LEMMA RowSets ==
    /\ RowSet("area") = Area /\ RowSet("snapshot") = Content
    /\ \A x \in Crosses : RowSet(x) = Config
    /\ \A v \in Versions : RowSet(v) = Artifact
  BY KeysApart DEF RowSet

\* Columns taken from several rows of one kind make a row of that kind.
LEMMA MixedRow ==
    ASSUME NEW k \in Keys, NEW now \in RowSet(k), NEW old \in RowSet(k), NEW new \in RowSet(k)
    PROVE  /\ [f \in DOMAIN new |-> Column(now[f], old[f], new[f])] \in RowSet(k)
           /\ old = now => [f \in DOMAIN new |-> Column(now[f], old[f], new[f])] = new
  <1> DEFINE m == [f \in DOMAIN new |-> Column(now[f], old[f], new[f])]
  <1>1. CASE k = "area"
    BY <1>1 DEF RowSet, Area, Column
  <1>2. CASE k = "snapshot"
    BY <1>2 DEF RowSet, Content, Column
  <1>3. CASE k \in Crosses
    <2>1. now \in Config /\ old \in Config /\ new \in Config /\ RowSet(k) = Config
      BY <1>3, RowSets
    <2> QED BY <2>1 DEF Config, Column
  <1>4. CASE k \in Versions
    <2>1. now \in Artifact /\ old \in Artifact /\ new \in Artifact /\ RowSet(k) = Artifact
      BY <1>4, RowSets
    <2>2. DOMAIN new = {"path", "status", "active"}
      BY <2>1 DEF Artifact
    <2>3. m = [path   |-> Column(now.path, old.path, new.path),
               status |-> Column(now.status, old.status, new.status),
               active |-> Column(now.active, old.active, new.active)]
      BY <2>2
    <2>4. m \in Artifact
      BY <2>1, <2>3 DEF Artifact, Column
    <2>5. old = now => m = new
      BY <2>1, <2>3 DEF Artifact, Column
    <2> QED BY <2>1, <2>4, <2>5
  <1> QED BY <1>1, <1>2, <1>3, <1>4, KeysApart

LEMMA AreaRow ==
    ASSUME NEW seen, IsTable(seen), NEW net \in NetworkIds \cup {None}, NEW active \in BOOLEAN
    PROVE  upsert_area(seen, net, active) \in Area
  <1>1. seen["area"] \in Area \cup {None}
    BY KeysApart, RowSets DEF IsTable
  <1> QED BY <1>1, SyncAssumption DEF upsert_area, Area

LEMMA ArtifactRow ==
    ASSUME NEW seen, IsTable(seen), NEW d, d.version \in Versions, d.path \in Payloads
    PROVE  /\ upsert_artifact(seen, d) \in Artifact
           /\ seen[d.version] = None => ~upsert_artifact(seen, d).active
           /\ seen[d.version] # None =>
                 upsert_artifact(seen, d).active = seen[d.version].active
  <1>1. seen[d.version] \in Artifact \cup {None}
    BY KeysApart, RowSets DEF IsTable
  <1> QED BY <1>1 DEF upsert_artifact, Artifact

\* activate_artifact leaves its artifact as the only active one it knows of.
LEMMA ActivateRows ==
    ASSUME NEW t, NEW siblings, NEW v \in Versions, t[v] \in Artifact,
           \A w \in Versions : siblings[w] \in Artifact \cup {None}
    PROVE  LET want == activate_artifact(t, siblings, v) IN
           /\ \A u : u \in DOMAIN want <=> u \in Versions /\ (u = v \/ siblings[u] # None)
           /\ \A u \in DOMAIN want : want[u] \in Artifact /\ (want[u].active <=> u = v)
  <1>1. DOMAIN activate_artifact(t, siblings, v) = {u \in Versions : u = v \/ siblings[u] # None}
    BY DEF activate_artifact
  <1>2. /\ [t[v] EXCEPT !.active = TRUE, !.status = "ready"] \in Artifact
        /\ [t[v] EXCEPT !.active = TRUE, !.status = "ready"].active
    BY DEF Artifact
  <1>3. ASSUME NEW r \in Artifact
        PROVE  /\ [r EXCEPT !.active = FALSE, !.status = "deprecated"] \in Artifact
               /\ ~[r EXCEPT !.active = FALSE, !.status = "deprecated"].active
    BY DEF Artifact
  <1>4. ASSUME NEW u \in Versions, u = v \/ siblings[u] # None
        PROVE  LET x == activate_artifact(t, siblings, v)[u] IN x \in Artifact /\ (x.active <=> u = v)
    <2>1. CASE u = v
      BY <2>1, <1>2 DEF activate_artifact
    <2>2. CASE u # v
      <3>1. siblings[u] \in Artifact
        BY <1>4, <2>2
      <3>2. activate_artifact(t, siblings, v)[u]
              = IF siblings[u].active THEN [siblings[u] EXCEPT !.active = FALSE, !.status = "deprecated"]
                ELSE siblings[u]
        BY <1>4, <2>2 DEF activate_artifact
      <3> QED BY <3>1, <3>2, <1>3, <2>2
    <2> QED BY <2>1, <2>2
  <1> QED BY <1>1, <1>4

\* What a handler knows at the end of its transaction.
CanWrite(j, seen, siblings) ==
    /\ setting \in Settings
    /\ IsTable(rows) /\ IsTable(seen)
    /\ j \in Jobs /\ j.kind # "recompile"
    /\ siblings = seen \/ siblings = rows
    /\ \A k \in Keys : seen[k] # None => rows[k] # None
    /\ j.kind = "activate" => seen[j.version] # None
    /\ ~Inserted(j, seen)

LEMMA WantedRows ==
    ASSUME NEW j, NEW seen, NEW siblings, CanWrite(j, seen, siblings)
    PROVE  LET want == Wanted(j, seen, siblings) IN
           /\ DOMAIN want \subseteq KeysOf(j)
           /\ \A k \in DOMAIN want : want[k] \in RowSet(k)
           /\ j.kind \in {"area", "snapshot"} => "area" \in DOMAIN want
           /\ j.kind = "snapshot" => "snapshot" \in DOMAIN want
           /\ j.kind = "config" => DOMAIN want = {j.cross} /\ want[j.cross].data = j.data
           /\ j.kind = "artifact" /\ ~j.activate =>
                 /\ DOMAIN want = {j.version}
                 /\ want[j.version].active => seen[j.version] # None /\ seen[j.version].active
                 /\ seen[j.version] # None => want[j.version].active = seen[j.version].active
           /\ Activates(j) =>
                 /\ \A u : u \in DOMAIN want <=> u \in Versions /\ (u = j.version \/ siblings[u] # None)
                 /\ \A u \in DOMAIN want : want[u].active <=> u = j.version
  <1> DEFINE want == Wanted(j, seen, siblings)
  <1>t. /\ setting \in Settings /\ j \in Jobs /\ j.kind # "recompile"
        /\ IsTable(seen) /\ IsTable(siblings)
    BY DEF CanWrite
  <1>1. CASE j.kind = "area"
    <2>1. /\ j.network \in NetworkIds \cup {None} /\ j.active \in BOOLEAN /\ KeysOf(j) = {"area"}
      BY <1>1, <1>t, JobFacts
    <2>2. want = [k \in {"area"} |-> upsert_area(seen, j.network, j.active)]
      BY <1>1 DEF Wanted
    <2> QED BY <1>1, <2>1, <2>2, <1>t, AreaRow, RowSets DEF Activates
  <1>2. CASE j.kind = "snapshot"
    <2> DEFINE net == IF j.network # None THEN j.network ELSE DefaultNetwork
    <2>1. /\ net \in NetworkIds /\ j.data \in Payloads /\ KeysOf(j) = {"area", "snapshot"}
      BY <1>2, <1>t, JobFacts, SyncAssumption
    <2>2. want = [k \in {"area", "snapshot"} |-> IF k = "area" THEN upsert_area(seen, net, TRUE)
                                                ELSE [network |-> net, data |-> j.data]]
      BY <1>2 DEF Wanted
    <2>3. upsert_area(seen, net, TRUE) \in Area
      BY <2>1, <1>t, AreaRow
    <2>4. [network |-> net, data |-> j.data] \in Content
      BY <2>1 DEF Content
    <2> HIDE DEF net
    <2> QED BY <1>2, <2>1, <2>2, <2>3, <2>4, RowSets DEF Activates
  <1>3. CASE j.kind = "config"
    <2>1. j.cross \in Crosses /\ j.data \in Payloads /\ KeysOf(j) = {j.cross}
      BY <1>3, <1>t, JobFacts
    <2>2. want = [k \in {j.cross} |-> [data |-> j.data]]
      BY <1>3 DEF Wanted
    <2>3. DOMAIN want = {j.cross} /\ want[j.cross] = [data |-> j.data]
      BY <2>2
    <2>4. [data |-> j.data] \in Config
      BY <2>1 DEF Config
    <2> HIDE DEF want
    <2> QED BY <1>3, <2>1, <2>3, <2>4, RowSets DEF Activates, want
  <1>4. CASE j.kind = "artifact"
    <2> DEFINE new == upsert_artifact(seen, j)
               art == [seen EXCEPT ![j.version] = new]
    <2>1. /\ j.version \in Versions /\ j.path \in Payloads /\ j.activate \in BOOLEAN
          /\ KeysOf(j) = Versions
      BY <1>4, <1>t, JobFacts
    <2>2. /\ new \in Artifact
          /\ seen[j.version] = None => ~new.active
          /\ seen[j.version] # None => new.active = seen[j.version].active
      BY <2>1, <1>t, ArtifactRow
    <2>3. art[j.version] = new
      BY <2>1, <1>t, KeysApart DEF IsTable
    <2>4. CASE j.activate
      <3>1. want = activate_artifact(art, siblings, j.version)
        BY <1>4, <2>4 DEF Wanted
      <3>2. \A w \in Versions : siblings[w] \in Artifact \cup {None}
        BY <1>t, KeysApart, RowSets DEF IsTable
      <3> HIDE DEF want, art
      <3>3. /\ \A u : u \in DOMAIN want <=> u \in Versions /\ (u = j.version \/ siblings[u] # None)
            /\ \A u \in DOMAIN want : want[u] \in Artifact /\ (want[u].active <=> u = j.version)
        <4>1. art[j.version] \in Artifact
          BY <2>2, <2>3
        <4> QED BY <2>1, <4>1, <3>1, <3>2, ActivateRows
      <3> QED BY <1>4, <2>1, <2>4, <3>3, RowSets DEF want
    <2>5. CASE ~j.activate
      <3>1. want = [k \in {j.version} |-> art[k]]
        BY <1>4, <2>5 DEF Wanted
      <3>2. DOMAIN want = {j.version} /\ want[j.version] = new
        BY <3>1, <2>3
      <3> HIDE DEF want, new
      <3> QED BY <1>4, <2>1, <2>2, <2>5, <3>2, RowSets DEF Activates, want
    <2> QED BY <2>4, <2>5
  <1>5. CASE j.kind = "activate"
    <2>1. j.version \in Versions /\ KeysOf(j) = Versions
      BY <1>5, <1>t, JobFacts
    <2>2. want = activate_artifact(seen, siblings, j.version)
      BY <1>5 DEF Wanted
    <2>3. /\ seen[j.version] \in Artifact
          /\ \A w \in Versions : siblings[w] \in Artifact \cup {None}
      BY <1>5, <1>t, <2>1, KeysApart, RowSets DEF IsTable, CanWrite
    <2> HIDE DEF want
    <2>4. /\ \A u : u \in DOMAIN want <=> u \in Versions /\ (u = j.version \/ siblings[u] # None)
          /\ \A u \in DOMAIN want : want[u] \in Artifact /\ (want[u].active <=> u = j.version)
      BY <2>1, <2>2, <2>3, ActivateRows
    <2> QED BY <1>5, <2>1, <2>4, RowSets DEF want
  <1> QED BY <1>1, <1>2, <1>3, <1>4, <1>5, <1>t, JobFacts

\* The row a handler takes a row it changes to have been.
OldRow(k, seen, siblings) ==
    IF k = "area" \/ k = "snapshot" \/ seen[k] # None THEN seen[k] ELSE siblings[k]

LEMMA FlushedRow ==
    ASSUME NEW j, NEW seen, NEW siblings, CanWrite(j, seen, siblings), NEW k \in Keys
    PROVE  LET want == Wanted(j, seen, siblings)
               new  == Flushed(j, seen, siblings)
               old  == OldRow(k, seen, siblings)
           IN
           /\ k \notin DOMAIN want => new[k] = rows[k]
           /\ k \in DOMAIN want => new[k] \in RowSet(k)
           /\ k \in DOMAIN want /\ (old = None \/ old = rows[k]) => new[k] = want[k]
           /\ k \in DOMAIN want /\ old # None =>
                 /\ rows[k] # None
                 /\ k \in Versions =>
                       new[k].active = Column(rows[k].active, old.active, want[k].active)
  <1> DEFINE want == Wanted(j, seen, siblings)
             new  == Flushed(j, seen, siblings)
             old  == OldRow(k, seen, siblings)
  <1>1. /\ k \notin DOMAIN want => new[k] = rows[k]
        /\ k \in DOMAIN want /\ old = None => new[k] = want[k]
        /\ k \in DOMAIN want /\ old # None =>
              new[k] = [f \in DOMAIN want[k] |-> Column(rows[k][f], old[f], want[k][f])]
    BY DEF Flushed, OldRow
  <1>2. k \in DOMAIN want => want[k] \in RowSet(k)
    BY WantedRows
  <1>3. old \in RowSet(k) \cup {None} /\ rows[k] \in RowSet(k) \cup {None}
    BY DEF CanWrite, IsTable, OldRow
  <1>4. old # None => rows[k] # None
    BY DEF CanWrite, OldRow
  <1> HIDE DEF want, new, old
  <1>5. CASE k \in DOMAIN want /\ old # None
    <2>1. rows[k] \in RowSet(k) /\ old \in RowSet(k) /\ want[k] \in RowSet(k)
      BY <1>2, <1>3, <1>4, <1>5
    <2>2. /\ new[k] \in RowSet(k)
          /\ old = rows[k] => new[k] = want[k]
      BY <1>1, <1>5, <2>1, MixedRow
    <2>3. k \in Versions => new[k].active = Column(rows[k].active, old.active, want[k].active)
      <3>1. k \in Versions => "active" \in DOMAIN want[k]
        <4>1. k \in Versions => want[k] \in Artifact
          BY <2>1, RowSets
        <4> QED BY <4>1 DEF Artifact
      <3> QED BY <1>1, <1>5, <3>1
    <2> QED BY <1>4, <1>5, <2>2, <2>3 DEF want, new, old
  <1>6. CASE ~(k \in DOMAIN want /\ old # None)
    BY <1>1, <1>2, <1>6 DEF want, new, old
  <1> QED BY <1>5, <1>6

\* What a commit does to the tables.
LEMMA FlushedRows ==
    ASSUME NEW j, NEW seen, NEW siblings, CanWrite(j, seen, siblings)
    PROVE  LET new == Flushed(j, seen, siblings) IN
           /\ IsTable(new)
           /\ \A k \in Keys : rows[k] # None => new[k] # None
           /\ \A k \in Keys \ KeysOf(j) : new[k] = rows[k]
           /\ j.kind \in {"area", "snapshot"} => new["area"] # None
           /\ j.kind = "snapshot" => new["snapshot"] # None
           /\ j.kind = "config" => new[j.cross] # None
           /\ ~Activates(j) => \A v \in Versions : IsActive(new, v) => IsActive(rows, v)
           /\ (\A k \in KeysOf(j) : seen[k] = rows[k]) =>
                 /\ j.kind = "config" => new[j.cross].data = j.data
                 /\ Activates(j) => OneActive(new)
  <1> DEFINE want == Wanted(j, seen, siblings)
             new  == Flushed(j, seen, siblings)
  <1>t. /\ setting \in Settings /\ j \in Jobs /\ j.kind # "recompile" /\ IsTable(rows)
        /\ IsTable(seen) /\ IsTable(siblings) /\ (siblings = seen \/ siblings = rows)
        /\ \A k \in Keys : seen[k] # None => rows[k] # None
    BY DEF CanWrite
  <1>1. /\ DOMAIN want \subseteq KeysOf(j)
        /\ \A k \in DOMAIN want : want[k] \in RowSet(k)
        /\ j.kind \in {"area", "snapshot"} => "area" \in DOMAIN want
        /\ j.kind = "snapshot" => "snapshot" \in DOMAIN want
        /\ j.kind = "config" => DOMAIN want = {j.cross} /\ want[j.cross].data = j.data
        /\ j.kind = "artifact" /\ ~j.activate =>
              /\ DOMAIN want = {j.version}
              /\ want[j.version].active => seen[j.version] # None /\ seen[j.version].active
              /\ seen[j.version] # None => want[j.version].active = seen[j.version].active
        /\ Activates(j) =>
              /\ \A u : u \in DOMAIN want <=> u \in Versions /\ (u = j.version \/ siblings[u] # None)
              /\ \A u \in DOMAIN want : want[u].active <=> u = j.version
    BY WantedRows
  <1>2. \A k \in Keys : LET old == OldRow(k, seen, siblings) IN
           /\ k \notin DOMAIN want => new[k] = rows[k]
           /\ k \in DOMAIN want => new[k] \in RowSet(k)
           /\ k \in DOMAIN want /\ (old = None \/ old = rows[k]) => new[k] = want[k]
           /\ k \in DOMAIN want /\ old # None =>
                 /\ rows[k] # None
                 /\ k \in Versions =>
                       new[k].active = Column(rows[k].active, old.active, want[k].active)
    BY FlushedRow
  <1>3. new = [k \in Keys |-> new[k]]
    BY DEF Flushed
  <1> HIDE DEF want, new
  <1>4. \A k \in DOMAIN want \cap Keys : new[k] # None
    BY <1>2, NoneIsNoRow
  <1>5. IsTable(new)
    BY <1>2, <1>3, <1>t DEF IsTable
  <1>6. /\ \A k \in Keys : rows[k] # None => new[k] # None
        /\ \A k \in Keys \ KeysOf(j) : new[k] = rows[k]
    BY <1>1, <1>2, <1>4
  <1>7. /\ j.kind \in {"area", "snapshot"} => new["area"] # None
        /\ j.kind = "snapshot" => new["snapshot"] # None
        /\ j.kind = "config" => new[j.cross] # None /\ j.cross \in Keys
    BY <1>1, <1>4, <1>t, KeysApart, JobFacts
  <1>8. ASSUME ~Activates(j), NEW v \in Versions, IsActive(new, v)
        PROVE  IsActive(rows, v)
    <2>1. CASE v \notin DOMAIN want
      BY <2>1, <1>2, <1>8, KeysApart DEF IsActive
    <2>2. CASE v \in DOMAIN want
      <3>1. j.kind = "artifact" /\ ~j.activate /\ v = j.version /\ KeysOf(j) = Versions
        <4>1. v \in KeysOf(j)
          BY <2>2, <1>1
        <4>2. j.kind = "artifact" /\ KeysOf(j) = Versions
          BY <4>1, <1>8, <1>t, KeysApart, JobFacts DEF Activates
        <4> QED BY <4>2, <2>2, <1>1, <1>8 DEF Activates
      <3>2. CASE seen[v] # None
        <4>1. OldRow(v, seen, siblings) = seen[v]
          BY <3>2 DEF OldRow
        <4>2. rows[v] # None /\ new[v].active = Column(rows[v].active, seen[v].active, want[v].active)
          BY <4>1, <3>2, <2>2, <1>2, KeysApart
        <4> QED BY <4>2, <3>1, <3>2, <1>1, <1>8 DEF Column, IsActive
      <3>3. CASE seen[v] = None
        <4>1. rows[v] = None
          BY <3>1, <3>3 DEF CanWrite, Inserted
        <4>2. OldRow(v, seen, siblings) = None
          BY <3>3, <4>1, <1>t, KeysApart DEF OldRow
        <4>3. new[v] = want[v]
          BY <4>2, <2>2, <1>2, KeysApart
        <4> QED BY <4>3, <3>1, <3>3, <1>1, <1>8 DEF IsActive
      <3> QED BY <3>2, <3>3
    <2> QED BY <2>1, <2>2
  <1>9. ASSUME \A k \in KeysOf(j) : seen[k] = rows[k]
        PROVE  /\ j.kind = "config" => new[j.cross].data = j.data
               /\ Activates(j) => OneActive(new)
    <2>1. ASSUME NEW k \in Keys, k \in DOMAIN want PROVE new[k] = want[k]
      <3>1. seen[k] = rows[k]
        BY <1>1, <1>9, <2>1
      <3>2. OldRow(k, seen, siblings) = rows[k]
        BY <3>1, <1>t DEF OldRow
      <3> QED BY <3>2, <2>1, <1>2
    <2>2. CASE j.kind = "config"
      BY <2>1, <2>2, <1>1, <1>7 DEF Activates
    <2>3. ASSUME Activates(j), NEW v \in Versions, IsActive(new, v)
          PROVE  v = j.version
      <3>1. KeysOf(j) = Versions
        BY <2>3, <1>t, JobFacts DEF Activates
      <3>2. CASE v \in DOMAIN want
        BY <2>1, <2>3, <3>2, <1>1, KeysApart DEF IsActive
      <3>3. CASE v \notin DOMAIN want
        <4>1. siblings[v] = None /\ new[v] = rows[v]
          BY <3>3, <2>3, <1>1, <1>2, KeysApart
        <4>2. siblings[v] = rows[v]
          BY <3>1, <1>9, <1>t
        <4> QED BY <4>1, <4>2, <2>3 DEF IsActive
      <3> QED BY <3>2, <3>3
    <2> QED BY <2>2, <2>3 DEF OneActive
  <1> QED BY <1>5, <1>6, <1>7, <1>8, <1>9 DEF new
-----------------------------------------------------------------------------
(***************************************************************************)
(* Steps of one handler.                                                   *)
(***************************************************************************)

\* The handler c goes on with its job, or is done; the others are where they were.
Moves(c) ==
    /\ Busy(c)
    /\ call' = [d \in Callers |-> call'[d]]
    /\ \A d \in Callers \ {c} : call'[d] = call[d]
    /\ IsCall(call'[c])
    /\ call'[c].pc = "idle" \/ (call'[c].job = call[c].job /\ call'[c].alone = call[c].alone)

\* It touches nothing but what its job is about, and calms its rows only if it is alone.
Minds(c) ==
    LET K == KeysOf(call[c].job) IN
    /\ setting' = setting
    /\ \A k \in Keys : rows[k] # None => rows'[k] # None
    /\ \A k \in Keys \ K : rows'[k] = rows[k]
    /\ norm' = norm \/ "snapshot" \in K
    /\ \A k \in calm' : k \in calm \/ (call[c].alone /\ k \in K)

LEMMA JobKeys ==
    ASSUME Inv, NEW d \in Callers, Busy(d)
    PROVE  /\ call[d].job \in Jobs
           /\ KeysOf(call[d].job) \subseteq Keys
           /\ call[d].job.kind \in {"snapshot", "recompile"} => "snapshot" \in KeysOf(call[d].job)
           /\ call[d].job.kind \in {"artifact", "activate"} =>
                 KeysOf(call[d].job) = Versions /\ call[d].job.version \in Versions
           /\ call[d].job.kind = "config" =>
                 call[d].job.cross \in KeysOf(call[d].job) /\ call[d].job.cross \in Crosses
  <1>1. call[d].job \in Jobs /\ setting \in Settings
    BY DEF Inv, Stores, CallsGood, CallGood, Busy
  <1> QED BY <1>1, JobFacts, KeysApart

\* The others keep what they know.
LEMMA OthersGood ==
    ASSUME Inv, NEW c \in Callers, Moves(c), Minds(c), NEW d \in Callers, d # c
    PROVE  CallGood(d)' /\ AloneGood(d)' /\ Unsettled(d)'
  <1> DEFINE j == call[d].job
             K == KeysOf(call[c].job)
  <1>1. call'[d] = call[d]
    BY DEF Moves
  <1>2. CallGood(d) /\ AloneGood(d) /\ Unsettled(d) /\ Busy(c)
    BY DEF Inv, CallsGood, Moves
  <1>3. CASE call[d].pc = "idle"
    BY <1>1, <1>2, <1>3 DEF CallGood, AloneGood, Unsettled, Compiling
  <1>4. CASE call[d].pc # "idle"
    <2>1. /\ j \in Jobs /\ KeysOf(j) \subseteq Keys
          /\ j.kind \in {"snapshot", "recompile"} => "snapshot" \in KeysOf(j)
          /\ j.kind \in {"artifact", "activate"} => KeysOf(j) = Versions /\ j.version \in Versions
          /\ j.kind = "config" => j.cross \in KeysOf(j) /\ j.cross \in Crosses
      BY <1>4, JobKeys DEF Busy
    <2>2. /\ setting' = setting
          /\ \A k \in Keys : rows[k] # None => rows'[k] # None
          /\ \A k \in Keys \ K : rows'[k] = rows[k]
          /\ norm' = norm \/ "snapshot" \in K
          /\ \A k \in calm' : k \in calm \/ (call[c].alone /\ k \in K)
      BY DEF Minds
    <2>3. call[c].alone => K \cap KeysOf(j) = {}
      BY <1>2, <1>4 DEF Inv, Apart, BusyOn, Busy
    <2>4. call[d].alone => K \cap KeysOf(j) = {}
      BY <1>2, <1>4 DEF Inv, Apart, BusyOn, Busy
    <2> HIDE DEF j, K
    <2>5. j = call[d].job
      BY DEF j
    <2>6. CallGood(d)'
      <3>1. Jobs' = Jobs
        BY <2>2 DEF Jobs
      <3> QED BY <1>1, <1>2, <2>1, <2>2, <2>5, <3>1, KeysApart DEF CallGood
    <2>7. AloneGood(d)'
      <3> SUFFICES ASSUME call[d].alone PROVE AloneGood(d)'
        BY <1>1 DEF AloneGood
      <3>1. \A k \in KeysOf(j) : rows'[k] = rows[k]
        BY <2>1, <2>2, <2>4
      <3>2. call[d].pc = "write" => \A k \in KeysOf(j) : call'[d].seen[k] = rows'[k]
        BY <1>1, <1>2, <3>1, <2>5 DEF AloneGood
      <3>3. call[d].pc = "end" /\ Activates(j) => OneActive(rows)'
        BY <1>2, <2>1, <3>1, <2>5 DEF AloneGood, Activates, OneActive, IsActive
      <3>4. call[d].pc = "file" => rows'[j.cross] # None /\ rows'[j.cross].data = j.data
        BY <1>2, <2>1, <3>1, <2>5 DEF AloneGood, CallGood
      <3>5. call[d].pc \in Compiling => "snapshot" \in KeysOf(j)
        BY <1>2, <2>1, <2>5 DEF CallGood
      <3>6. call[d].pc \in Compiling => rows'["snapshot"] = rows["snapshot"] /\ norm' = norm
        BY <2>2, <2>4, <3>1, <3>5
      <3> QED BY <1>1, <1>2, <2>5, <3>2, <3>3, <3>4, <3>6 DEF AloneGood, Compiling
    <2>8. Unsettled(d)'
      <3>1. \A k \in KeysOf(j) : k \in calm' => k \in calm
        BY <2>2, <2>3
      <3> QED BY <1>1, <1>2, <2>1, <2>5, <3>1 DEF Unsettled, CallGood
    <2> QED BY <2>6, <2>7, <2>8
  <1> QED BY <1>3, <1>4

\* What is left to show of a step.
LEMMA StepKeeps ==
    ASSUME Inv, NEW c \in Callers, Moves(c), Minds(c),
           Stores', CalmGood', CallGood(c)', AloneGood(c)', Unsettled(c)'
    PROVE  Inv'
  <1>1. CallsGood'
    BY OthersGood DEF CallsGood
  <1>2. Apart'
    BY DEF Inv, Apart, Moves, Busy, BusyOn
  <1> QED BY <1>1, <1>2 DEF Inv

\* A step that leaves the tables and the files alone.
LEMMA QuietKeeps ==
    ASSUME Inv, NEW c \in Callers, Moves(c),
           UNCHANGED <<setting, rows, event, legacy, norm, met>>,
           calm' \subseteq calm, faults' \in 0..MaxFaults,
           CallGood(c)', AloneGood(c)', Unsettled(c)'
    PROVE  Inv'
  <1>1. Minds(c)
    BY DEF Minds
  <1>2. Stores'
    BY DEF Inv, Stores, Moves, IsTable, HasArea
  <1>3. CalmGood'
    BY DEF Inv, CalmGood, OneActive, IsActive, UndisturbedSyncRepairs
  <1> QED BY <1>1, <1>2, <1>3, StepKeeps

\* A handler goes on.
LEMMA GoesOn ==
    ASSUME Inv, NEW c \in Callers, Busy(c), NEW r, call' = [call EXCEPT ![c] = r],
           IsCall(r), r.pc = "idle" \/ (r.job = call[c].job /\ r.alone = call[c].alone)
    PROVE  Moves(c) /\ call'[c] = r
  <1>1. call = [d \in Callers |-> call[d]]
    BY DEF Inv, Stores
  <1> QED BY <1>1 DEF Moves

LEMMA Done ==
    ASSUME Inv, NEW c \in Callers, Busy(c), call' = [call EXCEPT ![c] = Idle]
    PROVE  Moves(c) /\ CallGood(c)' /\ AloneGood(c)' /\ Unsettled(c)'
  <1>1. IsCall(Idle) /\ Idle.pc = "idle"
    BY DEF IsCall, Idle
  <1>2. Moves(c) /\ call'[c] = Idle
    BY <1>1, GoesOn
  <1> QED BY <1>1, <1>2 DEF CallGood, AloneGood, Unsettled, Compiling

\* A handler that has answered with an error, or has nothing to do.
LEMMA AnswerKeeps ==
    ASSUME Inv, NEW c \in Callers, Busy(c), Answer(c),
           UNCHANGED <<setting, rows, event, legacy, norm, met>>, faults' \in 0..MaxFaults
    PROVE  Inv'
  <1>1. Moves(c) /\ CallGood(c)' /\ AloneGood(c)' /\ Unsettled(c)'
    BY Done DEF Answer
  <1>2. calm' \subseteq calm
    BY DEF Answer
  <1> QED BY <1>1, <1>2, QuietKeeps

\* A handler that sees the tables as they are.
LEMMA LoadedKeeps ==
    ASSUME Inv, NEW c \in Callers, call[c].pc \in {"check", "load"}, ~Orphan(call[c].job),
           call' = [call EXCEPT ![c].pc = "write", ![c].seen = rows],
           UNCHANGED <<setting, rows, event, legacy, norm, met, faults, calm>>
    PROVE  Inv'
  <1> DEFINE r == call'[c]
  <1>t. CallGood(c) /\ AloneGood(c) /\ setting \in Settings /\ IsTable(rows) /\ Busy(c)
        /\ faults \in 0..MaxFaults /\ call = [d \in Callers |-> call[d]]
    BY DEF Inv, CallsGood, Stores, Busy
  <1>1. /\ IsCall(r) /\ r.pc = "write" /\ r.seen = rows
        /\ r.job = call[c].job /\ r.alone = call[c].alone
    <2>1. IsCall(call[c])
      BY <1>t DEF CallGood
    <2> QED BY <2>1, <1>t DEF IsCall
  <1>2. call' = [call EXCEPT ![c] = r]
    BY <1>t
  <1> HIDE DEF r
  <1>3. Moves(c) /\ call'[c] = r
    BY <1>1, <1>2, <1>t, GoesOn
  <1>4. call[c].job \in Jobs /\ Jobs' = Jobs
    BY <1>t DEF CallGood, Jobs
  <1>5. call[c].job.kind # "recompile"
        /\ (call[c].job.kind = "activate" => rows[call[c].job.version] # None)
    <2>1. CASE call[c].pc = "check"
      BY <2>1, <1>t, Deliveries DEF CallGood
    <2>2. CASE call[c].pc = "load"
      BY <2>2, <1>t DEF CallGood
    <2> QED BY <2>1, <2>2
  <1>6. CallGood(c)'
    <2>1. IsTable(rows)' /\ rows' = rows
      BY <1>t DEF IsTable
    <2>2. call[c].job.kind \in {"artifact", "config"} => rows["area"] # None
      BY DEF Orphan
    <2> QED BY <1>1, <1>3, <1>4, <1>5, <1>t, <2>1, <2>2 DEF CallGood, Compiling
  <1>7. AloneGood(c)' /\ Unsettled(c)'
    BY <1>1, <1>3 DEF AloneGood, Unsettled, Compiling
  <1> QED BY <1>3, <1>6, <1>7, <1>t, QuietKeeps

LEMMA CheckKeeps ==
    ASSUME Inv, NEW c \in Callers, Check(c)
    PROVE  Inv'
  <1>t. /\ CallGood(c) /\ Busy(c) /\ call[c].pc = "check" /\ faults \in 0..MaxFaults
        /\ call = [d \in Callers |-> call[d]]
        /\ UNCHANGED <<setting, rows, event, legacy, norm, faults, met>>
    BY DEF Inv, CallsGood, Stores, Busy, Check
  <1>1. CASE Answer(c)
    BY <1>1, <1>t, AnswerKeeps
  <1>2. CASE ~Orphan(call[c].job) /\ UNCHANGED calm
             /\ call' = [call EXCEPT ![c].pc = "write", ![c].seen = rows]
    BY <1>2, <1>t, LoadedKeeps
  <1>3. CASE call' = [call EXCEPT ![c].pc = "load"] /\ UNCHANGED calm
    <2> DEFINE r == [call[c] EXCEPT !.pc = "load"]
    <2>1. IsCall(r) /\ r.pc = "load" /\ r.job = call[c].job /\ r.alone = call[c].alone
      BY <1>t DEF CallGood, IsCall
    <2>2. call' = [call EXCEPT ![c] = r]
      BY <1>3, <1>t
    <2> HIDE DEF r
    <2>3. Moves(c) /\ call'[c] = r
      BY <2>1, <2>2, <1>t, GoesOn
    <2>4. call[c].job \in Jobs /\ Jobs' = Jobs
      BY <1>t DEF CallGood, Jobs
    <2>5. call[c].job.kind \notin {"recompile", "activate"}
      <3>1. setting \in Settings
        BY DEF Inv, Stores
      <3> QED BY <3>1, <1>t, Deliveries DEF CallGood
    <2>6. CallGood(c)' /\ AloneGood(c)' /\ Unsettled(c)'
      BY <2>1, <2>3, <2>4, <2>5, <1>t DEF CallGood, AloneGood, Unsettled, Compiling
    <2> QED BY <2>3, <2>6, <1>3, <1>t, QuietKeeps
  <1> QED BY <1>1, <1>2, <1>3 DEF Check

LEMMA LoadKeeps ==
    ASSUME Inv, NEW c \in Callers, Load(c)
    PROVE  Inv'
  <1>t. /\ Busy(c) /\ call[c].pc = "load" /\ faults \in 0..MaxFaults
        /\ UNCHANGED <<setting, rows, event, legacy, norm, faults, met>>
    BY DEF Inv, Stores, Busy, Load
  <1>1. CASE Answer(c)
    BY <1>1, <1>t, AnswerKeeps
  <1>2. CASE ~Orphan(call[c].job) /\ UNCHANGED calm
             /\ call' = [call EXCEPT ![c].pc = "write", ![c].seen = rows]
    BY <1>2, <1>t, LoadedKeeps
  <1> QED BY <1>1, <1>2 DEF Load

LEMMA RefusedKeeps ==
    ASSUME Inv, NEW c \in Callers, WriteRefused(c) \/ Fail(c)
    PROVE  Inv'
  <1>1. /\ Busy(c) /\ Answer(c) /\ faults' \in 0..MaxFaults
        /\ UNCHANGED <<setting, rows, event, legacy, norm, met>>
    <2>1. faults \in 0..MaxFaults /\ MaxFaults \in Nat
      BY SyncAssumption DEF Inv, Stores
    <2>2. CASE WriteRefused(c)
      BY <2>1, <2>2 DEF WriteRefused, Busy
    <2>3. CASE Fail(c)
      BY <2>1, <2>3 DEF Fail
    <2> QED BY <2>2, <2>3
  <1> QED BY <1>1, AnswerKeeps

\* A handler that has done all of its job: what it settles is in order if it was alone.
LEMMA FinishKeeps ==
    ASSUME Inv, NEW c \in Callers, Busy(c), Finish(c), Minds(c), Stores', rows' = rows,
           \A x \in Crosses : x \in calm => legacy'[x] = legacy[x],
           "snapshot" \in calm => norm' = norm,
           call[c].alone =>
              LET S == Settles(call[c].job) IN
              /\ S \cap Versions # {} => OneActive(rows)
              /\ "snapshot" \in S =>
                    \A f \in DOMAIN norm' :
                       norm'[f] = IF rows["snapshot"] = None THEN None ELSE rows["snapshot"].data
              /\ \A x \in Crosses \cap S :
                    legacy'[x] = IF rows[x] = None THEN None ELSE rows[x].data
    PROVE  Inv'
  <1> DEFINE S == Settles(call[c].job)
  <1>1. Moves(c) /\ CallGood(c)' /\ AloneGood(c)' /\ Unsettled(c)'
    BY Done DEF Finish
  <1>2. calm' = IF call[c].alone THEN calm \cup S ELSE calm
    BY DEF Finish
  <1> HIDE DEF S
  <1>3. OneActive(rows) => OneActive(rows)'
    BY DEF OneActive, IsActive
  <1>4. Versions \subseteq calm' => OneActive(rows)'
    <2>1. CASE Versions \subseteq calm
      BY <2>1, <1>3 DEF Inv, CalmGood
    <2>2. CASE ~(Versions \subseteq calm)
      BY <2>2, <1>2, <1>3 DEF S
    <2> QED BY <2>1, <2>2
  <1>5. UndisturbedSyncRepairs'
    BY <1>2 DEF S, Inv, CalmGood, UndisturbedSyncRepairs
  <1> QED BY <1>1, <1>4, <1>5, StepKeeps DEF CalmGood

\* The tables and the files keep their types.
LEMMA StoresKept ==
    ASSUME Inv, NEW c \in Callers, Moves(c), UNCHANGED <<setting, rows, event, faults, met>>,
           calm' \subseteq calm \cup Keys,
           legacy' \in [Crosses -> Payloads \cup {None}],
           norm' \in [{"crosses", "network", "report"} -> Payloads \cup {None}]
    PROVE  Stores'
  BY DEF Inv, Stores, Moves, IsTable, HasArea

LEMMA SettlesKeys ==
    ASSUME Inv, NEW c \in Callers, Busy(c)
    PROVE  Settles(call[c].job) \subseteq KeysOf(call[c].job) /\ KeysOf(call[c].job) \subseteq Keys
  BY JobKeys DEF Settles

LEMMA EndKeeps ==
    ASSUME Inv, NEW c \in Callers, End(c)
    PROVE  Inv'
  <1> DEFINE j == call[c].job
  <1>t. /\ CallGood(c) /\ AloneGood(c) /\ Busy(c) /\ call[c].pc = "end" /\ Finish(c)
        /\ UNCHANGED <<setting, rows, event, legacy, norm, faults, met>>
    BY DEF Inv, CallsGood, Busy, End
  <1>1. Moves(c)
    BY <1>t, Done DEF Finish
  <1>2. Settles(j) \subseteq KeysOf(j) /\ KeysOf(j) \subseteq Keys
    BY <1>t, SettlesKeys
  <1>3. calm' \subseteq calm \cup Keys /\ Minds(c)
    BY <1>t, <1>2 DEF Finish, Minds
  <1>4. Stores'
    <2>1. /\ legacy' \in [Crosses -> Payloads \cup {None}]
          /\ norm' \in [{"crosses", "network", "report"} -> Payloads \cup {None}]
      BY <1>t DEF Inv, Stores
    <2> QED BY <1>1, <1>3, <1>t, <2>1, StoresKept
  <1>5. /\ j.kind = "area" => Settles(j) = {"area"}
        /\ j.kind \in {"artifact", "activate"} /\ Activates(j) => Settles(j) = Versions
        /\ j.kind \in {"artifact", "activate"} /\ ~Activates(j) => Settles(j) = {}
    BY DEF Settles, KeysOf, Activates
  <1>6. j.kind \in {"area", "artifact", "activate"}
    BY <1>t DEF CallGood
  <1>7. call[c].alone => (Settles(j) \cap Versions # {} => OneActive(rows))
    BY <1>5, <1>6, <1>t, KeysApart DEF AloneGood
  <1>8. "snapshot" \notin Settles(j) /\ Crosses \cap Settles(j) = {}
    BY <1>5, <1>6, KeysApart
  <1> QED BY <1>3, <1>4, <1>7, <1>8, <1>t, FinishKeeps

LEMMA SaveConfigKeeps ==
    ASSUME Inv, NEW c \in Callers, SaveConfig(c)
    PROVE  Inv'
  <1> DEFINE j == call[c].job
  <1>t. /\ CallGood(c) /\ AloneGood(c) /\ Unsettled(c) /\ Busy(c) /\ call[c].pc = "file" /\ Finish(c)
        /\ legacy' = [legacy EXCEPT ![j.cross] = j.data]
        /\ UNCHANGED <<setting, rows, event, norm, faults, met>>
    BY DEF Inv, CallsGood, Busy, SaveConfig
  <1>1. Moves(c)
    BY <1>t, Done DEF Finish
  <1>2. Settles(j) \subseteq KeysOf(j) /\ KeysOf(j) \subseteq Keys
    BY <1>t, SettlesKeys
  <1>3. calm' \subseteq calm \cup Keys /\ Minds(c)
    BY <1>t, <1>2 DEF Finish, Minds
  <1>4. /\ j.kind = "config" /\ j.cross \in Crosses /\ j.data \in Payloads /\ KeysOf(j) = {j.cross}
        /\ legacy \in [Crosses -> Payloads \cup {None}]
    <2>1. j.kind = "config" /\ j \in Jobs /\ setting \in Settings
      BY <1>t DEF CallGood, Inv, Stores
    <2>2. j.cross \in Crosses /\ j.data \in Payloads /\ KeysOf(j) = {j.cross}
      BY <2>1, JobFacts
    <2> QED BY <2>1, <2>2 DEF Inv, Stores
  <1>5. Settles(j) = {j.cross}
    BY <1>4 DEF Settles
  <1> HIDE DEF j
  <1>6. /\ legacy' \in [Crosses -> Payloads \cup {None}]
        /\ legacy'[j.cross] = j.data
        /\ \A x \in Crosses \ {j.cross} : legacy'[x] = legacy[x]
    BY <1>4, <1>t
  <1>7. Stores'
    <2>1. norm' \in [{"crosses", "network", "report"} -> Payloads \cup {None}]
      BY <1>t DEF Inv, Stores
    <2> QED BY <1>1, <1>3, <1>6, <1>t, <2>1, StoresKept
  <1>8. j.cross \notin calm
    BY <1>t DEF Unsettled, j
  <1>9. call[c].alone => rows[j.cross] # None /\ rows[j.cross].data = j.data
    BY <1>t DEF AloneGood, j
  <1>10. {j.cross} \cap Versions = {} /\ "snapshot" \notin {j.cross}
    BY <1>4, KeysApart
  <1> QED BY <1>3, <1>5, <1>6, <1>7, <1>8, <1>9, <1>10, <1>t, FinishKeeps DEF j

LEMMA ReadSnapshotKeeps ==
    ASSUME Inv, NEW c \in Callers, ReadSnapshot(c)
    PROVE  Inv'
  <1> DEFINE r == call'[c]
             d == rows["snapshot"].data
  <1>t. /\ CallGood(c) /\ Busy(c) /\ call[c].pc = "read" /\ faults \in 0..MaxFaults
        /\ call = [q \in Callers |-> call[q]] /\ IsTable(rows)
        /\ call' = [call EXCEPT ![c].pc = "crosses", ![c].data = d]
        /\ calm' = calm \ {"snapshot"}
        /\ UNCHANGED <<setting, rows, event, legacy, norm, faults, met>>
    BY DEF Inv, CallsGood, Stores, Busy, ReadSnapshot
  <1>1. d \in Payloads
    <2>1. rows["snapshot"] # None
      BY <1>t DEF CallGood
    <2>2. rows["snapshot"] \in Content
      BY <2>1, <1>t, KeysApart, RowSets DEF IsTable
    <2> QED BY <2>2 DEF Content
  <1>2. d = rows["snapshot"].data /\ (d = rows["snapshot"].data)'
    BY <1>t
  <1> HIDE DEF d
  <1>3. /\ IsCall(r) /\ r.pc = "crosses" /\ r.data = d
        /\ r.job = call[c].job /\ r.alone = call[c].alone
    <2>1. IsCall(call[c])
      BY <1>t DEF CallGood
    <2> QED BY <2>1, <1>t DEF IsCall
  <1>4. call' = [call EXCEPT ![c] = r]
    BY <1>t
  <1> HIDE DEF r
  <1>5. Moves(c) /\ call'[c] = r
    BY <1>3, <1>4, <1>t, GoesOn
  <1>6. CallGood(c)'
    <2>1. call[c].job \in Jobs /\ Jobs' = Jobs
      BY <1>t DEF CallGood, Jobs
    <2>2. call[c].job.kind \in {"snapshot", "recompile"} /\ rows["snapshot"] # None
      BY <1>t DEF CallGood
    <2> QED BY <1>1, <1>3, <1>5, <1>t, <2>1, <2>2 DEF CallGood, Compiling
  <1>7. AloneGood(c)' /\ Unsettled(c)'
    BY <1>2, <1>3, <1>5, <1>t DEF AloneGood, Unsettled, Compiling
  <1> QED BY <1>5, <1>6, <1>7, <1>t, QuietKeeps

\* A compilation that goes on: from the row it has read, one file after the other.
LEMMA CompileKeeps ==
    ASSUME Inv, NEW c \in Callers, WriteCrosses(c) \/ WriteNetwork(c)
    PROVE  Inv'
  <1> DEFINE r == call'[c]
             d == call[c].data
             next == IF WriteCrosses(c) THEN "network" ELSE "report"
             file == IF WriteCrosses(c) THEN "crosses" ELSE "network"
  <1>t. /\ CallGood(c) /\ AloneGood(c) /\ Unsettled(c) /\ Busy(c) /\ call[c].pc = file
        /\ call = [q \in Callers |-> call[q]]
        /\ norm \in [{"crosses", "network", "report"} -> Payloads \cup {None}]
        /\ legacy \in [Crosses -> Payloads \cup {None}]
        /\ norm' = [norm EXCEPT ![file] = d]
        /\ call' = [call EXCEPT ![c].pc = next]
        /\ UNCHANGED <<setting, rows, event, legacy, faults, met, calm>>
    <2>1. /\ CallGood(c) /\ AloneGood(c) /\ Unsettled(c) /\ call = [q \in Callers |-> call[q]]
          /\ norm \in [{"crosses", "network", "report"} -> Payloads \cup {None}]
          /\ legacy \in [Crosses -> Payloads \cup {None}]
      BY DEF Inv, CallsGood, Stores
    <2>2. CASE WriteCrosses(c)
      BY <2>1, <2>2 DEF WriteCrosses, Busy
    <2>3. CASE ~WriteCrosses(c)
      BY <2>1, <2>3 DEF WriteNetwork, Busy
    <2> QED BY <2>2, <2>3
  <1>0. \/ file = "crosses" /\ next = "network"
        \/ file = "network" /\ next = "report"
    OBVIOUS
  <1> HIDE DEF next, file
  <1>1. /\ IsCall(r) /\ r.pc = next /\ r.data = d
        /\ r.job = call[c].job /\ r.alone = call[c].alone
    <2>1. IsCall(call[c])
      BY <1>t DEF CallGood
    <2> QED BY <2>1, <1>t DEF IsCall
  <1>2. call' = [call EXCEPT ![c] = r]
    BY <1>t
  <1> HIDE DEF r
  <1>3. Moves(c) /\ call'[c] = r
    BY <1>1, <1>2, <1>t, <1>0, GoesOn
  <1>4. /\ call[c].job.kind \in {"snapshot", "recompile"} /\ rows["snapshot"] # None /\ d \in Payloads
        /\ "snapshot" \notin calm
    BY <1>0, <1>t DEF CallGood, Unsettled, Compiling
  <1>5. Minds(c)
    BY <1>4, <1>t, JobKeys DEF Minds
  <1> HIDE DEF d
  <1>6. /\ norm' \in [{"crosses", "network", "report"} -> Payloads \cup {None}]
        /\ norm'[file] = d
        /\ file = "network" => norm'["crosses"] = norm["crosses"]
    BY <1>0, <1>4, <1>t
  <1>7. Stores'
    BY <1>3, <1>6, <1>t, StoresKept
  <1>8. CalmGood'
    BY <1>4, <1>t DEF Inv, CalmGood, OneActive, IsActive, UndisturbedSyncRepairs
  <1>9. CallGood(c)'
    <2>1. call[c].job \in Jobs /\ Jobs' = Jobs
      BY <1>t, <1>0 DEF CallGood, Jobs
    <2> QED BY <1>0, <1>1, <1>3, <1>4, <1>t, <2>1 DEF CallGood, Compiling
  <1>10. AloneGood(c)'
    <2>1. call[c].alone => d = rows["snapshot"].data
      BY <1>0, <1>t DEF AloneGood, Compiling, d
    <2>2. call[c].alone /\ file = "network" => norm["crosses"] = d
      BY <1>t DEF AloneGood, d
    <2> QED BY <1>0, <1>1, <1>3, <1>6, <1>t, <2>1, <2>2 DEF AloneGood, Compiling
  <1>11. Unsettled(c)'
    BY <1>0, <1>1, <1>3, <1>4, <1>t DEF Unsettled
  <1> QED BY <1>3, <1>5, <1>7, <1>8, <1>9, <1>10, <1>11, StepKeeps

LEMMA WriteReportKeeps ==
    ASSUME Inv, NEW c \in Callers, WriteReport(c)
    PROVE  Inv'
  <1> DEFINE j == call[c].job
             d == call[c].data
  <1>t. /\ CallGood(c) /\ AloneGood(c) /\ Unsettled(c) /\ Busy(c) /\ call[c].pc = "report" /\ Finish(c)
        /\ norm \in [{"crosses", "network", "report"} -> Payloads \cup {None}]
        /\ legacy \in [Crosses -> Payloads \cup {None}]
        /\ norm' = [norm EXCEPT !.report = d]
        /\ UNCHANGED <<setting, rows, event, legacy, faults, met>>
    BY DEF Inv, CallsGood, Stores, Busy, WriteReport
  <1>1. Moves(c)
    BY <1>t, Done DEF Finish
  <1>2. Settles(j) \subseteq KeysOf(j) /\ KeysOf(j) \subseteq Keys
    BY <1>t, SettlesKeys
  <1>3. /\ j.kind \in {"snapshot", "recompile"} /\ rows["snapshot"] # None /\ d \in Payloads
        /\ "snapshot" \notin calm
    BY <1>t DEF CallGood, Unsettled, Compiling
  <1>4. calm' \subseteq calm \cup Keys /\ Minds(c)
    <2>1. "snapshot" \in KeysOf(j)
      BY <1>3, <1>t, JobKeys
    <2> QED BY <1>t, <1>2, <2>1 DEF Finish, Minds
  <1>5. Settles(j) \cap Versions = {} /\ Crosses \cap Settles(j) = {}
    <2>1. Settles(j) \subseteq {"area", "snapshot"}
      BY <1>3 DEF Settles, KeysOf
    <2> QED BY <2>1, KeysApart
  <1>6. call[c].alone =>
            d = rows["snapshot"].data /\ norm["crosses"] = d /\ norm["network"] = d
    BY <1>t DEF AloneGood, Compiling
  <1> HIDE DEF d, j
  <1>7. /\ norm' \in [{"crosses", "network", "report"} -> Payloads \cup {None}]
        /\ norm'["report"] = d /\ norm'["crosses"] = norm["crosses"]
        /\ norm'["network"] = norm["network"]
    BY <1>3, <1>t
  <1>8. Stores'
    BY <1>1, <1>4, <1>7, <1>t, StoresKept
  <1>9. call[c].alone => \A f \in DOMAIN norm' : norm'[f] = rows["snapshot"].data
    BY <1>6, <1>7
  <1> QED BY <1>3, <1>4, <1>5, <1>8, <1>9, <1>t, FinishKeeps DEF j

\* The commit.
LEMMA WriteKeeps ==
    ASSUME Inv, NEW c \in Callers, Write(c)
    PROVE  Inv'
  <1> DEFINE j == call[c].job
             seen == call[c].seen
             pc == AfterWrite[j.kind]
             r == call'[c]
             K == KeysOf(j)
  <1>t. /\ Stores /\ CallGood(c) /\ AloneGood(c) /\ Busy(c) /\ call[c].pc = "write" /\ ~Refused(c)
        /\ call = [q \in Callers |-> call[q]]
        /\ call' = [call EXCEPT ![c].pc = pc, ![c].seen = None]
        /\ calm' = calm \ Settles(j)
        /\ UNCHANGED <<setting, legacy, norm, faults, met>>
    BY DEF Inv, CallsGood, Stores, Busy, Write
  <1>1. PICK siblings \in Siblings(c) : rows' = Flushed(j, seen, siblings)
    BY DEF Write
  <1>2. CanWrite(j, seen, siblings)
    <2>1. siblings = seen \/ siblings = rows
      BY DEF Siblings
    <2>2. ~Inserted(j, seen)
      BY <1>t DEF Refused
    <2> QED BY <1>t, <2>1, <2>2 DEF Stores, CallGood, CanWrite
  <1>3. j \in Jobs /\ j.kind # "recompile" /\ K \subseteq Keys
        /\ (j.kind \in {"artifact", "activate"} => K = Versions)
        /\ (j.kind = "config" => j.cross \in K /\ j.cross \in Crosses /\ K = {j.cross})
    <2>1. j \in Jobs /\ setting \in Settings /\ j.kind # "recompile"
      BY <1>t DEF CallGood, Stores
    <2> QED BY <2>1, JobFacts, KeysApart
  <1> HIDE DEF K
  <1>4. /\ IsTable(rows')
        /\ \A k \in Keys : rows[k] # None => rows'[k] # None
        /\ \A k \in Keys \ K : rows'[k] = rows[k]
        /\ j.kind \in {"area", "snapshot"} => rows'["area"] # None
        /\ j.kind = "snapshot" => rows'["snapshot"] # None
        /\ j.kind = "config" => rows'[j.cross] # None
        /\ ~Activates(j) => \A v \in Versions : IsActive(rows', v) => IsActive(rows, v)
        /\ (\A k \in K : seen[k] = rows[k]) =>
              /\ j.kind = "config" => rows'[j.cross].data = j.data
              /\ Activates(j) => OneActive(rows')
    BY <1>1, <1>2, FlushedRows DEF K
  <1>5. /\ j.kind \in {"area", "artifact", "activate", "config", "snapshot"}
        /\ j.kind \in {"area", "artifact", "activate"} => pc = "end"
        /\ j.kind = "config" => pc = "file"
        /\ j.kind = "snapshot" => pc = "read"
    <2>1. setting \in Settings
      BY <1>t DEF Stores
    <2>2. j.kind \in {"area", "artifact", "activate", "config", "snapshot"}
      BY <1>3, <2>1, JobFacts
    <2> QED BY <2>2 DEF AfterWrite
  <1>6. /\ IsCall(r) /\ r.pc = pc /\ r.job = j /\ r.alone = call[c].alone
    <2>1. IsCall(call[c])
      BY <1>t DEF CallGood
    <2> HIDE DEF pc
    <2> QED BY <2>1, <1>t DEF IsCall
  <1>7. call' = [call EXCEPT ![c] = r]
    BY <1>t
  <1> HIDE DEF r, pc
  <1>8. Moves(c) /\ call'[c] = r
    BY <1>6, <1>7, <1>t, GoesOn
  <1>9. Minds(c)
    BY <1>4, <1>t DEF Minds, K
  <1>10. HasArea(rows')
    <2>1. CASE rows["area"] # None
      BY <2>1, <1>4, KeysApart DEF HasArea
    <2>2. CASE rows["area"] = None
      <3>1. \A k \in Keys : rows[k] = None
        BY <2>2, <1>t DEF Stores, HasArea
      <3>2. j.kind \notin {"artifact", "config"}
        BY <2>2, <1>t DEF CallGood
      <3>3. j.kind # "activate"
        <4>1. j.kind = "activate" => j.version \in Versions
          BY <1>t, JobKeys
        <4>2. j.kind = "activate" => seen[j.version] # None
          BY <1>t DEF CallGood
        <4>3. \A k \in Keys : seen[k] # None => rows[k] # None
          BY <1>t DEF CallGood
        <4> QED BY <3>1, <4>1, <4>2, <4>3, KeysApart
      <3> QED BY <3>2, <3>3, <1>4, <1>5 DEF HasArea
    <2> QED BY <2>1, <2>2
  <1>11. Stores'
    <2>1. event' \in [Ids -> setting.deliveries \cup {None}]
      <3>1. CASE ~IsDelivery(j)
        BY <3>1, <1>t DEF Write, Stores
      <3>2. CASE IsDelivery(j)
        <4>1. j \in setting.deliveries
          <5>1. j # Recompile /\ \A v \in Versions : j # Activate(v)
            BY <3>2 DEF IsDelivery, Recompile, Activate
          <5> QED BY <5>1, <1>3 DEF Jobs
        <4>2. event' = [event EXCEPT ![j.id] = IF @ = None THEN j ELSE @]
          BY <3>2 DEF Write
        <4> QED BY <4>1, <4>2, <1>t DEF Stores
      <3> QED BY <3>1, <3>2
    <2> QED BY <2>1, <1>4, <1>8, <1>10, <1>t DEF Stores, Moves, IsTable, HasArea
  <1>12. CalmGood'
    <2>1. Settles(j) = IF j.kind = "artifact" /\ ~Activates(j) THEN {} ELSE K
      BY DEF Settles, Activates, K
    <2>2. Versions \subseteq calm' => OneActive(rows)'
      <3>1. CASE ~Activates(j)
        BY <3>1, <1>4, <1>t DEF Inv, CalmGood, OneActive
      <3>2. CASE Activates(j)
        <4>1. Settles(j) = Versions
          BY <3>2, <2>1, <1>3 DEF Activates
        <4> QED BY <4>1, <1>t DEF OneActive
      <3> QED BY <3>1, <3>2
    <2>3. \A k \in {"snapshot"} \cup Crosses : k \in calm' => k \in calm /\ rows'[k] = rows[k]
      <3>1. \A k \in {"snapshot"} \cup Crosses : k \in Keys /\ k \notin Versions
        BY KeysApart
      <3> QED BY <3>1, <2>1, <1>3, <1>4, <1>t
    <2>4. UndisturbedSyncRepairs'
      BY <2>3, <1>t DEF Inv, CalmGood, UndisturbedSyncRepairs
    <2> QED BY <2>2, <2>4 DEF CalmGood
  <1>13. CallGood(c)'
    <2>1. Jobs' = Jobs
      BY <1>t DEF Jobs
    <2> QED BY <1>3, <1>4, <1>5, <1>6, <1>8, <2>1 DEF CallGood, Compiling
  <1>14. AloneGood(c)'
    <2>1. call[c].alone => \A k \in K : seen[k] = rows[k]
      BY <1>t DEF AloneGood, K
    <2> HIDE DEF j, seen
    <2> QED BY <1>4, <1>5, <1>6, <1>8, <2>1 DEF AloneGood, Compiling, Activates
  <1>15. Unsettled(c)'
    <2>1. j.kind = "config" => Settles(j) = {j.cross}
      BY <1>3 DEF Settles, K
    <2> QED BY <2>1, <1>5, <1>6, <1>8, <1>t DEF Unsettled, Compiling
  <1> QED BY <1>8, <1>9, <1>11, <1>12, <1>13, <1>14, <1>15, StepKeeps
-----------------------------------------------------------------------------
(***************************************************************************)
(* Requests that come in, and crashes.                                     *)
(***************************************************************************)

\* Whoever is under way on a row of the job that begins is alone no longer.
LEMMA StartStep ==
    ASSUME Inv, NEW c \in Callers, NEW j, NEW pc, Start(c, j, pc)
    PROVE  /\ call' = [d \in Callers |-> call'[d]]
           /\ ~Busy(c) /\ call'[c].pc = pc /\ call'[c].job = j /\ IsCall(call'[c])
           /\ call'[c].alone => \A d \in Callers \ {c} : ~BusyOn(d, KeysOf(j))
           /\ \A d \in Callers \ {c} :
                 /\ IsCall(call'[d])
                 /\ call'[d].pc = call[d].pc /\ call'[d].job = call[d].job
                 /\ call'[d].seen = call[d].seen /\ call'[d].data = call[d].data
                 /\ call'[d].alone => call[d].alone = call'[d].alone /\ ~BusyOn(d, KeysOf(j))
  <1>1. IsCall(call'[c]) /\ call'[c].pc = pc /\ call'[c].job = j
    BY DEF Start, Idle, IsCall
  <1>2. call'[c].alone = \A d \in Callers : ~BusyOn(d, KeysOf(j))
    BY DEF Start, Idle
  <1>3. ASSUME NEW d \in Callers, d # c
        PROVE  /\ IsCall(call'[d])
               /\ call'[d].pc = call[d].pc /\ call'[d].job = call[d].job
               /\ call'[d].seen = call[d].seen /\ call'[d].data = call[d].data
               /\ call'[d].alone => call[d].alone = call'[d].alone /\ ~BusyOn(d, KeysOf(j))
    <2>1. IsCall(call[d])
      BY DEF Inv, CallsGood, CallGood
    <2>2. CASE BusyOn(d, KeysOf(j))
      <3>1. call'[d] = [call[d] EXCEPT !.alone = FALSE]
        BY <1>3, <2>2 DEF Start
      <3> QED BY <2>1, <3>1 DEF IsCall
    <2>3. CASE ~BusyOn(d, KeysOf(j))
      <3>1. call'[d] = call[d]
        BY <1>3, <2>3 DEF Start
      <3> QED BY <2>1, <2>3, <3>1
    <2> QED BY <2>2, <2>3
  <1> QED BY <1>1, <1>2, <1>3 DEF Start

LEMMA StartKeeps ==
    ASSUME Inv, NEW c \in Callers, NEW j \in Jobs, NEW pc, Start(c, j, pc),
           \/ pc = "check" /\ j \in setting.deliveries
           \/ pc = "read" /\ j.kind = "recompile" /\ rows["snapshot"] # None
           \/ pc = "load" /\ j.kind = "activate" /\ rows[j.version] # None,
           UNCHANGED <<setting, rows, event, legacy, norm, faults, calm>>, met' \subseteq Ids
    PROVE  Inv'
  <1>1. /\ call' = [d \in Callers |-> call'[d]]
        /\ ~Busy(c) /\ call'[c].pc = pc /\ call'[c].job = j /\ IsCall(call'[c])
        /\ call'[c].alone => \A d \in Callers \ {c} : ~BusyOn(d, KeysOf(j))
        /\ \A d \in Callers \ {c} :
              /\ IsCall(call'[d])
              /\ call'[d].pc = call[d].pc /\ call'[d].job = call[d].job
              /\ call'[d].seen = call[d].seen /\ call'[d].data = call[d].data
              /\ call'[d].alone => call[d].alone = call'[d].alone /\ ~BusyOn(d, KeysOf(j))
    BY StartStep
  <1>2. Stores'
    BY <1>1 DEF Inv, Stores, IsTable, HasArea
  <1>3. CalmGood'
    BY DEF Inv, CalmGood, OneActive, IsActive, UndisturbedSyncRepairs
  <1>4. Jobs' = Jobs
    BY DEF Jobs
  <1>5. ASSUME NEW d \in Callers
        PROVE  CallGood(d)' /\ AloneGood(d)' /\ Unsettled(d)'
    <2>1. CASE d = c
      BY <1>1, <1>4, <2>1 DEF CallGood, AloneGood, Unsettled, Compiling
    <2>2. CASE d # c
      <3>1. CallGood(d) /\ AloneGood(d) /\ Unsettled(d)
        BY DEF Inv, CallsGood
      <3>2. /\ IsCall(call'[d])
            /\ call'[d].pc = call[d].pc /\ call'[d].job = call[d].job
            /\ call'[d].seen = call[d].seen /\ call'[d].data = call[d].data
            /\ call'[d].alone => call[d].alone
        BY <1>1, <2>2
      <3>3. CallGood(d)'
        BY <1>4, <3>1, <3>2 DEF CallGood, IsTable
      <3>4. AloneGood(d)'
        BY <3>1, <3>2 DEF AloneGood, OneActive, IsActive
      <3>5. Unsettled(d)'
        BY <3>1, <3>2 DEF Unsettled
      <3> QED BY <3>3, <3>4, <3>5
    <2> QED BY <2>1, <2>2
  <1>6. Apart'
    <2> SUFFICES ASSUME NEW e \in Callers, NEW f \in Callers, e # f, Busy(e)', call'[e].alone,
                        BusyOn(f, KeysOf(call[e].job))'
                 PROVE  FALSE
      BY DEF Apart
    <2>1. KeysOf(call[f].job)' \cap KeysOf(call[e].job)' # {}
      BY DEF BusyOn
    <2>2. CASE e = c
      BY <1>1, <2>1, <2>2 DEF BusyOn, Busy
    <2>3. CASE f = c
      BY <1>1, <2>1, <2>3 DEF BusyOn, Busy
    <2>4. CASE e # c /\ f # c
      BY <1>1, <2>4 DEF Inv, Apart, BusyOn, Busy
    <2> QED BY <2>2, <2>3, <2>4
  <1> QED BY <1>2, <1>3, <1>5, <1>6 DEF Inv, CallsGood

LEMMA RequestKeeps ==
    ASSUME Inv, NEW c \in Callers,
           \/ \E d \in setting.deliveries : Deliver(c, d)
           \/ PostRecompile(c)
           \/ \E v \in Versions : PostActivate(c, v)
    PROVE  Inv'
  <1>t. met \subseteq Ids /\ setting \in Settings
    BY DEF Inv, Stores
  <1>1. ASSUME NEW d \in setting.deliveries, Deliver(c, d) PROVE Inv'
    <2>1. d \in Jobs /\ d.id \in Ids
      BY <1>t, Deliveries DEF Jobs
    <2>2. met' \subseteq Ids
      BY <1>1, <1>t, <2>1 DEF Deliver
    <2> QED BY <1>1, <2>1, <2>2, StartKeeps DEF Deliver
  <1>2. CASE PostRecompile(c)
    <2>1. Recompile \in Jobs /\ Recompile.kind = "recompile"
      BY DEF Jobs, Recompile
    <2> QED BY <1>2, <1>t, <2>1, StartKeeps DEF PostRecompile
  <1>3. ASSUME NEW v \in Versions, PostActivate(c, v) PROVE Inv'
    <2>1. Activate(v) \in Jobs /\ Activate(v).kind = "activate" /\ Activate(v).version = v
      BY DEF Jobs, Activate
    <2> QED BY <1>3, <1>t, <2>1, StartKeeps DEF PostActivate
  <1> QED BY <1>1, <1>2, <1>3

LEMMA CrashKeeps ==
    ASSUME Inv, Crash
    PROVE  Inv'
  <1>1. \A c \in Callers : call'[c] = Idle /\ IsCall(call'[c]) /\ call'[c].pc = "idle"
                           /\ ~call'[c].alone
    BY DEF Crash, Idle, IsCall
  <1>2. /\ call' = [c \in Callers |-> call'[c]]
        /\ UNCHANGED <<setting, rows, event, legacy, norm, met, calm>>
    BY DEF Crash
  <1>3. faults' \in 0..MaxFaults
    <2>1. faults \in 0..MaxFaults /\ MaxFaults \in Nat
      BY SyncAssumption DEF Inv, Stores
    <2> QED BY <2>1 DEF Crash
  <1>4. Stores'
    BY <1>2, <1>3 DEF Inv, Stores, IsTable, HasArea
  <1>5. CalmGood'
    BY <1>2 DEF Inv, CalmGood, OneActive, IsActive, UndisturbedSyncRepairs
  <1>6. Apart' /\ CallsGood'
    BY <1>1 DEF Apart, Busy, CallsGood, CallGood, AloneGood, Unsettled, Compiling
  <1> QED BY <1>4, <1>5, <1>6 DEF Inv

LEMMA InvInit == Init => Inv
  <1> SUFFICES ASSUME Init PROVE Inv
    OBVIOUS
  <1>1. \A c \in Callers : call[c] = Idle /\ IsCall(call[c]) /\ call[c].pc = "idle"
                           /\ ~call[c].alone
    BY DEF Init, Idle, IsCall
  <1>2. Stores
    <2>1. faults \in 0..MaxFaults
      BY SyncAssumption DEF Init
    <2> QED BY <2>1, KeysApart DEF Init, Stores, IsTable, HasArea
  <1>3. CalmGood
    BY KeysApart DEF Init, CalmGood, OneActive, IsActive, UndisturbedSyncRepairs
  <1>4. Apart /\ CallsGood
    BY <1>1 DEF Apart, Busy, CallsGood, CallGood, AloneGood, Unsettled, Compiling
  <1> QED BY <1>2, <1>3, <1>4 DEF Inv

LEMMA InvStep == Inv /\ [Next]_vars => Inv'
  <1> SUFFICES ASSUME Inv, [Next]_vars PROVE Inv'
    OBVIOUS
  <1>1. ASSUME NEW c \in Callers, Step(c) \/ Fail(c) PROVE Inv'
    BY <1>1, CheckKeeps, LoadKeeps, WriteKeeps, RefusedKeeps, EndKeeps, SaveConfigKeeps,
       ReadSnapshotKeeps, CompileKeeps, WriteReportKeeps DEF Step
  <1>2. CASE UNCHANGED vars
    <2>1. /\ setting' = setting /\ rows' = rows /\ event' = event /\ legacy' = legacy
          /\ norm' = norm /\ call' = call /\ faults' = faults /\ met' = met /\ calm' = calm
      BY <1>2 DEF vars
    <2>2. Stores' /\ Apart' /\ CalmGood'
      BY <2>1 DEF Inv, Stores, IsTable, HasArea, Apart, Busy, BusyOn, CalmGood, OneActive, IsActive,
                  UndisturbedSyncRepairs
    <2>3. CallsGood'
      BY <2>1 DEF Inv, CallsGood, CallGood, AloneGood, Unsettled, Jobs, OneActive, IsActive, IsTable
    <2> QED BY <2>2, <2>3 DEF Inv
  <1> QED BY <1>1, <1>2, RequestKeeps, CrashKeeps DEF Next
-----------------------------------------------------------------------------
(***************************************************************************)
(* The theorems.                                                           *)
(***************************************************************************)

\* Every row that a handler flushes, whatever it saw and whatever was committed meanwhile,
\* is a row of its table, and an artifact, a config or a snapshot never lacks its area.
THEOREM SyncTypes == Spec => []TypeOK
  <1>1. Inv => TypeOK
    <2> SUFFICES ASSUME Inv PROVE TypeOK
      OBVIOUS
    <2>1. /\ DOMAIN rows = Keys
          /\ rows["area"] \in Area \cup {None} /\ rows["snapshot"] \in Content \cup {None}
          /\ \A x \in Crosses : rows[x] \in Config \cup {None}
          /\ \A v \in Versions : rows[v] \in Artifact \cup {None}
      BY KeysApart, RowSets DEF Inv, Stores, IsTable
    <2>2. rows["area"] = None => \A k \in Keys : rows[k] = None
      BY DEF Inv, Stores, HasArea
    <2>3. ASSUME NEW c \in Callers
          PROVE  /\ call[c].pc \in {"idle", "check", "load", "write", "end", "file", "read",
                                    "crosses", "network", "report"}
                 /\ call[c].pc \in {"crosses", "network", "report"} => call[c].data \in Payloads
      <3>1. CallGood(c)
        BY DEF Inv, CallsGood
      <3> QED BY <3>1 DEF CallGood, Compiling
    <2> QED BY <2>1, <2>2, <2>3 DEF Inv, Stores, TypeOK
  <1> QED BY <1>1, InvInit, InvStep, PTL DEF Spec

\* Whatever was delivered twice, activated by hand, interrupted or lost before it, an
\* activation that runs alone leaves one active artifact, and only what overlaps with a
\* later change can make it two.
THEOREM OneActiveWhenCalm == Spec => []OneActiveArtifact
  <1>1. Inv => OneActiveArtifact
    <2> SUFFICES ASSUME Inv, Versions \subseteq calm
                 PROVE  Cardinality({v \in Versions : rows[v] # None /\ rows[v].active}) <= 1
      BY DEF OneActiveArtifact
    <2> DEFINE A == {v \in Versions : rows[v] # None /\ rows[v].active}
    <2>1. \A v, w \in A : v = w
      BY DEF Inv, CalmGood, OneActive, IsActive
    <2>2. CASE A = {}
      BY <2>2, FS_EmptySet
    <2>3. CASE A # {}
      <3>1. PICK v \in A : A = {v}
        BY <2>1, <2>3
      <3>2. Cardinality({v}) = 1
        BY FS_Singleton
      <3> HIDE DEF A
      <3>3. Cardinality(A) <= 1
        BY <3>1, <3>2
      <3> QED BY <3>3 DEF A
    <2> QED BY <2>2, <2>3
  <1> QED BY <1>1, InvInit, InvStep, PTL DEF Spec

\* The next change that runs alone and to its end puts the files back in step with the
\* rows, whatever failures, crashes and overlapping requests left behind.
THEOREM RepairedWhenCalm == Spec => []UndisturbedSyncRepairs
  <1>1. Inv => UndisturbedSyncRepairs
    BY DEF Inv, CalmGood
  <1> QED BY <1>1, InvInit, InvStep, PTL DEF Spec
=============================================================================
