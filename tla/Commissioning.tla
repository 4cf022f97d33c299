----------------------------- MODULE Commissioning -----------------------------
(***************************************************************************)
(* One area from the delivery of its real network to the answer to a       *)
(* controller: snapshots are stored (services/sync_service.py) and compiled*)
(* (ops/real_normalization.py), a trained network is composed with the one *)
(* stored last (ops/composer.py), and requests are served from the merge   *)
(* of the compiled files, the bundle in service and a manual cross config. *)
(*                                                                         *)
(* Snapshots, trained networks, manual configs and requests are given.     *)
(* Idempotency, delivery order and racing compiles are SyncEvents' part;   *)
(* here a compile may be missing (a crash, or an error that the sync       *)
(* swallows).                                                              *)
(***************************************************************************)
EXTENDS ServedConfig

CONSTANTS
    Payloads,       \* snapshots a controller may deliver
    Networks,       \* trained networks
    Manual,         \* cross -> configs a controller may deliver for it
    Requests,       \* compact requests, each for a cross
    Production,     \* BOOLEAN: Settings.is_production
    MaxSyncs        \* bound: snapshots delivered

ASSUME CommissioningAssumption ==
    /\ Production \in BOOLEAN
    /\ MaxSyncs \in Nat

\* A snapshot is a finite table of rows with integer ids; coordinates and order numbers
\* are numbers, and what is missing is None.
ASSUME PayloadsAssumption ==
    \A s \in Payloads :
        /\ IsFiniteSet(DOMAIN s.area) /\ DOMAIN s.area \subseteq Int
        /\ IsFiniteSet(DOMAIN s.roads) /\ DOMAIN s.roads \subseteq Int
        /\ IsFiniteSet(DOMAIN s.stages) /\ DOMAIN s.stages \subseteq Int
        /\ \A i \in DOMAIN s.roads : \A c \in Ends(s.roads[i]) \cap Crosses(s) :
              s.roads[i].angle[c] \in Int \cup {None}
        /\ \A t \in DOMAIN s.stages : s.stages[t].order \in Int
        /\ None \notin DOMAIN s.area

\* The crosses of a trained network are the keys of a table, in the order of the file;
\* phases are a list, and an edge comes from one of four sides.
ASSUME NetworksAssumption ==
    \A n \in Networks :
        /\ n.ids \in Seq(DOMAIN n.cross) /\ Injective(n.ids) /\ Elements(n.ids) = DOMAIN n.cross
        /\ \A x \in DOMAIN n.cross :
              /\ n.cross[x].phases \in Seq(Elements(n.cross[x].phases))
              /\ n.cross[x].edges \subseteq Directions

\* None is none of the values it stands in for.
ASSUME NoneAssumption ==
    \A s \in Payloads :
        /\ s # None
        /\ [c \in Crosses(s) |-> neighbors(s, c)] # None
        /\ \A c \in Crosses(s) : real_cfg(real_normalization(s).crosses[c]) # None
        /\ \A n \in Networks :
              LET b == runtime_bundle(n, real_normalization(s)) IN
              Crosses(s) # {} /\ Composable(n, real_normalization(s), Production) =>
                  /\ [net |-> n, of |-> s] # None /\ b # None
                  /\ \A c \in DOMAIN b.cross :
                        /\ bundle_cfg(b, c) # None
                        /\ \A y \in DOMAIN b.cross[c].std : b.cross[c].std[y] # None

VARIABLES
    row,        \* real_network_snapshot.payload_json of the area, None before
    compiling,  \* BOOLEAN: a sync is between its commit and its compile
    files,      \* models/real_normalization: cross -> config
    graph,      \* its network.json, None before
    origin,     \* cross -> the snapshot its file was compiled from
    latest,     \* the snapshot compiled last
    legacy,     \* models/area_<id>/intersections: cross -> config
    bundle,     \* runtime bundle in service, None before
    built,      \* [net, of]: what it was built from
    syncs

vars == <<row, compiling, files, graph, origin, latest, legacy, bundle, built, syncs>>

Init ==
    /\ row = None
    /\ compiling = FALSE
    /\ files = Empty
    /\ graph = None
    /\ origin = Empty
    /\ latest = None
    /\ legacy = Empty
    /\ bundle = None
    /\ built = None
    /\ syncs = 0
-----------------------------------------------------------------------------
Update(f, g) == [c \in DOMAIN f \cup DOMAIN g |-> IF c \in DOMAIN g THEN g[c] ELSE f[c]]

\* A payload that lacks a table, or maps a sim cross to a cross it does not have, is refused.
Valid(s) ==
    /\ DOMAIN s.area # {} /\ DOMAIN s.cycles # {} /\ DOMAIN s.stages # {}
    /\ \A x \in DOMAIN s.simToReal : s.simToReal[x] \in DOMAIN s.area

Sync(s) ==
    /\ syncs < MaxSyncs /\ ~compiling
    /\ Valid(s)
    /\ row' = s
    /\ compiling' = TRUE
    /\ syncs' = syncs + 1
    /\ UNCHANGED <<files, graph, origin, latest, legacy, bundle, built>>

\* Files of crosses that the snapshot no longer has stay.  An area without an active
\* cross raises before anything is written; the sync swallows it.
Compile ==
    /\ compiling
    /\ compiling' = FALSE
    /\ IF Crosses(row) = {} THEN UNCHANGED <<files, graph, origin, latest>>
       ELSE /\ \E r \in {real_normalization(row)} :
                  /\ files' = Update(files, [c \in Crosses(row) |-> real_cfg(r.crosses[c])])
                  /\ graph' = [c \in Crosses(row) |-> r.crosses[c].neighbors]
            /\ origin' = Update(origin, [c \in Crosses(row) |-> row])
            /\ latest' = row
    /\ UNCHANGED <<row, legacy, bundle, built, syncs>>

\* A crash or another error between the commit and the compile.
NotCompiled ==
    /\ compiling
    /\ compiling' = FALSE
    /\ UNCHANGED <<row, files, graph, origin, latest, legacy, bundle, built, syncs>>

SaveConfig(c) ==
    /\ \E d \in Manual[c] : legacy' = Update(legacy, [x \in {c} |-> legacy_cfg(d)])
    /\ UNCHANGED <<row, compiling, files, graph, origin, latest, bundle, built, syncs>>

\* Composition compiles the stored snapshot itself and raises, changing nothing, when the
\* two do not fit; a composed bundle goes into service.
Compose ==
    /\ row # None /\ Crosses(row) # {}
    /\ \E r \in {real_normalization(row)}, n \in Networks :
          /\ Composable(n, r, Production)
          /\ bundle' = runtime_bundle(n, r)
          /\ built' = [net |-> n, of |-> row]
    /\ UNCHANGED <<row, compiling, files, graph, origin, latest, legacy, syncs>>

Next ==
    \/ \E s \in Payloads : Sync(s)
    \/ Compile
    \/ NotCompiled
    \/ \E c \in DOMAIN Manual : SaveConfig(c)
    \/ Compose

Spec == Init /\ [][Next]_vars
-----------------------------------------------------------------------------
(***************************************************************************)
(* Serving.  A request changes nothing, so that what it is answered with   *)
(* is a function of the state.                                             *)
(***************************************************************************)
At(f, c) == IF c \in DOMAIN f THEN f[c] ELSE None

get_config(c) == merge_config(At(files, c), bundle_cfg(bundle, c), At(legacy, c))

BugBundleGraphFirst ==
    IF bundle # None THEN bundle.network ELSE IF graph # None THEN graph ELSE Empty

\* The neighbours of a cross; the bundle's own only when no snapshot has been compiled.
load_network ==
    IF graph # None THEN graph ELSE IF bundle # None THEN bundle.network ELSE Empty

\* Strict mode, the default: a cross without a config, or not in the graph, is refused.
ensure_area_configs(c) == get_config(c) # None /\ c \in DOMAIN load_network

Served == {q \in Requests : ensure_area_configs(q.id) /\ Hydrates(get_config(q.id), q)}

StageIds(q) ==
    LET sts == hydrated_stages(get_config(q.id), q) IN [k \in DOMAIN sts |-> sts[k].id]

PhasesServed(q) ==
    effective_phase_mapping(get_config(q.id), CycleId(get_config(q.id), q), StageIds(q))

-----------------------------------------------------------------------------
\* Types of the state.
TypeOK ==
    /\ row \in Payloads \cup {None}
    /\ compiling \in BOOLEAN
    /\ DOMAIN files = DOMAIN origin
    /\ \A c \in DOMAIN origin : origin[c] \in Payloads /\ c \in Crosses(origin[c])
    /\ \A c \in DOMAIN files : \A y \in DOMAIN files[c].std : \A t \in DOMAIN files[c].std[y] :
          files[c].std[y][t] \in -1..(NumPhases - 1)
    /\ graph # None => /\ DOMAIN graph \subseteq DOMAIN files
                       /\ \A c \in DOMAIN graph : Cardinality(DOMAIN graph[c]) <= MaxNeighbors
    /\ DOMAIN legacy \subseteq DOMAIN Manual
    /\ (bundle = None) <=> (built = None)
    /\ built # None => built.net \in Networks /\ built.of \in Payloads
    /\ syncs \in 0..MaxSyncs

\* A road leads to cross c from direction d: it ends there and its bearing falls into d.
LeadsTo(s, i, c, d) ==
    /\ s.roads[i].active /\ c \in Ends(s.roads[i])
    /\ Bearing(s, i, c) # None /\ Compass(Bearing(s, i, c)) = d

\* Composition (compile_real_normalization, _build_cross_mapping): every approach the policy
\* was trained with is bound to a road of its own that leads to the right cross from the
\* right side, and no other road there points more exactly; no two sim crosses share one.
ApproachesBoundRightly ==
    bundle # None =>
        \A x \in DOMAIN bundle.map : LET e == bundle.map[x] IN
            /\ DOMAIN e.roads = built.net.cross[x].edges
            /\ \A d \in DOMAIN e.roads :
                  /\ LeadsTo(built.of, e.roads[d], e.real, d)
                  /\ \A j \in DOMAIN built.of.roads :
                        LeadsTo(built.of, j, e.real, d) =>
                            Off(built.of, e.roads[d], e.real, d) <= Off(built.of, j, e.real, d)
            /\ \A z \in DOMAIN bundle.map \ {x} : bundle.map[z].real # e.real

(***************************************************************************)
(* When a trained cross can be laid over cross c of snapshot s, in the     *)
(* terms of the snapshot.                                                  *)
(***************************************************************************)
Fits(s, sim, c) ==
    /\ sim.edges # {} /\ sim.phases # << >>
    /\ \A d \in sim.edges : \E i \in DOMAIN s.roads : LeadsTo(s, i, c, d)
    /\ primary_cycle_id(s, c) \in CyclesOf(s, c)
    /\ Cardinality(StagesOf(s, primary_cycle_id(s, c))) = Len(sim.phases)

\* Its phases have indices of their own and stand for standard phases.
ToldApart(sim) ==
    /\ Injective(sim.phases)
    /\ None \notin Elements(sim.phases)
    /\ \A k \in DOMAIN sim.std : k < Len(sim.phases) => sim.std[k] \in 0..(NumPhases - 1)

\* A road that comes in question at both of two crosses.
ShareARoad(s, n, f) ==
    \E x, z \in DOMAIN f : \E i \in DOMAIN s.roads :
        /\ x # z
        /\ \E d \in n.cross[x].edges : LeadsTo(s, i, f[x], d)
        /\ \E d \in n.cross[z].edges : LeadsTo(s, i, f[z], d)

\* The assignments the snapshot leaves open: its table, or the order of the crosses.
Assignments(s, n) ==
    IF DOMAIN s.simToReal # {}
    THEN {f \in [DOMAIN n.cross -> Crosses(s)] : \A x \in DOMAIN f : At(s.simToReal, x) = f[x]}
    ELSE {f \in [DOMAIN n.cross -> Crosses(s)] :
            /\ ~Production
            /\ {f[x] : x \in DOMAIN f} = Crosses(s)
            /\ \A k, l \in DOMAIN n.ids : k < l => f[n.ids[k]] < f[n.ids[l]]}

\* A composition with a network that has crosses is refused only if every assignment
\* that is open fails for a reason that lies in the data: two sim crosses on one real
\* cross, an approach without a road, a programme without as many stages as phases,
\* phases that cannot be told apart, or neighbours that may be left with one road for
\* two approaches.
RefusedForAReason ==
    row # None =>
        LET r == real_normalization(row)
        IN  \A n \in Networks : n.ids # << >> /\ Crosses(row) # {} /\ ~Composable(n, r, Production) =>
                \A f \in Assignments(row, n) :
                    \/ ~Injective(f)
                    \/ \E x \in DOMAIN f : ~Fits(row, n.cross[x], f[x]) \/ ~ToldApart(n.cross[x])
                    \/ ShareARoad(row, n, f)

\* The merge (_merge_cycle_metadata): whatever snapshots have been compiled since, the stage
\* that took the place of the l-th trained phase is worked with the standard phase the
\* policy was trained with (actual_to_standard), in whatever order a request names it.
MappingStaysWithBundle ==
    bundle # None => \A x \in DOMAIN bundle.map : \A q \in Served :
        LET c == bundle.map[x].real
            y == bundle.map[x].cycle
            l(t) == Ordinal(built.of, t)
        IN  (q.id = c /\ CycleId(get_config(c), q) = y) =>
                \A k \in DOMAIN StageIds(q) : LET t == StageIds(q)[k] IN
                    (t \in StagesOf(built.of, y) /\ l(t) \in DOMAIN built.net.cross[x].std) =>
                        PhasesServed(q)[k] = built.net.cross[x].std[l(t)]

\* While the files come from the snapshot the bundle was built from, no stage of the
\* trained programme is masked, and every road in use has its static properties.
NothingLostWhileInStep ==
    \A q \in Served : LET c == q.id IN
        (bundle # None /\ c \in DOMAIN bundle.cross /\ At(origin, c) = built.of) =>
            /\ (q.stages = << >> /\ CycleId(get_config(c), q) = get_config(c).primary) =>
                    \A k \in DOMAIN PhasesServed(q) : PhasesServed(q)[k] # -1
            /\ DOMAIN get_config(c).direction_map \subseteq DOMAIN get_config(c).roads_static

\* Files of crosses that a later snapshot drops stay on disk (compile_real_normalization
\* removes none), and yet a request is served only with a config and a graph of the
\* snapshot that was compiled last.
ServedFromLatestCompile ==
    latest # None => \A q \in Served : q.id \in Crosses(latest) /\ origin[q.id] = latest

\* Hydration (_hydrate_stages): a stage whose duration the controller leaves out lasts as
\* long as its green, yellow and red together, and the green the controller names is kept.
HydratedTimesAddUp ==
    \A q \in Served : \A k \in DOMAIN q.stages :
        LET st == q.stages[k]
            h  == hydrated_stages(get_config(q.id), q)[k]
        IN  /\ st.duration = None => h.duration = h.green + h.yellow + h.red
            /\ st.green # None => h.green = st.green

\* Internal roads are an ordinary part of a network, and an approach at both of their ends
\* (test_internal_roads_are_classified_at_both_endpoints): where every trained cross fits
\* the cross it is mapped to, the network can be composed.
FitsIsComposed ==
    row # None =>
        LET r == real_normalization(row)
        IN  \A n \in Networks : \A f \in Assignments(row, n) :
                /\ Injective(f)
                /\ \A x \in DOMAIN f : Fits(row, n.cross[x], f[x]) /\ ToldApart(n.cross[x])
                => Composable(n, r, Production)
=============================================================================
