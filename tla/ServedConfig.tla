----------------------------- MODULE ServedConfig -----------------------------
(***************************************************************************)
(* What ai-runtime makes of the configs of a cross: the merge of its three *)
(* sources (preprocessing/intersection_registry.py) and the hydration of a *)
(* compact request (services/ai_service.py).  A source is None or          *)
(*                                                                         *)
(*   [direction_map, roads_static, primary, phase_mapping,                 *)
(*    std : cycle -> (stage -> phase), meta : cycle -> static metadata]    *)
(*                                                                         *)
(* and a request has the cycle, its length and its stages, with None for   *)
(* what the controller leaves out.                                         *)
(***************************************************************************)
EXTENDS ComposeMapping

Empty == << >>

FirstOf(q) ==
    IF \A k \in DOMAIN q : q[k] = None THEN None
    ELSE q[CHOOSE k \in DOMAIN q : q[k] # None /\ \A j \in 1..(k - 1) : q[j] = None]

\* Python's "or" of two tables.
OrElse(f, g) == IF DOMAIN f # {} THEN f ELSE g
-----------------------------------------------------------------------------
\* cross_<id>.json as real_normalization writes it.
real_cfg(x) ==
    [direction_map |-> x.direction_map,
     roads_static  |-> x.roads_static,
     primary       |-> x.primary,
     phase_mapping |-> None,
     std           |-> [y \in DOMAIN x.cycles |-> x.cycles[y].std],
     meta          |-> x.cycles]

bundle_cfg(b, c) ==
    IF b = None \/ c \notin DOMAIN b.cross THEN None
    ELSE [direction_map |-> b.cross[c].direction_map,
          roads_static  |-> b.cross[c].roads_static,
          primary       |-> b.cross[c].primary,
          phase_mapping |-> b.cross[c].phase_mapping,
          std           |-> b.cross[c].std,
          meta          |-> Empty]

\* A cross config that the controller has sent itself.
legacy_cfg(d) ==
    [direction_map |-> d.direction_map,
     roads_static  |-> Empty,
     primary       |-> None,
     phase_mapping |-> d.phase_mapping,
     std           |-> Empty,
     meta          |-> Empty]

BugRealMappingWins(real, mapping) ==
    [y \in DOMAIN real \cup DOMAIN mapping |->
        IF y \in DOMAIN real THEN real[y] ELSE mapping[y]]

\* The bundle's mapping of a cycle replaces the one by order of the snapshot.
merge_cycles(real, mapping) ==
    [y \in DOMAIN real \cup DOMAIN mapping |->
        IF y \in DOMAIN mapping THEN OrElse(mapping[y], IF y \in DOMAIN real THEN real[y] ELSE Empty)
        ELSE real[y]]

merge_config(real, bundle, legacy) ==
    LET mapping == IF bundle # None THEN bundle ELSE legacy IN
    CASE real = None    -> mapping
      [] mapping = None -> real
      [] OTHER ->
            [direction_map |-> OrElse(real.direction_map, mapping.direction_map),
             roads_static  |-> OrElse(real.roads_static, mapping.roads_static),
             primary       |-> FirstOf(<<real.primary, mapping.primary>>),
             phase_mapping |-> FirstOf(<<mapping.phase_mapping, real.phase_mapping>>),
             std           |-> merge_cycles(real.std, mapping.std),
             meta          |-> real.meta]

\* stage id -> phase for a cycle; an unknown cycle is read as the primary one.
stage_to_std_phase_for_cycle(cfg, y) ==
    IF y \in DOMAIN cfg.std THEN cfg.std[y]
    ELSE IF cfg.primary \in DOMAIN cfg.std THEN cfg.std[cfg.primary]
    ELSE None

InPhases(p) == IF p \in 0..(NumPhases - 1) THEN p ELSE -1

\* Phase of every stage of the request; -1 masks a stage.
effective_phase_mapping(cfg, y, ids) ==
    LET byStage == IF DOMAIN cfg.std = {} THEN None ELSE stage_to_std_phase_for_cycle(cfg, y)
    IN  [k \in DOMAIN ids |->
            CASE byStage # None ->
                    IF ids[k] \in DOMAIN byStage THEN InPhases(byStage[ids[k]]) ELSE -1
              [] byStage = None /\ cfg.phase_mapping # None ->
                    IF k \in DOMAIN cfg.phase_mapping THEN InPhases(cfg.phase_mapping[k]) ELSE -1
              [] OTHER -> IF k <= NumPhases THEN k - 1 ELSE -1]
-----------------------------------------------------------------------------
(***************************************************************************)
(* Hydration.                                                              *)
(***************************************************************************)
NoTimes == [yellow |-> None, red |-> None, green |-> None]

CycleId(cfg, q) == FirstOf(<<q.cycle, cfg.primary>>)

\* Unlike the phase mapping, the metadata of an unknown cycle is not looked up elsewhere.
cycle_meta(cfg, q) == IF CycleId(cfg, q) \in DOMAIN cfg.meta THEN cfg.meta[CycleId(cfg, q)] ELSE None

cycle_length(cfg, q) ==
    LET m == cycle_meta(cfg, q) IN FirstOf(<<q.length, IF m = None THEN None ELSE m.meta.length>>)

input_stages(cfg, q) ==
    LET m == cycle_meta(cfg, q) IN
    IF q.stages # << >> \/ m = None THEN q.stages
    ELSE [k \in DOMAIN m.stages |->
            [id |-> m.stages[k], green |-> None, duration |-> None, yellow |-> None, red |-> None]]

BugRedClearMissing(green, yellow, red) ==
    IF green # None /\ yellow # None THEN green + yellow ELSE None

Total(green, yellow, red) ==
    IF green # None /\ yellow # None THEN green + yellow + red ELSE None

\* The first value that is there: of the request, of the stage, of the cycle.
hydrated_stage(cfg, q, st) ==
    LET m      == cycle_meta(cfg, q)
        static == IF m # None /\ st.id \in DOMAIN m.times THEN m.times[st.id] ELSE NoTimes
        cycle  == IF m # None THEN [yellow |-> m.meta.yellow, red |-> m.meta.red]
                  ELSE [yellow |-> None, red |-> None]
        yellow == FirstOf(<<st.yellow, static.yellow, cycle.yellow>>)
        red    == FirstOf(<<st.red, static.red, cycle.red, 0>>)
        green  == FirstOf(<<st.green, static.green>>)
        total  == FirstOf(<<st.duration, Total(green, yellow, red)>>)
    IN  [id |-> st.id, yellow |-> yellow, red |-> red, duration |-> total,
         green |-> IF green # None \/ total = None \/ yellow = None THEN green
                   ELSE total - yellow - red]

hydrated_stages(cfg, q) ==
    [k \in DOMAIN input_stages(cfg, q) |-> hydrated_stage(cfg, q, input_stages(cfg, q)[k])]

\* The request is refused unless this holds.
Hydrates(cfg, q) ==
    /\ CycleId(cfg, q) # None
    /\ cycle_length(cfg, q) # None
    /\ input_stages(cfg, q) # << >>
    /\ \A k \in DOMAIN input_stages(cfg, q) :
          /\ hydrated_stages(cfg, q)[k].duration # None
          /\ hydrated_stages(cfg, q)[k].yellow # None
=============================================================================
