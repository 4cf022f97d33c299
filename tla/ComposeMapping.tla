---------------------------- MODULE ComposeMapping ----------------------------
(***************************************************************************)
(* How a trained network n is laid over the real one (ops/composer.py and  *)
(* bundle_tooling).  r is a compiled real_normalization; n is sim_network: *)
(*                                                                         *)
(*   n.ids          sim crosses in the order of the file                   *)
(*   n.cross[x]     [edges, phases, std]: the directions with an edge, the *)
(*                  phases' "index" fields in order (None: absent), and    *)
(*                  actual_to_standard by ordinal                          *)
(*   n.adjacency[x] sequence of [to, dir]                                  *)
(***************************************************************************)
EXTENDS RealNetwork, Sequences

Elements(q) == {q[k] : k \in DOMAIN q}
-----------------------------------------------------------------------------
\* The crosses of real_normalization.json, by id.
CrossOrder(r) ==
    [k \in 1..Cardinality(DOMAIN r.crosses) |->
        CHOOSE c \in DOMAIN r.crosses :
            Cardinality({d \in DOMAIN r.crosses : d < c}) = k - 1]

\* The explicit table wins; else by position, if the numbers agree and outside production.
Resolvable(n, r, production) ==
    \/ DOMAIN r.simToReal # {}
    \/ Len(n.ids) = Cardinality(DOMAIN r.crosses) /\ ~production

sim_to_real(n, r) ==
    IF DOMAIN r.simToReal # {} THEN r.simToReal
    ELSE [x \in Elements(n.ids) |-> CrossOrder(r)[CHOOSE k \in DOMAIN n.ids : n.ids[k] = x]]

-----------------------------------------------------------------------------
RoadsIn(real, d) == {i \in DOMAIN real.direction_map : real.direction_map[i] = d}

roads_by_direction(sim, real) ==
    [d \in sim.edges |->
        CHOOSE i \in RoadsIn(real, d) : \A j \in RoadsIn(real, d) : i <= j]

Stages(real) == real.cycles[real.primary].stages

\* Phase k of the trained programme is played by stage k of the real one.
phase_to_stage(sim, real) ==
    [k \in DOMAIN sim.phases |->
        [phase |-> IF sim.phases[k] # None THEN sim.phases[k] ELSE k - 1,
         stage |-> Stages(real)[k],
         std   |-> IF k - 1 \in DOMAIN sim.std THEN sim.std[k - 1]
                   ELSE IF k - 1 < NumPhases THEN k - 1 ELSE NumPhases - 1]]

\* What _build_cross_mapping raises for.
Incompatible(sim, real) ==
    \/ \E d \in sim.edges : RoadsIn(real, d) = {}
    \/ sim.phases = << >>
    \/ real.primary \notin DOMAIN real.cycles
    \/ /\ real.primary \in DOMAIN real.cycles
       /\ Len(Stages(real)) # Len(sim.phases)

CrossErrors(n, r) ==
    LET to == sim_to_real(n, r) IN
    {x \in Elements(n.ids) :
        \/ x \notin DOMAIN to
        \/ x \in DOMAIN to /\ to[x] \notin DOMAIN r.crosses
        \/ /\ x \in DOMAIN to /\ to[x] \in DOMAIN r.crosses
           /\ Incompatible(n.cross[x], r.crosses[to[x]])}

-----------------------------------------------------------------------------
\* deployment_map, when no cross has an error.
deployment_map(n, r) ==
    LET to == sim_to_real(n, r) IN
    [x \in Elements(n.ids) |->
        [real   |-> to[x],
         roads  |-> roads_by_direction(n.cross[x], r.crosses[to[x]]),
         cycle  |-> r.crosses[to[x]].primary,
         phases |-> phase_to_stage(n.cross[x], r.crosses[to[x]])]]

Injective(f) == \A a, b \in DOMAIN f : f[a] = f[b] => a = b

\* The validators of DeploymentMap.
WellFormed(m) ==
    /\ \A x \in DOMAIN m :
          /\ DOMAIN m[x].roads # {}
          /\ Injective([k \in DOMAIN m[x].phases |-> m[x].phases[k].phase])
          /\ Injective([k \in DOMAIN m[x].phases |-> m[x].phases[k].stage])
          /\ \A k \in DOMAIN m[x].phases : m[x].phases[k].std \in 0..(NumPhases - 1)
    /\ Injective([x \in DOMAIN m |-> m[x].real])
    /\ \A x, y \in DOMAIN m : \A d \in DOMAIN m[x].roads, e \in DOMAIN m[y].roads :
          m[x].roads[d] = m[y].roads[e] => x = y /\ d = e

BugIndexIsOrdinal(n, m) ==
    \A x \in DOMAIN m : \A k \in DOMAIN m[x].phases : m[x].phases[k].phase = k - 1

\* _check_phases: every mapped phase is the index of a phase of the trained network.
PhasesKnown(n, m) ==
    \A x \in DOMAIN m : \A k \in DOMAIN m[x].phases :
        m[x].phases[k].phase \in Elements(n.cross[x].phases)

Composable(n, r, production) ==
    /\ n.ids # << >>
    /\ DOMAIN r.crosses # {}
    /\ Resolvable(n, r, production)
    /\ CrossErrors(n, r) = {}
    /\ WellFormed(deployment_map(n, r))
    /\ PhasesKnown(n, deployment_map(n, r))

-----------------------------------------------------------------------------
\* intersections/cross_<id>.json of the runtime bundle.
cross_config(e, static) ==
    [direction_map |-> [i \in {e.roads[d] : d \in DOMAIN e.roads} |->
                            CHOOSE d \in DOMAIN e.roads : e.roads[d] = i],
     roads_static  |-> [i \in {e.roads[d] : d \in DOMAIN e.roads} |->
                            IF i \in DOMAIN static THEN static[i] ELSE None],
     primary       |-> e.cycle,
     std           |-> [y \in {e.cycle} |->
                            [t \in {e.phases[k].stage : k \in DOMAIN e.phases} |->
                                e.phases[CHOOSE k \in DOMAIN e.phases :
                                             e.phases[k].stage = t].std]],
     phase_mapping |-> None]

\* network.json of the runtime bundle: the trained adjacency under real ids.
network_json(n, m) ==
    LET Known(x) == SelectSeq(n.adjacency[x], LAMBDA a : a.to \in DOMAIN m)
        Sim(c)   == CHOOSE x \in DOMAIN m : m[x].real = c
    IN  [c \in {m[x].real : x \in DOMAIN m} |->
            [nb \in {m[a.to].real : a \in Elements(Known(Sim(c)))} |->
                (CHOOSE a \in Elements(Known(Sim(c))) : m[a.to].real = nb).dir]]

runtime_bundle(n, r) ==
    LET m == deployment_map(n, r) IN
    [map     |-> m,
     cross   |-> [c \in {m[x].real : x \in DOMAIN m} |->
                    cross_config(m[CHOOSE x \in DOMAIN m : m[x].real = c],
                                 r.crosses[c].roads_static)],
     network |-> network_json(n, m)]
=============================================================================
