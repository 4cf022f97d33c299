----------------------------- MODULE RealNetwork -----------------------------
(***************************************************************************)
(* real_normalization: what ai-ops compiles from a snapshot of the real    *)
(* network (ops/real_normalization.py), as operators on a snapshot s.      *)
(*                                                                         *)
(*   s.area      cross id -> [active, cycle]       one area's v_area_cross *)
(*   s.roads     road id  -> [active, from, to, fromDir, toDir, angle,     *)
(*                              capacity]                                  *)
(*   s.cycles    cycle id -> [active, cross, type, length, yellow, red]    *)
(*   s.stages    stage id -> [active, cycle, order, green, yellow, red]    *)
(*   s.simToReal sim cross -> cross id                                     *)
(*                                                                         *)
(* Ids are primary keys, and the payload lists rows by id.  angle[c] is    *)
(* the bearing of a road's last leg into cross c, in whole degrees from    *)
(* the GPS points; None when the cross has no centre or the road no usable *)
(* polyline.  None also stands for a column that is NULL.                  *)
(***************************************************************************)
EXTENDS Integers, FiniteSets

CONSTANT None

Directions == {"N", "E", "S", "W"}

NumPhases == 8
MaxNeighbors == 4
DefaultCapacity == 1800
-----------------------------------------------------------------------------
\* Crosses of the area that are in use; compiling an area without one raises.
Crosses(s) == {c \in DOMAIN s.area : s.area[c].active}

Ends(r) == {r.from, r.to}

\* Active roads with an end at a cross of the area.
Roads(s) ==
    {i \in DOMAIN s.roads : s.roads[i].active /\ Ends(s.roads[i]) \cap Crosses(s) # {}}

Touching(s, c) == {i \in Roads(s) : c \in Ends(s.roads[i])}

(***************************************************************************)
(* Directions.                                                             *)
(***************************************************************************)
FourDir == [k \in 1..4 |-> CASE k = 1 -> "N" [] k = 2 -> "E" [] k = 3 -> "S" [] k = 4 -> "W"]

EightDir ==
    [k \in {0, 2, 4, 6} |-> CASE k = 0 -> "N" [] k = 2 -> "E" [] k = 4 -> "S" [] k = 6 -> "W"]

Codes(s) == UNION {{s.roads[i].fromDir, s.roads[i].toDir} : i \in Roads(s)} \ {None}

\* One table for the whole snapshot, picked from the codes it uses.
Encoding(s) == IF Codes(s) \subseteq 1..4 THEN FourDir ELSE EightDir

Ideal == [d \in Directions |->
    CASE d = "N" -> 270 [] d = "E" -> 180 [] d = "S" -> 90 [] d = "W" -> 0]

Compass(a) ==
    CASE a \in 225..314 -> "N"
      [] a \in 135..224 -> "E"
      [] a \in 45..134  -> "S"
      [] OTHER          -> "W"

\* The legacy code of the end at c.
Code(r, c) == IF r.from = c THEN r.fromDir ELSE r.toDir

\* A fallback by legacy code counts as a perfect match of its direction.
Bearing(s, i, c) ==
    LET code == Code(s.roads[i], c) IN
    IF s.roads[i].angle[c] # None THEN s.roads[i].angle[c]
    ELSE IF code \in DOMAIN Encoding(s) THEN Ideal[Encoding(s)[code]]
    ELSE None

\* Roads seen from cross c in direction d.
Candidates(s, c, d) ==
    {i \in Touching(s, c) : Bearing(s, i, c) # None /\ Compass(Bearing(s, i, c)) = d}

Delta(a, b) ==
    LET x == IF a < b THEN b - a ELSE a - b IN IF x <= 180 THEN x ELSE 360 - x

Off(s, i, c, d) == Delta(Bearing(s, i, c), Ideal[d])

BugFirstCandidate(s, i, c, d) ==
    i \in Candidates(s, c, d) /\ \A j \in Candidates(s, c, d) : i <= j

\* min() over the candidates: the nearest to the ideal bearing, the first of those.
Chosen(s, i, c, d) ==
    /\ i \in Candidates(s, c, d)
    /\ \A j \in Candidates(s, c, d) :
          \/ Off(s, i, c, d) < Off(s, j, c, d)
          \/ Off(s, i, c, d) = Off(s, j, c, d) /\ i <= j

\* road id -> direction, one road for each direction that has a candidate.
direction_map(s, c) ==
    [i \in {i \in Touching(s, c) : \E d \in Directions : Chosen(s, i, c, d)} |->
        Compass(Bearing(s, i, c))]

(***************************************************************************)
(* Neighbours: the first road between two crosses that has a direction     *)
(* gives the link, and the first four links are kept.                      *)
(***************************************************************************)
Links(s, c, n) ==
    {i \in Roads(s) : c # n /\ Ends(s.roads[i]) = {c, n} /\ Bearing(s, i, c) # None}

Linked(s, c) == {n \in Crosses(s) : Links(s, c, n) # {}}

FirstLink(s, c, n) == CHOOSE i \in Links(s, c, n) : \A j \in Links(s, c, n) : i <= j

neighbors(s, c) ==
    [n \in {n \in Linked(s, c) :
              Cardinality({m \in Linked(s, c) : FirstLink(s, c, m) < FirstLink(s, c, n)})
                  < MaxNeighbors} |->
        Compass(Bearing(s, FirstLink(s, c, n), c))]

BugStaticIncoming(s, c) ==
    [i \in {i \in Touching(s, c) : s.roads[i].to = c} |->
        IF s.roads[i].capacity \in {None, 0} THEN DefaultCapacity ELSE s.roads[i].capacity]

\* Static properties of every road at c, the unclassified ones too; the capacity
\* stands for all four columns, each with its default.
roads_static(s, c) ==
    [i \in Touching(s, c) |->
        IF s.roads[i].capacity \in {None, 0} THEN DefaultCapacity ELSE s.roads[i].capacity]

(***************************************************************************)
(* Cycles and stages.                                                      *)
(***************************************************************************)
CyclesOf(s, c) == {y \in DOMAIN s.cycles : s.cycles[y].active /\ s.cycles[y].cross = c}

StagesOf(s, y) == {t \in DOMAIN s.stages : s.stages[t].active /\ s.stages[t].cycle = y}

\* The sort by order_number is stable.
Before(s, t, u) ==
    \/ s.stages[t].order < s.stages[u].order
    \/ s.stages[t].order = s.stages[u].order /\ t < u

Ordinal(s, t) == Cardinality({u \in StagesOf(s, s.stages[t].cycle) : Before(s, u, t)})

\* The id in area_cross is taken as it is; else the first base cycle, else the first.
primary_cycle_id(s, c) ==
    LET First(S) == CHOOSE y \in S : \A z \in S : y <= z
        base == {y \in CyclesOf(s, c) : s.cycles[y].type = 0}
    IN  IF s.area[c].cycle # None THEN s.area[c].cycle
        ELSE IF base # {} THEN First(base)
        ELSE IF CyclesOf(s, c) # {} THEN First(CyclesOf(s, c))
        ELSE None

StageOrder(s, y) ==
    [k \in 1..Cardinality(StagesOf(s, y)) |->
        CHOOSE t \in StagesOf(s, y) : Ordinal(s, t) = k - 1]

BugNinthPhase(s, t) == IF Ordinal(s, t) <= NumPhases THEN Ordinal(s, t) ELSE -1

StandardPhase(s, t) == IF Ordinal(s, t) < NumPhases THEN Ordinal(s, t) ELSE -1

cycle_cfg(s, y) ==
    [stages |-> StageOrder(s, y),
     std    |-> [t \in StagesOf(s, y) |-> StandardPhase(s, t)],
     times  |-> [t \in StagesOf(s, y) |-> s.stages[t]],
     meta   |-> s.cycles[y]]

\* cross_<id>.json of every cross, and the sim_to_real table copied along.
real_normalization(s) ==
    [crosses |->
        [c \in Crosses(s) |->
            [primary       |-> primary_cycle_id(s, c),
             direction_map |-> direction_map(s, c),
             neighbors     |-> neighbors(s, c),
             roads_static  |-> roads_static(s, c),
             cycles        |-> [y \in CyclesOf(s, c) |-> cycle_cfg(s, y)]]],
     simToReal |-> s.simToReal]
=============================================================================
