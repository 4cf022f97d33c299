---------------------------- MODULE MCCommissioning ----------------------------
(***************************************************************************)
(* Snapshots of an area of up to three crosses, each a plausible change of *)
(* Base, and networks trained for two of them.                             *)
(***************************************************************************)
EXTENDS Commissioning, TLC

Road(from, to, fd, td, angle) ==
    [active |-> TRUE, from |-> from, to |-> to, fromDir |-> fd, toDir |-> td,
     angle |-> [c \in {1, 2, 3} |-> IF c \in DOMAIN angle THEN angle[c] ELSE None],
     capacity |-> 1600]

Cycle(cross, type) ==
    [active |-> TRUE, cross |-> cross, type |-> type, length |-> 60, yellow |-> 3, red |-> None]

Stage(cycle, order, green, yellow) ==
    [active |-> TRUE, cycle |-> cycle, order |-> order, green |-> green,
     yellow |-> yellow, red |-> IF yellow = None THEN None ELSE 1]

\* Roads 12 and 21 join crosses 1 and 2; two roads come to cross 1 from the north.
Base ==
    [area   |-> [c \in {1, 2} |-> [active |-> TRUE, cycle |-> IF c = 1 THEN 51 ELSE None]],
     roads  |-> (11 :> Road(None, 1, None, 4, 1 :> 10)) @@
                (12 :> Road(1, 2, 2, 4, (1 :> 170) @@ (2 :> 20))) @@
                (13 :> Road(2, None, 2, None, Empty)) @@
                (14 :> Road(None, 1, None, 1, 1 :> 230)) @@
                (15 :> Road(1, None, 1, None, 1 :> 272)) @@
                (21 :> Road(2, 1, 4, 2, (1 :> 200) @@ (2 :> 350))),
     cycles |-> (51 :> Cycle(1, 0)) @@ (52 :> Cycle(1, 1)) @@ (61 :> Cycle(2, 1)) @@ (62 :> Cycle(2, 0)),
     stages |-> (511 :> Stage(51, 2, 20, 3)) @@ (512 :> Stage(51, 1, 30, None)) @@
                (521 :> Stage(52, 1, None, 4)) @@
                (611 :> Stage(61, 1, 25, 3)) @@
                (621 :> Stage(62, 1, 25, 3)) @@ (622 :> Stage(62, 1, None, 3)),
     simToReal |-> ("A" :> 1) @@ ("B" :> 2)]

NoGPS(s) == [s EXCEPT !.roads =
    [i \in DOMAIN s.roads |-> [s.roads[i] EXCEPT !.angle = [c \in {1, 2, 3} |-> None]]]]

Uncoded(s) == [NoGPS(s) EXCEPT !.roads =
    [i \in DOMAIN s.roads |-> [s.roads[i] EXCEPT
        !.fromDir = None, !.toDir = None, !.angle = [c \in {1, 2, 3} |-> None]]]]

EightDirs(s) == [NoGPS(s) EXCEPT !.roads =
    LET To8(d) == IF d = None THEN None ELSE 2 * (d - 1) IN
    [i \in DOMAIN s.roads |-> [NoGPS(s).roads[i] EXCEPT
        !.fromDir = To8(s.roads[i].fromDir), !.toDir = To8(s.roads[i].toDir)]]]

Variants == {
    Base,
    NoGPS(Base),
    EightDirs(Base),
    Uncoded(Base),
    [Base EXCEPT !.simToReal = Empty],
    [Base EXCEPT !.simToReal = ("A" :> 2) @@ ("B" :> 1)],
    [Base EXCEPT !.simToReal = "A" :> 1],
    [Base EXCEPT !.simToReal = ("A" :> 1) @@ ("B" :> 1)],
    [Base EXCEPT !.simToReal = ("A" :> 1) @@ ("B" :> 7)],
    [Base EXCEPT !.area[2].active = FALSE],
    [Base EXCEPT !.area[1].active = FALSE, !.area[2].active = FALSE],
    [Base EXCEPT !.area[1].cycle = 52],
    [Base EXCEPT !.stages = @ @@ [t \in 522..529 |-> Stage(52, t, 10, 3)]],
    [Base EXCEPT !.cycles[51].active = FALSE],
    [Base EXCEPT !.stages[511].order = 1, !.stages[511].green = None],
    [Base EXCEPT !.stages[512].active = FALSE],
    [Base EXCEPT !.roads[21].active = FALSE],
    [Base EXCEPT !.roads[15].active = FALSE, !.roads[11].capacity = None],
    [Base EXCEPT !.roads[12].angle[2] = 350, !.roads[21].angle[2] = 20]}

\* One road for both directions between crosses 1 and 2.
OneInternalRoad == {[Base EXCEPT !.roads[21].active = FALSE]}

Sim(edges, phases, std) == [edges |-> edges, phases |-> phases, std |-> std]
Net(a, b) ==
    [ids |-> <<"A", "B">>, cross |-> ("A" :> a) @@ ("B" :> b),
     adjacency |-> ("A" :> <<[to |-> "B", dir |-> "E"], [to |-> "C", dir |-> "N"]>>) @@
                   ("B" :> <<[to |-> "A", dir |-> "W"]>>)]

Swapped == (0 :> 3) @@ (1 :> 0)

Trained == {
    Net(Sim({"N", "W"}, <<0, 2>>, Swapped), Sim({"E"}, <<0, 1>>, Swapped)),
    Net(Sim({"E", "W"}, <<0, 2>>, Swapped), Sim({"E", "W"}, <<0, 1>>, Swapped)),
    Net(Sim({"N"}, <<0, 2>>, Empty), Sim({"E"}, <<0>>, 0 :> 1)),
    Net(Sim({"N"}, <<0, None>>, Swapped), Sim({"E"}, <<0, 1>>, Swapped)),
    Net(Sim({"N"}, <<0, 2>>, Swapped), Sim({"E"}, <<1, 1>>, Empty)),
    Net(Sim({"N"}, <<0, 2>>, (0 :> 8) @@ (1 :> 0)), Sim({"E"}, <<0, 1>>, Empty)),
    [Net(Sim({"N"}, <<5>>, 0 :> 4), Sim({"E"}, <<0, 1>>, Empty)) EXCEPT !.ids = <<"A">>,
        !.cross = "A" :> Sim({"N"}, <<5, 6>>, 1 :> 4)]}

ManualConfigs == 1 :> {[direction_map |-> 11 :> "S", phase_mapping |-> <<1, 9>>]}

St(id, green, duration, yellow) ==
    [id |-> id, green |-> green, duration |-> duration, yellow |-> yellow, red |-> None]
Req(c, cycle, length, stages) == [id |-> c, cycle |-> cycle, length |-> length, stages |-> stages]

RequestSet == {
    Req(1, None, None, << >>),
    Req(2, None, None, << >>),
    Req(1, 52, None, << >>),
    Req(1, 51, 70, <<St(511, 12, None, None), St(512, None, None, None)>>),
    Req(1, None, 70, <<St(512, None, 28, None), St(511, 9, 20, 2)>>),
    Req(1, 99, 70, <<St(511, 15, None, 3)>>),
    Req(2, 62, None, <<St(621, None, None, 0), St(622, 5, None, None)>>)}
=============================================================================
