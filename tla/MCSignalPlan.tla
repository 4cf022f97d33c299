---------------------------- MODULE MCSignalPlan ----------------------------
(* A cross of three stages, with everything in small numbers of seconds. *)
EXTENDS SignalPlan, TLC

Fixed == <<1, 1, 2>>

\* Every stage mapped, in the order of the cycle's table.
Mapped ==
    [cycle |-> 12, fixed |-> Fixed, low |-> <<1, 2, 2>>, high |-> <<6, 4, 5>>,
     byCycle |-> <<3, 0, 1>>, byIndex |-> NoMap]

\* Two stages share a standard phase, one minimum is above the guardrail's.
Shared ==
    [cycle |-> 14, fixed |-> Fixed, low |-> <<2, 3, 0>>, high |-> <<5, 9, 9>>,
     byCycle |-> NoMap, byIndex |-> <<0, 2, 2>>]

\* The list names no phase for the last stage.
Unmapped ==
    [cycle |-> 12, fixed |-> Fixed, low |-> <<2, 2, 2>>, high |-> <<4, 4, 4>>,
     byCycle |-> NoMap, byIndex |-> <<0, 1>>]

\* The cycle's table knows one stage, and one by a phase that does not exist.
Sparse ==
    [cycle |-> 13, fixed |-> Fixed, low |-> <<2, 2, 2>>, high |-> <<6, 6, 6>>,
     byCycle |-> <<9, 1>>, byIndex |-> <<0, 1, 2>>]

\* A config without a mapping: stage i is phase i.
Bare == [Sparse EXCEPT !.cycle = 16, !.byCycle = NoMap, !.byIndex = NoMap]

\* Too short a cycle for the minimums.
Short == [Mapped EXCEPT !.cycle = 9]

SmallLayouts == {Mapped, Shared, Unmapped, Sparse, Bare, Short}

RequestSymmetry == Permutations(Requests)
=============================================================================
