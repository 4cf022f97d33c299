----------------------------- MODULE GreenTimes -----------------------------
(***************************************************************************)
(* The arithmetic of services/ai_service.py that turns wanted green times  *)
(* into whole seconds that fill a cycle.  A plan is a function from the    *)
(* stages 1..n of a cross to seconds.                                      *)
(*                                                                         *)
(* The code computes with doubles; here the fractions are exact and the    *)
(* order in which equal ones are served is a parameter.  Operators named   *)
(* Bug... are faulty variants of the definition that follows.              *)
(***************************************************************************)
EXTENDS Integers, FiniteSetsExt

Total(f) == MapThenSumSet(LAMBDA i : f[i], DOMAIN f)

Larger(a, b) == IF a > b THEN a ELSE b

\* numpy.clip, for low <= high.
Clamp(x, low, high) == IF x < low THEN low ELSE IF x > high THEN high ELSE x

Clipped(green, low, high) ==
    [i \in DOMAIN green |-> Clamp(green[i], low[i], high[i])]

\* The loops that hand out an amount: each stage in turn takes all it has room for.
Share(room, Before(_, _), amount) ==
    [i \in DOMAIN room |->
        LET earlier == {j \in DOMAIN room : Before(j, i)} IN
        Clamp(amount - Total([j \in earlier |-> room[j]]), 0, room[i])]

(***************************************************************************)
(* The first half of _rescale_green_times: stretch or shrink to the target *)
(* and take back from what is above its minimum whatever the minimums have *)
(* pushed over it.  The result is num[i] / den.                            *)
(***************************************************************************)
Scaled(green, target, low, high) ==
    LET sum == Total(green) IN
    IF sum \in {0, target} THEN [num |-> green, den |-> 1]
    ELSE
    LET num == [i \in DOMAIN green |-> Larger(green[i] * target, low[i] * sum)]
        above == [i \in DOMAIN green |-> num[i] - low[i] * sum]
        excess == Total(num) - target * sum
        slack == Total(above)
        takeBack == (2 * excess > sum \/ 2 * excess < -sum) /\ slack > 0
        den == IF takeBack THEN sum * slack ELSE sum
    IN  [den |-> den,
         num |-> [i \in DOMAIN green |->
                    Clamp(IF takeBack THEN num[i] * slack - above[i] * excess ELSE num[i],
                          low[i] * den, high[i] * den)]]

BugRoundedDown(green, target, low, high, rank) ==
    LET real == Scaled(Clipped(green, low, high), target, low, high) IN
    [i \in DOMAIN green |-> real.num[i] \div real.den]

\* The second half: round down, then hand out what is missing, to the largest
\* fractions first, or take back what is too much, from the longest greens first.
Rescaled(green, target, low, high, rank) ==
    LET real == Scaled(Clipped(green, low, high), target, low, high)
        whole == [i \in DOMAIN green |-> real.num[i] \div real.den]
        part == [i \in DOMAIN green |-> real.num[i] % real.den]
        First(key, j, i) == key[j] > key[i] \/ (key[j] = key[i] /\ rank[j] < rank[i])
        missing == target - Total(whole)
        more == Share([i \in DOMAIN green |-> high[i] - whole[i]],
                      LAMBDA j, i : First(part, j, i), missing)
        less == Share([i \in DOMAIN green |-> whole[i] - low[i]],
                      LAMBDA j, i : First(whole, j, i), -missing)
    IN  [i \in DOMAIN green |-> whole[i] + more[i] - less[i]]

BugOnlyClipped(green, target, low, high, locked) ==
    [i \in DOMAIN green |-> IF i \in locked THEN green[i] ELSE Clamp(green[i], low[i], high[i])]

(***************************************************************************)
(* _reconcile_green_times: the stages that are not locked absorb what the  *)
(* guardrails changed, the shortest first when green is missing, the       *)
(* longest first when there is too much.  Both sorts are stable.           *)
(***************************************************************************)
Reconciled(green, target, low, high, locked) ==
    LET base == [i \in DOMAIN green |->
                    IF i \in locked THEN green[i] ELSE Clamp(green[i], low[i], high[i])]
        missing == target - Total(base)
        Shorter(j, i) == base[j] < base[i] \/ (base[j] = base[i] /\ j < i)
        Longer(j, i) == base[j] > base[i] \/ (base[j] = base[i] /\ j < i)
        more == Share([i \in DOMAIN green |-> IF i \in locked THEN 0 ELSE high[i] - base[i]],
                      Shorter, missing)
        less == Share([i \in DOMAIN green |-> IF i \in locked THEN 0 ELSE base[i] - low[i]],
                      Longer, -missing)
    IN  [i \in DOMAIN green |-> base[i] + more[i] - less[i]]
=============================================================================
