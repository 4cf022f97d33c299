-------------------------- MODULE SignalPlan_proofs --------------------------
(***************************************************************************)
(* Proofs about SignalPlan for any cross, thresholds and requests.         *)
(***************************************************************************)
EXTENDS SignalPlan, GreenTimes_proofs, TLAPS, FiniteSetTheorems

\* A request is idle or has a program counter and, while it works on a stage, a
\* stage.  The greens are left untyped: the counters do not depend on them.
Fields == {"pc", "stage", "layout", "kept", "green", "bumped"}

Busy(q) ==
    /\ DOMAIN q = Fields
    /\ q = [f \in Fields |-> q[f]]
    /\ q.pc \in {"guard", "reset", "balance", "done", "refused"}
    /\ q.pc \in {"guard", "reset"} => q.stage \in Stages

Typed ==
    /\ count \in [Stages -> Nat]
    /\ DOMAIN req = Requests
    /\ req = [r \in Requests |-> req[r]]
    /\ \A r \in Requests : req[r] = Idle \/ Busy(req[r])

\* The requests about to reset the counter of stage i.
Resetting(i) == {r \in Requests : req[r].pc = "reset" /\ req[r].stage = i}

Inv == Typed /\ CounterBounded

LEMMA ResettingFinite ==
    ASSUME NEW i PROVE IsFiniteSet(Resetting(i)) /\ Cardinality(Resetting(i)) \in Nat
  BY SignalPlanAssumption, FS_Subset, FS_CardinalityType DEF Resetting

\* A step that leaves every counter either alone or at zero, and the requests that
\* are about to reset a counter left alone, keeps the bound.
LEMMA BoundKept ==
    ASSUME Inv, count' \in [Stages -> Nat],
           \A i \in Stages : \/ count'[i] = 0
                             \/ count'[i] = count[i] /\ Resetting(i)' = Resetting(i)
    PROVE  CounterBounded'
  <1> SUFFICES ASSUME NEW i \in Stages
               PROVE  count'[i] <= MaxSkips + Cardinality(Resetting(i)')
    BY DEF CounterBounded, Resetting
  <1>1. IsFiniteSet(Resetting(i)') /\ Cardinality(Resetting(i)') \in Nat
    BY SignalPlanAssumption, FS_Subset, FS_CardinalityType DEF Resetting
  <1>2. count[i] <= MaxSkips + Cardinality(Resetting(i))
    BY DEF Inv, CounterBounded, Resetting
  <1> QED BY <1>1, <1>2, SignalPlanAssumption

\* What a step of one request leaves: types, and of the requests about to reset
\* a counter at most this one has come or gone.
LEMMA Moved ==
    ASSUME Typed, NEW r \in Requests, NEW q, req' = [req EXCEPT ![r] = q],
           q = Idle \/ Busy(q)
    PROVE  /\ DOMAIN req' = Requests
           /\ req' = [x \in Requests |-> req'[x]]
           /\ \A x \in Requests : req'[x] = Idle \/ Busy(req'[x])
           /\ \A i : Resetting(i)' = (Resetting(i) \ {r})
                                        \cup {x \in {r} : q.pc = "reset" /\ q.stage = i}
  BY DEF Typed, Busy, Resetting, Idle

\* Decide ends the work on a stage: the request goes on to the next one.
LEMMA Decided ==
    ASSUME Typed, NEW r \in Requests, NEW green, NEW bumped, Decide(r, green, bumped),
           req[r].pc \in {"guard", "reset"}
    PROVE  /\ DOMAIN req' = Requests
           /\ req' = [x \in Requests |-> req'[x]]
           /\ \A x \in Requests : req'[x] = Idle \/ Busy(req'[x])
           /\ \A i : Resetting(i)' = Resetting(i) \ {r}
  <1> DEFINE i == req[r].stage
             q == [req[r] EXCEPT !.pc = IF i = N THEN "balance" ELSE "guard",
                                 !.stage = i + 1,
                                 !.green[i] = IF Target(req[r].layout) > 0
                                                 /\ green > Target(req[r].layout)
                                              THEN Target(req[r].layout) ELSE green,
                                 !.bumped = bumped]
  <1>1. Busy(req[r]) /\ i \in Stages
    BY DEF Typed, Idle, Busy
  <1>2. Busy(q) /\ q.pc # "reset"
    <2>1. i # N => i + 1 \in Stages
      BY <1>1, SignalPlanAssumption DEF Stages
    <2> QED BY <1>1, <2>1 DEF Busy, Fields
  <1>3. req' = [req EXCEPT ![r] = q]
    BY DEF Decide
  <1> HIDE DEF q
  <1>4. /\ DOMAIN req' = Requests
        /\ req' = [x \in Requests |-> req'[x]]
        /\ \A x \in Requests : req'[x] = Idle \/ Busy(req'[x])
        /\ \A j : Resetting(j)' = (Resetting(j) \ {r})
                                     \cup {x \in {r} : q.pc = "reset" /\ q.stage = j}
    BY <1>2, <1>3, Moved
  <1>5. \A j : Resetting(j)' = Resetting(j) \ {r}
    BY <1>2, <1>4
  <1> QED BY <1>4, <1>5

\* The typing of a step, whose counters are still to be looked at.
Stepped ==
    /\ DOMAIN req' = Requests
    /\ req' = [x \in Requests |-> req'[x]]
    /\ \A x \in Requests : req'[x] = Idle \/ Busy(req'[x])

\* A step that leaves the counters alone, of a request that is not about to reset
\* one before or after.
LEMMA QuietStep ==
    ASSUME Inv, NEW r \in Requests, NEW q, req' = [req EXCEPT ![r] = q],
           q = Idle \/ Busy(q), q.pc # "reset", req[r].pc # "reset", count' = count
    PROVE  Inv'
  <1>1. /\ Stepped
        /\ \A i : Resetting(i)' = (Resetting(i) \ {r})
                                     \cup {x \in {r} : q.pc = "reset" /\ q.stage = i}
    BY Moved DEF Inv, Stepped
  <1>2. \A i : Resetting(i)' = Resetting(i)
    BY <1>1 DEF Resetting
  <1>3. Typed'
    BY <1>1 DEF Inv, Typed, Stepped
  <1>4. CounterBounded'
    BY <1>2, <1>3, BoundKept DEF Inv, Typed
  <1> QED BY <1>3, <1>4 DEF Inv

LEMMA BeginKeeps ==
    ASSUME Inv, NEW r \in Requests, Begin(r) PROVE Inv'
  <1>1. PICK c \in DOMAIN ProposalsOf : \E p \in ProposalsOf[c] :
             req' = [req EXCEPT ![r] =
                       [pc |-> "guard", stage |-> 1, layout |-> c, kept |-> p.kept,
                        green |-> p.green, bumped |-> {}]]
    BY DEF Begin
  <1>2. PICK p \in ProposalsOf[c] :
             req' = [req EXCEPT ![r] =
                       [pc |-> "guard", stage |-> 1, layout |-> c, kept |-> p.kept,
                        green |-> p.green, bumped |-> {}]]
    BY <1>1
  <1> DEFINE q == [pc |-> "guard", stage |-> 1, layout |-> c, kept |-> p.kept,
                   green |-> p.green, bumped |-> {}]
  <1>3. Busy(q) /\ q.pc # "reset"
    <2>1. DOMAIN q = Fields
      BY DEF Fields
    <2>2. q = [f \in Fields |-> q[f]]
      BY DEF Fields
    <2>3. 1 \in Stages
      BY SignalPlanAssumption DEF Stages
    <2> QED BY <2>1, <2>2, <2>3 DEF Busy
  <1>4. req' = [req EXCEPT ![r] = q]
    BY <1>2
  <1>5. req[r].pc # "reset" /\ count' = count
    BY DEF Begin
  <1> HIDE DEF q
  <1> QED BY <1>3, <1>4, <1>5, QuietStep

LEMMA GuardMaskedKeeps ==
    ASSUME Inv, NEW r \in Requests, GuardMasked(r) PROVE Inv'
  <1> DEFINE i == req[r].stage
             q == [req[r] EXCEPT !.pc = IF i = N THEN "balance" ELSE "guard",
                                 !.stage = i + 1,
                                 !.green[i] = req[r].kept[i]]
  <1>1. Busy(req[r]) /\ req[r].pc = "guard" /\ i \in Stages
    BY DEF Inv, Typed, Idle, Busy, GuardMasked
  <1>2. Busy(q) /\ q.pc # "reset"
    <2>1. i # N => i + 1 \in Stages
      BY <1>1, SignalPlanAssumption DEF Stages
    <2> QED BY <1>1, <2>1 DEF Busy, Fields
  <1>3. req' = [req EXCEPT ![r] = q] /\ count' = count
    BY DEF GuardMasked
  <1> HIDE DEF q
  <1> QED BY <1>1, <1>2, <1>3, QuietStep

LEMMA BalanceKeeps ==
    ASSUME Inv, NEW r \in Requests, Balance(r) PROVE Inv'
  <1> DEFINE c == req[r].layout
             green == Reconciled(req[r].green, Target(c), Low(c), High(c), Masked(c))
             q == [req[r] EXCEPT !.pc = IF Total(green) = Target(c) THEN "done"
                                                                    ELSE "refused",
                                 !.green = green]
  <1>1. Busy(req[r]) /\ req[r].pc = "balance"
    BY DEF Inv, Typed, Idle, Busy, Balance
  <1>2. Busy(q) /\ q.pc # "reset"
    <2> HIDE DEF green
    <2> QED BY <1>1 DEF Busy, Fields
  <1>3. req' = [req EXCEPT ![r] = q] /\ count' = count
    BY DEF Balance
  <1> HIDE DEF q
  <1> QED BY <1>1, <1>2, <1>3, QuietStep

LEMMA FinishKeeps ==
    ASSUME Inv, NEW r \in Requests, Finish(r) PROVE Inv'
  <1>1. /\ req' = [req EXCEPT ![r] = Idle] /\ count' = count
        /\ req[r].pc # "reset" /\ Idle.pc # "reset"
    BY DEF Finish, Idle
  <1> QED BY <1>1, QuietStep

\* A stage above its minimum, and a stage that is bumped, get a counter of zero.
LEMMA ZeroKeeps ==
    ASSUME Inv, NEW r \in Requests, NEW green, NEW bumped, Decide(r, green, bumped),
           req[r].pc \in {"guard", "reset"},
           count' = [count EXCEPT ![req[r].stage] = 0]
    PROVE  Inv'
  <1>1. Stepped /\ \A i : Resetting(i)' = Resetting(i) \ {r}
    BY Decided DEF Inv, Stepped
  <1>2. Typed'
    BY <1>1 DEF Inv, Typed, Stepped
  <1>3. ASSUME NEW i \in Stages
        PROVE  \/ count'[i] = 0
               \/ count'[i] = count[i] /\ Resetting(i)' = Resetting(i)
    BY <1>1 DEF Inv, Typed, Resetting
  <1>4. CounterBounded'
    BY <1>2, <1>3, BoundKept DEF Typed
  <1> QED BY <1>2, <1>4 DEF Inv

LEMMA GuardAtMinKeeps ==
    ASSUME Inv, NEW r \in Requests, GuardAtMin(r) PROVE Inv'
  <1>1. Busy(req[r]) /\ req[r].pc = "guard" /\ req[r].stage \in Stages
    BY DEF Inv, Typed, Idle, Busy, GuardAtMin, Guarded
  <1>2. PICK i \in Stages : i = req[r].stage
    BY <1>1
  <1>3. Busy(req[r]) /\ req[r].pc = "guard" /\ req[r].stage = i
    BY <1>1, <1>2
  <1>4. /\ count' = [count EXCEPT ![i] = @ + 1]
        /\ IF count[i] + 1 > MaxSkips
           THEN req' = [req EXCEPT ![r].pc = "reset", ![r].green[i] = Clip(r)]
           ELSE Decide(r, Clip(r), req[r].bumped)
    BY <1>2 DEF GuardAtMin
  <1>5. count' = [count EXCEPT ![i] = @ + 1] /\ count' \in [Stages -> Nat]
    BY <1>4 DEF Inv, Typed
  <1>6. CASE count[i] + 1 > MaxSkips
    <2> DEFINE q == [req[r] EXCEPT !.pc = "reset", !.green[i] = Clip(r)]
    <2>1. Busy(q) /\ q.pc = "reset" /\ q.stage = i
      BY <1>3 DEF Busy, Fields
    <2>2. req' = [req EXCEPT ![r] = q]
      BY <1>6, <1>4
    <2> HIDE DEF q
    <2>3. Typed /\ (q = Idle \/ Busy(q))
      BY <2>1 DEF Inv
    <2>4. /\ Stepped
          /\ \A j : Resetting(j)' = (Resetting(j) \ {r})
                                       \cup {x \in {r} : q.pc = "reset" /\ q.stage = j}
      BY <2>3, <2>2, Moved, Zenon DEF Stepped
    <2>5. r \notin Resetting(i)
      BY <1>3 DEF Resetting
    <2>6. Resetting(i)' = Resetting(i) \cup {r}
      BY <2>1, <2>4, <2>5
    <2>7. Cardinality(Resetting(i)') = Cardinality(Resetting(i)) + 1
      BY <2>5, <2>6, ResettingFinite, FS_AddElement
    <2>8. Typed'
      BY <1>5, <2>4 DEF Typed, Stepped
    <2>9. ASSUME NEW j \in Stages
          PROVE  count'[j] <= MaxSkips + Cardinality(Resetting(j)')
      <3>1. count[j] <= MaxSkips + Cardinality(Resetting(j))
        BY DEF Inv, CounterBounded, Resetting
      <3>2. CASE j = i
        <4>1. count'[i] = count[i] + 1 /\ count[i] \in Nat
          BY <1>3, <1>5 DEF Inv, Typed
        <4>2. Cardinality(Resetting(i)) \in Nat
          BY ResettingFinite
        <4> QED BY <4>1, <4>2, <2>7, <3>1, <3>2, SignalPlanAssumption
      <3>3. CASE j # i
        <4>1. Resetting(j)' = Resetting(j)
          BY <1>3, <2>1, <2>4, <3>3 DEF Resetting
        <4> QED BY <1>5, <3>1, <3>3, <4>1 DEF Inv, Typed
      <3> QED BY <3>2, <3>3
    <2> QED BY <2>8, <2>9 DEF Inv, CounterBounded, Resetting
  <1>7. CASE count[i] + 1 <= MaxSkips
    <2>1. Decide(r, Clip(r), req[r].bumped)
      BY <1>7, <1>4, SignalPlanAssumption DEF Inv, Typed
    <2>2. Stepped /\ \A j : Resetting(j)' = Resetting(j) \ {r}
      BY <1>3, <2>1, Decided DEF Inv, Stepped
    <2>3. \A j : Resetting(j)' = Resetting(j)
      BY <1>3, <2>2 DEF Resetting
    <2>4. Typed'
      BY <1>5, <2>2 DEF Typed, Stepped
    <2>5. ASSUME NEW j \in Stages
          PROVE  count'[j] <= MaxSkips + Cardinality(Resetting(j)')
      <3>1. count[j] <= MaxSkips + Cardinality(Resetting(j))
        BY DEF Inv, CounterBounded, Resetting
      <3> QED BY <1>3, <1>5, <1>7, <2>3, <3>1, ResettingFinite, SignalPlanAssumption
          DEF Inv, Typed
    <2> QED BY <2>4, <2>5 DEF Inv, CounterBounded, Resetting
  <1> QED BY <1>3, <1>6, <1>7, SignalPlanAssumption DEF Inv, Typed

LEMMA InvAlways == Spec => []Inv
  <1>1. Init => Inv
    BY ResettingFinite, SignalPlanAssumption
    DEF Init, Inv, Typed, Idle, CounterBounded, Resetting
  <1>2. Inv /\ [Next]_vars => Inv'
    <2> SUFFICES ASSUME Inv, [Next]_vars PROVE Inv'
      OBVIOUS
    <2>1. CASE UNCHANGED vars
      BY <2>1 DEF Inv, Typed, CounterBounded, vars, Busy, Idle
    <2>2. ASSUME NEW r \in Requests, Handle(r) PROVE Inv'
      <3>1. CASE Begin(r)
        BY <3>1, BeginKeeps
      <3>2. CASE GuardMasked(r)
        BY <3>2, GuardMaskedKeeps
      <3>3. CASE GuardAbove(r)
        BY <3>3, ZeroKeeps DEF GuardAbove, Guarded
      <3>4. CASE GuardAtMin(r)
        BY <3>4, GuardAtMinKeeps
      <3>5. CASE Reset(r)
        BY <3>5, ZeroKeeps DEF Reset
      <3>6. CASE Balance(r)
        BY <3>6, BalanceKeeps
      <3>7. CASE Finish(r)
        BY <3>7, FinishKeeps
      <3> QED BY <2>2, <3>1, <3>2, <3>3, <3>4, <3>5, <3>6, <3>7 DEF Handle
    <2> QED BY <2>1, <2>2 DEF Next
  <1> QED BY <1>1, <1>2, PTL DEF Spec

\* However requests for a cross interleave, no counter of the tracker runs past the
\* threshold by more than the number of requests that are about to reset it.
THEOREM CounterNeverRunsAway == Spec => []CounterBounded
  <1>1. Inv => CounterBounded
    BY DEF Inv
  <1> QED BY <1>1, InvAlways, PTL
-----------------------------------------------------------------------------
(***************************************************************************)
(* The green times of a request, from the proposal to the plan.            *)
(***************************************************************************)

\* As proposed: within the bounds of every stage, and filling the cycle.
Proposed(q) ==
    /\ \A i \in Stages : /\ Low(q.layout)[i] <= q.green[i]
                         /\ q.green[i] <= High(q.layout)[i]
    /\ Total(q.green) = Target(q.layout)

\* As balanced: filling the cycle, the masked stages at their current green and the
\* others within their bounds.
Settled(q) ==
    /\ Total(q.green) = Target(q.layout)
    /\ \A i \in Masked(q.layout) : q.green[i] = q.kept[i]
    /\ \A i \in Stages \ Masked(q.layout) : /\ Low(q.layout)[i] <= q.green[i]
                                            /\ q.green[i] <= High(q.layout)[i]

\* What the masked stages leave to the others is less than their minimums or more
\* than their maximums.
Stuck(q) ==
    LET free == Stages \ Masked(q.layout) IN
    Target(q.layout) - Total(q.kept)
        \notin Over(Low(q.layout), free)..Over(High(q.layout), free)

\* A request under way.  Of its masked stages, those the guardrails are past have
\* their current green again; the one about to be bumped is none of them.
Sound(q) ==
    /\ q \in Request
    /\ q.pc # "idle"
    /\ q.layout \in DOMAIN ProposalsOf
    /\ \A i \in Masked(q.layout) : Low(q.layout)[i] <= q.kept[i]
    /\ \A i \in Stages \ Masked(q.layout) : q.kept[i] = 0
    /\ q.pc \in {"guard", "reset"} => q.stage \in Stages
    /\ q.pc = "balance" => q.stage = N + 1
    /\ q.pc = "reset" => q.stage \notin Masked(q.layout)
    /\ q.pc \in {"guard", "reset", "balance"} =>
         \A i \in Masked(q.layout) : i < q.stage => q.green[i] = q.kept[i]
    /\ q.pc = "guard" /\ q.stage = 1 => Proposed(q)
    /\ q.pc = "done" => Settled(q)
    /\ q.pc = "refused" => Stuck(q)

PlanInv ==
    /\ DOMAIN req = Requests
    /\ req = [r \in Requests |-> req[r]]
    /\ \A r \in Requests : req[r] = Idle \/ Sound(req[r])

LEMMA StagesFinite == IsFiniteSet(Stages) /\ Stages \in SUBSET Int
  BY SignalPlanAssumption, FS_Interval DEF Stages

LEMMA StagesTotal ==
    ASSUME NEW f \in [Stages -> Int]
    PROVE  Total(f) = Over(f, Stages) /\ Total(f) \in Int
  <1>1. IsFiniteSet(Stages) /\ Stages \subseteq DOMAIN f /\ \A i \in Stages : f[i] \in Int
    BY StagesFinite
  <1>2. Over(f, Stages) \in Int
    BY <1>1, OverType
  <1> QED BY <1>2, OverAll

\* What a layout that is let in has.
LEMMA LayoutFits ==
    ASSUME NEW c \in DOMAIN ProposalsOf
    PROVE  /\ c \in Layouts
           /\ Low(c) \in [Stages -> Nat] /\ High(c) \in [Stages -> Nat]
           /\ \A i \in Stages : Low(c)[i] <= High(c)[i] /\ MinGreen <= Low(c)[i]
           /\ Target(c) \in Int
           /\ Total(Low(c)) <= Target(c) /\ Target(c) <= Total(High(c))
           /\ Target(c) + Total(c.fixed) = c.cycle
           /\ Masked(c) \subseteq Stages
  <1>1. c \in Layouts /\ Admissible(c)
    BY DEF ProposalsOf
  <1>2. /\ c.cycle \in Nat /\ c.low \in [Stages -> Nat] /\ c.high \in [Stages -> Nat]
        /\ c.fixed \in [Stages -> Nat] /\ MinGreen \in Nat /\ MaxGreen \in Nat
    BY <1>1, SignalPlanAssumption
  <1>3. Low(c) \in [Stages -> Nat] /\ High(c) \in [Stages -> Nat]
    BY <1>2 DEF Low, High, Larger
  <1>4. \A i \in Stages : MinGreen <= Low(c)[i]
    BY <1>2 DEF Low, Larger
  <1>5. Total(c.fixed) \in Int
    <2>1. c.fixed \in [Stages -> Int]
      BY <1>2
    <2> QED BY <2>1, StagesTotal
  <1>6. /\ Total(Low(c)) \in Int /\ Total(High(c)) \in Int
    <2>1. Low(c) \in [Stages -> Int] /\ High(c) \in [Stages -> Int]
      BY <1>3
    <2> QED BY <2>1, StagesTotal
  <1>7. Target(c) \in Int /\ Target(c) + Total(c.fixed) = c.cycle
    BY <1>2, <1>5 DEF Target
  <1>8. /\ \A i \in Stages : Low(c)[i] <= High(c)[i]
        /\ Total(Low(c)) <= Target(c) /\ Target(c) <= Total(High(c))
    BY <1>1, <1>6, <1>7 DEF Admissible
  <1>9. Masked(c) \subseteq Stages
    BY DEF Masked
  <1> QED BY <1>1, <1>3, <1>4, <1>7, <1>8, <1>9

\* What the policy wants is a number of seconds, whatever it answers.
LEMMA WantedType ==
    ASSUME NEW c \in DOMAIN ProposalsOf, NEW duration \in [Stages -> Durations],
           NEW action \in [{PhaseMapping(c)[i] : i \in Stages} \ {-1} -> Actions]
    PROVE  /\ \A i \in Stages : /\ Current(c, duration)[i] \in Nat
                                /\ Low(c)[i] <= Current(c, duration)[i]
           /\ Wanted(c, Current(c, duration), action) \in [Stages -> Int]
  <1>1. ASSUME NEW i \in Stages
        PROVE  /\ Current(c, duration)[i] \in Nat
               /\ Low(c)[i] <= Current(c, duration)[i]
    <2>1. duration[i] \in Int /\ c.fixed[i] \in Nat /\ Low(c)[i] \in Nat
      BY LayoutFits, SignalPlanAssumption
    <2>2. Current(c, duration)[i] = Larger(Low(c)[i], duration[i] - c.fixed[i])
      BY DEF Current
    <2> QED BY <2>1, <2>2 DEF Larger
  <1>2. ASSUME NEW i \in Stages
        PROVE  Wanted(c, Current(c, duration), action)[i] \in Int
    <2> DEFINE p == PhaseMapping(c)[i]
               delta == IF p = -1 THEN 0 ELSE (action[p] - Keep) * Step
    <2>1. delta \in Int
      <3>1. CASE p = -1
        BY <3>1
      <3>2. CASE p # -1
        <4>1. p \in {PhaseMapping(c)[j] : j \in Stages} \ {-1}
          BY <3>2
        <4>2. action[p] \in Int /\ Keep \in Int /\ Step \in Int
          BY <4>1, SignalPlanAssumption DEF Actions
        <4> HIDE DEF p
        <4>3. action[p] - Keep \in Int
          BY <4>2
        <4> DEFINE a == action[p] - Keep
        <4> HIDE DEF a
        <4>4. a \in Int
          BY <4>3 DEF a
        <4>5. a * Step \in Int
          BY <4>2, <4>4
        <4> QED BY <3>2, <4>5 DEF a
      <3> QED BY <3>1, <3>2
    <2>2. Wanted(c, Current(c, duration), action)[i]
            = Clamp(Current(c, duration)[i] + delta, Low(c)[i], High(c)[i])
      BY DEF Wanted
    <2> HIDE DEF delta
    <2>3. /\ Current(c, duration)[i] + delta \in Int
          /\ Low(c)[i] \in Int /\ High(c)[i] \in Int
      BY <1>1, <2>1, LayoutFits
    <2> QED BY <2>2, <2>3 DEF Clamp
  <1>3. Wanted(c, Current(c, duration), action)
          = [i \in Stages |-> Wanted(c, Current(c, duration), action)[i]]
    BY DEF Wanted
  <1> QED BY <1>1, <1>2, <1>3

\* A proposal is within the bounds of every stage and fills the cycle, and it keeps
\* a green that is long enough for each masked stage.
LEMMA ProposalSound ==
    ASSUME NEW c \in DOMAIN ProposalsOf, NEW p \in ProposalsOf[c]
    PROVE  /\ p.green \in [Stages -> Int] /\ p.kept \in [Stages -> Nat]
           /\ \A i \in Stages : Low(c)[i] <= p.green[i] /\ p.green[i] <= High(c)[i]
           /\ Total(p.green) = Target(c)
           /\ \A i \in Masked(c) : Low(c)[i] <= p.kept[i]
           /\ \A i \in Stages \ Masked(c) : p.kept[i] = 0
  <1> DEFINE used == {PhaseMapping(c)[i] : i \in Stages} \ {-1}
  <1>1. PICK duration \in [Stages -> Durations], action \in [used -> Actions],
             rank \in Bijection(Stages, Stages) :
             p = [green |-> Rescaled(Wanted(c, Current(c, duration), action),
                                     Target(c), Low(c), High(c), rank),
                  kept |-> [i \in Stages |->
                              IF i \in Masked(c) THEN Current(c, duration)[i] ELSE 0]]
    <2>1. p \in Proposals(c)
      BY DEF ProposalsOf
    <2> QED BY <2>1 DEF Proposals
  <1> DEFINE wanted == Wanted(c, Current(c, duration), action)
  <1>2. /\ \A i \in Stages : /\ Current(c, duration)[i] \in Nat
                             /\ Low(c)[i] <= Current(c, duration)[i]
        /\ wanted \in [Stages -> Int]
    BY WantedType
  <1>3. rank \in [Stages -> Int] /\ \A i, j \in Stages : rank[i] = rank[j] => i = j
    <2>1. rank \in Injection(Stages, Stages)
      BY DEF Bijection
    <2> QED BY <2>1, StagesFinite DEF Injection, IsInjective
  <1>4. /\ p.green = Rescaled(wanted, Target(c), Low(c), High(c), rank)
        /\ p.kept = [i \in Stages |->
                       IF i \in Masked(c) THEN Current(c, duration)[i] ELSE 0]
    BY <1>1
  <1>5. p.kept \in [Stages -> Nat]
    BY <1>2, <1>4
  <1>6. /\ \A i \in Masked(c) : Low(c)[i] <= p.kept[i]
        /\ \A i \in Stages \ Masked(c) : p.kept[i] = 0
    BY <1>2, <1>4, LayoutFits
  <1> HIDE DEF wanted
  <1>7. /\ p.green \in [Stages -> Int]
        /\ \A i \in Stages : Low(c)[i] <= p.green[i] /\ p.green[i] <= High(c)[i]
        /\ Total(p.green) = Target(c)
    <2> DEFINE low == Low(c)
               high == High(c)
               target == Target(c)
               plan == p.green
    <2>1. /\ low \in [Stages -> Nat] /\ high \in [Stages -> Nat] /\ target \in Int
          /\ \A i \in Stages : low[i] <= high[i]
          /\ Total(low) <= target /\ target <= Total(high)
      BY LayoutFits
    <2>2. plan = Rescaled(wanted, target, low, high, rank) /\ IsFiniteSet(Stages)
      BY <1>4, StagesFinite
    <2> HIDE DEF low, high, target, plan
    <2>3. /\ plan \in [Stages -> Int]
          /\ \A i \in Stages : low[i] <= plan[i] /\ plan[i] <= high[i]
          /\ Total(plan) = target
      BY <1>2, <1>3, <2>1, <2>2, RescaledFits
    <2> QED BY <2>3 DEF low, high, target, plan
  <1> QED BY <1>5, <1>6, <1>7

LEMMA BeginSound ==
    ASSUME PlanInv, NEW r \in Requests, Begin(r)
    PROVE  \E v : Sound(v) /\ req' = [req EXCEPT ![r] = v]
  <1>1. PICK c \in DOMAIN ProposalsOf : \E p \in ProposalsOf[c] :
             req' = [req EXCEPT ![r] =
                       [pc |-> "guard", stage |-> 1, layout |-> c, kept |-> p.kept,
                        green |-> p.green, bumped |-> {}]]
    BY DEF Begin
  <1>2. PICK p \in ProposalsOf[c] :
             req' = [req EXCEPT ![r] =
                       [pc |-> "guard", stage |-> 1, layout |-> c, kept |-> p.kept,
                        green |-> p.green, bumped |-> {}]]
    BY <1>1
  <1> DEFINE v == [pc |-> "guard", stage |-> 1, layout |-> c, kept |-> p.kept,
                   green |-> p.green, bumped |-> {}]
  <1>3. 1 \in Stages /\ \A i \in Stages : ~ i < 1
    BY SignalPlanAssumption DEF Stages
  <1>4. c \in Layouts /\ Masked(c) \subseteq Stages
    BY LayoutFits
  <1>5. /\ p.green \in [Stages -> Int] /\ p.kept \in [Stages -> Nat]
        /\ \A i \in Stages : Low(c)[i] <= p.green[i] /\ p.green[i] <= High(c)[i]
        /\ Total(p.green) = Target(c)
        /\ \A i \in Masked(c) : Low(c)[i] <= p.kept[i]
        /\ \A i \in Stages \ Masked(c) : p.kept[i] = 0
    BY ProposalSound
  <1>6. v \in Request
    BY <1>3, <1>4, <1>5 DEF Request
  <1>7. /\ v.pc = "guard" /\ v.stage = 1 /\ v.layout = c /\ v.kept = p.kept
        /\ v.green = p.green /\ req' = [req EXCEPT ![r] = v]
    BY <1>2
  <1> HIDE DEF v
  <1>8. Proposed(v)
    BY <1>5, <1>7 DEF Proposed
  <1>9. Sound(v)
    BY <1>3, <1>4, <1>5, <1>6, <1>7, <1>8 DEF Sound
  <1> QED BY <1>7, <1>9

\* What the guardrails leave of a stage: any seconds, but the current green if it is
\* masked.
LEMMA PassesOn ==
    ASSUME NEW q, Sound(q), q.pc \in {"guard", "reset"}, NEW g \in Int,
           q.stage \in Masked(q.layout) => g = q.kept[q.stage],
           NEW v \in Request, v.layout = q.layout, v.kept = q.kept,
           v.pc = (IF q.stage = N THEN "balance" ELSE "guard"),
           v.stage = q.stage + 1, v.green = [q.green EXCEPT ![q.stage] = g]
    PROVE  Sound(v)
  <1>1. q.stage \in Stages /\ q.green \in [Stages -> Int]
    BY DEF Sound, Request
  <1>2. /\ v.stage # 1
        /\ v.pc = "guard" => v.stage \in Stages
        /\ v.pc = "balance" => v.stage = N + 1
        /\ v.pc \in {"guard", "balance"}
    BY <1>1, SignalPlanAssumption DEF Stages
  <1>3. ASSUME NEW i \in Masked(v.layout), i < v.stage PROVE v.green[i] = v.kept[i]
    <2>1. i \in Stages
      BY DEF Masked
    <2>2. i = q.stage \/ i < q.stage
      BY <1>1, <1>3, <2>1 DEF Stages
    <2>3. CASE i = q.stage
      BY <1>1, <2>3
    <2>4. CASE i < q.stage
      <3>1. i # q.stage
        BY <1>1, <2>1, <2>4 DEF Stages
      <3>2. q.green[i] = q.kept[i]
        BY <2>4 DEF Sound
      <3> QED BY <1>1, <2>1, <3>1, <3>2
    <2> QED BY <2>2, <2>3, <2>4
  <1> QED BY <1>2, <1>3 DEF Sound

LEMMA DecideSound ==
    ASSUME PlanInv, NEW r \in Requests, NEW green \in Int, NEW bumped \in SUBSET Stages,
           Decide(r, green, bumped), Sound(req[r]), req[r].pc \in {"guard", "reset"},
           req[r].stage \notin Masked(req[r].layout)
    PROVE  \E v : Sound(v) /\ req' = [req EXCEPT ![r] = v]
  <1> DEFINE q == req[r]
             i == q.stage
             g == IF Target(q.layout) > 0 /\ green > Target(q.layout)
                  THEN Target(q.layout) ELSE green
             v == [q EXCEPT !.pc = IF i = N THEN "balance" ELSE "guard",
                            !.stage = i + 1, !.green[i] = g, !.bumped = bumped]
  <1>1. q \in Request /\ i \in Stages /\ q.layout \in DOMAIN ProposalsOf
    BY DEF Sound
  <1>2. g \in Int
    BY <1>1, LayoutFits
  <1>3. req' = [req EXCEPT ![r] = v]
    BY DEF Decide
  <1> HIDE DEF g
  <1>4. i + 1 \in Stages \cup {N + 1}
    BY <1>1, SignalPlanAssumption DEF Stages
  <1>5. /\ v \in Request /\ v.layout = q.layout /\ v.kept = q.kept
        /\ v.pc = (IF i = N THEN "balance" ELSE "guard")
        /\ v.stage = i + 1 /\ v.green = [q.green EXCEPT ![i] = g]
    BY <1>1, <1>2, <1>4 DEF Request
  <1> HIDE DEF v
  <1>6. Sound(v)
    <2> HIDE DEF q
    <2>1. q.pc \in {"guard", "reset"} /\ Sound(q) /\ i \notin Masked(q.layout)
      BY DEF q
    <2> QED BY <1>2, <1>5, <2>1, PassesOn
  <1> QED BY <1>3, <1>6

LEMMA GuardMaskedSound ==
    ASSUME PlanInv, NEW r \in Requests, GuardMasked(r)
    PROVE  \E v : Sound(v) /\ req' = [req EXCEPT ![r] = v]
  <1> DEFINE q == req[r]
             i == q.stage
             g == q.kept[i]
             v == [q EXCEPT !.pc = IF i = N THEN "balance" ELSE "guard",
                            !.stage = i + 1, !.green[i] = g]
  <1>1. Sound(q) /\ q.pc = "guard"
    BY DEF PlanInv, GuardMasked, Idle
  <1>2. q \in Request /\ i \in Stages
    BY <1>1 DEF Sound
  <1>3. g \in Int
    BY <1>2 DEF Request
  <1>4. req' = [req EXCEPT ![r] = v]
    BY DEF GuardMasked
  <1>5. i + 1 \in Stages \cup {N + 1}
    BY <1>2, SignalPlanAssumption DEF Stages
  <1>6. /\ v \in Request /\ v.layout = q.layout /\ v.kept = q.kept
        /\ v.pc = (IF i = N THEN "balance" ELSE "guard")
        /\ v.stage = i + 1 /\ v.green = [q.green EXCEPT ![i] = g]
    BY <1>2, <1>3, <1>5 DEF Request
  <1> HIDE DEF v
  <1>7. Sound(v)
    <2> HIDE DEF q
    <2> QED BY <1>1, <1>3, <1>6, PassesOn
  <1> QED BY <1>4, <1>7

LEMMA ClipType ==
    ASSUME NEW r \in Requests, Sound(req[r]), req[r].stage \in Stages
    PROVE  Clip(r) \in Int
  <1>1. req[r].green[req[r].stage] \in Int
    BY DEF Sound, Request
  <1> QED BY <1>1, SignalPlanAssumption DEF Clip, Clamp

LEMMA GuardAboveSound ==
    ASSUME PlanInv, NEW r \in Requests, GuardAbove(r)
    PROVE  \E v : Sound(v) /\ req' = [req EXCEPT ![r] = v]
  <1>1. Sound(req[r]) /\ req[r].pc = "guard" /\ req[r].stage \notin Masked(req[r].layout)
    BY DEF PlanInv, GuardAbove, Guarded, Idle
  <1>2. req[r].stage \in Stages /\ req[r].bumped \in SUBSET Stages
    BY <1>1 DEF Sound, Request
  <1>3. Clip(r) \in Int
    BY <1>1, <1>2, ClipType
  <1>4. Decide(r, Clip(r), req[r].bumped)
    BY DEF GuardAbove
  <1> QED BY <1>1, <1>2, <1>3, <1>4, DecideSound

LEMMA GuardAtMinSound ==
    ASSUME PlanInv, NEW r \in Requests, GuardAtMin(r)
    PROVE  \E v : Sound(v) /\ req' = [req EXCEPT ![r] = v]
  <1> DEFINE q == req[r]
             i == q.stage
  <1>1. Sound(q) /\ q.pc = "guard" /\ i \notin Masked(q.layout)
    BY DEF PlanInv, GuardAtMin, Guarded, Idle
  <1>2. i \in Stages /\ q.bumped \in SUBSET Stages
    BY <1>1 DEF Sound, Request
  <1>3. Clip(r) \in Int
    BY <1>1, <1>2, ClipType
  <1>4. CASE Decide(r, Clip(r), q.bumped)
    BY <1>1, <1>2, <1>3, <1>4, DecideSound
  <1>5. CASE req' = [req EXCEPT ![r].pc = "reset", ![r].green[i] = Clip(r)]
    <2> DEFINE g == Clip(r)
               v == [q EXCEPT !.pc = "reset", !.green[i] = g]
    <2>1. req' = [req EXCEPT ![r] = v]
      BY <1>5
    <2>2. g \in Int
      BY <1>3
    <2> HIDE DEF g
    <2>3. /\ v \in Request /\ v.layout = q.layout /\ v.kept = q.kept
          /\ v.pc = "reset" /\ v.stage = i /\ v.green = [q.green EXCEPT ![i] = g]
      BY <1>1, <2>2 DEF Sound, Request
    <2> HIDE DEF v
    <2>4. \A j \in Masked(v.layout) : j < v.stage => v.green[j] = v.kept[j]
      <3>1. q.green \in [Stages -> Int] /\ Masked(q.layout) \subseteq Stages
        BY <1>1 DEF Sound, Request, Masked
      <3>2. \A j \in Masked(q.layout) : j < i => q.green[j] = q.kept[j]
        BY <1>1 DEF Sound
      <3> QED BY <1>1, <2>3, <3>1, <3>2
    <2>5. Sound(v)
      BY <1>1, <1>2, <2>3, <2>4 DEF Sound
    <2> QED BY <2>1, <2>5
  <1> QED BY <1>4, <1>5 DEF GuardAtMin

LEMMA ResetSound ==
    ASSUME PlanInv, NEW r \in Requests, Reset(r)
    PROVE  \E v : Sound(v) /\ req' = [req EXCEPT ![r] = v]
  <1> DEFINE i == req[r].stage
             bump == Larger(MinGreen, RecoveryGreen)
             green == Larger(bump, req[r].green[i])
             bumped == IF bump > req[r].green[i] THEN req[r].bumped \cup {i}
                                                 ELSE req[r].bumped
  <1>1. Sound(req[r]) /\ req[r].pc = "reset"
    BY DEF PlanInv, Reset, Idle
  <1>2. /\ i \in Stages /\ i \notin Masked(req[r].layout)
        /\ req[r].bumped \in SUBSET Stages /\ req[r].green[i] \in Int
    BY <1>1 DEF Sound, Request
  <1>3. green \in Int
    BY <1>2, SignalPlanAssumption DEF Larger
  <1>4. bumped \in SUBSET Stages
    BY <1>2
  <1>5. Decide(r, green, bumped)
    BY DEF Reset
  <1> HIDE DEF green, bumped
  <1> QED BY <1>1, <1>2, <1>3, <1>4, <1>5, DecideSound

LEMMA BalanceSound ==
    ASSUME PlanInv, NEW r \in Requests, Balance(r)
    PROVE  \E v : Sound(v) /\ req' = [req EXCEPT ![r] = v]
  <1> DEFINE q == req[r]
             c == q.layout
             green == Reconciled(q.green, Target(c), Low(c), High(c), Masked(c))
             v == [q EXCEPT !.pc = IF Total(green) = Target(c) THEN "done" ELSE "refused",
                            !.green = green]
  <1>1. Sound(q) /\ q.pc = "balance"
    BY DEF PlanInv, Balance, Idle
  <1>2. /\ q \in Request /\ q.green \in [Stages -> Int] /\ q.kept \in [Stages -> Nat]
        /\ c \in DOMAIN ProposalsOf
    BY <1>1 DEF Sound, Request
  <1>3. \A i \in Masked(c) : q.green[i] = q.kept[i]
    <2>1. q.stage = N + 1 /\ \A i \in Masked(c) : i < q.stage => q.green[i] = q.kept[i]
      BY <1>1 DEF Sound
    <2>2. \A i \in Stages : i < N + 1
      BY SignalPlanAssumption DEF Stages
    <2> QED BY <2>1, <2>2 DEF Masked
  <1>4. /\ Low(c) \in [Stages -> Int] /\ High(c) \in [Stages -> Int] /\ Target(c) \in Int
        /\ \A i \in Stages \ Masked(c) : Low(c)[i] <= High(c)[i]
        /\ Masked(c) \subseteq Stages
    BY <1>2, LayoutFits
  <1> DEFINE left == Target(c) - Over(q.green, Stages \cap Masked(c))
             free == Stages \ Masked(c)
  <1>5. /\ green \in [Stages -> Int]
        /\ \A i \in Stages \cap Masked(c) : green[i] = q.green[i]
        /\ \A i \in free : Low(c)[i] <= green[i] /\ green[i] <= High(c)[i]
        /\ Total(green) = Target(c) <=> left \in Over(Low(c), free)..Over(High(c), free)
    <2> DEFINE before == q.green
               target == Target(c)
               low == Low(c)
               high == High(c)
               locked == Masked(c)
    <2>1. /\ before \in [Stages -> Int] /\ low \in [Stages -> Int]
          /\ high \in [Stages -> Int] /\ target \in Int
          /\ \A i \in Stages \ locked : low[i] <= high[i]
      BY <1>2, <1>4
    <2>2. /\ green = Reconciled(before, target, low, high, locked)
          /\ left = target - Over(before, Stages \cap locked)
      OBVIOUS
    <2> HIDE DEF green, left, before, target, low, high, locked, c
    <2>3. /\ green \in [Stages -> Int]
          /\ \A i \in Stages \cap locked : green[i] = before[i]
          /\ \A i \in Stages \ locked : low[i] <= green[i] /\ green[i] <= high[i]
          /\ Total(green) = target
               <=> left \in Over(low, Stages \ locked)..Over(high, Stages \ locked)
      <3>1. /\ Stages \in SUBSET Int /\ IsFiniteSet(Stages)
            /\ \A i \in Stages \ locked : low[i] <= high[i]
        BY <2>1, StagesFinite
      <3>2. LET plan == Reconciled(before, target, low, high, locked)
                rest == target - Over(before, Stages \cap locked)
            IN  /\ plan \in [Stages -> Int]
                /\ \A i \in Stages \cap locked : plan[i] = before[i]
                /\ \A i \in Stages \ locked : low[i] <= plan[i] /\ plan[i] <= high[i]
                /\ Total(plan) = target
                     <=> rest \in Over(low, Stages \ locked)..Over(high, Stages \ locked)
        BY <2>1, <3>1, ReconciledFits
      <3> QED BY <2>2, <3>2
    <2> QED BY <2>3 DEF before, target, low, high, locked
  <1>6. left = Target(c) - Total(q.kept)
    <2>1. Over(q.green, Stages \cap Masked(c)) = Over(q.kept, Stages \cap Masked(c))
      BY <1>3, OverAgree
    <2>2. Over(q.kept, Stages \ Masked(c)) = 0
      <3>1. \A i \in Stages \ Masked(c) : q.kept[i] = 0
        BY <1>1 DEF Sound
      <3>2. IsFiniteSet(Stages \ Masked(c)) /\ Stages \ Masked(c) \subseteq DOMAIN q.kept
        BY <1>2, StagesFinite, FS_Difference
      <3> QED BY <3>1, <3>2, OverZero
    <2>3. Over(q.kept, Stages)
            = Over(q.kept, Stages \cap Masked(c)) + Over(q.kept, Stages \ Masked(c))
      <3>1. /\ IsFiniteSet(Stages) /\ Stages \subseteq DOMAIN q.kept
            /\ \A i \in Stages : q.kept[i] \in Int
        BY <1>2, StagesFinite
      <3> QED BY <3>1, OverSplit
    <2>4. Over(q.kept, Stages \cap Masked(c)) \in Int
      <3>1. IsFiniteSet(Stages \cap Masked(c)) /\ Stages \cap Masked(c) \subseteq DOMAIN q.kept
        BY <1>2, StagesFinite, FS_Intersection
      <3>2. \A i \in Stages \cap Masked(c) : q.kept[i] \in Int
        BY <1>2
      <3> QED BY <3>1, <3>2, OverType
    <2>5. Total(q.kept) = Over(q.kept, Stages)
      BY <1>2, OverAll
    <2> HIDE DEF q, c
    <2>6. Total(q.kept) = Over(q.green, Stages \cap Masked(c))
      BY <2>1, <2>2, <2>3, <2>4, <2>5
    <2> QED BY <2>6
  <1>7. req' = [req EXCEPT ![r] = v]
    BY DEF Balance
  <1> HIDE DEF green, left
  <1>8. /\ v \in Request /\ v.layout = c /\ v.kept = q.kept /\ v.green = green
        /\ v.pc = (IF Total(green) = Target(c) THEN "done" ELSE "refused")
    BY <1>2, <1>5 DEF Request
  <1> HIDE DEF v
  <1>9. v.pc = "done" => Settled(v)
    BY <1>3, <1>4, <1>5, <1>8 DEF Settled
  <1>10. v.pc = "refused" => Stuck(v)
    BY <1>5, <1>6, <1>8 DEF Stuck
  <1>11. Sound(v)
    <2>1. /\ c \in DOMAIN ProposalsOf
          /\ \A i \in Masked(c) : Low(c)[i] <= q.kept[i]
          /\ \A i \in Stages \ Masked(c) : q.kept[i] = 0
      BY <1>1 DEF Sound
    <2>2. v.pc \in {"done", "refused"}
      BY <1>8
    <2> HIDE DEF c, q
    <2> QED BY <1>8, <1>9, <1>10, <2>1, <2>2 DEF Sound
  <1> QED BY <1>7, <1>11

LEMMA PlanInvInit == Init => PlanInv
  BY DEF Init, PlanInv

LEMMA PlanInvStep == PlanInv /\ [Next]_vars => PlanInv'
  <1> SUFFICES ASSUME PlanInv, [Next]_vars PROVE PlanInv'
    OBVIOUS
  <1>1. CASE UNCHANGED vars
    <2>1. req' = req
      BY <1>1 DEF vars
    <2>2. \A r \in Requests : req'[r] = Idle \/ Sound(req'[r])
      BY <2>1 DEF PlanInv
    <2> QED BY <2>1, <2>2 DEF PlanInv
  <1>2. ASSUME NEW r \in Requests, Handle(r) PROVE PlanInv'
    <2>1. \E v : (v = Idle \/ Sound(v)) /\ req' = [req EXCEPT ![r] = v]
      <3>1. CASE Begin(r)
        BY <3>1, BeginSound
      <3>2. CASE GuardMasked(r)
        BY <3>2, GuardMaskedSound
      <3>3. CASE GuardAbove(r)
        BY <3>3, GuardAboveSound
      <3>4. CASE GuardAtMin(r)
        BY <3>4, GuardAtMinSound
      <3>5. CASE Reset(r)
        BY <3>5, ResetSound
      <3>6. CASE Balance(r)
        BY <3>6, BalanceSound
      <3>7. CASE Finish(r)
        BY <3>7 DEF Finish
      <3> QED BY <1>2, <3>1, <3>2, <3>3, <3>4, <3>5, <3>6, <3>7 DEF Handle
    <2>2. PICK v : (v = Idle \/ Sound(v)) /\ req' = [req EXCEPT ![r] = v]
      BY <2>1
    <2>3. \A x \in Requests : req'[x] = IF x = r THEN v ELSE req[x]
      BY <2>2 DEF PlanInv
    <2>4. \A x \in Requests : req'[x] = Idle \/ Sound(req'[x])
      BY <2>2, <2>3 DEF PlanInv
    <2>5. DOMAIN req' = Requests /\ req' = [x \in Requests |-> req'[x]]
      BY <2>2 DEF PlanInv
    <2> QED BY <2>4, <2>5 DEF PlanInv
  <1> QED BY <1>1, <1>2 DEF Next

LEMMA PlanInvAlways == Spec => []PlanInv
  BY PlanInvInit, PlanInvStep, PTL DEF Spec

\* Types: in particular every green stays a whole number of seconds.
THEOREM PlanTypes == Spec => []TypeOK
  <1>1. PlanInv /\ Inv => TypeOK
    BY DEF PlanInv, Inv, Typed, TypeOK, Sound
  <1> QED BY <1>1, PlanInvAlways, InvAlways, PTL

\* _rescale_green_times: whatever the policy answers and whatever durations a request
\* reports, what reaches the guardrails is within the bounds of every stage and
\* fills the cycle.
THEOREM ProposalsFit == Spec => []ProposalFits
  <1>1. PlanInv => ProposalFits
    <2> SUFFICES ASSUME PlanInv, NEW r \in Requests, req[r].pc = "guard", req[r].stage = 1
                 PROVE  /\ \A i \in Stages : req[r].green[i]
                               \in Low(req[r].layout)[i]..High(req[r].layout)[i]
                        /\ Total(req[r].green) = Target(req[r].layout)
      BY DEF ProposalFits
    <2>1. Sound(req[r]) /\ Proposed(req[r])
      BY DEF PlanInv, Sound, Idle
    <2>2. req[r].green \in [Stages -> Int] /\ req[r].layout \in DOMAIN ProposalsOf
      BY <2>1 DEF Sound, Request
    <2>3. /\ Low(req[r].layout) \in [Stages -> Nat]
          /\ High(req[r].layout) \in [Stages -> Nat]
      BY <2>2, LayoutFits
    <2> QED BY <2>1, <2>2, <2>3 DEF Proposed
  <1> QED BY <1>1, PlanInvAlways, PTL

\* guardrails.py, "lenh ra den van phai an toan": every plan sent out fills its
\* cycle, keeps the current green of a masked stage and is within the bounds of
\* every other, whatever the guardrails did in between.  A guardrail_min_green of 0
\* is excluded: there StageOutput's max(1, green) may overfill the cycle.
THEOREM PlansAreSafe ==
    ASSUME MinGreen >= 1
    PROVE  Spec => []PlanIsSafe
  <1>1. PlanInv => PlanIsSafe
    <2> SUFFICES ASSUME PlanInv, NEW r \in Requests, req[r].pc = "done"
                 PROVE  LET c == req[r].layout IN
                        /\ Total(Plan(r)) + Total(c.fixed) = c.cycle
                        /\ \A i \in Stages :
                             IF i \in Masked(c) THEN Plan(r)[i] = req[r].kept[i]
                             ELSE Plan(r)[i] \in Low(c)[i]..High(c)[i]
      BY DEF PlanIsSafe
    <2> DEFINE q == req[r]
               c == q.layout
    <2>1. Sound(q) /\ Settled(q)
      BY DEF PlanInv, Sound, Idle
    <2>2. /\ q.green \in [Stages -> Int] /\ q.kept \in [Stages -> Nat]
          /\ c \in DOMAIN ProposalsOf
          /\ \A i \in Masked(c) : Low(c)[i] <= q.kept[i]
      BY <2>1 DEF Sound, Request
    <2>3. /\ Low(c) \in [Stages -> Nat] /\ High(c) \in [Stages -> Nat]
          /\ \A i \in Stages : MinGreen <= Low(c)[i]
          /\ Target(c) + Total(c.fixed) = c.cycle
          /\ Masked(c) \subseteq Stages
      BY <2>2, LayoutFits
    <2>4. \A i \in Stages : q.green[i] >= Low(c)[i]
      BY <2>1, <2>2 DEF Settled
    <2>5. \A i \in Stages : Larger(1, q.green[i]) = q.green[i]
      <3> SUFFICES ASSUME NEW i \in Stages PROVE Larger(1, q.green[i]) = q.green[i]
        OBVIOUS
      <3>1. /\ q.green[i] \in Int /\ Low(c)[i] \in Int /\ MinGreen \in Int
            /\ q.green[i] >= Low(c)[i] /\ Low(c)[i] >= MinGreen
        BY <2>2, <2>3, <2>4, SignalPlanAssumption
      <3> HIDE DEF q, c
      <3> QED BY <3>1 DEF Larger
    <2>6. Plan(r) = q.green
      <3>1. Plan(r) = [i \in Stages |-> Larger(1, q.green[i])]
        BY DEF Plan
      <3> HIDE DEF q
      <3> QED BY <2>2, <2>5, <3>1
    <2>7. /\ Total(q.green) = Target(c)
          /\ \A i \in Masked(c) : q.green[i] = q.kept[i]
          /\ \A i \in Stages \ Masked(c) : Low(c)[i] <= q.green[i] /\ q.green[i] <= High(c)[i]
      BY <2>1 DEF Settled
    <2>8. ASSUME NEW i \in Stages \ Masked(c)
          PROVE  q.green[i] \in Low(c)[i]..High(c)[i]
      <3>1. q.green[i] \in Int /\ Low(c)[i] \in Int /\ High(c)[i] \in Int
        BY <2>2, <2>3
      <3> QED BY <2>7, <3>1
    <2> QED BY <2>3, <2>6, <2>7, <2>8
  <1> QED BY <1>1, PlanInvAlways, PTL

\* A request that is refused at the last step could not have been given any plan:
\* what its masked stages leave of the cycle is too little or too much for the
\* bounds of the others.
THEOREM RefusalsAreForced == Spec => []RefusedOnlyIfImpossible
  <1>1. PlanInv => RefusedOnlyIfImpossible
    <2>1. ASSUME PlanInv, NEW r \in Requests, req[r].pc = "refused"
          PROVE  Stuck(req[r])
      BY <2>1 DEF PlanInv, Sound, Idle
    <2> QED BY <2>1 DEF RefusedOnlyIfImpossible, Stuck, Over
  <1> QED BY <1>1, PlanInvAlways, PTL
=============================================================================
