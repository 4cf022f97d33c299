----------------------------- MODULE SignalPlan -----------------------------
(***************************************************************************)
(* From a policy's actions to the signal plan of one cross: the green      *)
(* times of services/ai_service.py, the guardrails of                      *)
(* runtime/guardrails.py and the starvation counters of                    *)
(* runtime/starvation.py.  Requests for the cross run on a thread pool and *)
(* share the counters; each access to a counter takes their lock by        *)
(* itself, and the rest of a request is its own.                           *)
(*                                                                         *)
(* The policy may answer anything: every action of every standard phase.   *)
(* guardrail_enabled is TRUE, as by default.                               *)
(***************************************************************************)
EXTENDS Integers, FiniteSets, Functions, GreenTimes

CONSTANTS
    N,             \* stages of the cross
    Layouts,       \* what a request and the cross's config say of it
    Durations,     \* stage durations a request may report
    Requests,      \* requests for this cross under way at once
    NumActions,    \* actions per phase of the policy
    Keep,          \* the action that leaves a green time alone
    Step,          \* runtime_green_time_step
    MinGreen,      \* guardrail_min_green
    MaxGreen,      \* guardrail_max_green
    MaxSkips,      \* guardrail_anti_starvation_max_skips
    RecoveryGreen, \* guardrail_anti_starvation_recovery_green
    NoMap

Stages == 1..N
Phases == 0..7
Actions == 0..NumActions - 1

\* cycle: cycleLength; fixed: yellow and redClear of each stage; low and high:
\* its bounds as resolved from stage, cross and defaults; byCycle: the standard
\* phase per stage id of the cycle in config.cycles; byIndex: config.phase_mapping.
ASSUME SignalPlanAssumption ==
    /\ N \in Nat \ {0}
    /\ IsFiniteSet(Requests)
    /\ MaxSkips \in Nat
    /\ MinGreen \in Nat /\ MaxGreen \in Nat /\ RecoveryGreen \in Nat
    /\ Keep \in Actions
    /\ Step \in Nat
    /\ Durations \subseteq Int
    /\ \A c \in Layouts : c.cycle \in Nat
                          /\ c.low \in [Stages -> Nat]
                          /\ c.high \in [Stages -> Nat]
                          /\ c.fixed \in [Stages -> Nat]

VARIABLES
    count,   \* the tracker's counter of each stage; 0: no entry
    req      \* the local state of each request

vars == <<count, req>>
-----------------------------------------------------------------------------
(***************************************************************************)
(* The proposal: bounds, mapping and rescaling.                            *)
(***************************************************************************)

Low(c) == [i \in Stages |-> Larger(c.low[i], MinGreen)]
High(c) == [i \in Stages |-> IF c.high[i] > MaxGreen THEN MaxGreen ELSE c.high[i]]

Target(c) == c.cycle - Total(c.fixed)

\* A standard phase for each stage, or -1: the cycle's table if the config has one,
\* else the legacy list, else the stage's own index.
PhaseMapping(c) ==
    LET Known(p) == IF p \in Phases THEN p ELSE -1 IN
    [i \in Stages |->
        IF c.byCycle # NoMap
        THEN IF i \in DOMAIN c.byCycle THEN Known(c.byCycle[i]) ELSE -1
        ELSE IF c.byIndex # NoMap
        THEN IF i \in DOMAIN c.byIndex THEN Known(c.byIndex[i]) ELSE -1
        ELSE Known(i - 1)]

Masked(c) == {i \in Stages : PhaseMapping(c)[i] = -1}

\* Otherwise the request raises before it touches a counter.
Admissible(c) ==
    /\ \A i \in Stages : Low(c)[i] <= High(c)[i]
    /\ Target(c) \in Total(Low(c))..Total(High(c))

Current(c, duration) ==
    [i \in Stages |-> Larger(Low(c)[i], duration[i] - c.fixed[i])]

Wanted(c, current, action) ==
    [i \in Stages |->
        LET p == PhaseMapping(c)[i]
            delta == IF p = -1 THEN 0 ELSE (action[p] - Keep) * Step
        IN  Clamp(current[i] + delta, Low(c)[i], High(c)[i])]

\* What reaches the guardrails: the rescaled greens, and the current ones of the
\* masked stages (0 for the others).
Proposals(c) ==
    LET used == {PhaseMapping(c)[i] : i \in Stages} \ {-1} IN
    {[green |-> Rescaled(Wanted(c, Current(c, duration), action),
                         Target(c), Low(c), High(c), rank),
      kept |-> [i \in Stages |->
                   IF i \in Masked(c) THEN Current(c, duration)[i] ELSE 0]] :
        duration \in [Stages -> Durations], action \in [used -> Actions],
        rank \in Bijection(Stages, Stages)}

ProposalsOf == [c \in {c \in Layouts : Admissible(c)} |-> Proposals(c)]
-----------------------------------------------------------------------------
Request ==
    [pc : {"idle", "guard", "reset", "balance", "done", "refused"},
     stage : Stages \cup {N + 1},
     layout : Layouts,
     kept : [Stages -> Nat],
     green : [Stages -> Int],
     bumped : SUBSET Stages]

Idle == [pc |-> "idle"]

Init ==
    /\ count = [i \in Stages |-> 0]
    /\ req = [r \in Requests |-> Idle]

Begin(r) ==
    /\ req[r].pc = "idle"
    /\ \E c \in DOMAIN ProposalsOf : \E p \in ProposalsOf[c] :
         req' = [req EXCEPT ![r] =
                   [pc |-> "guard", stage |-> 1, layout |-> c, kept |-> p.kept,
                    green |-> p.green, bumped |-> {}]]
    /\ UNCHANGED count
-----------------------------------------------------------------------------
(***************************************************************************)
(* apply_guardrails, stage by stage.                                       *)
(***************************************************************************)

\* Rule 3, and on to the next stage.
Decide(r, green, bumped) ==
    LET i == req[r].stage
        room == Target(req[r].layout)
    IN  req' = [req EXCEPT ![r] =
            [@ EXCEPT !.pc = IF i = N THEN "balance" ELSE "guard",
                      !.stage = i + 1,
                      !.green[i] = IF room > 0 /\ green > room THEN room ELSE green,
                      !.bumped = bumped]]

BugMaskedAsProposed(r) ==
    LET i == req[r].stage IN
    /\ req[r].pc = "guard"
    /\ i \in Masked(req[r].layout)
    /\ Decide(r, req[r].green[i], req[r].bumped)
    /\ UNCHANGED count

GuardMasked(r) ==
    LET i == req[r].stage IN
    /\ req[r].pc = "guard"
    /\ i \in Masked(req[r].layout)
    /\ req' = [req EXCEPT ![r] =
            [@ EXCEPT !.pc = IF i = N THEN "balance" ELSE "guard",
                      !.stage = i + 1,
                      !.green[i] = req[r].kept[i]]]
    /\ UNCHANGED count

Guarded(r) ==
    /\ req[r].pc = "guard"
    /\ req[r].stage \notin Masked(req[r].layout)

Clip(r) == Clamp(req[r].green[req[r].stage], MinGreen, MaxGreen)

\* tracker.reset of a stage above the minimum.
GuardAbove(r) ==
    /\ Guarded(r)
    /\ Clip(r) > MinGreen
    /\ count' = [count EXCEPT ![req[r].stage] = 0]
    /\ Decide(r, Clip(r), req[r].bumped)

\* tracker.record_min_green; beyond MaxSkips the stage is to be bumped and reset.
GuardAtMin(r) ==
    LET i == req[r].stage IN
    /\ Guarded(r)
    /\ Clip(r) <= MinGreen
    /\ count' = [count EXCEPT ![i] = @ + 1]
    /\ IF count[i] + 1 > MaxSkips
       THEN req' = [req EXCEPT ![r].pc = "reset", ![r].green[i] = Clip(r)]
       ELSE Decide(r, Clip(r), req[r].bumped)

BugBumpWithoutReset(r) ==
    LET i == req[r].stage IN
    /\ req[r].pc = "reset"
    /\ UNCHANGED count
    /\ Decide(r, Larger(RecoveryGreen, MinGreen), req[r].bumped \cup {i})

BugResetSubtracts(r) ==
    LET i == req[r].stage IN
    /\ req[r].pc = "reset"
    /\ count' = [count EXCEPT ![i] = @ - (MaxSkips + 1)]
    /\ Decide(r, Larger(RecoveryGreen, MinGreen), req[r].bumped \cup {i})

\* The bump, and its reset: a second access to the tracker.
Reset(r) ==
    LET i == req[r].stage
        green == req[r].green[i]
        bump == Larger(MinGreen, RecoveryGreen)
    IN
    /\ req[r].pc = "reset"
    /\ count' = [count EXCEPT ![i] = 0]
    /\ Decide(r, Larger(bump, green),
              IF bump > green THEN req[r].bumped \cup {i} ELSE req[r].bumped)

\* The greens are balanced to the cycle once more; if they cannot be, the request
\* raises, and the counters stay as they are.
Balance(r) ==
    /\ req[r].pc = "balance"
    /\ LET c == req[r].layout
           green == Reconciled(req[r].green, Target(c), Low(c), High(c), Masked(c))
       IN  req' = [req EXCEPT ![r] =
               [@ EXCEPT !.pc = IF Total(green) = Target(c) THEN "done" ELSE "refused",
                         !.green = green]]
    /\ UNCHANGED count

\* StageOutput: max(1, green).
Plan(r) == [i \in Stages |-> Larger(1, req[r].green[i])]

Finish(r) ==
    /\ req[r].pc \in {"done", "refused"}
    /\ req' = [req EXCEPT ![r] = Idle]
    /\ UNCHANGED count
-----------------------------------------------------------------------------
Handle(r) ==
    \/ Begin(r)
    \/ GuardMasked(r)
    \/ GuardAbove(r)
    \/ GuardAtMin(r)
    \/ Reset(r)
    \/ Balance(r)
    \/ Finish(r)

Next == \E r \in Requests : Handle(r)

Spec == Init /\ [][Next]_vars
-----------------------------------------------------------------------------
(***************************************************************************)
(* Properties.                                                             *)
(***************************************************************************)

TypeOK ==
    /\ count \in [Stages -> Nat]
    /\ req \in [Requests -> Request \cup {Idle}]

\* Whatever the policy answers, the rescaled greens that reach the guardrails are
\* within the bounds of every stage and fill the cycle exactly.
ProposalFits ==
    \A r \in Requests :
        req[r].pc = "guard" /\ req[r].stage = 1 =>
            LET c == req[r].layout IN
            /\ \A i \in Stages : req[r].green[i] \in Low(c)[i]..High(c)[i]
            /\ Total(req[r].green) = Target(c)

\* guardrails.py: "lenh ra den van phai an toan".  After all repairs the plan
\* sent out fills its cycle, a masked stage keeps its current green, and every
\* other is within its bounds.
PlanIsSafe ==
    \A r \in Requests :
        req[r].pc = "done" =>
            LET c == req[r].layout IN
            /\ Total(Plan(r)) + Total(c.fixed) = c.cycle
            /\ \A i \in Stages :
                 IF i \in Masked(c) THEN Plan(r)[i] = req[r].kept[i]
                 ELSE Plan(r)[i] \in Low(c)[i]..High(c)[i]

\* A request is refused at the last step only when no plan exists: the greens
\* of the masked stages leave the others less than their minimums or more than
\* their maximums.
RefusedOnlyIfImpossible ==
    \A r \in Requests :
        req[r].pc = "refused" =>
            LET c == req[r].layout
                free == Stages \ Masked(c)
                left == Target(c) - Total(req[r].kept)
            IN  left \notin Total([i \in free |-> Low(c)[i]])
                                ..Total([i \in free |-> High(c)[i]])

\* A counter runs past MaxSkips only by as many requests as are about to reset it,
\* so that no stage stays unnoticed however requests interleave.
CounterBounded ==
    \A i \in Stages :
        count[i] <= MaxSkips
            + Cardinality({r \in Requests : req[r].pc = "reset" /\ req[r].stage = i})

\* guardrails.py: a stage pinned at its minimum more than N times in a row is
\* bumped to the recovery green.  A stage that was bumped ends above its minimum.
BumpReachesPlan ==
    \A r \in Requests :
        req[r].pc = "done" =>
            \A i \in req[r].bumped : Plan(r)[i] > Low(req[r].layout)[i]
=============================================================================
