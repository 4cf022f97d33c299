------------------------- MODULE ActivationHistory -------------------------
(***************************************************************************)
(* What the bundle lifecycle promises an operator about one network, with  *)
(* no database, no files and no concurrency: the network serves at most    *)
(* one bundle, it remembers the one that was displaced last, "activate"    *)
(* serves a chosen bundle and "roll back" returns to the displaced one,    *)
(* which then counts as displaced in turn.                                 *)
(*                                                                         *)
(* A clock of whole seconds blurs the memory: switches of one second are   *)
(* remembered together, and a rollback may return to any bundle that one   *)
(* of them displaced.                                                      *)
(*                                                                         *)
(* BundleLifecycle computes the same registers from the is_active and      *)
(* activated_at columns of model_bundle; see Refines there.                *)
(***************************************************************************)
CONSTANTS Networks, Bundles, NoBundle, WholeSeconds

VARIABLES
    current,    \* the bundle each network serves
    displaced,  \* the bundles a rollback may return to
    sameSecond, \* the bundle in service came into it in the second in which they did
    lastSwitch  \* how the last switch of the network came about

vars == <<current, displaced, sameSecond, lastSwitch>>

Init ==
    /\ current = [n \in Networks |-> NoBundle]
    /\ displaced = [n \in Networks |-> {}]
    /\ sameSecond = [n \in Networks |-> FALSE]
    /\ lastSwitch = [n \in Networks |-> "none"]

\* Re-activating the bundle in service displaces nothing.
Displaced(n, b) ==
    IF current[n] \in {b, NoBundle} THEN displaced[n]
    ELSE ((IF sameSecond[n] THEN displaced[n] ELSE {}) \cup {current[n]}) \ {b}

\* Time passes between a switch and the one before, or, in whole seconds, it may not.
SameSecond(n, b) ==
    IF ~WholeSeconds \/ Displaced(n, b) = {} THEN {FALSE}
    ELSE IF current[n] = b THEN {FALSE, sameSecond[n]} ELSE BOOLEAN

Switch(n, b) ==
    /\ current' = [current EXCEPT ![n] = b]
    /\ displaced' = [displaced EXCEPT ![n] = Displaced(n, b)]
    /\ \E s \in SameSecond(n, b) : sameSecond' = [sameSecond EXCEPT ![n] = s]

Activate(n, b) ==
    /\ lastSwitch' = [lastSwitch EXCEPT ![n] = "activate"]
    /\ Switch(n, b)

Rollback(n) ==
    /\ lastSwitch' = [lastSwitch EXCEPT ![n] = "restore"]
    /\ \E b \in displaced[n] : Switch(n, b)

Next ==
    \E n \in Networks :
        \/ \E b \in Bundles : Activate(n, b)
        \/ Rollback(n)

Spec == Init /\ [][Next]_vars
=============================================================================
