-------------------------- MODULE MCBundleLifecycle --------------------------
(* Small instances of BundleLifecycle. *)
EXTENDS BundleLifecycle, TLC

CONSTANTS b1, b2, b3, b4, n1, n2, v1, v2, v3

\* Three bundles of one network and one of its neighbour.
TwoNets == b1 :> n1 @@ b2 :> n1 @@ b3 :> n1 @@ b4 :> n2
Distinct == b1 :> v1 @@ b2 :> v2 @@ b3 :> v3 @@ b4 :> v1

\* Three bundles of one network; b3 carries the version of b1.
OneNet == b1 :> n1 @@ b2 :> n1 @@ b3 :> n1
Clashing == b1 :> v1 @@ b2 :> v2 @@ b3 :> v1

\* Two bundles of one network.
PairNet == b1 :> n1 @@ b2 :> n1
PairVersions == b1 :> v1 @@ b2 :> v2

RequestSymmetry == Permutations(Requests)
=============================================================================
