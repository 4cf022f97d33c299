--------------------------- MODULE MCRuntimeServing ---------------------------
(* Small instances of RuntimeServing. *)
EXTENDS RuntimeServing, TLC

Symmetric == Permutations(Requests) \cup Permutations(Bundles)

\* What the guards and the properties of a free area depend on: which
\* bundles are there, loaded or found, but not at which contents, and nothing of
\* the config that a request was answered with.
WithoutContents ==
    <<pointer, {b \in Bundles : disk[b] # 0}, written, unnamed, resolver,
      {b \in Bundles : policy[b] # 0}, config.held, reload,
      [r \in Requests |-> <<req[r].stage, req[r].pc, req[r].settled, req[r].at,
                            req[r].found.bundle, req[r].pol.bundle, req[r].audit>>]>>

View == <<dirty, IF Drained THEN <<vars>> ELSE WithoutContents>>
=============================================================================
