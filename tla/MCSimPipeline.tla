---------------------------- MODULE MCSimPipeline ----------------------------
(* Small instances of SimPipeline. *)
EXTENDS SimPipeline, TLC

CONSTANTS s1, s2, n1, p1, p2, listen, listen2, poll, api, c1, c2

OneNet == [s \in Sims |-> n1]
OneNetPayloads == [p \in Payloads |-> n1]

\* s2 does not fit the first snapshot, and its composition raises an exception
\* of another class with the second.
Mixed ==
    s1 :> (p1 :> "composed" @@ p2 :> "register_error") @@
    s2 :> (p1 :> "compose_error" @@ p2 :> "exception")

\* Either an operator pulls too and nobody meets, or everything that auto-sync and
\* the controller do interleaves, or there is one more listener than the service starts:
\* nothing in _handle_uri depends on their number.
SerialOrFree ==
    {[pulls |-> {listen, poll, api}, syncs |-> {c1}, overlap |-> FALSE, faults |-> 1],
     [pulls |-> {listen, poll}, syncs |-> {c1}, overlap |-> TRUE, faults |-> 1],
     [pulls |-> {listen, poll}, syncs |-> {c1, c2}, overlap |-> TRUE, faults |-> 0],
     [pulls |-> {listen, listen2, poll}, syncs |-> {}, overlap |-> TRUE, faults |-> 1]}
=============================================================================
