----------------------------- MODULE MCSyncEvents -----------------------------
(* Small instances of SyncEvents: what the backend sends in one behaviour. *)
EXTENDS SyncEvents, TLC

CONSTANTS e1, e2, e3, x1, v1, v2, p1, p2, n1, n2

AreaUpsert(id, net, active) == [kind |-> "area", id |-> id, network |-> net, active |-> active]
Snapshot(id, net, data) == [kind |-> "snapshot", id |-> id, network |-> net, data |-> data]
ConfigUpsert(id, data) == [kind |-> "config", id |-> id, cross |-> x1, data |-> data]
ArtifactUpsert(id, v, path, activate) ==
    [kind |-> "artifact", id |-> id, version |-> v, path |-> path, activate |-> activate]

\* An event id used twice with different payloads is among each.
Snapshots == {AreaUpsert(e1, n2, FALSE), Snapshot(e2, None, p1), Snapshot(e3, n2, p2),
              Snapshot(e3, n2, p1)}
Configs == {AreaUpsert(e1, None, TRUE), ConfigUpsert(e2, p1), ConfigUpsert(e3, p2),
            ConfigUpsert(e1, p2)}
Artifacts == {AreaUpsert(e1, n1, TRUE), ArtifactUpsert(e2, v1, p1, TRUE),
              ArtifactUpsert(e3, v2, p1, TRUE), ArtifactUpsert(e3, v1, p2, FALSE)}

BothDatabases == [database : {"mysql", "sqlite"}, deliveries : {Snapshots, Configs, Artifacts}]
OnSQLite == {[database |-> "sqlite", deliveries |-> {Snapshot(e1, n1, p1), Snapshot(e2, n1, p2)}]}

Symmetric == Permutations(Callers)
=============================================================================
