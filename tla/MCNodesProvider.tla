--------------------------- MODULE MCNodesProvider ---------------------------
(* Model-checking instances of NodesProvider: one shard and the metachain,   *)
(* and a few configuration files.                                            *)
EXTENDS NodesProvider

Regular(a, s)      == [addr |-> a, shard |-> s, fallback |-> FALSE, snapshotless |-> FALSE]
Fallback(a, s)     == [addr |-> a, shard |-> s, fallback |-> TRUE, snapshotless |-> FALSE]
Snapshotless(a, s) == [addr |-> a, shard |-> s, fallback |-> FALSE, snapshotless |-> TRUE]

Full    == <<Regular("a", 0), Fallback("b", 0), Snapshotless("c", 0), Regular("m", 1)>>
Moved   == <<Regular("d", 0), Regular("a", 0), Regular("m", 1)>>
NoMeta  == <<Regular("a", 0), Snapshotless("c", 0)>>
OnlySnapshotless == <<Snapshotless("c", 0)>>
SnapshotlessMeta == <<Regular("a", 0), Snapshotless("m", 1)>>

GoodConfigs == {Full, Moved, NoMeta}
AllConfigs  == {Full, NoMeta, OnlySnapshotless, SnapshotlessMeta, <<>>}

\* In sync, ahead of the highest nonce, just within and just beyond the
\* threshold, without VM queries, no answer (or no status 200).
Status(n, h, r) == [answered |-> TRUE, vmReady |-> r, nonce |-> n, highest |-> h]
NoAnswer        == [answered |-> FALSE, vmReady |-> FALSE, nonce |-> 0, highest |-> 0]
SomeStatuses == {Status(3, 3, TRUE), Status(4, 3, TRUE), Status(1, 2, TRUE),
                 Status(1, 3, TRUE), Status(3, 3, FALSE), NoAnswer}
TwoStatuses  == {Status(3, 3, TRUE), NoAnswer}
=============================================================================
