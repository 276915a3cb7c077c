---------------------------- MODULE MCSyncServer -----------------------------
(***************************************************************************)
(* Small instances of SyncServer: two users, a default and a custom repo   *)
(* of the first, one or two records, pushes of one and two changes.        *)
(***************************************************************************)
EXTENDS SyncServer, TLC

CONSTANTS r1, r2, u1, u2, p1, p2, i1, i2, b1, b2

MCOwner == [p \in Repos |-> u1]

Body(id, p, b, v) == [id |-> id, repo |-> p, blob |-> b, expected |-> v, stamp |-> 1]

\* Single pushes of i1 with every version a device may expect, from both repos,
\* and pushes of two changes: to one record twice, and to two repos.
MCBatches ==
    {<<Body(i1, p2, b, v)>> : b \in Blobs, v \in 0..2}
    \cup {<<Body(i1, p1, b1, 1)>>,
          <<Body(i1, p2, b1, 0), Body(i1, p2, b2, 1)>>,
          <<Body(i1, p2, b1, 1), Body(i1, p1, b2, 1)>>}

\* The same over two records, with a push that touches both.
MCBatches2 ==
    MCBatches \cup {<<Body(i1, p2, b1, v), Body(i2, p1, b2, w)>> : v \in 0..2, w \in 0..2}
              \cup {<<Body(i2, p1, b1, 1)>>}

MCEdits == {Body(i1, p2, b, v) : b \in Blobs, v \in 1..2}

RequestSymmetry == Permutations(Requests)
=============================================================================
