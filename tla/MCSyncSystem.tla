---------------------------- MODULE MCSyncSystem -----------------------------
(***************************************************************************)
(* Small instances of SyncSystem: one user, one or two devices and repos,  *)
(* one or two accounts, a handful of changes.                              *)
(***************************************************************************)
EXTENDS SyncSystem

CONSTANTS d1, d2, p1, p2, i1, i2, u1

MCOwner == [p \in Repos |-> u1]
MCOps == 1..MaxOps
MCStamps == Int

\* Local times: d1 keeps UTC and d2 is behind it, or the one device is behind.
OneBehind == [d \in Devices |-> IF d = d1 THEN 0 ELSE -1]
Behind == [d \in Devices |-> -1]
=============================================================================
