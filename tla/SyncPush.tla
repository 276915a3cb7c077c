------------------------------ MODULE SyncPush -------------------------------
(***************************************************************************)
(* POST /sync/push as one function of the database and the request body:   *)
(* what the atomic store (SyncStore) and the server the devices talk to    *)
(* (SyncSystem) do with a push.  SyncServer has the same handler step by   *)
(* step.                                                                   *)
(***************************************************************************)
EXTENDS SyncTypes

(***************************************************************************)
(* What a push has done so far: (rows, touched) is the database and the    *)
(* repos whose counter it raises, the verdicts are the reply, and log has  *)
(* the changes it took, after those taken before (history, for SyncSystem).*)
(***************************************************************************)
PushStart(rows, log) ==
    [rows |-> rows, touched |-> {}, accepted |-> <<>>, conflicts |-> <<>>, log |-> log]

Accept(acc, c, rec) ==
    [acc EXCEPT !.rows[c.id] = rec, !.touched = @ \cup {c.repo}, !.log = Append(@, c),
                !.accepted = Append(@, [id |-> c.id, version |-> rec.version])]

PushOne(acc, c, allowed) ==
    LET rec == acc.rows[c.id] IN
    IF c.repo \notin allowed THEN acc
    ELSE IF rec = None THEN Accept(acc, c, NewRecord(c))
    ELSE IF c.expected = rec.version THEN Accept(acc, c, Overwritten(rec, c))
    ELSE [acc EXCEPT !.conflicts = Append(@, [id |-> c.id, version |-> rec.version])]

\* The push after each number of its changes; those "allowed" are the repos in reach.
Pushing(start, changes, allowed) ==
    LET after[n \in 0..Len(changes)] ==
            IF n = 0 THEN start ELSE PushOne(after[n - 1], changes[n], allowed)
    IN after

Pushed(start, changes, allowed) == Pushing(start, changes, allowed)[Len(changes)]

\* One increment per repo touched, however many of its records changed.
Raised(versions, touched) ==
    [p \in Repos |-> versions[p] + IF p \in touched THEN 1 ELSE 0]
=============================================================================
