----------------------------- MODULE SyncSystem ------------------------------
(***************************************************************************)
(* Devices that sync through one backend: the accounts table and the sync  *)
(* queue of each app, what its user does to them, and SyncService.fullSync *)
(* with one action per await.  The server takes each request at one moment *)
(* (SyncServer shows when that is so, and what overlaps instead break).    *)
(*                                                                         *)
(* Every change a user makes has a number, the value of "now" when it is   *)
(* made.  The number is the timestamp of the change, and also the content  *)
(* it gives an account, so newer content is a greater number.  All devices *)
(* belong to users who can reach all repos and hold the same key.          *)
(***************************************************************************)
EXTENDS SyncPush, Subsequences, FiniteSets

CONSTANTS
    Devices,
    Runs,           \* fullSync calls that may be under way on one device
    Offset,         \* Offset[d]: how far the local time of d is ahead of UTC (or behind: < 0)
    MaxOps,         \* bound: changes the users make
    MaxLate         \* bound: pushes that outlive the client's timeout

\* The number of a change is a content and a timestamp; a local time may be any number.
ASSUME OpsAssumption == MaxOps \in Nat /\ 1..MaxOps \subseteq Blobs /\ Stamps = Int
ASSUME OffsetAssumption == Offset \in [Devices -> Int]

VARIABLES
    records, repoVersion,   \* the server's tables
    accounts,       \* table otp_accounts of each device
    queue,          \* table sync_queue, in the order getQueuedItems reads it
    cursor,         \* setting server_version
    active,         \* setting active_repo_id, None until the user first signs in
    draft,          \* the account an open edit screen, or the save it started, works on
    sync,           \* each fullSync call
    late,           \* pushes whose sender has stopped waiting
    now,            \* number of the latest change
    log             \* history: the changes the server took, in order

server == <<records, repoVersion, log>>
vars == <<records, repoVersion, accounts, queue, cursor, active, draft, sync, late, now, log>>

Account == [blob : Blobs, version : Nat, created : Stamps]
ASSUME NullAssumption == None \notin Account

Actions == {"create", "update", "delete"}

\* What is queued before there is an active repo is queued for 'default': no repo's id, so None.
Item == [id : Ids, repo : Repos \cup {None}, blob : Blobs, expected : Nat, stamp : Stamps,
         op : Blobs, action : Actions]

\* The awaits of fullSync: a request under way ("push"), its reply under way ("pushed").
Phases == {"idle", "push", "pushed", "resolve", "resolved", "retry", "retried",
           "status", "statused", "pull", "pulling", "pulled", "store"}

Run == [at : Phases, repo : Repos \cup {None},
        sent : Seq(Item),                       \* the queued items the call began with
        retry : Seq(Item),                      \* the change pushed again after a conflict
        accepted : Seq(Verdict), conflicts : Seq(Verdict),
        rows : [Ids -> Row],                    \* the reply of a pull, less what is applied
        row : Ids \cup {None},                  \* the row being decrypted
        version : Nat]                          \* since_version, or the reply's server_version

NoRows == [id \in Ids |-> None]

Idle == [at |-> "idle", repo |-> None, sent |-> <<>>, retry |-> <<>>, accepted |-> <<>>,
         conflicts |-> <<>>, rows |-> NoRows, row |-> None, version |-> 0]

TypeOK ==
    /\ records \in [Ids -> Row]
    /\ repoVersion \in [Repos -> Nat]
    /\ accounts \in [Devices -> [Ids -> Account \cup {None}]]
    /\ queue \in [Devices -> Seq(Item)]
    /\ cursor \in [Devices -> Nat]
    /\ active \in [Devices -> Repos \cup {None}]
    /\ draft \in [Devices -> [id : Ids, account : Account] \cup {None}]
    /\ sync \in [Devices -> [Runs -> Run]]
    /\ late \subseteq Seq(Item) /\ now \in 0..MaxOps
    /\ log \in Seq(Item)

Init ==
    /\ records = NoRows
    /\ repoVersion = [p \in Repos |-> 0]
    /\ accounts = [d \in Devices |-> NoRows]
    /\ queue = [d \in Devices |-> <<>>]
    /\ cursor = [d \in Devices |-> 0]
    /\ active \in [Devices -> DefaultRepos \cup {None}]
    /\ draft = [d \in Devices |-> None]
    /\ sync = [d \in Devices |-> [k \in Runs |-> Idle]]
    /\ late = {}
    /\ now = 0
    /\ log = <<>>

-----------------------------------------------------------------------------
\* The user at the app.  Each screen is left before another opens.

Made == now < MaxOps /\ now' = now + 1

\* ORDER BY created_at; equal stamps stay in the order they were inserted.
Enqueue(q, item) ==
    Only(q, {x \in Elements(q) : x.stamp <= item.stamp}) \o <<item>>
        \o Only(q, {x \in Elements(q) : x.stamp > item.stamp})

Queue(d, id, action, blob, expected, stamp) ==
    queue' = [queue EXCEPT ![d] = Enqueue(@,
        [id |-> id, repo |-> active[d], blob |-> blob, expected |-> expected,
         stamp |-> stamp, op |-> now', action |-> action])]

\* A fresh UUID: no device, no request and no row has it.
Unused(id) ==
    /\ records[id] = None
    /\ \A e \in Devices : accounts[e][id] = None /\ \A x \in Elements(queue[e]) : x.id # id

\* OtpAccount's version is 0 until the server has given it one.
Add(d, id) ==
    /\ draft[d] = None /\ Unused(id) /\ Made
    /\ accounts' = [accounts EXCEPT ![d][id] = [blob |-> now', version |-> 0, created |-> now']]
    /\ Queue(d, id, "create", now', 0, now')
    /\ UNCHANGED <<server, cursor, active, draft, sync, late>>

OpenEdit(d, id) ==
    /\ draft[d] = None /\ accounts[d][id] # None /\ now < MaxOps
    /\ draft' = [draft EXCEPT ![d] = [id |-> id, account |-> accounts[d][id]]]
    /\ UNCHANGED <<server, accounts, queue, cursor, active, sync, late, now>>

\* The list is polled every second, and the open screen is rebuilt from it: what the
\* user typed stays, the account under it is the row of now, and without a row the
\* screen closes.
RefreshEdit(d) ==
    LET row == accounts[d][draft[d].id]
    IN /\ draft[d] # None /\ draft[d].account # row
       /\ draft' = [draft EXCEPT ![d] = IF row = None THEN None ELSE [@ EXCEPT !.account = row]]
       /\ UNCHANGED <<server, accounts, queue, cursor, active, sync, late, now>>

\* save(): everything but the content comes from the account the screen had when the
\* user tapped, and encrypting is awaited: the row may be newer by now, or gone, and
\* is then inserted again as a new one.
SaveEdit(d) ==
    LET id == draft[d].id
        old == draft[d].account
        isUpdate == accounts[d][id] # None
    IN /\ draft[d] # None /\ Made
       /\ accounts' = [accounts EXCEPT ![d][id] = [old EXCEPT !.blob = now']]
       /\ Queue(d, id, IF isUpdate THEN "update" ELSE "create", now',
                IF isUpdate THEN old.version ELSE 0, old.created)
       /\ draft' = [draft EXCEPT ![d] = None]
       /\ UNCHANGED <<server, cursor, active, sync, late>>

\* From the list or from the edit screen, which it closes.
Delete(d, id) ==
    LET old == accounts[d][id]
    IN /\ old # None /\ Made
       /\ draft[d] # None => draft[d].id = id
       /\ accounts' = [accounts EXCEPT ![d][id] = None]
       /\ Queue(d, id, "delete", old.blob, old.version, now')
       /\ draft' = [draft EXCEPT ![d] = None]
       /\ UNCHANGED <<server, cursor, active, sync, late>>

\* In the settings, or by signing in.
SwitchRepo(d, p) ==
    /\ draft[d] = None /\ p # active[d] /\ Made
    /\ active' = [active EXCEPT ![d] = p]
    /\ UNCHANGED <<server, accounts, queue, cursor, draft, sync, late>>

\* The app is killed (or the edit screen left): what is not in the database is lost.
Crash(d) ==
    /\ draft' = [draft EXCEPT ![d] = None]
    /\ sync' = [sync EXCEPT ![d] = [k \in Runs |-> Idle]]
    /\ UNCHANGED <<server, accounts, queue, cursor, active, late, now>>

\* DELETE /otp/{id} by some other client of the API; the app never sends it.
Tombstone(id) ==
    /\ records[id] # None /\ ~records[id].deleted /\ Made
    /\ records' = [records EXCEPT ![id] = Tombstoned(@)]
    /\ repoVersion' = Raised(repoVersion, {records[id].repo})
    /\ UNCHANGED <<accounts, queue, cursor, active, draft, sync, late, log>>

-----------------------------------------------------------------------------
\* The server: a push, its effect and its reply.

Taking(changes) == Pushed(PushStart(records, log), changes, Repos)

Take(changes) ==
    LET done == Taking(changes)
    IN /\ records' = done.rows
       /\ repoVersion' = Raised(repoVersion, done.touched)
       /\ log' = done.log

\* Run k of device d becomes x, at phase.
Step(d, k, phase, x) == sync' = [sync EXCEPT ![d][k] = [x EXCEPT !.at = phase]]

ServePush(d, k) ==
    LET x == sync[d][k]
        changes == IF x.at = "push" THEN x.sent ELSE x.retry
        reply == Taking(changes)
    IN /\ x.at \in {"push", "retry"}
       /\ Take(changes)
       /\ IF x.at = "push"
          THEN Step(d, k, "pushed", [x EXCEPT !.accepted = reply.accepted,
                                              !.conflicts = reply.conflicts])
          ELSE Step(d, k, "retried", [x EXCEPT !.accepted = reply.accepted, !.retry = <<>>])
       /\ UNCHANGED <<accounts, queue, cursor, active, draft, late, now>>

ServeLate ==
    /\ \E changes \in late : Take(changes) /\ late' = late \ {changes}
    /\ UNCHANGED <<accounts, queue, cursor, active, draft, sync, now>>

Rows(p, since) ==
    [id \in Ids |-> IF id \in PullItems(records, p, since) THEN records[id] ELSE None]

\* GET pull reads the records and then, after another await, the repo's version.
ServePull(d, k) ==
    LET x == sync[d][k] IN
    /\ \/ /\ x.at = "resolve"
          /\ Step(d, k, "resolved",
                  [x EXCEPT !.rows = Rows(x.repo, Head(x.conflicts).version - 1)])
       \/ /\ x.at = "pull"
          /\ Step(d, k, "pulling", [x EXCEPT !.rows = Rows(x.repo, x.version), !.version = 0])
       \/ /\ x.at \in {"status", "pulling"}
          /\ Step(d, k, IF x.at = "status" THEN "statused" ELSE "pulled",
                  [x EXCEPT !.version = repoVersion[x.repo]])
    /\ UNCHANGED <<server, accounts, queue, cursor, active, draft, late, now>>

-----------------------------------------------------------------------------
\* SyncService on the device, from one await to the next.

\* Mutant of Clears: every queued change of the record goes.
ClearsAll(x, id, v) == x.id = id

\* The WHERE of clearQueuedForRecord.
Clears(x, id, v) == x.id = id /\ x.expected = v

Cleared(q, id, v) == Only(q, {x \in Elements(q) : ~Clears(x, id, v)})

\* For each accepted change: clearQueuedForRecord(id, newVersion - 1).
ClearedAccepted(q, accepted) ==
    Only(q, {x \in Elements(q) :
               \A a \in Elements(accepted) : ~Clears(x, a.id, a.version - 1)})

\* The next conflict, or _pullChanges when there is none left.
Resolving(x) ==
    [Idle EXCEPT !.at = IF x.conflicts = <<>> THEN "status" ELSE "resolve",
                 !.repo = x.repo, !.conflicts = x.conflicts,
                 !.sent = IF x.conflicts = <<>> THEN <<>> ELSE x.sent]

\* Mutant of NextConflict: the same one again.
NextConflictStuck(x) == Resolving(x)

NextConflict(x) == Resolving([x EXCEPT !.conflicts = Tail(@)])

Goto(d, k, x) == sync' = [sync EXCEPT ![d][k] = x]

Start(d, k) ==
    LET queued == Only(queue[d], {x \in Elements(queue[d]) : x.repo = active[d]})
    IN /\ sync[d][k].at = "idle" /\ active[d] # None
       /\ Goto(d, k, [Idle EXCEPT !.at = IF queued = <<>> THEN "status" ELSE "push",
                                  !.repo = active[d], !.sent = queued])
       /\ UNCHANGED <<server, accounts, queue, cursor, active, draft, late, now>>

OnPushed(d, k) ==
    LET x == sync[d][k]
    IN /\ x.at = "pushed"
       /\ queue' = [queue EXCEPT ![d] = ClearedAccepted(@, x.accepted)]
       /\ Goto(d, k, Resolving(x))
       /\ UNCHANGED <<server, accounts, cursor, active, draft, late, now>>

\* A DateTime comes back from the server without its zone and is read as local time.
Seen(d, t) == t - Offset[d]

\* Last write wins: push the first queued item of the record again, or give it up.
OnResolved(d, k) ==
    LET x == sync[d][k]
        id == Head(x.conflicts).id
        rec == x.rows[id]
        localItem == Head(Only(x.sent, {i \in Elements(x.sent) : i.id = id}))
        retry == [localItem EXCEPT !.expected = rec.version]
    IN /\ x.at = "resolved"
       /\ \/ /\ rec = None
             /\ Goto(d, k, NextConflict(x)) /\ UNCHANGED queue
          \/ /\ rec # None /\ localItem.stamp > Seen(d, rec.updated)
             /\ Step(d, k, "retry", [x EXCEPT !.retry = <<retry>>, !.rows = NoRows])
             /\ UNCHANGED queue
          \/ /\ rec # None /\ localItem.stamp <= Seen(d, rec.updated)
             /\ queue' = [queue EXCEPT ![d] = Cleared(@, id, 0)]
             /\ Goto(d, k, NextConflict(x))
       /\ UNCHANGED <<server, accounts, cursor, active, draft, late, now>>

OnRetried(d, k) ==
    LET x == sync[d][k]
    IN /\ x.at = "retried"
       /\ queue' = [queue EXCEPT ![d] = ClearedAccepted(@, x.accepted)]
       /\ Goto(d, k, NextConflict(x))
       /\ UNCHANGED <<server, accounts, cursor, active, draft, late, now>>

OnStatus(d, k) ==
    LET x == sync[d][k]
    IN /\ x.at = "statused"
       /\ IF x.version = 0 \/ x.version <= cursor[d]
          THEN Goto(d, k, Idle)
          ELSE Step(d, k, "pull", [x EXCEPT !.version = cursor[d]])
       /\ UNCHANGED <<server, accounts, queue, cursor, active, draft, late, now>>

(***************************************************************************)
(* The loop over the pulled rows, in order of version, given the accounts  *)
(* acc: rows not newer than the account are skipped and tombstones applied *)
(* until a row has to be decrypted, which is awaited; after the last row   *)
(* the reply's server_version becomes the cursor.                          *)
(***************************************************************************)
Advance(d, k, x, acc) ==
    LET fresh(id) == x.rows[id] # None
                     /\ (acc[id] # None => acc[id].version < x.rows[id].version)
        live == {id \in Ids : fresh(id) /\ ~x.rows[id].deleted}
        Past(ids) == [id \in Ids |-> IF id \in ids /\ fresh(id) THEN None ELSE acc[id]]
    IN \/ /\ live = {}
          /\ accounts' = [accounts EXCEPT ![d] = Past(Ids)]
          /\ cursor' = [cursor EXCEPT ![d] = x.version]
          /\ Goto(d, k, Idle)
       \/ \E id \in live :
            LET before == {o \in Ids \ live : x.rows[o] # None
                                            /\ x.rows[o].version <= x.rows[id].version}
            IN /\ \A o \in live : x.rows[id].version <= x.rows[o].version
               /\ accounts' = [accounts EXCEPT ![d] = Past(before)]
               /\ Step(d, k, "store",
                       [x EXCEPT !.rows = [o \in Ids |-> IF o \in before THEN None ELSE x.rows[o]],
                                 !.row = id])
               /\ UNCHANGED cursor

OnPulled(d, k) ==
    /\ sync[d][k].at = "pulled"
    /\ Advance(d, k, sync[d][k], accounts[d])
    /\ UNCHANGED <<server, queue, active, draft, late, now>>

\* INSERT OR REPLACE, whatever became of the account while the row was decrypted.
StoreRow(d, k) ==
    LET x == sync[d][k]
        rec == x.rows[x.row]
        stored == [blob |-> rec.blob, version |-> rec.version, created |-> Seen(d, rec.created)]
    IN /\ x.at = "store"
       /\ Advance(d, k, [x EXCEPT !.rows[x.row] = None, !.row = None],
                  [accounts[d] EXCEPT ![x.row] = stored])
       /\ UNCHANGED <<server, queue, active, draft, late, now>>

(***************************************************************************)
(* A request times out or its reply is lost.  An exception ends the call,  *)
(* except inside the loop over conflicts, which goes on with the next one. *)
(* A push the client gave up on may still be on its way to the server.     *)
(***************************************************************************)
InConflict == {"resolve", "retry", "retried"}
Requesting == InConflict \cup {"push", "pushed", "status", "pull"}

Fail(d, k) ==
    LET x == sync[d][k]
        changes == IF x.at = "push" THEN x.sent ELSE x.retry
    IN /\ x.at \in Requesting
       /\ Goto(d, k, IF x.at \in InConflict THEN NextConflict(x) ELSE Idle)
       /\ \/ UNCHANGED late
          \/ /\ x.at \in {"push", "retry"} /\ Cardinality(late) < MaxLate
             /\ late' = late \cup {changes}
       /\ UNCHANGED <<server, accounts, queue, cursor, active, draft, now>>

User(d) ==
    \/ \E id \in Ids : Add(d, id) \/ OpenEdit(d, id) \/ Delete(d, id)
    \/ RefreshEdit(d) \/ SaveEdit(d) \/ Crash(d)
    \/ \E p \in Repos : SwitchRepo(d, p)

Device(d, k) ==
    \/ OnPushed(d, k) \/ OnResolved(d, k) \/ OnRetried(d, k) \/ OnStatus(d, k)
    \/ OnPulled(d, k) \/ StoreRow(d, k)

Server(d, k) == ServePush(d, k) \/ ServePull(d, k)

Next ==
    \/ \E d \in Devices : User(d)
    \/ \E d \in Devices, k \in Runs :
          Start(d, k) \/ Device(d, k) \/ Server(d, k) \/ Fail(d, k)
    \/ ServeLate
    \/ \E id \in Ids : Tombstone(id)

Spec == Init /\ [][Next]_vars

(***************************************************************************)
(* Dio gives every call a timeout and the app's event loop runs what is    *)
(* ready, so a call under way goes on.  Nobody has to use the app.         *)
(***************************************************************************)
Progress(d, k) == Device(d, k) \/ Server(d, k) \/ Fail(d, k)

FairSpec == Spec /\ \A d \in Devices, k \in Runs : WF_vars(Progress(d, k))

-----------------------------------------------------------------------------
(***************************************************************************)
(* The version a device stores vouches for the content: where it is the    *)
(* server's, the two contents are the same, or the difference waits in the *)
(* queue under that version.  Neither a lost reply, a repeated or late     *)
(* push, an edit made while a sync waits, nor a stale edit screen leaves a *)
(* device with content that no later push or pull would bring into line.   *)
(***************************************************************************)
VersionVouchesForContent ==
    \A d \in Devices, id \in Ids :
        LET local == accounts[d][id] IN
        local # None /\ records[id] # None /\ local.version = records[id].version =>
            /\ ~records[id].deleted
            /\ \/ local.blob = records[id].blob
               \/ \E item \in Elements(queue[d]) : item.id = id /\ item.expected = local.version

\* A device whose clock shows a later time than UTC, for which "Seen" makes what the
\* server wrote look older than it is.
AheadOfUTC == \E d \in Devices : Offset[d] > 0

(***************************************************************************)
(* The server takes no new account and no edit twice, however often the    *)
(* app sends it (after a lost reply, from the queue of the next sync, or   *)
(* late), as long as no device is ahead of UTC.  A delete, and with a      *)
(* device ahead of UTC any change, can be taken again, but never because   *)
(* the same request arrived twice: only under a version the first taking   *)
(* or a later one gave the record, pushed again after a conflict.          *)
(***************************************************************************)
EditsTakenOnce ==
    \A i, j \in DOMAIN log :
        i < j /\ log[i].op = log[j].op =>
            /\ log[i].expected < log[j].expected
            /\ log[i].action = "delete" \/ AheadOfUTC

(***************************************************************************)
(* The loop over conflicts and the pull come to an end: every sync ends.   *)
(***************************************************************************)
SyncTerminates ==
    \A d \in Devices, k \in Runs : sync[d][k].at # "idle" ~> sync[d][k].at = "idle"

(***************************************************************************)
(* docs/06: "Clear completed queue items".  A change leaves the queue only *)
(* when the server took it or has content at least as new.                 *)
(***************************************************************************)
ClearedWhenSettled ==
    [][\A d \in Devices : \A item \in Elements(queue[d]) :
          item \notin Elements(queue'[d]) =>
              records[item.id] # None /\ records[item.id].blob >= item.blob]_vars

(***************************************************************************)
(* docs/06 section 2.3: the cursor is the global version of the last       *)
(* successful pull.  When a pull has made it the repo's version, the       *)
(* device has every live record of the repo, at its version.  (A record    *)
(* whose delete is still queued here is excused.)                          *)
(***************************************************************************)
CursorCoversRecords ==
    [][\A d \in Devices, k \in Runs, id \in Ids :
          /\ sync[d][k].at \in {"pulled", "store"} /\ sync'[d][k].at = "idle"
          /\ cursor'[d] = repoVersion[sync[d][k].repo] /\ cursor'[d] # cursor[d]
          /\ records[id] # None /\ records[id].repo = sync[d][k].repo /\ ~records[id].deleted
          => \/ accounts'[d][id] # None /\ accounts'[d][id].version >= records[id].version
             \/ \E item \in Elements(queue[d]) : item.id = id /\ item.action = "delete"]_vars
=============================================================================
