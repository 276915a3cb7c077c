----------------------------- MODULE SyncServer ------------------------------
(***************************************************************************)
(* The request handlers of the sync backend, one action per await.         *)
(*                                                                         *)
(* ASP.NET runs handlers concurrently.  Each has a DbContext of its own:   *)
(* queries return rows as they are committed at that moment and are cached *)
(* as tracked entities, the handler changes the entities in memory, and    *)
(* SaveChangesAsync writes everything that changed in one transaction,     *)
(* column by column, addressed by primary key.  No entity has a            *)
(* concurrency token, and no handler opens a transaction around its reads. *)
(*                                                                         *)
(* HasRepoAccess reads the repo and then the membership; they are read     *)
(* here together, when the membership is.                                  *)
(*                                                                         *)
(* A slot of Requests is a handler being executed.  One slot means that    *)
(* requests do not overlap, two that any two may.                          *)
(***************************************************************************)
EXTENDS SyncTypes

CONSTANTS
    Requests,       \* slots: requests being handled at one time
    Batches,        \* the bodies of POST /sync/push that devices send
    Edits,          \* the bodies of POST, PUT and DELETE /otp
    MaxVersion      \* bound: no request starts once a counter is there

ASSUME BatchesAssumption == \A b \in Batches : b \in Seq(Change)
ASSUME EditsAssumption == Edits \subseteq Change
ASSUME MaxVersionAssumption == MaxVersion \in Nat

\* Null is not a reply either.
ASSUME ReplyAssumption ==
    None \notin [status : Int, accepted : Seq(Verdict), conflicts : Seq(Verdict)]

VARIABLES
    records,        \* table OtpRecords, by id
    repoVersion,    \* table RepoVersions: GlobalVersion by repo, 0 when there is no row
    repos,          \* table Repos: the ids that have a row
    members,        \* table RepoMemberships
    pc,             \* where each handler is
    ctx             \* each handler's arguments, DbContext and results

db == <<records, repoVersion, repos, members>>
vars == <<records, repoVersion, repos, members, pc, ctx>>

Kinds == {"none", "push", "create", "update", "remove", "deleteRepo"}
Steps == {"idle", "access", "find", "members", "rows", "bump", "save", "done"}
Statuses == {0, 200, 400, 403, 404, 409, 500}

Context ==
    [kind : Kinds, user : Users \cup {None},
     todo : Seq(Change),                \* changes not yet looked at
     known : SUBSET Repos,              \* Repo entities tracked
     orig : [Ids -> Row],               \* OtpRecords as they were read
     curr : [Ids -> Row],               \* OtpRecords as they are now in memory
     touched : SUBSET Repos,            \* reposToVersion, still to be incremented
     vers : [Repos -> Nat],             \* tracked GlobalVersion, 0 when not tracked
     gone : SUBSET Ids,                 \* OtpRecords marked for removal
     left : SUBSET Users,               \* RepoMemberships marked for removal
     status : Statuses,                 \* the reply
     accepted : Seq(Verdict), conflicts : Seq(Verdict)]

NoRows == [id \in Ids |-> None]

Fresh(kind, u, todo) ==
    [kind |-> kind, user |-> u, todo |-> todo, known |-> {},
     orig |-> NoRows, curr |-> NoRows, touched |-> {},
     vers |-> [p \in Repos |-> 0], gone |-> {}, left |-> {},
     status |-> 0, accepted |-> <<>>, conflicts |-> <<>>]

Idle == Fresh("none", None, <<>>)

TypeOK ==
    /\ records \in [Ids -> Row]
    /\ repoVersion \in [Repos -> Nat]
    /\ repos \subseteq Repos
    /\ members \subseteq Repos \X Users
    /\ pc \in [Requests -> Steps]
    /\ ctx \in [Requests -> Context]

Init ==
    /\ records = NoRows
    /\ repoVersion = [p \in Repos |-> 0]
    /\ repos = Repos
    /\ members = {}
    /\ pc = [r \in Requests |-> "idle"]
    /\ ctx = [r \in Requests |-> Idle]

\* The bound on the model: with both counters below MaxVersion a request may start.
Bounded ==
    /\ \A id \in Ids : records[id] # None => records[id].version < MaxVersion
    /\ \A p \in Repos : repoVersion[p] < MaxVersion

-----------------------------------------------------------------------------
\* Moves of one handler that leave the database alone.

\* Handler r goes on at step s with context c.
Goto(r, s, c) ==
    /\ pc' = [pc EXCEPT ![r] = s]
    /\ ctx' = [ctx EXCEPT ![r] = c]

\* A handler that is done holds nothing but its reply.
Replied(code, accepted, conflicts) ==
    [Idle EXCEPT !.status = code, !.accepted = accepted, !.conflicts = conflicts]

\* Handler r answers without having saved anything.
Answer(r, code) ==
    /\ Goto(r, "done", Replied(code, <<>>, <<>>))
    /\ UNCHANGED db

Access(r, p) ==
    HasRepoAccess(repos \cup ctx[r].known, members, p, ctx[r].user)

\* Mutant of Found: the database is asked even for a tracked entity.
FoundUntracked(r, id) == records[id]

\* FindAsync: the tracked entity if there is one, the committed row otherwise.
Found(r, id) ==
    IF ctx[r].curr[id] # None THEN ctx[r].curr[id] ELSE records[id]

\* The value EF compares against when it saves: null for an entity it added.
Original(r, id) ==
    IF ctx[r].curr[id] # None THEN ctx[r].orig[id] ELSE records[id]

\* Context c with record id tracked as it was read (o) and as it is now (n).
Tracking(c, id, o, n) == [c EXCEPT !.orig[id] = o, !.curr[id] = n]

-----------------------------------------------------------------------------
\* A request arrives.  Only authenticated users get this far.

Receive(r, kind, u, todo, step) ==
    /\ pc[r] = "idle"
    /\ Bounded
    /\ Goto(r, step, Fresh(kind, u, todo))
    /\ UNCHANGED db

\* A push of no changes has nothing to look at.
ReceivePush(r) ==
    \E u \in Users, b \in Batches :
        Receive(r, "push", u, b, IF b # <<>> THEN "access" ELSE "save")

ReceiveCreate(r) == \E u \in Users, e \in Edits : Receive(r, "create", u, <<e>>, "access")
ReceiveUpdate(r) == \E u \in Users, e \in Edits : Receive(r, "update", u, <<e>>, "find")
ReceiveRemove(r) == \E u \in Users, e \in Edits : Receive(r, "remove", u, <<e>>, "find")

-----------------------------------------------------------------------------
(***************************************************************************)
(* POST /sync/push: for each change an access check and a look-up, then    *)
(* one IncrementRepoVersion per repo touched, then one SaveChangesAsync.   *)
(***************************************************************************)

\* Mutant of AfterChange: the repos touched are not incremented.
AfterChangeUncounted(c) == IF c.todo # <<>> THEN "access" ELSE "save"

\* Where the push goes once its first remaining change is dealt with.
AfterChange(c) ==
    IF c.todo # <<>> THEN "access" ELSE IF c.touched # {} THEN "bump" ELSE "save"

\* HasRepoAccess of the next change; a change to a repo out of reach is skipped.
PushAccess(r) ==
    LET p == Head(ctx[r].todo).repo
        skipped == [ctx[r] EXCEPT !.todo = Tail(@)]
    IN /\ pc[r] = "access" /\ ctx[r].kind = "push" /\ ctx[r].todo # <<>>
       /\ IF Access(r, p)
          THEN Goto(r, "find", [ctx[r] EXCEPT !.known = @ \cup {p}])
          ELSE Goto(r, AfterChange(skipped), skipped)
       /\ UNCHANGED db

\* Context x once its next change c is accepted as version v, or refused for version v.
Accepting(x, c, v) ==
    [x EXCEPT !.todo = Tail(@), !.touched = @ \cup {c.repo},
              !.accepted = Append(@, [id |-> c.id, version |-> v])]

Refusing(x, c, v) ==
    [x EXCEPT !.todo = Tail(@), !.conflicts = Append(@, [id |-> c.id, version |-> v])]

\* What the push makes of change c, given the record it found.
Judge(r, c) ==
    LET rec == Found(r, c.id)
        orig == Original(r, c.id)
    IN IF rec = None
       THEN Tracking(Accepting(ctx[r], c, 1), c.id, None, NewRecord(c))
       ELSE IF c.expected = rec.version
       THEN Tracking(Accepting(ctx[r], c, rec.version + 1), c.id, orig, Overwritten(rec, c))
       ELSE Tracking(Refusing(ctx[r], c, rec.version), c.id, orig, rec)

\* FindAsync of the next change's record: create it, overwrite it or report a conflict.
PushChange(r) ==
    LET next == Judge(r, Head(ctx[r].todo))
    IN /\ pc[r] = "find" /\ ctx[r].kind = "push" /\ ctx[r].todo # <<>>
       /\ Goto(r, AfterChange(next), next)
       /\ UNCHANGED db

-----------------------------------------------------------------------------
\* POST, PUT and DELETE /otp.

\* The change is made in memory and its repo p awaits its increment.
Stage(r, id, o, n, p) ==
    Goto(r, "bump", Tracking([ctx[r] EXCEPT !.known = @ \cup {p}, !.touched = @ \cup {p}], id, o, n))

CreateRecord(r) ==
    LET c == Head(ctx[r].todo)
    IN /\ pc[r] = "access" /\ ctx[r].kind = "create"
       /\ IF Access(r, c.repo)
          THEN Stage(r, c.id, None, NewRecord(c), c.repo) /\ UNCHANGED db
          ELSE Answer(r, 403)

\* PUT and DELETE look the record up before they know its repo.
FindRecord(r) ==
    LET id == Head(ctx[r].todo).id
    IN /\ pc[r] = "find" /\ ctx[r].kind \in {"update", "remove"}
       /\ IF records[id] = None
          THEN Answer(r, 404)
          ELSE /\ Goto(r, "access", Tracking(ctx[r], id, records[id], records[id]))
               /\ UNCHANGED db

ChangeRecord(r) ==
    LET c == Head(ctx[r].todo)
        rec == ctx[r].curr[c.id]
        changed == IF ctx[r].kind = "update" THEN Overwritten(rec, c) ELSE Tombstoned(rec)
    IN /\ pc[r] = "access" /\ ctx[r].kind \in {"update", "remove"}
       /\ IF ~Access(r, rec.repo) THEN Answer(r, 403)
          ELSE IF c.expected # rec.version THEN Answer(r, 409)
          ELSE Stage(r, c.id, rec, changed, rec.repo) /\ UNCHANGED db

-----------------------------------------------------------------------------
\* IncrementRepoVersion: the counter is read now and written when the request saves.
IncrementRepoVersion(r) ==
    /\ pc[r] = "bump"
    /\ \E p \in ctx[r].touched :
          LET c == [ctx[r] EXCEPT !.touched = @ \ {p}, !.vers[p] = repoVersion[p] + 1]
          IN Goto(r, IF c.touched = {} THEN "save" ELSE "bump", c)
    /\ UNCHANGED db

(***************************************************************************)
(* DELETE /repos/{id}, owner only and never the default repo: the repo,    *)
(* then its memberships, then its records are read, and removed together.  *)
(***************************************************************************)
Deleting(u, p) == [Fresh("deleteRepo", u, <<>>) EXCEPT !.known = {p}]

ReadRepo(r) ==
    \E u \in Users, p \in Repos :
        /\ pc[r] = "idle"
        /\ IF p \notin repos \/ Owner[p] # u THEN Answer(r, 404)
           ELSE IF p \in DefaultRepos THEN Answer(r, 400)
           ELSE Goto(r, "members", Deleting(u, p)) /\ UNCHANGED db

ReadMembers(r) ==
    /\ pc[r] = "members"
    /\ Goto(r, "rows", [ctx[r] EXCEPT
          !.left = {u \in Users : \E p \in ctx[r].known : <<p, u>> \in members}])
    /\ UNCHANGED db

ReadRows(r) ==
    /\ pc[r] = "rows"
    /\ Goto(r, "save", [ctx[r] EXCEPT
          !.gone = {id \in Ids : records[id] # None /\ records[id].repo \in ctx[r].known}])
    /\ UNCHANGED db

-----------------------------------------------------------------------------
(***************************************************************************)
(* SaveChangesAsync.  An INSERT fails when the key is taken, an UPDATE or  *)
(* DELETE when the row is gone (EF expects one affected row); one failure  *)
(* rolls the transaction back and the client gets a 500.  An UPDATE sets   *)
(* only the columns whose value differs from the one that was read.        *)
(***************************************************************************)
\* Mutant of Column: an UPDATE writes the whole row.
ColumnAlways(o, n, row) == n

Column(o, n, row) == IF n # o THEN n ELSE row

Merged(o, n, row) ==
    [blob |-> Column(o.blob, n.blob, row.blob),
     repo |-> Column(o.repo, n.repo, row.repo),
     version |-> Column(o.version, n.version, row.version),
     created |-> Column(o.created, n.created, row.created),
     updated |-> Column(o.updated, n.updated, row.updated),
     deleted |-> Column(o.deleted, n.deleted, row.deleted)]

Inserts(c, id) == c.curr[id] # None /\ c.orig[id] = None
Updates(c, id) == c.curr[id] # None /\ c.orig[id] # None /\ c.curr[id] # c.orig[id]

CanSave(c) ==
    /\ \A id \in Ids : /\ Inserts(c, id) => records[id] = None
                       /\ Updates(c, id) \/ id \in c.gone => records[id] # None
    /\ \A p \in Repos : c.vers[p] = 1 => repoVersion[p] = 0
    /\ c.kind = "deleteRepo" =>
          /\ c.known \subseteq repos
          /\ \A p \in c.known, v \in c.left : <<p, v>> \in members

Saved(c, id) ==
    IF id \in c.gone THEN None
    ELSE CASE Inserts(c, id) -> c.curr[id]
           [] Updates(c, id) -> Merged(c.orig[id], c.curr[id], records[id])
           [] OTHER -> records[id]

\* Removing a Repo row cascades to the memberships the handler never read.
Commit(c) ==
    /\ records' = [id \in Ids |-> Saved(c, id)]
    /\ repoVersion' = [p \in Repos |-> IF c.vers[p] > 0 THEN c.vers[p] ELSE repoVersion[p]]
    /\ repos' = IF c.kind = "deleteRepo" THEN repos \ c.known ELSE repos
    /\ members' = IF c.kind = "deleteRepo"
                  THEN {m \in members : m[1] \notin c.known} ELSE members

Save(r) ==
    /\ pc[r] = "save"
    /\ CanSave(ctx[r])
    /\ Commit(ctx[r])
    /\ Goto(r, "done", Replied(200, ctx[r].accepted, ctx[r].conflicts))

SaveFails(r) ==
    /\ pc[r] = "save"
    /\ ~CanSave(ctx[r])
    /\ Answer(r, 500)

\* The reply leaves; or the process stops, or the client hangs up, before it is saved.
Respond(r) == pc[r] = "done" /\ Goto(r, "idle", Idle) /\ UNCHANGED db
Abort(r) == pc[r] \notin {"idle", "done"} /\ Goto(r, "idle", Idle) /\ UNCHANGED db

-----------------------------------------------------------------------------
(***************************************************************************)
(* POST and DELETE /repos/{id}/share, at their only save; Accounts looks   *)
(* inside them.  They take a slot for that moment, so with one slot they   *)
(* too never fall between two steps of another request.                    *)
(***************************************************************************)
Share ==
    /\ \E r \in Requests : pc[r] = "idle"
    /\ \E p \in repos, u \in Users :
          Owner[p] # u /\ <<p, u>> \notin members /\ members' = members \cup {<<p, u>>}
    /\ UNCHANGED <<records, repoVersion, repos, pc, ctx>>

Unshare ==
    /\ \E r \in Requests : pc[r] = "idle"
    /\ \E m \in members : members' = members \ {m}
    /\ UNCHANGED <<records, repoVersion, repos, pc, ctx>>

Handler(r) ==
    \/ ReceivePush(r) \/ PushAccess(r) \/ PushChange(r)
    \/ ReceiveCreate(r) \/ CreateRecord(r)
    \/ ReceiveUpdate(r) \/ ReceiveRemove(r) \/ FindRecord(r) \/ ChangeRecord(r)
    \/ ReadRepo(r) \/ ReadMembers(r) \/ ReadRows(r) \/ IncrementRepoVersion(r)
    \/ Save(r) \/ SaveFails(r) \/ Respond(r) \/ Abort(r)

Next == (\E r \in Requests : Handler(r)) \/ Share \/ Unshare

Spec == Init /\ [][Next]_vars

-----------------------------------------------------------------------------
(***************************************************************************)
(* Every record's repo has a version row, however requests overlap: the    *)
(* record and the counter's first value are saved by one transaction, and  *)
(* deleting a repo leaves its counter behind.  Without the row, /status    *)
(* answers 0 and no device ever pulls the record.                          *)
(***************************************************************************)
RecordHasRepoVersion ==
    \A id \in Ids : records[id] # None => repoVersion[records[id].repo] > 0

(***************************************************************************)
(* A tombstone is never undone by a late push or PUT that read the record  *)
(* before it was deleted: such a request saves only the columns it         *)
(* changed, and DeletedAt is not among them.                               *)
(***************************************************************************)
TombstoneIsFinal ==
    \A id \in Ids :
        records[id] # None /\ records[id].deleted /\ records'[id] # None
            => records'[id].deleted

TombstonesAreFinal == [][TombstoneIsFinal]_vars

(***************************************************************************)
(* The point of expected_version: content never changes under an unchanged *)
(* (or lower) version, so a device that still holds version v holds the    *)
(* content of version v.                                                   *)
(***************************************************************************)
ContentHasNewVersion ==
    \A id \in Ids :
        /\ records[id] # None /\ records'[id] # None
        /\ records'[id].blob # records[id].blob \/ records'[id].deleted # records[id].deleted
        => records'[id].version > records[id].version

VersionsGuardContent == [][ContentHasNewVersion]_vars

(***************************************************************************)
(* "Is there anything new?": no GlobalVersion goes down, and a step that   *)
(* adds or changes a record raises one.                                    *)
(***************************************************************************)
ChangeRaisesVersion ==
    /\ \A p \in Repos : repoVersion'[p] >= repoVersion[p]
    /\ (\E id \in Ids : records'[id] # None /\ records'[id] # records[id])
           => \E p \in Repos : repoVersion'[p] > repoVersion[p]

ChangesRaiseVersion == [][ChangeRaisesVersion]_vars

-----------------------------------------------------------------------------
(***************************************************************************)
(* With one slot the handlers implement the atomic store: the whole        *)
(* request takes effect at its save, with the reply SyncStore gives.       *)
(***************************************************************************)
Slot == CHOOSE r \in Requests : TRUE

Store == INSTANCE SyncStore WITH
    reply <- IF pc[Slot] = "done"
             THEN [status |-> ctx[Slot].status, accepted |-> ctx[Slot].accepted,
                   conflicts |-> ctx[Slot].conflicts]
             ELSE None

ImplementsStore == Store!Spec
=============================================================================
