------------------------------ MODULE SyncStore ------------------------------
(***************************************************************************)
(* What the sync backend promises: every request takes effect at one       *)
(* moment and its reply tells what it did.  SyncServer implements this     *)
(* module when requests do not overlap; SyncSystem builds the devices on   *)
(* top of it.                                                              *)
(***************************************************************************)
EXTENDS SyncPush

CONSTANTS Batches, Edits

VARIABLES
    records, repoVersion, repos, members,   \* the tables, as in SyncServer
    reply                                   \* the answer on its way, None in between

db == <<records, repoVersion, repos, members>>
vars == <<records, repoVersion, repos, members, reply>>

Answer(code, accepted, conflicts) ==
    [status |-> code, accepted |-> accepted, conflicts |-> conflicts]

Init ==
    /\ records = [id \in Ids |-> None]
    /\ repoVersion = [p \in Repos |-> 0]
    /\ repos = Repos
    /\ members = {}
    /\ reply = None

-----------------------------------------------------------------------------
Reachable(u) == {p \in Repos : HasRepoAccess(repos, members, p, u)}

Push(u, changes) ==
    LET done == Pushed(PushStart(records, <<>>), changes, Reachable(u))
    IN /\ records' = done.rows
       /\ repoVersion' = Raised(repoVersion, done.touched)
       /\ reply' = Answer(200, done.accepted, done.conflicts)
       /\ UNCHANGED <<repos, members>>

-----------------------------------------------------------------------------
\* A record and its repo's counter change together.
Put(id, rec) ==
    /\ records' = [records EXCEPT ![id] = rec]
    /\ repoVersion' = Raised(repoVersion, {rec.repo})
    /\ reply' = Answer(200, <<>>, <<>>)
    /\ UNCHANGED <<repos, members>>

Create(u, c) ==
    /\ c.repo \in Reachable(u)
    /\ records[c.id] = None
    /\ Put(c.id, NewRecord(c))

\* Compare-and-set on the record's version.
Writable(u, c) ==
    /\ records[c.id] # None
    /\ records[c.id].repo \in Reachable(u)
    /\ records[c.id].version = c.expected

Update(u, c) == Writable(u, c) /\ Put(c.id, Overwritten(records[c.id], c))
Delete(u, c) == Writable(u, c) /\ Put(c.id, Tombstoned(records[c.id]))

DeleteRepo(u, p) ==
    /\ p \in repos \ DefaultRepos
    /\ Owner[p] = u
    /\ repos' = repos \ {p}
    /\ members' = {m \in members : m[1] # p}
    /\ records' = [id \in Ids |->
                     IF records[id] # None /\ records[id].repo = p THEN None ELSE records[id]]
    /\ reply' = Answer(200, <<>>, <<>>)
    /\ UNCHANGED repoVersion

\* A request the store refuses, for a reason that is then true.
Refuse(code) == reply' = Answer(code, <<>>, <<>>) /\ UNCHANGED db

RefuseCreate(u, c) ==
    \/ c.repo \notin Reachable(u) /\ Refuse(403)
    \/ c.repo \in Reachable(u) /\ records[c.id] # None /\ Refuse(500)

RefuseChange(u, c) ==
    \/ records[c.id] = None /\ Refuse(404)
    \/ /\ records[c.id] # None
       /\ \/ records[c.id].repo \notin Reachable(u) /\ Refuse(403)
          \/ /\ records[c.id].repo \in Reachable(u)
             /\ records[c.id].version # c.expected
             /\ Refuse(409)

RefuseDeletion(u, p) ==
    \/ (p \notin repos \/ Owner[p] # u) /\ Refuse(404)
    \/ p \in repos \cap DefaultRepos /\ Owner[p] = u /\ Refuse(400)

Serve(u) ==
    /\ reply = None
    /\ \/ \E b \in Batches : Push(u, b)
       \/ \E e \in Edits : \/ Create(u, e) \/ Update(u, e) \/ Delete(u, e)
                           \/ RefuseCreate(u, e) \/ RefuseChange(u, e)
       \/ \E p \in Repos : DeleteRepo(u, p) \/ RefuseDeletion(u, p)

Deliver == reply # None /\ reply' = None /\ UNCHANGED db

\* Sharing and unsharing: one membership of an existing repo comes or goes.
ChangeMembers ==
    /\ \E p \in repos, u \in Users :
          members' = members \cup {<<p, u>>} \/ members' = members \ {<<p, u>>}
    /\ UNCHANGED <<records, repoVersion, repos, reply>>

Next == (\E u \in Users : Serve(u)) \/ Deliver \/ ChangeMembers

Spec == Init /\ [][Next]_vars
=============================================================================
