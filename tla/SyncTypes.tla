------------------------------ MODULE SyncTypes ------------------------------
(***************************************************************************)
(* The data of the sync backend (src/backend): what an OTP record row, a   *)
(* pushed change and a reply are, who may reach a repo, and what the       *)
(* handlers do to one record.  Shared by the atomic store (SyncStore), the *)
(* step-by-step handlers (SyncServer) and the devices (SyncSystem).        *)
(*                                                                         *)
(* A blob is opaque to the server, so it is a member of a small set.  A    *)
(* DateTime is a member of Stamps.  DeletedAt is only ever tested for      *)
(* null, so it is the BOOLEAN "deleted".                                   *)
(***************************************************************************)
EXTENDS Integers, Sequences

CONSTANTS
    Users,          \* user ids, from the JWT's subject
    Repos,          \* repo ids
    Ids,            \* record ids, chosen by the devices (UUID v4)
    Blobs,          \* ciphertexts
    Stamps,         \* client timestamps
    Owner,          \* Owner[p] is the user that created repo p
    DefaultRepos,   \* the repos created at sign-up (IsDefault)
    None            \* null

ASSUME OwnerAssumption == Owner \in [Repos -> Users]
ASSUME DefaultAssumption == DefaultRepos \subseteq Repos

Version == Nat \ {0}

\* A row of the OtpRecords table.
Record == [blob : Blobs, repo : Repos, version : Version,
           created : Stamps, updated : Stamps, deleted : BOOLEAN]

\* Null is not a row (so a lookup that finds nothing is told from one that does).
ASSUME NoneAssumption == None \notin Record

Row == Record \cup {None}

\* One change of a push, or the body of a POST or PUT (which has no use for all fields).
Change == [id : Ids, repo : Repos, blob : Blobs, expected : Nat, stamp : Stamps]

\* An entry of a push reply: for an accepted change its new version, for a
\* conflict the version the server holds.
Verdict == [id : Ids, version : Version]

(***************************************************************************)
(* EndpointHelpers.HasRepoAccess: the repo exists (or this request's       *)
(* DbContext already tracks it, which FindAsync prefers to the database)   *)
(* and the user owns it or has a membership row.                           *)
(***************************************************************************)
HasRepoAccess(existing, memberships, p, u) ==
    /\ p \in existing
    /\ Owner[p] = u \/ <<p, u>> \in memberships

\* Mutant of NewRecord: versions start at 0, which is also what "no record" is called.
NewRecordAtZero(c) ==
    [blob |-> c.blob, repo |-> c.repo, version |-> 0,
     created |-> c.stamp, updated |-> c.stamp, deleted |-> FALSE]

\* A record as the push and create handlers first store it.
NewRecord(c) ==
    [blob |-> c.blob, repo |-> c.repo, version |-> 1,
     created |-> c.stamp, updated |-> c.stamp, deleted |-> FALSE]

\* Mutant of Overwritten: the version is not incremented.
OverwrittenInPlace(rec, c) == [rec EXCEPT !.blob = c.blob, !.updated = c.stamp]

\* The update branch of push and PUT: DeletedAt and RepoId are left as they are.
Overwritten(rec, c) ==
    [rec EXCEPT !.blob = c.blob, !.version = @ + 1, !.updated = c.stamp]

\* DELETE: a tombstone is an ordinary version of the record.
Tombstoned(rec) == [rec EXCEPT !.deleted = TRUE, !.version = @ + 1]

\* GET pull: the rows of the repo whose own Version is past since_version.
PullItems(rows, p, since) ==
    {id \in Ids : rows[id] # None /\ rows[id].repo = p /\ rows[id].version > since}
=============================================================================
