------------------------------ MODULE Accounts -------------------------------
(***************************************************************************)
(* The handlers that manage users, refresh tokens, repos and memberships:  *)
(* the endpoints under /auth and /repos and the pages that do the same     *)
(* through a browser.  One action per await, as in SyncServer: handlers    *)
(* run concurrently, what one read may be stale when it saves, and only    *)
(* keys, unique indexes and foreign keys are checked at the save.          *)
(*                                                                         *)
(* Ids come from Guid.NewGuid and are drawn here when they are saved;      *)
(* a user's and a token's are never removed, a repo's is never used again. *)
(* Names of repos, roles, passwords and times of log-in are left out.      *)
(***************************************************************************)
EXTENDS FiniteSets, Naturals

CONSTANTS
    Requests,       \* slots: requests being handled at one time
    Users, Names,   \* ids and user names
    Repos, Tokens,  \* ids of repos and of refresh tokens
    MaxRepos,       \* custom repos a user may own: 10 in the code
    Mixes,          \* bound: the kinds of requests and number of repos of a behaviour
    None            \* no row, no value

ASSUME FiniteAssumption ==
    IsFiniteSet(Requests) /\ IsFiniteSet(Repos) /\ IsFiniteSet(Tokens)
ASSUME RequestsAssumption == Requests # {}
ASSUME MaxReposAssumption == MaxRepos \in Nat \ {0}
ASSUME NoneAssumption == None \notin Users \cup Names \cup Repos \cup Tokens
ASSUME DeviceIdAssumption == Users \cap Repos = {}

VARIABLES
    users,      \* table Users: the name by id
    repos,      \* table Repos, by id
    members,    \* table RepoMemberships
    meta,       \* table SyncMetadatas: the DeviceIds
    tokens,     \* table RefreshTokens, by id
    pc,         \* where each handler is
    ctx,        \* each handler's arguments and what it has read
    mix,        \* the bound of this behaviour
    unused,     \* Guid.NewGuid: the repo ids not given out yet
    torn        \* history: memberships whose share stopped before its second save

db == <<users, repos, members, meta, tokens>>
history == <<unused, torn>>
vars == <<users, repos, members, meta, tokens, pc, ctx, mix, unused, torn>>

RepoRow == [owner : Users, default : BOOLEAN]
\* from: history, the token this one was given out for.
TokenRow == [user : Users, revoked : BOOLEAN, expired : BOOLEAN, from : Tokens \cup {None}]
ASSUME RowAssumption == None \notin RepoRow \cup TokenRow

Kinds == {"none", "signup", "signupPage", "login", "refresh", "create",
          "rename", "delete", "share", "sharePage", "unshare"}
Steps == {"idle", "read", "second", "save", "meta", "saveMeta", "done"}
Statuses == {0, 200, 400, 401, 404, 409, 500}

Context ==
    [kind : Kinds,
     user : Users \cup {None},      \* who asks
     name : Names \cup {None},      \* whom a sign-up, log-in or share is about
     repo : Repos \cup {None},
     token : Tokens \cup {None},
     left : SUBSET Users,           \* members to be removed; of a share, the one to be added
     disturbed : BOOLEAN,           \* history: another request saved since this one came
     status : Statuses]

Idle == [kind |-> "none", user |-> None, name |-> None, repo |-> None, token |-> None,
         left |-> {}, disturbed |-> FALSE, status |-> 0]

TypeOK ==
    /\ users \in [Users -> Names \cup {None}]
    /\ repos \in [Repos -> RepoRow \cup {None}]
    /\ members \subseteq Repos \X Users
    /\ meta \subseteq Repos \cup Users
    /\ tokens \in [Tokens -> TokenRow \cup {None}]
    /\ pc \in [Requests -> Steps]
    /\ ctx \in [Requests -> Context]
    /\ mix \in Mixes
    /\ unused \subseteq Repos
    /\ torn \subseteq Repos \X Users

Init ==
    /\ users = [u \in Users |-> None]
    /\ repos = [p \in Repos |-> None]
    /\ members = {}
    /\ meta = {}
    /\ tokens = [t \in Tokens |-> None]
    /\ pc = [r \in Requests |-> "idle"]
    /\ ctx = [r \in Requests |-> Idle]
    /\ mix \in Mixes
    /\ unused = Repos
    /\ torn = {}

Custom(u) == {p \in Repos : repos[p] # None /\ repos[p].owner = u /\ ~repos[p].default}
Owns(u, p) == repos[p] # None /\ repos[p].owner = u
\* RefreshToken.IsActive.
Active(t) == tokens[t] # None /\ ~tokens[t].revoked /\ ~tokens[t].expired
MembersOf(p) == {u \in Users : <<p, u>> \in members}

-----------------------------------------------------------------------------
\* Moves of one handler that leave the database alone.

Goto(r, s, c) ==
    /\ pc' = [pc EXCEPT ![r] = s]
    /\ ctx' = [ctx EXCEPT ![r] = c]
    /\ UNCHANGED db /\ UNCHANGED history

\* The reply; of the context only what the properties ask about is kept.
Replied(c, code) ==
    IF code = 500
    THEN [Idle EXCEPT !.status = code, !.kind = c.kind, !.repo = c.repo, !.disturbed = c.disturbed]
    ELSE [Idle EXCEPT !.status = code]

Answer(r, code) == Goto(r, "done", Replied(ctx[r], code))

\* A handler of one of the kinds is at step s.
At(r, s, kinds) == pc[r] = s /\ ctx[r].kind \in kinds

\* A request arrives.  All but sign-up, log-in and refresh need a signed-in user; ids
\* are those a client was given, which may be gone by now.
Receive(r, c) == pc[r] = "idle" /\ c.kind \in mix.kinds /\ Goto(r, "read", c)

ReceiveName(r) ==
    \E k \in {"signup", "signupPage", "login"}, n \in Names :
        Receive(r, [Idle EXCEPT !.kind = k, !.name = n])

ReceiveRefresh(r) ==
    \E t \in Tokens :
        tokens[t] # None /\ Receive(r, [Idle EXCEPT !.kind = "refresh", !.token = t])

ReceiveCreate(r) ==
    \E u \in Users : users[u] # None /\ Receive(r, [Idle EXCEPT !.kind = "create", !.user = u])

ReceiveRepo(r) ==
    \E k \in {"rename", "delete"}, u \in Users, p \in Repos \ unused :
        users[u] # None /\ Receive(r, [Idle EXCEPT !.kind = k, !.user = u, !.repo = p])

ReceiveShare(r) ==
    \E k \in {"share", "sharePage"}, u \in Users, p \in Repos \ unused, n \in Names :
        /\ users[u] # None
        /\ Receive(r, [Idle EXCEPT !.kind = k, !.user = u, !.repo = p, !.name = n])

ReceiveUnshare(r) ==
    \E u, v \in Users, p \in Repos \ unused :
        /\ users[u] # None /\ users[v] # None
        /\ Receive(r, [Idle EXCEPT !.kind = "unshare", !.user = u, !.repo = p, !.left = {v}])

-----------------------------------------------------------------------------
\* The reads, each the guard of what follows.

\* POST /auth/signup and the sign-up page: is the name free?
CheckName(r) ==
    /\ At(r, "read", {"signup", "signupPage"})
    /\ IF \E u \in Users : users[u] = ctx[r].name
       THEN Answer(r, 409)
       ELSE Goto(r, "save", ctx[r])

\* POST /auth/login: the user's row, if the password is theirs.
FindUser(r) ==
    /\ At(r, "read", {"login"})
    /\ \/ Answer(r, 401)
       \/ \E u \in Users : users[u] = ctx[r].name /\ Goto(r, "save", [ctx[r] EXCEPT !.user = u])

\* POST /auth/refresh: the token's row, by its hash.
FindToken(r) ==
    LET t == ctx[r].token
    IN /\ At(r, "read", {"refresh"})
       /\ IF Active(t)
          THEN Goto(r, "save", [ctx[r] EXCEPT !.user = tokens[t].user])
          ELSE Answer(r, 401)

\* Mutant of Full: one repo too many.
FullLate(u) == Cardinality(Custom(u)) > MaxRepos

Full(u) == Cardinality(Custom(u)) >= MaxRepos

\* POST /repos and the create page: how many does the user own?
CountRepos(r) ==
    /\ At(r, "read", {"create"})
    /\ IF Full(ctx[r].user) THEN Answer(r, 400) ELSE Goto(r, "save", ctx[r])

\* The repo, if it is the caller's: first read of all that is done to one.
FindRepo(r) ==
    LET c == ctx[r]
    IN /\ At(r, "read", {"rename", "delete", "share", "sharePage", "unshare"})
       /\ IF ~Owns(c.user, c.repo) THEN Answer(r, 404)
          ELSE IF c.kind = "delete" /\ repos[c.repo].default THEN Answer(r, 400)
          ELSE Goto(r, IF c.kind = "rename" THEN "save" ELSE "second", c)

\* DELETE /repos/{id}: the memberships (and the records: SyncServer).
ReadMembers(r) ==
    /\ At(r, "second", {"delete"})
    /\ Goto(r, "save", [ctx[r] EXCEPT !.left = MembersOf(ctx[r].repo)])

\* Mutant of Shareable: a membership that is there already is not looked for.
ShareableAgain(c, v) == v # c.user

Shareable(c, v) == v # c.user /\ v \notin MembersOf(c.repo)

\* POST /repos/{id}/share and the share page: the user by name, and the membership.
FindTarget(r) ==
    LET c == ctx[r]
    IN /\ At(r, "second", {"share", "sharePage"})
       /\ \/ \E v \in Users :
                users[v] = c.name /\ Shareable(c, v) /\ Goto(r, "save", [c EXCEPT !.left = {v}])
          \/ users[c.user] = c.name /\ Answer(r, 400)
          \/ \E v \in Users \ {c.user} :
                users[v] = c.name /\ ~Shareable(c, v) /\ Answer(r, 409)
          \/ (\A v \in Users : users[v] # c.name) /\ Answer(r, 404)

\* DELETE /repos/{id}/share/{userId} and the revoke page.
FindMembership(r) ==
    /\ At(r, "second", {"unshare"})
    /\ IF ctx[r].left \subseteq MembersOf(ctx[r].repo)
       THEN Goto(r, "save", ctx[r])
       ELSE Answer(r, 404)

-----------------------------------------------------------------------------
(***************************************************************************)
(* The saves.  A save is refused by the unique indexes on user names, on   *)
(* memberships and on DeviceIds, by the foreign keys of a membership, and  *)
(* by EF Core when a row to be changed or removed is gone.  Nothing checks *)
(* again what was read before.                                             *)
(***************************************************************************)
\* Mutant of NameFree: user names have no unique index.
NameFreeAlways(n) == TRUE

NameFree(n) == \A u \in Users : users[u] # n

PairFree(c) == repos[c.repo] # None /\ c.left \cap MembersOf(c.repo) = {}

\* The page adds metadata for the repo in the same save, the endpoint in a second one.
CanSave(c) ==
    CASE c.kind \in {"signup", "signupPage"} -> NameFree(c.name)
      [] c.kind = "rename" -> repos[c.repo] # None
      [] c.kind = "delete" -> repos[c.repo] # None /\ c.left \subseteq MembersOf(c.repo)
      [] c.kind = "share" -> PairFree(c)
      [] c.kind = "sharePage" -> PairFree(c) /\ c.repo \notin meta
      [] c.kind = "unshare" -> c.left \subseteq MembersOf(c.repo)
      [] OTHER -> TRUE

\* Handler r saves and goes on at step s with context c; the others may hold stale reads.
Saving(r, s, c) ==
    /\ pc' = [pc EXCEPT ![r] = s]
    /\ ctx' = [q \in Requests |->
                  IF q = r THEN c
                  ELSE IF pc[q] \in {"idle", "done"} THEN ctx[q]
                  ELSE [ctx[q] EXCEPT !.disturbed = TRUE]]
    /\ UNCHANGED torn

Ready(r, kinds) == At(r, "save", kinds) /\ CanSave(ctx[r])
Done(r) == Saving(r, "done", Replied(ctx[r], 200))

\* Guid.NewGuid: any id will do that nobody has.
NewGuid(ids) == CHOOSE id \in ids : TRUE

NewRepo(u, default) ==
    LET p == NewGuid(unused)
    IN /\ unused # {} /\ Cardinality(Repos \ unused) < mix.repos
       /\ repos' = [repos EXCEPT ![p] = [owner |-> u, default |-> default]]
       /\ unused' = unused \ {p}

\* GenerateUserTokens, after the changes made to the tokens ts that exist.
Issue(ts, u, from) ==
    LET free == {t \in Tokens : tokens[t] = None}
    IN /\ free # {}
       /\ tokens' = [ts EXCEPT ![NewGuid(free)] =
             [user |-> u, revoked |-> FALSE, expired |-> FALSE, from |-> from]]

\* The user and the default repo, and, but for the page, a token: one transaction.
SaveUser(r) ==
    /\ Ready(r, {"signup", "signupPage"})
    /\ LET free == {u \in Users : users[u] = None}
           u == NewGuid(free)
       IN /\ free # {}
          /\ users' = [users EXCEPT ![u] = ctx[r].name]
          /\ NewRepo(u, TRUE)
          /\ IF ctx[r].kind = "signup" THEN Issue(tokens, u, None) ELSE UNCHANGED tokens
    /\ Done(r) /\ UNCHANGED <<members, meta>>

SaveLogin(r) ==
    /\ Ready(r, {"login"})
    /\ Issue(tokens, ctx[r].user, None)
    /\ Done(r) /\ UNCHANGED <<users, repos, members, meta, unused>>

\* Mutant of Revoked: the token that is exchanged stays active.
RevokedNot(t) == tokens

Revoked(t) == [tokens EXCEPT ![t].revoked = TRUE]

SaveRefresh(r) ==
    LET t == ctx[r].token
    IN /\ Ready(r, {"refresh"})
       /\ Issue(Revoked(t), ctx[r].user, t)
       /\ Done(r) /\ UNCHANGED <<users, repos, members, meta, unused>>

SaveRepo(r) ==
    /\ Ready(r, {"create"})
    /\ NewRepo(ctx[r].user, FALSE)
    /\ Done(r) /\ UNCHANGED <<users, members, meta, tokens>>

SaveName(r) ==
    /\ Ready(r, {"rename"})
    /\ Done(r) /\ UNCHANGED db /\ UNCHANGED unused

\* Mutant of Cascaded: only the memberships that were read are removed.
CascadedRead(c) == {m \in members : ~(m[1] = c.repo /\ m[2] \in c.left)}

\* Memberships go with their repo, also those added since they were read.
Cascaded(c) == {m \in members : m[1] # c.repo}

DeleteRepo(r) ==
    /\ Ready(r, {"delete"})
    /\ repos' = [repos EXCEPT ![ctx[r].repo] = None]
    /\ members' = Cascaded(ctx[r])
    /\ Done(r) /\ UNCHANGED <<users, meta, tokens, unused>>

\* Mutant of Pairs: the two ids, both a Guid, are swapped.
PairsSwapped(c) == c.left \X {c.repo}

Pairs(c) == {c.repo} \X c.left

\* The endpoint's first save.
SaveShare(r) ==
    /\ Ready(r, {"share"})
    /\ members' = members \cup Pairs(ctx[r])
    /\ Saving(r, "meta", ctx[r]) /\ UNCHANGED <<users, repos, meta, tokens, unused>>

\* Mutant of AfterShare: the second save is for users who have metadata already.
AfterShareSwapped(c) == IF c.left \cap meta = {} THEN "done" ELSE "saveMeta"

\* Where share goes once it has looked for the new member's metadata.
AfterShare(c) == IF c.left \cap meta = {} THEN "saveMeta" ELSE "done"

ReadMeta(r) ==
    /\ At(r, "meta", {"share"})
    /\ Goto(r, AfterShare(ctx[r]),
            IF AfterShare(ctx[r]) = "done" THEN Replied(ctx[r], 200) ELSE ctx[r])

\* The endpoint's second save.
SaveMeta(r) ==
    /\ At(r, "saveMeta", {"share"})
    /\ ctx[r].left \cap meta = {}
    /\ meta' = meta \cup ctx[r].left
    /\ Done(r) /\ UNCHANGED <<users, repos, members, tokens, unused>>

SavePageShare(r) ==
    /\ Ready(r, {"sharePage"})
    /\ members' = members \cup Pairs(ctx[r])
    /\ meta' = meta \cup {ctx[r].repo}
    /\ Done(r) /\ UNCHANGED <<users, repos, tokens, unused>>

SaveUnshare(r) ==
    /\ Ready(r, {"unshare"})
    /\ members' = members \ Pairs(ctx[r])
    /\ Done(r) /\ UNCHANGED <<users, repos, meta, tokens, unused>>

\* A membership that was read may have been removed and shared again since, as another row.
Replaced(c) == c.kind \in {"delete", "unshare"} /\ c.left # {} /\ c.disturbed

\* The save is refused, and the middleware answers 500.
SaveFails(r) ==
    /\ \/ pc[r] = "save" /\ (~CanSave(ctx[r]) \/ Replaced(ctx[r]))
       \/ pc[r] = "saveMeta" /\ ctx[r].left \cap meta # {}
    /\ Answer(r, 500)

-----------------------------------------------------------------------------
Respond(r) == pc[r] = "done" /\ Goto(r, "idle", Idle)

\* The process stops: what is not saved never happens.
Abort(r) ==
    /\ pc[r] \notin {"idle", "done"}
    /\ pc' = [pc EXCEPT ![r] = "idle"]
    /\ ctx' = [ctx EXCEPT ![r] = Idle]
    /\ torn' = IF pc[r] \in {"meta", "saveMeta"} THEN torn \cup Pairs(ctx[r]) ELSE torn
    /\ UNCHANGED db /\ UNCHANGED unused

\* Thirty days pass.
Expire ==
    /\ \E t \in Tokens : Active(t) /\ tokens' = [tokens EXCEPT ![t].expired = TRUE]
    /\ UNCHANGED <<users, repos, members, meta, pc, ctx>> /\ UNCHANGED history

Handler(r) ==
    \/ ReceiveName(r) \/ ReceiveRefresh(r) \/ ReceiveCreate(r)
    \/ ReceiveRepo(r) \/ ReceiveShare(r) \/ ReceiveUnshare(r)
    \/ CheckName(r) \/ FindUser(r) \/ FindToken(r) \/ CountRepos(r)
    \/ FindRepo(r) \/ ReadMembers(r) \/ FindTarget(r) \/ FindMembership(r)
    \/ SaveUser(r) \/ SaveLogin(r) \/ SaveRefresh(r) \/ SaveRepo(r) \/ SaveName(r)
    \/ DeleteRepo(r) \/ SaveShare(r) \/ ReadMeta(r) \/ SaveMeta(r)
    \/ SavePageShare(r) \/ SaveUnshare(r) \/ SaveFails(r) \/ Respond(r) \/ Abort(r)

Next == ((\E r \in Requests : Handler(r)) \/ Expire) /\ UNCHANGED mix

Spec == Init /\ [][Next]_vars

-----------------------------------------------------------------------------
(***************************************************************************)
(* An account is whole: no two users have one name, although two sign-ups  *)
(* may both have seen it free; and each user owns one default repo, from   *)
(* the save of the sign-up on, whatever is deleted at the same time.       *)
(***************************************************************************)
DefaultsOf(u) == {p \in Repos : Owns(u, p) /\ repos[p].default}

AccountsAreWhole ==
    /\ \A u, v \in Users : users[u] # None /\ users[u] = users[v] => u = v
    /\ \A u \in Users : users[u] # None => \E p \in Repos : DefaultsOf(u) = {p}
    /\ \A p \in Repos : repos[p] # None => users[repos[p].owner] # None

(***************************************************************************)
(* Who may read a repo: only users that exist, of a repo that exists, and  *)
(* never its owner, although share looks at the repo, the user and the     *)
(* membership one after the other and saves later.                         *)
(***************************************************************************)
MembershipsAreSound ==
    \A m \in members :
        /\ users[m[2]] # None
        /\ repos[m[1]] # None /\ repos[m[1]].owner # m[2]

(***************************************************************************)
(* "Maximum 10 custom repos allowed" holds exactly when requests do not    *)
(* overlap: the count is read before the insert, so each further request   *)
(* under way at a time may add one.                                        *)
(***************************************************************************)
LimitUnlessOverlap ==
    \A u \in Users : Cardinality(Custom(u)) < MaxRepos + Cardinality(Requests)

(***************************************************************************)
(* Rotation: a refresh token is exchanged once when requests do not        *)
(* overlap, and never more often than there are requests at a time; one    *)
(* that has been exchanged is never active again.                          *)
(***************************************************************************)
Successors(t) == {s \in Tokens : tokens[s] # None /\ tokens[s].from = t}

RotationUnlessOverlap ==
    \A t \in Tokens :
        /\ Cardinality(Successors(t)) <= Cardinality(Requests)
        /\ Active(t) => Successors(t) = {}

(***************************************************************************)
(* A 500 means interference: a save is refused by the database only if     *)
(* another request saved after this one came.  The exception is the share  *)
(* page, which inserts metadata for the repo with every share and so       *)
(* cannot share the same repo a second time, even alone.                   *)
(***************************************************************************)
FailuresHaveACause ==
    \A r \in Requests : pc[r] = "done" /\ ctx[r].status = 500 =>
        ctx[r].disturbed \/ (ctx[r].kind = "sharePage" /\ ctx[r].repo \in meta)

(***************************************************************************)
(* The two saves of share: a member has sync metadata (of their own, or by *)
(* the page the repo's), unless the share is between its two saves or the  *)
(* process stopped there.  A share answered 500 is not an exception: its   *)
(* second save failed because another share had made the metadata.         *)
(***************************************************************************)
MembersHaveMetadata ==
    \A m \in members :
        \/ m[1] \in meta \/ m[2] \in meta \/ m \in torn
        \/ \E r \in Requests : pc[r] \in {"meta", "saveMeta"} /\ m \in Pairs(ctx[r])
=============================================================================
