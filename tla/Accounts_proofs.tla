--------------------------- MODULE Accounts_proofs ---------------------------
(***************************************************************************)
(* What holds of accounts, repos and memberships for every set of users,   *)
(* names, repos and tokens and every number of overlapping requests.       *)
(***************************************************************************)
EXTENDS Accounts, FiniteSetTheorems, TLAPS

Signups == {"signup", "signupPage"}
Shares == {"share", "sharePage"}
OfRepo == {"rename", "delete", "share", "sharePage", "unshare"}

(***************************************************************************)
(* What is true of a handler at step s with context c.  What it was asked  *)
(* about exists, or did (Known).  What it has read and cannot change since *)
(* still holds (HasRead), and as long as nobody else saved, so does the    *)
(* rest (Unchanged).                                                       *)
(***************************************************************************)
Placed(s, c) ==
    /\ s = "second" => c.kind \in OfRepo \ {"rename"}
    /\ s \in {"meta", "saveMeta"} => c.kind = "share"

Known(c) ==
    /\ c.kind \in Signups \cup Shares \cup {"login"} => c.name \in Names
    /\ c.kind = "refresh" => c.token \in Tokens /\ tokens[c.token] # None
    /\ c.kind \in OfRepo \cup {"create"} => c.user \in Users /\ users[c.user] # None
    /\ c.kind \in OfRepo => c.repo \in Repos \ unused

HasRead(s, c) ==
    /\ s = "save" /\ c.kind \in {"login", "refresh"} => c.user \in Users
    /\ s # "read" /\ c.kind \in OfRepo /\ repos[c.repo] # None =>
          /\ repos[c.repo].owner = c.user
          /\ c.kind = "delete" => ~repos[c.repo].default
    /\ s \in {"save", "meta", "saveMeta"} /\ c.kind \in Shares =>
          \E v \in Users : c.left = {v} /\ users[v] # None /\ v # c.user

Unchanged(s, c) ==
    /\ s = "save" /\ c.kind \in Signups => NameFree(c.name)
    /\ s \in {"second", "save"} /\ c.kind \in OfRepo => repos[c.repo] # None
    /\ s = "save" /\ c.kind \in {"delete", "unshare"} => c.left \subseteq MembersOf(c.repo)
    /\ s = "save" /\ c.kind \in Shares => c.left \cap MembersOf(c.repo) = {}
    /\ s = "saveMeta" => c.left \cap meta = {}

Explained(c) == c.status = 500 => c.disturbed \/ (c.kind = "sharePage" /\ c.repo \in meta)

Sound(s, c) ==
    /\ s \notin {"idle", "done"} =>
          Placed(s, c) /\ Known(c) /\ HasRead(s, c) /\ (~c.disturbed => Unchanged(s, c))
    /\ s = "done" => Explained(c)

\* An id that was not given out yet is nobody's.
Allocated == \A p \in unused : repos[p] = None

\* A token that was exchanged is there, and revoked.
Revocation ==
    \A t \in Tokens : tokens[t] # None /\ tokens[t].from # None =>
        tokens[tokens[t].from] # None /\ tokens[tokens[t].from].revoked

\* Requests that have counted the repos of u, and that have found t active.
Creating(u) == {r \in Requests : pc[r] = "save" /\ ctx[r].kind = "create" /\ ctx[r].user = u}
Exchanging(t) == {r \in Requests : pc[r] = "save" /\ ctx[r].kind = "refresh" /\ ctx[r].token = t}

Limited ==
    \A u \in Users :
        Cardinality(Custom(u)) + Cardinality(Creating(u)) < MaxRepos + Cardinality(Requests)

Rotated ==
    \A t \in Tokens :
        Cardinality(Successors(t)) + Cardinality(Exchanging(t)) <= Cardinality(Requests)

\* The inductive invariant.
IInv ==
    /\ TypeOK
    /\ Allocated
    /\ AccountsAreWhole
    /\ MembershipsAreSound
    /\ MembersHaveMetadata
    /\ Revocation
    /\ Limited
    /\ Rotated
    /\ \A r \in Requests : Sound(pc[r], ctx[r])

-----------------------------------------------------------------------------
\* Contexts of requests that are over.
LEMMA RepliedContext ==
    ASSUME NEW c \in Context, NEW code \in Statuses
    PROVE  /\ Idle \in Context
           /\ Replied(c, code) \in Context
           /\ Replied(c, code).status = code
           /\ code = 500 => /\ Replied(c, code).disturbed = c.disturbed
                            /\ Replied(c, code).kind = c.kind
                            /\ Replied(c, code).repo = c.repo
<1>1. Idle \in Context
  BY DEF Idle, Context, Kinds, Statuses
<1>2. CASE code = 500
  <2>1. c.kind \in Kinds /\ c.repo \in Repos \cup {None} /\ c.disturbed \in BOOLEAN
    BY DEF Context
  <2>2. \A d \in Context : [d EXCEPT !.status = code, !.kind = c.kind, !.repo = c.repo,
                                      !.disturbed = c.disturbed] \in Context
    BY <2>1 DEF Context
  <2>3. Replied(c, code) \in Context
    <3>1. PICK i \in Context : i = Idle
      BY <1>1
    <3>2. Replied(c, code) = [i EXCEPT !.status = code, !.kind = c.kind, !.repo = c.repo,
                                       !.disturbed = c.disturbed]
      BY <1>2, <3>1 DEF Replied
    <3>3. QED
      BY <2>2, <3>2
  <2>4. \A d \in Context :
          LET e == [d EXCEPT !.status = code, !.kind = c.kind, !.repo = c.repo,
                             !.disturbed = c.disturbed]
          IN e.status = code /\ e.kind = c.kind /\ e.repo = c.repo
    BY <2>1 DEF Context
  <2>5. \A d \in Context :
          [d EXCEPT !.status = code, !.kind = c.kind, !.repo = c.repo,
                    !.disturbed = c.disturbed].disturbed = c.disturbed
    BY <2>1 DEF Context
  <2>6. QED
    BY <1>1, <1>2, <2>3, <2>4, <2>5 DEF Replied
<1>3. CASE code # 500
  <2>1. Replied(c, code) = [Idle EXCEPT !.status = code]
    BY <1>3 DEF Replied
  <2>2. QED
    BY <1>1, <1>3, <2>1 DEF Context
<1>4. QED
  BY <1>1, <1>2, <1>3

\* Subsets of the requests, and what they count.
LEMMA Slots ==
    /\ Cardinality(Requests) \in Nat
    /\ \A S \in SUBSET Requests :
          /\ IsFiniteSet(S) /\ Cardinality(S) \in Nat
          /\ Cardinality(S) <= Cardinality(Requests)
          /\ \A T \in SUBSET S : Cardinality(T) \in Nat /\ Cardinality(T) <= Cardinality(S)
<1>1. IsFiniteSet(Requests)
  BY FiniteAssumption
<1>2. ASSUME NEW S \in SUBSET Requests
      PROVE IsFiniteSet(S) /\ Cardinality(S) <= Cardinality(Requests)
  BY <1>1, FS_Subset
<1>3. ASSUME NEW S \in SUBSET Requests, NEW T \in SUBSET S
      PROVE IsFiniteSet(T) /\ Cardinality(T) <= Cardinality(S)
  BY <1>2, FS_Subset
<1>4. QED
  BY <1>1, <1>2, <1>3, FS_CardinalityType

LEMMA Tables ==
    /\ \A u \in Users : IsFiniteSet(Custom(u)) /\ Cardinality(Custom(u)) \in Nat
    /\ \A t \in Tokens : IsFiniteSet(Successors(t)) /\ Cardinality(Successors(t)) \in Nat
<1>1. \A u \in Users : Custom(u) \in SUBSET Repos
  BY DEF Custom
<1>2. \A t \in Tokens : Successors(t) \in SUBSET Tokens
  BY DEF Successors
<1>3. QED
  BY <1>1, <1>2, FiniteAssumption, FS_Subset, FS_CardinalityType

-----------------------------------------------------------------------------
\* A move of one handler that leaves the tables alone keeps the invariant if it goes somewhere
\* sound, has counted what it must, and does not leave a share half done unnoticed.
Moving(r, s, c) ==
    /\ pc' = [pc EXCEPT ![r] = s]
    /\ ctx' = [ctx EXCEPT ![r] = c]
    /\ UNCHANGED db /\ UNCHANGED <<unused, mix>>

LEMMA MovingCounts ==
    ASSUME IInv, NEW r \in Requests, NEW s \in Steps, NEW c \in Context, Moving(r, s, c),
           s = "save" /\ c.kind = "create" => ~Full(c.user),
           s = "save" /\ c.kind = "refresh" => Active(c.token)
    PROVE  Limited' /\ Rotated'
<1> USE Slots, Tables
<1>1. /\ \A u \in Users : Custom(u)' = Custom(u)
      /\ \A t \in Tokens : Successors(t)' = Successors(t)
  BY DEF Moving, db, Custom, Successors
<1>2. \A q \in Requests \ {r} : pc'[q] = pc[q] /\ ctx'[q] = ctx[q]
  BY DEF Moving, IInv, TypeOK
<1>3. pc'[r] = s /\ ctx'[r] = c
  BY DEF Moving, IInv, TypeOK
<1>4. ASSUME NEW u \in Users
      PROVE  Cardinality(Custom(u)') + Cardinality(Creating(u)') < MaxRepos + Cardinality(Requests)
  <2>1. Creating(u)' \in SUBSET Requests /\ Creating(u) \in SUBSET Requests
    BY DEF Creating
  <2>2. CASE r \in Creating(u)'
    <3>1. ~Full(u)
      BY <2>2, <1>3 DEF Creating
    <3>2. QED
      BY <3>1, <2>1, <1>1, MaxReposAssumption DEF Full
  <2>3. CASE r \notin Creating(u)'
    <3>1. Creating(u)' \in SUBSET Creating(u)
      BY <2>3, <1>2 DEF Creating
    <3>2. Cardinality(Creating(u)') <= Cardinality(Creating(u))
      BY <3>1, <2>1
    <3>3. QED
      BY <3>2, <2>1, <1>1, MaxReposAssumption DEF IInv, Limited
  <2>4. QED
    BY <2>2, <2>3
<1>5. ASSUME NEW t \in Tokens
      PROVE  Cardinality(Successors(t)') + Cardinality(Exchanging(t)') <= Cardinality(Requests)
  <2>1. Exchanging(t)' \in SUBSET Requests /\ Exchanging(t) \in SUBSET Requests
    BY DEF Exchanging
  <2>2. CASE r \in Exchanging(t)'
    <3>1. Active(t)
      BY <2>2, <1>3 DEF Exchanging
    <3>2. Successors(t) = {}
      BY <3>1, NoneAssumption DEF Active, Successors, IInv, Revocation
    <3>3. Cardinality(Successors(t)) = 0
      BY <3>2, FS_EmptySet
    <3>4. QED
      BY <3>3, <2>1, <1>1
  <2>3. CASE r \notin Exchanging(t)'
    <3>1. Exchanging(t)' \in SUBSET Exchanging(t)
      BY <2>3, <1>2 DEF Exchanging
    <3>2. Cardinality(Exchanging(t)') <= Cardinality(Exchanging(t))
      BY <3>1, <2>1
    <3>3. QED
      BY <3>2, <2>1, <1>1 DEF IInv, Rotated
  <2>4. QED
    BY <2>2, <2>3
<1>6. QED
  BY <1>4, <1>5 DEF Limited, Rotated

LEMMA MovingKeeps ==
    ASSUME IInv, NEW r \in Requests, NEW s \in Steps, NEW c \in Context, Moving(r, s, c),
           torn' \subseteq Repos \X Users, torn \subseteq torn',
           Sound(s, c),
           s = "save" /\ c.kind = "create" => ~Full(c.user),
           s = "save" /\ c.kind = "refresh" => Active(c.token),
           pc[r] \in {"meta", "saveMeta"} =>
               \/ s = "saveMeta" /\ c = ctx[r]
               \/ \A m \in Pairs(ctx[r]) : m[2] \in meta \/ m \in torn'
    PROVE  IInv'
<1>1. \A q \in Requests \ {r} : pc'[q] = pc[q] /\ ctx'[q] = ctx[q]
  BY DEF Moving, IInv, TypeOK
<1>2. pc'[r] = s /\ ctx'[r] = c
  BY DEF Moving, IInv, TypeOK
<1>3. TypeOK'
  BY DEF Moving, IInv, TypeOK, db
<1>4. Allocated' /\ AccountsAreWhole' /\ MembershipsAreSound' /\ Revocation'
  BY DEF Moving, IInv, db, Allocated, AccountsAreWhole, DefaultsOf, Owns, MembershipsAreSound,
         Revocation
<1>5. MembersHaveMetadata'
  <2> SUFFICES ASSUME NEW m \in members'
               PROVE  \/ m[1] \in meta' \/ m[2] \in meta' \/ m \in torn'
                      \/ \E q \in Requests :
                            pc'[q] \in {"meta", "saveMeta"} /\ m \in Pairs(ctx'[q])
    BY DEF MembersHaveMetadata, Pairs
  <2>1. m \in members /\ meta' = meta
    BY DEF Moving, db
  <2>2. ASSUME NEW q \in Requests, pc[q] \in {"meta", "saveMeta"}, m \in Pairs(ctx[q])
        PROVE  \/ m[2] \in meta \/ m \in torn'
               \/ pc'[q] \in {"meta", "saveMeta"} /\ m \in Pairs(ctx'[q])
    <3>1. CASE q = r
      <4>1. CASE s = "saveMeta" /\ c = ctx[r]
        <5>1. ctx'[q] = ctx[q] /\ pc'[q] = "saveMeta"
          BY <3>1, <4>1, <1>2
        <5>2. QED
          BY <2>2, <5>1
      <4>2. CASE \A n \in Pairs(ctx[r]) : n[2] \in meta \/ n \in torn'
        BY <2>2, <3>1, <4>2
      <4>3. QED
        BY <2>2, <3>1, <4>1, <4>2
    <3>2. CASE q # r
      BY <2>2, <3>2, <1>1 DEF Pairs
    <3>3. QED
      BY <3>1, <3>2
  <2>3. QED
    BY <2>1, <2>2 DEF IInv, MembersHaveMetadata
<1>6. \A q \in Requests : Sound(pc'[q], ctx'[q])
  BY <1>1, <1>2 DEF IInv
<1>7. \A q \in Requests : Sound(pc[q], ctx[q])'
  BY <1>6 DEF Moving, db, Sound, Placed, Known, HasRead, Unchanged, Explained, NameFree, MembersOf
<1>8. QED
  BY <1>3, <1>4, <1>5, <1>7, MovingCounts DEF IInv

LEMMA GotoKeeps ==
    ASSUME IInv, NEW r \in Requests, NEW s \in Steps, NEW c \in Context,
           Goto(r, s, c), UNCHANGED mix, pc[r] \notin {"meta", "saveMeta"},
           Sound(s, c),
           s = "save" /\ c.kind = "create" => ~Full(c.user),
           s = "save" /\ c.kind = "refresh" => Active(c.token)
    PROVE  IInv'
<1>1. Moving(r, s, c) /\ torn' = torn
  BY DEF Goto, Moving, history
<1>2. torn' \subseteq Repos \X Users
  BY <1>1 DEF IInv, TypeOK
<1>3. QED
  BY <1>1, <1>2, MovingKeeps

LEMMA AnswerKeeps ==
    ASSUME IInv, NEW r \in Requests, NEW code \in Statuses \ {500}, Answer(r, code),
           UNCHANGED mix, pc[r] \notin {"meta", "saveMeta"}
    PROVE  IInv'
<1>1. ctx[r] \in Context
  BY DEF IInv, TypeOK
<1>2. Replied(ctx[r], code) \in Context /\ Replied(ctx[r], code).status # 500
  BY <1>1, RepliedContext
<1>3. Sound("done", Replied(ctx[r], code))
  BY <1>2 DEF Sound, Explained
<1>4. QED
  BY <1>2, <1>3, GotoKeeps DEF Answer, Steps

-----------------------------------------------------------------------------
\* Requests arrive.
LEMMA IdleContext == Idle \in Context
BY DEF Idle, Context, Kinds, Statuses

LEMMA ReceiveKeeps ==
    ASSUME IInv, NEW r \in Requests, NEW c \in Context, Receive(r, c), UNCHANGED mix, Known(c)
    PROVE  IInv'
<1>1. Sound("read", c)
  BY DEF Sound, Placed, HasRead, Unchanged
<1>2. QED
  BY <1>1, GotoKeeps DEF Receive, Steps

LEMMA ReceiveNameKeeps ==
    ASSUME IInv, NEW r \in Requests, ReceiveName(r), UNCHANGED mix PROVE IInv'
<1>1. PICK k \in {"signup", "signupPage", "login"}, n \in Names :
          Receive(r, [Idle EXCEPT !.kind = k, !.name = n])
  BY DEF ReceiveName
<1>2. [Idle EXCEPT !.kind = k, !.name = n] \in Context
  <2>1. k \in Kinds
    BY DEF Kinds
  <2>2. \A d \in Context : [d EXCEPT !.kind = k, !.name = n] \in Context
    BY <2>1 DEF Context
  <2>3. QED
    BY <2>2, IdleContext
<1>3. Known([Idle EXCEPT !.kind = k, !.name = n])
  BY DEF Known, Idle, Signups, Shares, OfRepo
<1>4. QED
  BY <1>1, <1>2, <1>3, ReceiveKeeps

LEMMA ReceiveRefreshKeeps ==
    ASSUME IInv, NEW r \in Requests, ReceiveRefresh(r), UNCHANGED mix PROVE IInv'
<1>1. PICK t \in Tokens :
          tokens[t] # None /\ Receive(r, [Idle EXCEPT !.kind = "refresh", !.token = t])
  BY DEF ReceiveRefresh
<1>2. [Idle EXCEPT !.kind = "refresh", !.token = t] \in Context
  <2>1. "refresh" \in Kinds
    BY DEF Kinds
  <2>2. \A d \in Context : [d EXCEPT !.kind = "refresh", !.token = t] \in Context
    BY <2>1 DEF Context
  <2>3. QED
    BY <2>2, IdleContext
<1>3. Known([Idle EXCEPT !.kind = "refresh", !.token = t])
  BY <1>1 DEF Known, Idle, Signups, Shares, OfRepo
<1>4. QED
  BY <1>1, <1>2, <1>3, ReceiveKeeps

LEMMA ReceiveCreateKeeps ==
    ASSUME IInv, NEW r \in Requests, ReceiveCreate(r), UNCHANGED mix PROVE IInv'
<1>1. PICK u \in Users :
          users[u] # None /\ Receive(r, [Idle EXCEPT !.kind = "create", !.user = u])
  BY DEF ReceiveCreate
<1>2. [Idle EXCEPT !.kind = "create", !.user = u] \in Context
  <2>1. "create" \in Kinds
    BY DEF Kinds
  <2>2. \A d \in Context : [d EXCEPT !.kind = "create", !.user = u] \in Context
    BY <2>1 DEF Context
  <2>3. QED
    BY <2>2, IdleContext
<1>3. Known([Idle EXCEPT !.kind = "create", !.user = u])
  BY <1>1 DEF Known, Idle, Signups, Shares, OfRepo
<1>4. QED
  BY <1>1, <1>2, <1>3, ReceiveKeeps

LEMMA ReceiveRepoKeeps ==
    ASSUME IInv, NEW r \in Requests, ReceiveRepo(r), UNCHANGED mix PROVE IInv'
<1>1. PICK k \in {"rename", "delete"}, u \in Users, p \in Repos \ unused :
          users[u] # None /\ Receive(r, [Idle EXCEPT !.kind = k, !.user = u, !.repo = p])
  BY DEF ReceiveRepo
<1>2. [Idle EXCEPT !.kind = k, !.user = u, !.repo = p] \in Context
  <2>1. k \in Kinds
    BY DEF Kinds
  <2>2. \A d \in Context : [d EXCEPT !.kind = k, !.user = u, !.repo = p] \in Context
    BY <2>1 DEF Context
  <2>3. QED
    BY <2>2, IdleContext
<1>3. Known([Idle EXCEPT !.kind = k, !.user = u, !.repo = p])
  BY <1>1 DEF Known, Idle, Signups, Shares, OfRepo
<1>4. QED
  BY <1>1, <1>2, <1>3, ReceiveKeeps

LEMMA ReceiveShareKeeps ==
    ASSUME IInv, NEW r \in Requests, ReceiveShare(r), UNCHANGED mix PROVE IInv'
<1>1. PICK k \in {"share", "sharePage"}, u \in Users, p \in Repos \ unused, n \in Names :
          /\ users[u] # None
          /\ Receive(r, [Idle EXCEPT !.kind = k, !.user = u, !.repo = p, !.name = n])
  BY DEF ReceiveShare
<1>2. [Idle EXCEPT !.kind = k, !.user = u, !.repo = p, !.name = n] \in Context
  <2>1. k \in Kinds
    BY DEF Kinds
  <2>2. \A d \in Context : [d EXCEPT !.kind = k, !.user = u, !.repo = p, !.name = n] \in Context
    BY <2>1 DEF Context
  <2>3. QED
    BY <2>2, IdleContext
<1>3. Known([Idle EXCEPT !.kind = k, !.user = u, !.repo = p, !.name = n])
  BY <1>1 DEF Known, Idle, Signups, Shares, OfRepo
<1>4. QED
  BY <1>1, <1>2, <1>3, ReceiveKeeps

LEMMA ReceiveUnshareKeeps ==
    ASSUME IInv, NEW r \in Requests, ReceiveUnshare(r), UNCHANGED mix PROVE IInv'
<1>1. PICK u \in Users, v \in Users, p \in Repos \ unused :
          /\ users[u] # None
          /\ Receive(r, [Idle EXCEPT !.kind = "unshare", !.user = u, !.repo = p, !.left = {v}])
  BY DEF ReceiveUnshare
<1>2. [Idle EXCEPT !.kind = "unshare", !.user = u, !.repo = p, !.left = {v}] \in Context
  <2>1. "unshare" \in Kinds
    BY DEF Kinds
  <2>2. \A d \in Context : [d EXCEPT !.kind = "unshare", !.user = u, !.repo = p, !.left = {v}] \in Context
    BY <2>1 DEF Context
  <2>3. QED
    BY <2>2, IdleContext
<1>3. Known([Idle EXCEPT !.kind = "unshare", !.user = u, !.repo = p, !.left = {v}])
  BY <1>1 DEF Known, Idle, Signups, Shares, OfRepo
<1>4. QED
  BY <1>1, <1>2, <1>3, ReceiveKeeps

-----------------------------------------------------------------------------
\* The reads.
LEMMA CheckNameKeeps ==
    ASSUME IInv, NEW r \in Requests, CheckName(r), UNCHANGED mix PROVE IInv'
<1> USE DEF CheckName, At
<1>1. CASE Answer(r, 409)
  BY <1>1, AnswerKeeps DEF Statuses
<1>2. CASE (\A u \in Users : users[u] # ctx[r].name) /\ Goto(r, "save", ctx[r])
  <2>1. ctx[r] \in Context /\ Known(ctx[r])
    BY DEF IInv, TypeOK, Sound
  <2>2. Sound("save", ctx[r])
    BY <2>1, <1>2 DEF Sound, Placed, HasRead, Unchanged, NameFree, Signups, Shares, OfRepo
  <2>3. QED
    BY <2>1, <2>2, <1>2, GotoKeeps DEF Steps
<1>3. QED
  BY <1>1, <1>2

LEMMA FindUserKeeps ==
    ASSUME IInv, NEW r \in Requests, FindUser(r), UNCHANGED mix PROVE IInv'
<1> USE DEF FindUser, At
<1>1. CASE Answer(r, 401)
  BY <1>1, AnswerKeeps DEF Statuses
<1>2. ASSUME NEW u \in Users, Goto(r, "save", [ctx[r] EXCEPT !.user = u]) PROVE IInv'
  <2> DEFINE c == [ctx[r] EXCEPT !.user = u]
  <2>1. ctx[r] \in Context /\ Known(ctx[r]) /\ ctx[r].kind = "login"
    BY DEF IInv, TypeOK, Sound
  <2>2. c \in Context /\ c.kind = "login" /\ c.user = u /\ c.name = ctx[r].name
    BY <2>1 DEF Context
  <2>3. Known(c)
    BY <2>1, <2>2 DEF Known, Signups, Shares, OfRepo
  <2>4. Sound("save", c)
    BY <2>2, <2>3 DEF Sound, Placed, HasRead, Unchanged, Signups, Shares, OfRepo
  <2>5. QED
    BY <2>2, <2>4, <1>2, GotoKeeps DEF Steps
<1>3. QED
  BY <1>1, <1>2

LEMMA FindTokenKeeps ==
    ASSUME IInv, NEW r \in Requests, FindToken(r), UNCHANGED mix PROVE IInv'
<1> USE DEF FindToken, At
<1> DEFINE t == ctx[r].token
<1>1. CASE Answer(r, 401)
  BY <1>1, AnswerKeeps DEF Statuses
<1>2. CASE Active(t) /\ Goto(r, "save", [ctx[r] EXCEPT !.user = tokens[t].user])
  <2> DEFINE c == [ctx[r] EXCEPT !.user = tokens[t].user]
  <2>1. ctx[r] \in Context /\ Known(ctx[r]) /\ ctx[r].kind = "refresh"
    BY DEF IInv, TypeOK, Sound
  <2>2. t \in Tokens /\ tokens[t] # None
    BY <2>1 DEF Known
  <2>3. tokens[t].user \in Users
    BY <2>2 DEF IInv, TypeOK, TokenRow
  <2>4. /\ c \in Context /\ c.kind = "refresh" /\ c.token = t
        /\ c.user = tokens[t].user
    BY <2>1, <2>3 DEF Context
  <2>5. Known(c)
    BY <2>2, <2>4 DEF Known, Signups, Shares, OfRepo
  <2>6. Sound("save", c)
    BY <2>3, <2>4, <2>5 DEF Sound, Placed, HasRead, Unchanged, Signups, Shares, OfRepo
  <2>7. QED
    BY <2>4, <2>6, <1>2, GotoKeeps DEF Steps
<1>3. QED
  BY <1>1, <1>2

LEMMA CountReposKeeps ==
    ASSUME IInv, NEW r \in Requests, CountRepos(r), UNCHANGED mix PROVE IInv'
<1> USE DEF CountRepos, At
<1>1. CASE Answer(r, 400)
  BY <1>1, AnswerKeeps DEF Statuses
<1>2. CASE ~Full(ctx[r].user) /\ Goto(r, "save", ctx[r])
  <2>1. ctx[r] \in Context /\ Known(ctx[r]) /\ ctx[r].kind = "create"
    BY DEF IInv, TypeOK, Sound
  <2>2. Sound("save", ctx[r])
    BY <2>1 DEF Sound, Placed, HasRead, Unchanged, Signups, Shares, OfRepo
  <2>3. QED
    BY <2>1, <2>2, <1>2, GotoKeeps DEF Steps
<1>3. QED
  BY <1>1, <1>2

LEMMA FindRepoKeeps ==
    ASSUME IInv, NEW r \in Requests, FindRepo(r), UNCHANGED mix PROVE IInv'
<1> USE DEF FindRepo, At
<1> DEFINE c == ctx[r]
           s == IF c.kind = "rename" THEN "save" ELSE "second"
<1>1. CASE Answer(r, 404) \/ Answer(r, 400)
  BY <1>1, AnswerKeeps DEF Statuses
<1>2. CASE Owns(c.user, c.repo) /\ ~(c.kind = "delete" /\ repos[c.repo].default) /\ Goto(r, s, c)
  <2>1. c \in Context /\ Known(c) /\ c.kind \in OfRepo
    BY DEF IInv, TypeOK, Sound, OfRepo
  <2>2. Sound(s, c)
    BY <2>1, <1>2 DEF Sound, Placed, HasRead, Unchanged, Signups, Shares, OfRepo, Owns
  <2>3. s \in Steps /\ c.kind \notin {"create", "refresh"}
    BY <2>1 DEF Steps, OfRepo
  <2>4. QED
    BY <2>1, <2>2, <2>3, <1>2, GotoKeeps
<1>3. QED
  BY <1>1, <1>2

LEMMA ReadMembersKeeps ==
    ASSUME IInv, NEW r \in Requests, ReadMembers(r), UNCHANGED mix PROVE IInv'
<1> DEFINE c == [ctx[r] EXCEPT !.left = MembersOf(ctx[r].repo)]
<1>1. /\ pc[r] = "second" /\ ctx[r].kind = "delete"
      /\ Goto(r, "save", c)
  BY DEF ReadMembers, At
<1>2. ctx[r] \in Context /\ Sound("second", ctx[r])
  BY <1>1 DEF IInv, TypeOK
<1>3. MembersOf(ctx[r].repo) \in SUBSET Users
  BY DEF MembersOf
<1>4. /\ c \in Context /\ c.kind = "delete" /\ c.left = MembersOf(ctx[r].repo)
      /\ c.user = ctx[r].user /\ c.repo = ctx[r].repo /\ c.name = ctx[r].name
  BY <1>1, <1>2, <1>3 DEF Context
<1>5. c.disturbed = ctx[r].disturbed
  BY <1>2, <1>3 DEF Context
<1>6. Known(c) /\ HasRead("save", c) /\ Placed("save", c)
  BY <1>1, <1>2, <1>4 DEF Sound, Known, HasRead, Placed, Signups, Shares, OfRepo
<1>7. ~c.disturbed => Unchanged("save", c)
  BY <1>1, <1>2, <1>4, <1>5 DEF Sound, Unchanged, Signups, Shares, OfRepo
<1>8. QED
  BY <1>1, <1>4, <1>6, <1>7, GotoKeeps DEF Sound, Steps

LEMMA FindTargetKeeps ==
    ASSUME IInv, NEW r \in Requests, FindTarget(r), UNCHANGED mix PROVE IInv'
<1>1. pc[r] = "second" /\ ctx[r].kind \in Shares
  BY DEF FindTarget, At, Shares
<1>2. CASE \E code \in {400, 404, 409} : Answer(r, code)
  BY <1>1, <1>2, AnswerKeeps DEF Statuses
<1>3. ASSUME NEW v \in Users, users[v] = ctx[r].name, Shareable(ctx[r], v),
             Goto(r, "save", [ctx[r] EXCEPT !.left = {v}])
      PROVE  IInv'
  <2> DEFINE c == [ctx[r] EXCEPT !.left = {v}]
  <2>1. ctx[r] \in Context /\ Sound("second", ctx[r])
    BY <1>1 DEF IInv, TypeOK
  <2>2. /\ c \in Context /\ c.kind = ctx[r].kind /\ c.left = {v}
        /\ c.user = ctx[r].user /\ c.repo = ctx[r].repo /\ c.name = ctx[r].name
    BY <1>1, <2>1 DEF Context
  <2>3. c.disturbed = ctx[r].disturbed
    BY <2>1 DEF Context
  <2>4. ctx[r].name \in Names
    BY <1>1, <2>1 DEF Sound, Known
  <2>5. users[v] # None
    BY <1>3, <2>4, NoneAssumption
  <2>6. v # ctx[r].user /\ v \notin MembersOf(ctx[r].repo)
    BY <1>3 DEF Shareable
  <2>7. Known(c) /\ Placed("save", c)
    BY <1>1, <2>1, <2>2 DEF Sound, Known, Placed
  <2>8. HasRead("save", c)
    BY <1>1, <2>1, <2>2, <2>5, <2>6 DEF Sound, HasRead, Shares, OfRepo
  <2>9. ~c.disturbed => Unchanged("save", c)
    BY <1>1, <2>1, <2>2, <2>3, <2>6 DEF Sound, Unchanged, Signups, Shares, OfRepo
  <2>10. QED
    BY <1>1, <1>3, <2>2, <2>7, <2>8, <2>9, GotoKeeps DEF Sound, Steps, Shares
<1>4. \/ \E v \in Users : /\ users[v] = ctx[r].name /\ Shareable(ctx[r], v)
                           /\ Goto(r, "save", [ctx[r] EXCEPT !.left = {v}])
      \/ Answer(r, 400) \/ Answer(r, 404) \/ Answer(r, 409)
  BY DEF FindTarget
<1>5. CASE Answer(r, 400) \/ Answer(r, 404) \/ Answer(r, 409)
  BY <1>2, <1>5
<1>6. CASE \E v \in Users : /\ users[v] = ctx[r].name /\ Shareable(ctx[r], v)
                             /\ Goto(r, "save", [ctx[r] EXCEPT !.left = {v}])
  <2>1. PICK v \in Users : /\ users[v] = ctx[r].name /\ Shareable(ctx[r], v)
                           /\ Goto(r, "save", [ctx[r] EXCEPT !.left = {v}])
    BY <1>6
  <2>2. QED
    BY <1>3, <2>1
<1>7. QED
  BY <1>4, <1>5, <1>6

LEMMA FindMembershipKeeps ==
    ASSUME IInv, NEW r \in Requests, FindMembership(r), UNCHANGED mix PROVE IInv'
<1> USE DEF FindMembership, At
<1>1. CASE Answer(r, 404)
  BY <1>1, AnswerKeeps DEF Statuses
<1>2. CASE ctx[r].left \subseteq MembersOf(ctx[r].repo) /\ Goto(r, "save", ctx[r])
  <2>1. ctx[r] \in Context /\ Sound("second", ctx[r]) /\ ctx[r].kind = "unshare"
    BY DEF IInv, TypeOK
  <2>2. Sound("save", ctx[r])
    BY <1>2, <2>1 DEF Sound, Placed, HasRead, Unchanged, Signups, Shares, OfRepo
  <2>3. QED
    BY <1>2, <2>1, <2>2, GotoKeeps DEF Steps
<1>3. QED
  BY <1>1, <1>2

LEMMA ReadMetaKeeps ==
    ASSUME IInv, NEW r \in Requests, ReadMeta(r), UNCHANGED mix PROVE IInv'
<1>1. pc[r] = "meta" /\ ctx[r].kind = "share"
  BY DEF ReadMeta, At
<1>2. ctx[r] \in Context /\ Sound("meta", ctx[r])
  BY <1>1 DEF IInv, TypeOK
<1>3. torn' = torn /\ torn \subseteq Repos \X Users
  BY DEF ReadMeta, Goto, history, IInv, TypeOK
<1>4. CASE ctx[r].left \cap meta = {}
  <2>1. Moving(r, "saveMeta", ctx[r])
    BY <1>4 DEF ReadMeta, AfterShare, Goto, Moving, history
  <2>2. Sound("saveMeta", ctx[r])
    BY <1>1, <1>2, <1>4 DEF Sound, Placed, HasRead, Unchanged, Signups, Shares, OfRepo
  <2>3. QED
    BY <1>2, <1>3, <2>1, <2>2, MovingKeeps DEF Steps
<1>5. CASE ctx[r].left \cap meta # {}
  <2>1. Moving(r, "done", Replied(ctx[r], 200))
    BY <1>5 DEF ReadMeta, AfterShare, Goto, Moving, history
  <2>2. Replied(ctx[r], 200) \in Context /\ Replied(ctx[r], 200).status = 200
    BY <1>2, RepliedContext DEF Statuses
  <2>3. Sound("done", Replied(ctx[r], 200))
    BY <2>2 DEF Sound, Explained
  <2>4. PICK v \in Users : ctx[r].left = {v}
    BY <1>1, <1>2 DEF Sound, HasRead, Shares
  <2>5. \A m \in Pairs(ctx[r]) : m[2] \in meta
    BY <1>5, <2>4 DEF Pairs
  <2>6. QED
    BY <1>3, <2>1, <2>2, <2>3, <2>5, MovingKeeps DEF Steps
<1>6. QED
  BY <1>4, <1>5

-----------------------------------------------------------------------------
\* A save that is refused has its reason.
LEMMA SaveFailsKeeps ==
    ASSUME IInv, NEW r \in Requests, SaveFails(r), UNCHANGED mix PROVE IInv'
<1> DEFINE c == ctx[r]
<1>1. c \in Context /\ Sound(pc[r], c)
  BY DEF IInv, TypeOK
<1>2. torn' = torn /\ torn \subseteq Repos \X Users /\ Moving(r, "done", Replied(c, 500))
  BY DEF SaveFails, Answer, Goto, Moving, history, IInv, TypeOK
<1>3. /\ Replied(c, 500) \in Context
      /\ Replied(c, 500).disturbed = c.disturbed
      /\ Replied(c, 500).kind = c.kind /\ Replied(c, 500).repo = c.repo
  BY <1>1, RepliedContext DEF Statuses
<1>4. c.disturbed \/ (c.kind = "sharePage" /\ c.repo \in meta)
  <2>1. CASE c.disturbed
    BY <2>1
  <2>2. CASE pc[r] = "save" /\ ~CanSave(c) /\ ~c.disturbed
    <3>1. Unchanged("save", c)
      BY <1>1, <2>2 DEF Sound
    <3>2. QED
      BY <2>2, <3>1 DEF Unchanged, CanSave, PairFree, Signups, Shares, OfRepo
  <2>3. CASE pc[r] = "saveMeta" /\ c.left \cap meta # {} /\ ~c.disturbed
    BY <1>1, <2>3 DEF Sound, Unchanged
  <2>4. QED
    BY <2>1, <2>2, <2>3 DEF SaveFails, Replaced
<1>5. Sound("done", Replied(c, 500))
  BY <1>3, <1>4 DEF Sound, Explained
<1>6. pc[r] = "saveMeta" => \A m \in Pairs(c) : m[2] \in meta
  <2> SUFFICES ASSUME pc[r] = "saveMeta" PROVE \A m \in Pairs(c) : m[2] \in meta
    OBVIOUS
  <2>1. PICK v \in Users : c.left = {v}
    BY <1>1 DEF Sound, Placed, HasRead, Shares
  <2>2. c.left \cap meta # {}
    BY DEF SaveFails
  <2>3. QED
    BY <2>1, <2>2 DEF Pairs
<1>7. pc[r] # "meta"
  BY DEF SaveFails
<1>8. QED
  BY <1>2, <1>3, <1>5, <1>6, <1>7, MovingKeeps DEF Steps

LEMMA EndKeeps ==
    ASSUME IInv, NEW r \in Requests, Respond(r) \/ Abort(r), UNCHANGED mix PROVE IInv'
<1>1. Idle \in Context /\ Sound("idle", Idle)
  BY RepliedContext DEF Sound, Statuses, IInv, TypeOK
<1>2. CASE Respond(r)
  BY <1>1, <1>2, GotoKeeps DEF Respond, Steps
<1>3. CASE Abort(r)
  <2>1. Moving(r, "idle", Idle)
    BY <1>3 DEF Abort, Moving
  <2>2. torn \subseteq torn' /\ torn' \subseteq Repos \X Users
    <3>1. CASE pc[r] \in {"meta", "saveMeta"}
      <4>1. ctx[r] \in Context /\ Sound(pc[r], ctx[r])
        BY DEF IInv, TypeOK
      <4>2. ctx[r].repo \in Repos /\ ctx[r].left \in SUBSET Users
        BY <3>1, <4>1 DEF Sound, Placed, Known, OfRepo, Context
      <4>3. torn' = torn \cup Pairs(ctx[r])
        BY <1>3, <3>1 DEF Abort
      <4>4. QED
        BY <4>2, <4>3 DEF Pairs, IInv, TypeOK
    <3>2. CASE pc[r] \notin {"meta", "saveMeta"}
      BY <1>3, <3>2 DEF Abort, IInv, TypeOK
    <3>3. QED
      BY <3>1, <3>2
  <2>3. pc[r] \in {"meta", "saveMeta"} => \A m \in Pairs(ctx[r]) : m \in torn'
    BY <1>3 DEF Abort
  <2>4. QED
    BY <1>1, <2>1, <2>2, <2>3, MovingKeeps DEF Steps
<1>4. QED
  BY <1>2, <1>3

LEMMA ExpireKeeps == ASSUME IInv, Expire, UNCHANGED mix PROVE IInv'
<1>1. PICK t \in Tokens : Active(t) /\ tokens' = [tokens EXCEPT ![t].expired = TRUE]
  BY DEF Expire
<1>2. /\ users' = users /\ repos' = repos /\ members' = members /\ meta' = meta
      /\ pc' = pc /\ ctx' = ctx /\ mix' = mix /\ unused' = unused /\ torn' = torn
  BY DEF Expire, history
<1>3. tokens[t] \in TokenRow
  BY <1>1 DEF Active, IInv, TypeOK
<1>4. [tokens[t] EXCEPT !.expired = TRUE] \in TokenRow
  BY <1>3 DEF TokenRow
<1>5. /\ tokens'[t] # None
      /\ tokens'[t].from = tokens[t].from /\ tokens'[t].revoked = tokens[t].revoked
  BY <1>1, <1>3, <1>4, RowAssumption DEF TokenRow, Active, IInv, TypeOK
<1>6. \A q \in Tokens \ {t} : tokens'[q] = tokens[q]
  BY <1>1 DEF IInv, TypeOK
<1>7. TypeOK'
  BY <1>1, <1>2, <1>4 DEF IInv, TypeOK
<1>8. Revocation'
  BY <1>1, <1>5, <1>6, RowAssumption DEF IInv, TypeOK, Revocation, TokenRow, Active
<1>9. \A q \in Tokens : Successors(q)' = Successors(q)
  BY <1>1, <1>5, <1>6 DEF Successors, Active
<1>10. Limited' /\ Rotated'
  BY <1>2, <1>9 DEF IInv, Limited, Rotated, Custom, Creating, Exchanging
<1>11. /\ Allocated' /\ AccountsAreWhole' /\ MembershipsAreSound' /\ MembersHaveMetadata'
  BY <1>2 DEF IInv, Allocated, AccountsAreWhole, DefaultsOf, Owns, MembershipsAreSound,
              MembersHaveMetadata, Pairs
<1>12. ASSUME NEW r \in Requests PROVE Sound(pc[r], ctx[r])'
  <2>1. \A q \in Tokens : tokens[q] # None => tokens'[q] # None
    BY <1>5, <1>6
  <2>2. Sound(pc[r], ctx[r])
    BY DEF IInv
  <2>3. QED
    BY <1>2, <2>1, <2>2 DEF Sound, Placed, Known, HasRead, Unchanged, Explained, NameFree, MembersOf
<1>13. QED
  BY <1>7, <1>8, <1>10, <1>11, <1>12 DEF IInv

-----------------------------------------------------------------------------
\* What every save leaves to the handlers that are under way: users and tokens stay, repos that
\* were given out change only by being deleted.
Growing ==
    /\ \A u \in Users : users[u] # None => users'[u] = users[u]
    /\ \A p \in Repos \ unused : repos'[p] \in {repos[p], None}
    /\ unused' \subseteq unused
    /\ \A t \in Tokens : tokens[t] # None => tokens'[t] # None
    /\ meta \subseteq meta'

LEMMA SavingContexts ==
    ASSUME IInv, NEW r \in Requests, NEW s \in Steps, NEW c \in Context, Saving(r, s, c)
    PROVE  /\ pc' \in [Requests -> Steps] /\ ctx' \in [Requests -> Context]
           /\ pc'[r] = s /\ ctx'[r] = c
           /\ torn' = torn
           /\ \A q \in Requests \ {r} :
                 /\ pc'[q] = pc[q]
                 /\ pc[q] \in {"idle", "done"} => ctx'[q] = ctx[q]
                 /\ pc[q] \notin {"idle", "done"} =>
                       /\ ctx'[q].disturbed
                       /\ ctx'[q].kind = ctx[q].kind /\ ctx'[q].user = ctx[q].user
                       /\ ctx'[q].name = ctx[q].name /\ ctx'[q].repo = ctx[q].repo
                       /\ ctx'[q].token = ctx[q].token /\ ctx'[q].left = ctx[q].left
<1>1. pc \in [Requests -> Steps] /\ ctx \in [Requests -> Context]
  BY DEF IInv, TypeOK
<1>2. pc' \in [Requests -> Steps] /\ pc'[r] = s /\ \A q \in Requests \ {r} : pc'[q] = pc[q]
  BY <1>1 DEF Saving
<1>3. ctx'[r] = c /\ torn' = torn
  BY <1>1 DEF Saving
<1>4. ASSUME NEW q \in Requests \ {r}
      PROVE  /\ ctx'[q] \in Context
             /\ pc[q] \in {"idle", "done"} => ctx'[q] = ctx[q]
             /\ pc[q] \notin {"idle", "done"} =>
                   /\ ctx'[q].disturbed
                   /\ ctx'[q].kind = ctx[q].kind /\ ctx'[q].user = ctx[q].user
                   /\ ctx'[q].name = ctx[q].name /\ ctx'[q].repo = ctx[q].repo
                   /\ ctx'[q].token = ctx[q].token /\ ctx'[q].left = ctx[q].left
  <2>1. ctx[q] \in Context
    BY <1>1
  <2>2. CASE pc[q] \in {"idle", "done"}
    BY <2>1, <2>2 DEF Saving
  <2>3. CASE pc[q] \notin {"idle", "done"}
    <3>1. ctx'[q] = [ctx[q] EXCEPT !.disturbed = TRUE]
      BY <2>3 DEF Saving
    <3>2. QED
      BY <2>1, <2>3, <3>1 DEF Context
  <2>4. QED
    BY <2>2, <2>3
<1>5. ctx' \in [Requests -> Context]
  BY <1>3, <1>4 DEF Saving
<1>6. QED
  BY <1>2, <1>3, <1>4, <1>5

LEMMA OthersKeep ==
    ASSUME IInv, NEW r \in Requests, NEW s \in Steps, NEW c \in Context, Saving(r, s, c),
           Growing, NEW q \in Requests \ {r}
    PROVE  Sound(pc[q], ctx[q])'
<1>1. Sound(pc[q], ctx[q]) /\ pc'[q] = pc[q]
  BY SavingContexts DEF IInv
<1>2. CASE pc[q] \in {"idle", "done"}
  <2>1. ctx'[q] = ctx[q]
    BY <1>2, SavingContexts
  <2>2. QED
    BY <1>1, <1>2, <2>1 DEF Sound, Explained, Growing
<1>3. CASE pc[q] \notin {"idle", "done"}
  <2>1. /\ ctx'[q].disturbed
        /\ ctx'[q].kind = ctx[q].kind /\ ctx'[q].user = ctx[q].user
        /\ ctx'[q].name = ctx[q].name /\ ctx'[q].repo = ctx[q].repo
        /\ ctx'[q].token = ctx[q].token /\ ctx'[q].left = ctx[q].left
    BY <1>3, SavingContexts
  <2>2. Placed(pc[q], ctx[q])'
    BY <1>1, <1>3, <2>1 DEF Sound, Placed
  <2>3. Known(ctx[q])'
    BY <1>1, <1>3, <2>1 DEF Sound, Known, Growing
  <2>4. HasRead(pc[q], ctx[q])'
    <3>1. Known(ctx[q]) /\ HasRead(pc[q], ctx[q])
      BY <1>1, <1>3 DEF Sound
    <3>2. ctx[q].kind \in OfRepo => repos'[ctx[q].repo] \in {repos[ctx[q].repo], None}
      BY <3>1 DEF Known, Growing
    <3>3. QED
      BY <1>1, <2>1, <3>1, <3>2 DEF HasRead, Growing, OfRepo, Shares
  <2>5. QED
    BY <1>1, <1>3, <2>1, <2>2, <2>3, <2>4 DEF Sound
<1>4. QED
  BY <1>2, <1>3

\* The handler that has saved counts no longer.
LEMMA SavingCounts ==
    ASSUME IInv, NEW r \in Requests, NEW s \in Steps \ {"save"}, NEW c \in Context, Saving(r, s, c)
    PROVE  /\ \A u \in Users : Creating(u)' = Creating(u) \ {r}
           /\ \A t \in Tokens : Exchanging(t)' = Exchanging(t) \ {r}
           /\ (\A u \in Users : Custom(u)' \subseteq Custom(u)) => Limited'
           /\ (\A t \in Tokens : Successors(t)' \subseteq Successors(t)) => Rotated'
<1>1. /\ \A u \in Users : Creating(u)' = Creating(u) \ {r}
      /\ \A t \in Tokens : Exchanging(t)' = Exchanging(t) \ {r}
  BY SavingContexts DEF Creating, Exchanging
<1>2. ASSUME NEW u \in Users, Custom(u)' \subseteq Custom(u)
      PROVE  Cardinality(Custom(u)') + Cardinality(Creating(u)') < MaxRepos + Cardinality(Requests)
  <2>1. Creating(u) \in SUBSET Requests /\ Creating(u)' \in SUBSET Creating(u)
    BY <1>1 DEF Creating
  <2>2. /\ Cardinality(Creating(u)') <= Cardinality(Creating(u))
        /\ Cardinality(Creating(u)') \in Nat /\ Cardinality(Creating(u)) \in Nat
    BY <2>1, Slots
  <2>3. Cardinality(Custom(u)') <= Cardinality(Custom(u)) /\ Cardinality(Custom(u)') \in Nat
    BY <1>2, Tables, FS_Subset, FS_CardinalityType
  <2>4. QED
    BY <2>2, <2>3, Tables, Slots, MaxReposAssumption DEF IInv, Limited
<1>3. ASSUME NEW t \in Tokens, Successors(t)' \subseteq Successors(t)
      PROVE  Cardinality(Successors(t)') + Cardinality(Exchanging(t)') <= Cardinality(Requests)
  <2>1. Exchanging(t) \in SUBSET Requests /\ Exchanging(t)' \in SUBSET Exchanging(t)
    BY <1>1 DEF Exchanging
  <2>2. /\ Cardinality(Exchanging(t)') <= Cardinality(Exchanging(t))
        /\ Cardinality(Exchanging(t)') \in Nat /\ Cardinality(Exchanging(t)) \in Nat
    BY <2>1, Slots
  <2>3. Cardinality(Successors(t)') <= Cardinality(Successors(t)) /\ Cardinality(Successors(t)') \in Nat
    BY <1>3, Tables, FS_Subset, FS_CardinalityType
  <2>4. QED
    BY <2>2, <2>3, Tables, Slots DEF IInv, Rotated
<1>4. QED
  BY <1>1, <1>2, <1>3 DEF Limited, Rotated

\* Members keep their metadata if the new ones have it, or are still to get it.
LEMMA SavingMetadata ==
    ASSUME IInv, NEW r \in Requests, NEW s \in Steps, NEW c \in Context, Saving(r, s, c),
           meta \subseteq meta',
           \A m \in members' \ members : m[1] \in meta' \/ (s = "meta" /\ m \in Pairs(c)),
           pc[r] \in {"meta", "saveMeta"} => \A m \in Pairs(ctx[r]) : m[2] \in meta'
    PROVE  MembersHaveMetadata'
<1> SUFFICES ASSUME NEW m \in members'
             PROVE  \/ m[1] \in meta' \/ m[2] \in meta' \/ m \in torn'
                    \/ \E q \in Requests :
                          pc'[q] \in {"meta", "saveMeta"} /\ m \in Pairs(ctx'[q])
  BY DEF MembersHaveMetadata, Pairs
<1>1. CASE m \notin members
  BY <1>1, SavingContexts
<1>2. ASSUME NEW q \in Requests, pc[q] \in {"meta", "saveMeta"}, m \in Pairs(ctx[q])
      PROVE  m[2] \in meta' \/ (pc'[q] \in {"meta", "saveMeta"} /\ m \in Pairs(ctx'[q]))
  <2>1. CASE q = r
    BY <1>2, <2>1
  <2>2. CASE q # r
    <3>1. pc'[q] = pc[q] /\ ctx'[q].repo = ctx[q].repo /\ ctx'[q].left = ctx[q].left
      BY <1>2, <2>2, SavingContexts
    <3>2. QED
      BY <1>2, <3>1 DEF Pairs
  <2>3. QED
    BY <2>1, <2>2
<1>3. CASE m \in members
  BY <1>2, <1>3, SavingContexts DEF IInv, MembersHaveMetadata
<1>4. QED
  BY <1>1, <1>3

-----------------------------------------------------------------------------
\* What a save that ends its request has to show.
TypedTables ==
    /\ users \in [Users -> Names \cup {None}]
    /\ repos \in [Repos -> RepoRow \cup {None}]
    /\ members \subseteq Repos \X Users
    /\ meta \subseteq Repos \cup Users
    /\ tokens \in [Tokens -> TokenRow \cup {None}]
    /\ unused \subseteq Repos

LEMMA DoneContext ==
    ASSUME IInv, NEW r \in Requests
    PROVE  /\ Replied(ctx[r], 200) \in Context /\ Replied(ctx[r], 200).status = 200
           /\ ctx[r] \in Context /\ "done" \in Steps \ {"save"}
<1>1. ctx[r] \in Context
  BY DEF IInv, TypeOK
<1>2. QED
  BY <1>1, RepliedContext DEF Statuses, Steps

LEMMA DoneKeeps ==
    ASSUME IInv, NEW r \in Requests, Done(r), UNCHANGED mix, Growing, TypedTables',
           Allocated', AccountsAreWhole', MembershipsAreSound', MembersHaveMetadata',
           Revocation', Limited', Rotated'
    PROVE  IInv'
<1>1. PICK c \in Context : c = Replied(ctx[r], 200)
  BY DoneContext
<1>2. Saving(r, "done", c) /\ "done" \in Steps /\ c.status = 200
  BY <1>1, DoneContext DEF Done
<1>3. pc'[r] = "done" /\ ctx'[r] = c /\ torn' = torn
      /\ pc' \in [Requests -> Steps] /\ ctx' \in [Requests -> Context]
  BY <1>2, SavingContexts
<1>4. TypeOK'
  BY <1>3 DEF TypeOK, TypedTables, IInv
<1>5. Sound(pc[r], ctx[r])'
  BY <1>2, <1>3 DEF Sound, Explained
<1>6. \A q \in Requests \ {r} : Sound(pc[q], ctx[q])'
  BY <1>2, OthersKeep
<1>7. QED
  BY <1>4, <1>5, <1>6 DEF IInv

\* The same as SavingCounts and SavingMetadata, for the save that ends a request.
LEMMA DoneCounts ==
    ASSUME IInv, NEW r \in Requests, Done(r)
    PROVE  /\ \A u \in Users : Creating(u)' = Creating(u) \ {r}
           /\ \A t \in Tokens : Exchanging(t)' = Exchanging(t) \ {r}
           /\ (\A u \in Users : Custom(u)' \subseteq Custom(u)) => Limited'
           /\ (\A t \in Tokens : Successors(t)' \subseteq Successors(t)) => Rotated'
<1>1. PICK c \in Context : c = Replied(ctx[r], 200)
  BY DoneContext
<1>2. Saving(r, "done", c) /\ "done" \in Steps \ {"save"}
  BY <1>1, DoneContext DEF Done
<1>3. QED
  BY <1>2, SavingCounts

LEMMA DoneMetadata ==
    ASSUME IInv, NEW r \in Requests, Done(r), meta \subseteq meta',
           \A m \in members' \ members : m[1] \in meta',
           pc[r] \in {"meta", "saveMeta"} => \A m \in Pairs(ctx[r]) : m[2] \in meta'
    PROVE  MembersHaveMetadata'
<1>1. PICK c \in Context : c = Replied(ctx[r], 200)
  BY DoneContext
<1>2. Saving(r, "done", c) /\ "done" \in Steps
  BY <1>1, DoneContext DEF Done
<1>3. QED
  BY <1>2, SavingMetadata

\* A new token, of its own family.
LEMMA IssueKeeps ==
    ASSUME IInv, NEW u \in Users, Issue(tokens, u, None)
    PROVE  /\ tokens' \in [Tokens -> TokenRow \cup {None}]
           /\ \A t \in Tokens : tokens[t] # None => tokens'[t] # None
           /\ Revocation'
           /\ \A t \in Tokens : Successors(t)' \subseteq Successors(t)
<1> DEFINE row == [user |-> u, revoked |-> FALSE, expired |-> FALSE, from |-> None]
<1>1. PICK n \in Tokens : tokens[n] = None /\ tokens' = [tokens EXCEPT ![n] = row]
  BY DEF Issue, NewGuid
<1>2. row \in TokenRow /\ row.from = None
  BY DEF TokenRow
<1>3. tokens \in [Tokens -> TokenRow \cup {None}]
  BY DEF IInv, TypeOK
<1>4. /\ tokens' \in [Tokens -> TokenRow \cup {None}]
      /\ tokens'[n] = row /\ \A t \in Tokens \ {n} : tokens'[t] = tokens[t]
  BY <1>1, <1>2, <1>3
<1> HIDE DEF row
<1>5. Revocation'
  <2> SUFFICES ASSUME NEW t \in Tokens, tokens'[t] # None, tokens'[t].from # None
               PROVE  tokens'[tokens'[t].from] # None /\ tokens'[tokens'[t].from].revoked
    BY DEF Revocation
  <2>1. t # n /\ tokens[t] = tokens'[t]
    BY <1>2, <1>4
  <2>2. tokens[tokens[t].from] # None /\ tokens[tokens[t].from].revoked
    BY <2>1 DEF IInv, Revocation
  <2>3. tokens[t].from \in Tokens
    BY <1>3, <2>1 DEF TokenRow
  <2>4. QED
    BY <1>1, <1>4, <2>1, <2>2, <2>3
<1>6. \A t \in Tokens : Successors(t)' \subseteq Successors(t)
  BY <1>2, <1>4, NoneAssumption DEF Successors
<1>7. QED
  BY <1>1, <1>2, <1>3, <1>4, <1>5, <1>6, RowAssumption

LEMMA SaveLoginKeeps ==
    ASSUME IInv, NEW r \in Requests, SaveLogin(r), UNCHANGED mix PROVE IInv'
<1>1. pc[r] = "save" /\ ctx[r].kind = "login" /\ Done(r) /\ Issue(tokens, ctx[r].user, None)
  BY DEF SaveLogin, Ready, At
<1>2. /\ users' = users /\ repos' = repos /\ members' = members /\ meta' = meta
      /\ unused' = unused
  BY DEF SaveLogin
<1>3. ctx[r].user \in Users
  BY <1>1 DEF IInv, Sound, HasRead
<1>4. PICK u \in Users : u = ctx[r].user
  BY <1>3
<1>5. /\ tokens' \in [Tokens -> TokenRow \cup {None}]
      /\ \A t \in Tokens : tokens[t] # None => tokens'[t] # None
      /\ Revocation'
      /\ \A t \in Tokens : Successors(t)' \subseteq Successors(t)
  BY <1>1, <1>4, IssueKeeps
<1>6. Growing /\ TypedTables'
  BY <1>2, <1>5 DEF Growing, TypedTables, IInv, TypeOK
<1>7. Limited' /\ Rotated'
  BY <1>1, <1>2, <1>5, DoneCounts DEF Custom
<1>8. MembersHaveMetadata'
  BY <1>1, <1>2, DoneMetadata
<1>9. Allocated' /\ AccountsAreWhole' /\ MembershipsAreSound'
  BY <1>2 DEF IInv, Allocated, AccountsAreWhole, DefaultsOf, Owns, MembershipsAreSound
<1>10. QED
  BY <1>1, <1>5, <1>6, <1>7, <1>8, <1>9, DoneKeeps

LEMMA SaveNameKeeps ==
    ASSUME IInv, NEW r \in Requests, SaveName(r), UNCHANGED mix PROVE IInv'
<1>1. /\ pc[r] = "save" /\ Done(r)
      /\ users' = users /\ repos' = repos /\ members' = members /\ meta' = meta
      /\ tokens' = tokens /\ unused' = unused
  BY DEF SaveName, Ready, At, db
<1>2. Growing /\ TypedTables'
  BY <1>1 DEF Growing, TypedTables, IInv, TypeOK
<1>3. Limited' /\ Rotated'
  BY <1>1, DoneCounts DEF Custom, Successors
<1>4. MembersHaveMetadata'
  BY <1>1, DoneMetadata
<1>5. Allocated' /\ AccountsAreWhole' /\ MembershipsAreSound' /\ Revocation'
  BY <1>1 DEF IInv, Allocated, AccountsAreWhole, DefaultsOf, Owns, MembershipsAreSound, Revocation
<1>6. QED
  BY <1>1, <1>2, <1>3, <1>4, <1>5, DoneKeeps

\* The default repo is not deleted, and the memberships of the one that is go with it.
LEMMA DeleteRepoKeeps ==
    ASSUME IInv, NEW r \in Requests, DeleteRepo(r), UNCHANGED mix PROVE IInv'
<1> DEFINE p == ctx[r].repo
<1>1. /\ pc[r] = "save" /\ ctx[r].kind = "delete" /\ Done(r) /\ repos[p] # None
      /\ users' = users /\ repos' = [repos EXCEPT ![p] = None]
      /\ members' = {m \in members : m[1] # p}
      /\ meta' = meta /\ tokens' = tokens /\ unused' = unused
  BY DEF DeleteRepo, Ready, At, CanSave, Cascaded
<1>2. Known(ctx[r]) /\ HasRead("save", ctx[r])
  BY <1>1 DEF IInv, Sound
<1>3. p \in Repos \ unused /\ repos[p].owner = ctx[r].user /\ ~repos[p].default
  BY <1>1, <1>2 DEF Known, HasRead, OfRepo
<1>4. repos \in [Repos -> RepoRow \cup {None}]
  BY DEF IInv, TypeOK
<1>5. repos'[p] = None /\ \A q \in Repos \ {p} : repos'[q] = repos[q]
  BY <1>1, <1>3, <1>4
<1>6. Growing /\ TypedTables'
  BY <1>1, <1>5 DEF Growing, TypedTables, IInv, TypeOK
<1>7. \A u \in Users : Custom(u)' \subseteq Custom(u)
  BY <1>5 DEF Custom
<1>8. Limited' /\ Rotated'
  BY <1>1, <1>7, DoneCounts DEF Successors
<1>9. MembersHaveMetadata'
  BY <1>1, DoneMetadata
<1>10. Allocated' /\ Revocation'
  BY <1>1, <1>3, <1>5 DEF IInv, Allocated, Revocation, TypeOK
<1>11. \A u \in Users : DefaultsOf(u)' = DefaultsOf(u)
  BY <1>3, <1>5 DEF DefaultsOf, Owns
<1>12. AccountsAreWhole'
  BY <1>1, <1>5, <1>11 DEF IInv, AccountsAreWhole
<1>13. MembershipsAreSound'
  <2> SUFFICES ASSUME NEW m \in members'
               PROVE  users'[m[2]] # None /\ repos'[m[1]] # None /\ repos'[m[1]].owner # m[2]
    BY DEF MembershipsAreSound
  <2>1. m \in members /\ m[1] # p /\ m[1] \in Repos
    BY <1>1 DEF IInv, TypeOK
  <2>2. QED
    BY <1>1, <1>5, <2>1 DEF IInv, MembershipsAreSound
<1>14. QED
  BY <1>1, <1>6, <1>8, <1>9, <1>10, <1>12, <1>13, DoneKeeps

LEMMA SaveUnshareKeeps ==
    ASSUME IInv, NEW r \in Requests, SaveUnshare(r), UNCHANGED mix PROVE IInv'
<1>1. /\ pc[r] = "save" /\ Done(r)
      /\ users' = users /\ repos' = repos /\ members' \subseteq members /\ meta' = meta
      /\ tokens' = tokens /\ unused' = unused
  BY DEF SaveUnshare, Ready, At
<1>2. Growing /\ TypedTables'
  BY <1>1 DEF Growing, TypedTables, IInv, TypeOK
<1>3. Limited' /\ Rotated'
  BY <1>1, DoneCounts DEF Custom, Successors
<1>4. MembersHaveMetadata'
  BY <1>1, DoneMetadata
<1>5. Allocated' /\ AccountsAreWhole' /\ MembershipsAreSound' /\ Revocation'
  BY <1>1 DEF IInv, Allocated, AccountsAreWhole, DefaultsOf, Owns, MembershipsAreSound, Revocation
<1>6. QED
  BY <1>1, <1>2, <1>3, <1>4, <1>5, DoneKeeps

LEMMA SaveMetaKeeps ==
    ASSUME IInv, NEW r \in Requests, SaveMeta(r), UNCHANGED mix PROVE IInv'
<1>1. /\ pc[r] = "saveMeta" /\ Done(r)
      /\ users' = users /\ repos' = repos /\ members' = members
      /\ meta' = meta \cup ctx[r].left /\ tokens' = tokens /\ unused' = unused
  BY DEF SaveMeta, At
<1>2. ctx[r].left \in SUBSET Users
  BY DEF IInv, TypeOK, Context
<1>3. Growing /\ TypedTables'
  BY <1>1, <1>2 DEF Growing, TypedTables, IInv, TypeOK
<1>4. Limited' /\ Rotated'
  BY <1>1, DoneCounts DEF Custom, Successors
<1>5. \A m \in Pairs(ctx[r]) : m[2] \in meta'
  BY <1>1 DEF Pairs
<1>6. MembersHaveMetadata'
  BY <1>1, <1>5, DoneMetadata
<1>7. Allocated' /\ AccountsAreWhole' /\ MembershipsAreSound' /\ Revocation'
  BY <1>1 DEF IInv, Allocated, AccountsAreWhole, DefaultsOf, Owns, MembershipsAreSound, Revocation
<1>8. QED
  BY <1>1, <1>3, <1>4, <1>6, <1>7, DoneKeeps

\* What a share adds, by either way: a user who exists to a repo that is another's.
LEMMA SharedMembers ==
    ASSUME IInv, NEW r \in Requests, pc[r] = "save", ctx[r].kind \in Shares, CanSave(ctx[r]),
           UNCHANGED <<users, repos>>, members' = members \cup Pairs(ctx[r])
    PROVE  /\ ctx[r].repo \in Repos \ unused
           /\ members' \subseteq Repos \X Users
           /\ MembershipsAreSound'
<1>1. Known(ctx[r]) /\ HasRead("save", ctx[r])
  BY DEF IInv, Sound, Shares
<1>2. PICK v \in Users : ctx[r].left = {v} /\ users[v] # None /\ v # ctx[r].user
  BY <1>1 DEF HasRead
<1>3. repos[ctx[r].repo] # None /\ ctx[r].repo \in Repos \ unused
  BY <1>1 DEF CanSave, PairFree, Shares, Known, OfRepo
<1>4. repos[ctx[r].repo].owner = ctx[r].user
  BY <1>1, <1>3 DEF HasRead, Shares, OfRepo
<1>5. Pairs(ctx[r]) = {<<ctx[r].repo, v>>}
  BY <1>2 DEF Pairs
<1>6. MembershipsAreSound'
  <2> SUFFICES ASSUME NEW m \in members'
               PROVE  users'[m[2]] # None /\ repos'[m[1]] # None /\ repos'[m[1]].owner # m[2]
    BY DEF MembershipsAreSound
  <2>1. CASE m \in members
    BY <2>1 DEF IInv, MembershipsAreSound
  <2>2. CASE m = <<ctx[r].repo, v>>
    BY <1>2, <1>3, <1>4, <2>2
  <2>3. QED
    BY <1>5, <2>1, <2>2
<1>7. QED
  BY <1>3, <1>5, <1>6 DEF IInv, TypeOK

LEMMA SavePageShareKeeps ==
    ASSUME IInv, NEW r \in Requests, SavePageShare(r), UNCHANGED mix PROVE IInv'
<1>1. /\ pc[r] = "save" /\ ctx[r].kind \in Shares /\ CanSave(ctx[r]) /\ Done(r)
      /\ users' = users /\ repos' = repos /\ members' = members \cup Pairs(ctx[r])
      /\ meta' = meta \cup {ctx[r].repo} /\ tokens' = tokens /\ unused' = unused
  BY DEF SavePageShare, Ready, At, Shares
<1>2. /\ ctx[r].repo \in Repos \ unused
      /\ members' \subseteq Repos \X Users
      /\ MembershipsAreSound'
  BY <1>1, SharedMembers
<1>3. Growing /\ TypedTables'
  BY <1>1, <1>2 DEF Growing, TypedTables, IInv, TypeOK
<1>4. Limited' /\ Rotated'
  BY <1>1, DoneCounts DEF Custom, Successors
<1>5. \A m \in members' \ members : m[1] \in meta'
  BY <1>1 DEF Pairs
<1>6. MembersHaveMetadata'
  BY <1>1, <1>5, DoneMetadata
<1>7. Allocated' /\ AccountsAreWhole' /\ Revocation'
  BY <1>1 DEF IInv, Allocated, AccountsAreWhole, DefaultsOf, Owns, Revocation
<1>8. QED
  BY <1>1, <1>2, <1>3, <1>4, <1>6, <1>7, DoneKeeps

LEMMA SaveShareKeeps ==
    ASSUME IInv, NEW r \in Requests, SaveShare(r), UNCHANGED mix PROVE IInv'
<1>1. /\ pc[r] = "save" /\ ctx[r].kind = "share" /\ CanSave(ctx[r])
      /\ users' = users /\ repos' = repos /\ members' = members \cup Pairs(ctx[r])
      /\ meta' = meta /\ tokens' = tokens /\ unused' = unused
      /\ Saving(r, "meta", ctx[r])
  BY DEF SaveShare, Ready, At
<1>2. PICK c \in Context : c = ctx[r]
  BY DEF IInv, TypeOK
<1>3. Saving(r, "meta", c) /\ "meta" \in Steps \ {"save"}
  BY <1>1, <1>2 DEF Steps
<1>4. /\ members' \subseteq Repos \X Users
      /\ MembershipsAreSound'
  BY <1>1, SharedMembers DEF Shares
<1>5. Growing /\ TypedTables'
  BY <1>1, <1>4 DEF Growing, TypedTables, IInv, TypeOK
<1>6. TypeOK'
  BY <1>3, <1>5, SavingContexts DEF TypeOK, TypedTables, IInv
<1>7. Limited' /\ Rotated'
  BY <1>1, <1>3, SavingCounts DEF Custom, Successors
<1>8. MembersHaveMetadata'
  BY <1>1, <1>2, <1>3, SavingMetadata
<1>9. Allocated' /\ AccountsAreWhole' /\ Revocation'
  BY <1>1 DEF IInv, Allocated, AccountsAreWhole, DefaultsOf, Owns, Revocation
<1>10. Sound(pc[r], ctx[r])'
  <2>1. Sound("save", c) /\ c.kind = "share"
    BY <1>1, <1>2 DEF IInv
  <2>2. pc'[r] = "meta" /\ ctx'[r] = c
    BY <1>3, SavingContexts
  <2>3. QED
    BY <1>1, <2>1, <2>2 DEF Sound, Placed, Known, HasRead, Unchanged, Signups, Shares, OfRepo
<1>11. \A q \in Requests \ {r} : Sound(pc[q], ctx[q])'
  BY <1>3, <1>5, OthersKeep
<1>12. QED
  BY <1>4, <1>6, <1>7, <1>8, <1>9, <1>10, <1>11 DEF IInv

\* A new repo takes an id that nobody has had.
LEMMA NewRepoRow ==
    ASSUME IInv, NEW u \in Users, NEW d \in BOOLEAN, NewRepo(u, d)
    PROVE  \E p \in unused :
              /\ p \in Repos /\ repos[p] = None
              /\ repos'[p] # None /\ repos'[p].owner = u /\ repos'[p].default = d
              /\ \A q \in Repos \ {p} : repos'[q] = repos[q]
              /\ repos' \in [Repos -> RepoRow \cup {None}]
              /\ unused' = unused \ {p} /\ Allocated'
<1> DEFINE row == [owner |-> u, default |-> d]
<1>1. PICK p \in unused : repos' = [repos EXCEPT ![p] = row] /\ unused' = unused \ {p}
  BY DEF NewRepo, NewGuid
<1>2. row \in RepoRow /\ row.owner = u /\ row.default = d
  BY DEF RepoRow
<1> HIDE DEF row
<1>3. repos \in [Repos -> RepoRow \cup {None}] /\ p \in Repos /\ unused \subseteq Repos
  BY DEF IInv, TypeOK
<1>4. repos[p] = None
  BY DEF IInv, Allocated
<1>5. repos'[p] = row /\ \A q \in Repos \ {p} : repos'[q] = repos[q]
  BY <1>1, <1>3
<1>6. repos' \in [Repos -> RepoRow \cup {None}]
  BY <1>1, <1>2, <1>3
<1>7. Allocated'
  BY <1>1, <1>3, <1>5 DEF IInv, Allocated
<1>8. row # None
  BY <1>2, RowAssumption
<1>9. QED
  BY <1>1, <1>2, <1>3, <1>4, <1>5, <1>6, <1>7, <1>8

\* A repo more, a request that has counted less.
LEMMA SaveRepoKeeps ==
    ASSUME IInv, NEW r \in Requests, SaveRepo(r), UNCHANGED mix PROVE IInv'
<1>1. /\ pc[r] = "save" /\ ctx[r].kind = "create" /\ Done(r) /\ NewRepo(ctx[r].user, FALSE)
      /\ users' = users /\ members' = members /\ meta' = meta /\ tokens' = tokens
  BY DEF SaveRepo, Ready, At
<1>2. ctx[r].user \in Users /\ users[ctx[r].user] # None
  BY <1>1 DEF IInv, Sound, Known
<1>3. PICK u \in Users : u = ctx[r].user
  BY <1>2
<1>4. PICK p \in unused :
          /\ p \in Repos /\ repos[p] = None
          /\ repos'[p] # None /\ repos'[p].owner = u /\ repos'[p].default = FALSE
          /\ \A q \in Repos \ {p} : repos'[q] = repos[q]
          /\ repos' \in [Repos -> RepoRow \cup {None}]
          /\ unused' = unused \ {p} /\ Allocated'
  BY <1>1, <1>3, NewRepoRow
<1>5. Growing /\ TypedTables'
  BY <1>1, <1>4 DEF Growing, TypedTables, IInv, TypeOK
<1>6. Limited'
  <2> SUFFICES ASSUME NEW v \in Users
               PROVE  Cardinality(Custom(v)') + Cardinality(Creating(v)')
                          < MaxRepos + Cardinality(Requests)
    BY DEF Limited
  <2>1. Creating(v)' = Creating(v) \ {r} /\ Creating(v) \in SUBSET Requests
    BY <1>1, DoneCounts DEF Creating
  <2>2. /\ Cardinality(Creating(v)) \in Nat /\ Cardinality(Creating(v)') \in Nat
        /\ Cardinality(Creating(v)') <= Cardinality(Creating(v)) /\ IsFiniteSet(Creating(v))
        /\ Cardinality(Custom(v)) \in Nat /\ IsFiniteSet(Custom(v)) /\ Cardinality(Requests) \in Nat
    BY <2>1, Slots, Tables
  <2>3. CASE v = u
    <3>1. r \in Creating(v)
      BY <1>1, <1>3, <2>3 DEF Creating
    <3>2. Cardinality(Creating(v)') = Cardinality(Creating(v)) - 1
      BY <2>1, <2>2, <3>1, FS_RemoveElement
    <3>3. Custom(v)' = Custom(v) \cup {p} /\ p \notin Custom(v)
      BY <1>4, <2>3 DEF Custom
    <3>4. Cardinality(Custom(v)') = Cardinality(Custom(v)) + 1
      BY <2>2, <3>3, FS_AddElement
    <3>5. QED
      BY <2>2, <3>2, <3>4, MaxReposAssumption DEF IInv, Limited
  <2>4. CASE v # u
    <3>1. Custom(v)' = Custom(v)
      BY <1>4, <2>4 DEF Custom
    <3>2. QED
      BY <2>2, <3>1, MaxReposAssumption DEF IInv, Limited
  <2>5. QED
    BY <2>3, <2>4
<1>7. Rotated'
  BY <1>1, DoneCounts DEF Successors
<1>8. MembersHaveMetadata'
  BY <1>1, DoneMetadata
<1>9. \A v \in Users : DefaultsOf(v)' = DefaultsOf(v)
  BY <1>4 DEF DefaultsOf, Owns
<1>10. AccountsAreWhole'
  BY <1>1, <1>2, <1>3, <1>4, <1>9 DEF IInv, AccountsAreWhole
<1>11. MembershipsAreSound'
  BY <1>1, <1>4 DEF IInv, TypeOK, MembershipsAreSound
<1>12. Revocation'
  BY <1>1 DEF IInv, Revocation
<1>13. QED
  BY <1>1, <1>4, <1>5, <1>6, <1>7, <1>8, <1>10, <1>11, <1>12, DoneKeeps

\* Exchanging a token: one successor more, a request that has found it active less.
LEMMA SaveRefreshKeeps ==
    ASSUME IInv, NEW r \in Requests, SaveRefresh(r), UNCHANGED mix PROVE IInv'
<1>1. /\ pc[r] = "save" /\ ctx[r].kind = "refresh" /\ Done(r)
      /\ Issue(Revoked(ctx[r].token), ctx[r].user, ctx[r].token)
      /\ users' = users /\ repos' = repos /\ members' = members /\ meta' = meta
      /\ unused' = unused
  BY DEF SaveRefresh, Ready, At
<1>2. ctx[r].user \in Users /\ ctx[r].token \in Tokens /\ tokens[ctx[r].token] # None
  BY <1>1 DEF IInv, Sound, Known, HasRead
<1>3. PICK u \in Users, t \in Tokens : u = ctx[r].user /\ t = ctx[r].token /\ tokens[t] # None
  BY <1>2
<1> DEFINE row == [user |-> u, revoked |-> FALSE, expired |-> FALSE, from |-> t]
<1>4. PICK n \in Tokens :
          tokens[n] = None /\ tokens' = [[tokens EXCEPT ![t].revoked = TRUE] EXCEPT ![n] = row]
  BY <1>1, <1>3 DEF Issue, NewGuid, Revoked
<1>5. row \in TokenRow /\ row.from = t
  BY DEF TokenRow
<1> HIDE DEF row
<1>6. tokens \in [Tokens -> TokenRow \cup {None}] /\ tokens[t] \in TokenRow /\ t # n
  BY <1>3, <1>4 DEF IInv, TypeOK
<1>7. [tokens[t] EXCEPT !.revoked = TRUE] \in TokenRow
  BY <1>6 DEF TokenRow
<1>8. /\ tokens'[n] = row /\ tokens'[t] = [tokens[t] EXCEPT !.revoked = TRUE]
      /\ \A q \in Tokens \ {n, t} : tokens'[q] = tokens[q]
      /\ tokens' \in [Tokens -> TokenRow \cup {None}]
  BY <1>4, <1>5, <1>6, <1>7
<1>9. /\ tokens'[t] # None /\ tokens'[t].revoked /\ tokens'[t].from = tokens[t].from
      /\ tokens'[n] # None
  <2>1. tokens'[t] # None /\ tokens'[n] # None
    BY <1>5, <1>7, <1>8, RowAssumption
  <2>2. tokens'[t].revoked /\ tokens'[t].from = tokens[t].from
    BY <1>6, <1>8 DEF TokenRow
  <2>3. QED
    BY <2>1, <2>2
<1>10. Growing /\ TypedTables'
  BY <1>1, <1>4, <1>8, <1>9 DEF Growing, TypedTables, IInv, TypeOK
<1>11. Revocation'
  <2> SUFFICES ASSUME NEW q \in Tokens, tokens'[q] # None, tokens'[q].from # None
               PROVE  tokens'[tokens'[q].from] # None /\ tokens'[tokens'[q].from].revoked
    BY DEF Revocation
  <2>1. CASE q = n
    BY <1>5, <1>8, <1>9, <2>1
  <2>2. CASE q # n
    <3>1. tokens[q] # None /\ tokens'[q].from = tokens[q].from
      BY <1>3, <1>8, <1>9, <2>2
    <3>2. tokens[q].from \in Tokens
      BY <1>6, <3>1 DEF TokenRow
    <3>3. tokens[tokens[q].from] # None /\ tokens[tokens[q].from].revoked
      BY <3>1 DEF IInv, Revocation
    <3>4. QED
      BY <1>4, <1>8, <1>9, <3>1, <3>2, <3>3
  <2>3. QED
    BY <2>1, <2>2
<1>12. Limited'
  BY <1>1, DoneCounts DEF Custom
<1>13. Rotated'
  <2> SUFFICES ASSUME NEW q \in Tokens
               PROVE  Cardinality(Successors(q)') + Cardinality(Exchanging(q)')
                          <= Cardinality(Requests)
    BY DEF Rotated
  <2>1. Exchanging(q)' = Exchanging(q) \ {r} /\ Exchanging(q) \in SUBSET Requests
    BY <1>1, DoneCounts DEF Exchanging
  <2>2. /\ Cardinality(Exchanging(q)) \in Nat /\ Cardinality(Exchanging(q)') \in Nat
        /\ Cardinality(Exchanging(q)') <= Cardinality(Exchanging(q)) /\ IsFiniteSet(Exchanging(q))
        /\ Cardinality(Successors(q)) \in Nat /\ IsFiniteSet(Successors(q))
        /\ Cardinality(Requests) \in Nat
    BY <2>1, Slots, Tables
  <2>3. /\ Successors(q)' \subseteq Tokens /\ Successors(q) \subseteq Tokens \ {n}
        /\ n \in Successors(q)' <=> q = t
    BY <1>4, <1>5, <1>8, <1>9 DEF Successors
  <2>4. ASSUME NEW s \in Tokens \ {n} PROVE s \in Successors(q)' <=> s \in Successors(q)
    <3>1. CASE s = t
      BY <1>3, <1>9, <3>1 DEF Successors
    <3>2. CASE s # t
      BY <1>8, <3>2 DEF Successors
    <3>3. QED
      BY <3>1, <3>2
  <2>5. CASE q = t
    <3>1. r \in Exchanging(q)
      BY <1>1, <1>3, <2>5 DEF Exchanging
    <3>2. Cardinality(Exchanging(q)') = Cardinality(Exchanging(q)) - 1
      BY <2>1, <2>2, <3>1, FS_RemoveElement
    <3>3. Successors(q)' = Successors(q) \cup {n} /\ n \notin Successors(q)
      BY <2>3, <2>4, <2>5
    <3>4. Cardinality(Successors(q)') = Cardinality(Successors(q)) + 1
      BY <2>2, <3>3, FS_AddElement
    <3>5. QED
      BY <2>2, <3>2, <3>4 DEF IInv, Rotated
  <2>6. CASE q # t
    <3>1. Successors(q)' = Successors(q)
      BY <2>3, <2>4, <2>6
    <3>2. QED
      BY <2>2, <3>1 DEF IInv, Rotated
  <2>7. QED
    BY <2>5, <2>6
<1>14. MembersHaveMetadata'
  BY <1>1, DoneMetadata
<1>15. Allocated' /\ AccountsAreWhole' /\ MembershipsAreSound'
  BY <1>1 DEF IInv, Allocated, AccountsAreWhole, DefaultsOf, Owns, MembershipsAreSound
<1>16. QED
  BY <1>1, <1>10, <1>11, <1>12, <1>13, <1>14, <1>15, DoneKeeps

\* A new user, under a name that is still free, with a default repo.
LEMMA SaveUserKeeps ==
    ASSUME IInv, NEW r \in Requests, SaveUser(r), UNCHANGED mix PROVE IInv'
<1>1. PICK u \in Users :
          /\ users[u] = None /\ users' = [users EXCEPT ![u] = ctx[r].name] /\ NewRepo(u, TRUE)
          /\ IF ctx[r].kind = "signup" THEN Issue(tokens, u, None) ELSE UNCHANGED tokens
  BY DEF SaveUser, NewGuid
<1>2. /\ pc[r] = "save" /\ ctx[r].kind \in Signups /\ Done(r) /\ NameFree(ctx[r].name)
      /\ members' = members /\ meta' = meta
  BY DEF SaveUser, Ready, At, CanSave, Signups
<1>3. ctx[r].name \in Names
  BY <1>2 DEF IInv, Sound, Known
<1>4. PICK n \in Names : n = ctx[r].name
  BY <1>3
<1>5. PICK p \in unused :
          /\ p \in Repos /\ repos[p] = None
          /\ repos'[p] # None /\ repos'[p].owner = u /\ repos'[p].default = TRUE
          /\ \A q \in Repos \ {p} : repos'[q] = repos[q]
          /\ repos' \in [Repos -> RepoRow \cup {None}]
          /\ unused' = unused \ {p} /\ Allocated'
  BY <1>1, NewRepoRow
<1>6. /\ users' \in [Users -> Names \cup {None}]
      /\ users'[u] = n /\ n # None /\ \A v \in Users \ {u} : users'[v] = users[v]
  BY <1>1, <1>4, NoneAssumption DEF IInv, TypeOK
<1>7. /\ tokens' \in [Tokens -> TokenRow \cup {None}]
      /\ \A t \in Tokens : tokens[t] # None => tokens'[t] # None
      /\ Revocation'
      /\ \A t \in Tokens : Successors(t)' \subseteq Successors(t)
  <2>1. CASE ctx[r].kind = "signup"
    BY <1>1, <2>1, IssueKeeps
  <2>2. CASE ctx[r].kind # "signup"
    BY <1>1, <2>2 DEF IInv, TypeOK, Revocation, Successors
  <2>3. QED
    BY <2>1, <2>2
<1>8. Growing /\ TypedTables'
  BY <1>1, <1>2, <1>5, <1>6, <1>7 DEF Growing, TypedTables, IInv, TypeOK
<1>9. \A v \in Users : Custom(v)' \subseteq Custom(v)
  BY <1>5 DEF Custom
<1>10. Limited' /\ Rotated'
  BY <1>2, <1>7, <1>9, DoneCounts
<1>11. MembersHaveMetadata'
  BY <1>2, DoneMetadata
<1>12. \A q \in Repos : repos[q] # None => repos[q].owner # u
  BY <1>1 DEF IInv, AccountsAreWhole
<1>13. AccountsAreWhole'
  <2>1. \A v, w \in Users : users'[v] # None /\ users'[v] = users'[w] => v = w
    BY <1>2, <1>4, <1>6 DEF IInv, AccountsAreWhole, NameFree
  <2>2. DefaultsOf(u)' = {p}
    BY <1>5, <1>12 DEF DefaultsOf, Owns
  <2>3. \A v \in Users \ {u} : DefaultsOf(v)' = DefaultsOf(v)
    BY <1>5 DEF DefaultsOf, Owns
  <2>4. \A v \in Users : users'[v] # None => \E q \in Repos : DefaultsOf(v)' = {q}
    BY <1>5, <1>6, <2>2, <2>3 DEF IInv, AccountsAreWhole
  <2>5. \A q \in Repos : repos'[q] # None => users'[repos'[q].owner] # None
    <3> SUFFICES ASSUME NEW q \in Repos, repos'[q] # None
                 PROVE  users'[repos'[q].owner] # None
      OBVIOUS
    <3>1. repos'[q].owner \in Users
      BY <1>5 DEF RepoRow
    <3>2. CASE q = p
      BY <1>5, <1>6, <3>2
    <3>3. CASE q # p
      BY <1>5, <1>6, <3>1, <3>3 DEF IInv, AccountsAreWhole
    <3>4. QED
      BY <3>2, <3>3
  <2>6. QED
    BY <2>1, <2>4, <2>5 DEF AccountsAreWhole
<1>14. MembershipsAreSound'
  BY <1>1, <1>2, <1>5, <1>6 DEF IInv, TypeOK, MembershipsAreSound
<1>15. QED
  BY <1>2, <1>5, <1>7, <1>8, <1>10, <1>11, <1>13, <1>14, DoneKeeps

-----------------------------------------------------------------------------
LEMMA InitIInv == Init => IInv
<1> SUFFICES ASSUME Init PROVE IInv
  OBVIOUS
<1>1. \A r \in Requests : pc[r] = "idle" /\ ctx[r] = Idle
  BY DEF Init
<1>2. TypeOK
  BY DEF Init, TypeOK, Idle, Context, Kinds, Steps, Statuses, RepoRow, TokenRow
<1>3. Allocated /\ Revocation
  BY DEF Init, Allocated, Revocation
<1>4. AccountsAreWhole /\ MembershipsAreSound /\ MembersHaveMetadata
  BY DEF Init, AccountsAreWhole, MembershipsAreSound, MembersHaveMetadata
<1>5. /\ \A u \in Users : Custom(u) = {} /\ Creating(u) = {}
      /\ \A t \in Tokens : Successors(t) = {} /\ Exchanging(t) = {}
  BY <1>1 DEF Init, Custom, Creating, Successors, Exchanging
<1>6. Cardinality({}) = 0 /\ Cardinality(Requests) \in Nat
  BY Slots, FS_EmptySet
<1>7. Limited
  BY <1>5, <1>6, MaxReposAssumption DEF Limited
<1>8. Rotated
  BY <1>5, <1>6 DEF Rotated
<1>9. \A r \in Requests : Sound(pc[r], ctx[r])
  BY <1>1 DEF Sound
<1>10. QED
  BY <1>2, <1>3, <1>4, <1>7, <1>8, <1>9 DEF IInv

LEMMA NextIInv == IInv /\ [Next]_vars => IInv'
<1> SUFFICES ASSUME IInv, [Next]_vars PROVE IInv'
  OBVIOUS
<1>1. ASSUME NEW r \in Requests, Handler(r), UNCHANGED mix PROVE IInv'
  <2>1. CASE \/ ReceiveName(r) \/ ReceiveRefresh(r) \/ ReceiveCreate(r)
             \/ ReceiveRepo(r) \/ ReceiveShare(r) \/ ReceiveUnshare(r)
    BY <1>1, <2>1, ReceiveNameKeeps, ReceiveRefreshKeeps, ReceiveCreateKeeps, ReceiveRepoKeeps,
       ReceiveShareKeeps, ReceiveUnshareKeeps
  <2>2. CASE \/ CheckName(r) \/ FindUser(r) \/ FindToken(r) \/ CountRepos(r) \/ FindRepo(r)
             \/ ReadMembers(r) \/ FindTarget(r) \/ FindMembership(r) \/ ReadMeta(r)
    BY <1>1, <2>2, CheckNameKeeps, FindUserKeeps, FindTokenKeeps, CountReposKeeps, FindRepoKeeps,
       ReadMembersKeeps, FindTargetKeeps, FindMembershipKeeps, ReadMetaKeeps
  <2>3. CASE \/ SaveUser(r) \/ SaveLogin(r) \/ SaveRefresh(r) \/ SaveRepo(r) \/ SaveName(r)
             \/ DeleteRepo(r) \/ SaveShare(r) \/ SaveMeta(r) \/ SavePageShare(r)
             \/ SaveUnshare(r)
    BY <1>1, <2>3, SaveUserKeeps, SaveLoginKeeps, SaveRefreshKeeps, SaveRepoKeeps, SaveNameKeeps,
       DeleteRepoKeeps, SaveShareKeeps, SaveMetaKeeps, SavePageShareKeeps, SaveUnshareKeeps
  <2>4. CASE SaveFails(r) \/ Respond(r) \/ Abort(r)
    BY <1>1, <2>4, SaveFailsKeeps, EndKeeps
  <2>5. QED
    BY <1>1, <2>1, <2>2, <2>3, <2>4 DEF Handler
<1>2. CASE Expire /\ UNCHANGED mix
  BY <1>2, ExpireKeeps
<1>3. CASE UNCHANGED vars
  <2>1. TypeOK' /\ Allocated' /\ AccountsAreWhole' /\ MembershipsAreSound' /\ Revocation'
    BY <1>3 DEF vars, IInv, TypeOK, Allocated, AccountsAreWhole, DefaultsOf, Owns,
                MembershipsAreSound, Revocation
  <2>2. MembersHaveMetadata'
    BY <1>3 DEF vars, IInv, MembersHaveMetadata, Pairs
  <2>3. Limited' /\ Rotated'
    BY <1>3 DEF vars, IInv, Limited, Rotated, Custom, Successors, Creating, Exchanging
  <2>4. \A r \in Requests : Sound(pc[r], ctx[r])'
    BY <1>3 DEF vars, IInv, Sound, Placed, Known, HasRead, Unchanged, Explained, NameFree, MembersOf
  <2>5. QED
    BY <2>1, <2>2, <2>3, <2>4 DEF IInv
<1>4. QED
  BY <1>1, <1>2, <1>3 DEF Next

LEMMA Invariance == Spec => []IInv
  BY InitIInv, NextIInv, PTL DEF Spec

(***************************************************************************)
(* Every variable keeps its type; with it, every request that is about a   *)
(* user, a repo or a token has one.                                        *)
(***************************************************************************)
THEOREM TypeCorrect == Spec => []TypeOK
<1>1. IInv => TypeOK
  BY DEF IInv
<1>2. QED
  BY <1>1, Invariance, PTL

(***************************************************************************)
(* However many sign-ups and deletions overlap, names are unique and each  *)
(* user has exactly one default repo.                                      *)
(***************************************************************************)
THEOREM WholeAccounts == Spec => []AccountsAreWhole
<1>1. IInv => AccountsAreWhole
  BY DEF IInv
<1>2. QED
  BY <1>1, Invariance, PTL

(***************************************************************************)
(* A membership is of a user and a repo that exist and never the owner's,  *)
(* although share and delete act on what they read earlier.                *)
(***************************************************************************)
THEOREM SoundMemberships == Spec => []MembershipsAreSound
<1>1. IInv => MembershipsAreSound
  BY DEF IInv
<1>2. QED
  BY <1>1, Invariance, PTL

(***************************************************************************)
(* With n requests handled at a time a user has at most n - 1 custom repos *)
(* more than the limit; with one, never more than the limit.               *)
(***************************************************************************)
THEOREM LimitHolds == Spec => []LimitUnlessOverlap
<1>1. IInv => LimitUnlessOverlap
  <2> SUFFICES ASSUME IInv, NEW u \in Users
               PROVE  Cardinality(Custom(u)) < MaxRepos + Cardinality(Requests)
    BY DEF LimitUnlessOverlap
  <2>1. Creating(u) \in SUBSET Requests
    BY DEF Creating
  <2>2. QED
    BY <2>1, Slots, Tables, MaxReposAssumption DEF IInv, Limited
<1>2. QED
  BY <1>1, Invariance, PTL

(***************************************************************************)
(* With n requests handled at a time a refresh token is exchanged at most  *)
(* n times, and it is not active once it has been.                         *)
(***************************************************************************)
THEOREM RotationHolds == Spec => []RotationUnlessOverlap
<1>1. IInv => RotationUnlessOverlap
  <2> SUFFICES ASSUME IInv, NEW t \in Tokens
               PROVE  /\ Cardinality(Successors(t)) <= Cardinality(Requests)
                      /\ Active(t) => Successors(t) = {}
    BY DEF RotationUnlessOverlap
  <2>1. Exchanging(t) \in SUBSET Requests
    BY DEF Exchanging
  <2>2. Cardinality(Successors(t)) <= Cardinality(Requests)
    BY <2>1, Slots, Tables DEF IInv, Rotated
  <2>3. Active(t) => Successors(t) = {}
    BY NoneAssumption DEF Active, Successors, IInv, Revocation
  <2>4. QED
    BY <2>2, <2>3
<1>2. QED
  BY <1>1, Invariance, PTL

(***************************************************************************)
(* A save that the database refuses has met another request's, but for the *)
(* share page on a repo that has metadata.                                 *)
(***************************************************************************)
THEOREM ExplainedFailures == Spec => []FailuresHaveACause
<1>1. IInv => FailuresHaveACause
  BY DEF IInv, Sound, Explained, FailuresHaveACause
<1>2. QED
  BY <1>1, Invariance, PTL

(***************************************************************************)
(* Every member has sync metadata, unless a share is between its two saves *)
(* or was stopped there.                                                   *)
(***************************************************************************)
THEOREM MetadataOfMembers == Spec => []MembersHaveMetadata
<1>1. IInv => MembersHaveMetadata
  BY DEF IInv
<1>2. QED
  BY <1>1, Invariance, PTL

=============================================================================
