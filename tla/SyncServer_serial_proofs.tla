----------------------- MODULE SyncServer_serial_proofs -----------------------
(***************************************************************************)
(* What expected_version and GlobalVersion promise when requests do not    *)
(* overlap, for every set of users, repos, records and pushes, and that    *)
(* the handlers then implement the atomic store.  With overlapping         *)
(* requests the first is broken (run server_lost_update).                  *)
(***************************************************************************)
EXTENDS SyncServer_proofs, SyncPush_proofs

\* At most one request is being handled.
OneAtATime == \A q, r \in Requests : q = r

(***************************************************************************)
(* What a request alone in the server knows: a row it tracks is still the  *)
(* stored one (rows) and its copy is at a higher version if it differs in  *)
(* content; a counter it read is still the stored one (counters); and if   *)
(* it adds or changes a record, it has a repo to increment, or did so.     *)
(***************************************************************************)
Newer(o, n) ==
    /\ n.version >= o.version
    /\ n.blob # o.blob \/ n.deleted # o.deleted => n.version > o.version

RowsCurrent(c, rows) ==
    \A id \in Ids : c.curr[id] # None /\ c.orig[id] # None =>
        c.orig[id] = rows[id] /\ Newer(c.orig[id], c.curr[id])

CountersCurrent(c, counters) ==
    \A p \in Repos : c.vers[p] > 0 => c.vers[p] = counters[p] + 1

Changes(c) == \E id \in Ids : Inserts(c, id) \/ Updates(c, id)

Announced(c) == Changes(c) => c.touched # {} \/ \E p \in Repos : c.vers[p] > 0

Current(c, rows, counters) ==
    RowsCurrent(c, rows) /\ CountersCurrent(c, counters) /\ Announced(c)

\* PUT and DELETE have not changed the record they found until they are allowed to.
Unstaged(s, c) ==
    s = "access" /\ c.kind \in {"update", "remove"}
        => c.orig[Head(c.todo).id] = c.curr[Head(c.todo).id]

\* The inductive invariant: that of overlapping requests, and what holds without overlap.
AllCurrent ==
    \A r \in Requests :
        Current(ctx[r], records, repoVersion) /\ Unstaged(pc[r], ctx[r])

SInv == IInv /\ AllCurrent

-----------------------------------------------------------------------------
\* A context that tracks nothing is current, whatever is stored.
Blank(c) == (\A id \in Ids : c.curr[id] = None) /\ (\A p \in Repos : c.vers[p] = 0)

LEMMA BlankCurrent ==
    ASSUME NEW c, Blank(c), NEW rows, NEW counters
    PROVE  Current(c, rows, counters)
  BY DEF Blank, Current, RowsCurrent, CountersCurrent, Announced, Changes, Inserts, Updates

\* Requests arrive, and end, with such a context.
LEMMA BlankContexts ==
    /\ \A kind, u, todo : Blank(Fresh(kind, u, todo))
    /\ \A u, p : Blank(Deleting(u, p))
    /\ Blank(Idle)
    /\ \A code, a, b : Blank(Replied(code, a, b))
<1>1. ASSUME NEW kind, NEW u, NEW todo PROVE Blank(Fresh(kind, u, todo))
  BY DEF Blank, Fresh, NoRows
<1>2. ASSUME NEW u, NEW p PROVE Blank(Deleting(u, p))
  BY DEF Blank, Deleting, Fresh, NoRows
<1>3. Blank(Idle)
  BY <1>1 DEF Idle
<1>4. ASSUME NEW code, NEW a, NEW b PROVE Blank(Replied(code, a, b))
  BY DEF Blank, Replied, Idle, Fresh, NoRows
<1>5. QED
  BY <1>1, <1>2, <1>3, <1>4

\* Two contexts that track the same are current alike, if the second still has every
\* repo to increment that the first had.
LEMMA SameCurrent ==
    ASSUME NEW x, NEW c, NEW rows, NEW counters, Current(x, rows, counters),
           c.orig = x.orig, c.curr = x.curr, c.vers = x.vers, x.touched \subseteq c.touched
    PROVE  Current(c, rows, counters)
  BY DEF Current, RowsCurrent, CountersCurrent, Announced, Changes, Inserts, Updates

\* Every change to a record is a higher version of it.
LEMMA VersionsGrow ==
    ASSUME NEW rec \in Record, NEW c \in Change
    PROVE  /\ Newer(rec, rec)
           /\ Overwritten(rec, c).version = rec.version + 1
           /\ Tombstoned(rec).version = rec.version + 1
<1>1. rec.version \in Int
  BY DEF Record, Version
<1>2. Newer(rec, rec)
  BY <1>1 DEF Newer
<1>3. Overwritten(rec, c).version = rec.version + 1
  BY DEF Record, Overwritten
<1>4. Tombstoned(rec).version = rec.version + 1
  BY DEF Record, Tombstoned
<1>5. QED
  BY <1>2, <1>3, <1>4

LEMMA NewerStill ==
    ASSUME NEW o \in Record, NEW n \in Record, NEW m \in Record,
           Newer(o, n), m.version = n.version + 1
    PROVE  Newer(o, m)
  BY DEF Newer, Record, Version

\* Tracking one more record: the stored row and a newer copy, or a record to insert.
LEMMA TrackingCurrent ==
    ASSUME NEW c \in Context, NEW id \in Ids, NEW o \in Row, NEW n \in Record,
           NEW rows, NEW counters, Current(c, rows, counters),
           o # None => o = rows[id] /\ Newer(o, n),
           o # n => c.touched # {} \/ \E p \in Repos : c.vers[p] > 0
    PROVE  Current(Tracking(c, id, o, n), rows, counters)
<1> DEFINE t == Tracking(c, id, o, n)
<1>1. /\ t.orig = [c.orig EXCEPT ![id] = o] /\ t.curr = [c.curr EXCEPT ![id] = n]
      /\ t.touched = c.touched /\ t.vers = c.vers
  BY TrackingContext DEF Row
<1>2. c.orig \in [Ids -> Row] /\ c.curr \in [Ids -> Row]
  BY DEF Context
<1>3. t.orig[id] = o /\ t.curr[id] = n /\ n # None
  BY <1>1, <1>2, NoneAssumption
<1>4. \A i \in Ids : i # id => t.orig[i] = c.orig[i] /\ t.curr[i] = c.curr[i]
  BY <1>1, <1>2
<1> HIDE DEF t
<1>5. RowsCurrent(t, rows)
  BY <1>3, <1>4 DEF RowsCurrent, Current
<1>6. CountersCurrent(t, counters)
  BY <1>1 DEF CountersCurrent, Current
<1>7. Announced(t)
  <2> SUFFICES ASSUME NEW i \in Ids, Inserts(t, i) \/ Updates(t, i)
               PROVE  t.touched # {} \/ \E p \in Repos : t.vers[p] > 0
    BY DEF Announced, Changes
  <2>1. CASE i = id
    BY <1>1, <1>3, <2>1 DEF Inserts, Updates
  <2>2. CASE i # id
    BY <1>1, <1>4, <2>2 DEF Inserts, Updates, Announced, Changes, Current
  <2>3. QED
    BY <2>1, <2>2
<1>8. QED
  BY <1>5, <1>6, <1>7 DEF Current, t

-----------------------------------------------------------------------------
\* What a step of the only handler that saves nothing leaves of the invariant.
LEMMA GotoCurrent ==
    ASSUME SInv, OneAtATime, NEW r \in Requests, NEW s, NEW c,
           Goto(r, s, c), UNCHANGED db, Current(c, records, repoVersion), Unstaged(s, c)
    PROVE  AllCurrent'
<1>1. ASSUME NEW q \in Requests
      PROVE  Current(ctx'[q], records', repoVersion') /\ Unstaged(pc'[q], ctx'[q])
  <2>1. q = r
    BY DEF OneAtATime
  <2>2. ctx'[q] = c /\ pc'[q] = s
    BY <2>1 DEF Goto, SInv, IInv, TypeOK
  <2>3. QED
    BY <2>2 DEF db
<1>2. QED
  BY <1>1 DEF AllCurrent

LEMMA BlankGoto ==
    ASSUME SInv, OneAtATime, NEW r \in Requests, NEW s, NEW c,
           Goto(r, s, c), UNCHANGED db, Blank(c), Unstaged(s, c)
    PROVE  AllCurrent'
  BY BlankCurrent, GotoCurrent

LEMMA AnswerCurrent ==
    ASSUME SInv, OneAtATime, NEW r \in Requests, NEW code, Answer(r, code)
    PROVE  AllCurrent'
  BY BlankContexts, BlankGoto DEF Answer, Unstaged

\* What Found and Original say of a record when nothing else runs.
LEMMA FoundCurrent ==
    ASSUME SInv, NEW r \in Requests, NEW id \in Ids, Found(r, id) # None
    PROVE  /\ Original(r, id) # None =>
                 Original(r, id) = records[id] /\ Newer(Original(r, id), Found(r, id))
           /\ Original(r, id) # Found(r, id) =>
                 ctx[r].touched # {} \/ \E p \in Repos : ctx[r].vers[p] > 0
<1>1. Current(ctx[r], records, repoVersion)
  BY DEF SInv, AllCurrent
<1>2. CASE ctx[r].curr[id] # None
  <2>1. Found(r, id) = ctx[r].curr[id] /\ Original(r, id) = ctx[r].orig[id]
    BY <1>2 DEF Found, Original
  <2>2. Original(r, id) # Found(r, id) => Inserts(ctx[r], id) \/ Updates(ctx[r], id)
    BY <1>2, <2>1 DEF Inserts, Updates
  <2>3. QED
    BY <1>1, <1>2, <2>1, <2>2 DEF Current, RowsCurrent, Announced, Changes
<1>3. CASE ctx[r].curr[id] = None
  <2>1. Found(r, id) = records[id] /\ Original(r, id) = records[id]
    BY <1>3 DEF Found, Original
  <2>2. records[id] \in Record
    BY <2>1 DEF SInv, IInv, TypeOK, Row
  <2>3. Newer(records[id], records[id])
    BY <2>2 DEF Newer, Record, Version
  <2>4. QED
    BY <2>1, <2>3
<1>4. QED
  BY <1>2, <1>3

\* Whatever a push decides about a change, its context stays current.
LEMMA JudgeCurrent ==
    ASSUME SInv, NEW r \in Requests, ctx[r].kind = "push", ctx[r].todo # <<>>
    PROVE  Current(Judge(r, Head(ctx[r].todo)), records, repoVersion)
<1> DEFINE x == ctx[r]
           c == Head(x.todo)
           rec == Found(r, c.id)
           orig == Original(r, c.id)
<1>1. x \in Context /\ x.todo # <<>> /\ Current(x, records, repoVersion) /\ IInv
  BY DEF SInv, AllCurrent, IInv, TypeOK
<1>2. c \in Change /\ c.id \in Ids /\ c.repo \in Repos
  <2>1. c \in Change
    BY <1>1, HeadTailProperties DEF Context
  <2>2. QED
    BY <2>1 DEF Change
<1>3. rec \in Row /\ orig \in Row
  BY <1>1, <1>2, FoundRow
<1>4. rec # None =>
        /\ orig # None => orig = records[c.id] /\ Newer(orig, rec)
        /\ orig # rec => x.touched # {} \/ \E p \in Repos : x.vers[p] > 0
  BY <1>2, FoundCurrent
<1>5. Judge(r, c) =
        IF rec = None
        THEN Tracking(Accepting(x, c, 1), c.id, None, NewRecord(c))
        ELSE IF c.expected = rec.version
        THEN Tracking(Accepting(x, c, rec.version + 1), c.id, orig, Overwritten(rec, c))
        ELSE Tracking(Refusing(x, c, rec.version), c.id, orig, rec)
  BY DEF Judge
<1>6. ASSUME NEW v \in Version
      PROVE  /\ Accepting(x, c, v) \in Context /\ Refusing(x, c, v) \in Context
             /\ Current(Accepting(x, c, v), records, repoVersion)
             /\ Current(Refusing(x, c, v), records, repoVersion)
             /\ Accepting(x, c, v).touched # {}
             /\ Refusing(x, c, v).touched = x.touched
             /\ Refusing(x, c, v).vers = x.vers
  <2> DEFINE a == Accepting(x, c, v)
             f == Refusing(x, c, v)
  <2>1. /\ a \in Context /\ a.vers = x.vers /\ a.orig = x.orig /\ a.curr = x.curr
        /\ a.touched = x.touched \cup {c.repo}
    BY <1>1, TailContext
  <2>2. /\ f \in Context /\ f.vers = x.vers /\ f.orig = x.orig /\ f.curr = x.curr
        /\ f.touched = x.touched
    BY <1>1, TailContext
  <2> HIDE DEF a, f, x, c
  <2>3. Current(a, records, repoVersion)
    BY <1>1, <2>1, SameCurrent
  <2>4. Current(f, records, repoVersion)
    BY <1>1, <2>2, SameCurrent
  <2>5. QED
    BY <2>1, <2>2, <2>3, <2>4 DEF a, f
<1>7. 1 \in Version /\ None \in Row
      /\ (rec # None => rec \in Record /\ rec.version \in Version
                        /\ rec.version + 1 \in Version)
  BY <1>3 DEF Version, Row, Record
<1> HIDE DEF x, c, rec, orig
<1>8. CASE rec = None
  <2>1. NewRecord(c) \in Record
    BY <1>2, RecordOperators
  <2>2. Current(Tracking(Accepting(x, c, 1), c.id, None, NewRecord(c)), records, repoVersion)
    BY <1>2, <1>6, <1>7, <2>1, TrackingCurrent
  <2>3. QED
    BY <1>5, <1>8, <2>2 DEF x, c
<1>9. CASE rec # None /\ c.expected = rec.version
  <2> DEFINE y == Accepting(x, c, rec.version + 1)
             n == Overwritten(rec, c)
  <2>1. y \in Context /\ Current(y, records, repoVersion) /\ y.touched # {}
    BY <1>6, <1>7, <1>9
  <2>2. n \in Record /\ n.version = rec.version + 1
    BY <1>2, <1>7, <1>9, RecordOperators, VersionsGrow
  <2> HIDE DEF y, n
  <2>3. orig # None => orig = records[c.id] /\ Newer(orig, n)
    <3>1. orig # None => orig \in Record
      BY <1>3 DEF Row
    <3>2. QED
      BY <1>4, <1>7, <1>9, <2>2, <3>1, NewerStill
  <2>4. Current(Tracking(y, c.id, orig, n), records, repoVersion)
    BY <1>2, <1>3, <2>1, <2>2, <2>3, TrackingCurrent
  <2>5. QED
    BY <1>5, <1>9, <2>4 DEF x, c, y, n
<1>10. CASE rec # None /\ c.expected # rec.version
  <2> DEFINE y == Refusing(x, c, rec.version)
  <2>1. /\ y \in Context /\ Current(y, records, repoVersion)
        /\ y.touched = x.touched /\ y.vers = x.vers
    BY <1>6, <1>7, <1>10
  <2> HIDE DEF y
  <2>2. Current(Tracking(y, c.id, orig, rec), records, repoVersion)
    BY <1>2, <1>3, <1>4, <1>7, <1>10, <2>1, TrackingCurrent
  <2>3. QED
    BY <1>5, <1>10, <2>2 DEF x, c, y
<1>11. QED
  BY <1>8, <1>9, <1>10

-----------------------------------------------------------------------------
\* One lemma per handler.

LEMMA ReceiveCurrent ==
    ASSUME SInv, OneAtATime, NEW r \in Requests,
           ReceivePush(r) \/ ReceiveCreate(r) \/ ReceiveUpdate(r) \/ ReceiveRemove(r)
    PROVE  AllCurrent'
<1>1. ASSUME NEW kind, NEW u, NEW todo, NEW s, Receive(r, kind, u, todo, s),
             ~(s = "access" /\ kind \in {"update", "remove"})
      PROVE  AllCurrent'
  <2>1. Unstaged(s, Fresh(kind, u, todo))
    BY <1>1 DEF Unstaged, Fresh
  <2>2. QED
    BY <1>1, <2>1, BlankContexts, BlankGoto DEF Receive
<1>2. QED
  BY <1>1 DEF ReceivePush, ReceiveCreate, ReceiveUpdate, ReceiveRemove

LEMMA PushAccessCurrent ==
    ASSUME SInv, OneAtATime, NEW r \in Requests, PushAccess(r)
    PROVE  AllCurrent'
<1> DEFINE x == ctx[r]
           p == Head(x.todo).repo
           skipped == [x EXCEPT !.todo = Tail(@)]
           known == [x EXCEPT !.known = @ \cup {p}]
<1>1. x \in Context /\ x.kind = "push" /\ Current(x, records, repoVersion) /\ UNCHANGED db
  BY DEF SInv, AllCurrent, IInv, TypeOK, PushAccess
<1>2. /\ known.kind = "push" /\ known.orig = x.orig /\ known.curr = x.curr
      /\ known.vers = x.vers /\ known.touched = x.touched
  BY <1>1 DEF Context
<1>3. /\ skipped.kind = "push" /\ skipped.orig = x.orig /\ skipped.curr = x.curr
      /\ skipped.vers = x.vers /\ skipped.touched = x.touched
  BY <1>1 DEF Context
<1>4. Goto(r, "find", known) \/ Goto(r, AfterChange(skipped), skipped)
  BY DEF PushAccess
<1> HIDE DEF x, skipped, known
<1>5. Current(known, records, repoVersion) /\ Current(skipped, records, repoVersion)
  BY <1>1, <1>2, <1>3, SameCurrent
<1>6. \A s : Unstaged(s, known) /\ Unstaged(s, skipped)
  BY <1>2, <1>3 DEF Unstaged
<1>7. QED
  BY <1>1, <1>4, <1>5, <1>6, GotoCurrent

LEMMA PushChangeCurrent ==
    ASSUME SInv, OneAtATime, NEW r \in Requests, PushChange(r)
    PROVE  AllCurrent'
<1> DEFINE j == Judge(r, Head(ctx[r].todo))
<1>1. Goto(r, AfterChange(j), j) /\ UNCHANGED db
  BY DEF PushChange
<1>2. j.kind = "push" /\ Current(j, records, repoVersion)
  BY JudgeSound, JudgeCurrent DEF PushChange, SInv
<1> HIDE DEF j
<1>3. Unstaged(AfterChange(j), j)
  BY <1>2 DEF Unstaged
<1>4. QED
  BY <1>1, <1>2, <1>3, GotoCurrent

\* A staged change is of the stored row, and newer; or it is a record to insert.
LEMMA StageCurrent ==
    ASSUME SInv, OneAtATime, NEW r \in Requests, NEW id \in Ids, NEW o \in Row,
           NEW n \in Record, NEW p \in Repos, Stage(r, id, o, n, p), UNCHANGED db,
           o # None => o = records[id] /\ Newer(o, n)
    PROVE  AllCurrent'
<1> DEFINE x == ctx[r]
           y == [x EXCEPT !.known = @ \cup {p}, !.touched = @ \cup {p}]
           t == Tracking(y, id, o, n)
<1>1. x \in Context /\ Current(x, records, repoVersion)
  BY DEF SInv, AllCurrent, IInv, TypeOK
<1>2. /\ y \in Context /\ y.touched = x.touched \cup {p} /\ y.vers = x.vers
      /\ y.orig = x.orig /\ y.curr = x.curr
  BY <1>1 DEF Context
<1>3. Goto(r, "bump", t)
  BY DEF Stage
<1> HIDE DEF x, y
<1>4. Current(y, records, repoVersion) /\ y.touched # {}
  BY <1>1, <1>2, SameCurrent
<1>5. Current(t, records, repoVersion)
  BY <1>2, <1>4, TrackingCurrent
<1>6. QED
  BY <1>3, <1>5, GotoCurrent DEF Unstaged

LEMMA CreateRecordCurrent ==
    ASSUME SInv, OneAtATime, NEW r \in Requests, CreateRecord(r)
    PROVE  AllCurrent'
<1> DEFINE c == Head(ctx[r].todo)
<1>1. c \in Change /\ c.id \in Ids /\ c.repo \in Repos
  BY CarriedChange DEF CreateRecord, SInv
<1>2. NewRecord(c) \in Record /\ None \in Row
  BY <1>1, RecordOperators DEF Row
<1>3. CASE Answer(r, 403)
  BY <1>3, AnswerCurrent
<1>4. CASE Stage(r, c.id, None, NewRecord(c), c.repo) /\ UNCHANGED db
  BY <1>1, <1>2, <1>4, StageCurrent
<1>5. QED
  BY <1>3, <1>4 DEF CreateRecord

LEMMA FindRecordCurrent ==
    ASSUME SInv, OneAtATime, NEW r \in Requests, FindRecord(r)
    PROVE  AllCurrent'
<1> DEFINE x == ctx[r]
           id == Head(x.todo).id
           t == Tracking(x, id, records[id], records[id])
<1>1. x \in Context /\ id \in Ids /\ Current(x, records, repoVersion)
  BY CarriedChange DEF FindRecord, SInv, AllCurrent
<1>2. CASE Answer(r, 404)
  BY <1>2, AnswerCurrent
<1>3. CASE records[id] # None /\ Goto(r, "access", t) /\ UNCHANGED db
  <2>1. records[id] \in Record /\ records[id] \in Row
    BY <1>1, <1>3 DEF SInv, IInv, TypeOK, Row
  <2>2. Newer(records[id], records[id])
    BY <2>1 DEF Newer, Record, Version
  <2>3. Current(t, records, repoVersion)
    <3> HIDE DEF x, id
    <3>1. QED
      BY <1>1, <2>1, <2>2, TrackingCurrent
  <2>4. t.orig[id] = t.curr[id] /\ t.todo = x.todo
    <3>1. /\ t.orig = [x.orig EXCEPT ![id] = records[id]]
          /\ t.curr = [x.curr EXCEPT ![id] = records[id]] /\ t.todo = x.todo
      <4> HIDE DEF x, id
      <4>1. QED
        BY <1>1, <2>1, TrackingContext
    <3> HIDE DEF x, id, t
    <3>2. QED
      BY <1>1, <3>1 DEF Context
  <2>5. Unstaged("access", t)
    BY <2>4 DEF Unstaged
  <2>6. QED
    BY <1>3, <2>3, <2>5, GotoCurrent
<1>4. QED
  BY <1>2, <1>3 DEF FindRecord

LEMMA ChangeRecordCurrent ==
    ASSUME SInv, OneAtATime, NEW r \in Requests, ChangeRecord(r)
    PROVE  AllCurrent'
<1> DEFINE x == ctx[r]
           c == Head(x.todo)
           rec == x.curr[c.id]
           changed == IF x.kind = "update" THEN Overwritten(rec, c) ELSE Tombstoned(rec)
<1>1. /\ c \in Change /\ c.id \in Ids
      /\ Sound("access", x) /\ x \in Context /\ x.kind \in {"update", "remove"}
  BY CarriedChange DEF ChangeRecord, SInv
<1>2. rec \in Record
  BY <1>1 DEF Sound, HasChange, Context, Row
<1>3. Newer(rec, changed) /\ changed \in Record
  <2>1. Newer(rec, rec) /\ changed.version = rec.version + 1 /\ changed \in Record
    BY <1>1, <1>2, RecordOperators, VersionsGrow
  <2>2. QED
    BY <1>2, <2>1, NewerStill
<1>4. CASE Answer(r, 403) \/ Answer(r, 409)
  BY <1>4, AnswerCurrent
<1>5. CASE Stage(r, c.id, rec, changed, rec.repo) /\ UNCHANGED db
  <2>1. rec = records[c.id]
    <3>1. x.orig[c.id] = rec /\ Current(x, records, repoVersion)
      BY <1>1 DEF SInv, AllCurrent, Unstaged, ChangeRecord
    <3>2. rec # None
      BY <1>2, NoneAssumption
    <3>3. QED
      BY <1>1, <3>1, <3>2 DEF Current, RowsCurrent
  <2>2. rec.repo \in Repos /\ rec \in Row
    BY <1>2 DEF Record, Row
  <2>3. QED
    BY <1>1, <1>2, <1>3, <1>5, <2>1, <2>2, StageCurrent
<1>6. QED
  BY <1>4, <1>5 DEF ChangeRecord

LEMMA IncrementCurrent ==
    ASSUME SInv, OneAtATime, NEW r \in Requests, IncrementRepoVersion(r)
    PROVE  AllCurrent'
<1> DEFINE x == ctx[r]
<1>1. x \in Context /\ Current(x, records, repoVersion) /\ repoVersion \in [Repos -> Nat]
  BY DEF SInv, AllCurrent, IInv, TypeOK
<1>2. PICK p \in x.touched :
        LET c == [x EXCEPT !.touched = @ \ {p}, !.vers[p] = repoVersion[p] + 1]
        IN Goto(r, IF c.touched = {} THEN "save" ELSE "bump", c)
  BY DEF IncrementRepoVersion
<1> DEFINE c == [x EXCEPT !.touched = @ \ {p}, !.vers[p] = repoVersion[p] + 1]
           s == IF c.touched = {} THEN "save" ELSE "bump"
<1>3. Goto(r, s, c) /\ UNCHANGED db /\ s # "access"
  BY <1>2 DEF IncrementRepoVersion
<1>4. p \in Repos
  BY <1>1, <1>2 DEF Context
<1>5. c.orig = x.orig /\ c.curr = x.curr /\ c.vers = [x.vers EXCEPT ![p] = repoVersion[p] + 1]
  BY <1>1 DEF Context
<1>6. x.vers \in [Repos -> Nat]
  BY <1>1 DEF Context
<1> HIDE DEF x, c, s
<1>7. /\ c.vers[p] = repoVersion[p] + 1 /\ c.vers[p] > 0
      /\ \A q \in Repos : q # p => c.vers[q] = x.vers[q]
  BY <1>1, <1>4, <1>5, <1>6
<1>8. RowsCurrent(c, records) /\ CountersCurrent(c, repoVersion) /\ Announced(c)
  BY <1>1, <1>4, <1>5, <1>7 DEF Current, RowsCurrent, CountersCurrent, Announced
<1>9. QED
  BY <1>3, <1>8, GotoCurrent DEF Current, Unstaged

\* DELETE /repos/{id} tracks no record and no counter to write.
LEMMA DeleteRepoCurrent ==
    ASSUME SInv, OneAtATime, NEW r \in Requests, ReadRepo(r) \/ ReadMembers(r) \/ ReadRows(r)
    PROVE  AllCurrent'
<1>1. CASE ReadRepo(r)
  <2>1. PICK u \in Users, p \in Repos :
          \/ Answer(r, 404) \/ Answer(r, 400)
          \/ Goto(r, "members", Deleting(u, p)) /\ UNCHANGED db
    BY <1>1 DEF ReadRepo
  <2>2. QED
    BY <2>1, AnswerCurrent, BlankContexts, BlankGoto DEF Unstaged
<1>2. CASE ReadMembers(r) \/ ReadRows(r)
  <2> DEFINE x == ctx[r]
             left == [x EXCEPT !.left =
                        {u \in Users : \E p \in x.known : <<p, u>> \in members}]
             gone == [x EXCEPT !.gone =
                        {id \in Ids : records[id] # None /\ records[id].repo \in x.known}]
  <2>1. x \in Context /\ Current(x, records, repoVersion)
    BY DEF SInv, AllCurrent, IInv, TypeOK
  <2>2. /\ left.orig = x.orig /\ left.curr = x.curr
        /\ left.vers = x.vers /\ left.touched = x.touched
    BY <2>1 DEF Context
  <2>3. /\ gone.orig = x.orig /\ gone.curr = x.curr
        /\ gone.vers = x.vers /\ gone.touched = x.touched
    BY <2>1 DEF Context
  <2>4. (Goto(r, "rows", left) \/ Goto(r, "save", gone)) /\ UNCHANGED db
    BY <1>2 DEF ReadMembers, ReadRows
  <2> HIDE DEF x, left, gone
  <2>5. Current(left, records, repoVersion) /\ Current(gone, records, repoVersion)
    BY <2>1, <2>2, <2>3, SameCurrent
  <2>6. QED
    BY <2>4, <2>5, GotoCurrent DEF Unstaged
<1>3. QED
  BY <1>1, <1>2

LEMMA EndCurrent ==
    ASSUME SInv, OneAtATime, NEW r \in Requests, SaveFails(r) \/ Respond(r) \/ Abort(r)
    PROVE  AllCurrent'
<1>1. CASE SaveFails(r)
  BY <1>1, AnswerCurrent DEF SaveFails
<1>2. CASE Respond(r) \/ Abort(r)
  BY <1>2, BlankContexts, BlankGoto DEF Respond, Abort, Unstaged
<1>3. QED
  BY <1>1, <1>2

LEMMA SaveCurrent ==
    ASSUME SInv, OneAtATime, NEW r \in Requests, Save(r)
    PROVE  AllCurrent'
<1> DEFINE d == Replied(200, ctx[r].accepted, ctx[r].conflicts)
<1>1. Goto(r, "done", d)
  BY DEF Save
<1>2. Blank(d)
  BY BlankContexts
<1> HIDE DEF d
<1>3. ASSUME NEW q \in Requests
      PROVE  Current(ctx'[q], records', repoVersion') /\ Unstaged(pc'[q], ctx'[q])
  <2>1. q = r
    BY DEF OneAtATime
  <2>2. ctx'[q] = d /\ pc'[q] = "done"
    BY <1>1, <2>1 DEF Goto, SInv, IInv, TypeOK
  <2>3. QED
    BY <1>2, <2>2, BlankCurrent DEF Unstaged
<1>4. QED
  BY <1>3 DEF AllCurrent

LEMMA InitSInv == Init => SInv
<1> SUFFICES ASSUME Init PROVE SInv
  OBVIOUS
<1>1. \A r \in Requests : ctx[r] = Idle /\ pc[r] = "idle"
  BY DEF Init
<1>2. AllCurrent
  BY <1>1, BlankContexts, BlankCurrent DEF AllCurrent, Unstaged
<1>3. QED
  BY <1>2, InitIInv DEF SInv

LEMMA NextSInv == OneAtATime /\ SInv /\ [Next]_vars => SInv'
<1> SUFFICES ASSUME OneAtATime, SInv, [Next]_vars PROVE AllCurrent'
  BY NextIInv DEF SInv
<1>1. ASSUME NEW r \in Requests, Handler(r) PROVE AllCurrent'
  BY <1>1, ReceiveCurrent, PushAccessCurrent, PushChangeCurrent, CreateRecordCurrent,
     FindRecordCurrent, ChangeRecordCurrent, DeleteRepoCurrent, IncrementCurrent,
     SaveCurrent, EndCurrent DEF Handler
<1>2. CASE Share \/ Unshare \/ UNCHANGED vars
  <2>1. UNCHANGED <<records, repoVersion, pc, ctx>>
    BY <1>2 DEF Share, Unshare, vars
  <2>2. QED
    BY <2>1 DEF SInv, AllCurrent
<1>3. QED
  BY <1>1, <1>2 DEF Next

LEMMA SerialInvariance == ASSUME OneAtATime PROVE Spec => []SInv
<1>1. SInv /\ [Next]_vars => SInv'
  BY NextSInv
<1>2. QED
  BY <1>1, InitSInv, PTL DEF Spec

-----------------------------------------------------------------------------
\* What a save does to one record when nothing else runs.
LEMMA SerialSave ==
    ASSUME SInv, NEW r \in Requests, Save(r), NEW id \in Ids,
           records'[id] # None, records'[id] # records[id]
    PROVE  /\ Inserts(ctx[r], id) \/ Updates(ctx[r], id)
           /\ records[id] # None => Newer(records[id], records'[id])
<1> DEFINE c == ctx[r]
<1>1. /\ records'[id] = Saved(c, id) /\ CanSave(c) /\ c \in Context
      /\ RowsCurrent(c, records) /\ records \in [Ids -> Row]
  BY DEF Save, Commit, SInv, AllCurrent, Current, IInv, TypeOK
<1> HIDE DEF c
<1>2. id \notin c.gone /\ (Inserts(c, id) \/ Updates(c, id))
  BY <1>1 DEF Saved
<1>3. CASE Inserts(c, id)
  BY <1>1, <1>2, <1>3 DEF CanSave, c
<1>4. CASE ~Inserts(c, id)
  <2>1. Updates(c, id) /\ records'[id] = Merged(c.orig[id], c.curr[id], records[id])
    BY <1>1, <1>2, <1>4 DEF Saved
  <2>2. c.orig[id] = records[id] /\ Newer(c.orig[id], c.curr[id])
    BY <1>1, <2>1 DEF Updates, RowsCurrent
  <2>3. /\ records'[id].blob = c.curr[id].blob
        /\ records'[id].version = c.curr[id].version
        /\ records'[id].deleted = c.curr[id].deleted
    BY <2>1, <2>2 DEF Merged, Column
  <2>4. QED
    BY <2>1, <2>2, <2>3 DEF Newer, c
<1>5. QED
  BY <1>3, <1>4

\* Only a save writes records or counters.
LEMMA OnlySaves ==
    ASSUME Next, \A r \in Requests : ~Save(r)
    PROVE  records' = records /\ repoVersion' = repoVersion
<1>1. ASSUME NEW r \in Requests, Handler(r), ~Save(r)
      PROVE  records' = records /\ repoVersion' = repoVersion
  BY <1>1 DEF Handler, ReceivePush, ReceiveCreate, ReceiveUpdate, ReceiveRemove, Receive,
              PushAccess, PushChange, CreateRecord, FindRecord, ChangeRecord, ReadRepo,
              ReadMembers, ReadRows, IncrementRepoVersion, SaveFails, Respond, Abort,
              Answer, db
<1>2. CASE Share \/ Unshare
  BY <1>2 DEF Share, Unshare
<1>3. QED
  BY <1>1, <1>2 DEF Next

(***************************************************************************)
(* A request alone in the server never changes the content of a record     *)
(* without raising its version: expected_version does what it is for.      *)
(***************************************************************************)
THEOREM SerialVersionsGuardContent ==
    ASSUME OneAtATime PROVE Spec => VersionsGuardContent
<1>1. SInv /\ [Next]_vars => [ContentHasNewVersion]_vars
  <2> SUFFICES ASSUME SInv, Next PROVE ContentHasNewVersion
    OBVIOUS
  <2>1. ASSUME NEW r \in Requests, Save(r) PROVE ContentHasNewVersion
    BY <2>1, SerialSave DEF ContentHasNewVersion, Newer
  <2>2. CASE \A r \in Requests : ~Save(r)
    BY <2>2, OnlySaves DEF ContentHasNewVersion
  <2>3. QED
    BY <2>1, <2>2
<1>2. QED
  BY <1>1, SerialInvariance, PTL DEF Spec, VersionsGuardContent

(***************************************************************************)
(* A request alone in the server that adds or changes a record raises the  *)
(* GlobalVersion of some repo, so a device that polls /status looks again. *)
(***************************************************************************)
THEOREM SerialChangesRaiseVersion ==
    ASSUME OneAtATime PROVE Spec => ChangesRaiseVersion
<1>1. SInv /\ [Next]_vars => [ChangeRaisesVersion]_vars
  <2> SUFFICES ASSUME SInv, Next PROVE ChangeRaisesVersion
    OBVIOUS
  <2>1. repoVersion \in [Repos -> Nat]
    BY DEF SInv, IInv, TypeOK
  <2>2. ASSUME NEW r \in Requests, Save(r) PROVE ChangeRaisesVersion
    <3>1. /\ ctx[r].touched = {} /\ ctx[r].vers \in [Repos -> Nat]
          /\ Announced(ctx[r]) /\ CountersCurrent(ctx[r], repoVersion)
      BY <2>2 DEF Save, SInv, AllCurrent, Current, IInv, TypeOK, Context, Sound, Counted
    <3>2. \A p \in Repos :
            repoVersion'[p] = IF ctx[r].vers[p] > 0 THEN repoVersion[p] + 1 ELSE repoVersion[p]
      BY <2>2, <3>1 DEF Save, Commit, CountersCurrent
    <3>3. ASSUME NEW id \in Ids, records'[id] # None, records'[id] # records[id]
          PROVE  \E p \in Repos : repoVersion'[p] > repoVersion[p]
      <4>1. PICK p \in Repos : ctx[r].vers[p] > 0
        BY <2>2, <3>1, <3>3, SerialSave DEF Announced, Changes
      <4>2. QED
        BY <2>1, <3>2, <4>1
    <3>4. \A p \in Repos : repoVersion'[p] >= repoVersion[p]
      BY <2>1, <3>2
    <3>5. QED
      BY <3>3, <3>4 DEF ChangeRaisesVersion
  <2>3. CASE \A r \in Requests : ~Save(r)
    BY <2>1, <2>3, OnlySaves DEF ChangeRaisesVersion
  <2>4. QED
    BY <2>2, <2>3
<1>2. QED
  BY <1>1, SerialInvariance, PTL DEF Spec, ChangesRaiseVersion

-----------------------------------------------------------------------------
(***************************************************************************)
(* The refinement.  AllWork relates the context of the only request under  *)
(* way to what the store would have done at that point: a push that has n  *)
(* changes of its batch behind it holds Pushing(...)[n], and a POST, PUT   *)
(* or DELETE that awaits its save holds the row the store would put there. *)
(***************************************************************************)
\* There is exactly one slot.
OneSlot == \E r : Requests = {r}

\* The repos in a user's reach.
Reach(existing, memberships, u) == {p \in Repos : HasRepoAccess(existing, memberships, p, u)}

\* The repos whose counters the request raises, or has raised already.
Announcing(c) == c.touched \cup {p \in Repos : c.vers[p] > 0}

\* Context c of a push holds what SyncPush says it has done so far, acc.
PushedSoFar(c, acc, rows) ==
    /\ c.accepted = acc.accepted /\ c.conflicts = acc.conflicts
    /\ acc.touched = Announcing(c)
    /\ \A id \in Ids :
          /\ acc.rows[id] = IF c.curr[id] # None THEN c.curr[id] ELSE rows[id]
          /\ c.curr[id] # None /\ c.orig[id] = None => rows[id] = None

PushWorks(s, c, rows, reach) ==
    /\ s \in {"access", "find", "bump", "save"}
    /\ \E b \in Batches : \E n \in 0..Len(b) :
          /\ Len(c.todo) = Len(b) - n /\ \A i \in 1..Len(c.todo) : c.todo[i] = b[n + i]
          /\ s \in {"bump", "save"} => n = Len(b)
          /\ PushedSoFar(c, Pushing(PushStart(rows, <<>>), b, reach)[n], rows)
    /\ s = "find" => Head(c.todo).repo \in reach

\* POST, PUT and DELETE /otp: the row the request would leave, and the repo it is about.
Outcome(kind, row, e) ==
    IF kind = "create" THEN NewRecord(e)
    ELSE IF kind = "update" THEN Overwritten(row, e) ELSE Tombstoned(row)

Staged(c, e, rows, reach) ==
    LET row == rows[e.id]
        repo == IF c.kind = "create" THEN e.repo ELSE row.repo
    IN /\ c.kind # "create" => row # None /\ row.version = e.expected /\ c.orig[e.id] = row
       /\ c.kind = "create" => c.orig[e.id] = None
       /\ repo \in reach /\ Announcing(c) = {repo}
       /\ c.curr[e.id] = Outcome(c.kind, row, e)

EditWorks(s, c, rows, reach) ==
    /\ s \in {"access", "find", "bump", "save"}
    /\ \E e \in Edits :
          /\ c.todo = <<e>> /\ c.accepted = <<>> /\ c.conflicts = <<>>
          /\ \A id \in Ids : id # e.id => c.curr[id] = None
          /\ s = "find" \/ (s = "access" /\ c.kind = "create") => c.curr[e.id] = None
          /\ s \in {"find", "access"} => Announcing(c) = {}
          /\ s = "access" /\ c.kind # "create" =>
                rows[e.id] # None /\ c.curr[e.id] = rows[e.id] /\ c.orig[e.id] = rows[e.id]
          /\ s \in {"bump", "save"} => Staged(c, e, rows, reach)

DeleteWorks(s, c, rows, existing, memberships) ==
    /\ s \in {"members", "rows", "save"}
    /\ Blank(c) /\ c.accepted = <<>> /\ c.conflicts = <<>>
    /\ \E p \in existing \ DefaultRepos :
          /\ Owner[p] = c.user /\ c.known = {p}
          /\ \A u \in c.left : <<p, u>> \in memberships
          /\ s = "save" => c.gone = {id \in Ids : rows[id] # None /\ rows[id].repo = p}

Working(s, c, rows, existing, memberships) ==
    /\ c.user \in Users /\ c.known \subseteq existing
    /\ \/ c.kind = "push" /\ c.gone = {}
          /\ PushWorks(s, c, rows, Reach(existing, memberships, c.user))
       \/ c.kind \in {"create", "update", "remove"} /\ c.gone = {}
          /\ EditWorks(s, c, rows, Reach(existing, memberships, c.user))
       \/ c.kind = "deleteRepo" /\ DeleteWorks(s, c, rows, existing, memberships)

AllWork ==
    /\ \A m \in members : m[1] \in repos
    /\ \A r \in Requests : pc[r] \notin {"idle", "done"} =>
          Working(pc[r], ctx[r], records, repos, members)

RInv == SInv /\ AllWork

\* What the store would answer, if a reply is on its way.
Reply ==
    IF pc[Slot] = "done"
    THEN [status |-> ctx[Slot].status, accepted |-> ctx[Slot].accepted,
          conflicts |-> ctx[Slot].conflicts]
    ELSE None

-----------------------------------------------------------------------------
\* The operators of the store are those of the handlers.
LEMMA StoreOperators ==
    /\ \A c : Store!NewRecord(c) = NewRecord(c)
    /\ \A rec, c : Store!Overwritten(rec, c) = Overwritten(rec, c)
    /\ \A rec : Store!Tombstoned(rec) = Tombstoned(rec)
    /\ \A rows, log : Store!PushStart(rows, log) = PushStart(rows, log)
    /\ \A counters, touched : Store!Raised(counters, touched) = Raised(counters, touched)
    /\ \A u : Store!Reachable(u) = Reach(repos, members, u)
  BY DEF Store!NewRecord, NewRecord, Store!Overwritten, Overwritten,
         Store!Tombstoned, Tombstoned, Store!PushStart, PushStart, Store!Raised, Raised,
         Store!Reachable, Reach, Store!HasRepoAccess, HasRepoAccess

LEMMA StorePush ==
    \A start, changes, allowed :
        Store!Pushed(start, changes, allowed) = Pushed(start, changes, allowed)
<1>1. \A start, changes, allowed :
        Store!Pushing(start, changes, allowed) = Pushing(start, changes, allowed)
  BY DEF Store!Pushing, Pushing, Store!PushOne, PushOne, Store!Accept, Accept,
         Store!NewRecord, NewRecord, Store!Overwritten, Overwritten
<1>2. QED
  BY <1>1 DEF Store!Pushed, Pushed

LEMMA TheSlot ==
    ASSUME OneSlot, NEW r \in Requests
    PROVE  Slot = r /\ OneAtATime /\ Requests = {r}
<1>1. Requests = {r}
  BY DEF OneSlot
<1>2. Slot \in Requests
  BY DEF Slot
<1>3. QED
  BY <1>1, <1>2 DEF OneAtATime

-----------------------------------------------------------------------------
\* The reply, before and after a step of the handler.
LEMMA NoReply ==
    ASSUME OneSlot, NEW r \in Requests
    PROVE  pc[r] # "done" => Reply = None
  BY TheSlot DEF Reply

LEMMA GotoReply ==
    ASSUME SInv, OneSlot, NEW r \in Requests, NEW s, NEW c, Goto(r, s, c)
    PROVE  /\ s # "done" => Reply' = None
           /\ s = "done" => Reply' = [status |-> c.status, accepted |-> c.accepted,
                                      conflicts |-> c.conflicts]
           /\ pc'[r] = s /\ ctx'[r] = c
<1>1. pc'[r] = s /\ ctx'[r] = c
  BY DEF Goto, SInv, IInv, TypeOK
<1>2. Slot = r
  BY TheSlot
<1>3. Slot' = r
  BY <1>2 DEF Slot
<1>4. QED
  BY <1>1, <1>2, <1>3 DEF Reply

LEMMA RepliedReply ==
    ASSUME SInv, OneSlot, NEW r \in Requests, NEW code, NEW a, NEW b,
           Goto(r, "done", Replied(code, a, b))
    PROVE  Reply' = Store!Answer(code, a, b)
<1>1. /\ Replied(code, a, b).status = code /\ Replied(code, a, b).accepted = a
      /\ Replied(code, a, b).conflicts = b
  BY IdleContext DEF Replied, Context
<1>2. QED
  BY <1>1, GotoReply DEF Store!Answer

\* A step between two awaits that saves and answers nothing is none of the store's.
LEMMA GotoStutters ==
    ASSUME SInv, OneSlot, NEW r \in Requests, NEW s, NEW c, Goto(r, s, c),
           s # "done", pc[r] # "done", UNCHANGED db
    PROVE  UNCHANGED Store!vars
<1>1. Reply' = Reply
  BY NoReply, GotoReply
<1>2. QED
  BY <1>1 DEF db, Reply, Store!vars

LEMMA AnswerRefuses ==
    ASSUME SInv, OneSlot, NEW r \in Requests, NEW code, Answer(r, code), pc[r] # "done"
    PROVE  Reply = None /\ Store!Refuse(code)
<1>1. Reply = None /\ Reply' = Store!Answer(code, <<>>, <<>>)
  BY NoReply, RepliedReply DEF Answer
<1>2. QED
  BY <1>1 DEF Answer, db, Reply, Store!Refuse, Store!db

-----------------------------------------------------------------------------
\* The only request goes on, and works as AllWork says.
LEMMA GotoWorks ==
    ASSUME RInv, OneSlot, NEW r \in Requests, NEW s, NEW c, Goto(r, s, c), UNCHANGED db,
           s \notin {"idle", "done"} => Working(s, c, records, repos, members)
    PROVE  AllWork'
<1>1. pc'[r] = s /\ ctx'[r] = c /\ \A q \in Requests : q = r
  BY TheSlot, GotoReply DEF RInv, OneAtATime
<1>2. QED
  BY <1>1 DEF AllWork, RInv, db

\* What the fields of a context that was just made are.
LEMMA FreshFields ==
    ASSUME NEW kind, NEW u, NEW todo
    PROVE  LET c == Fresh(kind, u, todo)
           IN /\ c.kind = kind /\ c.user = u /\ c.todo = todo /\ c.known = {} /\ c.gone = {}
              /\ c.accepted = <<>> /\ c.conflicts = <<>> /\ c.touched = {}
              /\ \A id \in Ids : c.curr[id] = None /\ c.orig[id] = None
              /\ \A p \in Repos : c.vers[p] = 0
  BY DEF Fresh, NoRows

LEMMA ReceivePushWorks ==
    ASSUME RInv, OneSlot, NEW r \in Requests, ReceivePush(r)
    PROVE  AllWork'
<1>1. PICK u \in Users, b \in Batches :
         Receive(r, "push", u, b, IF b # <<>> THEN "access" ELSE "save")
  BY DEF ReceivePush
<1> DEFINE s == IF b # <<>> THEN "access" ELSE "save"
           c == Fresh("push", u, b)
           reach == Reach(repos, members, u)
<1>2. /\ c.kind = "push" /\ c.user = u /\ c.todo = b /\ c.known = {} /\ c.gone = {}
      /\ c.accepted = <<>> /\ c.conflicts = <<>> /\ c.touched = {}
      /\ \A id \in Ids : c.curr[id] = None /\ c.orig[id] = None
      /\ \A p \in Repos : c.vers[p] = 0
  BY FreshFields
<1> HIDE DEF c
<1>3. b \in Seq(Change) /\ Len(b) \in Nat
  BY BatchesAssumption
<1>4. Pushing(PushStart(records, <<>>), b, reach)[0] = PushStart(records, <<>>)
  BY <1>3, PushingSteps
<1>5. Announcing(c) = {}
  BY <1>2 DEF Announcing
<1>6. PushedSoFar(c, Pushing(PushStart(records, <<>>), b, reach)[0], records)
  <2>1. PushedSoFar(c, PushStart(records, <<>>), records)
    BY <1>2, <1>5 DEF PushedSoFar, PushStart
  <2>2. QED
    BY <1>4, <2>1
<1>7. Len(c.todo) = Len(b) - 0 /\ \A i \in 1..Len(c.todo) : c.todo[i] = b[0 + i]
  BY <1>2, <1>3
<1>8. s \in {"access", "save"} /\ (s = "save" => Len(b) = 0)
  BY <1>3
<1> HIDE DEF s, reach
<1>9. PushWorks(s, c, records, reach)
  BY <1>3, <1>6, <1>7, <1>8 DEF PushWorks
<1>10. Working(s, c, records, repos, members)
  BY <1>2, <1>9 DEF Working, reach
<1>11. QED
  BY <1>1, <1>10, GotoWorks DEF Receive, s, c

LEMMA ReceiveEditWorks ==
    ASSUME RInv, OneSlot, NEW r \in Requests,
           ReceiveCreate(r) \/ ReceiveUpdate(r) \/ ReceiveRemove(r)
    PROVE  AllWork'
<1>1. ASSUME NEW kind \in {"create", "update", "remove"}, NEW u \in Users, NEW e \in Edits,
             NEW s \in {"access", "find"}, s = "access" => kind = "create",
             Receive(r, kind, u, <<e>>, s)
      PROVE  AllWork'
  <2> DEFINE c == Fresh(kind, u, <<e>>)
  <2>1. /\ c.kind = kind /\ c.user = u /\ c.todo = <<e>> /\ c.known = {} /\ c.gone = {}
        /\ c.accepted = <<>> /\ c.conflicts = <<>> /\ c.touched = {}
        /\ \A id \in Ids : c.curr[id] = None /\ c.orig[id] = None
        /\ \A p \in Repos : c.vers[p] = 0
    BY FreshFields
  <2> HIDE DEF c
  <2>2. e.id \in Ids
    BY EditsAssumption DEF Change
  <2>3. Announcing(c) = {}
    BY <2>1 DEF Announcing
  <2>4. EditWorks(s, c, records, Reach(repos, members, u))
    BY <1>1, <2>1, <2>2, <2>3 DEF EditWorks
  <2>5. Working(s, c, records, repos, members)
    BY <1>1, <2>1, <2>4 DEF Working
  <2>6. QED
    BY <1>1, <2>5, GotoWorks DEF Receive, c
<1>2. QED
  BY <1>1 DEF ReceiveCreate, ReceiveUpdate, ReceiveRemove

-----------------------------------------------------------------------------
\* What a lone request that is under way knows.
LEMMA WorkNow ==
    ASSUME RInv, NEW r \in Requests, pc[r] \notin {"idle", "done"}
    PROVE  /\ Working(pc[r], ctx[r], records, repos, members) /\ ctx[r] \in Context
           /\ records \in [Ids -> Row] /\ repos \subseteq Repos
           /\ Current(ctx[r], records, repoVersion) /\ Sound(pc[r], ctx[r])
  BY DEF RInv, AllWork, SInv, AllCurrent, IInv, TypeOK

\* The access check of a handler gives what the store's does.
LEMMA AccessReach ==
    ASSUME RInv, NEW r \in Requests, pc[r] \notin {"idle", "done"}, NEW p \in Repos
    PROVE  Access(r, p) <=> p \in Reach(repos, members, ctx[r].user)
<1>1. ctx[r].known \subseteq repos
  BY WorkNow DEF Working
<1>2. QED
  BY <1>1 DEF Access, Reach, HasRepoAccess

\* A push under way: where it is in its batch, and what it has done so far.
LEMMA PushNow ==
    ASSUME RInv, NEW r \in Requests, pc[r] \notin {"idle", "done"}, ctx[r].kind = "push",
           NEW reach, reach = Reach(repos, members, ctx[r].user)
    PROVE  /\ ctx[r].user \in Users /\ ctx[r].known \subseteq repos /\ ctx[r].gone = {}
           /\ pc[r] \in {"access", "find", "bump", "save"}
           /\ pc[r] = "find" => Head(ctx[r].todo).repo \in reach
           /\ \E b \in Batches : \E n \in 0..Len(b) :
                 /\ Len(ctx[r].todo) = Len(b) - n
                 /\ \A i \in 1..Len(ctx[r].todo) : ctx[r].todo[i] = b[n + i]
                 /\ pc[r] \in {"bump", "save"} => n = Len(b)
                 /\ PushedSoFar(ctx[r], Pushing(PushStart(records, <<>>), b, reach)[n], records)
<1>1. Working(pc[r], ctx[r], records, repos, members)
  BY WorkNow
<1>2. /\ ctx[r].user \in Users /\ ctx[r].known \subseteq repos /\ ctx[r].gone = {}
      /\ PushWorks(pc[r], ctx[r], records, reach)
  BY <1>1 DEF Working
<1>3. QED
  BY <1>2 DEF PushWorks

\* The state of the store's push after any number of its changes.
LEMMA PushTypes ==
    ASSUME NEW b \in Seq(Change), NEW rows \in [Ids -> Row], NEW reach
    PROVE  /\ \A n \in 0..Len(b) :
                 Pushing(PushStart(rows, <<>>), b, reach)[n] \in PushState(Change)
           /\ \A n \in 1..Len(b) :
                 Pushing(PushStart(rows, <<>>), b, reach)[n] =
                   PushOne(Pushing(PushStart(rows, <<>>), b, reach)[n - 1], b[n], reach)
           /\ Pushed(PushStart(rows, <<>>), b, reach) =
                 Pushing(PushStart(rows, <<>>), b, reach)[Len(b)]
<1> DEFINE start == PushStart(rows, <<>>)
<1>1. start \in PushState(Change)
  <2>1. <<>> \in Seq(Change)
    OBVIOUS
  <2>2. QED
    BY <2>1, PushStartState
<1>2. \A c \in Change : IsChange(c) /\ c.repo \in Repos
  BY DEF Change, IsChange
<1>3. \A acc \in PushState(Change), n \in 1..Len(b) :
         PushOne(acc, b[n], reach) \in PushState(Change)
  BY <1>2, PushOneCases
<1> HIDE DEF start
<1>4. \A n \in 0..Len(b) : Pushing(start, b, reach)[n] \in PushState(Change)
  BY <1>1, <1>3, PushInduction
<1>5. QED
  BY <1>4, PushingSteps DEF Pushed, start

-----------------------------------------------------------------------------
\* Where a push with the rest t of its batch goes.
LEMMA AfterChangeWorks ==
    ASSUME NEW c, NEW b \in Seq(Change), NEW n \in 0..Len(b),
           c.todo \in Seq(Change), Len(c.todo) = Len(b) - n
    PROVE  /\ AfterChange(c) \in {"access", "bump", "save"}
           /\ AfterChange(c) \in {"bump", "save"} => n = Len(b)
<1>1. Len(b) \in Nat /\ n \in Nat
  OBVIOUS
<1>2. c.todo # <<>> => AfterChange(c) = "access"
  BY DEF AfterChange
<1>3. c.todo = <<>> => n = Len(b) /\ AfterChange(c) \in {"bump", "save"}
  <2>1. c.todo = <<>> => Len(c.todo) = 0
    OBVIOUS
  <2>2. QED
    BY <1>1, <2>1 DEF AfterChange
<1>4. QED
  BY <1>2, <1>3

\* The next change of a push, and what is left after it.
LEMMA NextOfBatch ==
    ASSUME NEW t \in Seq(Change), t # <<>>, NEW b \in Seq(Change), NEW n \in 0..Len(b),
           Len(t) = Len(b) - n, \A i \in 1..Len(t) : t[i] = b[n + i]
    PROVE  /\ n + 1 \in 1..Len(b) /\ n + 1 \in 0..Len(b) /\ Head(t) = b[n + 1] /\ Head(t) \in Change
           /\ Tail(t) \in Seq(Change) /\ Len(Tail(t)) = Len(b) - (n + 1)
           /\ \A i \in 1..Len(Tail(t)) : Tail(t)[i] = b[(n + 1) + i]
<1>1. Len(t) \in Nat /\ Len(t) > 0 /\ Len(b) \in Nat /\ n \in Nat
  BY EmptySeq
<1>2. /\ Head(t) = t[1] /\ Head(t) \in Change /\ Tail(t) \in Seq(Change)
      /\ Len(Tail(t)) = Len(t) - 1
      /\ \A i \in 1..Len(Tail(t)) : Tail(t)[i] = t[i + 1]
  BY HeadTailProperties
<1>3. n + 1 \in 1..Len(b) /\ n + 1 \in 0..Len(b)
  BY <1>1
<1>4. Head(t) = b[n + 1]
  BY <1>1, <1>2
<1>5. Len(Tail(t)) = Len(b) - (n + 1)
  BY <1>1, <1>2
<1>6. ASSUME NEW i \in 1..Len(Tail(t)) PROVE Tail(t)[i] = b[(n + 1) + i]
  <2>1. i + 1 \in 1..Len(t) /\ n + (i + 1) = (n + 1) + i
    BY <1>1, <1>2
  <2>2. Tail(t)[i] = t[i + 1] /\ t[i + 1] = b[n + (i + 1)]
    BY <1>2, <2>1
  <2>3. QED
    BY <2>1, <2>2
<1>7. QED
  BY <1>2, <1>3, <1>4, <1>5, <1>6

\* The rest of y is that of x once the next change of x has its verdict.
PastNext(y, x) ==
    /\ y.kind = x.kind /\ y.user = x.user /\ y.todo = Tail(x.todo)
    /\ y.known = x.known /\ y.gone = x.gone

\* A push is past the next change of its batch.
LEMMA PushPasses ==
    ASSUME RInv, OneSlot, NEW r \in Requests, pc[r] \in {"access", "find"},
           ctx[r].kind = "push", ctx[r].todo # <<>>, UNCHANGED db,
           NEW y, PastNext(y, ctx[r]), Goto(r, AfterChange(y), y),
           NEW reach, reach = Reach(repos, members, ctx[r].user),
           NEW b \in Batches, NEW n \in 0..Len(b),
           Len(ctx[r].todo) = Len(b) - n,
           \A i \in 1..Len(ctx[r].todo) : ctx[r].todo[i] = b[n + i],
           PushedSoFar(y, Pushing(PushStart(records, <<>>), b, reach)[n + 1], records)
    PROVE  AllWork'
<1> DEFINE x == ctx[r]
           s == AfterChange(y)
           m == n + 1
<1>1. x \in Context /\ x.user \in Users /\ x.known \subseteq repos /\ x.gone = {}
  BY WorkNow, PushNow
<1>2. b \in Seq(Change) /\ x.todo \in Seq(Change)
  BY <1>1, BatchesAssumption DEF Context
<1>3. /\ m \in 0..Len(b) /\ Tail(x.todo) \in Seq(Change) /\ Len(Tail(x.todo)) = Len(b) - m
      /\ \A i \in 1..Len(Tail(x.todo)) : Tail(x.todo)[i] = b[m + i]
  BY <1>2, NextOfBatch
<1>4. /\ y.kind = "push" /\ y.user = x.user /\ y.todo = Tail(x.todo)
      /\ y.known = x.known /\ y.gone = x.gone
  BY DEF PastNext
<1> HIDE DEF x, m
<1>5. s \in {"access", "bump", "save"} /\ (s \in {"bump", "save"} => m = Len(b))
  <2>1. y.todo \in Seq(Change) /\ Len(y.todo) = Len(b) - m /\ m \in 0..Len(b)
    BY <1>3, <1>4
  <2> HIDE DEF s
  <2>2. AfterChange(y) \in {"access", "bump", "save"}
    BY <1>2, <2>1, AfterChangeWorks
  <2>3. AfterChange(y) \in {"bump", "save"} => m = Len(b)
    BY <1>2, <2>1, AfterChangeWorks
  <2>4. QED
    BY <2>2, <2>3 DEF s
<1>6. PushedSoFar(y, Pushing(PushStart(records, <<>>), b, reach)[m], records)
  BY DEF m
<1> HIDE DEF s
<1>7. PushWorks(s, y, records, reach)
  BY <1>3, <1>4, <1>5, <1>6 DEF PushWorks
<1>8. reach = Reach(repos, members, y.user)
  BY <1>4 DEF x
<1>9. Working(s, y, records, repos, members)
  BY <1>1, <1>4, <1>7, <1>8 DEF Working
<1>10. QED
  BY <1>5, <1>9, GotoWorks DEF s

LEMMA PushAccessWorks ==
    ASSUME RInv, OneSlot, NEW r \in Requests, PushAccess(r)
    PROVE  AllWork'
<1> DEFINE x == ctx[r]
           c == Head(x.todo)
           skipped == [x EXCEPT !.todo = Tail(@)]
           known == [x EXCEPT !.known = @ \cup {c.repo}]
           reach == Reach(repos, members, x.user)
           after(b, n) == Pushing(PushStart(records, <<>>), b, reach)[n]
<1>1. /\ pc[r] = "access" /\ x.kind = "push" /\ x.todo # <<>> /\ UNCHANGED db
      /\ IF Access(r, c.repo) THEN Goto(r, "find", known)
         ELSE Goto(r, AfterChange(skipped), skipped)
  BY DEF PushAccess
<1>2. x \in Context /\ records \in [Ids -> Row]
  BY <1>1, WorkNow
<1>3. PICK b \in Batches : \E n \in 0..Len(b) :
         /\ Len(x.todo) = Len(b) - n /\ \A i \in 1..Len(x.todo) : x.todo[i] = b[n + i]
         /\ PushedSoFar(x, after(b, n), records)
  BY <1>1, PushNow
<1>4. PICK n \in 0..Len(b) :
         /\ Len(x.todo) = Len(b) - n /\ \A i \in 1..Len(x.todo) : x.todo[i] = b[n + i]
         /\ PushedSoFar(x, after(b, n), records)
  BY <1>3
<1>5. x.user \in Users /\ x.known \subseteq repos /\ x.gone = {}
  BY <1>1, PushNow
<1>6. b \in Seq(Change) /\ x.todo \in Seq(Change)
  BY <1>2, BatchesAssumption DEF Context
<1>7. /\ n + 1 \in 1..Len(b) /\ n + 1 \in 0..Len(b) /\ c = b[n + 1] /\ c \in Change
      /\ Tail(x.todo) \in Seq(Change) /\ Len(Tail(x.todo)) = Len(b) - (n + 1)
      /\ \A i \in 1..Len(Tail(x.todo)) : Tail(x.todo)[i] = b[(n + 1) + i]
  BY <1>1, <1>4, <1>6, NextOfBatch
<1>8. c.repo \in Repos /\ (Access(r, c.repo) <=> c.repo \in reach)
  BY <1>1, <1>7, AccessReach DEF Change
<1>9. /\ known.kind = "push" /\ known.user = x.user /\ known.gone = x.gone /\ known.todo = x.todo
      /\ known.known = x.known \cup {c.repo}
      /\ known.accepted = x.accepted /\ known.conflicts = x.conflicts
      /\ known.touched = x.touched /\ known.vers = x.vers
      /\ known.curr = x.curr /\ known.orig = x.orig
  BY <1>1, <1>2 DEF Context
<1>10. /\ skipped.kind = "push" /\ skipped.user = x.user /\ skipped.gone = x.gone
       /\ skipped.todo = Tail(x.todo) /\ skipped.known = x.known
       /\ skipped.accepted = x.accepted /\ skipped.conflicts = x.conflicts
       /\ skipped.touched = x.touched /\ skipped.vers = x.vers
       /\ skipped.curr = x.curr /\ skipped.orig = x.orig
  BY <1>1, <1>2 DEF Context
<1> HIDE DEF x, c, known, skipped, after
<1>11. \A acc : PushedSoFar(x, acc, records) =>
          PushedSoFar(known, acc, records) /\ PushedSoFar(skipped, acc, records)
  BY <1>9, <1>10 DEF PushedSoFar, Announcing
<1>12. CASE Access(r, c.repo)
  <2>1. known.known \subseteq repos
    BY <1>5, <1>8, <1>9, <1>12 DEF Reach, HasRepoAccess
  <2>2. PushedSoFar(known, after(b, n), records)
    BY <1>4, <1>11
  <2>3. Goto(r, "find", known)
    BY <1>1, <1>12
  <2>4. Head(known.todo).repo \in reach
    BY <1>8, <1>9, <1>12 DEF c
  <2>5. known.user \in Users /\ known.gone = {} /\ reach = Reach(repos, members, known.user)
    BY <1>5, <1>9
  <2>6. Len(known.todo) = Len(b) - n /\ \A i \in 1..Len(known.todo) : known.todo[i] = b[n + i]
    BY <1>4, <1>9
  <2>7. PushedSoFar(known, Pushing(PushStart(records, <<>>), b, reach)[n], records)
    BY <2>2 DEF after
  <2> HIDE DEF reach
  <2>8. PushWorks("find", known, records, reach)
    BY <2>4, <2>6, <2>7 DEF PushWorks
  <2>9. Working("find", known, records, repos, members)
    BY <1>9, <2>1, <2>5, <2>8 DEF Working
  <2>10. QED
    BY <1>1, <2>3, <2>9, GotoWorks
<1>13. CASE ~Access(r, c.repo)
  <2>1. after(b, n + 1) = after(b, n)
    <3>1. after(b, n + 1) = PushOne(after(b, (n + 1) - 1), b[n + 1], reach)
      BY <1>2, <1>6, <1>7, PushTypes DEF after
    <3>2. (n + 1) - 1 = n
      OBVIOUS
    <3>3. after(b, n + 1) = PushOne(after(b, n), c, reach)
      BY <1>7, <3>1, <3>2
    <3>4. QED
      BY <1>8, <1>13, <3>3 DEF PushOne
  <2>2. PushedSoFar(skipped, Pushing(PushStart(records, <<>>), b, reach)[n + 1], records)
    BY <1>4, <1>11, <2>1 DEF after
  <2>3. Goto(r, AfterChange(skipped), skipped) /\ PastNext(skipped, x)
    BY <1>1, <1>10, <1>13 DEF PastNext
  <2> HIDE DEF reach
  <2>4. QED
    BY <1>1, <1>4, <2>2, <2>3, PushPasses DEF x, reach
<1>14. QED
  BY <1>12, <1>13

-----------------------------------------------------------------------------
\* Tracking one more record leaves the rest of a context as it is.
LEMMA TrackingFields ==
    ASSUME NEW c \in Context, NEW id \in Ids, NEW o \in Row, NEW n \in Row
    PROVE  LET t == Tracking(c, id, o, n)
           IN /\ t.kind = c.kind /\ t.user = c.user /\ t.todo = c.todo /\ t.known = c.known
              /\ t.touched = c.touched /\ t.vers = c.vers /\ t.gone = c.gone
              /\ t.accepted = c.accepted /\ t.conflicts = c.conflicts
              /\ t.orig[id] = o /\ t.curr[id] = n
              /\ \A i \in Ids : i # id => t.orig[i] = c.orig[i] /\ t.curr[i] = c.curr[i]
  BY DEF Tracking, Context

\* A context y with the verdict on change c, once it tracks what c made of its record.
LEMMA PushedMore ==
    ASSUME NEW x \in Context, NEW acc \in PushState(Change), NEW rows, PushedSoFar(x, acc, rows),
           NEW c \in Change, NEW y \in Context, y.orig = x.orig, y.curr = x.curr,
           NEW o \in Row, NEW n \in Record, o = None => rows[c.id] = None,
           NEW new, new.rows = [acc.rows EXCEPT ![c.id] = n], new.touched = Announcing(y),
           new.accepted = y.accepted, new.conflicts = y.conflicts
    PROVE  PushedSoFar(Tracking(y, c.id, o, n), new, rows)
<1> DEFINE t == Tracking(y, c.id, o, n)
<1>1. c.id \in Ids /\ n \in Row /\ n # None
  BY NoneAssumption DEF Change, Row
<1>2. /\ t.touched = y.touched /\ t.vers = y.vers
      /\ t.accepted = y.accepted /\ t.conflicts = y.conflicts
      /\ t.orig[c.id] = o /\ t.curr[c.id] = n
      /\ \A i \in Ids : i # c.id => t.orig[i] = y.orig[i] /\ t.curr[i] = y.curr[i]
  BY <1>1, TrackingFields
<1> HIDE DEF t
<1>3. Announcing(t) = Announcing(y)
  BY <1>2 DEF Announcing
<1>4. acc.rows \in [Ids -> Row]
  BY DEF PushState
<1>5. new.rows[c.id] = n /\ \A i \in Ids : i # c.id => new.rows[i] = acc.rows[i]
  BY <1>1, <1>4
<1>6. ASSUME NEW i \in Ids
      PROVE  /\ new.rows[i] = IF t.curr[i] # None THEN t.curr[i] ELSE rows[i]
             /\ t.curr[i] # None /\ t.orig[i] = None => rows[i] = None
  <2>1. CASE i = c.id
    BY <1>1, <1>2, <1>5, <2>1
  <2>2. CASE i # c.id
    BY <1>2, <1>5, <2>2 DEF PushedSoFar
  <2>3. QED
    BY <2>1, <2>2
<1>7. PushedSoFar(t, new, rows)
  BY <1>2, <1>3, <1>6 DEF PushedSoFar
<1>8. QED
  BY <1>7 DEF t

\* The verdict v on change c.
VerdictOn(c, v) == [id |-> c.id, version |-> v]

\* So it does, when y still tracks what x does.
Verdicted(y, x) ==
    PastNext(y, x) /\ y \in Context /\ y.vers = x.vers /\ y.orig = x.orig /\ y.curr = x.curr

\* The verdict on a change, before its record is tracked.
LEMMA VerdictFields ==
    ASSUME NEW x \in Context, x.todo # <<>>, NEW c, c = Head(x.todo), NEW v \in Version
    PROVE  /\ Verdicted(Accepting(x, c, v), x) /\ Verdicted(Refusing(x, c, v), x)
           /\ Accepting(x, c, v).touched = x.touched \cup {c.repo}
           /\ Accepting(x, c, v).accepted = Append(x.accepted, VerdictOn(c, v))
           /\ Accepting(x, c, v).conflicts = x.conflicts
           /\ Refusing(x, c, v).touched = x.touched
           /\ Refusing(x, c, v).accepted = x.accepted
           /\ Refusing(x, c, v).conflicts = Append(x.conflicts, VerdictOn(c, v))
<1>1. Accepting(x, c, v) \in Context /\ Refusing(x, c, v) \in Context
  BY TailContext
<1> DEFINE w == VerdictOn(c, v)
<1> HIDE DEF w
<1>2. /\ x.todo \in Seq(Change) /\ x.accepted \in Seq(Verdict) /\ x.conflicts \in Seq(Verdict)
      /\ x.touched \subseteq Repos
  BY DEF Context
<1>3. LET y == Accepting(x, c, v)
      IN /\ y.kind = x.kind /\ y.user = x.user /\ y.todo = Tail(x.todo)
         /\ y.known = x.known /\ y.gone = x.gone /\ y.vers = x.vers
         /\ y.orig = x.orig /\ y.curr = x.curr /\ y.conflicts = x.conflicts
         /\ y.touched = x.touched \cup {c.repo} /\ y.accepted = Append(x.accepted, w)
  BY DEF Accepting, Context, w, VerdictOn
<1>4. LET y == Refusing(x, c, v)
      IN /\ y.kind = x.kind /\ y.user = x.user /\ y.todo = Tail(x.todo)
         /\ y.known = x.known /\ y.gone = x.gone /\ y.vers = x.vers
         /\ y.orig = x.orig /\ y.curr = x.curr /\ y.conflicts = Append(x.conflicts, w)
         /\ y.touched = x.touched /\ y.accepted = x.accepted
  BY DEF Refusing, Context, w, VerdictOn
<1> DEFINE a == Accepting(x, c, v)
           f == Refusing(x, c, v)
<1> HIDE DEF a, f
<1>5. QED
  BY <1>1, <1>3, <1>4 DEF a, f, w, Verdicted, PastNext

\* What a push makes of its next change is what the store's push makes of it.
LEMMA JudgeAsPushOne ==
    ASSUME RInv, NEW r \in Requests, ctx[r].todo # <<>>, NEW c, c = Head(ctx[r].todo),
           NEW acc \in PushState(Change), PushedSoFar(ctx[r], acc, records),
           NEW reach, c.repo \in reach
    PROVE  LET j == Judge(r, c)
           IN PastNext(j, ctx[r]) /\ PushedSoFar(j, PushOne(acc, c, reach), records)
<1> DEFINE x == ctx[r]
           rec == Found(r, c.id)
           orig == Original(r, c.id)
           j == Judge(r, c)
<1>0. x.todo # <<>> /\ c = Head(x.todo)
  OBVIOUS
<1>1. x \in Context /\ records \in [Ids -> Row]
  BY DEF RInv, SInv, IInv, TypeOK
<1>2. c \in Change /\ c.id \in Ids /\ c.repo \in Repos
  <2>1. c \in Change
    BY <1>1, HeadTailProperties DEF Context
  <2>2. QED
    BY <2>1 DEF Change
<1>3. rec \in Row /\ orig \in Row
  BY <1>2, FoundRow DEF RInv, SInv
<1>4. rec = acc.rows[c.id]
  BY <1>2 DEF PushedSoFar, Found
<1>5. /\ rec = None => records[c.id] = None
      /\ rec # None /\ orig = None => records[c.id] = None
  BY <1>2 DEF PushedSoFar, Found, Original
<1>6. acc \in PushState(Change) /\ acc.rows \in [Ids -> Row] /\ acc.touched = Announcing(x)
      /\ acc.accepted = x.accepted /\ acc.conflicts = x.conflicts
  BY DEF PushState, PushedSoFar
<1>7. 1 \in Version /\ (rec # None => rec \in Record /\ rec.version \in Version
                                     /\ rec.version + 1 \in Version)
  BY <1>3 DEF Version, Row, Record
<1>8. j = IF rec = None
          THEN Tracking(Accepting(x, c, 1), c.id, None, NewRecord(c))
          ELSE IF c.expected = rec.version
          THEN Tracking(Accepting(x, c, rec.version + 1), c.id, orig, Overwritten(rec, c))
          ELSE Tracking(Refusing(x, c, rec.version), c.id, orig, rec)
  BY DEF Judge
<1>9. PushOne(acc, c, reach) =
          IF rec = None THEN Accept(acc, c, NewRecord(c))
          ELSE IF c.expected = rec.version THEN Accept(acc, c, Overwritten(rec, c))
          ELSE [acc EXCEPT !.conflicts = Append(@, VerdictOn(c, rec.version))]
  BY <1>4 DEF PushOne, VerdictOn
<1>10. ASSUME NEW m \in Record
       PROVE  LET new == Accept(acc, c, m)
              IN /\ new.rows = [acc.rows EXCEPT ![c.id] = m]
                 /\ new.touched = acc.touched \cup {c.repo} /\ new.conflicts = acc.conflicts
                 /\ new.accepted = Append(acc.accepted, VerdictOn(c, m.version))
  <2> DEFINE w == VerdictOn(c, m.version)
  <2> HIDE DEF w
  <2>1. Accept(acc, c, m) = [acc EXCEPT !.rows[c.id] = m, !.touched = @ \cup {c.repo},
                                       !.log = Append(@, c), !.accepted = Append(@, w)]
    BY DEF Accept, w, VerdictOn
  <2> DEFINE new == Accept(acc, c, m)
  <2>2. /\ new.rows = [acc.rows EXCEPT ![c.id] = m]
        /\ new.touched = acc.touched \cup {c.repo} /\ new.conflicts = acc.conflicts
        /\ new.accepted = Append(acc.accepted, w)
    BY <1>6, <2>1 DEF PushState
  <2>3. QED
    BY <2>2 DEF w
<1> HIDE DEF x, rec, orig
<1>11. ASSUME NEW v \in Version
       PROVE  /\ Verdicted(Accepting(x, c, v), x) /\ Verdicted(Refusing(x, c, v), x)
              /\ Accepting(x, c, v).touched = x.touched \cup {c.repo}
              /\ Accepting(x, c, v).accepted = Append(x.accepted, VerdictOn(c, v))
              /\ Accepting(x, c, v).conflicts = x.conflicts
              /\ Refusing(x, c, v).touched = x.touched
              /\ Refusing(x, c, v).accepted = x.accepted
              /\ Refusing(x, c, v).conflicts = Append(x.conflicts, VerdictOn(c, v))
  <2>1. Verdicted(Accepting(x, c, v), x)
    BY <1>0, <1>1, VerdictFields
  <2>2. Accepting(x, c, v).touched = x.touched \cup {c.repo}
    BY <1>0, <1>1, VerdictFields
  <2>3. Accepting(x, c, v).accepted = Append(x.accepted, VerdictOn(c, v))
    BY <1>0, <1>1, VerdictFields
  <2>4. Accepting(x, c, v).conflicts = x.conflicts
    BY <1>0, <1>1, VerdictFields
  <2>5. Verdicted(Refusing(x, c, v), x)
    BY <1>0, <1>1, VerdictFields
  <2>6. Refusing(x, c, v).touched = x.touched /\ Refusing(x, c, v).accepted = x.accepted
    BY <1>0, <1>1, VerdictFields
  <2>7. Refusing(x, c, v).conflicts = Append(x.conflicts, VerdictOn(c, v))
    BY <1>0, <1>1, VerdictFields
  <2>8. QED
    BY <2>1, <2>2, <2>3, <2>4, <2>5, <2>6, <2>7
<1>12. ASSUME NEW y, Verdicted(y, x), NEW o \in Row, NEW n \in Record,
              o = None => records[c.id] = None, NEW new, new.rows = [acc.rows EXCEPT ![c.id] = n], new.touched = Announcing(y),
              new.accepted = y.accepted, new.conflicts = y.conflicts
       PROVE  /\ PastNext(Tracking(y, c.id, o, n), x)
              /\ PushedSoFar(Tracking(y, c.id, o, n), new, records)
  <2>1. n \in Row
    BY DEF Row
  <2>2. PushedSoFar(Tracking(y, c.id, o, n), new, records)
    BY <1>1, <1>2, <1>12, PushedMore DEF x, Verdicted
  <2>3. QED
    BY <1>2, <1>12, <2>1, <2>2, TrackingFields DEF Verdicted, PastNext
<1>13. ASSUME NEW y, y.vers = x.vers, y.touched = x.touched \cup {c.repo}
       PROVE  Announcing(y) = Announcing(x) \cup {c.repo}
  BY <1>13 DEF Announcing
<1>14. ASSUME NEW y, y.vers = x.vers, y.touched = x.touched
       PROVE  Announcing(y) = Announcing(x)
  BY <1>14 DEF Announcing
<1>15. CASE rec = None
  <2> DEFINE y == Accepting(x, c, 1)
             n == NewRecord(c)
             new == Accept(acc, c, n)
  <2>1. n \in Record /\ n.version = 1 /\ None \in Row
    BY <1>2, RecordOperators DEF NewRecord, Row
  <2>2. Verdicted(y, x) /\ Announcing(y) = Announcing(x) \cup {c.repo}
    BY <1>7, <1>11, <1>13 DEF Verdicted
  <2>3. /\ new.rows = [acc.rows EXCEPT ![c.id] = n] /\ new.touched = Announcing(y)
        /\ new.accepted = y.accepted /\ new.conflicts = y.conflicts
    BY <1>6, <1>7, <1>10, <1>11, <2>1, <2>2
  <2> HIDE DEF y, n, new
  <2>4. /\ PastNext(Tracking(y, c.id, None, n), x)
        /\ PushedSoFar(Tracking(y, c.id, None, n), new, records)
    BY <1>5, <1>12, <1>15, <2>1, <2>2, <2>3
  <2>5. j = Tracking(y, c.id, None, n) /\ PushOne(acc, c, reach) = new
    BY <1>8, <1>9, <1>15 DEF y, n, new
  <2> HIDE DEF j, x
  <2>6. PastNext(j, x) /\ PushedSoFar(j, PushOne(acc, c, reach), records)
    BY <2>4, <2>5, Zenon
  <2>7. QED
    BY <2>6 DEF j, x
<1>16. CASE rec # None /\ c.expected = rec.version
  <2> DEFINE v == rec.version + 1
             y == Accepting(x, c, v)
             n == Overwritten(rec, c)
             new == Accept(acc, c, n)
  <2>1. n \in Record /\ n.version = v /\ v \in Version
    BY <1>2, <1>7, <1>16, RecordOperators, VersionsGrow
  <2>2. Verdicted(y, x) /\ Announcing(y) = Announcing(x) \cup {c.repo}
    BY <1>11, <1>13, <2>1 DEF Verdicted
  <2>3. /\ new.rows = [acc.rows EXCEPT ![c.id] = n] /\ new.touched = Announcing(y)
        /\ new.accepted = y.accepted /\ new.conflicts = y.conflicts
    <3> HIDE DEF n, v
    <3>1. QED
      BY <1>6, <1>10, <1>11, <2>1, <2>2
  <2> HIDE DEF y, n, new, v
  <2>4. /\ PastNext(Tracking(y, c.id, orig, n), x)
        /\ PushedSoFar(Tracking(y, c.id, orig, n), new, records)
    BY <1>3, <1>5, <1>12, <1>16, <2>1, <2>2, <2>3
  <2>5. j = Tracking(y, c.id, orig, n) /\ PushOne(acc, c, reach) = new
    BY <1>8, <1>9, <1>16 DEF y, n, new, v
  <2> HIDE DEF j, x
  <2>6. PastNext(j, x) /\ PushedSoFar(j, PushOne(acc, c, reach), records)
    BY <2>4, <2>5, Zenon
  <2>7. QED
    BY <2>6 DEF j, x
<1>17. CASE rec # None /\ c.expected # rec.version
  <2> DEFINE w == VerdictOn(c, rec.version)
             y == Refusing(x, c, rec.version)
             new == [acc EXCEPT !.conflicts = Append(@, w)]
  <2>1. rec \in Record /\ rec.version \in Version
    BY <1>7, <1>17
  <2>2. Verdicted(y, x) /\ Announcing(y) = Announcing(x)
    BY <1>11, <1>14, <2>1 DEF Verdicted
  <2>3. y.accepted = x.accepted /\ y.conflicts = Append(x.conflicts, w)
    BY <1>11, <2>1
  <2> HIDE DEF w
  <2>4. /\ new.rows = acc.rows /\ new.touched = acc.touched
        /\ new.accepted = acc.accepted /\ new.conflicts = Append(acc.conflicts, w)
    BY <1>6 DEF PushState
  <2>5. acc.rows = [acc.rows EXCEPT ![c.id] = rec]
    BY <1>2, <1>4, <1>6
  <2>6. j = Tracking(y, c.id, orig, rec) /\ PushOne(acc, c, reach) = new
    BY <1>8, <1>9, <1>17 DEF w
  <2> HIDE DEF y, new
  <2>7. /\ PastNext(Tracking(y, c.id, orig, rec), x)
        /\ PushedSoFar(Tracking(y, c.id, orig, rec), new, records)
    BY <1>3, <1>5, <1>6, <1>12, <1>17, <2>1, <2>2, <2>3, <2>4, <2>5
  <2> HIDE DEF j, x
  <2>8. PastNext(j, x) /\ PushedSoFar(j, PushOne(acc, c, reach), records)
    BY <2>6, <2>7, Zenon
  <2>9. QED
    BY <2>8 DEF j, x
<1>18. QED
  BY <1>15, <1>16, <1>17

LEMMA PushChangeWorks ==
    ASSUME RInv, OneSlot, NEW r \in Requests, PushChange(r)
    PROVE  AllWork'
<1> DEFINE x == ctx[r]
           c == Head(x.todo)
           next == Judge(r, c)
           reach == Reach(repos, members, x.user)
           after(b, n) == Pushing(PushStart(records, <<>>), b, reach)[n]
<1>1. /\ pc[r] = "find" /\ x.kind = "push" /\ x.todo # <<>> /\ UNCHANGED db
      /\ Goto(r, AfterChange(next), next)
  BY DEF PushChange
<1>2. x \in Context /\ records \in [Ids -> Row] /\ c.repo \in reach
  BY <1>1, WorkNow, PushNow
<1>3. PICK b \in Batches : \E n \in 0..Len(b) :
         /\ Len(x.todo) = Len(b) - n /\ \A i \in 1..Len(x.todo) : x.todo[i] = b[n + i]
         /\ PushedSoFar(x, after(b, n), records)
  BY <1>1, PushNow
<1>4. PICK n \in 0..Len(b) :
         /\ Len(x.todo) = Len(b) - n /\ \A i \in 1..Len(x.todo) : x.todo[i] = b[n + i]
         /\ PushedSoFar(x, after(b, n), records)
  BY <1>3
<1>5. b \in Seq(Change) /\ x.todo \in Seq(Change)
  BY <1>2, BatchesAssumption DEF Context
<1>6. n + 1 \in 1..Len(b) /\ c = b[n + 1]
  BY <1>1, <1>4, <1>5, NextOfBatch
<1>7. after(b, n) \in PushState(Change) /\ after(b, n + 1) = PushOne(after(b, n), c, reach)
  <2>1. after(b, n + 1) = PushOne(after(b, (n + 1) - 1), b[n + 1], reach)
    BY <1>2, <1>5, <1>6, PushTypes DEF after
  <2>2. (n + 1) - 1 = n
    OBVIOUS
  <2>3. after(b, n) \in PushState(Change)
    BY <1>2, <1>5, PushTypes DEF after
  <2>4. QED
    BY <1>6, <2>1, <2>2, <2>3
<1> HIDE DEF reach, after, c
<1>8. PastNext(next, x) /\ PushedSoFar(next, PushOne(after(b, n), c, reach), records)
  BY <1>1, <1>2, <1>4, <1>7, JudgeAsPushOne DEF c
<1>9. PushedSoFar(next, Pushing(PushStart(records, <<>>), b, reach)[n + 1], records)
  BY <1>7, <1>8 DEF after
<1> HIDE DEF next
<1>10. QED
  BY <1>1, <1>4, <1>8, <1>9, PushPasses DEF reach

-----------------------------------------------------------------------------
\* A POST, PUT or DELETE /otp under way: the one record it is about.
LEMMA EditNow ==
    ASSUME RInv, NEW r \in Requests, pc[r] \notin {"idle", "done"},
           ctx[r].kind \in {"create", "update", "remove"},
           NEW reach, reach = Reach(repos, members, ctx[r].user)
    PROVE  /\ ctx[r].user \in Users /\ ctx[r].known \subseteq repos /\ ctx[r].gone = {}
           /\ EditWorks(pc[r], ctx[r], records, reach)
<1>1. Working(pc[r], ctx[r], records, repos, members)
  BY WorkNow
<1>2. QED
  BY <1>1 DEF Working

LEMMA EditGoesOn ==
    ASSUME RInv, OneSlot, NEW r \in Requests, NEW s, NEW y, Goto(r, s, y), UNCHANGED db,
           y.kind \in {"create", "update", "remove"}, y.user \in Users, y.known \subseteq repos,
           y.gone = {}, EditWorks(s, y, records, Reach(repos, members, y.user))
    PROVE  AllWork'
<1>1. Working(s, y, records, repos, members)
  BY DEF Working
<1>2. QED
  BY <1>1, GotoWorks

\* The change is made in memory: what is staged is what the store would save.
LEMMA StageWorks ==
    ASSUME RInv, OneSlot, NEW r \in Requests, pc[r] \notin {"idle", "done"},
           ctx[r].kind \in {"create", "update", "remove"}, Announcing(ctx[r]) = {},
           NEW e \in Edits, ctx[r].todo = <<e>>, ctx[r].accepted = <<>>, ctx[r].conflicts = <<>>,
           \A id \in Ids : id # e.id => ctx[r].curr[id] = None,
           NEW o \in Row, NEW n \in Record, n = Outcome(ctx[r].kind, records[e.id], e),
           NEW p \in Reach(repos, members, ctx[r].user),
           ctx[r].kind = "create" => o = None /\ p = e.repo,
           ctx[r].kind # "create" =>
              o # None /\ o = records[e.id] /\ o.version = e.expected /\ p = o.repo,
           Stage(r, e.id, o, n, p), UNCHANGED db
    PROVE  AllWork'
<1> DEFINE x == ctx[r]
           y == [x EXCEPT !.known = @ \cup {p}, !.touched = @ \cup {p}]
           t == Tracking(y, e.id, o, n)
           reach == Reach(repos, members, x.user)
<1>1. /\ x \in Context /\ x.user \in Users /\ x.known \subseteq repos /\ x.gone = {}
      /\ p \in repos /\ p \in Repos
  BY WorkNow, EditNow DEF Reach, HasRepoAccess
<1>2. e.id \in Ids /\ n \in Row /\ n # None
  BY EditsAssumption, NoneAssumption DEF Change, Row
<1>3. y \in Context
  BY <1>1 DEF Context
<1>4. /\ y.kind = x.kind /\ y.user = x.user /\ y.todo = x.todo /\ y.gone = x.gone
      /\ y.known = x.known \cup {p} /\ y.touched = x.touched \cup {p} /\ y.vers = x.vers
      /\ y.accepted = x.accepted /\ y.conflicts = x.conflicts /\ y.curr = x.curr
  BY <1>1 DEF Context
<1> HIDE DEF y
<1>5. /\ t.kind = y.kind /\ t.user = y.user /\ t.todo = y.todo /\ t.known = y.known
      /\ t.touched = y.touched /\ t.vers = y.vers /\ t.gone = y.gone
      /\ t.accepted = y.accepted /\ t.conflicts = y.conflicts
      /\ t.orig[e.id] = o /\ t.curr[e.id] = n
      /\ \A i \in Ids : i # e.id => t.curr[i] = y.curr[i]
  BY <1>2, <1>3, TrackingFields
<1>6. Goto(r, "bump", t)
  BY DEF Stage, y
<1> HIDE DEF t, x
<1>7. Announcing(t) = {p}
  <2>1. Announcing(x) = {}
    BY DEF x
  <2>2. QED
    BY <1>4, <1>5, <2>1 DEF Announcing
<1>8. /\ n = Outcome(x.kind, records[e.id], e) /\ p \in reach
      /\ x.kind = "create" => o = None /\ p = e.repo
      /\ x.kind # "create" =>
            o # None /\ o = records[e.id] /\ o.version = e.expected /\ p = o.repo
  BY DEF x
<1>9. Staged(t, e, records, reach)
  BY <1>4, <1>5, <1>7, <1>8 DEF Staged
<1>10. /\ x.todo = <<e>> /\ x.accepted = <<>> /\ x.conflicts = <<>>
       /\ x.kind \in {"create", "update", "remove"}
       /\ \A id \in Ids : id # e.id => x.curr[id] = None
  BY DEF x
<1>11. EditWorks("bump", t, records, reach)
  BY <1>4, <1>5, <1>9, <1>10 DEF EditWorks
<1>12. QED
  BY <1>1, <1>4, <1>5, <1>6, <1>10, <1>11, EditGoesOn

LEMMA CreateRecordWorks ==
    ASSUME RInv, OneSlot, NEW r \in Requests, CreateRecord(r)
    PROVE  AllWork'
<1> DEFINE x == ctx[r]
           c == Head(x.todo)
           reach == Reach(repos, members, x.user)
<1>1. /\ pc[r] = "access" /\ x.kind = "create"
      /\ IF Access(r, c.repo)
         THEN Stage(r, c.id, None, NewRecord(c), c.repo) /\ UNCHANGED db
         ELSE Answer(r, 403)
  BY DEF CreateRecord
<1>2. PICK e \in Edits :
         /\ x.todo = <<e>> /\ x.accepted = <<>> /\ x.conflicts = <<>> /\ Announcing(x) = {}
         /\ \A id \in Ids : id # e.id => x.curr[id] = None
  BY <1>1, EditNow DEF EditWorks
<1>3. c = e /\ e \in Change /\ e.repo \in Repos
  BY <1>2, EditsAssumption DEF Change
<1>4. CASE Access(r, c.repo)
  <2>1. e.repo \in reach
    BY <1>1, <1>3, <1>4, AccessReach
  <2>2. NewRecord(e) \in Record /\ None \in Row
    BY <1>3, RecordOperators DEF Row
  <2>3. NewRecord(e) = Outcome("create", records[e.id], e)
    BY DEF Outcome
  <2>4. Stage(r, e.id, None, NewRecord(e), e.repo) /\ UNCHANGED db
    BY <1>1, <1>3, <1>4
  <2>5. QED
    BY <1>1, <1>2, <2>1, <2>2, <2>3, <2>4, StageWorks
<1>5. CASE ~Access(r, c.repo)
  BY <1>1, <1>5, GotoWorks DEF Answer
<1>6. QED
  BY <1>4, <1>5

LEMMA FindRecordWorks ==
    ASSUME RInv, OneSlot, NEW r \in Requests, FindRecord(r)
    PROVE  AllWork'
<1> DEFINE x == ctx[r]
           c == Head(x.todo)
           row == records[c.id]
           t == Tracking(x, c.id, row, row)
           reach == Reach(repos, members, x.user)
<1>1. /\ pc[r] = "find" /\ x.kind \in {"update", "remove"}
      /\ IF row = None THEN Answer(r, 404) ELSE Goto(r, "access", t) /\ UNCHANGED db
  BY DEF FindRecord
<1>2. PICK e \in Edits :
         /\ x.todo = <<e>> /\ x.accepted = <<>> /\ x.conflicts = <<>> /\ Announcing(x) = {}
         /\ \A id \in Ids : id # e.id => x.curr[id] = None
  BY <1>1, EditNow DEF EditWorks
<1>3. /\ c = e /\ c.id \in Ids /\ x \in Context /\ row \in Row
      /\ x.user \in Users /\ x.known \subseteq repos /\ x.gone = {}
  BY <1>1, <1>2, EditsAssumption, WorkNow, EditNow DEF Change
<1>4. CASE row = None
  BY <1>1, <1>4, GotoWorks DEF Answer
<1>5. CASE row # None
  <2> HIDE DEF x, c, row
  <2>1. /\ t.kind = x.kind /\ t.user = x.user /\ t.todo = x.todo /\ t.known = x.known
        /\ t.touched = x.touched /\ t.vers = x.vers /\ t.gone = x.gone
        /\ t.accepted = x.accepted /\ t.conflicts = x.conflicts
        /\ t.orig[c.id] = row /\ t.curr[c.id] = row
        /\ \A i \in Ids : i # c.id => t.curr[i] = x.curr[i]
    BY <1>3, TrackingFields
  <2>2. Goto(r, "access", t) /\ UNCHANGED db
    BY <1>1, <1>5
  <2> HIDE DEF t
  <2>3. Announcing(t) = {}
    BY <1>2, <2>1 DEF Announcing
  <2>4. records[c.id] = row
    BY DEF row
  <2>5. EditWorks("access", t, records, reach)
    BY <1>1, <1>2, <1>3, <1>5, <2>1, <2>3, <2>4 DEF EditWorks
  <2>6. QED
    BY <1>1, <1>3, <2>1, <2>2, <2>5, EditGoesOn
<1>6. QED
  BY <1>4, <1>5

LEMMA ChangeRecordWorks ==
    ASSUME RInv, OneSlot, NEW r \in Requests, ChangeRecord(r)
    PROVE  AllWork'
<1> DEFINE x == ctx[r]
           c == Head(x.todo)
           rec == x.curr[c.id]
           changed == IF x.kind = "update" THEN Overwritten(rec, c) ELSE Tombstoned(rec)
           reach == Reach(repos, members, x.user)
<1>1. /\ pc[r] = "access" /\ x.kind \in {"update", "remove"}
      /\ IF ~Access(r, rec.repo) THEN Answer(r, 403)
         ELSE IF c.expected # rec.version THEN Answer(r, 409)
         ELSE Stage(r, c.id, rec, changed, rec.repo) /\ UNCHANGED db
  BY DEF ChangeRecord
<1>2. PICK e \in Edits :
         /\ x.todo = <<e>> /\ x.accepted = <<>> /\ x.conflicts = <<>> /\ Announcing(x) = {}
         /\ \A id \in Ids : id # e.id => x.curr[id] = None
         /\ records[e.id] # None /\ x.curr[e.id] = records[e.id]
  BY <1>1, EditNow DEF EditWorks
<1>3. c = e /\ e \in Change /\ e.id \in Ids /\ rec = records[e.id] /\ rec \in Record /\ rec \in Row
  BY <1>1, <1>2, EditsAssumption, WorkNow DEF Change, Row
<1>4. CASE Access(r, rec.repo) /\ c.expected = rec.version
  <2>1. rec.repo \in reach
    BY <1>1, <1>3, <1>4, AccessReach DEF Record
  <2>2. changed \in Record /\ changed = Outcome(x.kind, records[e.id], e)
    BY <1>1, <1>3, RecordOperators DEF Outcome
  <2>3. Stage(r, e.id, rec, changed, rec.repo) /\ UNCHANGED db
    BY <1>1, <1>3, <1>4
  <2>4. rec # None /\ rec = records[e.id] /\ rec.version = e.expected
    BY <1>2, <1>3, <1>4
  <2> HIDE DEF rec, changed
  <2>5. QED
    BY <1>1, <1>2, <1>3, <2>1, <2>2, <2>3, <2>4, StageWorks
<1>5. CASE ~(Access(r, rec.repo) /\ c.expected = rec.version)
  BY <1>1, <1>5, GotoWorks DEF Answer
<1>6. QED
  BY <1>4, <1>5

-----------------------------------------------------------------------------
\* Reading a counter to raise it takes the repo from one list to the other.
LEMMA IncrementWorks ==
    ASSUME RInv, OneSlot, NEW r \in Requests, IncrementRepoVersion(r)
    PROVE  AllWork'
<1> DEFINE x == ctx[r]
           reach == Reach(repos, members, x.user)
           next(p) == [x EXCEPT !.touched = @ \ {p}, !.vers[p] = repoVersion[p] + 1]
<1>1. /\ pc[r] = "bump" /\ UNCHANGED db
      /\ \E p \in x.touched :
            Goto(r, IF next(p).touched = {} THEN "save" ELSE "bump", next(p))
  BY DEF IncrementRepoVersion
<1>2. /\ x \in Context /\ repoVersion \in [Repos -> Nat]
      /\ Working("bump", x, records, repos, members)
  BY <1>1, WorkNow DEF RInv, SInv, IInv, TypeOK
<1>3. PICK p \in x.touched :
         Goto(r, IF next(p).touched = {} THEN "save" ELSE "bump", next(p))
  BY <1>1
<1> DEFINE y == next(p)
           s == IF y.touched = {} THEN "save" ELSE "bump"
<1>4. p \in Repos /\ repoVersion[p] + 1 \in Nat /\ repoVersion[p] + 1 > 0
  BY <1>2, <1>3 DEF Context
<1>5. /\ y.kind = x.kind /\ y.user = x.user /\ y.todo = x.todo /\ y.known = x.known
      /\ y.gone = x.gone /\ y.accepted = x.accepted /\ y.conflicts = x.conflicts
      /\ y.curr = x.curr /\ y.orig = x.orig /\ y.touched = x.touched \ {p}
      /\ y.vers = [x.vers EXCEPT ![p] = repoVersion[p] + 1]
  <2> DEFINE v == repoVersion[p] + 1
  <2> HIDE DEF v
  <2>1. y = [x EXCEPT !.touched = @ \ {p}, !.vers[p] = v]
    BY DEF v
  <2>2. /\ y.kind = x.kind /\ y.user = x.user /\ y.todo = x.todo /\ y.known = x.known
        /\ y.gone = x.gone /\ y.accepted = x.accepted /\ y.conflicts = x.conflicts
        /\ y.curr = x.curr /\ y.orig = x.orig /\ y.touched = x.touched \ {p}
        /\ y.vers = [x.vers EXCEPT ![p] = v]
    BY <1>2, <2>1 DEF Context
  <2>3. QED
    BY <2>2 DEF v
<1> HIDE DEF x, next, y
<1>6. y.vers[p] > 0 /\ \A q \in Repos : q # p => y.vers[q] = x.vers[q]
  BY <1>2, <1>4, <1>5 DEF Context
<1>7. Announcing(y) = Announcing(x)
  <2>1. \A q : q \in Announcing(y) <=> q \in Announcing(x)
    BY <1>3, <1>4, <1>5, <1>6 DEF Announcing
  <2>2. QED
    BY <2>1
<1>8. s \in {"bump", "save"} /\ Goto(r, s, y) /\ reach = Reach(repos, members, y.user)
  BY <1>3, <1>5 DEF y
<1> HIDE DEF s, reach
<1>9. x.user \in Users /\ x.known \subseteq repos /\ x.kind # "deleteRepo" /\ x.gone = {}
  BY <1>2 DEF Working, DeleteWorks
<1>10. \A acc : PushedSoFar(x, acc, records) => PushedSoFar(y, acc, records)
  BY <1>5, <1>7 DEF PushedSoFar
<1>11. CASE x.kind = "push"
  <2>1. PushWorks("bump", x, records, reach)
    BY <1>2, <1>11 DEF Working, reach
  <2>2. PushWorks(s, y, records, reach)
    BY <1>5, <1>8, <1>10, <2>1 DEF PushWorks
  <2>3. Working(s, y, records, repos, members)
    BY <1>5, <1>8, <1>9, <1>11, <2>2 DEF Working
  <2>4. QED
    BY <1>1, <1>8, <2>3, GotoWorks
<1>12. CASE x.kind \in {"create", "update", "remove"}
  <2>1. EditWorks("bump", x, records, reach)
    BY <1>2, <1>12 DEF Working, reach
  <2>2. \A e : Staged(x, e, records, reach) => Staged(y, e, records, reach)
    BY <1>5, <1>7 DEF Staged
  <2>3. EditWorks(s, y, records, reach)
    BY <1>5, <1>8, <2>1, <2>2 DEF EditWorks
  <2>4. QED
    BY <1>1, <1>5, <1>8, <1>9, <1>12, <2>3, EditGoesOn
<1>13. QED
  BY <1>2, <1>9, <1>11, <1>12 DEF Working

-----------------------------------------------------------------------------
\* The deletion of a repo: which repo it is, and the memberships it has read.
LEMMA DeleteNow ==
    ASSUME RInv, NEW r \in Requests, pc[r] \in {"members", "rows"}
    PROVE  /\ ctx[r].user \in Users /\ ctx[r].known \subseteq repos /\ ctx[r].kind = "deleteRepo"
           /\ DeleteWorks(pc[r], ctx[r], records, repos, members)
<1>1. Working(pc[r], ctx[r], records, repos, members)
  BY WorkNow
<1>2. ctx[r].kind = "deleteRepo"
  BY <1>1 DEF Working, PushWorks, EditWorks
<1>3. QED
  BY <1>1, <1>2 DEF Working

LEMMA ReadRepoWorks ==
    ASSUME RInv, OneSlot, NEW r \in Requests, ReadRepo(r)
    PROVE  AllWork'
<1>1. PICK u \in Users, p \in Repos :
         IF p \notin repos \/ Owner[p] # u THEN Answer(r, 404)
         ELSE IF p \in DefaultRepos THEN Answer(r, 400)
         ELSE Goto(r, "members", Deleting(u, p)) /\ UNCHANGED db
  BY DEF ReadRepo
<1>2. CASE p \in repos /\ Owner[p] = u /\ p \notin DefaultRepos
  <2> DEFINE d == Deleting(u, p)
  <2>1. Goto(r, "members", d) /\ UNCHANGED db
    BY <1>1, <1>2
  <2>2. /\ d.kind = "deleteRepo" /\ d.user = u /\ d.known = {p} /\ d.left = {}
        /\ d.accepted = <<>> /\ d.conflicts = <<>> /\ Blank(d)
    BY BlankContexts DEF Deleting, Fresh
  <2> HIDE DEF d
  <2>3. DeleteWorks("members", d, records, repos, members)
    BY <1>2, <2>2 DEF DeleteWorks
  <2>4. Working("members", d, records, repos, members)
    BY <1>2, <2>2, <2>3 DEF Working
  <2>5. QED
    BY <2>1, <2>4, GotoWorks
<1>3. CASE ~(p \in repos /\ Owner[p] = u /\ p \notin DefaultRepos)
  BY <1>1, <1>3, GotoWorks DEF Answer
<1>4. QED
  BY <1>2, <1>3

LEMMA ReadMembersWorks ==
    ASSUME RInv, OneSlot, NEW r \in Requests, ReadMembers(r)
    PROVE  AllWork'
<1> DEFINE x == ctx[r]
           found == {u \in Users : \E p \in x.known : <<p, u>> \in members}
           y == [x EXCEPT !.left = found]
<1>1. pc[r] = "members" /\ Goto(r, "rows", y) /\ UNCHANGED db
  BY DEF ReadMembers
<1>2. /\ x \in Context /\ x.user \in Users /\ x.known \subseteq repos /\ x.kind = "deleteRepo"
      /\ DeleteWorks("members", x, records, repos, members)
  BY <1>1, WorkNow, DeleteNow
<1>3. /\ y.kind = x.kind /\ y.user = x.user /\ y.known = x.known /\ y.left = found
      /\ y.accepted = x.accepted /\ y.conflicts = x.conflicts
      /\ y.curr = x.curr /\ y.vers = x.vers
  BY <1>2 DEF Context
<1>4. PICK p \in repos \ DefaultRepos : Owner[p] = x.user /\ x.known = {p}
  BY <1>2 DEF DeleteWorks
<1>5. \A u \in found : <<p, u>> \in members
  BY <1>4
<1> HIDE DEF y, found, x
<1>6. DeleteWorks("rows", y, records, repos, members)
  BY <1>2, <1>3, <1>4, <1>5 DEF DeleteWorks, Blank
<1>7. Working("rows", y, records, repos, members)
  BY <1>2, <1>3, <1>6 DEF Working
<1>8. QED
  BY <1>1, <1>7, GotoWorks

LEMMA ReadRowsWorks ==
    ASSUME RInv, OneSlot, NEW r \in Requests, ReadRows(r)
    PROVE  AllWork'
<1> DEFINE x == ctx[r]
           found == {id \in Ids : records[id] # None /\ records[id].repo \in x.known}
           y == [x EXCEPT !.gone = found]
<1>1. pc[r] = "rows" /\ Goto(r, "save", y) /\ UNCHANGED db
  BY DEF ReadRows
<1>2. /\ x \in Context /\ x.user \in Users /\ x.known \subseteq repos /\ x.kind = "deleteRepo"
      /\ DeleteWorks("rows", x, records, repos, members)
  BY <1>1, WorkNow, DeleteNow
<1>3. /\ y.kind = x.kind /\ y.user = x.user /\ y.known = x.known /\ y.left = x.left
      /\ y.gone = found /\ y.accepted = x.accepted /\ y.conflicts = x.conflicts
      /\ y.curr = x.curr /\ y.vers = x.vers
  BY <1>2 DEF Context
<1>4. PICK p \in repos \ DefaultRepos :
         /\ Owner[p] = x.user /\ x.known = {p} /\ \A u \in x.left : <<p, u>> \in members
  BY <1>2 DEF DeleteWorks
<1>5. found = {id \in Ids : records[id] # None /\ records[id].repo = p}
  BY <1>4
<1> HIDE DEF y, found, x
<1>6. DeleteWorks("save", y, records, repos, members)
  BY <1>2, <1>3, <1>4, <1>5 DEF DeleteWorks, Blank
<1>7. Working("save", y, records, repos, members)
  BY <1>2, <1>3, <1>6 DEF Working
<1>8. QED
  BY <1>1, <1>7, GotoWorks

-----------------------------------------------------------------------------
\* The ends of a request, and the changes of memberships while none is under way.
LEMMA EndWorks ==
    ASSUME RInv, OneSlot, NEW r \in Requests, SaveFails(r) \/ Respond(r) \/ Abort(r)
    PROVE  AllWork'
  BY GotoWorks DEF SaveFails, Answer, Respond, Abort

LEMMA SaveWorks ==
    ASSUME RInv, OneSlot, NEW r \in Requests, Save(r)
    PROVE  AllWork'
<1>1. Commit(ctx[r]) /\ Goto(r, "done", Replied(200, ctx[r].accepted, ctx[r].conflicts))
  BY DEF Save
<1>2. pc'[r] = "done" /\ \A q \in Requests : q = r
  BY <1>1, TheSlot, GotoReply DEF RInv, OneAtATime
<1>3. \A m \in members' : m[1] \in repos'
  BY <1>1 DEF Commit, RInv, AllWork
<1>4. QED
  BY <1>2, <1>3 DEF AllWork

LEMMA MembersWork ==
    ASSUME RInv, OneSlot, Share \/ Unshare
    PROVE  AllWork'
<1>1. PICK r \in Requests : pc[r] = "idle"
  BY DEF Share, Unshare
<1>2. \A q \in Requests : pc[q] = "idle"
  BY <1>1, TheSlot DEF OneAtATime
<1>3. UNCHANGED <<pc, repos>>
  BY DEF Share, Unshare
<1>4. \A m \in members' : m[1] \in repos
  <2>1. CASE Share
    BY <2>1 DEF Share, RInv, AllWork
  <2>2. CASE Unshare
    BY <2>2 DEF Unshare, RInv, AllWork
  <2>3. QED
    BY <2>1, <2>2
<1>5. QED
  BY <1>2, <1>3, <1>4 DEF AllWork

LEMMA InitRInv == Init => RInv
  BY InitSInv DEF Init, RInv, AllWork

LEMMA NextRInv == ASSUME OneSlot PROVE RInv /\ [Next]_vars => RInv'
<1> SUFFICES ASSUME RInv, [Next]_vars PROVE RInv'
  OBVIOUS
<1>1. OneAtATime
  BY DEF OneSlot, OneAtATime
<1>2. SInv'
  BY <1>1, NextSInv DEF RInv
<1>3. ASSUME NEW r \in Requests, Handler(r) PROVE AllWork'
  BY <1>3, ReceivePushWorks, PushAccessWorks, PushChangeWorks, ReceiveEditWorks,
     CreateRecordWorks, FindRecordWorks, ChangeRecordWorks, ReadRepoWorks,
     ReadMembersWorks, ReadRowsWorks, IncrementWorks, SaveWorks, EndWorks DEF Handler
<1>4. CASE Share \/ Unshare
  BY <1>2, <1>4, MembersWork DEF RInv
<1>5. CASE UNCHANGED vars
  <2>1. AllWork'
    BY <1>5 DEF vars, RInv, AllWork
  <2>2. QED
    BY <1>2, <2>1 DEF RInv
<1>6. QED
  BY <1>2, <1>3, <1>4, <1>5 DEF Next, RInv

-----------------------------------------------------------------------------
\* What a save writes when nothing else runs: the rows as they are in memory.
LEMMA MergedSame ==
    ASSUME NEW o \in Record, NEW n \in Record
    PROVE  Merged(o, n, o) = n
<1>1. \A a, b : Column(a, b, a) = b
  BY DEF Column
<1>2. Merged(o, n, o) = [blob |-> n.blob, repo |-> n.repo, version |-> n.version,
                         created |-> n.created, updated |-> n.updated, deleted |-> n.deleted]
  BY <1>1, Zenon DEF Merged
<1>3. QED
  BY <1>2 DEF Record

LEMMA SaveStaged ==
    ASSUME SInv, NEW r \in Requests, Save(r), ctx[r].kind # "deleteRepo", ctx[r].gone = {}
    PROVE  /\ records' = [id \in Ids |-> IF ctx[r].curr[id] # None THEN ctx[r].curr[id]
                                         ELSE records[id]]
           /\ repoVersion' = Raised(repoVersion, Announcing(ctx[r]))
           /\ repos' = repos /\ members' = members
<1> DEFINE c == ctx[r]
<1>1. /\ c \in Context /\ records \in [Ids -> Row] /\ repoVersion \in [Repos -> Nat]
      /\ Commit(c) /\ RowsCurrent(c, records) /\ CountersCurrent(c, repoVersion)
      /\ c.touched = {}
  BY DEF Save, SInv, AllCurrent, Current, IInv, TypeOK, Sound, Counted
<1>2. c.kind # "deleteRepo" /\ c.gone = {}
  OBVIOUS
<1> HIDE DEF c
<1>3. ASSUME NEW id \in Ids
      PROVE  Saved(c, id) = IF c.curr[id] # None THEN c.curr[id] ELSE records[id]
  <2>1. c.curr[id] \in Row /\ c.orig[id] \in Row
    BY <1>1 DEF Context
  <2>2. CASE Inserts(c, id)
    BY <1>2, <2>2 DEF Saved, Inserts, Updates
  <2>3. CASE Updates(c, id)
    <3>1. c.orig[id] = records[id] /\ c.orig[id] \in Record /\ c.curr[id] \in Record
      BY <1>1, <2>1, <2>3 DEF Updates, RowsCurrent, Row
    <3>2. Saved(c, id) = Merged(c.orig[id], c.curr[id], records[id])
      BY <1>2, <2>3 DEF Saved, Inserts, Updates
    <3>3. Merged(c.orig[id], c.curr[id], records[id]) = c.curr[id]
      BY <3>1, MergedSame
    <3>4. QED
      BY <2>3, <3>2, <3>3 DEF Updates
  <2>4. CASE ~Inserts(c, id) /\ ~Updates(c, id)
    <3>1. Saved(c, id) = records[id]
      BY <1>2, <2>4 DEF Saved
    <3>2. c.curr[id] # None => c.curr[id] = records[id]
      BY <1>1, <2>4 DEF Inserts, Updates, RowsCurrent
    <3>3. QED
      BY <3>1, <3>2
  <2>5. QED
    BY <2>2, <2>3, <2>4
<1>4. records' = [id \in Ids |-> IF c.curr[id] # None THEN c.curr[id] ELSE records[id]]
  BY <1>1, <1>3 DEF Commit
<1>5. repoVersion' = Raised(repoVersion, Announcing(c))
  <2>1. \A p \in Repos : p \in Announcing(c) <=> c.vers[p] > 0
    BY <1>1 DEF Announcing
  <2>2. \A p \in Repos : (IF c.vers[p] > 0 THEN c.vers[p] ELSE repoVersion[p])
                            = repoVersion[p] + IF p \in Announcing(c) THEN 1 ELSE 0
    BY <1>1, <2>1 DEF CountersCurrent
  <2>3. QED
    BY <1>1, <2>2 DEF Commit, Raised
<1>6. repos' = repos /\ members' = members
  BY <1>1, <1>2 DEF Commit
<1>7. QED
  BY <1>4, <1>5, <1>6 DEF c

\* A save that adds only records that are not there can go through.
LEMMA CanSaveCurrent ==
    ASSUME SInv, NEW r \in Requests, ctx[r].kind # "deleteRepo", ctx[r].gone = {},
           \A id \in Ids : Inserts(ctx[r], id) => records[id] = None
    PROVE  CanSave(ctx[r])
<1> DEFINE c == ctx[r]
<1>1. /\ RowsCurrent(c, records) /\ CountersCurrent(c, repoVersion)
      /\ c \in Context /\ repoVersion \in [Repos -> Nat]
  BY DEF SInv, AllCurrent, Current, IInv, TypeOK
<1>2. \A id \in Ids : Updates(c, id) => records[id] # None
  BY <1>1 DEF Updates, RowsCurrent
<1>3. \A p \in Repos : c.vers[p] = 1 => repoVersion[p] = 0
  BY <1>1 DEF CountersCurrent
<1>4. QED
  BY <1>2, <1>3 DEF CanSave

-----------------------------------------------------------------------------
\* The steps of the handlers are steps of the store.  First those that save.
LEMMA SavePushes ==
    ASSUME RInv, OneSlot, NEW r \in Requests, pc[r] = "save", ctx[r].kind = "push"
    PROVE  CanSave(ctx[r]) /\ (Save(r) => Store!Next)
<1> DEFINE x == ctx[r]
           reach == Reach(repos, members, x.user)
           start == PushStart(records, <<>>)
<1>1. x \in Context /\ records \in [Ids -> Row] /\ x.user \in Users /\ x.gone = {}
  BY WorkNow, PushNow
<1>2. PICK b \in Batches : PushedSoFar(x, Pushing(start, b, reach)[Len(b)], records)
  BY PushNow
<1>3. CanSave(x)
  <2>1. \A id \in Ids : Inserts(x, id) => records[id] = None
    BY <1>2 DEF PushedSoFar, Inserts
  <2>2. QED
    BY <1>1, <2>1, CanSaveCurrent DEF RInv
<1>4. ASSUME Save(r) PROVE Store!Next
  <2> DEFINE done == Pushed(start, b, reach)
  <2>1. b \in Seq(Change)
    BY BatchesAssumption
  <2>2. done \in PushState(Change) /\ PushedSoFar(x, done, records)
    <3>1. done = Pushing(start, b, reach)[Len(b)] /\ Len(b) \in 0..Len(b)
      BY <1>1, <2>1, PushTypes
    <3>2. QED
      BY <1>1, <1>2, <2>1, <3>1, PushTypes
  <2> HIDE DEF done
  <2>3. /\ records' = [id \in Ids |-> IF x.curr[id] # None THEN x.curr[id] ELSE records[id]]
        /\ repoVersion' = Raised(repoVersion, Announcing(x))
        /\ repos' = repos /\ members' = members
    BY <1>1, <1>4, SaveStaged DEF RInv
  <2>4. records' = done.rows
    <3>1. done.rows \in [Ids -> Row]
      BY <2>2 DEF PushState
    <3>2. \A id \in Ids : done.rows[id] = IF x.curr[id] # None THEN x.curr[id] ELSE records[id]
      BY <2>2 DEF PushedSoFar
    <3>3. QED
      BY <2>3, <3>1, <3>2
  <2>5. repoVersion' = Raised(repoVersion, done.touched)
    BY <2>2, <2>3 DEF PushedSoFar
  <2>6. Reply = None /\ Reply' = Store!Answer(200, done.accepted, done.conflicts)
    BY <1>4, <2>2, NoReply, RepliedReply DEF RInv, Save, PushedSoFar
  <2>7. done = Store!Pushed(Store!PushStart(records, <<>>), b, Store!Reachable(x.user))
    BY StoreOperators, StorePush DEF done
  <2>8. Store!Push(x.user, b)
    BY <2>3, <2>4, <2>5, <2>6, <2>7, StoreOperators DEF Store!Push, Reply
  <2>9. QED
    BY <1>1, <2>6, <2>8 DEF Store!Next, Store!Serve, Reply
<1>5. QED
  BY <1>3, <1>4

\* The row staged is the row the store puts there, together with its repo's counter.
LEMMA SaveEdits ==
    ASSUME RInv, OneSlot, NEW r \in Requests, pc[r] = "save",
           ctx[r].kind \in {"create", "update", "remove"}
    PROVE  Save(r) \/ SaveFails(r) => Store!Next
<1> DEFINE x == ctx[r]
           reach == Reach(repos, members, x.user)
           row(e) == records[e.id]
           new(e) == Outcome(x.kind, records[e.id], e)
<1>1. /\ x \in Context /\ records \in [Ids -> Row] /\ x.user \in Users /\ x.gone = {}
      /\ Reply = None /\ reach = Store!Reachable(x.user)
  BY WorkNow, EditNow, NoReply, StoreOperators
<1>2. PICK e \in Edits :
         /\ x.accepted = <<>> /\ x.conflicts = <<>>
         /\ \A id \in Ids : id # e.id => x.curr[id] = None
         /\ Staged(x, e, records, reach)
  BY EditNow DEF EditWorks
<1>3. e \in Change /\ e.id \in Ids /\ records[e.id] \in Row
  BY <1>1, EditsAssumption DEF Change
<1>4. /\ x.kind # "create" =>
            /\ records[e.id] # None /\ records[e.id] \in Record
            /\ records[e.id].version = e.expected /\ records[e.id].repo \in reach
            /\ x.orig[e.id] = records[e.id] /\ Announcing(x) = {records[e.id].repo}
      /\ x.kind = "create" =>
            x.orig[e.id] = None /\ e.repo \in reach /\ Announcing(x) = {e.repo}
      /\ x.curr[e.id] = new(e)
  BY <1>2, <1>3 DEF Staged, Row
<1>5. new(e) \in Record /\ new(e) # None /\ Announcing(x) = {new(e).repo}
  BY <1>3, <1>4, RecordOperators, NoneAssumption DEF Outcome
<1>6. Inserts(x, e.id) <=> x.kind = "create"
  BY <1>4, <1>5 DEF Inserts
<1>7. ASSUME Save(r) PROVE Store!Put(e.id, new(e))
  <2> DEFINE n == new(e)
  <2>1. /\ records' = [id \in Ids |-> IF x.curr[id] # None THEN x.curr[id] ELSE records[id]]
        /\ repoVersion' = Raised(repoVersion, Announcing(x))
        /\ repos' = repos /\ members' = members
    BY <1>1, <1>7, SaveStaged DEF RInv
  <2>2. x.curr[e.id] = n /\ n # None /\ Announcing(x) = {n.repo}
    BY <1>4, <1>5
  <2> HIDE DEF n
  <2>3. records' = [records EXCEPT ![e.id] = n]
    BY <1>1, <1>2, <2>1, <2>2
  <2>4. Reply' = Store!Answer(200, <<>>, <<>>)
    BY <1>2, <1>7, RepliedReply DEF RInv, Save
  <2>5. Store!Put(e.id, n)
    BY <2>1, <2>2, <2>3, <2>4, StoreOperators DEF Store!Put, Reply
  <2>6. QED
    BY <2>5 DEF n
<1>8. ASSUME Save(r)
      PROVE  Store!Create(x.user, e) \/ Store!Update(x.user, e) \/ Store!Delete(x.user, e)
  <2>1. CASE x.kind = "create"
    <3>1. records[e.id] = None
      BY <1>3, <1>6, <1>8, <2>1 DEF Save, CanSave
    <3>2. Store!Put(e.id, Store!NewRecord(e))
      BY <1>7, <1>8, <2>1, StoreOperators DEF Outcome
    <3>3. QED
      BY <1>1, <1>4, <2>1, <3>1, <3>2 DEF Store!Create
  <2>2. CASE x.kind = "update"
    <3>1. Store!Put(e.id, Store!Overwritten(records[e.id], e))
      BY <1>7, <1>8, <2>2, StoreOperators DEF Outcome
    <3>2. QED
      BY <1>1, <1>4, <2>2, <3>1 DEF Store!Update, Store!Writable
  <2>3. CASE x.kind = "remove"
    <3>1. Store!Put(e.id, Store!Tombstoned(records[e.id]))
      BY <1>7, <1>8, <2>3, StoreOperators DEF Outcome
    <3>2. QED
      BY <1>1, <1>4, <2>3, <3>1 DEF Store!Delete, Store!Writable
  <2>4. QED
    BY <2>1, <2>2, <2>3
<1>9. ASSUME SaveFails(r) PROVE Store!RefuseCreate(x.user, e)
  <2>1. Store!Refuse(500)
    BY <1>9, AnswerRefuses DEF SaveFails, RInv
  <2>2. ~CanSave(x)
    BY <1>9 DEF SaveFails
  <2>3. PICK id \in Ids : Inserts(x, id) /\ records[id] # None
    BY <1>1, <2>2, CanSaveCurrent DEF RInv
  <2>4. id = e.id
    BY <1>2, <2>3 DEF Inserts
  <2>5. QED
    BY <1>1, <1>4, <1>6, <2>1, <2>3, <2>4 DEF Store!RefuseCreate
<1>10. QED
  BY <1>1, <1>2, <1>8, <1>9 DEF Store!Next, Store!Serve, Reply

\* The deletion of a repo removes what the store removes.
LEMMA SaveDeletes ==
    ASSUME RInv, OneSlot, NEW r \in Requests, pc[r] = "save", ctx[r].kind = "deleteRepo"
    PROVE  CanSave(ctx[r]) /\ (Save(r) => Store!Next)
<1> DEFINE x == ctx[r]
<1>1. /\ x \in Context /\ records \in [Ids -> Row] /\ repoVersion \in [Repos -> Nat]
      /\ repos \subseteq Repos /\ x.user \in Users /\ x.known \subseteq repos
      /\ DeleteWorks("save", x, records, repos, members)
  BY WorkNow DEF Working, RInv, SInv, IInv, TypeOK
<1>2. PICK p \in repos \ DefaultRepos :
         /\ Owner[p] = x.user /\ x.known = {p} /\ \A u \in x.left : <<p, u>> \in members
         /\ x.gone = {id \in Ids : records[id] # None /\ records[id].repo = p}
  BY <1>1 DEF DeleteWorks
<1>3. /\ \A id \in Ids : x.curr[id] = None
      /\ \A q \in Repos : x.vers[q] = 0
      /\ x.accepted = <<>> /\ x.conflicts = <<>> /\ x.kind = "deleteRepo"
  BY <1>1 DEF DeleteWorks, Blank
<1>4. \A id \in Ids : ~Inserts(x, id) /\ ~Updates(x, id)
  BY <1>3 DEF Inserts, Updates
<1>5. CanSave(x)
  BY <1>1, <1>2, <1>3, <1>4 DEF CanSave
<1>6. ASSUME Save(r) PROVE Store!Next
  <2>1. Commit(x)
    BY <1>6 DEF Save
  <2> HIDE DEF x
  <2>2. \A id \in Ids : Saved(x, id) = IF records[id] # None /\ records[id].repo = p THEN None
                                       ELSE records[id]
    BY <1>2, <1>4 DEF Saved
  <2>3. records' = [id \in Ids |-> IF records[id] # None /\ records[id].repo = p THEN None
                                   ELSE records[id]]
    BY <2>1, <2>2 DEF Commit
  <2>4. repoVersion' = repoVersion
    BY <1>1, <1>3, <2>1 DEF Commit
  <2>5. repos' = repos \ {p} /\ members' = {m \in members : m[1] # p}
    BY <1>2, <1>3, <2>1 DEF Commit
  <2>6. Reply = None /\ Reply' = Store!Answer(200, <<>>, <<>>)
    BY <1>3, <1>6, NoReply, RepliedReply DEF RInv, Save, x
  <2>7. Store!DeleteRepo(x.user, p)
    BY <1>2, <2>3, <2>4, <2>5, <2>6 DEF Store!DeleteRepo, Reply
  <2>8. QED
    BY <1>1, <1>2, <2>6, <2>7 DEF Store!Next, Store!Serve, Reply
<1>7. QED
  BY <1>5, <1>6

LEMMA SavesServe ==
    ASSUME RInv, OneSlot, NEW r \in Requests, Save(r) \/ SaveFails(r)
    PROVE  Store!Next
<1>1. pc[r] = "save"
  BY DEF Save, SaveFails
<1>2. ctx[r].kind \in {"push", "create", "update", "remove", "deleteRepo"}
  BY <1>1, WorkNow DEF Working
<1>3. QED
  BY <1>1, <1>2, SavePushes, SaveEdits, SaveDeletes DEF SaveFails

-----------------------------------------------------------------------------
\* Then the refusals, the reply and the memberships.
LEMMA RefusalsServe ==
    ASSUME RInv, OneSlot, NEW r \in Requests, NEW e \in Edits, NEW u \in Users, Reply = None,
           Store!RefuseCreate(u, e) \/ Store!RefuseChange(u, e)
    PROVE  Store!Next
  BY DEF Store!Next, Store!Serve, Reply

LEMMA CreateRecordServes ==
    ASSUME RInv, OneSlot, NEW r \in Requests, CreateRecord(r)
    PROVE  Store!Next \/ UNCHANGED Store!vars
<1> DEFINE x == ctx[r]
           c == Head(x.todo)
<1>1. /\ pc[r] = "access" /\ x.kind = "create"
      /\ IF Access(r, c.repo)
         THEN Stage(r, c.id, None, NewRecord(c), c.repo) /\ UNCHANGED db
         ELSE Answer(r, 403)
  BY DEF CreateRecord
<1>2. PICK e \in Edits : x.todo = <<e>>
  BY <1>1, EditNow DEF EditWorks
<1>3. c = e /\ e.repo \in Repos /\ x.user \in Users
  BY <1>1, <1>2, EditsAssumption, WorkNow, EditNow DEF Change
<1>4. CASE Access(r, c.repo)
  BY <1>1, <1>4, GotoStutters DEF Stage, RInv
<1>5. CASE ~Access(r, c.repo)
  <2>1. Reply = None /\ Store!Refuse(403)
    BY <1>1, <1>5, AnswerRefuses DEF RInv
  <2>2. e.repo \notin Store!Reachable(x.user)
    BY <1>1, <1>3, <1>5, AccessReach, StoreOperators
  <2>3. QED
    BY <1>3, <2>1, <2>2, RefusalsServe DEF Store!RefuseCreate
<1>6. QED
  BY <1>4, <1>5

LEMMA FindRecordServes ==
    ASSUME RInv, OneSlot, NEW r \in Requests, FindRecord(r)
    PROVE  Store!Next \/ UNCHANGED Store!vars
<1> DEFINE x == ctx[r]
           c == Head(x.todo)
           t == Tracking(x, c.id, records[c.id], records[c.id])
<1>1. /\ pc[r] = "find" /\ x.kind \in {"update", "remove"}
      /\ IF records[c.id] = None THEN Answer(r, 404) ELSE Goto(r, "access", t) /\ UNCHANGED db
  BY DEF FindRecord
<1>2. PICK e \in Edits : x.todo = <<e>>
  BY <1>1, EditNow DEF EditWorks
<1>3. c = e /\ x.user \in Users
  BY <1>1, <1>2, EditNow
<1>4. CASE records[c.id] = None
  <2>1. Reply = None /\ Store!Refuse(404)
    BY <1>1, <1>4, AnswerRefuses DEF RInv
  <2>2. QED
    BY <1>3, <1>4, <2>1, RefusalsServe DEF Store!RefuseChange
<1>5. CASE records[c.id] # None
  BY <1>1, <1>5, GotoStutters DEF RInv
<1>6. QED
  BY <1>4, <1>5

LEMMA ChangeRecordServes ==
    ASSUME RInv, OneSlot, NEW r \in Requests, ChangeRecord(r)
    PROVE  Store!Next \/ UNCHANGED Store!vars
<1> DEFINE x == ctx[r]
           c == Head(x.todo)
           rec == x.curr[c.id]
           changed == IF x.kind = "update" THEN Overwritten(rec, c) ELSE Tombstoned(rec)
<1>1. /\ pc[r] = "access" /\ x.kind \in {"update", "remove"}
      /\ IF ~Access(r, rec.repo) THEN Answer(r, 403)
         ELSE IF c.expected # rec.version THEN Answer(r, 409)
         ELSE Stage(r, c.id, rec, changed, rec.repo) /\ UNCHANGED db
  BY DEF ChangeRecord
<1>2. PICK e \in Edits :
         x.todo = <<e>> /\ records[e.id] # None /\ x.curr[e.id] = records[e.id]
  BY <1>1, EditNow DEF EditWorks
<1>3. /\ c = e /\ e.id \in Ids /\ rec = records[e.id] /\ rec \in Record /\ rec.repo \in Repos
      /\ x.user \in Users
  <2>1. c = e /\ e.id \in Ids /\ rec = records[e.id] /\ rec \in Record
    BY <1>1, <1>2, EditsAssumption, WorkNow DEF Change, Row
  <2>2. QED
    BY <1>1, <2>1, EditNow DEF Record
<1>4. Access(r, rec.repo) <=> rec.repo \in Store!Reachable(x.user)
  BY <1>1, <1>3, AccessReach, StoreOperators
<1> HIDE DEF rec
<1>5. CASE ~Access(r, rec.repo)
  <2>1. Reply = None /\ Store!Refuse(403)
    BY <1>1, <1>5, AnswerRefuses DEF RInv
  <2>2. QED
    BY <1>2, <1>3, <1>4, <1>5, <2>1, RefusalsServe DEF Store!RefuseChange
<1>6. CASE Access(r, rec.repo) /\ c.expected # rec.version
  <2>1. Reply = None /\ Store!Refuse(409)
    BY <1>1, <1>6, AnswerRefuses DEF RInv
  <2>2. QED
    BY <1>2, <1>3, <1>4, <1>6, <2>1, RefusalsServe DEF Store!RefuseChange
<1>7. CASE Access(r, rec.repo) /\ c.expected = rec.version
  BY <1>1, <1>7, GotoStutters DEF Stage, RInv
<1>8. QED
  BY <1>5, <1>6, <1>7

LEMMA ReadRepoServes ==
    ASSUME RInv, OneSlot, NEW r \in Requests, ReadRepo(r)
    PROVE  Store!Next \/ UNCHANGED Store!vars
<1>1. PICK u \in Users, p \in Repos :
         /\ pc[r] = "idle"
         /\ IF p \notin repos \/ Owner[p] # u THEN Answer(r, 404)
            ELSE IF p \in DefaultRepos THEN Answer(r, 400)
            ELSE Goto(r, "members", Deleting(u, p)) /\ UNCHANGED db
  BY DEF ReadRepo
<1>2. ASSUME Reply = None, Store!RefuseDeletion(u, p) PROVE Store!Next
  BY <1>2 DEF Store!Next, Store!Serve, Reply
<1>3. CASE p \notin repos \/ Owner[p] # u
  <2>1. Reply = None /\ Store!Refuse(404)
    BY <1>1, <1>3, AnswerRefuses DEF RInv
  <2>2. QED
    BY <1>2, <1>3, <2>1 DEF Store!RefuseDeletion
<1>4. CASE p \in repos /\ Owner[p] = u /\ p \in DefaultRepos
  <2>1. Reply = None /\ Store!Refuse(400)
    BY <1>1, <1>4, AnswerRefuses DEF RInv
  <2>2. QED
    BY <1>2, <1>4, <2>1 DEF Store!RefuseDeletion
<1>5. CASE p \in repos /\ Owner[p] = u /\ p \notin DefaultRepos
  BY <1>1, <1>5, GotoStutters DEF RInv
<1>6. QED
  BY <1>3, <1>4, <1>5

LEMMA RespondDelivers ==
    ASSUME RInv, OneSlot, NEW r \in Requests, Respond(r)
    PROVE  Store!Next
<1>1. pc[r] = "done" /\ Goto(r, "idle", Idle) /\ UNCHANGED db
  BY DEF Respond
<1>2. Reply' = None
  BY <1>1, GotoReply DEF RInv
<1>3. Reply # None
  <2>1. /\ ctx[r].status \in Int
        /\ ctx[r].accepted \in Seq(Verdict) /\ ctx[r].conflicts \in Seq(Verdict)
    <3>1. ctx[r] \in Context
      BY DEF RInv, SInv, IInv, TypeOK
    <3>2. \A s \in Statuses : s \in Int
      BY DEF Statuses
    <3>3. ctx[r].status \in Statuses
      BY <3>1 DEF Context
    <3>4. QED
      BY <3>1, <3>2, <3>3 DEF Context
  <2>2. Reply = [status |-> ctx[r].status, accepted |-> ctx[r].accepted,
                 conflicts |-> ctx[r].conflicts]
    BY <1>1, TheSlot DEF Reply
  <2>3. QED
    BY <2>1, <2>2, ReplyAssumption
<1>4. QED
  BY <1>1, <1>2, <1>3 DEF db, Store!Next, Store!Deliver, Store!db, Reply

LEMMA MembersChange ==
    ASSUME RInv, OneSlot, Share \/ Unshare
    PROVE  Store!Next
<1>1. Reply' = Reply /\ UNCHANGED <<records, repoVersion, repos, pc, ctx>>
  <2>1. UNCHANGED <<records, repoVersion, repos, pc, ctx>>
    BY DEF Share, Unshare
  <2>2. Slot' = Slot
    BY DEF Slot
  <2>3. QED
    BY <2>1, <2>2 DEF Reply
<1>2. \E p \in repos, u \in Users :
         members' = members \cup {<<p, u>>} \/ members' = members \ {<<p, u>>}
  <2>1. CASE Share
    BY <2>1 DEF Share
  <2>2. CASE Unshare
    <3>1. PICK m \in members : members' = members \ {m}
      BY <2>2 DEF Unshare
    <3>2. m \in Repos \X Users /\ m[1] \in repos
      BY DEF RInv, AllWork, SInv, IInv, TypeOK
    <3>3. m = <<m[1], m[2]>> /\ m[2] \in Users
      BY <3>2
    <3>4. QED
      BY <3>1, <3>2, <3>3
  <2>3. QED
    BY <2>1, <2>2
<1>3. QED
  BY <1>1, <1>2 DEF Store!Next, Store!ChangeMembers, Reply

\* Every other step of a handler is between the request's arrival and its save.
LEMMA QuietSteps ==
    ASSUME RInv, OneSlot, NEW r \in Requests,
           \/ ReceivePush(r) \/ ReceiveCreate(r) \/ ReceiveUpdate(r) \/ ReceiveRemove(r)
           \/ PushAccess(r) \/ PushChange(r) \/ ReadMembers(r) \/ ReadRows(r)
           \/ IncrementRepoVersion(r) \/ Abort(r)
    PROVE  UNCHANGED Store!vars
<1>1. \A c : AfterChange(c) # "done"
  BY DEF AfterChange
<1>2. \E s, c : Goto(r, s, c) /\ s # "done" /\ pc[r] # "done" /\ UNCHANGED db
  <2>1. CASE ReceivePush(r) \/ ReceiveCreate(r) \/ ReceiveUpdate(r) \/ ReceiveRemove(r)
    BY <2>1 DEF ReceivePush, ReceiveCreate, ReceiveUpdate, ReceiveRemove, Receive
  <2>2. CASE PushAccess(r)
    BY <1>1, <2>2 DEF PushAccess
  <2>3. CASE PushChange(r)
    BY <1>1, <2>3 DEF PushChange
  <2>4. CASE ReadMembers(r) \/ ReadRows(r) \/ Abort(r)
    BY <2>4 DEF ReadMembers, ReadRows, Abort
  <2>5. CASE IncrementRepoVersion(r)
    BY <2>5 DEF IncrementRepoVersion
  <2>6. QED
    BY <2>1, <2>2, <2>3, <2>4, <2>5
<1>3. QED
  BY <1>2, GotoStutters DEF RInv

LEMMA InitStore == ASSUME OneSlot, Init PROVE Store!Init
<1>1. Slot \in Requests
  BY DEF OneSlot, Slot
<1>2. Reply = None
  BY <1>1 DEF Init, Reply
<1>3. QED
  BY <1>2 DEF Init, Store!Init, NoRows, Reply

LEMMA NextStore ==
    ASSUME RInv, OneSlot, [Next]_vars
    PROVE  [Store!Next]_(Store!vars)
<1>1. ASSUME NEW r \in Requests, Handler(r) PROVE Store!Next \/ UNCHANGED Store!vars
  BY <1>1, QuietSteps, CreateRecordServes, FindRecordServes, ChangeRecordServes,
     ReadRepoServes, SavesServe, RespondDelivers DEF Handler
<1>2. CASE Share \/ Unshare
  BY <1>2, MembersChange
<1>3. CASE UNCHANGED vars
  BY <1>3 DEF vars, Slot, Store!vars
<1>4. QED
  BY <1>1, <1>2, <1>3 DEF Next

(***************************************************************************)
(* When requests do not overlap, every request of POST /sync/push, of      *)
(* /otp and of DELETE /repos takes effect at one moment, at its save, and  *)
(* is answered as the atomic store answers it: the code between two        *)
(* awaits never shows.                                                     *)
(***************************************************************************)
THEOREM SerialImplementsStore ==
    ASSUME OneSlot PROVE Spec => ImplementsStore
<1>1. Init => Store!Init
  BY InitStore
<1>2. RInv /\ [Next]_vars => RInv'
  BY NextRInv
<1>3. RInv /\ [Next]_vars => [Store!Next]_(Store!vars)
  BY NextStore
<1>4. QED
  BY <1>1, <1>2, <1>3, InitRInv, PTL DEF Spec, ImplementsStore, Store!Spec
=============================================================================
