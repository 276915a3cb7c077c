-------------------------- MODULE SyncServer_proofs --------------------------
(***************************************************************************)
(* What holds of the backend's handlers for every set of users, repos,     *)
(* records and pushes and for every number of overlapping requests.        *)
(***************************************************************************)
EXTENDS SyncServer, SequenceTheorems, TLAPS

(***************************************************************************)
(* What is true of a handler at step s with context c: it has a change to  *)
(* look at where it looks at one; it saves only when every touched repo    *)
(* was incremented; a record it adds is accounted for in its repo's        *)
(* counter; and it moves no record to another repo and revives none.       *)
(***************************************************************************)
HasChange(s, c) ==
    /\ s \in {"access", "find"} /\ c.kind # "push" => c.todo # <<>>
    /\ s = "access" /\ c.kind \in {"update", "remove"} => c.curr[Head(c.todo).id] # None

Counted(s, c) ==
    /\ s \in {"members", "rows", "save"} => c.touched = {}
    /\ \A id \in Ids : Inserts(c, id) =>
          c.curr[id].repo \in c.touched \/ c.vers[c.curr[id].repo] > 0

Faithful(c) ==
    \A id \in Ids : c.curr[id] # None /\ c.orig[id] # None =>
        /\ c.curr[id].repo = c.orig[id].repo
        /\ c.orig[id].deleted => c.curr[id].deleted

Sound(s, c) == HasChange(s, c) /\ Counted(s, c) /\ Faithful(c)

\* The inductive invariant.
IInv ==
    /\ TypeOK
    /\ RecordHasRepoVersion
    /\ \A r \in Requests : Sound(pc[r], ctx[r])

-----------------------------------------------------------------------------
\* The context of an idle or answered request is a context, and sound anywhere it is used.
LEMMA FreshContext ==
    ASSUME NEW kind \in Kinds, NEW u \in Users \cup {None}, NEW todo \in Seq(Change)
    PROVE  /\ Fresh(kind, u, todo) \in Context
           /\ \A s \in Steps :
                 HasChange(s, Fresh(kind, u, todo)) => Sound(s, Fresh(kind, u, todo))
<1>1. NoRows \in [Ids -> Row] /\ \A id \in Ids : NoRows[id] = None
  BY DEF NoRows, Row
<1>2. Fresh(kind, u, todo) \in Context
  BY <1>1 DEF Fresh, Context, Statuses
<1>3. QED
  BY <1>1, <1>2 DEF Fresh, Sound, Counted, Faithful, Inserts

LEMMA IdleContext == Idle \in Context /\ Sound("idle", Idle)
<1>1. <<>> \in Seq(Change) /\ "none" \in Kinds /\ None \in Users \cup {None}
  BY DEF Kinds
<1>2. HasChange("idle", Idle)
  BY DEF HasChange
<1>3. QED
  BY <1>1, <1>2, FreshContext DEF Idle, Steps

LEMMA RepliedContext ==
    ASSUME NEW code \in Statuses, NEW a \in Seq(Verdict), NEW b \in Seq(Verdict)
    PROVE  Replied(code, a, b) \in Context /\ Sound("done", Replied(code, a, b))
<1>1. Replied(code, a, b) \in Context
  BY IdleContext DEF Replied, Context
<1>2. /\ Replied(code, a, b).curr = Idle.curr
      /\ Replied(code, a, b).orig = Idle.orig
  BY IdleContext DEF Replied, Context
<1>3. \A id \in Ids : Idle.curr[id] = None
  BY DEF Idle, Fresh, NoRows
<1>4. QED
  BY <1>1, <1>2, <1>3 DEF Sound, HasChange, Counted, Faithful, Inserts

\* A move that leaves the database alone keeps the invariant if it goes somewhere sound.
LEMMA GotoKeeps ==
    ASSUME IInv, NEW r \in Requests, NEW s \in Steps, NEW c \in Context,
           Goto(r, s, c), UNCHANGED db, Sound(s, c)
    PROVE  IInv'
<1>1. pc' \in [Requests -> Steps] /\ ctx' \in [Requests -> Context]
  BY DEF IInv, TypeOK, Goto
<1>2. ASSUME NEW q \in Requests PROVE Sound(pc'[q], ctx'[q])
  <2>1. CASE q = r
    BY <2>1 DEF IInv, TypeOK, Goto
  <2>2. CASE q # r
    <3>1. pc'[q] = pc[q] /\ ctx'[q] = ctx[q]
      BY <2>2 DEF IInv, TypeOK, Goto
    <3>2. QED
      BY <3>1 DEF IInv
  <2>3. QED
    BY <2>1, <2>2
<1>3. TypeOK' /\ RecordHasRepoVersion'
  BY <1>1 DEF IInv, TypeOK, RecordHasRepoVersion, db
<1>4. QED
  BY <1>2, <1>3 DEF IInv, Sound, HasChange, Counted, Faithful, Inserts

LEMMA AnswerKeeps ==
    ASSUME IInv, NEW r \in Requests, NEW code \in Statuses, Answer(r, code)
    PROVE  IInv'
<1>1. <<>> \in Seq(Verdict)
  OBVIOUS
<1>2. QED
  BY <1>1, RepliedContext, GotoKeeps DEF Answer, Steps

-----------------------------------------------------------------------------
\* What the handlers do to one record, and what look-ups return, are rows.
LEMMA RecordOperators ==
    /\ \A c \in Change : NewRecord(c) \in Record /\ NewRecord(c).repo = c.repo
    /\ \A rec \in Record, c \in Change :
          /\ Overwritten(rec, c) \in Record
          /\ Overwritten(rec, c).repo = rec.repo
          /\ Overwritten(rec, c).deleted = rec.deleted
    /\ \A rec \in Record :
          /\ Tombstoned(rec) \in Record
          /\ Tombstoned(rec).repo = rec.repo
          /\ Tombstoned(rec).deleted
<1>1. ASSUME NEW c \in Change
      PROVE  NewRecord(c) \in Record /\ NewRecord(c).repo = c.repo
  BY DEF Record, Change, Version, NewRecord
<1>2. ASSUME NEW rec \in Record, NEW c \in Change
      PROVE  /\ Overwritten(rec, c) \in Record
             /\ Overwritten(rec, c).repo = rec.repo
             /\ Overwritten(rec, c).deleted = rec.deleted
  <2>1. rec.version + 1 \in Version
    BY DEF Record, Version
  <2>2. QED
    BY <2>1 DEF Record, Change, Overwritten
<1>3. ASSUME NEW rec \in Record
      PROVE  /\ Tombstoned(rec) \in Record
             /\ Tombstoned(rec).repo = rec.repo
             /\ Tombstoned(rec).deleted
  <2>1. rec.version + 1 \in Version
    BY DEF Record, Version
  <2>2. QED
    BY <2>1 DEF Record, Tombstoned
<1>4. QED
  BY <1>1, <1>2, <1>3

\* Tracking one more record gives a context, and disturbs nothing but that record.
LEMMA TrackingContext ==
    ASSUME NEW c \in Context, NEW id \in Ids, NEW o \in Row, NEW n \in Row
    PROVE  /\ Tracking(c, id, o, n) \in Context
           /\ Tracking(c, id, o, n).orig = [c.orig EXCEPT ![id] = o]
           /\ Tracking(c, id, o, n).curr = [c.curr EXCEPT ![id] = n]
           /\ Tracking(c, id, o, n).touched = c.touched
           /\ Tracking(c, id, o, n).vers = c.vers
           /\ Tracking(c, id, o, n).kind = c.kind
           /\ Tracking(c, id, o, n).todo = c.todo
  BY DEF Tracking, Context

\* A handler that now tracks a record it added in a touched repo, or a changed copy
\* of one it read, is as sound as before.
LEMMA TrackingSound ==
    ASSUME NEW c \in Context, NEW id \in Ids, NEW o \in Row, NEW n \in Record,
           Faithful(c), Counted("find", c),
           o = None => n.repo \in c.touched \/ c.vers[n.repo] > 0,
           o # None => n.repo = o.repo /\ (o.deleted => n.deleted)
    PROVE  Faithful(Tracking(c, id, o, n)) /\ Counted("find", Tracking(c, id, o, n))
<1> DEFINE t == Tracking(c, id, o, n)
<1>1. /\ t.orig = [c.orig EXCEPT ![id] = o] /\ t.curr = [c.curr EXCEPT ![id] = n]
      /\ t.touched = c.touched /\ t.vers = c.vers
  BY TrackingContext DEF Row
<1>2. c.orig \in [Ids -> Row] /\ c.curr \in [Ids -> Row]
  BY DEF Context
<1>3. t.orig[id] = o /\ t.curr[id] = n
  BY <1>1, <1>2
<1>4. \A i \in Ids : i # id => t.orig[i] = c.orig[i] /\ t.curr[i] = c.curr[i]
  BY <1>1, <1>2
<1> HIDE DEF t
<1>5. Faithful(t)
  BY <1>3, <1>4 DEF Faithful
<1>6. Counted("find", t)
  BY <1>1, <1>3, <1>4 DEF Counted, Inserts
<1>7. QED
  BY <1>5, <1>6 DEF t

\* What Found and Original say of a record, in a sound context.
LEMMA FoundRow ==
    ASSUME IInv, NEW r \in Requests, NEW id \in Ids
    PROVE  /\ Found(r, id) \in Row /\ Original(r, id) \in Row
           /\ Found(r, id) # None /\ Original(r, id) # None =>
                 /\ Found(r, id).repo = Original(r, id).repo
                 /\ Original(r, id).deleted => Found(r, id).deleted
           /\ Found(r, id) # None /\ Original(r, id) = None =>
                 \/ Found(r, id).repo \in ctx[r].touched
                 \/ ctx[r].vers[Found(r, id).repo] > 0
  BY DEF IInv, TypeOK, Context, Sound, Faithful, Counted, Inserts, Found, Original, Row

-----------------------------------------------------------------------------
\* A push that has dealt with one change goes somewhere it is sound.
LEMMA AfterChangeSound ==
    ASSUME NEW c \in Context, c.kind = "push", Faithful(c), Counted("find", c)
    PROVE  AfterChange(c) \in Steps /\ Sound(AfterChange(c), c)
  BY DEF AfterChange, Steps, Sound, HasChange, Counted

\* Taking the next change off the list, alone, with an acceptance or with a conflict.
LEMMA TailContext ==
    ASSUME NEW x \in Context, x.todo # <<>>, NEW v \in Version
    PROVE  LET c == Head(x.todo)
               skipped == [x EXCEPT !.todo = Tail(@)]
           IN /\ c \in Change
              /\ \A y \in {skipped, Accepting(x, c, v), Refusing(x, c, v)} :
                    /\ y \in Context /\ y.kind = x.kind /\ y.vers = x.vers
                    /\ y.orig = x.orig /\ y.curr = x.curr
              /\ skipped.touched = x.touched
              /\ Accepting(x, c, v).touched = x.touched \cup {c.repo}
              /\ Refusing(x, c, v).touched = x.touched
<1> DEFINE c == Head(x.todo)
<1>1. c \in Change /\ Tail(x.todo) \in Seq(Change)
  BY HeadTailProperties DEF Context
<1>2. x.touched \cup {c.repo} \in SUBSET Repos /\ [id |-> c.id, version |-> v] \in Verdict
  BY <1>1 DEF Context, Change, Verdict
<1>3. /\ Append(x.accepted, [id |-> c.id, version |-> v]) \in Seq(Verdict)
      /\ Append(x.conflicts, [id |-> c.id, version |-> v]) \in Seq(Verdict)
  BY <1>2, AppendProperties DEF Context
<1> HIDE DEF c
<1>4. [x EXCEPT !.todo = Tail(@)] \in Context
  BY <1>1 DEF Context
<1>5. Accepting(x, c, v) \in Context
  BY <1>1, <1>2, <1>3 DEF Context, Accepting
<1>6. Refusing(x, c, v) \in Context
  BY <1>1, <1>3 DEF Context, Refusing
<1> DEFINE skipped == [x EXCEPT !.todo = Tail(@)]
           taken == Accepting(x, c, v)
           refused == Refusing(x, c, v)
           Same(y) == y.kind = x.kind /\ y.vers = x.vers /\ y.orig = x.orig /\ y.curr = x.curr
<1>7. Same(skipped) /\ skipped.touched = x.touched
  BY DEF Context
<1>8. Same(taken) /\ taken.touched = x.touched \cup {c.repo}
  BY DEF Context, Accepting
<1>9. Same(refused) /\ refused.touched = x.touched
  BY DEF Context, Refusing
<1>10. skipped \in Context /\ taken \in Context /\ refused \in Context
  BY <1>4, <1>5, <1>6
<1> HIDE DEF skipped, taken, refused
<1>11. QED
  BY <1>1, <1>7, <1>8, <1>9, <1>10 DEF c, skipped, taken, refused

LEMMA ReceiveKeeps ==
    ASSUME IInv, NEW r \in Requests,
           ReceivePush(r) \/ ReceiveCreate(r) \/ ReceiveUpdate(r) \/ ReceiveRemove(r)
    PROVE  IInv'
<1>1. ASSUME NEW kind \in Kinds, NEW u \in Users, NEW todo \in Seq(Change),
             NEW s \in {"access", "find", "save"}, Receive(r, kind, u, todo, s),
             kind # "push" => todo # <<>>,
             ~(s = "access" /\ kind \in {"update", "remove"})
      PROVE  IInv'
  <2> DEFINE c == Fresh(kind, u, todo)
  <2>1. HasChange(s, c)
    BY <1>1 DEF HasChange, Fresh
  <2>2. c \in Context /\ s \in Steps /\ Sound(s, c)
    BY <2>1, FreshContext DEF Steps
  <2>3. QED
    BY <1>1, <2>2, GotoKeeps DEF Receive
<1>2. \A e \in Edits : <<e>> \in Seq(Change) /\ <<e>> # <<>>
  BY EditsAssumption
<1>3. CASE ReceivePush(r)
  <2>1. PICK u \in Users, b \in Batches :
           Receive(r, "push", u, b, IF b # <<>> THEN "access" ELSE "save")
    BY <1>3 DEF ReceivePush
  <2>2. b \in Seq(Change) /\ "push" \in Kinds
    BY BatchesAssumption DEF Kinds
  <2>3. CASE b # <<>>
    BY <1>1, <2>1, <2>2, <2>3
  <2>4. CASE b = <<>>
    BY <1>1, <2>1, <2>2, <2>4
  <2>5. QED
    BY <2>3, <2>4
<1>4. CASE ReceiveCreate(r)
  BY <1>1, <1>2, <1>4 DEF ReceiveCreate, Kinds
<1>5. CASE ReceiveUpdate(r)
  BY <1>1, <1>2, <1>5 DEF ReceiveUpdate, Kinds
<1>6. CASE ReceiveRemove(r)
  BY <1>1, <1>2, <1>6 DEF ReceiveRemove, Kinds
<1>7. QED
  BY <1>3, <1>4, <1>5, <1>6

LEMMA PushAccessKeeps == ASSUME IInv, NEW r \in Requests, PushAccess(r) PROVE IInv'
<1> DEFINE c == ctx[r]
           p == Head(c.todo).repo
           skipped == [c EXCEPT !.todo = Tail(@)]
           known == [c EXCEPT !.known = @ \cup {p}]
<1>1. c \in Context /\ c.todo # <<>> /\ c.kind = "push" /\ Sound("access", c)
  BY DEF PushAccess, IInv, TypeOK
<1>2. Faithful(c) /\ Counted("find", c)
  BY <1>1 DEF Sound, Counted
<1>3. CASE Access(r, p)
  <2>1. p \in Repos
    <3>1. Head(c.todo) \in Change
      BY <1>1, HeadTailProperties DEF Context
    <3>2. QED
      BY <3>1 DEF Change
  <2>2. /\ known \in Context /\ known.kind = "push" /\ known.touched = c.touched
        /\ known.curr = c.curr /\ known.orig = c.orig /\ known.vers = c.vers
    BY <1>1, <2>1 DEF Context
  <2>3. Sound("find", known)
    BY <1>2, <2>2 DEF Sound, HasChange, Counted, Faithful, Inserts
  <2>4. QED
    BY <1>3, <2>2, <2>3, GotoKeeps DEF PushAccess, Steps
<1>4. CASE ~Access(r, p)
  <2>1. 1 \in Version
    BY DEF Version
  <2>2. /\ skipped \in Context /\ skipped.kind = "push" /\ skipped.touched = c.touched
        /\ skipped.curr = c.curr /\ skipped.orig = c.orig /\ skipped.vers = c.vers
    BY <1>1, <2>1, TailContext
  <2>3. Faithful(skipped) /\ Counted("find", skipped)
    BY <1>2, <2>2 DEF Faithful, Counted, Inserts
  <2>4. QED
    BY <1>4, <2>2, <2>3, AfterChangeSound, GotoKeeps DEF PushAccess
<1>5. QED
  BY <1>3, <1>4

\* Whatever a push decides about a change, its context stays sound.
LEMMA JudgeSound ==
    ASSUME IInv, NEW r \in Requests, ctx[r].kind = "push", ctx[r].todo # <<>>
    PROVE  LET j == Judge(r, Head(ctx[r].todo))
           IN j \in Context /\ j.kind = "push" /\ Faithful(j) /\ Counted("find", j)
<1> DEFINE x == ctx[r]
           c == Head(x.todo)
           rec == Found(r, c.id)
           orig == Original(r, c.id)
           Fine(y) == y \in Context /\ y.kind = "push" /\ Faithful(y) /\ Counted("find", y)
<1>1. Fine(x) /\ x.todo # <<>>
  BY DEF IInv, TypeOK, Sound, Counted
<1>2. c \in Change /\ c.id \in Ids /\ c.repo \in Repos
  <2>1. c \in Change
    BY <1>1, HeadTailProperties DEF Context
  <2>2. QED
    BY <2>1 DEF Change
<1>3. /\ rec \in Row /\ orig \in Row
      /\ rec # None /\ orig # None =>
            rec.repo = orig.repo /\ (orig.deleted => rec.deleted)
      /\ rec # None /\ orig = None => rec.repo \in x.touched \/ x.vers[rec.repo] > 0
  BY <1>2, FoundRow
<1>4. Judge(r, c) =
        IF rec = None
        THEN Tracking(Accepting(x, c, 1), c.id, None, NewRecord(c))
        ELSE IF c.expected = rec.version
        THEN Tracking(Accepting(x, c, rec.version + 1), c.id, orig, Overwritten(rec, c))
        ELSE Tracking(Refusing(x, c, rec.version), c.id, orig, rec)
  BY DEF Judge
<1>5. ASSUME NEW v \in Version
      PROVE  /\ Fine(Accepting(x, c, v)) /\ Fine(Refusing(x, c, v))
             /\ Accepting(x, c, v).touched = x.touched \cup {c.repo}
             /\ Refusing(x, c, v).touched = x.touched
             /\ Accepting(x, c, v).vers = x.vers /\ Refusing(x, c, v).vers = x.vers
  <2> DEFINE a == Accepting(x, c, v)
             f == Refusing(x, c, v)
  <2>1. /\ a \in Context /\ a.kind = x.kind /\ a.vers = x.vers
        /\ a.orig = x.orig /\ a.curr = x.curr /\ a.touched = x.touched \cup {c.repo}
    BY <1>1, TailContext
  <2>2. /\ f \in Context /\ f.kind = x.kind /\ f.vers = x.vers
        /\ f.orig = x.orig /\ f.curr = x.curr /\ f.touched = x.touched
    BY <1>1, TailContext
  <2> HIDE DEF a, f, x, c
  <2>3. Fine(a)
    BY <1>1, <2>1 DEF Faithful, Counted, Inserts
  <2>4. Fine(f)
    BY <1>1, <2>2 DEF Faithful, Counted, Inserts
  <2>5. QED
    BY <2>1, <2>2, <2>3, <2>4 DEF a, f
<1>6. 1 \in Version /\ (rec # None => rec \in Record /\ rec.version \in Version
                                     /\ rec.version + 1 \in Version)
  BY <1>3 DEF Version, Row, Record
<1> HIDE DEF x, c, rec, orig
<1>7. ASSUME NEW y, Fine(y), NEW o \in Row, NEW n \in Record,
             o = None => n.repo \in y.touched \/ y.vers[n.repo] > 0,
             o # None => n.repo = o.repo /\ (o.deleted => n.deleted)
      PROVE  Fine(Tracking(y, c.id, o, n))
  BY <1>2, <1>7, TrackingContext, TrackingSound DEF Row
<1>8. CASE rec = None
  <2>1. /\ NewRecord(c) \in Record /\ NewRecord(c).repo \in Accepting(x, c, 1).touched
        /\ None \in Row /\ Fine(Accepting(x, c, 1))
    BY <1>2, <1>5, <1>6, RecordOperators DEF Row
  <2>2. Fine(Tracking(Accepting(x, c, 1), c.id, None, NewRecord(c)))
    BY <2>1, <1>7
  <2>3. QED
    BY <1>4, <1>8, <2>2 DEF x, c
<1>9. CASE rec # None /\ c.expected = rec.version
  <2> DEFINE y == Accepting(x, c, rec.version + 1)
             n == Overwritten(rec, c)
  <2>1. Fine(y) /\ y.touched = x.touched \cup {c.repo} /\ y.vers = x.vers
    BY <1>5, <1>6, <1>9
  <2>2. n \in Record /\ n.repo = rec.repo /\ n.deleted = rec.deleted
    BY <1>2, <1>6, <1>9, RecordOperators
  <2>3. Fine(Tracking(y, c.id, orig, n))
    <3> HIDE DEF y, n, Fine
    <3>1. orig = None => n.repo \in y.touched \/ y.vers[n.repo] > 0
      BY <1>3, <1>9, <2>1, <2>2
    <3>2. orig # None => n.repo = orig.repo /\ (orig.deleted => n.deleted)
      BY <1>3, <1>9, <2>2
    <3>3. QED
      BY <1>3, <1>7, <2>1, <2>2, <3>1, <3>2
  <2>4. QED
    BY <1>4, <1>9, <2>3 DEF x, c
<1>10. CASE rec # None /\ c.expected # rec.version
  <2> DEFINE y == Refusing(x, c, rec.version)
  <2>1. Fine(y) /\ y.touched = x.touched /\ y.vers = x.vers
    BY <1>5, <1>6, <1>10
  <2>2. Fine(Tracking(y, c.id, orig, rec))
    <3> HIDE DEF y, Fine
    <3>1. QED
      BY <1>3, <1>6, <1>7, <1>10, <2>1
  <2>3. QED
    BY <1>4, <1>10, <2>2 DEF x, c
<1>11. QED
  BY <1>8, <1>9, <1>10

LEMMA PushChangeKeeps == ASSUME IInv, NEW r \in Requests, PushChange(r) PROVE IInv'
  BY JudgeSound, AfterChangeSound, GotoKeeps DEF PushChange

-----------------------------------------------------------------------------
\* POST, PUT and DELETE /otp.

LEMMA StageKeeps ==
    ASSUME IInv, NEW r \in Requests, NEW id \in Ids, NEW o \in Row, NEW n \in Record,
           NEW p \in Repos, Stage(r, id, o, n, p), UNCHANGED db, n.repo = p,
           o # None => n.repo = o.repo /\ (o.deleted => n.deleted)
    PROVE  IInv'
<1> DEFINE x == ctx[r]
           y == [x EXCEPT !.known = @ \cup {p}, !.touched = @ \cup {p}]
           t == Tracking(y, id, o, n)
<1>1. x \in Context /\ Faithful(x) /\ Counted("find", x)
  BY DEF IInv, TypeOK, Sound, Counted
<1>2. /\ y \in Context /\ y.touched = x.touched \cup {p} /\ y.vers = x.vers
      /\ y.orig = x.orig /\ y.curr = x.curr
  BY <1>1 DEF Context
<1>3. Goto(r, "bump", t)
  BY DEF Stage
<1> HIDE DEF x, y
<1>4. Faithful(y) /\ Counted("find", y)
  BY <1>1, <1>2 DEF Faithful, Counted, Inserts
<1>5. t \in Context /\ Faithful(t) /\ Counted("find", t)
  BY <1>2, <1>4, TrackingContext, TrackingSound DEF Row
<1>6. Sound("bump", t)
  BY <1>5 DEF Sound, HasChange, Counted
<1>7. QED
  BY <1>3, <1>5, <1>6, GotoKeeps DEF Steps

\* The change that a POST, PUT or DELETE carries.
LEMMA CarriedChange ==
    ASSUME IInv, NEW r \in Requests, pc[r] \in {"access", "find"}, ctx[r].kind # "push"
    PROVE  /\ ctx[r] \in Context /\ Sound(pc[r], ctx[r])
           /\ Head(ctx[r].todo) \in Change
           /\ Head(ctx[r].todo).id \in Ids /\ Head(ctx[r].todo).repo \in Repos
<1>1. ctx[r] \in Context /\ Sound(pc[r], ctx[r]) /\ ctx[r].todo # <<>>
  BY DEF IInv, TypeOK, Sound, HasChange
<1>2. Head(ctx[r].todo) \in Change
  BY <1>1, HeadTailProperties DEF Context
<1>3. QED
  BY <1>1, <1>2 DEF Change

LEMMA CreateRecordKeeps == ASSUME IInv, NEW r \in Requests, CreateRecord(r) PROVE IInv'
<1> DEFINE c == Head(ctx[r].todo)
<1>1. c \in Change /\ c.id \in Ids /\ c.repo \in Repos
  BY CarriedChange DEF CreateRecord
<1>2. NewRecord(c) \in Record /\ NewRecord(c).repo = c.repo
  BY <1>1, RecordOperators
<1>3. CASE Answer(r, 403)
  BY <1>3, AnswerKeeps DEF Statuses
<1>4. CASE Stage(r, c.id, None, NewRecord(c), c.repo) /\ UNCHANGED db
  BY <1>1, <1>2, <1>4, StageKeeps DEF Row
<1>5. QED
  BY <1>3, <1>4 DEF CreateRecord

LEMMA FindRecordKeeps == ASSUME IInv, NEW r \in Requests, FindRecord(r) PROVE IInv'
<1> DEFINE x == ctx[r]
           id == Head(x.todo).id
           row == records[id]
           t == Tracking(x, id, row, row)
<1>1. x \in Context /\ Sound(pc[r], x) /\ id \in Ids /\ x.kind \in {"update", "remove"}
  BY CarriedChange DEF FindRecord
<1>2. CASE Answer(r, 404)
  BY <1>2, AnswerKeeps DEF Statuses
<1>3. CASE records[id] # None /\ Goto(r, "access", t) /\ UNCHANGED db
  <2>1. records[id] \in Record /\ records[id] \in Row
    BY <1>1, <1>3 DEF IInv, TypeOK, Row
  <2>2. /\ t \in Context /\ t.kind = x.kind /\ t.todo = x.todo
        /\ t.curr = [x.curr EXCEPT ![id] = row]
    <3>1. row \in Row
      BY <2>1
    <3>2. x \in Context /\ id \in Ids
      BY <1>1
    <3>3. t \in Context
      BY <3>1, <3>2, TrackingContext
    <3> HIDE DEF x, id, row
    <3>4. QED
      BY <3>1, <3>2, <3>3 DEF Tracking, Context
  <2>3. t.curr[id] # None /\ x.todo # <<>>
    BY <1>1, <1>3, <2>2 DEF Context, Sound, HasChange, FindRecord
  <2>4. Faithful(t) /\ Counted("find", t)
    BY <1>1, <1>3, <2>1, TrackingSound DEF Sound, Counted, Row
  <2>5. Sound("access", t)
    BY <1>1, <2>2, <2>3, <2>4 DEF Sound, HasChange, Counted
  <2>6. QED
    BY <1>3, <2>2, <2>5, GotoKeeps DEF Steps
<1>4. QED
  BY <1>2, <1>3 DEF FindRecord

LEMMA ChangeRecordKeeps == ASSUME IInv, NEW r \in Requests, ChangeRecord(r) PROVE IInv'
<1> DEFINE x == ctx[r]
           c == Head(x.todo)
           rec == x.curr[c.id]
           changed == IF x.kind = "update" THEN Overwritten(rec, c) ELSE Tombstoned(rec)
<1>1. x \in Context /\ c \in Change /\ c.id \in Ids /\ Sound("access", x)
  BY CarriedChange DEF ChangeRecord
<1>2. rec \in Record
  BY <1>1 DEF ChangeRecord, Sound, HasChange, Context, Row
<1>3. /\ changed \in Record /\ changed.repo = rec.repo /\ rec.repo \in Repos
      /\ rec.deleted => changed.deleted
  <2> HIDE DEF x, c, rec
  <2>1. rec.repo \in Repos
    BY <1>2 DEF Record
  <2>2. CASE x.kind = "update"
    <3>1. changed = Overwritten(rec, c)
      BY <2>2
    <3>2. QED
      BY <1>1, <1>2, <2>1, <3>1, RecordOperators
  <2>3. CASE x.kind # "update"
    <3>1. changed = Tombstoned(rec)
      BY <2>3
    <3>2. QED
      BY <1>2, <2>1, <3>1, RecordOperators
  <2>4. QED
    BY <2>2, <2>3
<1>4. CASE Answer(r, 403) \/ Answer(r, 409)
  BY <1>4, AnswerKeeps DEF Statuses
<1>5. CASE Stage(r, c.id, rec, changed, rec.repo) /\ UNCHANGED db
  BY <1>1, <1>2, <1>3, <1>5, StageKeeps DEF Row
<1>6. QED
  BY <1>4, <1>5 DEF ChangeRecord

-----------------------------------------------------------------------------
\* Counters, deletion of a repo, and the ends of a request.

LEMMA IncrementKeeps == ASSUME IInv, NEW r \in Requests, IncrementRepoVersion(r) PROVE IInv'
<1>1. PICK p \in ctx[r].touched :
        LET c == [ctx[r] EXCEPT !.touched = @ \ {p}, !.vers[p] = repoVersion[p] + 1]
        IN Goto(r, IF c.touched = {} THEN "save" ELSE "bump", c) /\ UNCHANGED db
  BY DEF IncrementRepoVersion
<1> DEFINE x == ctx[r]
           c == [x EXCEPT !.touched = @ \ {p}, !.vers[p] = repoVersion[p] + 1]
           s == IF c.touched = {} THEN "save" ELSE "bump"
<1>2. x \in Context /\ Sound("bump", x) /\ p \in Repos /\ repoVersion[p] \in Nat
  BY DEF IncrementRepoVersion, IInv, TypeOK, Context
<1>3. /\ c \in Context /\ c.orig = x.orig /\ c.curr = x.curr
      /\ c.touched = x.touched \ {p}
      /\ c.vers = [x.vers EXCEPT ![p] = repoVersion[p] + 1]
  <2> DEFINE t == x.touched \ {p}
             v == [x.vers EXCEPT ![p] = repoVersion[p] + 1]
  <2>1. t \in SUBSET Repos /\ v \in [Repos -> Nat]
    BY <1>2 DEF Context
  <2>2. c = [x EXCEPT !.touched = t, !.vers = v]
    BY <1>2 DEF Context
  <2> HIDE DEF x, c, t, v
  <2>3. QED
    BY <1>2, <2>1, <2>2 DEF Context, t, v
<1> HIDE DEF x
<1>4. \A q \in Repos : q = p \/ x.vers[q] > 0 => c.vers[q] > 0
  BY <1>2, <1>3 DEF Context
<1>5. \A id \in Ids : Inserts(x, id) => x.curr[id].repo \in Repos
  BY <1>2 DEF Inserts, Context, Row, Record
<1> HIDE DEF c
<1>6. Sound(s, c)
  BY <1>2, <1>3, <1>4, <1>5 DEF Sound, HasChange, Counted, Faithful, Inserts
<1>7. QED
  BY <1>1, <1>3, <1>6, GotoKeeps DEF Steps, c, x

LEMMA ReadRepoKeeps == ASSUME IInv, NEW r \in Requests, ReadRepo(r) PROVE IInv'
<1>1. PICK u \in Users, p \in Repos :
        \/ Answer(r, 404) \/ Answer(r, 400)
        \/ Goto(r, "members", Deleting(u, p)) /\ UNCHANGED db
  BY DEF ReadRepo
<1> DEFINE f == Fresh("deleteRepo", u, <<>>)
           c == Deleting(u, p)
<1>2. f \in Context /\ Sound("members", f)
  <2>1. HasChange("members", f)
    BY DEF HasChange
  <2>2. <<>> \in Seq(Change) /\ "deleteRepo" \in Kinds /\ "members" \in Steps
    BY DEF Kinds, Steps
  <2>3. QED
    BY <2>1, <2>2, FreshContext
<1>3. /\ c \in Context /\ c.orig = f.orig /\ c.curr = f.curr
      /\ c.touched = f.touched /\ c.vers = f.vers
  BY <1>2 DEF Context, Deleting
<1> HIDE DEF f, c
<1>4. Sound("members", c)
  BY <1>2, <1>3 DEF Sound, HasChange, Counted, Faithful, Inserts
<1>5. QED
  BY <1>1, <1>3, <1>4, GotoKeeps, AnswerKeeps DEF Steps, Statuses, c, f

LEMMA ReadMembersKeeps == ASSUME IInv, NEW r \in Requests, ReadMembers(r) PROVE IInv'
<1> DEFINE left == {u \in Users : \E p \in ctx[r].known : <<p, u>> \in members}
           c == [ctx[r] EXCEPT !.left = left]
<1>1. Goto(r, "rows", c) /\ UNCHANGED db /\ ctx[r] \in Context /\ Sound("members", ctx[r])
  BY DEF ReadMembers, IInv, TypeOK
<1>2. left \subseteq Users
  OBVIOUS
<1> HIDE DEF left
<1>3. /\ c \in Context /\ c.orig = ctx[r].orig /\ c.curr = ctx[r].curr
      /\ c.touched = ctx[r].touched /\ c.vers = ctx[r].vers
  BY <1>1, <1>2 DEF Context
<1> HIDE DEF c
<1>4. Sound("rows", c)
  BY <1>1, <1>3 DEF Sound, HasChange, Counted, Faithful, Inserts
<1>5. QED
  BY <1>1, <1>3, <1>4, GotoKeeps DEF Steps

LEMMA ReadRowsKeeps == ASSUME IInv, NEW r \in Requests, ReadRows(r) PROVE IInv'
<1> DEFINE gone == {id \in Ids : records[id] # None /\ records[id].repo \in ctx[r].known}
           c == [ctx[r] EXCEPT !.gone = gone]
<1>1. Goto(r, "save", c) /\ UNCHANGED db /\ ctx[r] \in Context /\ Sound("rows", ctx[r])
  BY DEF ReadRows, IInv, TypeOK
<1>2. gone \subseteq Ids
  OBVIOUS
<1> HIDE DEF gone
<1>3. /\ c \in Context /\ c.orig = ctx[r].orig /\ c.curr = ctx[r].curr
      /\ c.touched = ctx[r].touched /\ c.vers = ctx[r].vers
  BY <1>1, <1>2 DEF Context
<1> HIDE DEF c
<1>4. Sound("save", c)
  BY <1>1, <1>3 DEF Sound, HasChange, Counted, Faithful, Inserts
<1>5. QED
  BY <1>1, <1>3, <1>4, GotoKeeps DEF Steps

-----------------------------------------------------------------------------
(***************************************************************************)
(* What a save leaves in the table: a row stays in its repo and, if it is  *)
(* a tombstone, stays one; and a row added is in a repo just counted.      *)
(***************************************************************************)
LEMMA MergedRow ==
    ASSUME NEW o \in Record, NEW n \in Record, NEW row \in Record,
           n.repo = o.repo, o.deleted => n.deleted
    PROVE  /\ Merged(o, n, row) \in Record
           /\ Merged(o, n, row).repo = row.repo
           /\ row.deleted => Merged(o, n, row).deleted
<1>1. Merged(o, n, row) \in Record
  BY DEF Record, Merged, Column
<1>2. Merged(o, n, row).repo = row.repo
  BY DEF Merged, Column
<1>3. Merged(o, n, row).deleted = Column(o.deleted, n.deleted, row.deleted)
  BY DEF Merged
<1>4. o.deleted \in BOOLEAN /\ n.deleted \in BOOLEAN /\ row.deleted \in BOOLEAN
  BY DEF Record
<1>5. row.deleted => Merged(o, n, row).deleted
  BY <1>3, <1>4, Zenon DEF Column
<1>6. QED
  BY <1>1, <1>2, <1>5

LEMMA SavedRow ==
    ASSUME IInv, NEW r \in Requests, NEW id \in Ids, CanSave(ctx[r])
    PROVE  LET new == Saved(ctx[r], id)
               old == records[id]
           IN /\ new \in Row
              /\ old # None /\ new # None =>
                    new.repo = old.repo /\ (old.deleted => new.deleted)
              /\ old = None /\ new # None => Inserts(ctx[r], id) /\ new = ctx[r].curr[id]
<1> DEFINE c == ctx[r]
           old == records[id]
<1>1. /\ c.curr[id] \in Row /\ c.orig[id] \in Row /\ old \in Row /\ Faithful(c)
      /\ Inserts(c, id) => old = None
      /\ Updates(c, id) => old # None
  BY DEF IInv, TypeOK, Context, Sound, CanSave
<1> HIDE DEF c
<1>2. CASE id \in c.gone
  <2>1. Saved(c, id) = None
    BY <1>2 DEF Saved
  <2>2. None \in Row
    BY DEF Row
  <2>3. QED
    BY <2>1, <2>2 DEF c
<1>3. CASE id \notin c.gone /\ Inserts(c, id)
  BY <1>1, <1>3 DEF Saved, Row, c
<1>4. CASE id \notin c.gone /\ Updates(c, id) /\ ~Inserts(c, id)
  <2>1. c.orig[id] \in Record /\ c.curr[id] \in Record /\ old \in Record
    BY <1>1, <1>4 DEF Updates, Row
  <2>2. c.curr[id].repo = c.orig[id].repo /\ (c.orig[id].deleted => c.curr[id].deleted)
    BY <1>1, <1>4 DEF Faithful, Updates
  <2>3. Saved(c, id) = Merged(c.orig[id], c.curr[id], old)
    BY <1>4 DEF Saved
  <2>4. QED
    BY <1>1, <1>4, <2>1, <2>2, <2>3, MergedRow DEF Row, c
<1>5. CASE id \notin c.gone /\ ~Updates(c, id) /\ ~Inserts(c, id)
  BY <1>1, <1>5 DEF Saved, c
<1>6. QED
  BY <1>2, <1>3, <1>4, <1>5

LEMMA SaveKeeps == ASSUME IInv, NEW r \in Requests, Save(r) PROVE IInv'
<1> DEFINE c == ctx[r]
           d == Replied(200, c.accepted, c.conflicts)
<1>1. CanSave(c) /\ Commit(c) /\ Goto(r, "done", d) /\ c \in Context /\ Sound("save", c)
  BY DEF Save, IInv, TypeOK
<1>2. d \in Context /\ Sound("done", d)
  BY <1>1, RepliedContext DEF Context, Statuses
<1>3. records' = [id \in Ids |-> Saved(c, id)]
  BY <1>1 DEF Commit
<1>4. /\ repoVersion' \in [Repos -> Nat]
      /\ \A p \in Repos : repoVersion[p] > 0 \/ c.vers[p] > 0 => repoVersion'[p] > 0
  BY <1>1 DEF Commit, IInv, TypeOK, Context
<1>5. RecordHasRepoVersion'
  <2> SUFFICES ASSUME NEW id \in Ids, records'[id] # None
               PROVE  repoVersion'[records'[id].repo] > 0
    BY DEF RecordHasRepoVersion
  <2>1. records'[id] = Saved(c, id)
    BY <1>3
  <2>2. records[id] \in Row /\ Saved(c, id) \in Row
    BY <1>1, SavedRow DEF IInv, TypeOK
  <2>3. CASE records[id] # None
    <3>1. records'[id].repo = records[id].repo /\ records[id].repo \in Repos
      BY <1>1, <2>1, <2>2, <2>3, SavedRow DEF Row, Record
    <3>2. repoVersion[records[id].repo] > 0
      BY <2>3 DEF IInv, RecordHasRepoVersion
    <3>3. QED
      BY <1>4, <3>1, <3>2
  <2>4. CASE records[id] = None
    <3>1. Inserts(c, id) /\ records'[id] = c.curr[id]
      BY <1>1, <2>1, <2>4, SavedRow
    <3>2. c.vers[c.curr[id].repo] > 0
      BY <1>1, <3>1 DEF Sound, Counted
    <3>3. c.curr[id].repo \in Repos
      BY <2>1, <2>2, <3>1 DEF Row, Record
    <3>4. QED
      BY <1>4, <3>1, <3>2, <3>3
  <2>5. QED
    BY <2>3, <2>4
<1>6. TypeOK'
  <2>1. records' \in [Ids -> Row]
    BY <1>1, <1>3, SavedRow
  <2>2. repos' \subseteq Repos /\ members' \subseteq Repos \X Users
    BY <1>1 DEF Commit, IInv, TypeOK
  <2>3. pc' \in [Requests -> Steps] /\ ctx' \in [Requests -> Context]
    BY <1>1, <1>2 DEF Goto, IInv, TypeOK, Steps
  <2>4. QED
    BY <1>4, <2>1, <2>2, <2>3 DEF TypeOK
<1>7. ASSUME NEW q \in Requests PROVE Sound(pc'[q], ctx'[q])
  <2>1. CASE q = r
    BY <1>1, <1>2, <2>1 DEF IInv, TypeOK, Goto
  <2>2. CASE q # r
    BY <1>1, <2>2 DEF IInv, TypeOK, Goto
  <2>3. QED
    BY <2>1, <2>2
<1>8. QED
  BY <1>5, <1>6, <1>7 DEF IInv, Sound, HasChange, Counted, Faithful, Inserts

LEMMA EndKeeps ==
    ASSUME IInv, NEW r \in Requests, SaveFails(r) \/ Respond(r) \/ Abort(r)
    PROVE  IInv'
<1>1. CASE SaveFails(r)
  BY <1>1, AnswerKeeps DEF SaveFails, Statuses
<1>2. CASE Respond(r) \/ Abort(r)
  BY <1>2, IdleContext, GotoKeeps DEF Respond, Abort, Steps
<1>3. QED
  BY <1>1, <1>2

LEMMA MembersKeep == ASSUME IInv, Share \/ Unshare PROVE IInv'
<1>1. members' \subseteq Repos \X Users
  <2>1. members \subseteq Repos \X Users /\ repos \subseteq Repos
    BY DEF IInv, TypeOK
  <2>2. CASE Share
    <3>1. PICK p \in repos, u \in Users : members' = members \cup {<<p, u>>}
      BY <2>2 DEF Share
    <3>2. p \in Repos
      BY <2>1, <3>1
    <3>3. QED
      BY <2>1, <3>1, <3>2
  <2>3. CASE Unshare
    BY <2>1, <2>3 DEF Unshare
  <2>4. QED
    BY <2>2, <2>3
<1>2. UNCHANGED <<records, repoVersion, repos, pc, ctx>>
  BY DEF Share, Unshare
<1>3. QED
  BY <1>1, <1>2 DEF IInv, TypeOK, RecordHasRepoVersion, Sound, HasChange, Counted,
                    Faithful, Inserts

-----------------------------------------------------------------------------
LEMMA InitIInv == Init => IInv
<1> SUFFICES ASSUME Init PROVE IInv
  OBVIOUS
<1>1. records \in [Ids -> Row] /\ \A id \in Ids : records[id] = None
  BY DEF Init, NoRows, Row
<1>2. TypeOK
  BY <1>1, IdleContext DEF Init, TypeOK, Steps
<1>3. QED
  BY <1>1, <1>2, IdleContext DEF Init, IInv, RecordHasRepoVersion

LEMMA NextIInv == IInv /\ [Next]_vars => IInv'
<1> SUFFICES ASSUME IInv, [Next]_vars PROVE IInv'
  OBVIOUS
<1>1. ASSUME NEW r \in Requests, Handler(r) PROVE IInv'
  BY <1>1, ReceiveKeeps, PushAccessKeeps, PushChangeKeeps, CreateRecordKeeps,
     FindRecordKeeps, ChangeRecordKeeps, ReadRepoKeeps, ReadMembersKeeps, ReadRowsKeeps,
     IncrementKeeps, SaveKeeps, EndKeeps DEF Handler
<1>2. CASE Share \/ Unshare
  BY <1>2, MembersKeep
<1>3. CASE UNCHANGED vars
  BY <1>3 DEF vars, IInv, TypeOK, RecordHasRepoVersion, Sound, HasChange, Counted,
              Faithful, Inserts
<1>4. QED
  BY <1>1, <1>2, <1>3 DEF Next

LEMMA Invariance == Spec => []IInv
  BY InitIInv, NextIInv, PTL DEF Spec

(***************************************************************************)
(* Every variable keeps its type, in particular no row has a version below *)
(* 1 and every handler that needs a change or a record has one.            *)
(***************************************************************************)
THEOREM TypeCorrect == Spec => []TypeOK
<1>1. IInv => TypeOK
  BY DEF IInv
<1>2. QED
  BY <1>1, Invariance, PTL

(***************************************************************************)
(* Every stored record is announced: its repo has a version row, whatever  *)
(* requests overlap, fail or are cut off.                                  *)
(***************************************************************************)
THEOREM RecordsAreAnnounced == Spec => []RecordHasRepoVersion
<1>1. IInv => RecordHasRepoVersion
  BY DEF IInv
<1>2. QED
  BY <1>1, Invariance, PTL

(***************************************************************************)
(* No request, however late its save, makes a tombstone a live record.     *)
(***************************************************************************)
THEOREM DeletionIsFinal == Spec => TombstonesAreFinal
<1>1. IInv /\ [Next]_vars => [TombstoneIsFinal]_vars
  <2> SUFFICES ASSUME IInv, Next PROVE TombstoneIsFinal
    OBVIOUS
  <2>1. CASE records' = records
    BY <2>1 DEF TombstoneIsFinal
  <2>2. ASSUME NEW r \in Requests, Save(r) PROVE TombstoneIsFinal
    BY <2>2, SavedRow DEF Save, Commit, TombstoneIsFinal
  <2>3. ASSUME NEW r \in Requests, Handler(r), ~Save(r) PROVE records' = records
    BY <2>3 DEF Handler, ReceivePush, ReceiveCreate, ReceiveUpdate, ReceiveRemove, Receive,
                PushAccess, PushChange, CreateRecord, FindRecord, ChangeRecord, ReadRepo,
                ReadMembers, ReadRows, IncrementRepoVersion, SaveFails, Respond, Abort,
                Answer, db
  <2>4. Share \/ Unshare => records' = records
    BY DEF Share, Unshare
  <2>5. QED
    BY <2>1, <2>2, <2>3, <2>4 DEF Next
<1>2. QED
  BY <1>1, Invariance, PTL DEF Spec, TombstonesAreFinal
=============================================================================
