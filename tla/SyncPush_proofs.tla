--------------------------- MODULE SyncPush_proofs ---------------------------
(***************************************************************************)
(* What a push does, for every number of changes: the recursion of Pushing *)
(* has a solution, and what each change keeps the whole push keeps.        *)
(***************************************************************************)
EXTENDS SyncPush, Subsequences_proofs

\* The recursive definition of Pushing has a solution.
LEMMA PushingDefined ==
    ASSUME NEW X, NEW changes \in Seq(X), NEW start, NEW allowed
    PROVE  Pushing(start, changes, allowed) =
             [n \in 0..Len(changes) |->
                IF n = 0 THEN start
                ELSE PushOne(Pushing(start, changes, allowed)[n - 1], changes[n], allowed)]
<1> DEFINE Solves(f, m) ==
             /\ f = [n \in 0..m |-> f[n]]
             /\ \A n \in 0..m :
                  f[n] = IF n = 0 THEN start ELSE PushOne(f[n - 1], changes[n], allowed)
           I == {m \in Nat : \E f : Solves(f, m)}
<1>1. 0 \in I
  <2>1. Solves([n \in 0..0 |-> start], 0)
    OBVIOUS
  <2>2. QED
    BY <2>1
<1>2. ASSUME NEW m \in Nat, m \in I PROVE m + 1 \in I
  <2>1. PICK f : Solves(f, m)
    BY <1>2
  <2> DEFINE g == [n \in 0..m + 1 |->
                     IF n <= m THEN f[n] ELSE PushOne(f[n - 1], changes[n], allowed)]
  <2>2. \A n \in 0..m : g[n] = f[n]
    OBVIOUS
  <2>3. g[m + 1] = PushOne(f[m], changes[m + 1], allowed)
    OBVIOUS
  <2>4. g = [n \in 0..m + 1 |-> g[n]]
    OBVIOUS
  <2> HIDE DEF g
  <2>5. ASSUME NEW n \in 0..m + 1
        PROVE  g[n] = IF n = 0 THEN start ELSE PushOne(g[n - 1], changes[n], allowed)
    <3>1. CASE n <= m
      <4>1. f[n] = IF n = 0 THEN start ELSE PushOne(f[n - 1], changes[n], allowed)
        BY <2>1, <3>1
      <4>2. g[n] = f[n] /\ (n # 0 => g[n - 1] = f[n - 1])
        BY <2>2, <3>1
      <4>3. QED
        BY <4>1, <4>2
    <3>2. CASE n = m + 1
      BY <2>2, <2>3, <3>2
    <3>3. QED
      BY <3>1, <3>2
  <2>6. Solves(g, m + 1)
    BY <2>4, <2>5
  <2>7. m + 1 \in Nat
    OBVIOUS
  <2> HIDE DEF Solves
  <2>8. QED
    BY <2>6, <2>7
<1> HIDE DEF I
<1>3. Len(changes) \in I
  BY <1>1, <1>2, SetInduction
<1>4. PICK f : Solves(f, Len(changes))
  BY <1>3 DEF I
<1>5. f = [n \in 0..Len(changes) |->
             IF n = 0 THEN start ELSE PushOne(f[n - 1], changes[n], allowed)]
  BY <1>4
<1>6. QED
  BY <1>5 DEF Pushing

\* Its recursion, unfolded once.
LEMMA PushingSteps ==
    ASSUME NEW X, NEW changes \in Seq(X), NEW start, NEW allowed
    PROVE  /\ Pushing(start, changes, allowed)[0] = start
           /\ \A n \in 1..Len(changes) :
                Pushing(start, changes, allowed)[n] =
                  PushOne(Pushing(start, changes, allowed)[n - 1], changes[n], allowed)
<1> DEFINE f == Pushing(start, changes, allowed)
           R(n) == IF n = 0 THEN start ELSE PushOne(f[n - 1], changes[n], allowed)
<1> HIDE DEF f
<1>1. f = [n \in 0..Len(changes) |-> R(n)]
  BY PushingDefined DEF f
<1> HIDE DEF R
<1>2. Len(changes) \in Nat /\ \A n \in 0..Len(changes) : f[n] = R(n)
  BY <1>1
<1>3. f[0] = R(0) /\ \A n \in 1..Len(changes) : f[n] = R(n)
  BY <1>2
<1>4. R(0) = start
  BY DEF R
<1>5. ASSUME NEW n \in 1..Len(changes)
      PROVE  R(n) = PushOne(f[n - 1], changes[n], allowed)
  BY DEF R
<1>6. QED
  BY <1>3, <1>4, <1>5 DEF f

(***************************************************************************)
(* What holds of the push at its start, and is kept by each of its         *)
(* changes, holds of it after any number of them: J is the set of the      *)
(* states of a push that have the property.                                *)
(***************************************************************************)
THEOREM PushInduction ==
    ASSUME NEW X, NEW changes \in Seq(X), NEW start, NEW allowed, NEW J,
           start \in J,
           \A acc \in J, n \in 1..Len(changes) : PushOne(acc, changes[n], allowed) \in J
    PROVE  /\ \A n \in 0..Len(changes) : Pushing(start, changes, allowed)[n] \in J
           /\ Pushed(start, changes, allowed) \in J
<1> DEFINE f == Pushing(start, changes, allowed)
           I == {n \in Nat : n <= Len(changes) => f[n] \in J}
<1>1. f[0] = start /\ \A n \in 1..Len(changes) : f[n] = PushOne(f[n - 1], changes[n], allowed)
  BY PushingSteps
<1> HIDE DEF f
<1>2. 0 \in I
  BY <1>1
<1>3. ASSUME NEW n \in Nat, n \in I PROVE n + 1 \in I
  <2>1. SUFFICES ASSUME n + 1 <= Len(changes) PROVE f[n + 1] \in J
    OBVIOUS
  <2>2. f[n] \in J /\ n + 1 \in 1..Len(changes)
    BY <1>3, <2>1
  <2>3. f[n + 1] = PushOne(f[n], changes[n + 1], allowed)
    BY <1>1, <2>2
  <2>4. QED
    BY <2>2, <2>3
<1> HIDE DEF I
<1>4. \A n \in Nat : n \in I
  BY <1>2, <1>3, SetInduction
<1>5. Len(changes) \in Nat
  OBVIOUS
<1>6. \A n \in 0..Len(changes) : f[n] \in J
  BY <1>4, <1>5 DEF I
<1>7. QED
  BY <1>5, <1>6 DEF f, Pushed

-----------------------------------------------------------------------------
\* The states of a push whose changes are members of X.
PushState(X) ==
    [rows : [Ids -> Row], touched : SUBSET Repos, accepted : Seq(Verdict),
     conflicts : Seq(Verdict), log : Seq(X)]

\* What a push reads of a change; the devices' items have more, and perhaps no repo: a change
\* whose repo is not allowed is passed over.
IsChange(c) ==
    /\ c.id \in Ids /\ c.blob \in Blobs
    /\ c.expected \in Nat /\ c.stamp \in Stamps

\* The record that change c, when it is taken, leaves where row was.
Leaves(row, c, rec) ==
    \/ row = None /\ rec = NewRecord(c)
    \/ row # None /\ c.expected = row.version /\ rec = Overwritten(row, c)

LEMMA LeavesRecord ==
    ASSUME NEW row \in Row, NEW c, IsChange(c), c.repo \in Repos, NEW rec, Leaves(row, c, rec)
    PROVE  /\ rec \in Record /\ rec # None
           /\ row = None => /\ rec.version = 1 /\ ~rec.deleted /\ rec.repo = c.repo
                            /\ rec.created = c.stamp
           /\ row # None => /\ rec.version = row.version + 1 /\ rec.deleted = row.deleted
                            /\ rec.repo = row.repo /\ rec.created = row.created
           /\ rec.updated = c.stamp
<1>1. CASE row = None
  <2>1. rec = NewRecord(c)
    BY <1>1 DEF Leaves
  <2>2. /\ rec.blob = c.blob /\ rec.repo = c.repo /\ rec.version = 1
        /\ rec.created = c.stamp /\ rec.updated = c.stamp /\ rec.deleted = FALSE
    BY <2>1 DEF NewRecord
  <2>3. 1 \in Version /\ FALSE \in BOOLEAN
    BY DEF Version
  <2>4. rec \in Record
    BY <2>1, <2>3 DEF NewRecord, Record, IsChange
  <2>5. QED
    BY <1>1, <2>2, <2>4, NoneAssumption
<1>2. CASE row # None
  <2>1. row \in Record /\ rec = Overwritten(row, c)
    BY <1>2 DEF Leaves, Row
  <2>2. row.version + 1 \in Version
    BY <2>1 DEF Record, Version
  <2>3. /\ rec \in Record
        /\ rec.version = row.version + 1 /\ rec.deleted = row.deleted
        /\ rec.repo = row.repo /\ rec.created = row.created /\ rec.updated = c.stamp
    BY <2>1, <2>2 DEF Overwritten, Record, IsChange
  <2>4. QED
    BY <1>2, <2>3, NoneAssumption
<1>3. QED
  BY <1>1, <1>2

\* The push new is acc after it refused change c: the record has another version.
Refuses(acc, c, new) ==
    /\ acc.rows[c.id] # None /\ c.expected # acc.rows[c.id].version
    /\ new.rows = acc.rows /\ new.touched = acc.touched
    /\ new.accepted = acc.accepted /\ new.log = acc.log
    /\ \E v \in Verdict : /\ v.id = c.id /\ v.version = acc.rows[c.id].version
                          /\ Elements(new.conflicts) = Elements(acc.conflicts) \cup {v}

\* The push new is acc after it took change c, which left rec.
Takes(acc, c, rec, new) ==
    /\ c.repo \in Repos
    /\ Leaves(acc.rows[c.id], c, rec)
    /\ new.rows = [acc.rows EXCEPT ![c.id] = rec] /\ new.touched = acc.touched \cup {c.repo}
    /\ new.conflicts = acc.conflicts /\ new.log = Append(acc.log, c)
    /\ \E v \in Verdict : /\ v.id = c.id /\ v.version = rec.version
                          /\ Elements(new.accepted) = Elements(acc.accepted) \cup {v}

LEMMA AcceptTakes ==
    ASSUME NEW X, NEW acc \in PushState(X), NEW c \in X, IsChange(c), c.repo \in Repos,
           NEW rec, Leaves(acc.rows[c.id], c, rec)
    PROVE  /\ rec \in Record
           /\ Accept(acc, c, rec) \in PushState(X)
           /\ Takes(acc, c, rec, Accept(acc, c, rec))
<1> DEFINE v == [id |-> c.id, version |-> rec.version]
           new == Accept(acc, c, rec)
<1>1. acc.rows[c.id] \in Row /\ c.id \in Ids /\ c.repo \in Repos
  BY DEF PushState, IsChange
<1>2. rec \in Record
  BY <1>1, LeavesRecord
<1>3. v \in Verdict /\ v.id = c.id /\ v.version = rec.version
  BY <1>1, <1>2 DEF Record, Verdict
<1> HIDE DEF v
<1>4. acc.accepted \in Seq(Verdict) /\ acc.log \in Seq(X) /\ acc.touched \subseteq Repos
      /\ acc.rows \in [Ids -> Row]
  BY DEF PushState
<1>5. /\ [acc.rows EXCEPT ![c.id] = rec] \in [Ids -> Row]
      /\ acc.touched \cup {c.repo} \in SUBSET Repos
      /\ Append(acc.log, c) \in Seq(X)
      /\ Append(acc.accepted, v) \in Seq(Verdict)
  BY <1>1, <1>2, <1>3, <1>4 DEF Row
<1>6. new = [rows |-> [acc.rows EXCEPT ![c.id] = rec], touched |-> acc.touched \cup {c.repo},
             accepted |-> Append(acc.accepted, v), conflicts |-> acc.conflicts,
             log |-> Append(acc.log, c)]
  <2>1. acc = [rows |-> acc.rows, touched |-> acc.touched, accepted |-> acc.accepted,
               conflicts |-> acc.conflicts, log |-> acc.log]
    BY DEF PushState
  <2>2. new = [acc EXCEPT !.rows = [@ EXCEPT ![c.id] = rec], !.touched = @ \cup {c.repo},
                          !.log = Append(@, c), !.accepted = Append(@, v)]
    BY DEF Accept, v
  <2>3. QED
    BY <2>1, <2>2
<1>7. new \in PushState(X)
  BY <1>5, <1>6 DEF PushState
<1>8. /\ new.rows = [acc.rows EXCEPT ![c.id] = rec] /\ new.touched = acc.touched \cup {c.repo}
      /\ new.conflicts = acc.conflicts /\ new.log = Append(acc.log, c)
      /\ new.accepted = Append(acc.accepted, v)
  BY <1>6
<1> HIDE DEF new
<1>9. Elements(new.accepted) = Elements(acc.accepted) \cup {v}
  BY <1>3, <1>4, <1>8, ElementsAppend
<1>10. Takes(acc, c, rec, new)
  BY <1>3, <1>8, <1>9 DEF Takes
<1>11. QED
  BY <1>2, <1>7, <1>10 DEF new

\* One change is passed over, refused or taken.
LEMMA PushOneCases ==
    ASSUME NEW X, NEW acc \in PushState(X), NEW c \in X, IsChange(c),
           NEW allowed, c.repo \in allowed => c.repo \in Repos
    PROVE  /\ PushOne(acc, c, allowed) \in PushState(X)
           /\ \/ PushOne(acc, c, allowed) = acc
              \/ Refuses(acc, c, PushOne(acc, c, allowed))
              \/ \E rec \in Record : Takes(acc, c, rec, PushOne(acc, c, allowed))
<1> DEFINE row == acc.rows[c.id]
           new == PushOne(acc, c, allowed)
<1>1. row \in Row /\ c.id \in Ids
  BY DEF PushState, IsChange
<1>2. CASE c.repo \notin allowed
  BY <1>2 DEF PushOne
<1>3. CASE c.repo \in allowed /\ row = None
  <2>1. new = Accept(acc, c, NewRecord(c)) /\ Leaves(row, c, NewRecord(c)) /\ c.repo \in Repos
    BY <1>3 DEF PushOne, Leaves
  <2> HIDE DEF new
  <2>2. QED
    BY <2>1, AcceptTakes DEF new
<1>4. CASE c.repo \in allowed /\ row # None /\ c.expected = row.version
  <2>1. new = Accept(acc, c, Overwritten(row, c)) /\ Leaves(row, c, Overwritten(row, c))
        /\ c.repo \in Repos
    BY <1>4 DEF PushOne, Leaves
  <2> HIDE DEF new
  <2>2. QED
    BY <2>1, AcceptTakes DEF new
<1>5. CASE c.repo \in allowed /\ row # None /\ c.expected # row.version
  <2> DEFINE v == [id |-> c.id, version |-> row.version]
  <2>1. v \in Verdict /\ v.id = c.id /\ v.version = row.version
    BY <1>1, <1>5 DEF Row, Record, Verdict
  <2>2. new = [acc EXCEPT !.conflicts = Append(@, v)]
    BY <1>5 DEF PushOne
  <2> HIDE DEF v
  <2>3. acc.conflicts \in Seq(Verdict) /\ Append(acc.conflicts, v) \in Seq(Verdict)
    BY <2>1 DEF PushState
  <2>4. new \in PushState(X)
    BY <2>2, <2>3 DEF PushState
  <2>5. /\ new.rows = acc.rows /\ new.touched = acc.touched
        /\ new.accepted = acc.accepted /\ new.log = acc.log
        /\ new.conflicts = Append(acc.conflicts, v)
    BY <2>2 DEF PushState
  <2> HIDE DEF new
  <2>6. Elements(new.conflicts) = Elements(acc.conflicts) \cup {v}
    BY <2>1, <2>3, <2>5, ElementsAppend
  <2>7. Refuses(acc, c, new)
    BY <1>5, <2>1, <2>5, <2>6 DEF Refuses
  <2>8. QED
    BY <2>4, <2>7 DEF new
<1>6. QED
  BY <1>2, <1>3, <1>4, <1>5

-----------------------------------------------------------------------------
\* Row new is what a push can have made of row old.
Grown(old, new) ==
    old # None =>
        /\ new # None
        /\ old.version <= new.version /\ (old.version = new.version => new = old)
        /\ new.repo = old.repo /\ new.created = old.created /\ (old.deleted => new.deleted)

\* A verdict is about one of the changes, and no newer than the record.
Fits(verdict, rows, changes) ==
    /\ \E c \in Elements(changes) : c.id = verdict.id
    /\ rows[verdict.id] # None /\ verdict.version <= rows[verdict.id].version

\* What a push that began with rows has kept and answered.
Kept(rows, changes, acc) ==
    /\ \A id \in Ids : Grown(rows[id], acc.rows[id])
    /\ \A v \in Elements(acc.accepted) \cup Elements(acc.conflicts) : Fits(v, acc.rows, changes)

LEMMA PushOneKeeps ==
    ASSUME NEW X, NEW changes \in Seq(X), NEW c \in X, c \in Elements(changes), IsChange(c),
           NEW rows \in [Ids -> Row], NEW allowed, c.repo \in allowed => c.repo \in Repos,
           NEW acc \in PushState(X), Kept(rows, changes, acc)
    PROVE  Kept(rows, changes, PushOne(acc, c, allowed))
<1> DEFINE row == acc.rows[c.id]
<1>1. row \in Row /\ c.id \in Ids
  BY DEF PushState, IsChange
<1>2. SUFFICES ASSUME NEW new \in PushState(X),
                      Refuses(acc, c, new) \/ \E rec \in Record : Takes(acc, c, rec, new)
               PROVE  Kept(rows, changes, new)
  BY PushOneCases
<1>3. CASE Refuses(acc, c, new)
  <2>1. PICK v \in Verdict : /\ v.id = c.id /\ v.version = row.version
                             /\ Elements(new.conflicts) = Elements(acc.conflicts) \cup {v}
    BY <1>3 DEF Refuses
  <2>2. row # None /\ new.rows = acc.rows /\ new.accepted = acc.accepted
    BY <1>3 DEF Refuses
  <2>3. Fits(v, acc.rows, changes)
    BY <2>1, <2>2 DEF Fits, Verdict, Version
  <2>4. QED
    BY <2>1, <2>2, <2>3 DEF Kept
<1>4. ASSUME NEW rec \in Record, Takes(acc, c, rec, new)
      PROVE  Kept(rows, changes, new)
  <2>1. /\ rec # None /\ rec.version \in Nat
        /\ row # None => /\ rec.version = row.version + 1 /\ row.version \in Nat
                         /\ rec.deleted = row.deleted
                         /\ rec.repo = row.repo /\ rec.created = row.created
    BY <1>1, <1>4, LeavesRecord DEF Takes, Row, Record, Version
  <2>2. \A id \in Ids : new.rows[id] = IF id = c.id THEN rec ELSE acc.rows[id]
    BY <1>4 DEF Takes, PushState
  <2>3. PICK v \in Verdict : /\ v.id = c.id /\ v.version = rec.version
                             /\ Elements(new.accepted) = Elements(acc.accepted) \cup {v}
    BY <1>4 DEF Takes
  <2>4. new.conflicts = acc.conflicts
    BY <1>4 DEF Takes
  <2>5. ASSUME NEW id \in Ids PROVE Grown(rows[id], new.rows[id])
    <3>1. Grown(rows[id], acc.rows[id])
      BY DEF Kept
    <3>2. CASE id # c.id
      BY <2>2, <3>1, <3>2
    <3>3. CASE id = c.id /\ rows[id] # None
      <4>1. /\ row # None /\ rows[id].version <= row.version
            /\ row.repo = rows[id].repo /\ row.created = rows[id].created
            /\ (rows[id].deleted => row.deleted)
        BY <3>1, <3>3 DEF Grown
      <4>2. rows[id].version \in Nat
        BY <3>3 DEF Row, Record, Version
      <4>3. new.rows[id] = rec
        BY <2>2, <3>3
      <4>4. QED
        BY <2>1, <4>1, <4>2, <4>3 DEF Grown
    <3>4. QED
      BY <3>2, <3>3 DEF Grown
  <2>6. ASSUME NEW w \in Elements(acc.accepted) \cup Elements(acc.conflicts)
        PROVE  Fits(w, new.rows, changes)
    <3>1. Fits(w, acc.rows, changes)
      BY DEF Kept
    <3>2. w \in Verdict
      BY DEF PushState, Elements
    <3>3. w.id \in Ids /\ w.version \in Nat
      BY <3>2 DEF Verdict, Version
    <3>4. CASE w.id # c.id
      BY <2>2, <3>1, <3>3, <3>4 DEF Fits
    <3>5. CASE w.id = c.id
      <4>1. new.rows[w.id] = rec /\ acc.rows[w.id] = row
        BY <2>2, <3>3, <3>5
      <4>2. QED
        BY <2>1, <3>1, <3>3, <4>1 DEF Fits
    <3>6. QED
      BY <3>4, <3>5
  <2>7. Fits(v, new.rows, changes)
    <3>1. new.rows[c.id] = rec
      BY <1>1, <2>2
    <3>2. QED
      BY <2>1, <2>3, <3>1 DEF Fits
  <2>8. QED
    BY <2>3, <2>4, <2>5, <2>6, <2>7 DEF Kept
<1>5. QED
  BY <1>2, <1>3, <1>4

\* The state in which a push begins.
LEMMA PushStartState ==
    ASSUME NEW X, NEW rows \in [Ids -> Row], NEW log \in Seq(X), NEW changes
    PROVE  /\ PushStart(rows, log) \in PushState(X)
           /\ Kept(rows, changes, PushStart(rows, log))
<1>1. <<>> \in Seq(Verdict) /\ {} \in SUBSET Repos /\ Elements(<<>>) = {}
  BY DEF Elements
<1>2. PushStart(rows, log) \in PushState(X)
  BY <1>1 DEF PushState, PushStart
<1>3. \A id \in Ids : Grown(rows[id], rows[id])
  BY DEF Grown, Row, Record, Version
<1>4. QED
  BY <1>1, <1>2, <1>3 DEF PushStart, Kept

(***************************************************************************)
(* A push removes no record, puts none back that was deleted, and gives    *)
(* every record it changes a version of its own; each verdict is about a   *)
(* change of the push and names a version that the record has reached.     *)
(***************************************************************************)
THEOREM PushGrows ==
    ASSUME NEW X, NEW changes \in Seq(X), NEW allowed,
           \A c \in X : IsChange(c) /\ (c.repo \in allowed => c.repo \in Repos),
           NEW rows \in [Ids -> Row], NEW log \in Seq(X)
    PROVE  LET done == Pushed(PushStart(rows, log), changes, allowed)
           IN /\ done \in PushState(X)
              /\ \A id \in Ids : Grown(rows[id], done.rows[id])
              /\ \A v \in Elements(done.accepted) \cup Elements(done.conflicts) :
                    Fits(v, done.rows, changes)
<1> DEFINE start == PushStart(rows, log)
           J == {acc \in PushState(X) : Kept(rows, changes, acc)}
<1>1. start \in J
  BY PushStartState
<1>2. ASSUME NEW acc \in J, NEW n \in 1..Len(changes)
      PROVE  PushOne(acc, changes[n], allowed) \in J
  <2>1. /\ changes[n] \in X /\ IsChange(changes[n]) /\ changes[n] \in Elements(changes)
        /\ changes[n].repo \in allowed => changes[n].repo \in Repos
    BY DEF Elements
  <2>2. QED
    BY <2>1, PushOneCases, PushOneKeeps
<1> HIDE DEF J, start
<1>3. Pushed(start, changes, allowed) \in J
  BY <1>1, <1>2, PushInduction
<1>4. QED
  BY <1>3 DEF J, start, Kept

=============================================================================
