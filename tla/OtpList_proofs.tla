--------------------------- MODULE OtpList_proofs ----------------------------
(***************************************************************************)
(* Proofs about the list of codes, for any number of accounts, of periods, *)
(* and of loads that compute their codes at one time.                      *)
(***************************************************************************)
EXTENDS OtpList, Subsequences_proofs

Code == Window \cup {None}
CodedRow == [row : Row, code : Code]

\* A load has no more rows than there can be accounts; regen is there only with the flag.
\* As long as no loads overlapped: the flag is not left behind, the indices of a refresh are
\* in the list, its copy is as long as the list, and so are the rows of the one load.
OneLoad ==
    /\ regen # None => Elements(regen.todo) \subseteq DOMAIN state
                       /\ DOMAIN regen.updated = DOMAIN state
    /\ \A l \in Loads : loads[l] # None =>
         /\ Len(loads[l].todo) + Len(loads[l].done) = Len(state)
         /\ \A k \in Loads : loads[k] # None => k = l

Flagged ==
    /\ regen # None => isRefreshing
    /\ isRefreshing /\ regen = None => overlapped
    /\ ~overlapped => OneLoad

Fitting == \A l \in Loads : loads[l] # None => Len(loads[l].todo) + Len(loads[l].done) <= N

IInv == TypeOK /\ Fitting /\ Flagged

-----------------------------------------------------------------------------
\* The lists of the model are the sequences that are not too long.
LEMMA ListsAreSequences ==
    ASSUME NEW S, NEW s
    PROVE  s \in Lists(S) <=> s \in Seq(S) /\ Len(s) <= N
<1>1. ASSUME s \in Lists(S) PROVE s \in Seq(S) /\ Len(s) <= N
  <2>1. PICK n \in 0..N : s \in [1..n -> S]
    BY <1>1 DEF Lists
  <2>2. n \in Nat /\ n <= N
    BY <2>1, BoundsAssumption
  <2>3. s \in Seq(S) /\ Len(s) = n
    BY <2>1, <2>2
  <2>4. QED
    BY <2>2, <2>3
<1>2. ASSUME s \in Seq(S), Len(s) <= N PROVE s \in Lists(S)
  <2>1. Len(s) \in 0..N /\ s \in [1..Len(s) -> S]
    BY <1>2, BoundsAssumption
  <2>2. QED
    BY <2>1 DEF Lists
<1>3. QED
  BY <1>1, <1>2

\* A sequence whose elements are in a smaller set.
LEMMA SequenceOf ==
    ASSUME NEW X, NEW s \in Seq(X), NEW Y, Elements(s) \subseteq Y PROVE s \in Seq(Y)
<1>1. \A i \in 1..Len(s) : s[i] \in Y
  BY DEF Elements
<1>2. QED
  BY <1>1

LEMMA WindowOf ==
    ASSUME NEW t \in 0..MaxTime, NEW p \in Nat \ {0} PROVE t \div p \in Window
<1>1. t \in Nat /\ t <= MaxTime /\ p \in Nat /\ p > 0
  BY BoundsAssumption
<1>2. t \div p \in Nat /\ t \div p <= t
  BY <1>1, SMT
<1>3. QED
  BY <1>1, <1>2, BoundsAssumption DEF Window

LEMMA CodeTypes ==
    ASSUME TypeOK, NEW row \in Row
    PROVE  /\ Counter(Period[row.id]) \in Code
           /\ \A code \in Code : Item(row, code) \in CodedRow
<1>1. row.id \in Ids /\ now \in 0..MaxTime
  BY DEF Row, TypeOK
<1>2. Period[row.id] \in Nat \ {0}
  BY <1>1, PeriodAssumption
<1>3. Counter(Period[row.id]) \in Code
  BY <1>1, <1>2, WindowOf DEF Counter, Code
<1>4. QED
  BY <1>3 DEF Item, CodedRow

\* What TypeOK says of the parts that are sequences.
LEMMA SequenceTypes ==
    ASSUME TypeOK
    PROVE  /\ state \in Seq(CodedRow) /\ Len(state) <= N
           /\ polled # None => polled \in Seq(Row) /\ Len(polled) <= N
           /\ \A l \in Loads : loads[l] # None =>
                loads[l].todo \in Seq(Row) /\ loads[l].done \in Seq(CodedRow)
           /\ regen # None => /\ regen.todo \in Seq(Ids) /\ Len(regen.todo) <= N
                              /\ regen.updated \in Seq(CodedRow) /\ Len(regen.updated) <= N
<1>1. Items = Lists(CodedRow)
  BY DEF Items, CodedRow, Code
<1>2. \A S, s : s \in Lists(S) => s \in Seq(S) /\ Len(s) <= N
  BY ListsAreSequences
<1> HIDE DEF Items
<1>3. state \in Seq(CodedRow) /\ Len(state) <= N
  BY <1>1, <1>2 DEF TypeOK
<1>4. polled # None => polled \in Seq(Row) /\ Len(polled) <= N
  BY <1>2 DEF TypeOK
<1>5. ASSUME NEW l \in Loads, loads[l] # None
      PROVE  loads[l].todo \in Seq(Row) /\ loads[l].done \in Seq(CodedRow)
  <2>1. loads[l].todo \in Lists(Row) /\ loads[l].done \in Lists(CodedRow)
    BY <1>1, <1>5 DEF TypeOK
  <2>2. QED
    BY <1>2, <2>1
<1>6. ASSUME regen # None
      PROVE  /\ regen.todo \in Seq(Ids) /\ Len(regen.todo) <= N
             /\ regen.updated \in Seq(CodedRow) /\ Len(regen.updated) <= N
  <2>1. regen.todo \in Lists(Ids) /\ regen.updated \in Lists(CodedRow)
    BY <1>1, <1>6 DEF TypeOK
  <2>2. QED
    BY <1>2, <2>1
<1>7. QED
  BY <1>3, <1>4, <1>5, <1>6

LEMMA RowsTypes == ASSUME TypeOK PROVE Rows \in Lists(Row)
<1> DEFINE rows == [i \in Ids |-> [id |-> i, rev |-> stored[i]]]
           AnyRow == [id : Ids, rev : 0..MaxChanges + 1]
           live == {row \in Elements(rows) : row.rev > 0}
<1>1. \A i \in Ids : [id |-> i, rev |-> stored[i]] \in AnyRow
  BY DEF TypeOK
<1>2. rows \in Seq(AnyRow) /\ Len(rows) = N
  <2> HIDE DEF AnyRow
  <2>1. rows \in [1..N -> AnyRow]
    BY <1>1 DEF Ids
  <2> HIDE DEF rows
  <2>2. QED
    BY <2>1, BoundsAssumption
<1>3. \A row \in AnyRow : row.rev > 0 => row \in Row
  BY BoundsAssumption DEF Row
<1>4. Elements(rows) \subseteq AnyRow
  BY <1>2, ElementsHeadTail
<1> HIDE DEF rows, AnyRow
<1>5. /\ Only(rows, live) \in Seq(AnyRow)
      /\ Elements(Only(rows, live)) = Elements(rows) \cap live
      /\ Len(Only(rows, live)) <= Len(rows)
  BY <1>2, OnlyElements
<1>6. Elements(Only(rows, live)) \subseteq Row
  BY <1>3, <1>4, <1>5
<1>7. Only(rows, live) \in Seq(Row) /\ Len(Only(rows, live)) <= N
  BY <1>2, <1>5, <1>6, SequenceOf
<1>8. Rows = Only(rows, live)
  BY DEF Rows, rows
<1>9. QED
  BY <1>7, <1>8, ListsAreSequences

LEMMA RolledOverTypes ==
    ASSUME TypeOK
    PROVE  /\ RolledOver \in Seq(Ids) /\ Len(RolledOver) <= N
           /\ Elements(RolledOver) \subseteq DOMAIN state
<1> DEFINE indices == [i \in DOMAIN state |-> i]
           S == {i \in DOMAIN state : TimeLeft(Period[state[i].row.id]) = Period[state[i].row.id]}
<1>1. state \in Seq(CodedRow) /\ Len(state) <= N /\ Len(state) \in Nat
  BY SequenceTypes
<1>2. indices \in Seq(Ids) /\ Len(indices) = Len(state)
  BY <1>1, BoundsAssumption DEF Ids
<1>3. S \subseteq DOMAIN state
  OBVIOUS
<1> HIDE DEF S
<1>4. /\ Only(indices, S) \in Seq(Ids) /\ Elements(Only(indices, S)) = Elements(indices) \cap S
      /\ Len(Only(indices, S)) <= Len(indices)
  BY <1>2, OnlyElements
<1>5. RolledOver = Only(indices, S)
  BY DEF RolledOver, S
<1>6. Len(RolledOver) \in Nat
  BY <1>4, <1>5
<1>7. QED
  BY <1>1, <1>2, <1>3, <1>4, <1>5, <1>6, BoundsAssumption

LEMMA ReplaceTypes ==
    ASSUME NEW X, NEW s \in Seq(X), NEW i, NEW x \in X
    PROVE  /\ [s EXCEPT ![i] = x] \in Seq(X)
           /\ DOMAIN [s EXCEPT ![i] = x] = DOMAIN s
           /\ Len([s EXCEPT ![i] = x]) = Len(s)
<1> DEFINE t == [s EXCEPT ![i] = x]
<1>1. Len(s) \in Nat /\ DOMAIN s = 1..Len(s) /\ s \in [1..Len(s) -> X]
  OBVIOUS
<1>2. t \in [1..Len(s) -> X]
  BY <1>1
<1> HIDE DEF t
<1>3. t \in Seq(X) /\ Len(t) = Len(s) /\ DOMAIN t = DOMAIN s
  BY <1>1, <1>2
<1>4. QED
  BY <1>3 DEF t

\* A round of the refresh keeps the length of the copy.
LEMMA RegeneratedTypes ==
    ASSUME TypeOK, NEW i \in DOMAIN state, NEW updated \in Seq(CodedRow)
    PROVE  /\ Regenerated(updated, i) \in Seq(CodedRow)
           /\ DOMAIN Regenerated(updated, i) = DOMAIN updated
           /\ Len(Regenerated(updated, i)) = Len(updated)
<1> DEFINE row == state[i].row
           item == Item(row, Counter(Period[row.id]))
<1>1. row \in Row
  <2>1. state[i] \in CodedRow
    BY SequenceTypes
  <2>2. QED
    BY <2>1 DEF CodedRow
<1>2. item \in CodedRow
  BY <1>1, CodeTypes
<1>3. Regenerated(updated, i) \in {updated, [updated EXCEPT ![i] = item]}
  BY DEF Regenerated
<1> HIDE DEF item
<1>4. /\ [updated EXCEPT ![i] = item] \in Seq(CodedRow)
      /\ DOMAIN [updated EXCEPT ![i] = item] = DOMAIN updated
      /\ Len([updated EXCEPT ![i] = item]) = Len(updated)
  BY <1>2, ReplaceTypes
<1>5. QED
  BY <1>3, <1>4

-----------------------------------------------------------------------------
LEMMA LoadRecord ==
    ASSUME NEW t \in Seq(Row), NEW d \in Seq(CodedRow), Len(t) + Len(d) <= N
    PROVE  /\ [todo |-> t, done |-> d] # None
           /\ t \in Lists(Row) /\ d \in Items
<1>1. t \in Lists(Row) /\ d \in Lists(CodedRow)
  <2>1. Len(t) \in Nat /\ Len(d) \in Nat
    OBVIOUS
  <2>2. Len(t) <= N /\ Len(d) <= N
    BY <2>1, BoundsAssumption
  <2>3. QED
    BY <2>2, ListsAreSequences
<1>2. Items = Lists(CodedRow)
  BY DEF Items, CodedRow, Code
<1> HIDE DEF Items
<1>3. [todo |-> t, done |-> d] \in [todo : Lists(Row), done : Items]
  BY <1>1, <1>2
<1>4. QED
  BY <1>1, <1>2, <1>3, NullAssumption

LEMMA RegenRecord ==
    ASSUME NEW t \in Seq(Ids), NEW u \in Seq(CodedRow), Len(t) <= N, Len(u) <= N
    PROVE  /\ [todo |-> t, updated |-> u] # None
           /\ t \in Lists(Ids) /\ u \in Items
<1>1. t \in Lists(Ids) /\ u \in Lists(CodedRow)
  BY ListsAreSequences
<1>2. Items = Lists(CodedRow)
  BY DEF Items, CodedRow, Code
<1> HIDE DEF Items
<1>3. [todo |-> t, updated |-> u] \in [todo : Lists(Ids), updated : Items]
  BY <1>1, <1>2
<1>4. QED
  BY <1>1, <1>2, <1>3, NullAssumption

\* Taking the first element off a sequence.
LEMMA TailOf ==
    ASSUME NEW X, NEW s \in Seq(X), s # <<>>
    PROVE  /\ Head(s) \in X /\ Head(s) \in Elements(s)
           /\ Tail(s) \in Seq(X) /\ Len(Tail(s)) = Len(s) - 1
           /\ Elements(Tail(s)) \subseteq Elements(s)
<1>1. Len(Tail(s)) = Len(s) - 1
  OBVIOUS
<1>2. QED
  BY <1>1, ElementsHeadTail

-----------------------------------------------------------------------------
LEMMA InvariantInit == Init => IInv
<1> SUFFICES ASSUME Init PROVE IInv
  OBVIOUS
<1>1. <<>> \in Items
  <2>1. <<>> \in Lists(CodedRow)
    <3>1. <<>> \in Seq(CodedRow) /\ Len(<<>>) <= N
      BY BoundsAssumption
    <3>2. QED
      BY <3>1, ListsAreSequences
  <2>2. QED
    BY <2>1 DEF Items, CodedRow, Code
<1>2. stored \in [Ids -> 0..MaxChanges + 1] /\ changes \in 0..MaxChanges /\ now \in 0..MaxTime
  BY BoundsAssumption DEF Init
<1>3. TypeOK
  BY <1>1, <1>2 DEF Init, TypeOK
<1>4. Fitting /\ Flagged
  BY DEF Init, Fitting, Flagged, OneLoad
<1>5. QED
  BY <1>3, <1>4 DEF IInv

\* Steps that leave the lists alone.
LEMMA ListsAlone ==
    ASSUME IInv, UNCHANGED <<loads, state, isRefreshing, regen, overlapped>>,
           stored' \in [Ids -> 0..MaxChanges + 1], changes' \in 0..MaxChanges,
           now' \in 0..MaxTime, due' \in BOOLEAN, auto' \in BOOLEAN,
           polled' = None \/ polled' \in Lists(Row)
    PROVE  IInv'
<1>1. TypeOK'
  BY DEF IInv, TypeOK
<1>2. Fitting' /\ Flagged'
  BY DEF IInv, Fitting, Flagged, OneLoad
<1>3. QED
  BY <1>1, <1>2 DEF IInv

LEMMA InvariantSimple ==
    ASSUME IInv, Change \/ Tick \/ SetAutoRefresh \/ Poll \/ Drop \/ UNCHANGED vars
    PROVE  IInv'
<1>1. CASE Change
  <2>1. PICK i \in Ids, rev \in {0, changes + 2} : stored' = [stored EXCEPT ![i] = rev]
    BY <1>1 DEF Change
  <2>2. changes < MaxChanges /\ changes' = changes + 1 /\ changes \in 0..MaxChanges
    BY <1>1 DEF Change, IInv, TypeOK
  <2>3. rev \in 0..MaxChanges + 1 /\ changes' \in 0..MaxChanges
    BY <2>2, BoundsAssumption
  <2>4. stored' \in [Ids -> 0..MaxChanges + 1]
    BY <2>1, <2>3 DEF IInv, TypeOK
  <2>5. QED
    BY <1>1, <2>3, <2>4, ListsAlone DEF Change, IInv, TypeOK
<1>2. CASE Tick
  <2>1. now' \in 0..MaxTime
    BY <1>2, BoundsAssumption DEF Tick, IInv, TypeOK
  <2>2. QED
    BY <1>2, <2>1, ListsAlone DEF Tick, IInv, TypeOK
<1>3. CASE SetAutoRefresh
  BY <1>3, ListsAlone DEF SetAutoRefresh, IInv, TypeOK
<1>4. CASE Poll
  BY <1>4, RowsTypes, ListsAlone DEF Poll, IInv, TypeOK
<1>5. CASE Drop
  BY <1>5, ListsAlone DEF Drop, IInv, TypeOK
<1>6. CASE UNCHANGED vars
  BY <1>6, ListsAlone DEF vars, IInv, TypeOK
<1>7. QED
  BY <1>1, <1>2, <1>3, <1>4, <1>5, <1>6

-----------------------------------------------------------------------------
\* A load begins: it owns the list, unless another one is there.
LEMMA InvariantLoad == ASSUME IInv, NEW l \in Loads, Load(l) PROVE IInv'
<1> DEFINE rec == [todo |-> polled, done |-> <<>>]
           bare == [i \in DOMAIN polled |-> Item(polled[i], None)]
<1>1. TypeOK /\ Fitting /\ Flagged
  BY DEF IInv
<1>2. /\ polled # None /\ ~isRefreshing /\ polled' = None
      /\ state' = bare /\ loads' = [loads EXCEPT ![l] = rec]
      /\ overlapped' = (overlapped \/ \E k \in Loads : loads[k] # None)
      /\ UNCHANGED <<stored, changes, now, due, auto, isRefreshing, regen>>
  BY DEF Load, Listening
<1>3. polled \in Seq(Row) /\ Len(polled) <= N
  BY <1>1, <1>2, SequenceTypes
<1>4. bare \in Seq(CodedRow) /\ Len(bare) = Len(polled)
  <2>1. Len(polled) \in Nat /\ DOMAIN polled = 1..Len(polled)
    BY <1>3
  <2>2. \A i \in 1..Len(polled) : Item(polled[i], None) \in CodedRow
    <3>1. None \in Code
      BY DEF Code
    <3>2. \A i \in 1..Len(polled) : polled[i] \in Row
      BY <1>3
    <3>3. QED
      BY <1>1, <3>1, <3>2, CodeTypes
  <2>3. bare \in [1..Len(polled) -> CodedRow]
    BY <2>1, <2>2
  <2> HIDE DEF bare
  <2>4. QED
    BY <2>1, <2>3
<1>5. bare \in Items
  <2> HIDE DEF bare
  <2>1. bare \in Lists(CodedRow)
    BY <1>3, <1>4, ListsAreSequences
  <2>2. QED
    BY <2>1 DEF Items, CodedRow, Code
<1>6. <<>> \in Seq(CodedRow) /\ Len(<<>>) = 0
  OBVIOUS
<1>7. rec # None /\ polled \in Lists(Row) /\ <<>> \in Items
  <2>1. Len(polled) + Len(<<>>) <= N
    BY <1>3, <1>6
  <2>2. QED
    BY <1>3, <1>6, <2>1, LoadRecord
<1>8. rec.todo = polled /\ rec.done = <<>>
  OBVIOUS
<1> HIDE DEF bare, rec
<1>9. /\ DOMAIN loads' = Loads /\ loads'[l] = rec
      /\ \A k \in Loads : k # l => loads'[k] = loads[k]
  BY <1>1, <1>2 DEF TypeOK
<1>10. TypeOK'
  BY <1>1, <1>2, <1>5, <1>7, <1>8, <1>9 DEF TypeOK
<1>11. Fitting'
  <2>1. Len(rec.todo) + Len(rec.done) <= N
    BY <1>3, <1>6, <1>8
  <2>2. QED
    BY <1>1, <1>9, <2>1 DEF Fitting
<1>12. Flagged'
  <2>1. regen = None /\ regen' = None /\ ~isRefreshing'
    BY <1>1, <1>2 DEF Flagged
  <2>2. ASSUME ~overlapped' PROVE OneLoad'
    <3>1. \A k \in Loads : k # l => loads'[k] = None
      BY <1>2, <1>9, <2>2
    <3>2. Len(rec.todo) + Len(rec.done) = Len(state')
      BY <1>2, <1>3, <1>4, <1>6, <1>8
    <3>3. QED
      BY <1>9, <2>1, <3>1, <3>2 DEF OneLoad
  <2>3. QED
    BY <2>1, <2>2 DEF Flagged
<1>13. QED
  BY <1>10, <1>11, <1>12 DEF IInv

\* A code is computed: a row leaves the load's rows to come and an item joins those that are done.
LEMMA InvariantGenerate == ASSUME IInv, NEW l \in Loads, Generate(l) PROVE IInv'
<1> DEFINE row == Head(loads[l].todo)
           code == IF row.id \in Broken THEN None ELSE Counter(Period[row.id])
           rec == [todo |-> Tail(loads[l].todo), done |-> Append(loads[l].done, Item(row, code))]
<1>1. TypeOK /\ Fitting /\ Flagged
  BY DEF IInv
<1>2. /\ loads[l] # None /\ loads[l].todo # <<>>
      /\ UNCHANGED <<stored, changes, now, due, auto, polled, state, isRefreshing, regen, overlapped>>
  BY DEF Generate
<1>3. loads' = [loads EXCEPT ![l] = rec]
  BY DEF Generate
<1>4. /\ loads[l].todo \in Seq(Row) /\ loads[l].done \in Seq(CodedRow)
      /\ Len(loads[l].todo) + Len(loads[l].done) <= N
  BY <1>1, <1>2, SequenceTypes DEF Fitting
<1>5. /\ row \in Row /\ Tail(loads[l].todo) \in Seq(Row)
      /\ Len(Tail(loads[l].todo)) = Len(loads[l].todo) - 1
  BY <1>2, <1>4, TailOf
<1> HIDE DEF row
<1>6. code \in Code
  BY <1>1, <1>5, CodeTypes DEF Code
<1> HIDE DEF code
<1>7. Item(row, code) \in CodedRow
  BY <1>1, <1>5, <1>6, CodeTypes
<1>8. /\ Append(loads[l].done, Item(row, code)) \in Seq(CodedRow)
      /\ Len(Append(loads[l].done, Item(row, code))) = Len(loads[l].done) + 1
  BY <1>4, <1>7
<1>9. rec.todo = Tail(loads[l].todo) /\ rec.done = Append(loads[l].done, Item(row, code))
  OBVIOUS
<1>10. Len(rec.todo) + Len(rec.done) = Len(loads[l].todo) + Len(loads[l].done)
  <2>1. Len(loads[l].todo) \in Nat /\ Len(loads[l].done) \in Nat
    BY <1>4
  <2>2. Len(rec.todo) = Len(loads[l].todo) - 1 /\ Len(rec.done) = Len(loads[l].done) + 1
    BY <1>5, <1>8, <1>9
  <2> DEFINE a == Len(loads[l].todo)
             b == Len(loads[l].done)
  <2>3. Len(rec.todo) = a - 1 /\ Len(rec.done) = b + 1 /\ a \in Nat /\ b \in Nat
    BY <2>1, <2>2
  <2> HIDE DEF rec, a, b
  <2>4. Len(rec.todo) + Len(rec.done) = a + b
    BY <2>3
  <2>5. QED
    BY <2>4 DEF a, b
<1>11. rec # None /\ rec.todo \in Lists(Row) /\ rec.done \in Items
  <2>1. Len(Tail(loads[l].todo)) + Len(Append(loads[l].done, Item(row, code))) <= N
    <3> HIDE DEF rec
    <3>1. Len(rec.todo) + Len(rec.done) <= N
      BY <1>4, <1>10
    <3>2. QED
      BY <1>9, <3>1
  <2>2. QED
    BY <1>5, <1>8, <1>9, <2>1, LoadRecord
<1> HIDE DEF rec
<1>12. /\ DOMAIN loads' = Loads /\ loads'[l] = rec
       /\ \A k \in Loads : k # l => loads'[k] = loads[k]
  BY <1>1, <1>3 DEF TypeOK
<1>13. TypeOK'
  BY <1>1, <1>2, <1>11, <1>12 DEF TypeOK
<1>14. Fitting'
  BY <1>1, <1>2, <1>10, <1>12 DEF Fitting
<1>15. Flagged'
  <2>1. ASSUME OneLoad PROVE OneLoad'
    BY <1>2, <1>10, <1>12, <2>1 DEF OneLoad
  <2>2. QED
    BY <1>1, <1>2, <2>1 DEF Flagged
<1>16. QED
  BY <1>13, <1>14, <1>15 DEF IInv

\* A load stores its items: without another load, they are as many as are on screen.
LEMMA InvariantStoreCodes == ASSUME IInv, NEW l \in Loads, StoreCodes(l) PROVE IInv'
<1>1. TypeOK /\ Fitting /\ Flagged
  BY DEF IInv
<1>2. /\ loads[l] # None /\ loads[l].todo = <<>>
      /\ state' = loads[l].done /\ loads' = [loads EXCEPT ![l] = None]
      /\ UNCHANGED <<stored, changes, now, due, auto, polled, isRefreshing, regen, overlapped>>
  BY DEF StoreCodes
<1>3. /\ DOMAIN loads' = Loads /\ loads'[l] = None
      /\ \A k \in Loads : k # l => loads'[k] = loads[k]
  BY <1>1, <1>2 DEF TypeOK
<1>4. state' \in Items
  BY <1>1, <1>2 DEF TypeOK
<1>5. TypeOK'
  BY <1>1, <1>2, <1>3, <1>4 DEF TypeOK
<1>6. Fitting'
  BY <1>1, <1>3 DEF Fitting
<1>7. ASSUME OneLoad PROVE OneLoad'
  <2>1. /\ Len(loads[l].todo) + Len(loads[l].done) = Len(state)
        /\ \A k \in Loads : loads[k] # None => k = l
    BY <1>2, <1>7 DEF OneLoad
  <2>2. \A k \in Loads : loads'[k] = None
    BY <1>3, <2>1
  <2>3. loads[l].done \in Seq(CodedRow) /\ state \in Seq(CodedRow)
    BY <1>1, <1>2, SequenceTypes
  <2>4. Len(loads[l].done) = Len(state)
    BY <1>2, <2>1, <2>3
  <2>5. DOMAIN state' = DOMAIN state
    BY <1>2, <2>3, <2>4
  <2>6. QED
    BY <1>2, <1>7, <2>2, <2>5 DEF OneLoad
<1>8. Flagged'
  BY <1>1, <1>2, <1>7 DEF Flagged
<1>9. QED
  BY <1>5, <1>6, <1>8 DEF IInv

-----------------------------------------------------------------------------
\* The timer begins a refresh of the indices whose codes have just run out.
LEMMA InvariantRotation == ASSUME IInv, CheckTokenRotation PROVE IInv'
<1> DEFINE updated == Regenerated(state, Head(RolledOver))
           rec == [todo |-> Tail(RolledOver), updated |-> updated]
<1>1. TypeOK /\ Fitting /\ Flagged
  BY DEF IInv
<1>2. /\ due' = FALSE
      /\ UNCHANGED <<stored, changes, now, auto, polled, loads, state, overlapped>>
  BY DEF CheckTokenRotation
<1>3. CASE UNCHANGED <<isRefreshing, regen>>
  BY <1>1, <1>2, <1>3, ListsAlone DEF TypeOK
<1>4. CASE ~isRefreshing /\ RolledOver # <<>> /\ isRefreshing' = TRUE /\ regen' = rec
  <2>1. state \in Seq(CodedRow) /\ Len(state) <= N
    BY <1>1, SequenceTypes
  <2>2. /\ RolledOver \in Seq(Ids) /\ Len(RolledOver) <= N
        /\ Elements(RolledOver) \subseteq DOMAIN state
    BY <1>1, RolledOverTypes
  <2>3. /\ Head(RolledOver) \in Elements(RolledOver)
        /\ Tail(RolledOver) \in Seq(Ids) /\ Len(Tail(RolledOver)) = Len(RolledOver) - 1
        /\ Elements(Tail(RolledOver)) \subseteq Elements(RolledOver)
    BY <1>4, <2>2, TailOf
  <2>4. updated \in Seq(CodedRow) /\ DOMAIN updated = DOMAIN state /\ Len(updated) = Len(state)
    BY <1>1, <2>1, <2>2, <2>3, RegeneratedTypes
  <2> HIDE DEF updated
  <2>5. Len(Tail(RolledOver)) <= N /\ Len(updated) <= N
    <3>1. Len(RolledOver) \in Nat
      BY <2>2
    <3>2. QED
      BY <2>1, <2>2, <2>3, <2>4, <3>1, BoundsAssumption
  <2>6. rec # None /\ rec.todo \in Lists(Ids) /\ rec.updated \in Items
    BY <2>3, <2>4, <2>5, RegenRecord
  <2>7. Elements(rec.todo) \subseteq DOMAIN state /\ DOMAIN rec.updated = DOMAIN state
    BY <2>2, <2>3, <2>4
  <2> HIDE DEF rec
  <2>8. TypeOK'
    BY <1>1, <1>2, <1>4, <2>6 DEF TypeOK
  <2>9. Fitting'
    BY <1>1, <1>2 DEF Fitting
  <2>10. Flagged'
    <3>1. ASSUME OneLoad PROVE OneLoad'
      BY <1>2, <1>4, <2>7, <3>1 DEF OneLoad
    <3>2. QED
      BY <1>1, <1>2, <1>4, <2>6, <3>1 DEF Flagged
  <2>11. QED
    BY <2>8, <2>9, <2>10 DEF IInv
<1>5. QED
  <2>1. \/ UNCHANGED <<isRefreshing, regen>>
        \/ ~isRefreshing /\ RolledOver # <<>> /\ isRefreshing' = TRUE /\ regen' = rec
    BY DEF CheckTokenRotation
  <2>2. QED
    BY <1>3, <1>4, <2>1

\* The next index of a refresh: it is in the list, as long as no loads overlapped.
LEMMA InvariantRegenerate == ASSUME IInv, Regenerate PROVE IInv'
<1> DEFINE i == Head(regen.todo)
           rec == [todo |-> Tail(regen.todo), updated |-> Regenerated(regen.updated, i)]
<1>1. TypeOK /\ Fitting /\ Flagged
  BY DEF IInv
<1>2. /\ regen # None /\ regen.todo # <<>>
      /\ UNCHANGED <<stored, changes, now, due, auto, polled, loads, state, isRefreshing, overlapped>>
      /\ regen' = IF i \in DOMAIN state THEN rec ELSE None
  BY DEF Regenerate
<1>3. /\ regen.todo \in Seq(Ids) /\ Len(regen.todo) <= N
      /\ regen.updated \in Seq(CodedRow) /\ Len(regen.updated) <= N
  BY <1>1, <1>2, SequenceTypes
<1>4. /\ i \in Elements(regen.todo)
      /\ Tail(regen.todo) \in Seq(Ids) /\ Len(Tail(regen.todo)) = Len(regen.todo) - 1
      /\ Elements(Tail(regen.todo)) \subseteq Elements(regen.todo)
  BY <1>2, <1>3, TailOf
<1>5. Fitting'
  BY <1>1, <1>2 DEF Fitting
<1>6. CASE i \in DOMAIN state
  <2>1. /\ Regenerated(regen.updated, i) \in Seq(CodedRow)
        /\ DOMAIN Regenerated(regen.updated, i) = DOMAIN regen.updated
        /\ Len(Regenerated(regen.updated, i)) = Len(regen.updated)
    BY <1>1, <1>3, <1>6, RegeneratedTypes
  <2>2. Len(Tail(regen.todo)) <= N /\ Len(Regenerated(regen.updated, i)) <= N
    <3>1. Len(regen.todo) \in Nat
      BY <1>3
    <3>2. QED
      BY <1>3, <1>4, <2>1, <3>1, BoundsAssumption
  <2>3. rec # None /\ rec.todo \in Lists(Ids) /\ rec.updated \in Items
    BY <1>4, <2>1, <2>2, RegenRecord
  <2>4. /\ Elements(rec.todo) \subseteq Elements(regen.todo)
        /\ DOMAIN rec.updated = DOMAIN regen.updated
    BY <1>4, <2>1
  <2> HIDE DEF rec, i
  <2>5. regen' = rec
    BY <1>2, <1>6
  <2>6. TypeOK'
    BY <1>1, <1>2, <2>3, <2>5 DEF TypeOK
  <2>7. ASSUME OneLoad PROVE OneLoad'
    BY <1>2, <2>4, <2>5, <2>7 DEF OneLoad
  <2>8. Flagged'
    BY <1>1, <1>2, <2>3, <2>5, <2>7 DEF Flagged
  <2>9. QED
    BY <1>5, <2>6, <2>8 DEF IInv
<1>7. CASE i \notin DOMAIN state
  <2>1. regen' = None
    BY <1>2, <1>7
  <2>2. TypeOK'
    BY <1>1, <1>2, <2>1 DEF TypeOK
  <2>3. overlapped
    BY <1>1, <1>2, <1>4, <1>7 DEF Flagged, OneLoad
  <2>4. Flagged'
    BY <1>2, <2>1, <2>3 DEF Flagged
  <2>5. QED
    BY <1>5, <2>2, <2>4 DEF IInv
<1>8. QED
  BY <1>6, <1>7

\* The copy is stored and the flag reset.
LEMMA InvariantStoreRegenerated == ASSUME IInv, StoreRegenerated PROVE IInv'
<1>1. TypeOK /\ Fitting /\ Flagged
  BY DEF IInv
<1>2. /\ regen # None /\ state' = regen.updated /\ regen' = None /\ isRefreshing' = FALSE
      /\ UNCHANGED <<stored, changes, now, due, auto, polled, loads, overlapped>>
  BY DEF StoreRegenerated, Refreshed
<1>3. state' \in Items
  BY <1>1, <1>2 DEF TypeOK
<1>4. TypeOK'
  BY <1>1, <1>2, <1>3 DEF TypeOK
<1>5. Fitting'
  BY <1>1, <1>2 DEF Fitting
<1>6. ASSUME OneLoad PROVE OneLoad'
  <2>1. regen.updated \in Seq(CodedRow) /\ state \in Seq(CodedRow)
    BY <1>1, <1>2, SequenceTypes
  <2>2. DOMAIN regen.updated = DOMAIN state
    BY <1>2, <1>6 DEF OneLoad
  <2>3. Len(state') = Len(state)
    BY <1>2, <2>1, <2>2
  <2>4. QED
    BY <1>2, <1>6, <2>3 DEF OneLoad
<1>7. Flagged'
  BY <1>1, <1>2, <1>6 DEF Flagged
<1>8. QED
  BY <1>4, <1>5, <1>7 DEF IInv

-----------------------------------------------------------------------------
LEMMA InvariantNext == ASSUME IInv, [Next]_vars PROVE IInv'
<1>1. CASE Change \/ Tick \/ SetAutoRefresh \/ Poll \/ Drop \/ UNCHANGED vars
  BY <1>1, InvariantSimple
<1>2. CASE CheckTokenRotation
  BY <1>2, InvariantRotation
<1>3. CASE \E l \in Loads : Load(l)
  BY <1>3, InvariantLoad
<1>4. CASE Refresh
  BY <1>4, InvariantRegenerate, InvariantStoreRegenerated DEF Refresh
<1>5. CASE \E l \in Loads : Finish(l)
  BY <1>5, InvariantGenerate, InvariantStoreCodes DEF Finish
<1>6. QED
  BY <1>1, <1>2, <1>3, <1>4, <1>5 DEF Next, Deliver

(***************************************************************************)
(* The inductive invariant: types, the lengths of the loads, and, as long  *)
(* as no two loads overlapped, a refresh whose indices are in the list.    *)
(***************************************************************************)
THEOREM ListInvariant == Spec => []IInv
<1>1. Init => IInv
  BY InvariantInit
<1>2. IInv /\ [Next]_vars => IInv'
  BY InvariantNext
<1>3. QED
  BY <1>1, <1>2, PTL DEF Spec

(***************************************************************************)
(* The list on screen, the loads and the copy of a refresh never have more *)
(* items than there can be accounts, and every item's code is a window or  *)
(* none, whatever loads and refreshes overlap.                             *)
(***************************************************************************)
THEOREM ListTypes == Spec => []TypeOK
<1>1. IInv => TypeOK
  BY DEF IInv
<1>2. QED
  BY <1>1, ListInvariant, PTL

(***************************************************************************)
(* A refresh of the codes ends without a RangeError and resets the flag    *)
(* that holds back the polls, unless loads overlapped.                     *)
(***************************************************************************)
THEOREM RefreshesEnd == Spec => []RefreshEnds
<1>1. IInv => RefreshEnds
  BY DEF IInv, Flagged, RefreshEnds, Stuck, StuckByOverlap
<1>2. QED
  BY <1>1, ListInvariant, PTL

=============================================================================
