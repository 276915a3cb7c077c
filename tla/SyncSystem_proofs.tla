-------------------------- MODULE SyncSystem_proofs --------------------------
(***************************************************************************)
(* Proofs about the devices and the server they sync through, for any      *)
(* number of devices, overlapping syncs, accounts, repos and changes.      *)
(***************************************************************************)
EXTENDS SyncSystem, SyncPush_proofs

-----------------------------------------------------------------------------
\* A call that is not idle has a repo; the loop over conflicts has one, each about
\* an item that was sent; the row being decrypted is there and no tombstone.
Shape(x) ==
    /\ x.at # "idle" => x.repo \in Repos
    /\ x.at \in InConflict \cup {"resolved"} => x.conflicts # <<>>
    /\ \A v \in Elements(x.conflicts) : \E i \in Elements(x.sent) : i.id = v.id
    /\ x.at = "store" => /\ x.row \in Ids /\ x.rows[x.row] # None
                         /\ ~x.rows[x.row].deleted

\* The inductive invariant behind TypeOK.
TInv == TypeOK /\ \A d \in Devices, k \in Runs : Shape(sync[d][k])

-----------------------------------------------------------------------------
\* The sequences of the model: queues, replies.

LEMMA EnqueueElements ==
    ASSUME NEW q \in Seq(Item), NEW item \in Item
    PROVE  /\ Enqueue(q, item) \in Seq(Item)
           /\ Elements(Enqueue(q, item)) = Elements(q) \cup {item}
<1> DEFINE before == {x \in Elements(q) : x.stamp <= item.stamp}
           after == {x \in Elements(q) : x.stamp > item.stamp}
           s == Only(q, before)
           one == <<item>>
           t == Only(q, after)
<1>1. /\ s \in Seq(Item) /\ Elements(s) = Elements(q) \cap before
      /\ t \in Seq(Item) /\ Elements(t) = Elements(q) \cap after
  BY OnlyElements
<1>2. before \cup after = Elements(q)
  <2>1. \A x \in Item : x.stamp \in Int
    BY OpsAssumption DEF Item
  <2>2. Elements(q) \subseteq Item
    BY ElementsHeadTail
  <2>3. \A x \in Elements(q) : x.stamp \in Int /\ item.stamp \in Int
    BY <2>1, <2>2
  <2>4. QED
    BY <2>3
<1>3. one \in Seq(Item) /\ Elements(one) = {item}
  BY DEF Elements
<1>4. Enqueue(q, item) = (s \o one) \o t
  BY DEF Enqueue
<1> HIDE DEF before, after, s, one, t
<1>5. s \o one \in Seq(Item) /\ Elements(s \o one) = Elements(s) \cup Elements(one)
  BY <1>1, <1>3, ElementsConcat
<1> DEFINE u == s \o one
<1> HIDE DEF u
<1>6. u \o t \in Seq(Item) /\ Elements(u \o t) = Elements(u) \cup Elements(t)
  <2>1. u \in Seq(Item)
    BY <1>5 DEF u
  <2>2. QED
    BY <1>1, <2>1, ElementsConcat
<1>7. Elements(u) = Elements(s) \cup Elements(one)
  BY <1>5 DEF u
<1>8. Enqueue(q, item) = u \o t
  BY <1>4 DEF u
<1>9. QED
  BY <1>1, <1>2, <1>3, <1>6, <1>7, <1>8

LEMMA ClearedElements ==
    ASSUME NEW q \in Seq(Item)
    PROVE  /\ \A id, v : /\ Cleared(q, id, v) \in Seq(Item)
                         /\ Elements(Cleared(q, id, v)) =
                              {x \in Elements(q) : ~(x.id = id /\ x.expected = v)}
           /\ \A accepted :
                 /\ ClearedAccepted(q, accepted) \in Seq(Item)
                 /\ Elements(ClearedAccepted(q, accepted)) =
                      {x \in Elements(q) : \A a \in Elements(accepted) :
                         ~(x.id = a.id /\ x.expected = a.version - 1)}
<1>1. \A S : Only(q, S) \in Seq(Item) /\ Elements(Only(q, S)) = Elements(q) \cap S
  BY OnlyElements
<1>2. QED
  BY <1>1 DEF Cleared, ClearedAccepted, Clears

\* The first item of those sent that has the id.
LEMMA FirstItem ==
    ASSUME NEW sent \in Seq(Item), NEW id, \E i \in Elements(sent) : i.id = id
    PROVE  LET item == Head(Only(sent, {i \in Elements(sent) : i.id = id}))
           IN item \in Elements(sent) /\ item \in Item /\ item.id = id
<1> DEFINE s == Only(sent, {i \in Elements(sent) : i.id = id})
<1>1. s \in Seq(Item) /\ Elements(s) = {i \in Elements(sent) : i.id = id}
  BY OnlyElements
<1> HIDE DEF s
<1>2. s # <<>>
  BY <1>1, ElementsHeadTail
<1>3. Head(s) \in Elements(s) /\ Head(s) \in Item
  BY <1>1, <1>2, ElementsHeadTail
<1>4. QED
  BY <1>1, <1>3 DEF s

-----------------------------------------------------------------------------
\* The calls of fullSync.

LEMMA IdleRun == Idle \in Run /\ Shape(Idle) /\ Elements(<<>>) = {}
<1>1. Elements(<<>>) = {}
  BY DEF Elements
<1>2. NoRows \in [Ids -> Row] /\ <<>> \in Seq(Item) /\ <<>> \in Seq(Verdict)
  BY DEF NoRows, Row
<1>3. Idle \in Run
  BY <1>2 DEF Idle, Run, Phases
<1>4. Shape(Idle)
  BY <1>1 DEF Idle, Shape, InConflict
<1>5. QED
  BY <1>1, <1>3, <1>4

LEMMA ResolvingRun ==
    ASSUME NEW x \in Run, x.repo \in Repos,
           \A v \in Elements(x.conflicts) : \E i \in Elements(x.sent) : i.id = v.id
    PROVE  Resolving(x) \in Run /\ Shape(Resolving(x))
<1> DEFINE y == Resolving(x)
<1> DEFINE at == IF x.conflicts = <<>> THEN "status" ELSE "resolve"
           sent == IF x.conflicts = <<>> THEN <<>> ELSE x.sent
<1>1. y = [Idle EXCEPT !.at = at, !.repo = x.repo, !.conflicts = x.conflicts, !.sent = sent]
  BY DEF Resolving
<1>2. /\ at \in Phases /\ x.repo \in Repos \cup {None} /\ x.conflicts \in Seq(Verdict)
      /\ sent \in Seq(Item)
      /\ at = "resolve" => x.conflicts # <<>> /\ sent = x.sent
      /\ x.conflicts = <<>> \/ sent = x.sent
      /\ at \in {"status", "resolve"}
  BY DEF Run, Phases
<1> HIDE DEF at, sent
<1>3. y \in Run /\ y.at = at /\ y.repo = x.repo /\ y.conflicts = x.conflicts /\ y.sent = sent
  BY <1>1, <1>2, IdleRun DEF Run
<1>4. Shape(y)
  BY <1>2, <1>3, IdleRun DEF Shape, InConflict
<1>5. QED
  BY <1>3, <1>4

LEMMA NextConflictRun ==
    ASSUME NEW x \in Run, Shape(x), x.at \in InConflict \cup {"resolved"}
    PROVE  NextConflict(x) \in Run /\ Shape(NextConflict(x))
<1> DEFINE y == [x EXCEPT !.conflicts = Tail(@)]
<1>1. x.conflicts # <<>> /\ x.conflicts \in Seq(Verdict) /\ x.repo \in Repos
  BY DEF Shape, InConflict, Run
<1>2. Tail(x.conflicts) \in Seq(Verdict) /\ Elements(Tail(x.conflicts)) \subseteq Elements(x.conflicts)
  BY <1>1, ElementsHeadTail
<1>3. y \in Run /\ y.conflicts = Tail(x.conflicts) /\ y.sent = x.sent /\ y.repo = x.repo
  BY <1>2 DEF Run
<1> HIDE DEF y
<1>4. Resolving(y) \in Run /\ Shape(Resolving(y))
  BY <1>1, <1>2, <1>3, ResolvingRun DEF Shape
<1>5. QED
  BY <1>4 DEF NextConflict, y

\* One call moves on, the others stay.
LEMMA GotoShape ==
    ASSUME TInv, NEW d \in Devices, NEW k \in Runs, NEW y \in Run, Shape(y), Goto(d, k, y)
    PROVE  /\ sync' \in [Devices -> [Runs -> Run]]
           /\ \A e \in Devices, m \in Runs : Shape(sync'[e][m])
<1>1. sync \in [Devices -> [Runs -> Run]]
  BY DEF TInv, TypeOK
<1>2. sync' \in [Devices -> [Runs -> Run]]
  BY <1>1 DEF Goto
<1>3. \A e \in Devices, m \in Runs :
         sync'[e][m] = IF e = d /\ m = k THEN y ELSE sync[e][m]
  BY <1>1 DEF Goto
<1>4. QED
  BY <1>2, <1>3 DEF TInv

\* The server takes a push.
LEMMA TakingState ==
    ASSUME TypeOK, NEW changes \in Seq(Item)
    PROVE  /\ Taking(changes) \in PushState(Item)
           /\ \A id \in Ids : Grown(records[id], Taking(changes).rows[id])
           /\ \A v \in Elements(Taking(changes).accepted) \cup Elements(Taking(changes).conflicts) :
                 Fits(v, Taking(changes).rows, changes)
<1>1. \A c \in Item : IsChange(c) /\ (c.repo \in Repos => c.repo \in Repos)
  BY DEF Item, IsChange
<1>2. records \in [Ids -> Row] /\ log \in Seq(Item)
  BY DEF TypeOK
<1>3. QED
  BY <1>1, <1>2, PushGrows DEF Taking

LEMMA RaisedVersions ==
    ASSUME NEW versions \in [Repos -> Nat], NEW touched
    PROVE  Raised(versions, touched) \in [Repos -> Nat]
BY DEF Raised

LEMMA TakeTypes ==
    ASSUME TypeOK, NEW changes \in Seq(Item), Take(changes)
    PROVE  /\ records' \in [Ids -> Row] /\ repoVersion' \in [Repos -> Nat] /\ log' \in Seq(Item)
<1>1. Taking(changes) \in PushState(Item)
  BY TakingState
<1>2. QED
  BY <1>1, RaisedVersions DEF Take, TypeOK, PushState

-----------------------------------------------------------------------------
\* The users' changes.

LEMMA MadeTypes ==
    ASSUME TypeOK, Made
    PROVE  /\ now' = now + 1 /\ now \in Nat /\ now' \in 0..MaxOps
           /\ now' \in Blobs /\ now' \in Stamps /\ now' \in Nat
<1>1. now \in Nat /\ now < MaxOps /\ now' = now + 1 /\ MaxOps \in Nat
  BY OpsAssumption DEF TypeOK, Made
<1>2. now' \in 1..MaxOps
  BY <1>1
<1>3. QED
  BY <1>1, <1>2, OpsAssumption

\* One item more waits in the queue of d.
Queued(d, item) ==
    /\ item \in Item
    /\ queue' \in [Devices -> Seq(Item)]
    /\ Elements(queue'[d]) = Elements(queue[d]) \cup {item}
    /\ \A e \in Devices : e # d => queue'[e] = queue[e]

LEMMA QueueAdds ==
    ASSUME TypeOK, Made, NEW d \in Devices, NEW id \in Ids, NEW action \in Actions,
           NEW blob \in Blobs, NEW expected \in Nat, NEW stamp \in Stamps,
           Queue(d, id, action, blob, expected, stamp)
    PROVE  /\ queue' \in [Devices -> Seq(Item)]
           /\ Queued(d, [id |-> id, repo |-> active[d], blob |-> blob, expected |-> expected,
                         stamp |-> stamp, op |-> now', action |-> action])
<1> DEFINE item == [id |-> id, repo |-> active[d], blob |-> blob, expected |-> expected,
                    stamp |-> stamp, op |-> now', action |-> action]
<1>1. item \in Item
  BY MadeTypes DEF TypeOK, Item
<1>2. queue \in [Devices -> Seq(Item)] /\ queue[d] \in Seq(Item)
  BY DEF TypeOK
<1>3. queue' = [queue EXCEPT ![d] = Enqueue(queue[d], item)]
  BY DEF Queue
<1> HIDE DEF item
<1>4. /\ Enqueue(queue[d], item) \in Seq(Item)
      /\ Elements(Enqueue(queue[d], item)) = Elements(queue[d]) \cup {item}
  BY <1>1, <1>2, EnqueueElements
<1>5. Queued(d, item)
  BY <1>1, <1>2, <1>3, <1>4 DEF Queued
<1>6. QED
  BY <1>5 DEF item, Queued

LEMMA AddTypes == ASSUME TInv, NEW d \in Devices, NEW id \in Ids, Add(d, id) PROVE TInv'
<1>1. TypeOK /\ Made
  BY DEF TInv, Add
<1>2. "create" \in Actions /\ 0 \in Nat
  BY DEF Actions
<1>3. queue' \in [Devices -> Seq(Item)]
  BY <1>1, <1>2, MadeTypes, QueueAdds DEF Add
<1>4. [blob |-> now', version |-> 0, created |-> now'] \in Account
  BY <1>1, <1>2, MadeTypes DEF Account
<1>5. accounts' \in [Devices -> [Ids -> Account \cup {None}]]
  BY <1>1, <1>4 DEF TypeOK, Add
<1>6. QED
  BY <1>1, <1>3, <1>5, MadeTypes DEF TInv, TypeOK, Add, server

\* A draft is an account being edited.
LEMMA DraftTypes ==
    ASSUME TypeOK, NEW d \in Devices, draft[d] # None
    PROVE  /\ draft[d] \in [id : Ids, account : Account]
           /\ draft[d].id \in Ids /\ draft[d].account \in Account
           /\ draft[d].account.version \in Nat /\ draft[d].account.created \in Stamps
           /\ draft[d].account # None
<1>1. draft[d] \in [id : Ids, account : Account]
  BY DEF TypeOK
<1>2. draft[d].id \in Ids /\ draft[d].account \in Account
  BY <1>1
<1>3. QED
  BY <1>1, <1>2, NullAssumption DEF Account

LEMMA EditTypes ==
    ASSUME TInv, NEW d \in Devices,
           (\E id \in Ids : OpenEdit(d, id)) \/ RefreshEdit(d)
    PROVE  TInv'
<1>1. accounts[d] \in [Ids -> Account \cup {None}] /\ TypeOK
  BY DEF TInv, TypeOK
<1>2. draft' \in [Devices -> [id : Ids, account : Account] \cup {None}]
  <2>1. ASSUME NEW id \in Ids, OpenEdit(d, id) PROVE draft' \in [Devices -> [id : Ids, account : Account] \cup {None}]
    <3>1. [id |-> id, account |-> accounts[d][id]] \in [id : Ids, account : Account]
      BY <1>1, <2>1 DEF OpenEdit
    <3>2. QED
      BY <1>1, <2>1, <3>1 DEF OpenEdit, TypeOK
  <2>2. ASSUME RefreshEdit(d) PROVE draft' \in [Devices -> [id : Ids, account : Account] \cup {None}]
    <3> DEFINE row == accounts[d][draft[d].id]
    <3>1. draft[d] \in [id : Ids, account : Account] /\ row \in Account \cup {None}
      BY <1>1, <2>2, DraftTypes DEF RefreshEdit
    <3>2. row # None => [draft[d] EXCEPT !.account = row] \in [id : Ids, account : Account]
      BY <3>1
    <3>3. draft' = [draft EXCEPT ![d] = IF row = None THEN None ELSE [draft[d] EXCEPT !.account = row]]
      BY <2>2 DEF RefreshEdit
    <3> HIDE DEF row
    <3>4. QED
      BY <1>1, <3>2, <3>3 DEF TypeOK
  <2>3. QED
    BY <2>1, <2>2
<1>3. UNCHANGED <<server, accounts, queue, cursor, active, sync, late, now>>
  BY DEF OpenEdit, RefreshEdit
<1>4. QED
  BY <1>2, <1>3 DEF TInv, TypeOK, server

LEMMA SaveEditTypes == ASSUME TInv, NEW d \in Devices, SaveEdit(d) PROVE TInv'
<1> DEFINE id == draft[d].id
           old == draft[d].account
           isUpdate == accounts[d][id] # None
           action == IF isUpdate THEN "update" ELSE "create"
           expected == IF isUpdate THEN old.version ELSE 0
<1>1. TypeOK /\ Made /\ draft[d] # None
  BY DEF TInv, SaveEdit
<1>2. id \in Ids /\ old \in Account /\ old.version \in Nat /\ old.created \in Stamps
  BY <1>1, DraftTypes
<1>3. action \in Actions /\ expected \in Nat
  BY <1>2 DEF Actions
<1>4. queue' \in [Devices -> Seq(Item)]
  <2>1. Queue(d, id, action, now', expected, old.created)
    BY DEF SaveEdit
  <2> HIDE DEF id, old, isUpdate, action, expected
  <2>2. QED
    BY <1>1, <1>2, <1>3, <2>1, MadeTypes, QueueAdds
<1>5. [old EXCEPT !.blob = now'] \in Account
  BY <1>1, <1>2, MadeTypes DEF Account
<1>6. accounts' = [accounts EXCEPT ![d][id] = [old EXCEPT !.blob = now']]
  BY DEF SaveEdit
<1>7. draft' = [draft EXCEPT ![d] = None]
      /\ UNCHANGED <<server, cursor, active, sync, late>>
  BY DEF SaveEdit
<1> HIDE DEF id, old
<1>8. accounts' \in [Devices -> [Ids -> Account \cup {None}]]
  BY <1>1, <1>2, <1>5, <1>6 DEF TypeOK
<1>9. draft' \in [Devices -> [id : Ids, account : Account] \cup {None}]
  BY <1>1, <1>7 DEF TypeOK
<1>10. QED
  BY <1>1, <1>4, <1>7, <1>8, <1>9, MadeTypes DEF TInv, TypeOK, server

LEMMA DeleteTypes == ASSUME TInv, NEW d \in Devices, NEW id \in Ids, Delete(d, id) PROVE TInv'
<1> DEFINE old == accounts[d][id]
<1>1. TypeOK /\ Made /\ old # None
  BY DEF TInv, Delete
<1>2. old \in Account /\ old.blob \in Blobs /\ old.version \in Nat
  BY <1>1 DEF TypeOK, Account
<1>3. Queue(d, id, "delete", old.blob, old.version, now')
  BY DEF Delete
<1>4. "delete" \in Actions
  BY DEF Actions
<1> HIDE DEF old
<1>5. queue' \in [Devices -> Seq(Item)]
  BY <1>1, <1>2, <1>3, <1>4, MadeTypes, QueueAdds
<1>6. /\ accounts' = [accounts EXCEPT ![d][id] = None]
      /\ draft' = [draft EXCEPT ![d] = None]
      /\ UNCHANGED <<server, cursor, active, sync, late>>
  BY DEF Delete
<1>7. /\ accounts' \in [Devices -> [Ids -> Account \cup {None}]]
      /\ draft' \in [Devices -> [id : Ids, account : Account] \cup {None}]
  BY <1>1, <1>6 DEF TypeOK
<1>8. QED
  BY <1>1, <1>5, <1>6, <1>7, MadeTypes DEF TInv, TypeOK, server

LEMMA SwitchRepoTypes ==
    ASSUME TInv, NEW d \in Devices, NEW p \in Repos, SwitchRepo(d, p) PROVE TInv'
<1>1. TypeOK /\ Made
  BY DEF TInv, SwitchRepo
<1>2. active' \in [Devices -> Repos \cup {None}]
  BY <1>1 DEF SwitchRepo, TypeOK
<1>3. QED
  BY <1>1, <1>2, MadeTypes DEF TInv, TypeOK, SwitchRepo, server

LEMMA CrashTypes == ASSUME TInv, NEW d \in Devices, Crash(d) PROVE TInv'
<1>1. TypeOK /\ UNCHANGED <<server, accounts, queue, cursor, active, late, now>>
  BY DEF TInv, Crash
<1>2. draft' \in [Devices -> [id : Ids, account : Account] \cup {None}]
  BY <1>1 DEF Crash, TypeOK
<1>3. [k \in Runs |-> Idle] \in [Runs -> Run]
  BY IdleRun
<1>4. sync' \in [Devices -> [Runs -> Run]]
  BY <1>1, <1>3 DEF Crash, TypeOK
<1>5. \A e \in Devices, k \in Runs : sync'[e][k] = IF e = d THEN Idle ELSE sync[e][k]
  BY <1>1 DEF Crash, TypeOK
<1>6. \A e \in Devices, k \in Runs : Shape(sync'[e][k])
  BY <1>5, IdleRun DEF TInv
<1>7. QED
  BY <1>1, <1>2, <1>4, <1>6 DEF TInv, TypeOK, server

LEMMA TombstoneTypes == ASSUME TInv, NEW id \in Ids, Tombstone(id) PROVE TInv'
<1>1. TypeOK /\ Made /\ records[id] \in Record
  BY DEF TInv, Tombstone, TypeOK, Row
<1>2. Tombstoned(records[id]) \in Record
  <2>1. records[id].version + 1 \in Version
    BY <1>1 DEF Record, Version
  <2>2. QED
    BY <1>1, <2>1 DEF Record, Tombstoned
<1>3. records' \in [Ids -> Row]
  BY <1>1, <1>2 DEF Tombstone, TypeOK, Row
<1>4. repoVersion' \in [Repos -> Nat]
  BY <1>1, RaisedVersions DEF Tombstone, TypeOK
<1>5. QED
  BY <1>1, <1>3, <1>4, MadeTypes DEF TInv, TypeOK, Tombstone

LEMMA GotoSelf ==
    ASSUME TInv, NEW d \in Devices, NEW k \in Runs, NEW z, Goto(d, k, z)
    PROVE  /\ sync'[d][k] = z
           /\ \A e \in Devices, m \in Runs : e # d \/ m # k => sync'[e][m] = sync[e][m]
BY DEF Goto, TInv, TypeOK

LEMMA StepGoto ==
    ASSUME NEW d, NEW k, NEW phase, NEW z, Step(d, k, phase, z)
    PROVE  Goto(d, k, [z EXCEPT !.at = phase])
BY DEF Step, Goto

-----------------------------------------------------------------------------
\* The server and the replies.

LEMMA StepShape ==
    ASSUME TInv, NEW d \in Devices, NEW k \in Runs, NEW phase, NEW x,
           [x EXCEPT !.at = phase] \in Run, Shape([x EXCEPT !.at = phase]), Step(d, k, phase, x)
    PROVE  /\ sync' \in [Devices -> [Runs -> Run]]
           /\ \A e \in Devices, m \in Runs : Shape(sync'[e][m])
BY GotoShape, StepGoto

LEMMA ServePushTypes ==
    ASSUME TInv, NEW d \in Devices, NEW k \in Runs, ServePush(d, k) PROVE TInv'
<1> DEFINE x == sync[d][k]
           changes == IF x.at = "push" THEN x.sent ELSE x.retry
           reply == Taking(changes)
<1>1. TypeOK /\ x \in Run /\ Shape(x)
  BY DEF TInv, TypeOK
<1>2. changes \in Seq(Item)
  BY <1>1 DEF Run
<1>3. /\ x.at \in {"push", "retry"} /\ Take(changes)
      /\ UNCHANGED <<accounts, queue, cursor, active, draft, late, now>>
  BY DEF ServePush
<1>4. records' \in [Ids -> Row] /\ repoVersion' \in [Repos -> Nat] /\ log' \in Seq(Item)
  BY <1>1, <1>2, <1>3, TakeTypes
<1>5. /\ reply.accepted \in Seq(Verdict) /\ reply.conflicts \in Seq(Verdict)
      /\ \A v \in Elements(reply.conflicts) : \E i \in Elements(changes) : i.id = v.id
  BY <1>1, <1>2, TakingState DEF PushState, Fits
<1>6. /\ sync' \in [Devices -> [Runs -> Run]]
      /\ \A e \in Devices, m \in Runs : Shape(sync'[e][m])
  <2>1. CASE x.at = "push"
    <3> DEFINE y == [x EXCEPT !.accepted = reply.accepted, !.conflicts = reply.conflicts]
    <3>1. Step(d, k, "pushed", y)
      BY <2>1 DEF ServePush
    <3>2. changes = x.sent
      BY <2>1
    <3> HIDE DEF reply, changes
    <3>3. [y EXCEPT !.at = "pushed"] \in Run
      BY <1>1, <1>5 DEF Run, Phases
    <3>4. Shape([y EXCEPT !.at = "pushed"])
      BY <1>1, <1>5, <2>1, <3>2 DEF Shape, InConflict, Run
    <3>5. QED
      BY <3>1, <3>3, <3>4, StepShape
  <2>2. CASE x.at = "retry"
    <3> DEFINE y == [x EXCEPT !.accepted = reply.accepted, !.retry = <<>>]
    <3>1. Step(d, k, "retried", y)
      BY <2>2 DEF ServePush
    <3> HIDE DEF reply, changes
    <3>2. [y EXCEPT !.at = "retried"] \in Run
      <4>1. <<>> \in Seq(Item)
        OBVIOUS
      <4>2. QED
        BY <1>1, <1>5, <4>1 DEF Run, Phases
    <3>3. Shape([y EXCEPT !.at = "retried"])
      BY <1>1, <2>2 DEF Shape, InConflict, Run
    <3>4. QED
      BY <3>1, <3>2, <3>3, StepShape
  <2>3. QED
    BY <1>3, <2>1, <2>2
<1>7. QED
  BY <1>1, <1>3, <1>4, <1>6 DEF TInv, TypeOK

LEMMA ServeLateTypes == ASSUME TInv, ServeLate PROVE TInv'
<1>1. PICK changes \in late : Take(changes) /\ late' = late \ {changes}
  BY DEF ServeLate
<1>2. TypeOK /\ changes \in Seq(Item)
  BY DEF TInv, TypeOK
<1>3. records' \in [Ids -> Row] /\ repoVersion' \in [Repos -> Nat] /\ log' \in Seq(Item)
  BY <1>1, <1>2, TakeTypes
<1>4. QED
  BY <1>1, <1>2, <1>3 DEF TInv, TypeOK, ServeLate

LEMMA RowsTypes ==
    ASSUME TypeOK, NEW p, NEW since
    PROVE  /\ Rows(p, since) \in [Ids -> Row]
           /\ \A id \in Ids : Rows(p, since)[id] \in {None, records[id]}
BY DEF Rows, TypeOK, Row

LEMMA ServePullTypes ==
    ASSUME TInv, NEW d \in Devices, NEW k \in Runs, ServePull(d, k) PROVE TInv'
<1> DEFINE x == sync[d][k]
<1>1. TypeOK /\ x \in Run /\ Shape(x)
  BY DEF TInv, TypeOK
<1>2. UNCHANGED <<server, accounts, queue, cursor, active, draft, late, now>>
  BY DEF ServePull
<1>3. /\ sync' \in [Devices -> [Runs -> Run]]
      /\ \A e \in Devices, m \in Runs : Shape(sync'[e][m])
  <2>1. CASE x.at = "resolve"
    <3> DEFINE rows == Rows(x.repo, Head(x.conflicts).version - 1)
               y == [x EXCEPT !.rows = rows]
    <3>1. Step(d, k, "resolved", y)
      BY <2>1 DEF ServePull
    <3>2. rows \in [Ids -> Row]
      BY <1>1, RowsTypes
    <3> HIDE DEF rows
    <3>3. [y EXCEPT !.at = "resolved"] \in Run /\ Shape([y EXCEPT !.at = "resolved"])
      BY <1>1, <2>1, <3>2 DEF Run, Phases, Shape, InConflict
    <3>4. QED
      BY <3>1, <3>3, StepShape
  <2>2. CASE x.at = "pull"
    <3> DEFINE rows == Rows(x.repo, x.version)
               y == [x EXCEPT !.rows = rows, !.version = 0]
    <3>1. Step(d, k, "pulling", y)
      BY <2>2 DEF ServePull
    <3>2. rows \in [Ids -> Row]
      BY <1>1, RowsTypes
    <3> HIDE DEF rows
    <3>3. [y EXCEPT !.at = "pulling"] \in Run /\ Shape([y EXCEPT !.at = "pulling"])
      BY <1>1, <2>2, <3>2 DEF Run, Phases, Shape, InConflict
    <3>4. QED
      BY <3>1, <3>3, StepShape
  <2>3. CASE x.at \in {"status", "pulling"}
    <3> DEFINE phase == IF x.at = "status" THEN "statused" ELSE "pulled"
               y == [x EXCEPT !.version = repoVersion[x.repo]]
    <3>1. Step(d, k, phase, y)
      BY <2>3 DEF ServePull
    <3>2. repoVersion[x.repo] \in Nat
      BY <1>1, <2>3 DEF TypeOK, Shape
    <3>3. phase \in {"statused", "pulled"}
      OBVIOUS
    <3> HIDE DEF phase
    <3>4. [y EXCEPT !.at = phase] \in Run /\ Shape([y EXCEPT !.at = phase])
      BY <1>1, <2>3, <3>2, <3>3 DEF Run, Phases, Shape, InConflict
    <3>5. QED
      BY <3>1, <3>4, StepShape
  <2>4. QED
    BY <2>1, <2>2, <2>3 DEF ServePull
<1>4. QED
  BY <1>1, <1>2, <1>3 DEF TInv, TypeOK, server

-----------------------------------------------------------------------------
\* SyncService.

LEMMA StartTypes == ASSUME TInv, NEW d \in Devices, NEW k \in Runs, Start(d, k) PROVE TInv'
<1> DEFINE queued == Only(queue[d], {x \in Elements(queue[d]) : x.repo = active[d]})
           at == IF queued = <<>> THEN "status" ELSE "push"
           y == [Idle EXCEPT !.at = at, !.repo = active[d], !.sent = queued]
<1>1. TypeOK /\ queue[d] \in Seq(Item) /\ active[d] \in Repos
  BY DEF TInv, TypeOK, Start
<1>2. queued \in Seq(Item)
  BY <1>1, OnlyElements
<1>3. Goto(d, k, y) /\ UNCHANGED <<server, accounts, queue, cursor, active, draft, late, now>>
  BY DEF Start
<1>4. at \in {"status", "push"}
  OBVIOUS
<1>5. y.at = at /\ y.repo = active[d] /\ y.conflicts = <<>>
  BY DEF Idle
<1> HIDE DEF queued, at
<1>6. y \in Run
  BY <1>1, <1>2, <1>4, IdleRun DEF Run, Phases
<1>7. Shape(y)
  BY <1>1, <1>4, <1>5, IdleRun DEF Shape, InConflict
<1>8. /\ sync' \in [Devices -> [Runs -> Run]]
      /\ \A e \in Devices, m \in Runs : Shape(sync'[e][m])
  BY <1>3, <1>6, <1>7, GotoShape
<1>9. QED
  BY <1>1, <1>3, <1>8 DEF TInv, TypeOK, server

\* The items of accepted changes leave the queue.
LEMMA ClearAcceptedTypes ==
    ASSUME TypeOK, NEW d \in Devices, NEW accepted,
           queue' = [queue EXCEPT ![d] = ClearedAccepted(@, accepted)]
    PROVE  queue' \in [Devices -> Seq(Item)]
<1>1. queue \in [Devices -> Seq(Item)] /\ queue[d] \in Seq(Item)
  BY DEF TypeOK
<1>2. ClearedAccepted(queue[d], accepted) \in Seq(Item)
  BY <1>1, ClearedElements
<1>3. QED
  BY <1>1, <1>2

LEMMA OnPushedTypes == ASSUME TInv, NEW d \in Devices, NEW k \in Runs, OnPushed(d, k) PROVE TInv'
<1> DEFINE x == sync[d][k]
<1>1. TypeOK /\ x \in Run /\ Shape(x) /\ x.at = "pushed"
  BY DEF TInv, TypeOK, OnPushed
<1>2. Resolving(x) \in Run /\ Shape(Resolving(x))
  BY <1>1, ResolvingRun DEF Shape
<1>3. /\ Goto(d, k, Resolving(x)) /\ UNCHANGED <<server, accounts, cursor, active, draft, late, now>>
      /\ queue' = [queue EXCEPT ![d] = ClearedAccepted(@, x.accepted)]
  BY DEF OnPushed
<1> HIDE DEF x
<1>4. /\ sync' \in [Devices -> [Runs -> Run]]
      /\ \A e \in Devices, m \in Runs : Shape(sync'[e][m])
  BY <1>2, <1>3, GotoShape
<1>5. queue' \in [Devices -> Seq(Item)]
  BY <1>1, <1>3, ClearAcceptedTypes
<1>6. QED
  BY <1>1, <1>3, <1>4, <1>5 DEF TInv, TypeOK, server

LEMMA OnRetriedTypes == ASSUME TInv, NEW d \in Devices, NEW k \in Runs, OnRetried(d, k) PROVE TInv'
<1> DEFINE x == sync[d][k]
<1>1. TypeOK /\ x \in Run /\ Shape(x) /\ x.at = "retried"
  BY DEF TInv, TypeOK, OnRetried
<1>2. NextConflict(x) \in Run /\ Shape(NextConflict(x))
  BY <1>1, NextConflictRun DEF InConflict
<1>3. /\ Goto(d, k, NextConflict(x))
      /\ UNCHANGED <<server, accounts, cursor, active, draft, late, now>>
      /\ queue' = [queue EXCEPT ![d] = ClearedAccepted(@, x.accepted)]
  BY DEF OnRetried
<1> HIDE DEF x
<1>4. /\ sync' \in [Devices -> [Runs -> Run]]
      /\ \A e \in Devices, m \in Runs : Shape(sync'[e][m])
  BY <1>2, <1>3, GotoShape
<1>5. queue' \in [Devices -> Seq(Item)]
  BY <1>1, <1>3, ClearAcceptedTypes
<1>6. QED
  BY <1>1, <1>3, <1>4, <1>5 DEF TInv, TypeOK, server

\* The conflict at hand, the row pulled for it and the first item sent for it.
ConflictId(x) == Head(x.conflicts).id
ConflictItem(x) == Head(Only(x.sent, {i \in Elements(x.sent) : i.id = ConflictId(x)}))
Retried(x) == [ConflictItem(x) EXCEPT !.expected = x.rows[ConflictId(x)].version]

LEMMA ConflictTypes ==
    ASSUME NEW x \in Run, Shape(x), x.at = "resolved"
    PROVE  /\ ConflictId(x) \in Ids /\ x.rows[ConflictId(x)] \in Row
           /\ ConflictItem(x) \in Elements(x.sent) /\ ConflictItem(x) \in Item
           /\ ConflictItem(x).id = ConflictId(x)
           /\ x.rows[ConflictId(x)] # None => Retried(x) \in Item
<1>1. x.conflicts \in Seq(Verdict) /\ x.conflicts # <<>> /\ x.sent \in Seq(Item)
  BY DEF Shape, InConflict, Run
<1>2. Head(x.conflicts) \in Elements(x.conflicts) /\ Head(x.conflicts) \in Verdict
  BY <1>1, ElementsHeadTail
<1>3. ConflictId(x) \in Ids /\ \E i \in Elements(x.sent) : i.id = ConflictId(x)
  BY <1>2 DEF ConflictId, Shape, Verdict
<1>4. /\ ConflictItem(x) \in Elements(x.sent) /\ ConflictItem(x) \in Item
      /\ ConflictItem(x).id = ConflictId(x)
  BY <1>1, <1>3, FirstItem DEF ConflictItem
<1>5. x.rows[ConflictId(x)] \in Row
  BY <1>3 DEF Run
<1>6. ASSUME x.rows[ConflictId(x)] # None PROVE Retried(x) \in Item
  <2>1. x.rows[ConflictId(x)].version \in Nat
    BY <1>5, <1>6 DEF Row, Record, Version
  <2>2. QED
    BY <1>4, <2>1 DEF Retried, Item
<1>7. QED
  BY <1>3, <1>4, <1>5, <1>6

\* The three outcomes of a conflict.
LEMMA OnResolvedCases ==
    ASSUME NEW d \in Devices, NEW k \in Runs, OnResolved(d, k)
    PROVE  LET x == sync[d][k]
               rec == x.rows[ConflictId(x)]
           IN /\ x.at = "resolved"
              /\ UNCHANGED <<server, accounts, cursor, active, draft, late, now>>
              /\ \/ rec = None /\ Goto(d, k, NextConflict(x)) /\ UNCHANGED queue
                 \/ /\ rec # None /\ ConflictItem(x).stamp > Seen(d, rec.updated)
                    /\ Step(d, k, "retry", [x EXCEPT !.retry = <<Retried(x)>>, !.rows = NoRows])
                    /\ UNCHANGED queue
                 \/ /\ rec # None /\ Goto(d, k, NextConflict(x))
                    /\ queue' = [queue EXCEPT ![d] = Cleared(@, ConflictId(x), 0)]
BY DEF OnResolved, ConflictId, ConflictItem, Retried

\* The items of a change given up leave the queue, if they expect no record.
LEMMA ClearTypes ==
    ASSUME TypeOK, NEW d \in Devices, NEW id,
           queue' = [queue EXCEPT ![d] = Cleared(@, id, 0)]
    PROVE  /\ queue' \in [Devices -> Seq(Item)]
           /\ \A e \in Devices : Elements(queue'[e]) \subseteq Elements(queue[e])
           /\ \A e \in Devices : \A i \in Elements(queue[e]) :
                 i \in Elements(queue'[e]) \/ (e = d /\ i.id = id /\ i.expected = 0)
<1>1. queue \in [Devices -> Seq(Item)] /\ queue[d] \in Seq(Item)
  BY DEF TypeOK
<1>2. \A e \in Devices : queue'[e] = IF e = d THEN Cleared(queue[d], id, 0) ELSE queue[e]
  BY <1>1
<1>3. /\ Cleared(queue[d], id, 0) \in Seq(Item)
      /\ Elements(Cleared(queue[d], id, 0)) =
           {x \in Elements(queue[d]) : ~(x.id = id /\ x.expected = 0)}
  BY <1>1, ClearedElements
<1>4. QED
  BY <1>1, <1>2, <1>3

LEMMA OnResolvedTypes == ASSUME TInv, NEW d \in Devices, NEW k \in Runs, OnResolved(d, k) PROVE TInv'
<1> DEFINE x == sync[d][k]
           rec == x.rows[ConflictId(x)]
           y == [x EXCEPT !.retry = <<Retried(x)>>, !.rows = NoRows]
<1>1. /\ TypeOK /\ x \in Run /\ Shape(x) /\ x.at = "resolved"
      /\ UNCHANGED <<server, accounts, cursor, active, draft, late, now>>
  <2>1. TypeOK /\ x \in Run /\ Shape(x)
    BY DEF TInv, TypeOK
  <2>2. x.at = "resolved" /\ UNCHANGED <<server, accounts, cursor, active, draft, late, now>>
    BY OnResolvedCases
  <2>3. QED
    BY <2>1, <2>2
<1>2. NextConflict(x) \in Run /\ Shape(NextConflict(x))
  BY <1>1, NextConflictRun
<1>3. \/ Goto(d, k, NextConflict(x))
      \/ rec # None /\ Step(d, k, "retry", y)
  BY OnResolvedCases
<1>4. /\ sync' \in [Devices -> [Runs -> Run]]
      /\ \A e \in Devices, m \in Runs : Shape(sync'[e][m])
  <2>1. CASE Goto(d, k, NextConflict(x))
    BY <1>2, <2>1, GotoShape
  <2>2. CASE rec # None /\ Step(d, k, "retry", y)
    <3>1. <<Retried(x)>> \in Seq(Item) /\ NoRows \in [Ids -> Row]
      BY <1>1, <2>2, ConflictTypes DEF NoRows, Row
    <3>2. [y EXCEPT !.at = "retry"] \in Run /\ Shape([y EXCEPT !.at = "retry"])
      BY <1>1, <3>1 DEF Run, Phases, Shape, InConflict
    <3>3. QED
      BY <2>2, <3>2, StepShape
  <2>3. QED
    BY <1>3, <2>1, <2>2
<1>5. UNCHANGED queue \/ queue' = [queue EXCEPT ![d] = Cleared(@, ConflictId(x), 0)]
  BY OnResolvedCases
<1>6. queue' \in [Devices -> Seq(Item)]
  BY <1>1, <1>5, ClearTypes DEF TypeOK
<1>7. QED
  BY <1>1, <1>4, <1>6 DEF TInv, TypeOK, server

LEMMA OnStatusTypes == ASSUME TInv, NEW d \in Devices, NEW k \in Runs, OnStatus(d, k) PROVE TInv'
<1> DEFINE x == sync[d][k]
           y == [x EXCEPT !.version = cursor[d]]
<1>1. /\ TypeOK /\ x \in Run /\ Shape(x) /\ x.at = "statused" /\ cursor[d] \in Nat
      /\ UNCHANGED <<server, accounts, queue, cursor, active, draft, late, now>>
  BY DEF TInv, TypeOK, OnStatus
<1>2. Goto(d, k, Idle) \/ Step(d, k, "pull", y)
  BY DEF OnStatus
<1>3. /\ sync' \in [Devices -> [Runs -> Run]]
      /\ \A e \in Devices, m \in Runs : Shape(sync'[e][m])
  <2>1. CASE Goto(d, k, Idle)
    BY <2>1, IdleRun, GotoShape
  <2>2. CASE Step(d, k, "pull", y)
    <3>1. [y EXCEPT !.at = "pull"] \in Run /\ Shape([y EXCEPT !.at = "pull"])
      BY <1>1 DEF Run, Phases, Shape, InConflict
    <3>2. QED
      BY <2>2, <3>1, StepShape
  <2>3. QED
    BY <1>2, <2>1, <2>2
<1>4. QED
  BY <1>1, <1>3 DEF TInv, TypeOK, server

LEMMA FailTypes == ASSUME TInv, NEW d \in Devices, NEW k \in Runs, Fail(d, k) PROVE TInv'
<1> DEFINE x == sync[d][k]
           changes == IF x.at = "push" THEN x.sent ELSE x.retry
           y == IF x.at \in InConflict THEN NextConflict(x) ELSE Idle
<1>1. /\ TypeOK /\ x \in Run /\ Shape(x)
      /\ UNCHANGED <<server, accounts, queue, cursor, active, draft, now>>
  BY DEF TInv, TypeOK, Fail
<1>2. y \in Run /\ Shape(y)
  BY <1>1, NextConflictRun, IdleRun
<1>3. Goto(d, k, y) /\ late' \in {late, late \cup {changes}}
  BY DEF Fail
<1>4. changes \in Seq(Item)
  BY <1>1 DEF Run
<1> HIDE DEF y, changes
<1>5. /\ sync' \in [Devices -> [Runs -> Run]]
      /\ \A e \in Devices, m \in Runs : Shape(sync'[e][m])
  BY <1>2, <1>3, GotoShape
<1>6. late' \subseteq Seq(Item)
  BY <1>1, <1>3, <1>4 DEF TypeOK
<1>7. QED
  BY <1>1, <1>5, <1>6 DEF TInv, TypeOK, server

-----------------------------------------------------------------------------
\* The loop over pulled rows: it removes accounts whose row is a tombstone and goes to a
\* row that is none, or ends.
LEMMA AdvanceEffect ==
    ASSUME TInv, NEW d \in Devices, NEW k \in Runs, NEW x \in Run, x.repo \in Repos,
           \A v \in Elements(x.conflicts) : \E i \in Elements(x.sent) : i.id = v.id,
           NEW acc \in [Ids -> Account \cup {None}], Advance(d, k, x, acc)
    PROVE  /\ accounts' \in [Devices -> [Ids -> Account \cup {None}]]
           /\ cursor' \in [Devices -> Nat]
           /\ \A e \in Devices : e # d => accounts'[e] = accounts[e]
           /\ \A id \in Ids : \/ accounts'[d][id] = acc[id]
                              \/ /\ accounts'[d][id] = None
                                 /\ x.rows[id] # None /\ x.rows[id].deleted
           /\ \E y \in Run : /\ Shape(y) /\ Goto(d, k, y)
                             /\ \A id \in Ids : y.rows[id] \in {None, x.rows[id]}
                             /\ Elements(y.accepted) \subseteq Elements(x.accepted)
                             /\ y.sent \in {<<>>, x.sent} /\ y.retry \in {<<>>, x.retry}
<1> DEFINE fresh(id) == x.rows[id] # None
                        /\ (acc[id] # None => acc[id].version < x.rows[id].version)
           live == {id \in Ids : fresh(id) /\ ~x.rows[id].deleted}
           Past(ids) == [id \in Ids |-> IF id \in ids /\ fresh(id) THEN None ELSE acc[id]]
           Before(id) == {o \in Ids \ live : x.rows[o] # None
                                           /\ x.rows[o].version <= x.rows[id].version}
<1>1. ASSUME NEW ids \in SUBSET (Ids \ live), accounts' = [accounts EXCEPT ![d] = Past(ids)]
      PROVE  /\ accounts' \in [Devices -> [Ids -> Account \cup {None}]]
             /\ \A e \in Devices : e # d => accounts'[e] = accounts[e]
             /\ \A id \in Ids : \/ accounts'[d][id] = acc[id]
                                \/ /\ accounts'[d][id] = None
                                   /\ x.rows[id] # None /\ x.rows[id].deleted
  <2>1. Past(ids) \in [Ids -> Account \cup {None}]
    OBVIOUS
  <2>2. \A id \in Ids : \/ Past(ids)[id] = acc[id]
                        \/ Past(ids)[id] = None /\ x.rows[id] # None /\ x.rows[id].deleted
    OBVIOUS
  <2> HIDE DEF Past, live, fresh
  <2>3. accounts \in [Devices -> [Ids -> Account \cup {None}]]
    BY DEF TInv, TypeOK
  <2>4. accounts'[d] = Past(ids) /\ \A e \in Devices : e # d => accounts'[e] = accounts[e]
    BY <1>1, <2>3
  <2>5. QED
    BY <1>1, <2>1, <2>2, <2>3, <2>4
<1>2. CASE /\ live = {}
           /\ accounts' = [accounts EXCEPT ![d] = Past(Ids)]
           /\ cursor' = [cursor EXCEPT ![d] = x.version]
           /\ Goto(d, k, Idle)
  <2>1. Ids \in SUBSET (Ids \ live)
    BY <1>2
  <2>2. cursor' \in [Devices -> Nat]
    BY <1>2 DEF TInv, TypeOK, Run
  <2>3. /\ \A id \in Ids : Idle.rows[id] \in {None, x.rows[id]}
        /\ Elements(Idle.accepted) \subseteq Elements(x.accepted)
        /\ Idle.sent = <<>> /\ Idle.retry = <<>>
    BY IdleRun DEF Idle, NoRows
  <2> HIDE DEF Past, live, fresh
  <2>4. QED
    BY <1>1, <1>2, <2>1, <2>2, <2>3, IdleRun
<1>3. ASSUME NEW id \in live,
             accounts' = [accounts EXCEPT ![d] = Past(Before(id))],
             Step(d, k, "store",
                  [x EXCEPT !.rows = [o \in Ids |-> IF o \in Before(id) THEN None ELSE x.rows[o]],
                            !.row = id]),
             UNCHANGED cursor
      PROVE  /\ cursor' \in [Devices -> Nat]
             /\ Before(id) \in SUBSET (Ids \ live)
             /\ \E y \in Run : /\ Shape(y) /\ Goto(d, k, y)
                               /\ \A o \in Ids : y.rows[o] \in {None, x.rows[o]}
                               /\ Elements(y.accepted) \subseteq Elements(x.accepted)
                               /\ y.sent \in {<<>>, x.sent} /\ y.retry \in {<<>>, x.retry}
  <2> DEFINE rows == [o \in Ids |-> IF o \in Before(id) THEN None ELSE x.rows[o]]
             y == [[x EXCEPT !.rows = rows, !.row = id] EXCEPT !.at = "store"]
  <2>1. id \in Ids /\ id \notin Before(id) /\ x.rows[id] # None /\ ~x.rows[id].deleted
    OBVIOUS
  <2>2. Before(id) \in SUBSET (Ids \ live)
    OBVIOUS
  <2>3. Goto(d, k, y)
    BY <1>3 DEF Step, Goto
  <2>4. cursor' \in [Devices -> Nat]
    BY <1>3 DEF TInv, TypeOK
  <2> HIDE DEF Before, live, Past, fresh
  <2>5. rows \in [Ids -> Row] /\ rows[id] = x.rows[id] /\ \A o \in Ids : rows[o] \in {None, x.rows[o]}
    BY <2>1 DEF Run, Row
  <2> HIDE DEF rows
  <2>6. y \in Run
    BY <2>1, <2>5 DEF Run, Phases
  <2>7. /\ y.at = "store" /\ y.row = id /\ y.rows = rows /\ y.repo = x.repo
        /\ y.conflicts = x.conflicts /\ y.sent = x.sent /\ y.retry = x.retry
        /\ y.accepted = x.accepted
    BY DEF Run
  <2> HIDE DEF y
  <2>8. Shape(y)
    BY <2>1, <2>5, <2>7 DEF Shape, InConflict
  <2>9. \A o \in Ids : y.rows[o] \in {None, x.rows[o]}
    BY <2>5, <2>7
  <2>10. QED
    BY <2>2, <2>3, <2>4, <2>6, <2>7, <2>8, <2>9
<1>4. \/ /\ live = {}
         /\ accounts' = [accounts EXCEPT ![d] = Past(Ids)]
         /\ cursor' = [cursor EXCEPT ![d] = x.version]
         /\ Goto(d, k, Idle)
      \/ \E id \in live :
           /\ accounts' = [accounts EXCEPT ![d] = Past(Before(id))]
           /\ Step(d, k, "store",
                   [x EXCEPT !.rows = [o \in Ids |-> IF o \in Before(id) THEN None ELSE x.rows[o]],
                             !.row = id])
           /\ UNCHANGED cursor
  BY DEF Advance
<1> HIDE DEF Past, live, fresh, Before
<1>5. ASSUME NEW id \in live,
             accounts' = [accounts EXCEPT ![d] = Past(Before(id))],
             Step(d, k, "store",
                  [x EXCEPT !.rows = [o \in Ids |-> IF o \in Before(id) THEN None ELSE x.rows[o]],
                            !.row = id]),
             UNCHANGED cursor
      PROVE  /\ accounts' \in [Devices -> [Ids -> Account \cup {None}]]
             /\ \A e \in Devices : e # d => accounts'[e] = accounts[e]
             /\ \A o \in Ids : \/ accounts'[d][o] = acc[o]
                               \/ /\ accounts'[d][o] = None
                                  /\ x.rows[o] # None /\ x.rows[o].deleted
  <2>1. Before(id) \in SUBSET (Ids \ live)
    BY <1>3, <1>5
  <2>2. QED
    BY <1>1, <1>5, <2>1
<1>6. QED
  BY <1>2, <1>3, <1>4, <1>5

LEMMA OnPulledTypes == ASSUME TInv, NEW d \in Devices, NEW k \in Runs, OnPulled(d, k) PROVE TInv'
<1> DEFINE x == sync[d][k]
<1>1. /\ TypeOK /\ x \in Run /\ Shape(x) /\ x.repo \in Repos
      /\ accounts[d] \in [Ids -> Account \cup {None}]
      /\ \A v \in Elements(x.conflicts) : \E i \in Elements(x.sent) : i.id = v.id
  BY DEF TInv, TypeOK, OnPulled, Shape
<1>2. Advance(d, k, x, accounts[d]) /\ UNCHANGED <<server, queue, active, draft, late, now>>
  BY DEF OnPulled
<1> HIDE DEF x
<1>3. /\ accounts' \in [Devices -> [Ids -> Account \cup {None}]]
      /\ cursor' \in [Devices -> Nat]
      /\ \E y \in Run : Shape(y) /\ Goto(d, k, y)
  BY <1>1, <1>2, AdvanceEffect
<1>4. /\ sync' \in [Devices -> [Runs -> Run]]
      /\ \A e \in Devices, m \in Runs : Shape(sync'[e][m])
  BY <1>3, GotoShape
<1>5. QED
  BY <1>1, <1>2, <1>3, <1>4 DEF TInv, TypeOK, server

\* The account a decrypted row becomes, and the call without the row.
Stored(d, rec) == [blob |-> rec.blob, version |-> rec.version, created |-> Seen(d, rec.created)]
WithoutRow(x) == [x EXCEPT !.rows[x.row] = None, !.row = None]

LEMMA StoreRowEffect ==
    ASSUME TInv, NEW d \in Devices, NEW k \in Runs, StoreRow(d, k)
    PROVE  LET x == sync[d][k]
               rec == x.rows[x.row]
           IN /\ x.row \in Ids /\ rec # None /\ rec \in Record /\ ~rec.deleted
              /\ Stored(d, rec) \in Account
              /\ WithoutRow(x) \in Run /\ WithoutRow(x).repo \in Repos
              /\ \A v \in Elements(WithoutRow(x).conflicts) :
                    \E i \in Elements(WithoutRow(x).sent) : i.id = v.id
              /\ \A id \in Ids : WithoutRow(x).rows[id] \in {None, x.rows[id]}
              /\ WithoutRow(x).accepted = x.accepted /\ WithoutRow(x).sent = x.sent
              /\ WithoutRow(x).retry = x.retry
              /\ [accounts[d] EXCEPT ![x.row] = Stored(d, rec)] \in [Ids -> Account \cup {None}]
              /\ Advance(d, k, WithoutRow(x), [accounts[d] EXCEPT ![x.row] = Stored(d, rec)])
              /\ UNCHANGED <<server, queue, active, draft, late, now>>
<1> DEFINE x == sync[d][k]
           rec == x.rows[x.row]
<1>1. /\ x \in Run /\ Shape(x) /\ x.at = "store" /\ accounts[d] \in [Ids -> Account \cup {None}]
  BY DEF TInv, TypeOK, StoreRow
<1>2. /\ Advance(d, k, WithoutRow(x), [accounts[d] EXCEPT ![x.row] = Stored(d, rec)])
      /\ UNCHANGED <<server, queue, active, draft, late, now>>
  BY DEF StoreRow, Stored, WithoutRow
<1> HIDE DEF x
<1>3. x.row \in Ids /\ rec # None /\ ~rec.deleted /\ x.repo \in Repos
  BY <1>1 DEF Shape
<1>4. rec \in Record
  BY <1>1, <1>3 DEF Run, Row
<1>5. Seen(d, rec.created) \in Stamps
  BY <1>4, OpsAssumption, OffsetAssumption DEF Seen, Record
<1>6. Stored(d, rec) \in Account
  BY <1>4, <1>5 DEF Stored, Account, Record, Version
<1>7. /\ WithoutRow(x).repo = x.repo /\ WithoutRow(x).conflicts = x.conflicts
      /\ WithoutRow(x).sent = x.sent /\ WithoutRow(x).accepted = x.accepted
      /\ WithoutRow(x).retry = x.retry
      /\ WithoutRow(x).rows = [x.rows EXCEPT ![x.row] = None]
  BY <1>1 DEF WithoutRow, Run
<1>8. x.rows \in [Ids -> Row]
  BY <1>1 DEF Run
<1>9. /\ [x.rows EXCEPT ![x.row] = None] \in [Ids -> Row]
      /\ \A id \in Ids : [x.rows EXCEPT ![x.row] = None][id] \in {None, x.rows[id]}
  BY <1>8 DEF Row
<1>10. WithoutRow(x) \in Run
  BY <1>1, <1>9 DEF WithoutRow, Run
<1>11. [accounts[d] EXCEPT ![x.row] = Stored(d, rec)] \in [Ids -> Account \cup {None}]
  BY <1>1, <1>6
<1>12. \A v \in Elements(x.conflicts) : \E i \in Elements(x.sent) : i.id = v.id
  BY <1>1 DEF Shape
<1>13. /\ \A v \in Elements(WithoutRow(x).conflicts) : \E i \in Elements(WithoutRow(x).sent) : i.id = v.id
       /\ \A id \in Ids : WithoutRow(x).rows[id] \in {None, x.rows[id]}
       /\ WithoutRow(x).repo \in Repos
  BY <1>3, <1>7, <1>9, <1>12
<1>14. QED
  BY <1>2, <1>3, <1>4, <1>6, <1>7, <1>10, <1>11, <1>13, Zenon DEF x

LEMMA StoreRowTypes == ASSUME TInv, NEW d \in Devices, NEW k \in Runs, StoreRow(d, k) PROVE TInv'
<1> DEFINE x == WithoutRow(sync[d][k])
           acc == [accounts[d] EXCEPT ![sync[d][k].row] =
                     Stored(d, sync[d][k].rows[sync[d][k].row])]
<1>1. /\ x \in Run /\ x.repo \in Repos
      /\ \A v \in Elements(x.conflicts) : \E i \in Elements(x.sent) : i.id = v.id
      /\ acc \in [Ids -> Account \cup {None}] /\ Advance(d, k, x, acc)
      /\ UNCHANGED <<server, queue, active, draft, late, now>>
  BY StoreRowEffect
<1> HIDE DEF x, acc
<1>2. /\ accounts' \in [Devices -> [Ids -> Account \cup {None}]]
      /\ cursor' \in [Devices -> Nat]
      /\ \E y \in Run : Shape(y) /\ Goto(d, k, y)
  BY <1>1, AdvanceEffect
<1>3. /\ sync' \in [Devices -> [Runs -> Run]]
      /\ \A e \in Devices, m \in Runs : Shape(sync'[e][m])
  BY <1>2, GotoShape
<1>4. QED
  BY <1>1, <1>2, <1>3 DEF TInv, TypeOK, server

-----------------------------------------------------------------------------
LEMMA InitTypes == ASSUME Init PROVE TInv
<1>1. NoRows \in [Ids -> Row] /\ NoRows \in [Ids -> Account \cup {None}] /\ <<>> \in Seq(Item)
  BY DEF NoRows, Row
<1>2. [k \in Runs |-> Idle] \in [Runs -> Run]
  BY IdleRun
<1>3. sync \in [Devices -> [Runs -> Run]] /\ \A d \in Devices, k \in Runs : Shape(sync[d][k])
  BY <1>2, IdleRun DEF Init
<1>4. active \in [Devices -> Repos \cup {None}]
  BY DefaultAssumption DEF Init
<1>5. /\ records \in [Ids -> Row] /\ repoVersion \in [Repos -> Nat]
      /\ accounts \in [Devices -> [Ids -> Account \cup {None}]]
      /\ queue \in [Devices -> Seq(Item)] /\ cursor \in [Devices -> Nat]
      /\ draft \in [Devices -> [id : Ids, account : Account] \cup {None}]
      /\ late \subseteq Seq(Item) /\ now \in 0..MaxOps /\ log \in Seq(Item)
  BY <1>1, OpsAssumption DEF Init
<1>6. QED
  BY <1>3, <1>4, <1>5 DEF TInv, TypeOK

LEMMA NextTypes == ASSUME TInv, [Next]_vars PROVE TInv'
<1>1. CASE UNCHANGED vars
  BY <1>1 DEF TInv, TypeOK, vars, server
<1>2. ASSUME NEW d \in Devices, User(d) PROVE TInv'
  BY <1>2, AddTypes, EditTypes, SaveEditTypes, DeleteTypes, SwitchRepoTypes, CrashTypes DEF User
<1>3. ASSUME NEW d \in Devices, NEW k \in Runs,
             Start(d, k) \/ Device(d, k) \/ Server(d, k) \/ Fail(d, k)
      PROVE  TInv'
  BY <1>3, StartTypes, OnPushedTypes, OnResolvedTypes, OnRetriedTypes, OnStatusTypes,
     OnPulledTypes, StoreRowTypes, ServePushTypes, ServePullTypes, FailTypes DEF Device, Server
<1>4. QED
  BY <1>1, <1>2, <1>3, ServeLateTypes, TombstoneTypes DEF Next

(***************************************************************************)
(* Every state of the devices and the server has its type, and every call  *)
(* of fullSync has what its next step needs: a conflict at hand has an     *)
(* item that was sent, a row to be stored is there and is no tombstone.    *)
(***************************************************************************)
THEOREM SystemTypes == Spec => []TInv
<1>1. Init => TInv
  BY InitTypes
<1>2. TInv /\ [Next]_vars => TInv'
  BY NextTypes
<1>3. QED
  BY <1>1, <1>2, PTL DEF Spec

(***************************************************************************)
(* The type invariant of the devices and the server, as the runs check it. *)
(***************************************************************************)
THEOREM SystemTypeOK == Spec => []TypeOK
<1>1. TInv => TypeOK
  BY DEF TInv
<1>2. QED
  BY <1>1, SystemTypes, PTL

-----------------------------------------------------------------------------
(***************************************************************************)
(* The invariant behind VersionVouchesForContent: nothing a device holds   *)
(* of a record (an account, a draft, a pulled row, a verdict) is ahead of  *)
(* the server, and what has the server's version is not a tombstone there. *)
(***************************************************************************)
Follows(h, rec) ==
    IF rec = None THEN h.version = 0
    ELSE h.version <= rec.version /\ (h.version = rec.version => ~rec.deleted)

AccountsFollow ==
    \A d \in Devices, id \in Ids :
        accounts[d][id] # None => Follows(accounts[d][id], records[id])

\* An account that is edited is there, or was removed by a tombstone.
DraftsFollow ==
    \A d \in Devices : draft[d] # None =>
        /\ Follows(draft[d].account, records[draft[d].id])
        /\ accounts[d][draft[d].id] = None =>
              records[draft[d].id] # None /\ records[draft[d].id].deleted

Reached(v) == records[v.id] # None /\ v.version <= records[v.id].version

RepliesFollow ==
    \A d \in Devices, k \in Runs :
        /\ \A id \in Ids : Grown(sync[d][k].rows[id], records[id])
        /\ \A v \in Elements(sync[d][k].accepted) : Reached(v)

\* The account's content is the record's, or its change is queued under this version.
Vouched(d, id) ==
    LET local == accounts[d][id] IN
    local # None /\ records[id] # None /\ local.version = records[id].version =>
        \/ local.blob = records[id].blob
        \/ \E item \in Elements(queue[d]) : item.id = id /\ item.expected = local.version

VInv ==
    /\ AccountsFollow /\ DraftsFollow /\ RepliesFollow
    /\ \A d \in Devices, id \in Ids : Vouched(d, id)

LEMMA VouchesFollows == VInv => VersionVouchesForContent
BY DEF VInv, AccountsFollow, Follows, Vouched, VersionVouchesForContent

LEMMA GrownTransitive ==
    ASSUME NEW a \in Row, NEW b \in Row, NEW c \in Row, Grown(a, b), Grown(b, c)
    PROVE  Grown(a, c)
<1>1. CASE a = None
  BY <1>1 DEF Grown
<1>2. CASE a # None
  <2>1. b # None /\ c # None
    BY <1>2 DEF Grown
  <2>2. a.version \in Nat /\ b.version \in Nat /\ c.version \in Nat
    BY <1>2, <2>1 DEF Row, Record, Version
  <2>3. QED
    BY <1>2, <2>1, <2>2 DEF Grown
<1>3. QED
  BY <1>1, <1>2

LEMMA GrownReflexive == ASSUME NEW a \in Row PROVE Grown(a, a) /\ Grown(None, a)
BY DEF Grown, Row, Record, Version

\* A copy that follows a record still does when the record has grown.
LEMMA FollowsGrown ==
    ASSUME NEW old \in Row, NEW new \in Row, Grown(old, new),
           NEW h, h.version \in Nat, Follows(h, old)
    PROVE  /\ Follows(h, new)
           /\ new # None /\ h.version = new.version => new = old
<1>1. /\ old # None => old.version \in Nat
      /\ new # None => new.version \in Nat /\ new.version # 0
  BY DEF Row, Record, Version
<1>2. QED
  BY <1>1 DEF Follows, Grown

LEMMA AccountTypes ==
    ASSUME TypeOK, NEW d \in Devices, NEW id \in Ids, accounts[d][id] # None
    PROVE  /\ accounts[d][id] \in Account /\ accounts[d][id].version \in Nat
           /\ accounts[d][id].created \in Stamps
<1>1. accounts[d][id] \in Account
  BY DEF TypeOK
<1>2. QED
  BY <1>1 DEF Account

-----------------------------------------------------------------------------
\* The server changes records, the devices stay as they are.
LEMMA ServerFollows ==
    ASSUME TInv, TInv', VInv, \A id \in Ids : Grown(records[id], records'[id]),
           UNCHANGED <<accounts, queue, draft>>
    PROVE  /\ AccountsFollow' /\ DraftsFollow'
           /\ \A d \in Devices, id \in Ids : Vouched(d, id)'
<1>1. /\ TypeOK /\ records \in [Ids -> Row] /\ records' \in [Ids -> Row]
      /\ accounts' = accounts /\ queue' = queue /\ draft' = draft
  BY DEF TInv, TypeOK
<1>2. ASSUME NEW d \in Devices, NEW id \in Ids, accounts[d][id] # None
      PROVE  Follows(accounts[d][id], records'[id]) /\ Vouched(d, id)'
  <2>1. /\ Follows(accounts[d][id], records[id]) /\ accounts[d][id].version \in Nat
        /\ Vouched(d, id)
    BY <1>1, <1>2, AccountTypes DEF VInv, AccountsFollow
  <2>2. /\ Follows(accounts[d][id], records'[id])
        /\ records'[id] # None /\ accounts[d][id].version = records'[id].version =>
              records'[id] = records[id]
    BY <1>1, <2>1, FollowsGrown
  <2>3. QED
    BY <1>1, <2>1, <2>2 DEF Vouched
<1>3. ASSUME NEW d \in Devices, draft[d] # None
      PROVE  /\ Follows(draft[d].account, records'[draft[d].id])
             /\ accounts[d][draft[d].id] = None =>
                  records'[draft[d].id] # None /\ records'[draft[d].id].deleted
  <2> DEFINE id == draft[d].id
             h == draft[d].account
  <2>1. id \in Ids /\ h.version \in Nat
    BY <1>1, <1>3, DraftTypes
  <2>2. /\ Follows(h, records[id])
        /\ accounts[d][id] = None => records[id] # None /\ records[id].deleted
    BY <1>3 DEF VInv, DraftsFollow
  <2> HIDE DEF id, h
  <2>3. Follows(h, records'[id])
    BY <1>1, <2>1, <2>2, FollowsGrown
  <2>4. accounts[d][id] = None => records'[id] # None /\ records'[id].deleted
    BY <2>1, <2>2 DEF Grown
  <2>5. QED
    BY <2>3, <2>4 DEF id, h
<1>4. \A d \in Devices, id \in Ids : accounts[d][id] = None => Vouched(d, id)'
  BY <1>1 DEF Vouched
<1>5. AccountsFollow' /\ \A d \in Devices, id \in Ids : Vouched(d, id)'
  BY <1>1, <1>2, <1>4 DEF AccountsFollow
<1>6. DraftsFollow'
  BY <1>1, <1>3 DEF DraftsFollow
<1>7. QED
  BY <1>5, <1>6

\* Pulled rows and verdicts still follow the server when its records have grown.
LEMMA RepliesGrown ==
    ASSUME TInv, TInv', RepliesFollow, \A id \in Ids : Grown(records[id], records'[id]),
           NEW d \in Devices, NEW k \in Runs
    PROVE  /\ \A id \in Ids : Grown(sync[d][k].rows[id], records'[id])
           /\ \A v \in Elements(sync[d][k].accepted) : Reached(v)'
<1>1. /\ records \in [Ids -> Row] /\ records' \in [Ids -> Row]
      /\ sync[d][k].rows \in [Ids -> Row] /\ sync[d][k].accepted \in Seq(Verdict)
  BY DEF TInv, TypeOK, Run
<1>2. \A id \in Ids : Grown(sync[d][k].rows[id], records'[id])
  BY <1>1, GrownTransitive DEF RepliesFollow
<1>3. ASSUME NEW v \in Elements(sync[d][k].accepted)
      PROVE  records'[v.id] # None /\ v.version <= records'[v.id].version
  <2>1. v \in Verdict
    BY <1>1, ElementsHeadTail
  <2>2. v.id \in Ids /\ v.version \in Nat
    BY <2>1 DEF Verdict, Version
  <2>3. records[v.id] # None /\ v.version <= records[v.id].version
    BY DEF RepliesFollow, Reached
  <2>4. /\ records[v.id].version \in Nat
        /\ records'[v.id] # None => records'[v.id].version \in Nat
    BY <1>1, <2>2, <2>3 DEF Row, Record, Version
  <2>5. QED
    BY <2>2, <2>3, <2>4 DEF Grown
<1>4. QED
  BY <1>2, <1>3 DEF Reached

LEMMA TakeGrows ==
    ASSUME TInv, NEW changes \in Seq(Item), Take(changes)
    PROVE  /\ \A id \in Ids : Grown(records[id], records'[id])
           /\ \A v \in Elements(Taking(changes).accepted) : Reached(v)'
BY TakingState DEF TInv, Take, Fits, Reached

\* One call moves on: its rows and verdicts are as good as before, or follow the server anyway.
LEMMA GotoFollows ==
    ASSUME TInv, TInv', RepliesFollow, \A id \in Ids : Grown(records[id], records'[id]),
           NEW d \in Devices, NEW k \in Runs, NEW y \in Run, Goto(d, k, y),
           \A id \in Ids : \/ y.rows[id] = sync[d][k].rows[id]
                           \/ Grown(y.rows[id], records'[id]),
           \A v \in Elements(y.accepted) : v \in Elements(sync[d][k].accepted) \/ Reached(v)'
    PROVE  RepliesFollow'
<1>1. \A e \in Devices, m \in Runs :
         sync'[e][m] = IF e = d /\ m = k THEN y ELSE sync[e][m]
  BY DEF Goto, TInv, TypeOK
<1>2. ASSUME NEW e \in Devices, NEW m \in Runs
      PROVE  /\ \A id \in Ids : Grown(sync'[e][m].rows[id], records'[id])
             /\ \A v \in Elements(sync'[e][m].accepted) : Reached(v)'
  <2>1. CASE e = d /\ m = k
    <3>1. sync'[e][m] = y
      BY <1>1, <2>1
    <3>2. QED
      BY <3>1, RepliesGrown
  <2>2. CASE ~(e = d /\ m = k)
    <3>1. sync'[e][m] = sync[e][m]
      BY <1>1, <2>2
    <3>2. QED
      BY <3>1, RepliesGrown
  <2>3. QED
    BY <2>1, <2>2
<1>3. QED
  BY <1>2 DEF RepliesFollow, Reached

LEMMA ServePushFollows ==
    ASSUME TInv, TInv', VInv, NEW d \in Devices, NEW k \in Runs, ServePush(d, k) PROVE VInv'
<1> DEFINE x == sync[d][k]
           changes == IF x.at = "push" THEN x.sent ELSE x.retry
           reply == Taking(changes)
           phase == IF x.at = "push" THEN "pushed" ELSE "retried"
           y == [IF x.at = "push"
                 THEN [x EXCEPT !.accepted = reply.accepted, !.conflicts = reply.conflicts]
                 ELSE [x EXCEPT !.accepted = reply.accepted, !.retry = <<>>] EXCEPT !.at = phase]
<1>1. x \in Run /\ changes \in Seq(Item)
  BY DEF TInv, TypeOK, Run
<1>2. Take(changes) /\ UNCHANGED <<accounts, queue, draft>>
  BY DEF ServePush
<1>3. Goto(d, k, y)
  BY DEF ServePush, Step, Goto
<1>4. /\ \A id \in Ids : Grown(records[id], records'[id])
      /\ \A v \in Elements(reply.accepted) : Reached(v)'
  BY <1>1, <1>2, TakeGrows
<1>5. y.rows = x.rows /\ y.accepted = reply.accepted
  BY <1>1 DEF Run
<1>6. y \in Run
  <2>1. y = sync'[d][k]
    BY <1>3 DEF Goto, TInv, TypeOK
  <2>2. QED
    BY <2>1 DEF TInv, TypeOK
<1> HIDE DEF y, reply, changes
<1>7. RepliesFollow'
  BY <1>3, <1>4, <1>5, <1>6, GotoFollows DEF VInv
<1>8. QED
  BY <1>2, <1>4, <1>7, ServerFollows DEF VInv

LEMMA ServeLateFollows == ASSUME TInv, TInv', VInv, ServeLate PROVE VInv'
<1>1. PICK changes \in late : Take(changes)
  BY DEF ServeLate
<1>2. changes \in Seq(Item)
  BY DEF TInv, TypeOK
<1>3. \A id \in Ids : Grown(records[id], records'[id])
  BY <1>1, <1>2, TakeGrows
<1>4. UNCHANGED <<accounts, queue, draft, sync>>
  BY DEF ServeLate
<1>5. RepliesFollow'
  BY <1>3, <1>4, RepliesGrown DEF VInv, RepliesFollow, Reached
<1>6. QED
  BY <1>3, <1>4, <1>5, ServerFollows DEF VInv

LEMMA TombstoneFollows == ASSUME TInv, TInv', VInv, NEW id \in Ids, Tombstone(id) PROVE VInv'
<1>1. /\ records \in [Ids -> Row] /\ records[id] # None
      /\ records' = [records EXCEPT ![id] = Tombstoned(records[id])]
      /\ UNCHANGED <<accounts, queue, draft, sync>>
  BY DEF Tombstone, TInv, TypeOK
<1>2. records[id] \in Record /\ records[id].version \in Nat
  BY <1>1 DEF Row, Record, Version
<1>3. Tombstoned(records[id]) # None
  <2>1. records'[id] = Tombstoned(records[id]) /\ records'[id] \in Row
    BY <1>1 DEF TInv, TypeOK
  <2>2. Tombstoned(records[id]) \in Record
    <3>1. records[id].version + 1 \in Version
      BY <1>2 DEF Version
    <3>2. QED
      BY <1>2, <3>1 DEF Tombstoned, Record
  <2>3. QED
    BY <2>2, NoneAssumption
<1>4. Grown(records[id], Tombstoned(records[id]))
  BY <1>2, <1>3 DEF Grown, Tombstoned, Record
<1>5. \A o \in Ids : Grown(records[o], records'[o])
  BY <1>1, <1>4, GrownReflexive
<1>6. RepliesFollow'
  BY <1>1, <1>5, RepliesGrown DEF VInv, RepliesFollow, Reached
<1>7. QED
  BY <1>1, <1>5, <1>6, ServerFollows DEF VInv

-----------------------------------------------------------------------------
\* The devices move, the server's records stay.

LEMMA RecordsStay ==
    ASSUME TInv, UNCHANGED records
    PROVE  \A id \in Ids : Grown(records[id], records'[id]) /\ Grown(None, records'[id])
BY GrownReflexive DEF TInv, TypeOK

\* A call that has come to the next conflict, or to its end, holds no rows and no verdicts.
LEMMA FreshRuns ==
    ASSUME NEW x \in Run
    PROVE  /\ Resolving(x).rows = NoRows /\ NextConflict(x).rows = NoRows /\ Idle.rows = NoRows
           /\ Resolving(x).accepted = <<>> /\ NextConflict(x).accepted = <<>>
           /\ Idle.accepted = <<>> /\ Idle.sent = <<>> /\ Idle.retry = <<>>
           /\ Resolving(x).retry = <<>> /\ NextConflict(x).retry = <<>>
           /\ Resolving(x).sent \in {<<>>, x.sent} /\ NextConflict(x).sent \in {<<>>, x.sent}
           /\ \A id \in Ids : NoRows[id] = None
           /\ Elements(<<>>) = {}
<1>1. Idle.rows = NoRows /\ Idle.accepted = <<>> /\ Idle.sent = <<>> /\ Idle.retry = <<>>
  BY DEF Idle
<1>2. ASSUME NEW y \in Run
      PROVE  /\ Resolving(y).rows = NoRows /\ Resolving(y).accepted = <<>>
             /\ Resolving(y).retry = <<>> /\ Resolving(y).sent \in {<<>>, y.sent}
  BY DEF Resolving, Idle
<1>3. /\ NextConflict(x).rows = NoRows /\ NextConflict(x).accepted = <<>>
      /\ NextConflict(x).retry = <<>> /\ NextConflict(x).sent \in {<<>>, x.sent}
  <2> DEFINE y == [x EXCEPT !.conflicts = Tail(@)]
  <2>1. y.sent = x.sent
    BY DEF Run
  <2>2. /\ Resolving(y).rows = NoRows /\ Resolving(y).accepted = <<>>
        /\ Resolving(y).retry = <<>> /\ Resolving(y).sent \in {<<>>, y.sent}
    BY DEF Resolving, Idle
  <2>3. QED
    BY <2>1, <2>2 DEF NextConflict
<1>4. \A id \in Ids : NoRows[id] = None
  BY DEF NoRows
<1>5. QED
  BY <1>1, <1>2, <1>3, <1>4, IdleRun

LEMMA GotoFresh ==
    ASSUME TInv, TInv', VInv, UNCHANGED records, NEW d \in Devices, NEW k \in Runs,
           NEW y \in Run, Goto(d, k, y),
           y.rows = NoRows \/ y.rows = sync[d][k].rows,
           y.accepted = <<>> \/ y.accepted = sync[d][k].accepted
    PROVE  RepliesFollow'
<1>1. \A id \in Ids : Grown(records[id], records'[id]) /\ Grown(None, records'[id])
  BY RecordsStay
<1>2. \A id \in Ids : NoRows[id] = None
  BY DEF NoRows
<1>3. Elements(<<>>) = {}
  BY IdleRun
<1>4. \A id \in Ids : \/ y.rows[id] = sync[d][k].rows[id]
                      \/ Grown(y.rows[id], records'[id])
  BY <1>1, <1>2
<1>5. \A v \in Elements(y.accepted) : v \in Elements(sync[d][k].accepted) \/ Reached(v)'
  BY <1>3
<1>6. QED
  BY <1>1, <1>4, <1>5, GotoFollows DEF VInv

\* A queue loses only items that expect another version than the record has.
LEMMA QueueFollows ==
    ASSUME TInv, VInv, UNCHANGED <<records, accounts, draft>>, RepliesFollow',
           \A d \in Devices : \A i \in Elements(queue[d]) :
              \/ i \in Elements(queue'[d])
              \/ records[i.id] # None /\ i.expected # records[i.id].version
    PROVE  VInv'
<1>1. AccountsFollow' /\ DraftsFollow'
  BY DEF VInv, AccountsFollow, DraftsFollow
<1>2. \A d \in Devices, id \in Ids : Vouched(d, id)'
  BY DEF VInv, Vouched
<1>3. QED
  BY <1>1, <1>2 DEF VInv

LEMMA ServePullFollows ==
    ASSUME TInv, TInv', VInv, NEW d \in Devices, NEW k \in Runs, ServePull(d, k) PROVE VInv'
<1> DEFINE x == sync[d][k]
           y == sync'[d][k]
<1>1. /\ x \in Run /\ y \in Run /\ TypeOK
      /\ UNCHANGED <<records, accounts, queue, draft>>
  BY DEF TInv, TypeOK, ServePull, server
<1>2. Goto(d, k, y) /\ y.accepted = x.accepted
      /\ (y.rows = x.rows \/ \E p, since : y.rows = Rows(p, since))
  <2>1. \E phase, z : /\ Step(d, k, phase, z) /\ z.accepted = x.accepted /\ z \in Run
                      /\ (z.rows = x.rows \/ \E p, since : z.rows = Rows(p, since))
    <3>1. CASE x.at = "resolve"
      <4> DEFINE rows == Rows(x.repo, Head(x.conflicts).version - 1)
                 z == [x EXCEPT !.rows = rows]
      <4>1. Step(d, k, "resolved", z)
        BY <3>1 DEF ServePull
      <4>2. z.accepted = x.accepted /\ z.rows = rows
        BY <1>1 DEF Run
      <4>3. z \in Run
        BY <1>1, RowsTypes DEF Run
      <4>4. QED
        BY <4>1, <4>2, <4>3
    <3>2. CASE x.at = "pull"
      <4> DEFINE rows == Rows(x.repo, x.version)
                 z == [x EXCEPT !.rows = rows, !.version = 0]
      <4>1. Step(d, k, "pulling", z)
        BY <3>2 DEF ServePull
      <4>2. z.accepted = x.accepted /\ z.rows = rows
        BY <1>1 DEF Run
      <4>3. z \in Run
        BY <1>1, RowsTypes DEF Run
      <4>4. QED
        BY <4>1, <4>2, <4>3
    <3>3. CASE x.at \in {"status", "pulling"}
      <4> DEFINE z == [x EXCEPT !.version = repoVersion[x.repo]]
      <4>1. Step(d, k, IF x.at = "status" THEN "statused" ELSE "pulled", z)
        BY <3>3 DEF ServePull
      <4>2. z.accepted = x.accepted /\ z.rows = x.rows
        BY <1>1 DEF Run
      <4>3. repoVersion[x.repo] \in Nat
        BY <3>3 DEF TInv, TypeOK, Shape
      <4>4. z \in Run
        BY <1>1, <4>3 DEF Run
      <4>5. QED
        BY <4>1, <4>2, <4>4
    <3>4. QED
      BY <3>1, <3>2, <3>3 DEF ServePull
  <2>2. ASSUME NEW phase, NEW z \in Run, Step(d, k, phase, z)
        PROVE  Goto(d, k, y) /\ y.accepted = z.accepted /\ y.rows = z.rows
    <3>1. Goto(d, k, [z EXCEPT !.at = phase])
      BY <2>2, StepGoto
    <3>2. y = [z EXCEPT !.at = phase]
      BY <3>1, GotoSelf
    <3>3. QED
      BY <2>2, <3>1, <3>2 DEF Run
  <2>3. QED
    BY <2>1, <2>2
<1>3. \A id \in Ids : y.rows[id] = x.rows[id] \/ y.rows[id] \in {None, records[id]}
  BY <1>1, <1>2, RowsTypes
<1>4. \A id \in Ids : Grown(records[id], records'[id]) /\ Grown(None, records'[id])
  BY <1>1, RecordsStay
<1> HIDE DEF y
<1>5. RepliesFollow'
  BY <1>1, <1>2, <1>3, <1>4, GotoFollows DEF VInv
<1>6. QED
  BY <1>1, <1>5, QueueFollows

LEMMA StartFollows ==
    ASSUME TInv, TInv', VInv, NEW d \in Devices, NEW k \in Runs, Start(d, k) PROVE VInv'
<1> DEFINE y == sync'[d][k]
<1>1. /\ y \in Run /\ y.rows = Idle.rows /\ y.accepted = Idle.accepted /\ Goto(d, k, y)
      /\ UNCHANGED <<records, accounts, queue, draft>>
  <2> DEFINE queued == Only(queue[d], {x \in Elements(queue[d]) : x.repo = active[d]})
             z == [Idle EXCEPT !.at = IF queued = <<>> THEN "status" ELSE "push",
                               !.repo = active[d], !.sent = queued]
  <2>1. Goto(d, k, z) /\ UNCHANGED <<records, accounts, queue, draft>>
    BY DEF Start, server
  <2>2. z.rows = Idle.rows /\ z.accepted = Idle.accepted
    BY DEF Idle
  <2> HIDE DEF z
  <2>3. y = z /\ y \in Run
    BY <2>1, GotoSelf DEF TInv, TypeOK
  <2>4. QED
    BY <2>1, <2>2, <2>3
<1> HIDE DEF y
<1>2. RepliesFollow'
  BY <1>1, GotoFresh DEF Idle
<1>3. QED
  BY <1>1, <1>2, QueueFollows

\* What an accepted change queued expects is older than what the server has.
LEMMA ClearAcceptedFollows ==
    ASSUME TInv, TInv', VInv, NEW d \in Devices, NEW k \in Runs,
           UNCHANGED <<records, accounts, draft>>, RepliesFollow',
           queue' = [queue EXCEPT ![d] = ClearedAccepted(@, sync[d][k].accepted)]
    PROVE  VInv'
<1>1. ASSUME NEW i \in Elements(queue[d]), NEW a \in Elements(sync[d][k].accepted),
             a.id = i.id, i.expected = a.version - 1
      PROVE  records[i.id] # None /\ i.expected # records[i.id].version
  <2>1. a \in Verdict
    BY ElementsHeadTail DEF TInv, TypeOK, Run
  <2>2. a.id \in Ids /\ a.version \in Nat
    BY <2>1 DEF Verdict, Version
  <2>3. records[a.id] # None /\ a.version <= records[a.id].version
    BY DEF VInv, RepliesFollow, Reached
  <2>4. records[a.id].version \in Nat
    BY <2>2, <2>3 DEF TInv, TypeOK, Row, Record, Version
  <2>5. QED
    BY <1>1, <2>2, <2>3, <2>4
<1>2. \A e \in Devices : \A i \in Elements(queue[e]) :
         \/ i \in Elements(queue'[e])
         \/ e = d /\ \E a \in Elements(sync[d][k].accepted) : a.id = i.id /\ i.expected = a.version - 1
  <2> DEFINE accepted == sync[d][k].accepted
  <2>1. TypeOK /\ queue' = [queue EXCEPT ![d] = ClearedAccepted(queue[d], accepted)]
    BY DEF TInv
  <2> HIDE DEF accepted
  <2>2. \A e \in Devices : \A i \in Elements(queue[e]) :
           \/ i \in Elements(queue'[e])
           \/ e = d /\ \E a \in Elements(accepted) : a.id = i.id /\ i.expected = a.version - 1
    <3>1. \A e \in Devices :
             queue'[e] = IF e = d THEN ClearedAccepted(queue[d], accepted) ELSE queue[e]
      BY <2>1 DEF TypeOK
    <3>2. Elements(ClearedAccepted(queue[d], accepted)) =
            {i \in Elements(queue[d]) : \A a \in Elements(accepted) :
               ~(i.id = a.id /\ i.expected = a.version - 1)}
      BY <2>1, ClearedElements DEF TypeOK
    <3>3. QED
      BY <3>1, <3>2
  <2>3. QED
    BY <2>2 DEF accepted
<1>3. QED
  BY <1>1, <1>2, QueueFollows

LEMMA OnPushedFollows ==
    ASSUME TInv, TInv', VInv, NEW d \in Devices, NEW k \in Runs, OnPushed(d, k) \/ OnRetried(d, k)
    PROVE  VInv'
<1> DEFINE x == sync[d][k]
           y == sync'[d][k]
<1>1. /\ x \in Run /\ y \in Run /\ Goto(d, k, y) /\ y \in {Resolving(x), NextConflict(x)}
      /\ UNCHANGED <<records, accounts, draft>>
      /\ queue' = [queue EXCEPT ![d] = ClearedAccepted(@, x.accepted)]
  BY DEF TInv, TypeOK, OnPushed, OnRetried, Goto, server
<1>2. y.rows = NoRows /\ y.accepted = <<>>
  BY <1>1, FreshRuns
<1> HIDE DEF y
<1>3. RepliesFollow'
  BY <1>1, <1>2, GotoFresh
<1>4. QED
  BY <1>1, <1>3, ClearAcceptedFollows

LEMMA OnResolvedFollows ==
    ASSUME TInv, TInv', VInv, NEW d \in Devices, NEW k \in Runs, OnResolved(d, k) PROVE VInv'
<1> DEFINE x == sync[d][k]
           id == ConflictId(x)
           rec == x.rows[id]
           z == [x EXCEPT !.retry = <<Retried(x)>>, !.rows = NoRows]
           y == sync'[d][k]
<1>1. x \in Run /\ y \in Run /\ Shape(x)
  BY DEF TInv, TypeOK
<1>2. /\ x.at = "resolved"
      /\ UNCHANGED <<server, accounts, cursor, active, draft, late, now>>
      /\ \/ Goto(d, k, NextConflict(x)) /\ UNCHANGED queue
         \/ Step(d, k, "retry", z) /\ UNCHANGED queue
         \/ /\ rec # None /\ Goto(d, k, NextConflict(x))
            /\ queue' = [queue EXCEPT ![d] = Cleared(@, id, 0)]
  BY OnResolvedCases
<1>3. Goto(d, k, y) /\ y \in {NextConflict(x), [z EXCEPT !.at = "retry"]}
  BY <1>1, <1>2 DEF Goto, Step, TInv, TypeOK
<1>4. y.rows = NoRows /\ y.accepted \in {<<>>, x.accepted}
  <2>1. CASE y = NextConflict(x)
    BY <1>1, <2>1, FreshRuns
  <2>2. CASE y = [z EXCEPT !.at = "retry"]
    BY <1>1, <2>2 DEF Run
  <2>3. QED
    BY <1>3, <2>1, <2>2
<1>5. UNCHANGED <<records, accounts, draft>>
  BY <1>2 DEF server
<1> HIDE DEF y, z
<1>6. RepliesFollow'
  BY <1>1, <1>3, <1>4, <1>5, GotoFresh
<1>7. CASE UNCHANGED queue
  BY <1>5, <1>6, <1>7, QueueFollows
<1>8. CASE rec # None /\ queue' = [queue EXCEPT ![d] = Cleared(@, id, 0)]
  <2>1. id \in Ids
    BY <1>1, <1>2, ConflictTypes
  <2>2. records[id] # None
    BY <1>8, <2>1 DEF VInv, RepliesFollow, Grown
  <2>3. records[id].version # 0
    BY <2>1, <2>2 DEF TInv, TypeOK, Row, Record, Version
  <2> HIDE DEF id, rec
  <2>4. \A e \in Devices : \A i \in Elements(queue[e]) :
           i \in Elements(queue'[e]) \/ (e = d /\ i.id = id /\ i.expected = 0)
    BY <1>8, ClearTypes DEF TInv
  <2>5. QED
    BY <1>5, <1>6, <2>2, <2>3, <2>4, QueueFollows
<1>9. QED
  BY <1>2, <1>7, <1>8

LEMMA OnStatusFollows ==
    ASSUME TInv, TInv', VInv, NEW d \in Devices, NEW k \in Runs, OnStatus(d, k) \/ Fail(d, k)
    PROVE  VInv'
<1> DEFINE x == sync[d][k]
           y == sync'[d][k]
<1>1. /\ x \in Run /\ y \in Run
      /\ UNCHANGED <<records, accounts, queue, draft>>
  BY DEF TInv, TypeOK, OnStatus, Fail, server
<1>2. Goto(d, k, y) /\ y \in {Idle, NextConflict(x), [[x EXCEPT !.version = cursor[d]] EXCEPT !.at = "pull"]}
  BY DEF OnStatus, Fail, Goto, Step, TInv, TypeOK
<1>3. y.rows \in {NoRows, x.rows} /\ y.accepted \in {<<>>, x.accepted}
  BY <1>1, <1>2, FreshRuns DEF Run
<1> HIDE DEF y
<1>4. RepliesFollow'
  BY <1>1, <1>2, <1>3, GotoFresh
<1>5. QED
  BY <1>1, <1>4, QueueFollows

\* An account h of the record id may be stored on d.
Good(d, id, h) ==
    h # None =>
        /\ Follows(h, records[id])
        /\ records[id] # None /\ h.version = records[id].version =>
              \/ h.blob = records[id].blob
              \/ \E item \in Elements(queue[d]) : item.id = id /\ item.expected = h.version

LEMMA GoodAccounts ==
    VInv => \A d \in Devices, id \in Ids : Good(d, id, accounts[d][id])
BY DEF VInv, AccountsFollow, Vouched, Good

\* The loop over pulled rows, from accounts that may be stored.
LEMMA AdvanceFollows ==
    ASSUME TInv, TInv', VInv, NEW d \in Devices, NEW k \in Runs, NEW x \in Run, x.repo \in Repos,
           \A v \in Elements(x.conflicts) : \E i \in Elements(x.sent) : i.id = v.id,
           NEW acc \in [Ids -> Account \cup {None}], Advance(d, k, x, acc),
           UNCHANGED <<records, queue, draft>>,
           \A id \in Ids : x.rows[id] \in {None, sync[d][k].rows[id]},
           x.accepted = sync[d][k].accepted,
           \A id \in Ids : Good(d, id, acc[id]) /\ (acc[id] = None => accounts[d][id] = None)
    PROVE  VInv'
<1>1. PICK y \in Run : /\ Shape(y) /\ Goto(d, k, y)
                       /\ \A id \in Ids : y.rows[id] \in {None, x.rows[id]}
                       /\ Elements(y.accepted) \subseteq Elements(x.accepted)
                       /\ y.sent \in {<<>>, x.sent} /\ y.retry \in {<<>>, x.retry}
  BY AdvanceEffect
<1>2. /\ \A e \in Devices : e # d => accounts'[e] = accounts[e]
      /\ \A id \in Ids : \/ accounts'[d][id] = acc[id]
                         \/ /\ accounts'[d][id] = None
                            /\ x.rows[id] # None /\ x.rows[id].deleted
  BY AdvanceEffect
<1>3. RepliesFollow'
  <2>1. \A id \in Ids : Grown(records[id], records'[id]) /\ Grown(None, records'[id])
    BY RecordsStay
  <2>2. \A id \in Ids : y.rows[id] = sync[d][k].rows[id] \/ Grown(y.rows[id], records'[id])
    BY <1>1, <2>1
  <2>3. \A v \in Elements(y.accepted) : v \in Elements(sync[d][k].accepted)
    BY <1>1
  <2>4. QED
    BY <1>1, <2>1, <2>2, <2>3, GotoFollows DEF VInv
<1>4. \A id \in Ids : x.rows[id] # None /\ x.rows[id].deleted =>
                        records[id] # None /\ records[id].deleted
  BY DEF VInv, RepliesFollow, Grown
<1>5. \A e \in Devices, id \in Ids : Good(e, id, accounts'[e][id])
  <2>1. ASSUME NEW e \in Devices, NEW id \in Ids PROVE Good(e, id, accounts'[e][id])
    <3>1. CASE e = d
      BY <1>2, <3>1 DEF Good
    <3>2. CASE e # d
      BY <1>2, <3>2, GoodAccounts
    <3>3. QED
      BY <3>1, <3>2
  <2>2. QED
    BY <2>1
<1>6. records' = records /\ queue' = queue /\ draft' = draft
  OBVIOUS
<1>7. AccountsFollow' /\ \A e \in Devices, id \in Ids : Vouched(e, id)'
  BY <1>5, <1>6 DEF Good, AccountsFollow, Vouched
<1>8. DraftsFollow'
  <2>1. ASSUME NEW e \in Devices, draft[e] # None
        PROVE  /\ Follows(draft[e].account, records[draft[e].id])
               /\ accounts'[e][draft[e].id] = None =>
                     records[draft[e].id] # None /\ records[draft[e].id].deleted
    <3>1. draft[e].id \in Ids
      BY <2>1, DraftTypes DEF TInv
    <3>2. /\ Follows(draft[e].account, records[draft[e].id])
          /\ accounts[e][draft[e].id] = None =>
                records[draft[e].id] # None /\ records[draft[e].id].deleted
      BY <2>1 DEF VInv, DraftsFollow
    <3>3. CASE e = d
      BY <1>2, <1>4, <3>1, <3>2, <3>3
    <3>4. CASE e # d
      BY <1>2, <3>2, <3>4
    <3>5. QED
      BY <3>3, <3>4
  <2>2. QED
    BY <1>6, <2>1 DEF DraftsFollow
<1>9. QED
  BY <1>3, <1>7, <1>8 DEF VInv

LEMMA OnPulledFollows ==
    ASSUME TInv, TInv', VInv, NEW d \in Devices, NEW k \in Runs, OnPulled(d, k) PROVE VInv'
<1> DEFINE x == sync[d][k]
           acc == accounts[d]
<1>1. /\ x \in Run /\ x.repo \in Repos /\ acc \in [Ids -> Account \cup {None}]
      /\ \A v \in Elements(x.conflicts) : \E i \in Elements(x.sent) : i.id = v.id
  BY DEF TInv, TypeOK, OnPulled, Shape
<1>2. Advance(d, k, x, acc) /\ UNCHANGED <<records, queue, draft>>
  BY DEF OnPulled, server
<1>3. \A id \in Ids : Good(d, id, acc[id]) /\ (acc[id] = None => accounts[d][id] = None)
  BY GoodAccounts
<1>4. \A id \in Ids : x.rows[id] \in {None, sync[d][k].rows[id]}
  OBVIOUS
<1>5. x.accepted = sync[d][k].accepted
  OBVIOUS
<1> HIDE DEF x, acc
<1>6. QED
  BY <1>1, <1>2, <1>3, <1>4, <1>5, AdvanceFollows

LEMMA StoreRowFollows ==
    ASSUME TInv, TInv', VInv, NEW d \in Devices, NEW k \in Runs, StoreRow(d, k) PROVE VInv'
<1> DEFINE old == sync[d][k]
           rec == old.rows[old.row]
           x == WithoutRow(old)
           acc == [accounts[d] EXCEPT ![old.row] = Stored(d, rec)]
<1>1. /\ old.row \in Ids /\ rec # None /\ rec \in Record /\ ~rec.deleted
      /\ Stored(d, rec) \in Account
      /\ x \in Run /\ x.repo \in Repos
      /\ \A v \in Elements(x.conflicts) : \E i \in Elements(x.sent) : i.id = v.id
      /\ \A id \in Ids : x.rows[id] \in {None, old.rows[id]}
      /\ x.accepted = old.accepted
      /\ acc \in [Ids -> Account \cup {None}]
      /\ Advance(d, k, x, acc)
      /\ UNCHANGED <<server, queue, active, draft, late, now>>
  BY StoreRowEffect
<1>2. Grown(rec, records[old.row])
  BY <1>1 DEF VInv, RepliesFollow
<1>3. records[old.row] \in Row
  BY <1>1 DEF TInv, TypeOK
<1>4. Good(d, old.row, Stored(d, rec))
  <2>1. Stored(d, rec).version = rec.version /\ Stored(d, rec).blob = rec.blob
    BY DEF Stored
  <2> HIDE DEF rec
  <2>2. QED
    BY <1>1, <1>2, <2>1 DEF Good, Follows, Grown
<1>5. Stored(d, rec) # None
  BY <1>1, NullAssumption
<1>6. accounts[d] \in [Ids -> Account \cup {None}]
  BY DEF TInv, TypeOK
<1>7. \A id \in Ids : acc[id] = IF id = old.row THEN Stored(d, rec) ELSE accounts[d][id]
  BY <1>1, <1>6
<1>8. UNCHANGED <<records, queue, draft>>
  BY <1>1 DEF server
<1>9. \A id \in Ids : Good(d, id, accounts[d][id])
  BY GoodAccounts
<1> HIDE DEF x, acc, rec
<1>10. \A id \in Ids : Good(d, id, acc[id]) /\ (acc[id] = None => accounts[d][id] = None)
  BY <1>4, <1>5, <1>7, <1>9
<1>11. QED
  BY <1>1, <1>8, <1>10, AdvanceFollows

-----------------------------------------------------------------------------
\* The users' changes.

\* The calls stay, or hold nothing.
LEMMA SyncStays ==
    ASSUME TInv, VInv, UNCHANGED records,
           \A d \in Devices, k \in Runs : sync'[d][k] \in {sync[d][k], Idle}
    PROVE  RepliesFollow'
<1>1. \A id \in Ids : Grown(None, records[id])
  BY GrownReflexive DEF TInv, TypeOK
<1>2. Idle.accepted = <<>> /\ \A id \in Ids : Idle.rows[id] = None
  BY DEF Idle, NoRows
<1>3. Elements(<<>>) = {}
  BY IdleRun
<1>4. QED
  BY <1>1, <1>2, <1>3 DEF VInv, RepliesFollow, Reached

\* The edit screen of d has closed, or is as before and the account h is there.
Closed(d, h) == draft' = [draft EXCEPT ![d] = None] \/ (draft' = draft /\ h # None)

\* One account of one device changes, and at most items are added to its queue.
LEMMA AccountChanges ==
    ASSUME TInv, VInv, UNCHANGED <<records, sync>>,
           NEW d \in Devices, NEW id \in Ids, NEW h,
           accounts' = [accounts EXCEPT ![d][id] = h],
           \A e \in Devices : Elements(queue[e]) \subseteq Elements(queue'[e]),
           h # None => Follows(h, records[id]),
           h # None /\ records[id] # None /\ h.version = records[id].version =>
              \E item \in Elements(queue'[d]) : item.id = id /\ item.expected = h.version,
           Closed(d, h)
    PROVE  VInv'
<1>1. \A e \in Devices, o \in Ids :
         accounts'[e][o] = IF e = d /\ o = id THEN h ELSE accounts[e][o]
  BY DEF TInv, TypeOK
<1>2. AccountsFollow'
  BY <1>1 DEF VInv, AccountsFollow
<1>3. \A e \in Devices, o \in Ids : Vouched(e, o)'
  <2>1. ASSUME NEW e \in Devices, NEW o \in Ids, ~(e = d /\ o = id) PROVE Vouched(e, o)'
    <3>1. accounts'[e][o] = accounts[e][o] /\ records' = records
      BY <1>1, <2>1
    <3>2. Vouched(e, o)
      BY DEF VInv
    <3>3. QED
      BY <3>1, <3>2 DEF Vouched
  <2>2. Vouched(d, id)'
    BY <1>1 DEF Vouched
  <2>3. QED
    BY <2>1, <2>2
<1>4. RepliesFollow'
  BY SyncStays
<1>5. DraftsFollow'
  <2>1. \A e \in Devices : draft'[e] # None => draft'[e] = draft[e] /\ (e # d \/ h # None)
    BY DEF TInv, TypeOK, Closed
  <2>2. ASSUME NEW e \in Devices, draft'[e] # None
        PROVE  /\ Follows(draft'[e].account, records'[draft'[e].id])
               /\ accounts'[e][draft'[e].id] = None =>
                     records'[draft'[e].id] # None /\ records'[draft'[e].id].deleted
    <3>1. draft'[e] = draft[e] /\ draft[e] # None /\ (e # d \/ h # None)
      BY <2>1, <2>2
    <3>2. draft[e].id \in Ids
      BY <3>1, DraftTypes DEF TInv
    <3>3. /\ Follows(draft[e].account, records[draft[e].id])
          /\ accounts[e][draft[e].id] = None =>
                records[draft[e].id] # None /\ records[draft[e].id].deleted
      BY <3>1 DEF VInv, DraftsFollow
    <3>4. accounts'[e][draft[e].id] = None => accounts[e][draft[e].id] = None
      BY <1>1, <3>1, <3>2
    <3>5. QED
      BY <3>1, <3>3, <3>4
  <2>3. QED
    BY <2>2 DEF DraftsFollow
<1>6. QED
  BY <1>2, <1>3, <1>4, <1>5 DEF VInv

LEMMA QueueGrows ==
    ASSUME TypeOK, NEW d \in Devices, NEW item, Queued(d, item)
    PROVE  /\ \A e \in Devices : Elements(queue[e]) \subseteq Elements(queue'[e])
           /\ item \in Elements(queue'[d])
BY DEF Queued

LEMMA AddFollows ==
    ASSUME TInv, VInv, NEW d \in Devices, NEW id \in Ids, Add(d, id) PROVE VInv'
<1> DEFINE h == [blob |-> now', version |-> 0, created |-> now']
<1>1. TypeOK /\ Made /\ records[id] = None /\ UNCHANGED <<records, sync, draft>>
  BY DEF TInv, Add, Unused, server
<1>2. h \in Account
  BY <1>1, MadeTypes DEF Account
<1>3. h # None /\ Follows(h, records[id])
  BY <1>1, <1>2, NullAssumption DEF Follows
<1>4. accounts' = [accounts EXCEPT ![d][id] = h]
  BY DEF Add
<1>5. \A e \in Devices : Elements(queue[e]) \subseteq Elements(queue'[e])
  <2>1. Queue(d, id, "create", now', 0, now')
    BY DEF Add
  <2>2. "create" \in Actions
    BY DEF Actions
  <2>3. QED
    BY <1>1, <2>1, <2>2, MadeTypes, QueueAdds, QueueGrows
<1>6. Closed(d, h)
  BY <1>1, <1>3 DEF Closed
<1> HIDE DEF h
<1>7. QED
  BY <1>1, <1>3, <1>4, <1>5, <1>6, AccountChanges

LEMMA SaveEditFollows == ASSUME TInv, VInv, NEW d \in Devices, SaveEdit(d) PROVE VInv'
<1> DEFINE id == draft[d].id
           old == draft[d].account
           h == [old EXCEPT !.blob = now']
           isUpdate == accounts[d][id] # None
           action == IF isUpdate THEN "update" ELSE "create"
           expected == IF isUpdate THEN old.version ELSE 0
           item == [id |-> id, repo |-> active[d], blob |-> now', expected |-> expected,
                    stamp |-> old.created, op |-> now', action |-> action]
<1>1. TypeOK /\ Made /\ draft[d] # None
  BY DEF TInv, SaveEdit
<1>2. id \in Ids /\ old \in Account /\ old.version \in Nat /\ old.created \in Stamps
  BY <1>1, DraftTypes
<1>3. /\ Follows(old, records[id])
      /\ ~isUpdate => records[id] # None /\ records[id].deleted
  BY <1>1 DEF VInv, DraftsFollow
<1>4. /\ accounts' = [accounts EXCEPT ![d][id] = h]
      /\ draft' = [draft EXCEPT ![d] = None]
      /\ UNCHANGED <<records, sync>>
      /\ Queue(d, id, action, now', expected, old.created)
  BY DEF SaveEdit, server
<1>5. action \in Actions /\ expected \in Nat
  BY <1>2 DEF Actions
<1>6. h.version = old.version
  BY <1>2 DEF Account
<1>7. item.id = id /\ item.expected = expected
  OBVIOUS
<1>8. Queued(d, item)
  <2> HIDE DEF id, old, action, expected
  <2>1. QED
    BY <1>1, <1>2, <1>4, <1>5, MadeTypes, QueueAdds
<1>9. isUpdate => expected = old.version
  OBVIOUS
<1> HIDE DEF id, old, h, isUpdate, action, expected, item
<1>10. /\ \A e \in Devices : Elements(queue[e]) \subseteq Elements(queue'[e])
       /\ item \in Elements(queue'[d])
  BY <1>1, <1>8, QueueGrows
<1>11. Follows(h, records[id])
  BY <1>3, <1>6 DEF Follows
<1>12. records[id] # None /\ h.version = records[id].version =>
          \E i \in Elements(queue'[d]) : i.id = id /\ i.expected = h.version
  BY <1>3, <1>6, <1>7, <1>9, <1>10 DEF Follows
<1>13. Closed(d, h)
  BY <1>4 DEF Closed
<1>14. QED
  BY <1>2, <1>4, <1>10, <1>11, <1>12, <1>13, AccountChanges

LEMMA DeleteFollows ==
    ASSUME TInv, VInv, NEW d \in Devices, NEW id \in Ids, Delete(d, id) PROVE VInv'
<1> DEFINE old == accounts[d][id]
<1>1. /\ TypeOK /\ Made /\ old # None
      /\ accounts' = [accounts EXCEPT ![d][id] = None]
      /\ draft' = [draft EXCEPT ![d] = None]
      /\ UNCHANGED <<records, sync>>
      /\ Queue(d, id, "delete", old.blob, old.version, now')
  BY DEF TInv, Delete, server
<1>2. old.blob \in Blobs /\ old.version \in Nat /\ "delete" \in Actions
  BY <1>1 DEF TypeOK, Account, Actions
<1> HIDE DEF old
<1>3. \A e \in Devices : Elements(queue[e]) \subseteq Elements(queue'[e])
  BY <1>1, <1>2, MadeTypes, QueueAdds, QueueGrows
<1> DEFINE h == None
<1>4. Closed(d, h) /\ h = None /\ accounts' = [accounts EXCEPT ![d][id] = h]
  BY <1>1 DEF Closed
<1> HIDE DEF h
<1>5. QED
  BY <1>1, <1>3, <1>4, AccountChanges

\* A draft is as before, or of an account that is there.
LEMMA ScreenDrafts ==
    ASSUME TInv, NEW d \in Devices,
           \/ \E id \in Ids : OpenEdit(d, id)
           \/ RefreshEdit(d)
           \/ Crash(d)
           \/ \E p \in Repos : SwitchRepo(d, p)
    PROVE  \A e \in Devices : draft'[e] # None =>
             \/ draft'[e] = draft[e]
             \/ /\ draft'[e].id \in Ids /\ accounts[e][draft'[e].id] # None
                /\ draft'[e].account = accounts[e][draft'[e].id]
<1>1. ASSUME NEW id \in Ids, OpenEdit(d, id), NEW e \in Devices
      PROVE  \/ draft'[e] = draft[e]
             \/ /\ draft'[e].id \in Ids /\ accounts[e][draft'[e].id] # None
                /\ draft'[e].account = accounts[e][draft'[e].id]
  BY <1>1 DEF OpenEdit, TInv, TypeOK
<1>2. ASSUME RefreshEdit(d), NEW e \in Devices, draft'[e] # None
      PROVE  \/ draft'[e] = draft[e]
             \/ /\ draft'[e].id \in Ids /\ accounts[e][draft'[e].id] # None
                /\ draft'[e].account = accounts[e][draft'[e].id]
  <2> DEFINE row == accounts[d][draft[d].id]
  <2>1. /\ draft[d] # None
        /\ draft' = [draft EXCEPT ![d] = IF row = None THEN None ELSE [draft[d] EXCEPT !.account = row]]
    BY <1>2 DEF RefreshEdit
  <2>2. draft[d] \in [id : Ids, account : Account]
    BY <2>1, DraftTypes DEF TInv
  <2>3. CASE e # d
    BY <2>1, <2>3 DEF TInv, TypeOK
  <2>4. CASE e = d
    <3>1. row # None /\ draft'[d] = [draft[d] EXCEPT !.account = row]
      BY <1>2, <2>1, <2>4 DEF TInv, TypeOK
    <3>2. draft'[d].id = draft[d].id /\ draft'[d].account = row
      BY <2>2, <3>1
    <3>3. QED
      BY <2>2, <2>4, <3>1, <3>2
  <2>5. QED
    BY <2>3, <2>4
<1>3. ASSUME Crash(d) \/ \E p \in Repos : SwitchRepo(d, p), NEW e \in Devices, draft'[e] # None
      PROVE  draft'[e] = draft[e]
  BY <1>3 DEF Crash, SwitchRepo, TInv, TypeOK
<1>4. QED
  BY <1>1, <1>2, <1>3

\* Opening, refreshing and leaving an edit screen.
LEMMA EditFollows ==
    ASSUME TInv, TInv', VInv, NEW d \in Devices,
           \/ \E id \in Ids : OpenEdit(d, id)
           \/ RefreshEdit(d)
           \/ Crash(d)
           \/ \E p \in Repos : SwitchRepo(d, p)
    PROVE  VInv'
<1>1. UNCHANGED <<records, accounts, queue>>
  BY DEF OpenEdit, RefreshEdit, Crash, SwitchRepo, server
<1>2. \A e \in Devices, k \in Runs : sync'[e][k] \in {sync[e][k], Idle}
  <2>1. CASE Crash(d)
    BY <2>1 DEF Crash, TInv, TypeOK
  <2>2. CASE ~Crash(d)
    <3>1. sync' = sync
      BY <2>2 DEF OpenEdit, RefreshEdit, SwitchRepo
    <3>2. QED
      BY <3>1
  <2>3. QED
    BY <2>1, <2>2
<1>3. RepliesFollow'
  BY <1>1, <1>2, SyncStays
<1>4. \A e \in Devices : draft'[e] # None =>
         \/ draft'[e] = draft[e]
         \/ /\ draft'[e].id \in Ids /\ accounts[e][draft'[e].id] # None
            /\ draft'[e].account = accounts[e][draft'[e].id]
  BY ScreenDrafts
<1>5. DraftsFollow'
  BY <1>1, <1>4 DEF VInv, DraftsFollow, AccountsFollow
<1>6. AccountsFollow' /\ \A e \in Devices, id \in Ids : Vouched(e, id)'
  BY <1>1 DEF VInv, AccountsFollow, Vouched
<1>7. QED
  BY <1>3, <1>5, <1>6 DEF VInv

-----------------------------------------------------------------------------
LEMMA InitFollows == ASSUME Init PROVE VInv
<1>1. \A id \in Ids : NoRows[id] = None
  BY DEF NoRows
<1>2. \A d \in Devices, id \in Ids : accounts[d][id] = None
  BY <1>1 DEF Init
<1>3. \A d \in Devices, k \in Runs : sync[d][k] = Idle
  BY DEF Init
<1>4. Idle.accepted = <<>> /\ \A id \in Ids : Idle.rows[id] = None
  BY <1>1 DEF Idle
<1>5. RepliesFollow
  BY <1>3, <1>4, IdleRun DEF RepliesFollow, Grown
<1>6. AccountsFollow /\ DraftsFollow /\ \A d \in Devices, id \in Ids : Vouched(d, id)
  BY <1>2 DEF Init, AccountsFollow, DraftsFollow, Vouched
<1>7. QED
  BY <1>5, <1>6 DEF VInv

LEMMA NextFollows == ASSUME TInv, TInv', VInv, [Next]_vars PROVE VInv'
<1>1. CASE UNCHANGED vars
  BY <1>1 DEF vars, server, VInv, AccountsFollow, DraftsFollow, RepliesFollow, Reached, Vouched
<1>2. ASSUME NEW d \in Devices, User(d) PROVE VInv'
  BY <1>2, AddFollows, EditFollows, SaveEditFollows, DeleteFollows DEF User
<1>3. ASSUME NEW d \in Devices, NEW k \in Runs,
             Start(d, k) \/ Device(d, k) \/ Server(d, k) \/ Fail(d, k)
      PROVE  VInv'
  BY <1>3, StartFollows, OnPushedFollows, OnResolvedFollows, OnStatusFollows, OnPulledFollows,
     StoreRowFollows, ServePushFollows, ServePullFollows DEF Device, Server
<1>4. QED
  BY <1>1, <1>2, <1>3, ServeLateFollows, TombstoneFollows DEF Next

(***************************************************************************)
(* Nothing a device holds of a record is ever ahead of the server.         *)
(***************************************************************************)
THEOREM SystemFollows == Spec => []VInv
<1>1. Init => VInv
  BY InitFollows
<1>2. TInv /\ TInv' /\ VInv /\ [Next]_vars => VInv'
  BY NextFollows
<1>3. QED
  BY <1>1, <1>2, SystemTypes, PTL DEF Spec

(***************************************************************************)
(* For any number of devices, overlapping syncs, lost replies and late     *)
(* pushes: an account with the server's version has the server's content,  *)
(* or the difference waits in the queue under that version.                *)
(***************************************************************************)
THEOREM VersionVouches == Spec => []VersionVouchesForContent
BY SystemFollows, VouchesFollows, PTL


-----------------------------------------------------------------------------
(***************************************************************************)
(* The invariant behind EditsTakenOnce.  A change that is queued, sent,    *)
(* pushed again or late is "held".  What the server took expects a version *)
(* older than the record's, so it takes the change again only under a      *)
(* newer version, after a conflict.  On devices that are not ahead of UTC  *)
(* an edit never wins a conflict: its timestamp is its account's creation, *)
(* and no row of the server seems to a device to be older than that.       *)
(***************************************************************************)
IsEdit(i) == i.action # "delete"

Held ==
    {i \in Item :
        \/ \E d \in Devices : i \in Elements(queue[d])
        \/ \E d \in Devices, k \in Runs : i \in Elements(sync[d][k].sent) \cup Elements(sync[d][k].retry)
        \/ \E changes \in late : i \in Elements(changes)}

\* What one device may find in conflict.
HeldBy(d) ==
    {i \in Item : i \in Elements(queue[d]) \/ \E k \in Runs : i \in Elements(sync[d][k].sent)}

\* Changes with one number are of one record.
OneRecord(items) == \A i, j \in items : i.op = j.op => i.id = j.id

\* An edit has a number that nothing else has.
Named(items) == \A i, j \in items : IsEdit(i) /\ i.op = j.op => i = j

Numbered ==
    /\ \A i \in Held \cup Elements(log) : i.op \in 1..now
    /\ OneRecord(Held \cup Elements(log))

\* A change of what the server does not have expects no version.
Unversioned == \A i \in Held : records[i.id] = None => i.expected = 0

\* The server has the record of a change it took, at a later version than the change expects.
Settled(items, rows) ==
    \A i \in items : rows[i.id] # None /\ i.expected < rows[i.id].version

\* What is in the log twice expects a greater version the second time.
Once(s) == \A m, n \in DOMAIN s : m < n /\ s[m].op = s[n].op => s[m].expected < s[n].expected

DatedRow(row) == row # None => row.created <= row.updated

Dated ==
    /\ \A i \in Held : records[i.id] = None => i.stamp <= now
    /\ \A id \in Ids : DatedRow(records[id]) /\ (records[id] # None => records[id].created <= now)
    /\ \A d \in Devices, k \in Runs, id \in Ids : DatedRow(sync[d][k].rows[id])
    /\ \A d \in Devices, id \in Ids :
          accounts[d][id] # None /\ records[id] = None => accounts[d][id].created <= now

\* What the server may take as a new version of its record is no older than the record.
Traces(i, rec) == rec # None /\ (IsEdit(i) => i.expected # 0) => rec.created <= i.stamp

\* To its device an edit seems no newer than its record.
Bounded(d, i, rec) == rec # None /\ IsEdit(i) => i.stamp <= Seen(d, rec.created)

\* Nor does an account of the device, and one with a version is no older either.
SameCreated(d, h, rec) ==
    rec # None => h.created <= Seen(d, rec.created) /\ (h.version # 0 => rec.created <= h.created)

Traced ==
    /\ \A i \in Held : Traces(i, records[i.id])
    /\ \A d \in Devices : \A i \in HeldBy(d) : Bounded(d, i, records[i.id])
    /\ \A d \in Devices, id \in Ids : accounts[d][id] # None => SameCreated(d, accounts[d][id], records[id])
    /\ \A d \in Devices : draft[d] # None => SameCreated(d, draft[d].account, records[draft[d].id])

\* Edits of one account are older than its deletes; deletes have one timestamp.
InOrder(i, j) == i.id = j.id /\ (IsEdit(i) \/ ~IsEdit(j)) => i.stamp <= j.stamp

\* Before the server has the record, one device has the account, and queues its changes.
Unsent ==
    /\ \A i \in Held : records[i.id] = None =>
         /\ \E d \in Devices : \E j \in Elements(queue[d]) : j.id = i.id
         /\ \A j \in Held : InOrder(i, j)
         /\ \A d \in Devices : accounts[d][i.id] # None =>
               IsEdit(i) /\ i.stamp = accounts[d][i.id].created
    /\ \A d, e \in Devices, id \in Ids :
         records[id] = None /\ accounts[d][id] # None /\ accounts[e][id] # None => d = e
    /\ \A d \in Devices : draft[d] # None /\ records[draft[d].id] = None =>
         draft[d].account.created = accounts[d][draft[d].id].created

\* So far the server's times; they hold on devices that are not ahead of UTC.
InTime == Named(Held \cup Elements(log)) /\ Dated /\ Traced /\ Unsent

EInv ==
    /\ Numbered /\ Unversioned /\ Settled(Elements(log), records) /\ Once(log)
    /\ AheadOfUTC \/ InTime

\* What a device reads from the server's reply seems no older than it is.
LEMMA SeenLater ==
    ASSUME ~AheadOfUTC, NEW d \in Devices
    PROVE  \A t \in Int : Seen(d, t) \in Int /\ t <= Seen(d, t)
                          /\ \A s \in Int : s <= t => Seen(d, s) <= Seen(d, t)
<1>1. Offset[d] \in Int /\ Offset[d] <= 0
  BY OffsetAssumption DEF AheadOfUTC
<1>2. QED
  BY <1>1 DEF Seen

\* The zones do not change.
LEMMA ZonesStay == AheadOfUTC' = AheadOfUTC
BY DEF AheadOfUTC

-----------------------------------------------------------------------------
\* A push of held changes.

\* What the changes of a push and what the server took before have to do with its rows.
Pushable(rows, old, changes) ==
    /\ OneRecord(Elements(old) \cup Elements(changes))
    /\ Settled(Elements(old), rows) /\ Once(old)
    /\ \A c \in Elements(changes) : rows[c.id] = None => c.expected = 0
    /\ AheadOfUTC \/ /\ \A id \in Ids : DatedRow(rows[id])
                     /\ \A c \in Elements(changes) : Traces(c, rows[c.id])

\* A record the push has made is as one of its changes made it.
MadeBy(id, changes, row) ==
    row # None => /\ row.version = 1
                  /\ \E c \in Elements(changes) :
                        c.id = id /\ row.created = c.stamp /\ row.updated = c.stamp

\* What is so after some of the changes.
PushedOnce(rows, old, changes, acc) ==
    /\ \A id \in Ids : IF rows[id] = None THEN MadeBy(id, changes, acc.rows[id])
                                          ELSE AheadOfUTC \/ DatedRow(acc.rows[id])
    /\ Elements(acc.log) \subseteq Elements(old) \cup Elements(changes)
    /\ Settled(Elements(acc.log), acc.rows) /\ Once(acc.log)

LEMMA ItemChange ==
    /\ \A c \in Item : IsChange(c) /\ c.id \in Ids /\ c.expected \in Nat /\ c.stamp \in Int
    /\ \A s \in Seq(Item) : Elements(s) \subseteq Item
<1>1. \A c \in Item : IsChange(c) /\ c.id \in Ids /\ c.expected \in Nat /\ c.stamp \in Int
  BY OpsAssumption DEF Item, IsChange
<1>2. \A s \in Seq(Item) : Elements(s) \subseteq Item
  BY ElementsHeadTail
<1>3. QED
  BY <1>1, <1>2

LEMMA RecordTypes ==
    ASSUME NEW rec \in Row, rec # None
    PROVE  /\ rec \in Record /\ rec.version \in Nat /\ rec.version # 0
           /\ rec.created \in Int /\ rec.updated \in Int
BY OpsAssumption DEF Row, Record, Version

\* Appending a change that expects more than those with its number keeps the order.
LEMMA OnceAppend ==
    ASSUME NEW s \in Seq(Item), NEW c \in Item, Once(s),
           \A i \in Elements(s) : i.op = c.op => i.expected < c.expected
    PROVE  Once(Append(s, c))
<1> DEFINE t == Append(s, c)
<1>1. /\ Len(s) \in Nat /\ DOMAIN s = 1..Len(s) /\ DOMAIN t = 1..Len(s) + 1
      /\ t[Len(s) + 1] = c /\ \A m \in 1..Len(s) : t[m] = s[m]
  OBVIOUS
<1> HIDE DEF t
<1>2. ASSUME NEW m \in DOMAIN t, NEW n \in DOMAIN t, m < n, t[m].op = t[n].op
      PROVE  t[m].expected < t[n].expected
  <2>1. m \in DOMAIN s /\ t[m] = s[m]
    BY <1>1, <1>2
  <2>2. CASE n = Len(s) + 1
    <3>1. t[n] = c /\ s[m] \in Elements(s)
      BY <1>1, <2>1, <2>2 DEF Elements
    <3>2. QED
      BY <1>2, <2>1, <3>1
  <2>3. CASE n # Len(s) + 1
    <3>1. n \in DOMAIN s /\ t[n] = s[n]
      BY <1>1, <2>3
    <3>2. QED
      BY <1>2, <2>1, <3>1 DEF Once
  <2>4. QED
    BY <2>2, <2>3
<1>3. QED
  BY <1>2 DEF t, Once

LEMMA PushOneOnce ==
    ASSUME NEW rows \in [Ids -> Row], NEW old \in Seq(Item), NEW changes \in Seq(Item),
           Pushable(rows, old, changes), NEW c \in Elements(changes),
           NEW acc \in PushState(Item), Kept(rows, changes, acc),
           PushedOnce(rows, old, changes, acc)
    PROVE  PushedOnce(rows, old, changes, PushOne(acc, c, Repos))
<1> DEFINE row == acc.rows[c.id]
<1>1. c \in Item /\ IsChange(c) /\ c.id \in Ids /\ c.expected \in Nat /\ c.stamp \in Int
  BY ItemChange
<1>2. row \in Row /\ rows[c.id] \in Row /\ acc.log \in Seq(Item) /\ acc.rows \in [Ids -> Row]
  BY <1>1 DEF PushState
<1>3. SUFFICES ASSUME NEW new \in PushState(Item),
                      Refuses(acc, c, new) \/ \E rec \in Record : Takes(acc, c, rec, new)
               PROVE  PushedOnce(rows, old, changes, new)
  <2>1. c.repo \in Repos => c.repo \in Repos
    OBVIOUS
  <2>2. QED
    BY <1>1, <2>1, PushOneCases
<1>4. CASE Refuses(acc, c, new)
  BY <1>4 DEF Refuses, PushedOnce
<1>5. ASSUME NEW rec \in Record, Takes(acc, c, rec, new)
      PROVE  PushedOnce(rows, old, changes, new)
  <2>1. Leaves(row, c, rec) /\ new.log = Append(acc.log, c) /\ c.repo \in Repos
        /\ \A id \in Ids : new.rows[id] = IF id = c.id THEN rec ELSE acc.rows[id]
    BY <1>2, <1>5 DEF Takes
  <2>2. /\ rec # None /\ rec.version \in Nat /\ rec.updated = c.stamp
        /\ row = None => rec.version = 1 /\ rec.created = c.stamp
        /\ row # None => /\ rec.version = row.version + 1 /\ rec.created = row.created
                         /\ c.expected = row.version
                         /\ row.version \in Nat /\ row.version # 0 /\ row.created \in Int
    <3> HIDE DEF row
    <3>1. /\ rec # None /\ rec.updated = c.stamp
          /\ row = None => rec.version = 1 /\ rec.created = c.stamp
          /\ row # None => rec.version = row.version + 1 /\ rec.created = row.created
      BY <1>1, <1>2, <2>1, LeavesRecord
    <3>2. rec.version \in Nat
      BY <3>1, RecordTypes DEF Row
    <3>3. row # None => row.version \in Nat /\ row.version # 0 /\ row.created \in Int
      BY <1>2, RecordTypes
    <3>4. row # None => c.expected = row.version
      BY <2>1 DEF Leaves
    <3>5. QED
      BY <3>1, <3>2, <3>3, <3>4
  <2>3. Elements(new.log) = Elements(acc.log) \cup {c}
    BY <1>1, <1>2, <2>1, ElementsAppend
  <2>4. Grown(rows[c.id], row)
    BY <1>1 DEF Kept
  <2>5. rows[c.id] = None => row = None
    <3>1. ASSUME rows[c.id] = None, row # None PROVE FALSE
      <4>1. c.expected = 0
        BY <3>1 DEF Pushable
      <4>2. QED
        BY <2>2, <3>1, <4>1
    <3>2. QED
      BY <3>1
  <2>6. c.expected < rec.version
    <3>1. CASE row # None
      BY <2>2, <3>1
    <3>2. CASE row = None
      <4>1. rows[c.id] = None
        BY <2>4, <3>2 DEF Grown
      <4>2. c.expected = 0
        BY <4>1 DEF Pushable
      <4>3. QED
        BY <2>2, <3>2, <4>2
    <3>3. QED
      BY <3>1, <3>2
  <2>7. ASSUME NEW i \in Elements(acc.log), i.op = c.op PROVE i.expected < c.expected
    <3>1. i \in Elements(old) \cup Elements(changes)
      BY DEF PushedOnce
    <3>2. i.id = c.id
      BY <2>7, <3>1 DEF Pushable, OneRecord
    <3>3. row # None /\ i.expected < row.version
      BY <3>2 DEF PushedOnce, Settled
    <3>4. QED
      BY <2>2, <3>3
  <2>8. Once(new.log)
    BY <1>1, <1>2, <2>1, <2>7, OnceAppend DEF PushedOnce
  <2>9. Settled(Elements(new.log), new.rows)
    <3>1. ASSUME NEW i \in Elements(new.log)
          PROVE  new.rows[i.id] # None /\ i.expected < new.rows[i.id].version
      <4>1. i \in Item /\ i.id \in Ids /\ i.expected \in Nat
        BY <1>1, <1>2, <2>3, ItemChange
      <4>2. CASE i = c
        BY <2>1, <2>2, <2>6, <4>1, <4>2
      <4>3. CASE i # c
        <5>1. acc.rows[i.id] # None /\ i.expected < acc.rows[i.id].version
          BY <2>3, <3>1, <4>3 DEF PushedOnce, Settled
        <5>2. CASE i.id = c.id
          BY <2>1, <2>2, <4>1, <5>1, <5>2
        <5>3. CASE i.id # c.id
          BY <2>1, <4>1, <5>1, <5>3
        <5>4. QED
          BY <5>2, <5>3
      <4>4. QED
        BY <4>2, <4>3
    <3>2. QED
      BY <3>1 DEF Settled
  <2>10. ASSUME NEW id \in Ids
         PROVE  IF rows[id] = None THEN MadeBy(id, changes, new.rows[id])
                                   ELSE AheadOfUTC \/ DatedRow(new.rows[id])
    <3>1. CASE id # c.id
      BY <2>1, <3>1 DEF PushedOnce
    <3>2. CASE id = c.id /\ rows[id] = None
      BY <2>1, <2>2, <2>5, <3>2 DEF MadeBy
    <3>3. CASE id = c.id /\ rows[id] # None /\ ~AheadOfUTC
      <4>1. row # None /\ row.created = rows[id].created
        BY <2>4, <3>3 DEF Grown
      <4>2. Traces(c, rows[id])
        BY <3>3 DEF Pushable
      <4>3. rec.created <= c.stamp
        BY <1>1, <2>2, <3>3, <4>1, <4>2 DEF Traces
      <4>4. QED
        BY <2>1, <2>2, <3>3, <4>3 DEF DatedRow
    <3>4. QED
      BY <3>1, <3>2, <3>3
  <2>11. Elements(new.log) \subseteq Elements(old) \cup Elements(changes)
    BY <2>3 DEF PushedOnce
  <2>12. QED
    BY <2>8, <2>9, <2>10, <2>11 DEF PushedOnce
<1>6. QED
  BY <1>3, <1>4, <1>5

LEMMA TakingOnce ==
    ASSUME TypeOK, NEW changes \in Seq(Item), Pushable(records, log, changes)
    PROVE  PushedOnce(records, log, changes, Taking(changes))
<1> DEFINE start == PushStart(records, log)
           J == {acc \in PushState(Item) :
                   Kept(records, changes, acc) /\ PushedOnce(records, log, changes, acc)}
<1>1. records \in [Ids -> Row] /\ log \in Seq(Item)
  BY DEF TypeOK
<1>2. start \in PushState(Item) /\ Kept(records, changes, start)
  BY <1>1, PushStartState
<1>3. start.rows = records /\ start.log = log
  BY DEF PushStart
<1> HIDE DEF start
<1>4. PushedOnce(records, log, changes, start)
  BY <1>3 DEF PushedOnce, Pushable, MadeBy
<1>5. ASSUME NEW acc \in J, NEW n \in 1..Len(changes)
      PROVE  PushOne(acc, changes[n], Repos) \in J
  <2>1. changes[n] \in Item /\ changes[n] \in Elements(changes)
    BY DEF Elements
  <2> DEFINE c == changes[n]
  <2> HIDE DEF c
  <2>2. /\ c \in Item /\ c \in Elements(changes) /\ IsChange(c)
        /\ c.repo \in Repos => c.repo \in Repos
    BY <2>1, ItemChange DEF c
  <2>3. PushOne(acc, c, Repos) \in PushState(Item)
    BY <2>2, PushOneCases
  <2>4. Kept(records, changes, PushOne(acc, c, Repos))
    BY <1>1, <2>2, PushOneKeeps
  <2>5. PushedOnce(records, log, changes, PushOne(acc, c, Repos))
    BY <1>1, <2>2, PushOneOnce
  <2>6. QED
    BY <2>3, <2>4, <2>5 DEF c
<1>6. start \in J
  BY <1>2, <1>4
<1> HIDE DEF J
<1>7. Pushed(start, changes, Repos) \in J
  BY <1>5, <1>6, PushInduction
<1>8. QED
  BY <1>7 DEF J, Taking, start

-----------------------------------------------------------------------------
\* Steps that change neither the server's records nor its log.

LEMMA HeldParts ==
    ASSUME TypeOK
    PROVE  /\ Held \subseteq Item
           /\ \A d \in Devices : Elements(queue[d]) \subseteq HeldBy(d) /\ HeldBy(d) \subseteq Held
           /\ \A d \in Devices, k \in Runs :
                Elements(sync[d][k].sent) \subseteq HeldBy(d) /\ Elements(sync[d][k].retry) \subseteq Held
           /\ \A changes \in late : Elements(changes) \subseteq Held
<1>1. \A d \in Devices : Elements(queue[d]) \subseteq Item
  BY ItemChange DEF TypeOK
<1>2. \A d \in Devices, k \in Runs :
         Elements(sync[d][k].sent) \subseteq Item /\ Elements(sync[d][k].retry) \subseteq Item
  <2>1. \A x \in Run : x.sent \in Seq(Item) /\ x.retry \in Seq(Item)
    BY DEF Run
  <2>2. QED
    BY <2>1, ItemChange DEF TypeOK
<1>3. \A changes \in late : Elements(changes) \subseteq Item
  BY ItemChange DEF TypeOK
<1>4. QED
  BY <1>1, <1>2, <1>3 DEF Held, HeldBy

\* One call moves on: where what is held then comes from.
LEMMA HeldMoves ==
    ASSUME TInv, NEW d \in Devices, NEW k \in Runs, NEW y, Goto(d, k, y), NEW S, Held \subseteq S,
           \A e \in Devices : Elements(queue'[e]) \subseteq Elements(queue[e]),
           Elements(y.sent) \subseteq HeldBy(d), Elements(y.retry) \subseteq S,
           \A changes \in late' : changes \in late \/ Elements(changes) \subseteq S
    PROVE  Held' \subseteq S /\ \A e \in Devices : HeldBy(e)' \subseteq HeldBy(e)
<1>1. /\ \A e \in Devices : Elements(queue[e]) \subseteq S /\ HeldBy(e) \subseteq S
      /\ \A e \in Devices, m \in Runs :
           /\ Elements(sync[e][m].sent) \subseteq HeldBy(e)
           /\ Elements(sync[e][m].retry) \subseteq S
      /\ \A changes \in late : Elements(changes) \subseteq S
  BY HeldParts DEF TInv
<1>2. \A e \in Devices, m \in Runs :
         sync'[e][m] = IF e = d /\ m = k THEN y ELSE sync[e][m]
  BY DEF Goto, TInv, TypeOK
<1>3. \A e \in Devices, m \in Runs :
         Elements(sync'[e][m].sent) \subseteq HeldBy(e) /\ Elements(sync'[e][m].retry) \subseteq S
  BY <1>1, <1>2
<1>4. \A e \in Devices : HeldBy(e)' \subseteq HeldBy(e)
  <2>1. \A e \in Devices : Elements(queue'[e]) \subseteq HeldBy(e)
    BY HeldParts DEF TInv
  <2>2. \A e \in Devices :
           HeldBy(e)' = {i \in Item : i \in Elements(queue'[e])
                                       \/ \E m \in Runs : i \in Elements(sync'[e][m].sent)}
    BY DEF HeldBy
  <2>3. QED
    BY <1>3, <2>1, <2>2
<1>5. Held' \subseteq S
  BY <1>1, <1>3 DEF Held
<1>6. QED
  BY <1>4, <1>5

\* A change sent again, under the version the record has now; if no device is ahead
\* of UTC, a delete.
Resent(i) ==
    /\ records[i.id] # None
    /\ \E j \in Held : j.op = i.op /\ j.id = i.id /\ j.action = i.action
    /\ AheadOfUTC \/ (~IsEdit(i) /\ records[i.id].created <= i.stamp)

\* An account that comes with its record.
Dates(d, h, rec) == h # None => rec # None /\ h.created = Seen(d, rec.created)

\* The numbers and versions of what is held.
LEMMA HeldNumbered ==
    ASSUME TInv, EInv, records' = records, log' = log, now' \in {now, now + 1},
           \A i \in Held' : i \in Held \/ Resent(i)
    PROVE  /\ Numbered' /\ Unversioned' /\ Settled(Elements(log'), records') /\ Once(log')
           /\ ~AheadOfUTC => Named(Held' \cup Elements(log'))
<1>1. now \in Nat
  BY OpsAssumption DEF TInv, TypeOK
<1>2. \A i \in Held' \cup Elements(log') :
         \E j \in Held \cup Elements(log) : j.op = i.op /\ j.id = i.id /\ (j = i \/ j.action = i.action)
  BY DEF Resent
<1>3. \A j \in Held \cup Elements(log) : j.op \in 1..now
  BY DEF EInv, Numbered
<1>4. \A i \in Held' \cup Elements(log') : i.op \in 1..now'
  BY <1>1, <1>2, <1>3
<1>5. OneRecord(Held' \cup Elements(log'))
  <2>1. OneRecord(Held \cup Elements(log))
    BY DEF EInv, Numbered
  <2>2. QED
    BY <1>2, <2>1 DEF OneRecord
<1>6. ASSUME ~AheadOfUTC PROVE Named(Held' \cup Elements(log'))
  <2>1. Named(Held \cup Elements(log))
    BY <1>6 DEF EInv, InTime
  <2>2. ASSUME NEW i \in Held' \cup Elements(log'), NEW j \in Held' \cup Elements(log'),
               IsEdit(i), i.op = j.op
        PROVE  i = j
    <3>1. i \in Held \cup Elements(log)
      BY <1>6, <2>2 DEF Resent
    <3>2. PICK m \in Held \cup Elements(log) : m.op = j.op /\ (m = j \/ m.action = j.action)
      BY <1>2
    <3>3. i = m
      BY <2>1, <2>2, <3>1, <3>2 DEF Named
    <3>4. CASE j \in Held \cup Elements(log)
      BY <2>1, <2>2, <3>1, <3>4 DEF Named
    <3>5. CASE Resent(j)
      BY <1>6, <2>2, <3>2, <3>3, <3>5 DEF Resent, IsEdit
    <3>6. QED
      BY <3>4, <3>5
  <2>3. QED
    BY <2>2 DEF Named
<1>7. Unversioned'
  <2>1. ASSUME NEW i \in Held', records[i.id] = None PROVE i.expected = 0
    BY <2>1 DEF EInv, Unversioned, Resent
  <2>2. QED
    BY <2>1 DEF Unversioned
<1>8. Settled(Elements(log'), records') /\ Once(log')
  BY DEF EInv
<1>9. QED
  BY <1>4, <1>5, <1>6, <1>7, <1>8 DEF Numbered

LEMMA AccountDates ==
    /\ \A h \in Account : h.created \in Int /\ h.version \in Nat
    /\ TypeOK => \A d \in Devices, id \in Ids : accounts[d][id] # None => accounts[d][id] \in Account
<1>1. \A h \in Account : h.created \in Int /\ h.version \in Nat
  BY OpsAssumption DEF Account
<1>2. TypeOK => \A d \in Devices, id \in Ids : accounts[d][id] # None => accounts[d][id] \in Account
  BY DEF TypeOK
<1>3. QED
  BY <1>1, <1>2

\* What such a step leaves of the server's times.
LEMMA QuietTimes ==
    ASSUME TInv, TInv', VInv, VInv', EInv, ~AheadOfUTC,
           records' = records, log' = log, now' \in {now, now + 1},
           \A i \in Held' : i \in Held \/ Resent(i),
           \A d \in Devices : HeldBy(d)' \subseteq HeldBy(d),
           \A d \in Devices : \A i \in Elements(queue[d]) :
              i \in Elements(queue'[d]) \/ records[i.id] # None,
           \A d \in Devices, id \in Ids :
              \/ accounts'[d][id] = accounts[d][id]
              \/ Dates(d, accounts'[d][id], records[id]),
           \A d \in Devices : draft'[d] # None =>
              \/ draft'[d] = draft[d]
              \/ accounts' = accounts /\ draft'[d].id \in Ids /\ accounts[d][draft'[d].id] # None
                 /\ draft'[d].account = accounts[d][draft'[d].id],
           \A d \in Devices, k \in Runs, id \in Ids :
              sync'[d][k].rows[id] \in {None, sync[d][k].rows[id], records[id]}
    PROVE  InTime'
<1>1. /\ now \in Nat /\ now' \in Nat /\ now <= now'
      /\ Named(Held \cup Elements(log)) /\ Dated /\ Traced /\ Unsent
  BY OpsAssumption DEF TInv, TypeOK, EInv, InTime
<1>2. \A id \in Ids : records[id] # None => records[id].created \in Int /\ records[id].created <= now
  BY <1>1, RecordTypes DEF TInv, TypeOK, Dated
<1>3. \A d \in Devices, id \in Ids : accounts[d][id] # None =>
         /\ SameCreated(d, accounts[d][id], records[id])
         /\ accounts[d][id].created \in Int
  BY <1>1, AccountDates DEF Traced, TInv
<1>4. \A d \in Devices, id \in Ids : records[id] = None => accounts'[d][id] \in {None, accounts[d][id]}
  BY DEF Dates
<1>5. Dated'
  <2>1. \A i \in Held' : records'[i.id] = None => i.stamp <= now'
    <3>1. ASSUME NEW i \in Held', records[i.id] = None PROVE i.stamp <= now'
      <4>1. i \in Held /\ i.stamp \in Int
        BY <3>1, HeldParts, ItemChange DEF Resent, TInv
      <4>2. i.stamp <= now
        BY <1>1, <3>1, <4>1 DEF Dated
      <4>3. QED
        BY <1>1, <4>1, <4>2
    <3>2. QED
      BY <3>1
  <2>2. \A id \in Ids : DatedRow(records'[id]) /\ (records'[id] # None => records'[id].created <= now')
    BY <1>1, <1>2 DEF Dated
  <2>3. ASSUME NEW d \in Devices, NEW k \in Runs, NEW id \in Ids
        PROVE  DatedRow(sync'[d][k].rows[id])
    <3>1. DatedRow(None) /\ DatedRow(sync[d][k].rows[id]) /\ DatedRow(records[id])
      BY <1>1 DEF Dated, DatedRow
    <3>2. sync'[d][k].rows[id] \in {None, sync[d][k].rows[id], records[id]}
      OBVIOUS
    <3>3. QED
      BY <3>1, <3>2
  <2>4. ASSUME NEW d \in Devices, NEW id \in Ids, accounts'[d][id] # None, records[id] = None
        PROVE  accounts'[d][id].created <= now'
    <3>1. accounts'[d][id] = accounts[d][id] /\ accounts[d][id].created \in Int
      BY <1>3, <1>4, <2>4
    <3>2. accounts[d][id].created <= now
      BY <1>1, <2>4, <3>1 DEF Dated
    <3>3. QED
      BY <1>1, <3>1, <3>2
  <2>5. QED
    BY <2>1, <2>2, <2>3, <2>4 DEF Dated
<1>6. Traced'
  <2>1. \A i \in Held' : Traces(i, records'[i.id])
    BY <1>1 DEF Traced, Resent, Traces
  <2>2. \A d \in Devices : \A i \in HeldBy(d)' : Bounded(d, i, records[i.id])
    BY <1>1 DEF Traced
  <2>3. ASSUME NEW d \in Devices, NEW id \in Ids, accounts'[d][id] # None
        PROVE  SameCreated(d, accounts'[d][id], records[id])
    <3>1. CASE accounts'[d][id] = accounts[d][id]
      BY <1>3, <2>3, <3>1
    <3>2. CASE Dates(d, accounts'[d][id], records[id])
      <4>1. records[id] # None /\ accounts'[d][id].created = Seen(d, records[id].created)
        BY <2>3, <3>2 DEF Dates
      <4>2. records[id].created <= Seen(d, records[id].created) /\ Seen(d, records[id].created) \in Int
        BY <1>2, <4>1, SeenLater
      <4>3. QED
        BY <4>1, <4>2 DEF SameCreated
    <3>3. QED
      BY <2>3, <3>1, <3>2
  <2>4. ASSUME NEW d \in Devices, draft'[d] # None
        PROVE  SameCreated(d, draft'[d].account, records[draft'[d].id])
    <3>1. CASE draft'[d] = draft[d]
      BY <1>1, <2>4, <3>1 DEF Traced
    <3>2. CASE draft'[d] # draft[d]
      BY <1>3, <2>4, <3>2
    <3>3. QED
      BY <3>1, <3>2
  <2>5. QED
    BY <2>1, <2>2, <2>3, <2>4 DEF Traced, Bounded, SameCreated, Seen
<1>7. ASSUME NEW i \in Held', records[i.id] = None
      PROVE  /\ \E d \in Devices : \E j \in Elements(queue'[d]) : j.id = i.id
             /\ \A j \in Held' : InOrder(i, j)
             /\ \A d \in Devices : accounts'[d][i.id] # None =>
                   IsEdit(i) /\ i.stamp = accounts'[d][i.id].created
  <2>1. i \in Held
    BY <1>7 DEF Resent
  <2>2. i.id \in Ids
    BY <2>1, HeldParts, ItemChange DEF TInv
  <2>3. \E d \in Devices : \E j \in Elements(queue'[d]) : j.id = i.id
    <3>1. PICK d \in Devices : \E j \in Elements(queue[d]) : j.id = i.id
      BY <1>1, <1>7, <2>1 DEF Unsent
    <3>2. PICK j \in Elements(queue[d]) : j.id = i.id
      BY <3>1
    <3>3. j \in Elements(queue'[d])
      BY <1>7, <3>2
    <3>4. QED
      BY <3>2, <3>3
  <2>4. ASSUME NEW j \in Held' PROVE InOrder(i, j)
    <3>1. CASE j \in Held
      BY <1>1, <1>7, <2>1, <3>1 DEF Unsent
    <3>2. CASE Resent(j)
      BY <1>7, <3>2 DEF Resent, InOrder
    <3>3. QED
      BY <3>1, <3>2
  <2>5. ASSUME NEW d \in Devices, accounts'[d][i.id] # None
        PROVE  IsEdit(i) /\ i.stamp = accounts'[d][i.id].created
    <3>1. accounts'[d][i.id] = accounts[d][i.id]
      BY <1>4, <1>7, <2>2, <2>5
    <3>2. QED
      BY <1>1, <1>7, <2>1, <2>5, <3>1 DEF Unsent
  <2>6. QED
    BY <2>3, <2>4, <2>5
<1>8. ASSUME NEW d \in Devices, NEW e \in Devices, NEW id \in Ids,
             records[id] = None, accounts'[d][id] # None, accounts'[e][id] # None
      PROVE  d = e
  <2>1. accounts[d][id] # None /\ accounts[e][id] # None
    BY <1>4, <1>8
  <2>2. QED
    BY <1>1, <1>8, <2>1 DEF Unsent
<1>9. ASSUME NEW d \in Devices, draft'[d] # None, records[draft'[d].id] = None
      PROVE  draft'[d].account.created = accounts'[d][draft'[d].id].created
  <2>1. CASE draft'[d] = draft[d]
    <3>1. draft[d].id \in Ids
      BY <1>9, <2>1, DraftTypes DEF TInv
    <3>2. draft[d].account.created = accounts[d][draft[d].id].created
      BY <1>1, <1>9, <2>1 DEF Unsent
    <3>3. CASE accounts'[d][draft[d].id] = accounts[d][draft[d].id]
      BY <2>1, <3>2, <3>3
    <3>4. CASE accounts'[d][draft[d].id] = None
      <4>1. records'[draft'[d].id] # None
        BY <1>9, <2>1, <3>4 DEF VInv, DraftsFollow
      <4>2. QED
        BY <1>9, <4>1
    <3>5. QED
      BY <1>4, <1>9, <2>1, <3>1, <3>3, <3>4
  <2>2. CASE draft'[d] # draft[d]
    BY <1>9, <2>2
  <2>3. QED
    BY <2>1, <2>2
<1>10. Unsent'
  BY <1>7, <1>8, <1>9 DEF Unsent
<1>11. Named(Held' \cup Elements(log'))
  BY HeldNumbered
<1>12. QED
  BY <1>5, <1>6, <1>10, <1>11 DEF InTime

LEMMA QuietEdits ==
    ASSUME TInv, TInv', VInv, VInv', EInv, records' = records, log' = log, now' \in {now, now + 1},
           \A i \in Held' : i \in Held \/ Resent(i),
           \A d \in Devices : HeldBy(d)' \subseteq HeldBy(d),
           \A d \in Devices : \A i \in Elements(queue[d]) :
              i \in Elements(queue'[d]) \/ records[i.id] # None,
           \A d \in Devices, id \in Ids :
              \/ accounts'[d][id] = accounts[d][id]
              \/ Dates(d, accounts'[d][id], records[id]),
           \A d \in Devices : draft'[d] # None =>
              \/ draft'[d] = draft[d]
              \/ accounts' = accounts /\ draft'[d].id \in Ids /\ accounts[d][draft'[d].id] # None
                 /\ draft'[d].account = accounts[d][draft'[d].id],
           \A d \in Devices, k \in Runs, id \in Ids :
              sync'[d][k].rows[id] \in {None, sync[d][k].rows[id], records[id]}
    PROVE  EInv'
<1>1. Numbered' /\ Unversioned' /\ Settled(Elements(log'), records') /\ Once(log')
  BY HeldNumbered
<1>2. ~AheadOfUTC => InTime'
  BY QuietTimes
<1>3. QED
  BY <1>1, <1>2, ZonesStay DEF EInv

\* One call moves on, the accounts stay.
LEMMA MovesEdits ==
    ASSUME TInv, TInv', VInv, VInv', EInv,
           UNCHANGED <<records, log, now, accounts, draft>>,
           NEW d \in Devices, NEW k \in Runs, NEW y \in Run, Goto(d, k, y),
           \A id \in Ids : y.rows[id] \in {None, sync[d][k].rows[id], records[id]},
           \A e \in Devices : Elements(queue'[e]) \subseteq Elements(queue[e]),
           \A e \in Devices : \A i \in Elements(queue[e]) :
              i \in Elements(queue'[e]) \/ records[i.id] # None,
           Elements(y.sent) \subseteq HeldBy(d),
           \A i \in Elements(y.retry) : i \in Held \/ Resent(i),
           \A changes \in late' : changes \in late \/ Elements(changes) \subseteq Held
    PROVE  EInv'
<1> DEFINE S == {i \in Item : i \in Held \/ Resent(i)}
<1>1. Held \subseteq S
  BY HeldParts DEF TInv
<1>2. Elements(y.retry) \subseteq S
  <2>1. y.retry \in Seq(Item)
    BY DEF Run
  <2>2. QED
    BY <2>1, ItemChange
<1>3. \A changes \in late' : changes \in late \/ Elements(changes) \subseteq S
  BY <1>1
<1>4. \A i \in S : i \in Held \/ Resent(i)
  OBVIOUS
<1> HIDE DEF S
<1>5. Held' \subseteq S /\ \A e \in Devices : HeldBy(e)' \subseteq HeldBy(e)
  BY <1>1, <1>2, <1>3, HeldMoves
<1>6. \A e \in Devices, m \in Runs, id \in Ids :
         sync'[e][m].rows[id] \in {None, sync[e][m].rows[id], records[id]}
  <2>1. \A e \in Devices, m \in Runs :
           sync'[e][m] = IF e = d /\ m = k THEN y ELSE sync[e][m]
    BY DEF Goto, TInv, TypeOK
  <2>2. QED
    BY <2>1
<1>7. \A i \in Held' : i \in Held \/ Resent(i)
  BY <1>4, <1>5
<1>8. QED
  BY <1>5, <1>6, <1>7, QuietEdits

\* What a call sends is held.
LEMMA RunEdits ==
    ASSUME TInv, EInv, NEW d \in Devices, NEW k \in Runs
    PROVE  /\ sync[d][k] \in Run /\ Elements(<<>>) = {}
           /\ Elements(sync[d][k].sent) \subseteq HeldBy(d) /\ HeldBy(d) \subseteq Held
           /\ Elements(sync[d][k].retry) \subseteq Held
           /\ \A id \in Ids : NoRows[id] = None
<1>1. sync[d][k] \in Run /\ TypeOK
  BY DEF TInv, TypeOK
<1>2. \A id \in Ids : NoRows[id] = None
  BY DEF NoRows
<1>3. QED
  BY <1>1, <1>2, HeldParts, IdleRun

LEMMA StartEdits ==
    ASSUME TInv, TInv', VInv, VInv', EInv, NEW d \in Devices, NEW k \in Runs, Start(d, k)
    PROVE  EInv'
<1> DEFINE y == sync'[d][k]
           queued == Only(queue[d], {x \in Elements(queue[d]) : x.repo = active[d]})
<1>1. /\ y \in Run /\ y.rows = NoRows /\ y.sent = queued /\ y.retry = <<>> /\ Goto(d, k, y)
      /\ UNCHANGED <<records, log, now, accounts, draft, queue, late>>
  <2> DEFINE z == [Idle EXCEPT !.at = IF queued = <<>> THEN "status" ELSE "push",
                               !.repo = active[d], !.sent = queued]
  <2>1. Goto(d, k, z) /\ UNCHANGED <<records, log, now, accounts, draft, queue, late>>
    BY DEF Start, server
  <2>2. z.rows = NoRows /\ z.sent = queued /\ z.retry = <<>>
    BY DEF Idle
  <2> HIDE DEF z
  <2>3. y = z /\ y \in Run
    BY <2>1, GotoSelf DEF TInv, TypeOK
  <2>4. QED
    BY <2>1, <2>2, <2>3
<1>2. Elements(queued) \subseteq Elements(queue[d])
  <2>1. queue[d] \in Seq(Item)
    BY DEF TInv, TypeOK
  <2>2. QED
    BY <2>1, OnlyElements
<1>3. Elements(queue[d]) \subseteq HeldBy(d)
  BY HeldParts DEF TInv
<1>4. Elements(<<>>) = {} /\ \A id \in Ids : NoRows[id] = None
  BY RunEdits
<1> HIDE DEF y, queued
<1>5. Elements(y.sent) \subseteq HeldBy(d) /\ Elements(y.retry) = {}
  BY <1>1, <1>2, <1>3, <1>4
<1>6. QED
  BY <1>1, <1>4, <1>5, MovesEdits

\* Rows are copies of the server's.
LEMMA ServePullEdits ==
    ASSUME TInv, TInv', VInv, VInv', EInv, NEW d \in Devices, NEW k \in Runs, ServePull(d, k)
    PROVE  EInv'
<1> DEFINE x == sync[d][k]
           y == sync'[d][k]
<1>1. /\ x \in Run /\ y \in Run /\ TypeOK
      /\ UNCHANGED <<records, log, now, accounts, draft, queue, late>>
  BY DEF TInv, TypeOK, ServePull, server
<1>2. Goto(d, k, y) /\ y.sent = x.sent /\ y.retry = x.retry
      /\ (y.rows = x.rows \/ \E p, since : y.rows = Rows(p, since))
  <2>1. \E phase, z : /\ Step(d, k, phase, z) /\ z.sent = x.sent /\ z.retry = x.retry /\ z \in Run
                      /\ (z.rows = x.rows \/ \E p, since : z.rows = Rows(p, since))
    <3>1. CASE x.at = "resolve"
      <4> DEFINE rows == Rows(x.repo, Head(x.conflicts).version - 1)
                 z == [x EXCEPT !.rows = rows]
      <4>1. Step(d, k, "resolved", z)
        BY <3>1 DEF ServePull
      <4>2. z.sent = x.sent /\ z.retry = x.retry /\ z.rows = rows
        BY <1>1 DEF Run
      <4>3. z \in Run
        BY <1>1, RowsTypes DEF Run
      <4>4. QED
        BY <4>1, <4>2, <4>3
    <3>2. CASE x.at = "pull"
      <4> DEFINE rows == Rows(x.repo, x.version)
                 z == [x EXCEPT !.rows = rows, !.version = 0]
      <4>1. Step(d, k, "pulling", z)
        BY <3>2 DEF ServePull
      <4>2. z.sent = x.sent /\ z.retry = x.retry /\ z.rows = rows
        BY <1>1 DEF Run
      <4>3. z \in Run
        BY <1>1, RowsTypes DEF Run
      <4>4. QED
        BY <4>1, <4>2, <4>3
    <3>3. CASE x.at \in {"status", "pulling"}
      <4> DEFINE z == [x EXCEPT !.version = repoVersion[x.repo]]
      <4>1. Step(d, k, IF x.at = "status" THEN "statused" ELSE "pulled", z)
        BY <3>3 DEF ServePull
      <4>2. z.sent = x.sent /\ z.retry = x.retry /\ z.rows = x.rows
        BY <1>1 DEF Run
      <4>3. repoVersion[x.repo] \in Nat
        BY <3>3 DEF TInv, TypeOK, Shape
      <4>4. z \in Run
        BY <1>1, <4>3 DEF Run
      <4>5. QED
        BY <4>1, <4>2, <4>4
    <3>4. QED
      BY <3>1, <3>2, <3>3 DEF ServePull
  <2>2. ASSUME NEW phase, NEW z \in Run, Step(d, k, phase, z)
        PROVE  Goto(d, k, y) /\ y.sent = z.sent /\ y.retry = z.retry /\ y.rows = z.rows
    <3>1. Goto(d, k, [z EXCEPT !.at = phase])
      BY <2>2, StepGoto
    <3>2. y = [z EXCEPT !.at = phase]
      BY <3>1, GotoSelf
    <3>3. QED
      BY <2>2, <3>1, <3>2 DEF Run
  <2>3. QED
    BY <2>1, <2>2
<1>3. \A id \in Ids : y.rows[id] = x.rows[id] \/ y.rows[id] \in {None, records[id]}
  BY <1>1, <1>2, RowsTypes
<1>4. Elements(x.sent) \subseteq HeldBy(d) /\ Elements(x.retry) \subseteq Held
  BY RunEdits
<1> HIDE DEF y
<1>5. \A id \in Ids : y.rows[id] \in {None, sync[d][k].rows[id], records[id]}
  BY <1>3
<1> HIDE DEF x
<1>6. Elements(y.sent) \subseteq HeldBy(d) /\ \A i \in Elements(y.retry) : i \in Held
  BY <1>2, <1>4
<1>7. QED
  BY <1>1, <1>2, <1>5, <1>6, MovesEdits

\* What the server accepted is there, so what is cleared from the queue has a record.
LEMMA OnPushedEdits ==
    ASSUME TInv, TInv', VInv, VInv', EInv, NEW d \in Devices, NEW k \in Runs,
           OnPushed(d, k) \/ OnRetried(d, k)
    PROVE  EInv'
<1> DEFINE x == sync[d][k]
           y == sync'[d][k]
           accepted == x.accepted
<1>1. /\ x \in Run /\ y \in Run /\ Goto(d, k, y) /\ y \in {Resolving(x), NextConflict(x)}
      /\ UNCHANGED <<records, log, now, accounts, draft, late>>
      /\ queue' = [queue EXCEPT ![d] = ClearedAccepted(@, accepted)]
  BY DEF TInv, TypeOK, OnPushed, OnRetried, Goto, server
<1>2. y.rows = NoRows /\ y.sent \in {<<>>, x.sent} /\ y.retry = <<>>
  BY <1>1, FreshRuns
<1>3. /\ Elements(x.sent) \subseteq HeldBy(d) /\ Elements(<<>>) = {}
      /\ \A id \in Ids : NoRows[id] = None
  BY RunEdits
<1>4. \A a \in Elements(accepted) : records[a.id] # None
  BY DEF VInv, RepliesFollow, Reached
<1>5. queue \in [Devices -> Seq(Item)]
  BY DEF TInv, TypeOK
<1> HIDE DEF y, accepted
<1>6. \A e \in Devices :
         /\ Elements(queue'[e]) \subseteq Elements(queue[e])
         /\ \A i \in Elements(queue[e]) : i \in Elements(queue'[e]) \/ records[i.id] # None
  <2>1. \A e \in Devices :
           queue'[e] = IF e = d THEN ClearedAccepted(queue[d], accepted) ELSE queue[e]
    BY <1>1, <1>5
  <2>2. Elements(ClearedAccepted(queue[d], accepted)) =
          {i \in Elements(queue[d]) : \A a \in Elements(accepted) :
             ~(i.id = a.id /\ i.expected = a.version - 1)}
    BY <1>5, ClearedElements
  <2>3. QED
    BY <1>4, <2>1, <2>2
<1> HIDE DEF x
<1>7. Elements(y.sent) \subseteq HeldBy(d) /\ Elements(y.retry) = {}
  BY <1>2, <1>3
<1>8. QED
  BY <1>1, <1>2, <1>3, <1>6, <1>7, MovesEdits

LEMMA OnStatusEdits ==
    ASSUME TInv, TInv', VInv, VInv', EInv, NEW d \in Devices, NEW k \in Runs,
           OnStatus(d, k) \/ Fail(d, k)
    PROVE  EInv'
<1> DEFINE x == sync[d][k]
           y == sync'[d][k]
<1>1. /\ x \in Run /\ y \in Run
      /\ UNCHANGED <<records, log, now, accounts, draft, queue>>
      /\ late' \subseteq late \cup {x.sent, x.retry}
  BY DEF TInv, TypeOK, OnStatus, Fail, server
<1>2. Goto(d, k, y) /\ y \in {Idle, NextConflict(x), [[x EXCEPT !.version = cursor[d]] EXCEPT !.at = "pull"]}
  BY DEF OnStatus, Fail, Goto, Step, TInv, TypeOK
<1>3. y.rows \in {NoRows, x.rows} /\ y.sent \in {<<>>, x.sent} /\ y.retry \in {<<>>, x.retry}
  BY <1>1, <1>2, FreshRuns DEF Run
<1>4. /\ Elements(x.sent) \subseteq HeldBy(d) /\ HeldBy(d) \subseteq Held
      /\ Elements(x.retry) \subseteq Held /\ Elements(<<>>) = {}
      /\ \A id \in Ids : NoRows[id] = None
  BY RunEdits
<1> HIDE DEF y
<1>5. \A id \in Ids : y.rows[id] \in {None, sync[d][k].rows[id], records[id]}
  BY <1>3, <1>4
<1> HIDE DEF x
<1>6. \A changes \in late' : changes \in late \/ Elements(changes) \subseteq Held
  BY <1>1, <1>4
<1>7. Elements(y.sent) \subseteq HeldBy(d) /\ \A i \in Elements(y.retry) : i \in Held
  BY <1>3, <1>4
<1>8. QED
  BY <1>1, <1>2, <1>5, <1>6, <1>7, MovesEdits

\* An edit seems no newer than its record, so on a device that is not ahead of UTC
\* only a delete is pushed again.
LEMMA RetriedChange ==
    ASSUME TInv, VInv, EInv, NEW d \in Devices, NEW k \in Runs,
           sync[d][k].at = "resolved",
           sync[d][k].rows[ConflictId(sync[d][k])] # None,
           ConflictItem(sync[d][k]).stamp
              > Seen(d, sync[d][k].rows[ConflictId(sync[d][k])].updated)
    PROVE  Retried(sync[d][k]) \in Item /\ Resent(Retried(sync[d][k]))
<1> DEFINE x == sync[d][k]
           id == ConflictId(x)
           item == ConflictItem(x)
           rec == x.rows[id]
<1>1. x \in Run /\ Shape(x) /\ x.at = "resolved"
  BY DEF TInv, TypeOK
<1>2. /\ id \in Ids /\ rec \in Row /\ rec # None
      /\ item \in Elements(x.sent) /\ item \in Item /\ item.id = id
      /\ Retried(x) \in Item
  BY <1>1, ConflictTypes
<1>3. Retried(x) = [item EXCEPT !.expected = rec.version]
  BY DEF Retried
<1>4. item \in HeldBy(d) /\ item \in Held
  BY <1>2, RunEdits
<1>5. Grown(rec, records[id])
  BY <1>2 DEF VInv, RepliesFollow
<1>6. /\ Retried(x).action = item.action /\ Retried(x).id = id /\ Retried(x).stamp = item.stamp
      /\ Retried(x).op = item.op
  BY <1>2, <1>3 DEF Item
<1>7. item.stamp > Seen(d, rec.updated)
  OBVIOUS
<1>8. ~AheadOfUTC => DatedRow(rec) /\ Bounded(d, item, records[id]) /\ Traces(item, records[id])
  BY <1>2, <1>4 DEF EInv, InTime, Dated, Traced
<1> HIDE DEF x, id, item, rec
<1>9. /\ records[id] # None /\ records[id].created = rec.created
      /\ rec.created \in Int /\ rec.updated \in Int /\ item.stamp \in Int
  BY <1>2, <1>5, RecordTypes, ItemChange DEF Grown
<1>10. ASSUME ~AheadOfUTC PROVE ~IsEdit(item) /\ records[id].created <= item.stamp
  <2>1. Seen(d, rec.created) <= Seen(d, rec.updated)
        /\ Seen(d, rec.created) \in Int /\ Seen(d, rec.updated) \in Int
    BY <1>2, <1>8, <1>9, <1>10, SeenLater DEF DatedRow
  <2>2. ~(item.stamp <= Seen(d, records[id].created))
    BY <1>7, <1>9, <2>1
  <2>3. ~IsEdit(item)
    BY <1>8, <1>9, <1>10, <2>2 DEF Bounded
  <2>4. QED
    BY <1>8, <1>9, <1>10, <2>3 DEF Traces
<1>11. Resent(Retried(x))
  BY <1>2, <1>4, <1>6, <1>9, <1>10 DEF Resent, IsEdit
<1>12. QED
  BY <1>2, <1>11 DEF x

LEMMA OnResolvedEdits ==
    ASSUME TInv, TInv', VInv, VInv', EInv, NEW d \in Devices, NEW k \in Runs, OnResolved(d, k)
    PROVE  EInv'
<1> DEFINE x == sync[d][k]
           id == ConflictId(x)
           rec == x.rows[id]
           z == [x EXCEPT !.retry = <<Retried(x)>>, !.rows = NoRows]
           y == sync'[d][k]
<1>1. x \in Run /\ y \in Run /\ Shape(x)
  BY DEF TInv, TypeOK
<1>2. /\ x.at = "resolved"
      /\ UNCHANGED <<server, accounts, cursor, active, draft, late, now>>
      /\ \/ Goto(d, k, NextConflict(x)) /\ UNCHANGED queue
         \/ /\ rec # None /\ ConflictItem(x).stamp > Seen(d, rec.updated)
            /\ Step(d, k, "retry", z) /\ UNCHANGED queue
         \/ /\ rec # None /\ Goto(d, k, NextConflict(x))
            /\ queue' = [queue EXCEPT ![d] = Cleared(@, id, 0)]
  BY OnResolvedCases
<1>3. Goto(d, k, y) /\ (\/ y = NextConflict(x)
                        \/ /\ y = [z EXCEPT !.at = "retry"] /\ rec # None
                           /\ ConflictItem(x).stamp > Seen(d, rec.updated))
  BY <1>1, <1>2 DEF Goto, Step, TInv, TypeOK
<1>4. /\ Elements(x.sent) \subseteq HeldBy(d) /\ Elements(<<>>) = {}
      /\ \A o \in Ids : NoRows[o] = None
  BY RunEdits
<1>5. /\ y.rows = NoRows /\ Elements(y.sent) \subseteq HeldBy(d)
      /\ \A i \in Elements(y.retry) : Resent(i)
  <2>1. CASE y = NextConflict(x)
    <3>1. y.rows = NoRows /\ y.sent \in {<<>>, x.sent} /\ y.retry = <<>>
      BY <1>1, <2>1, FreshRuns
    <3>2. QED
      BY <1>4, <3>1
  <2>2. CASE /\ y = [z EXCEPT !.at = "retry"] /\ rec # None
             /\ ConflictItem(x).stamp > Seen(d, rec.updated)
    <3>1. y.rows = NoRows /\ y.sent = x.sent /\ y.retry = <<Retried(x)>>
      BY <1>1, <2>2 DEF Run
    <3>2. Resent(Retried(x))
      BY <1>2, <2>2, RetriedChange
    <3>3. Elements(<<Retried(x)>>) = {Retried(x)}
      BY DEF Elements
    <3>4. QED
      BY <1>4, <3>1, <3>2, <3>3
  <2>3. QED
    BY <1>3, <2>1, <2>2
<1>6. UNCHANGED <<records, log, now, accounts, draft, late>>
  BY <1>2 DEF server
<1>7. \A e \in Devices :
         /\ Elements(queue'[e]) \subseteq Elements(queue[e])
         /\ \A i \in Elements(queue[e]) : i \in Elements(queue'[e]) \/ records[i.id] # None
  <2>1. CASE UNCHANGED queue
    BY <2>1
  <2>2. CASE rec # None /\ queue' = [queue EXCEPT ![d] = Cleared(@, id, 0)]
    <3>1. id \in Ids
      BY <1>1, <1>2, ConflictTypes
    <3>2. records[id] # None
      BY <2>2, <3>1 DEF VInv, RepliesFollow, Grown
    <3> HIDE DEF id
    <3>3. \A e \in Devices : Elements(queue'[e]) \subseteq Elements(queue[e])
      BY <2>2, ClearTypes DEF TInv
    <3>4. \A e \in Devices : \A i \in Elements(queue[e]) :
             i \in Elements(queue'[e]) \/ (e = d /\ i.id = id /\ i.expected = 0)
      BY <2>2, ClearTypes DEF TInv
    <3>5. QED
      BY <3>2, <3>3, <3>4
  <2>3. QED
    BY <1>2, <2>1, <2>2
<1> HIDE DEF y, x, z, id, rec
<1>8. \A o \in Ids : y.rows[o] = None
  BY <1>4, <1>5
<1>9. QED
  BY <1>1, <1>3, <1>5, <1>6, <1>7, <1>8, MovesEdits

\* The loop over pulled rows, from accounts that are as before or come with their record.
LEMMA AdvanceEdits ==
    ASSUME TInv, TInv', VInv, VInv', EInv,
           NEW d \in Devices, NEW k \in Runs, NEW x \in Run, x.repo \in Repos,
           \A v \in Elements(x.conflicts) : \E i \in Elements(x.sent) : i.id = v.id,
           NEW acc \in [Ids -> Account \cup {None}], Advance(d, k, x, acc),
           UNCHANGED <<records, log, now, draft, queue, late>>,
           \A id \in Ids : x.rows[id] \in {None, sync[d][k].rows[id]},
           x.sent = sync[d][k].sent, x.retry = sync[d][k].retry,
           \A id \in Ids : acc[id] = accounts[d][id] \/ Dates(d, acc[id], records[id])
    PROVE  EInv'
<1>1. PICK y \in Run : /\ Shape(y) /\ Goto(d, k, y)
                       /\ \A id \in Ids : y.rows[id] \in {None, x.rows[id]}
                       /\ Elements(y.accepted) \subseteq Elements(x.accepted)
                       /\ y.sent \in {<<>>, x.sent} /\ y.retry \in {<<>>, x.retry}
  BY AdvanceEffect
<1>2. /\ \A e \in Devices : e # d => accounts'[e] = accounts[e]
      /\ \A id \in Ids : \/ accounts'[d][id] = acc[id]
                         \/ /\ accounts'[d][id] = None
                            /\ x.rows[id] # None /\ x.rows[id].deleted
  BY AdvanceEffect
<1>3. /\ Elements(sync[d][k].sent) \subseteq HeldBy(d)
      /\ Elements(sync[d][k].retry) \subseteq Held /\ Elements(<<>>) = {}
  BY RunEdits
<1>4. Held' \subseteq Held /\ \A e \in Devices : HeldBy(e)' \subseteq HeldBy(e)
  <2>1. /\ \A e \in Devices : Elements(queue'[e]) \subseteq Elements(queue[e])
        /\ \A changes \in late' : changes \in late
    OBVIOUS
  <2>2. Elements(y.sent) \subseteq HeldBy(d) /\ Elements(y.retry) \subseteq Held
    BY <1>1, <1>3
  <2>3. QED
    BY <1>1, <2>1, <2>2, HeldMoves
<1>5. \A e \in Devices, m \in Runs, id \in Ids :
         sync'[e][m].rows[id] \in {None, sync[e][m].rows[id], records[id]}
  <2>1. \A e \in Devices, m \in Runs :
           sync'[e][m] = IF e = d /\ m = k THEN y ELSE sync[e][m]
    BY <1>1 DEF Goto, TInv, TypeOK
  <2>2. \A id \in Ids : y.rows[id] \in {None, sync[d][k].rows[id]}
    BY <1>1
  <2>3. QED
    BY <2>1, <2>2
<1>6. \A e \in Devices, id \in Ids :
         accounts'[e][id] = accounts[e][id] \/ Dates(e, accounts'[e][id], records[id])
  <2>1. ASSUME NEW e \in Devices, NEW id \in Ids
        PROVE  accounts'[e][id] = accounts[e][id] \/ Dates(e, accounts'[e][id], records[id])
    <3>1. CASE e # d
      BY <1>2, <3>1
    <3>2. CASE e = d
      BY <1>2, <3>2 DEF Dates
    <3>3. QED
      BY <3>1, <3>2
  <2>2. QED
    BY <2>1
<1>7. QED
  BY <1>4, <1>5, <1>6, QuietEdits

LEMMA OnPulledEdits ==
    ASSUME TInv, TInv', VInv, VInv', EInv, NEW d \in Devices, NEW k \in Runs, OnPulled(d, k)
    PROVE  EInv'
<1> DEFINE x == sync[d][k]
           acc == accounts[d]
<1>1. /\ x \in Run /\ x.repo \in Repos /\ acc \in [Ids -> Account \cup {None}]
      /\ \A v \in Elements(x.conflicts) : \E i \in Elements(x.sent) : i.id = v.id
  BY DEF TInv, TypeOK, OnPulled, Shape
<1>2. Advance(d, k, x, acc) /\ UNCHANGED <<records, log, now, draft, queue, late>>
  BY DEF OnPulled, server
<1>3. /\ \A id \in Ids : x.rows[id] \in {None, sync[d][k].rows[id]}
      /\ x.sent = sync[d][k].sent /\ x.retry = sync[d][k].retry
      /\ \A id \in Ids : acc[id] = accounts[d][id]
  OBVIOUS
<1> HIDE DEF x, acc
<1>4. QED
  BY <1>1, <1>2, <1>3, AdvanceEdits

\* The account a row becomes was created when its record was.
LEMMA StoreRowEdits ==
    ASSUME TInv, TInv', VInv, VInv', EInv, NEW d \in Devices, NEW k \in Runs, StoreRow(d, k)
    PROVE  EInv'
<1> DEFINE old == sync[d][k]
           rec == old.rows[old.row]
           x == WithoutRow(old)
           h == Stored(d, rec)
           acc == [accounts[d] EXCEPT ![old.row] = h]
<1>1. /\ old.row \in Ids /\ rec # None /\ rec \in Record
      /\ x \in Run /\ x.repo \in Repos
      /\ \A v \in Elements(x.conflicts) : \E i \in Elements(x.sent) : i.id = v.id
      /\ \A id \in Ids : x.rows[id] \in {None, old.rows[id]}
      /\ x.sent = old.sent /\ x.retry = old.retry
      /\ acc \in [Ids -> Account \cup {None}]
      /\ Advance(d, k, x, acc)
      /\ UNCHANGED <<server, queue, active, draft, late, now>>
  BY StoreRowEffect
<1>2. Grown(rec, records[old.row]) /\ records[old.row] \in Row
  BY <1>1 DEF VInv, RepliesFollow, TInv, TypeOK
<1>3. h.created = Seen(d, rec.created)
  BY DEF Stored
<1>4. accounts[d] \in [Ids -> Account \cup {None}]
  BY DEF TInv, TypeOK
<1>5. \A id \in Ids : acc[id] = IF id = old.row THEN h ELSE accounts[d][id]
  BY <1>1, <1>4
<1>6. UNCHANGED <<records, log, now, draft, queue, late>>
  BY <1>1 DEF server
<1> HIDE DEF x, acc, rec, h
<1>7. Dates(d, h, records[old.row])
  BY <1>1, <1>2, <1>3 DEF Grown, Dates
<1>8. \A id \in Ids : acc[id] = accounts[d][id] \/ Dates(d, acc[id], records[id])
  BY <1>5, <1>7
<1>9. QED
  BY <1>1, <1>6, <1>8, AdvanceEdits

\* Opening, refreshing and leaving an edit screen, another repo.
LEMMA ScreenEdits ==
    ASSUME TInv, TInv', VInv, VInv', EInv, NEW d \in Devices,
           \/ \E id \in Ids : OpenEdit(d, id)
           \/ RefreshEdit(d)
           \/ Crash(d)
           \/ \E p \in Repos : SwitchRepo(d, p)
    PROVE  EInv'
<1>1. UNCHANGED <<records, log, accounts, queue, late>> /\ now' \in {now, now + 1}
  BY DEF OpenEdit, RefreshEdit, Crash, SwitchRepo, Made, server
<1>2. \A e \in Devices, k \in Runs : sync'[e][k] \in {sync[e][k], Idle}
  <2>1. CASE Crash(d)
    BY <2>1 DEF Crash, TInv, TypeOK
  <2>2. CASE ~Crash(d)
    <3>1. sync' = sync
      BY <2>2 DEF OpenEdit, RefreshEdit, SwitchRepo
    <3>2. QED
      BY <3>1
  <2>3. QED
    BY <2>1, <2>2
<1>3. Idle.sent = <<>> /\ Idle.retry = <<>> /\ Elements(<<>>) = {}
      /\ \A id \in Ids : Idle.rows[id] = None
  <2>1. \A id \in Ids : NoRows[id] = None
    BY DEF NoRows
  <2>2. QED
    BY <2>1, IdleRun DEF Idle
<1>4. \A e \in Devices, k \in Runs, id \in Ids :
         sync'[e][k].rows[id] \in {None, sync[e][k].rows[id], records[id]}
  BY <1>2, <1>3
<1>5. (\A i \in Held' : i \in Held) /\ \A e \in Devices : HeldBy(e)' \subseteq HeldBy(e)
  BY <1>1, <1>2, <1>3 DEF Held, HeldBy
<1>6. \A e \in Devices : draft'[e] # None =>
         \/ draft'[e] = draft[e]
         \/ accounts' = accounts /\ draft'[e].id \in Ids /\ accounts[e][draft'[e].id] # None
            /\ draft'[e].account = accounts[e][draft'[e].id]
  BY <1>1, ScreenDrafts
<1>7. \A e \in Devices : \A i \in Elements(queue[e]) :
         i \in Elements(queue'[e]) \/ records[i.id] # None
  BY <1>1
<1>8. QED
  BY <1>1, <1>4, <1>5, <1>6, <1>7, QuietEdits

-----------------------------------------------------------------------------
\* The server takes a push of held changes, or a tombstone is made.

LEMMA TakeEdits ==
    ASSUME TInv, TInv', VInv, EInv,
           NEW changes \in Seq(Item), Elements(changes) \subseteq Held, Take(changes),
           Held' \subseteq Held, \A d \in Devices : HeldBy(d)' \subseteq HeldBy(d),
           UNCHANGED <<accounts, queue, draft, now>>,
           \A d \in Devices, k \in Runs, id \in Ids :
              sync'[d][k].rows[id] \in {None, sync[d][k].rows[id]}
    PROVE  EInv'
<1>1. /\ records \in [Ids -> Row] /\ records' \in [Ids -> Row] /\ TypeOK
      /\ now \in Nat
  BY OpsAssumption DEF TInv, TypeOK
<1>2. Pushable(records, log, changes)
  <2>1. OneRecord(Elements(log) \cup Elements(changes))
    BY DEF EInv, Numbered, OneRecord
  <2>2. \A c \in Elements(changes) : records[c.id] = None => c.expected = 0
    BY DEF EInv, Unversioned
  <2>3. AheadOfUTC \/ /\ \A id \in Ids : DatedRow(records[id])
                      /\ \A c \in Elements(changes) : Traces(c, records[c.id])
    BY DEF EInv, InTime, Dated, Traced
  <2>4. QED
    BY <2>1, <2>2, <2>3 DEF Pushable, EInv
<1>3. /\ PushedOnce(records, log, changes, Taking(changes))
      /\ \A id \in Ids : Grown(records[id], Taking(changes).rows[id])
  BY <1>1, <1>2, TakingOnce, TakingState
<1>4. /\ records' = Taking(changes).rows /\ log' = Taking(changes).log
  BY DEF Take
<1>5. /\ \A id \in Ids : /\ Grown(records[id], records'[id])
                         /\ IF records[id] = None THEN MadeBy(id, changes, records'[id])
                                                  ELSE AheadOfUTC \/ DatedRow(records'[id])
      /\ Elements(log') \subseteq Elements(log) \cup Elements(changes)
      /\ Settled(Elements(log'), records') /\ Once(log')
  BY <1>3, <1>4 DEF PushedOnce
<1>6. Numbered'
  BY <1>5 DEF EInv, Numbered, OneRecord
<1>7. Held \subseteq Item
  BY HeldParts, <1>1
<1>8. \A id \in Ids : records[id] = None /\ records'[id] # None =>
         \E c \in Held : c.id = id /\ records'[id].created = c.stamp /\ records'[id].updated = c.stamp
  BY <1>5 DEF MadeBy
<1>9. \A id \in Ids : records[id] # None =>
         records'[id] # None /\ records'[id].created = records[id].created
  BY <1>5 DEF Grown
<1>10. \A i \in Held' : i \in Held /\ (records'[i.id] = None => records[i.id] = None)
  BY <1>7, <1>9, ItemChange
<1>11. Unversioned'
  BY <1>10 DEF EInv, Unversioned
<1>12. ASSUME ~AheadOfUTC PROVE InTime'
  <2>1. Named(Held \cup Elements(log)) /\ Dated /\ Traced /\ Unsent
    BY <1>12 DEF EInv, InTime
  <2>2. Named(Held' \cup Elements(log'))
    BY <1>5, <2>1 DEF Named
  <2>3. Dated'
    <3>1. ASSUME NEW id \in Ids, records[id] = None, records'[id] # None
          PROVE  DatedRow(records'[id]) /\ records'[id].created <= now
      <4>1. PICK c \in Held : c.id = id /\ records'[id].created = c.stamp /\ records'[id].updated = c.stamp
        BY <1>8, <3>1
      <4>2. c.stamp <= now /\ c.stamp \in Int
        BY <1>7, <2>1, <3>1, <4>1, ItemChange DEF Dated
      <4>3. QED
        BY <4>1, <4>2 DEF DatedRow
    <3>2. ASSUME NEW id \in Ids, records[id] # None
          PROVE  DatedRow(records'[id]) /\ records'[id].created <= now
      BY <1>5, <1>9, <1>12, <2>1, <3>2 DEF Dated
    <3>3. \A id \in Ids : DatedRow(records'[id]) /\ (records'[id] # None => records'[id].created <= now)
      BY <3>1, <3>2 DEF DatedRow
    <3>4. \A i \in Held' : records'[i.id] = None => i.stamp <= now
      BY <1>10, <2>1 DEF Dated
    <3>5. \A d \in Devices, id \in Ids :
             accounts'[d][id] # None /\ records'[id] = None => accounts'[d][id].created <= now
      BY <1>9, <2>1 DEF Dated
    <3>6. ASSUME NEW d \in Devices, NEW k \in Runs, NEW id \in Ids
          PROVE  DatedRow(sync'[d][k].rows[id])
      <4>1. sync'[d][k].rows[id] \in {None, sync[d][k].rows[id]}
        OBVIOUS
      <4>2. DatedRow(sync[d][k].rows[id]) /\ DatedRow(None)
        BY <2>1 DEF Dated, DatedRow
      <4>3. QED
        BY <4>1, <4>2
    <3>7. QED
      BY <3>3, <3>4, <3>5, <3>6 DEF Dated
  <2>4. ASSUME NEW i \in Held, records[i.id] = None, records'[i.id] # None
        PROVE  /\ Traces(i, records'[i.id])
               /\ \A d \in Devices : Bounded(d, i, records'[i.id])
    <3>1. i \in Item /\ i.id \in Ids /\ i.stamp \in Int
      BY <1>7, ItemChange
    <3>2. PICK c \in Held : c.id = i.id /\ records'[i.id].created = c.stamp
      BY <1>8, <2>4, <3>1
    <3>3. c.stamp \in Int
      BY <1>7, ItemChange
    <3>4. InOrder(i, c) /\ InOrder(c, i)
      BY <2>1, <2>4, <3>2 DEF Unsent
    <3>5. i.expected = 0
      BY <2>4 DEF EInv, Unversioned
    <3>6. \A d \in Devices : c.stamp <= Seen(d, c.stamp) /\ Seen(d, c.stamp) \in Int
      BY <1>12, <3>3, SeenLater
    <3>7. Traces(i, records'[i.id])
      BY <3>2, <3>4, <3>5 DEF InOrder, Traces
    <3>8. IsEdit(i) => i.stamp <= c.stamp
      BY <3>2, <3>4 DEF InOrder
    <3>9. \A d \in Devices : Bounded(d, i, records'[i.id])
      BY <3>1, <3>2, <3>3, <3>6, <3>8 DEF Bounded
    <3>10. QED
      BY <3>7, <3>9
  <2>5. ASSUME NEW d \in Devices, NEW id \in Ids, NEW h, records[id] = None, records'[id] # None,
               accounts[d][id] # None, h.created = accounts[d][id].created, h.version = 0
        PROVE  SameCreated(d, h, records'[id])
    <3>1. PICK c \in Held : c.id = id /\ records'[id].created = c.stamp
      BY <1>8, <2>5
    <3>2. c.stamp = accounts[d][id].created
      <4>1. accounts[d][c.id] # None /\ records[c.id] = None
        BY <2>5, <3>1
      <4>2. c.stamp = accounts[d][c.id].created
        BY <2>1, <4>1 DEF Unsent
      <4>3. QED
        BY <3>1, <4>2
    <3>3. c.stamp <= Seen(d, c.stamp)
      BY <1>7, <1>12, ItemChange, SeenLater
    <3>4. QED
      BY <2>5, <3>1, <3>2, <3>3 DEF SameCreated
  <2>6. \A i \in Held' : Traces(i, records'[i.id])
    <3>1. ASSUME NEW i \in Held, records[i.id] # None PROVE Traces(i, records'[i.id])
      BY <1>7, <1>9, <2>1, <3>1, ItemChange DEF Traced, Traces
    <3>2. \A i \in Held : records'[i.id] = None => Traces(i, records'[i.id])
      BY DEF Traces
    <3>3. QED
      BY <1>10, <2>4, <3>1, <3>2
  <2>7. ASSUME NEW d \in Devices, NEW i \in HeldBy(d)' PROVE Bounded(d, i, records'[i.id])
    <3>1. i \in HeldBy(d) /\ i \in Held /\ i.id \in Ids
      BY <1>1, <1>7, HeldParts, ItemChange
    <3>2. CASE records[i.id] # None
      BY <1>9, <2>1, <3>1, <3>2 DEF Traced, Bounded
    <3>3. CASE records'[i.id] = None
      BY <3>3 DEF Bounded
    <3>4. QED
      BY <2>4, <3>1, <3>2, <3>3
  <2>8. ASSUME NEW d \in Devices, NEW id \in Ids, accounts[d][id] # None
        PROVE  SameCreated(d, accounts[d][id], records'[id])
    <3>1. CASE records[id] # None
      BY <1>9, <2>1, <2>8, <3>1 DEF Traced, SameCreated
    <3>2. CASE records[id] = None /\ records'[id] # None
      <4>1. accounts[d][id].version = 0
        BY <2>8, <3>2 DEF VInv, AccountsFollow, Follows
      <4>2. QED
        BY <2>5, <2>8, <3>2, <4>1
    <3>3. QED
      BY <3>1, <3>2 DEF SameCreated
  <2>9. ASSUME NEW d \in Devices, draft[d] # None
        PROVE  SameCreated(d, draft[d].account, records'[draft[d].id])
    <3>1. draft[d].id \in Ids
      BY <1>1, <2>9, DraftTypes
    <3>2. CASE records[draft[d].id] # None
      BY <1>9, <2>1, <2>9, <3>1, <3>2 DEF Traced, SameCreated
    <3>3. CASE records[draft[d].id] = None /\ records'[draft[d].id] # None
      <4>1. draft[d].account.version = 0 /\ accounts[d][draft[d].id] # None
        BY <2>9, <3>3 DEF VInv, DraftsFollow, Follows
      <4>2. draft[d].account.created = accounts[d][draft[d].id].created
        BY <2>1, <2>9, <3>3 DEF Unsent
      <4>3. QED
        BY <2>5, <3>1, <3>3, <4>1, <4>2
    <3>4. QED
      BY <3>2, <3>3 DEF SameCreated
  <2>10. Traced'
    BY <2>6, <2>7, <2>8, <2>9 DEF Traced, Bounded, SameCreated, Seen
  <2>11. Unsent'
    <3>1. \A i \in Held' : records'[i.id] = None =>
             /\ \E d \in Devices : \E j \in Elements(queue'[d]) : j.id = i.id
             /\ \A j \in Held' : InOrder(i, j)
             /\ \A d \in Devices : accounts'[d][i.id] # None =>
                   IsEdit(i) /\ i.stamp = accounts'[d][i.id].created
      BY <1>10, <2>1 DEF Unsent
    <3>2. \A d, e \in Devices, id \in Ids :
             records'[id] = None /\ accounts'[d][id] # None /\ accounts'[e][id] # None => d = e
      BY <1>9, <2>1 DEF Unsent
    <3>3. ASSUME NEW d \in Devices, draft[d] # None, records'[draft[d].id] = None
          PROVE  draft[d].account.created = accounts[d][draft[d].id].created
      <4>1. records[draft[d].id] = None
        BY <1>1, <1>9, <3>3, DraftTypes
      <4>2. QED
        BY <2>1, <3>3, <4>1 DEF Unsent
    <3>4. QED
      BY <3>1, <3>2, <3>3 DEF Unsent
  <2>12. QED
    BY <2>2, <2>3, <2>10, <2>11 DEF InTime
<1>13. QED
  BY <1>5, <1>6, <1>11, <1>12, ZonesStay DEF EInv

LEMMA ServePushEdits ==
    ASSUME TInv, TInv', VInv, EInv, NEW d \in Devices, NEW k \in Runs, ServePush(d, k)
    PROVE  EInv'
<1> DEFINE x == sync[d][k]
           changes == IF x.at = "push" THEN x.sent ELSE x.retry
           reply == Taking(changes)
           phase == IF x.at = "push" THEN "pushed" ELSE "retried"
           y == [IF x.at = "push"
                 THEN [x EXCEPT !.accepted = reply.accepted, !.conflicts = reply.conflicts]
                 ELSE [x EXCEPT !.accepted = reply.accepted, !.retry = <<>>] EXCEPT !.at = phase]
<1>1. x \in Run /\ changes \in Seq(Item)
  BY DEF TInv, TypeOK, Run
<1>2. Take(changes) /\ UNCHANGED <<accounts, queue, draft, late, now>>
  BY DEF ServePush
<1>3. Goto(d, k, y)
  BY DEF ServePush, Step, Goto
<1>4. y.rows = x.rows /\ y.sent = x.sent /\ y.retry \in {<<>>, x.retry}
  BY <1>1 DEF Run
<1>5. /\ Elements(x.sent) \subseteq HeldBy(d) /\ HeldBy(d) \subseteq Held
      /\ Elements(x.retry) \subseteq Held /\ Elements(<<>>) = {}
  BY RunEdits
<1>6. Elements(changes) \subseteq Held
  BY <1>5
<1> HIDE DEF y, reply, changes
<1>7. Held' \subseteq Held /\ \A e \in Devices : HeldBy(e)' \subseteq HeldBy(e)
  <2>1. /\ \A e \in Devices : Elements(queue'[e]) \subseteq Elements(queue[e])
        /\ \A c \in late' : c \in late
    BY <1>2
  <2>2. Elements(y.sent) \subseteq HeldBy(d) /\ Elements(y.retry) \subseteq Held
    BY <1>4, <1>5
  <2>3. QED
    BY <1>3, <2>1, <2>2, HeldMoves
<1>8. \A e \in Devices, m \in Runs, id \in Ids : sync'[e][m].rows[id] = sync[e][m].rows[id]
  <2>1. \A e \in Devices, m \in Runs :
           sync'[e][m] = IF e = d /\ m = k THEN y ELSE sync[e][m]
    BY <1>3 DEF Goto, TInv, TypeOK
  <2>2. QED
    BY <1>4, <2>1
<1>9. QED
  BY <1>1, <1>2, <1>6, <1>7, <1>8, TakeEdits

LEMMA ServeLateEdits == ASSUME TInv, TInv', VInv, EInv, ServeLate PROVE EInv'
<1>1. PICK changes \in late : Take(changes) /\ late' = late \ {changes}
  BY DEF ServeLate
<1>2. changes \in Seq(Item) /\ Elements(changes) \subseteq Held
  BY HeldParts DEF TInv, TypeOK
<1>3. UNCHANGED <<accounts, queue, draft, now, sync>>
  BY DEF ServeLate
<1>4. Held' \subseteq Held /\ \A e \in Devices : HeldBy(e)' \subseteq HeldBy(e)
  BY <1>1, <1>3 DEF Held, HeldBy
<1>5. \A e \in Devices, m \in Runs, id \in Ids : sync'[e][m].rows[id] = sync[e][m].rows[id]
  BY <1>3
<1>6. QED
  BY <1>1, <1>2, <1>3, <1>4, <1>5, TakeEdits

LEMMA TombstoneEdits == ASSUME TInv, TInv', VInv, EInv, NEW id \in Ids, Tombstone(id) PROVE EInv'
<1>1. /\ records \in [Ids -> Row] /\ records[id] # None /\ TypeOK
      /\ records' = [records EXCEPT ![id] = Tombstoned(records[id])]
      /\ UNCHANGED <<accounts, queue, draft, sync, late, log>>
      /\ now' = now + 1
  BY DEF Tombstone, TInv, TypeOK, Made
<1>2. now \in Nat
  BY OpsAssumption DEF TInv, TypeOK
<1>3. \A o \in Ids :
         /\ records'[o] = None <=> records[o] = None
         /\ records[o] # None =>
              /\ records'[o].created = records[o].created /\ records'[o].updated = records[o].updated
              /\ records[o].created \in Int
              /\ records[o].version \in Nat /\ records'[o].version \in Nat
              /\ records[o].version <= records'[o].version
  <2>1. ASSUME NEW o \in Ids, o # id PROVE records'[o] = records[o]
    BY <1>1, <2>1
  <2>2. \A o \in Ids : records[o] # None =>
           records[o] \in Record /\ records[o].version \in Nat /\ records[o].created \in Int
    BY <1>1, RecordTypes
  <2>3. records'[id] = Tombstoned(records[id])
    BY <1>1
  <2>4. /\ records'[id].created = records[id].created /\ records'[id].updated = records[id].updated
        /\ records'[id].version = records[id].version + 1
    BY <1>1, <2>2, <2>3 DEF Tombstoned, Record
  <2>5. records'[id] # None
    <3>1. records[id].version + 1 \in Version
      BY <1>1, <2>2 DEF Version
    <3>2. Tombstoned(records[id]) \in Record
      BY <1>1, <2>2, <3>1 DEF Tombstoned, Record
    <3>3. QED
      BY <2>3, <3>2, NoneAssumption
  <2>6. QED
    BY <1>1, <2>1, <2>2, <2>4, <2>5
<1>4. /\ Held' = Held /\ Held \subseteq Item
      /\ \A d \in Devices : HeldBy(d)' = HeldBy(d) /\ HeldBy(d) \subseteq Held
  BY <1>1, HeldParts DEF Held, HeldBy
<1>5. \A i \in Held \cup Elements(log) : i.op \in 1..now /\ i \in Item /\ i.id \in Ids
  <2>1. Elements(log) \subseteq Item
    BY ItemChange DEF TInv, TypeOK
  <2>2. QED
    BY <1>4, <2>1, ItemChange DEF EInv, Numbered
<1>6. Numbered' /\ Unversioned'
  <2>1. \A i \in Held' \cup Elements(log') : i.op \in 1..now'
    BY <1>1, <1>2, <1>4, <1>5
  <2>2. OneRecord(Held' \cup Elements(log'))
    BY <1>1, <1>4 DEF EInv, Numbered
  <2>3. \A i \in Held' : records'[i.id] = None => i.expected = 0
    BY <1>3, <1>4, <1>5 DEF EInv, Unversioned
  <2>4. QED
    BY <2>1, <2>2, <2>3 DEF Numbered, Unversioned
<1>7. Settled(Elements(log'), records') /\ Once(log')
  <2>1. ASSUME NEW i \in Elements(log)
        PROVE  records'[i.id] # None /\ i.expected < records'[i.id].version
    <3>1. i.id \in Ids /\ i.expected \in Nat
      BY <1>5, ItemChange
    <3>2. records[i.id] # None /\ i.expected < records[i.id].version
      BY DEF EInv, Settled
    <3>3. QED
      BY <1>3, <3>1, <3>2
  <2>2. QED
    BY <1>1, <2>1 DEF EInv, Settled
<1>8. ASSUME ~AheadOfUTC PROVE InTime'
  <2>1. Named(Held \cup Elements(log)) /\ Dated /\ Traced /\ Unsent
    BY <1>8 DEF EInv, InTime
  <2>2. Dated'
    <3>1. \A i \in Held' : records'[i.id] = None => i.stamp <= now'
      BY <1>1, <1>2, <1>3, <1>4, <2>1, ItemChange DEF Dated
    <3>2. \A o \in Ids : DatedRow(records'[o]) /\ (records'[o] # None => records'[o].created <= now')
      BY <1>1, <1>2, <1>3, <2>1 DEF Dated, DatedRow
    <3>3. \A d \in Devices, o \in Ids :
             accounts'[d][o] # None /\ records'[o] = None => accounts'[d][o].created <= now'
      BY <1>1, <1>2, <1>3, <2>1, AccountDates DEF Dated
    <3>4. \A d \in Devices, k \in Runs, o \in Ids : DatedRow(sync'[d][k].rows[o])
      BY <1>1, <2>1 DEF Dated
    <3>5. QED
      BY <3>1, <3>2, <3>3, <3>4 DEF Dated
  <2>3. Traced'
    <3>1. \A i \in Held' : Traces(i, records'[i.id])
      BY <1>3, <1>4, <1>5, <2>1 DEF Traced, Traces
    <3>2. \A d \in Devices : \A i \in HeldBy(d)' : Bounded(d, i, records'[i.id])
      <4>1. ASSUME NEW d \in Devices, NEW i \in HeldBy(d) PROVE Bounded(d, i, records'[i.id])
        <5>1. Bounded(d, i, records[i.id]) /\ i.id \in Ids
          BY <1>4, <1>5, <2>1 DEF Traced
        <5>2. QED
          BY <1>3, <5>1 DEF Bounded
      <4>2. QED
        BY <1>4, <4>1
    <3>3. \A d \in Devices, o \in Ids :
             accounts'[d][o] # None => SameCreated(d, accounts'[d][o], records'[o])
      BY <1>1, <1>3, <2>1 DEF Traced, SameCreated
    <3>4. ASSUME NEW d \in Devices, draft'[d] # None
          PROVE  SameCreated(d, draft'[d].account, records'[draft'[d].id])
      <4>1. draft'[d] = draft[d] /\ draft[d].id \in Ids
            /\ SameCreated(d, draft[d].account, records[draft[d].id])
        BY <1>1, <2>1, <3>4, DraftTypes DEF Traced
      <4>2. QED
        BY <1>3, <4>1 DEF SameCreated
    <3>5. QED
      BY <3>1, <3>2, <3>3, <3>4 DEF Traced, Bounded, SameCreated, Seen
  <2>4. Unsent'
    <3>1. \A i \in Held : records'[i.id] = None <=> records[i.id] = None
      BY <1>3, <1>5
    <3>2. \A i \in Held' : records'[i.id] = None =>
             /\ \E d \in Devices : \E j \in Elements(queue'[d]) : j.id = i.id
             /\ \A j \in Held' : InOrder(i, j)
             /\ \A d \in Devices : accounts'[d][i.id] # None =>
                   IsEdit(i) /\ i.stamp = accounts'[d][i.id].created
      BY <1>1, <1>4, <2>1, <3>1 DEF Unsent
    <3>3. \A d, e \in Devices, o \in Ids :
             records'[o] = None /\ accounts'[d][o] # None /\ accounts'[e][o] # None => d = e
      BY <1>1, <1>3, <2>1 DEF Unsent
    <3>4. ASSUME NEW d \in Devices, draft'[d] # None, records'[draft'[d].id] = None
          PROVE  draft'[d].account.created = accounts'[d][draft'[d].id].created
      <4>1. draft'[d] = draft[d] /\ records[draft[d].id] = None
        BY <1>1, <1>3, <3>4, DraftTypes
      <4>2. QED
        BY <1>1, <2>1, <3>4, <4>1 DEF Unsent
    <3>5. QED
      BY <3>2, <3>3, <3>4 DEF Unsent
  <2>5. Named(Held' \cup Elements(log'))
    BY <1>1, <1>4, <2>1
  <2>6. QED
    BY <2>2, <2>3, <2>4, <2>5 DEF InTime
<1>9. QED
  BY <1>6, <1>7, <1>8, ZonesStay DEF EInv

-----------------------------------------------------------------------------
\* The users' changes: one new item, and the account of its record changes.

LEMMA NewItemHeld ==
    ASSUME TInv, NEW d \in Devices, NEW item, Queued(d, item), UNCHANGED <<sync, late>>
    PROVE  /\ Held' = Held \cup {item} /\ item \in Item /\ item \in Elements(queue'[d])
           /\ \A e \in Devices : Elements(queue[e]) \subseteq Elements(queue'[e])
           /\ \A e \in Devices : HeldBy(e)' \subseteq IF e = d THEN HeldBy(e) \cup {item} ELSE HeldBy(e)
<1>1. /\ item \in Item /\ item \in Elements(queue'[d])
      /\ Elements(queue'[d]) = Elements(queue[d]) \cup {item}
      /\ \A e \in Devices : e # d => queue'[e] = queue[e]
  BY DEF Queued
<1>2. \A i : (\E e \in Devices : i \in Elements(queue'[e]))
              <=> (\E e \in Devices : i \in Elements(queue[e])) \/ i = item
  BY <1>1
<1>3. Held' = Held \cup {item}
  BY <1>1, <1>2 DEF Held
<1>4. \A e \in Devices : HeldBy(e)' \subseteq IF e = d THEN HeldBy(e) \cup {item} ELSE HeldBy(e)
  <2>1. ASSUME NEW e \in Devices, NEW i \in HeldBy(e)', i \notin HeldBy(e)
        PROVE  e = d /\ i = item
    BY <1>1, <2>1 DEF HeldBy
  <2>2. QED
    BY <2>1
<1>5. QED
  BY <1>1, <1>3, <1>4

\* The item, and the account h that the change leaves on d, are dated as the record is.
Leaving(d, id, item, h) ==
    /\ Traces(item, records[id]) /\ Bounded(d, item, records[id])
    /\ h # None => SameCreated(d, h, records[id])
    /\ records[id] = None =>
         /\ item.stamp <= now'
         /\ h # None => IsEdit(item) /\ item.stamp = h.created
         /\ \A e \in Devices : e # d => accounts[e][id] = None
         /\ \A j \in Held : j.id = id => InOrder(item, j) /\ InOrder(j, item)
                                         /\ (h # None => IsEdit(j) /\ j.stamp = h.created)

LEMMA NewItemTimes ==
    ASSUME TInv, TInv', VInv, VInv', EInv, ~AheadOfUTC, Made, UNCHANGED <<records, log, sync, late>>,
           NEW d \in Devices, NEW id \in Ids, NEW item, Queued(d, item),
           item.id = id, item.op = now',
           NEW h, accounts' = [accounts EXCEPT ![d][id] = h],
           draft' = [draft EXCEPT ![d] = None],
           Leaving(d, id, item, h)
    PROVE  InTime'
<1>1. /\ now \in Nat /\ now' = now + 1 /\ TypeOK
      /\ Held' = Held \cup {item} /\ Held \subseteq Item /\ item \in Item
      /\ item \in Elements(queue'[d])
      /\ \A e \in Devices : Elements(queue[e]) \subseteq Elements(queue'[e])
      /\ \A e \in Devices : HeldBy(e)' \subseteq IF e = d THEN HeldBy(e) \cup {item} ELSE HeldBy(e)
  BY MadeTypes, NewItemHeld, HeldParts DEF TInv
<1>2. \A e \in Devices, o \in Ids :
         accounts'[e][o] = IF e = d /\ o = id THEN h ELSE accounts[e][o]
  BY DEF TInv, TypeOK
<1>3. \A e \in Devices : draft'[e] = IF e = d THEN None ELSE draft[e]
  BY DEF TInv, TypeOK
<1>4. Named(Held \cup Elements(log)) /\ Dated /\ Traced /\ Unsent
  BY DEF EInv, InTime
<1>5. Named(Held' \cup Elements(log'))
  <2>1. \A i \in Held \cup Elements(log) : i.op # now'
    BY <1>1 DEF EInv, Numbered
  <2>2. Held' \cup Elements(log') = (Held \cup Elements(log)) \cup {item}
    BY <1>1
  <2>3. QED
    BY <1>4, <2>1, <2>2 DEF Named
<1>6. Dated'
  <2>1. \A i \in Held' : records'[i.id] = None => i.stamp <= now'
    BY <1>1, <1>4, ItemChange DEF Dated, Leaving
  <2>2. \A o \in Ids : DatedRow(records'[o]) /\ (records'[o] # None => records'[o].created <= now')
    <3>1. \A o \in Ids : records[o] # None => records[o].created \in Int
      BY RecordTypes DEF TInv, TypeOK
    <3>2. QED
      BY <1>1, <1>4, <3>1 DEF Dated
  <2>3. ASSUME NEW e \in Devices, NEW o \in Ids, accounts'[e][o] # None, records[o] = None
        PROVE  accounts'[e][o].created <= now'
    <3>1. CASE e = d /\ o = id
      BY <1>2, <2>3, <3>1 DEF Leaving
    <3>2. CASE ~(e = d /\ o = id)
      <4>1. accounts'[e][o] = accounts[e][o] /\ accounts[e][o].created \in Int
        BY <1>1, <1>2, <2>3, <3>2, AccountDates
      <4>2. accounts[e][o].created <= now
        BY <1>4, <2>3, <4>1 DEF Dated
      <4>3. QED
        BY <1>1, <4>1, <4>2
    <3>3. QED
      BY <3>1, <3>2
  <2>4. \A e \in Devices, k \in Runs, o \in Ids : DatedRow(sync'[e][k].rows[o])
    BY <1>4 DEF Dated
  <2>5. QED
    BY <2>1, <2>2, <2>3, <2>4 DEF Dated
<1>7. Traced'
  <2>1. \A i \in Held' : Traces(i, records'[i.id])
    BY <1>1, <1>4 DEF Traced, Leaving
  <2>2. \A e \in Devices : \A i \in HeldBy(e)' : Bounded(e, i, records'[i.id])
    BY <1>1, <1>4 DEF Traced, Leaving
  <2>3. \A e \in Devices, o \in Ids :
           accounts'[e][o] # None => SameCreated(e, accounts'[e][o], records'[o])
    BY <1>2, <1>4 DEF Traced, Leaving
  <2>4. \A e \in Devices : draft'[e] # None => SameCreated(e, draft'[e].account, records'[draft'[e].id])
    BY <1>3, <1>4 DEF Traced
  <2>5. QED
    BY <2>1, <2>2, <2>3, <2>4 DEF Traced, Bounded, SameCreated, Seen
<1>8. ASSUME NEW i \in Held', records[i.id] = None
      PROVE  /\ \E e \in Devices : \E j \in Elements(queue'[e]) : j.id = i.id
             /\ \A j \in Held' : InOrder(i, j)
             /\ \A e \in Devices : accounts'[e][i.id] # None =>
                   IsEdit(i) /\ i.stamp = accounts'[e][i.id].created
  <2>1. i \in Item /\ i.id \in Ids /\ (i = item \/ i \in Held)
    BY <1>1, <1>8, ItemChange
  <2>2. \E e \in Devices : \E j \in Elements(queue'[e]) : j.id = i.id
    <3>1. CASE i = item
      BY <1>1, <3>1
    <3>2. CASE i \in Held
      <4>1. PICK e \in Devices : \E j \in Elements(queue[e]) : j.id = i.id
        BY <1>4, <1>8, <3>2 DEF Unsent
      <4>2. QED
        BY <1>1, <4>1
    <3>3. QED
      BY <2>1, <3>1, <3>2
  <2>3. ASSUME NEW j \in Held' PROVE InOrder(i, j)
    <3>1. j = item \/ j \in Held
      BY <1>1
    <3>2. CASE i \in Held /\ j \in Held
      BY <1>4, <1>8, <3>2 DEF Unsent
    <3>3. CASE i = item /\ j = item
      BY <2>1, <3>3, ItemChange DEF InOrder
    <3>4. CASE i.id # j.id
      BY <3>4 DEF InOrder
    <3>5. CASE i.id = j.id /\ i = item /\ j \in Held
      BY <1>8, <3>5 DEF Leaving
    <3>6. CASE i.id = j.id /\ j = item /\ i \in Held
      BY <1>8, <3>6 DEF Leaving
    <3>7. QED
      BY <2>1, <3>1, <3>2, <3>3, <3>4, <3>5, <3>6
  <2>4. ASSUME NEW e \in Devices, accounts'[e][i.id] # None
        PROVE  IsEdit(i) /\ i.stamp = accounts'[e][i.id].created
    <3>1. CASE i.id # id
      <4>1. i \in Held /\ accounts'[e][i.id] = accounts[e][i.id]
        BY <1>2, <2>1, <3>1
      <4>2. QED
        BY <1>4, <1>8, <2>4, <4>1 DEF Unsent
    <3>2. CASE i.id = id
      <4>1. e = d /\ accounts'[e][i.id] = h
        BY <1>2, <1>8, <2>4, <3>2 DEF Leaving
      <4>2. QED
        BY <1>8, <2>1, <2>4, <3>2, <4>1 DEF Leaving
    <3>3. QED
      BY <3>1, <3>2
  <2>5. QED
    BY <2>2, <2>3, <2>4
<1>9. ASSUME NEW e \in Devices, NEW f \in Devices, NEW o \in Ids,
             records[o] = None, accounts'[e][o] # None, accounts'[f][o] # None
      PROVE  e = f
  <2>1. CASE o # id
    BY <1>2, <1>4, <1>9, <2>1 DEF Unsent
  <2>2. CASE o = id
    BY <1>2, <1>9, <2>2 DEF Leaving
  <2>3. QED
    BY <2>1, <2>2
<1>10. ASSUME NEW e \in Devices, draft'[e] # None, records[draft'[e].id] = None
       PROVE  draft'[e].account.created = accounts'[e][draft'[e].id].created
  <2>1. e # d /\ draft'[e] = draft[e] /\ draft[e] # None
    BY <1>3, <1>10
  <2>2. draft[e].id \in Ids
    BY <1>1, <2>1, DraftTypes
  <2>3. accounts'[e][draft[e].id] = accounts[e][draft[e].id]
    BY <1>2, <2>1, <2>2
  <2>4. draft[e].account.created = accounts[e][draft[e].id].created
    BY <1>4, <1>10, <2>1 DEF Unsent
  <2>5. QED
    BY <2>1, <2>3, <2>4
<1>11. Unsent'
  BY <1>8, <1>9, <1>10 DEF Unsent
<1>12. QED
  BY <1>5, <1>6, <1>7, <1>11 DEF InTime

LEMMA NewItemEdits ==
    ASSUME TInv, TInv', VInv, VInv', EInv, Made, UNCHANGED <<records, log, sync, late>>,
           NEW d \in Devices, NEW id \in Ids, NEW item, Queued(d, item),
           item.id = id, item.op = now', records[id] = None => item.expected = 0,
           NEW h, accounts' = [accounts EXCEPT ![d][id] = h],
           draft' = [draft EXCEPT ![d] = None],
           AheadOfUTC \/ Leaving(d, id, item, h)
    PROVE  EInv'
<1>1. now \in Nat /\ now' = now + 1 /\ Held' = Held \cup {item}
  BY MadeTypes, NewItemHeld DEF TInv
<1>2. \A i \in Held \cup Elements(log) : i.op \in 1..now
  BY DEF EInv, Numbered
<1>3. Numbered'
  <2>1. \A i \in Held' \cup Elements(log') : i.op \in 1..now'
    BY <1>1, <1>2
  <2>2. \A i \in Held \cup Elements(log) : i.op # now'
    BY <1>1, <1>2
  <2>3. OneRecord(Held \cup Elements(log))
    BY DEF EInv, Numbered
  <2>4. OneRecord(Held' \cup Elements(log'))
    BY <1>1, <2>2, <2>3 DEF OneRecord
  <2>5. QED
    BY <2>1, <2>4 DEF Numbered
<1>4. Unversioned'
  BY <1>1 DEF EInv, Unversioned
<1>5. Settled(Elements(log'), records') /\ Once(log')
  BY DEF EInv
<1>6. ~AheadOfUTC => InTime'
  BY NewItemTimes
<1>7. QED
  BY <1>3, <1>4, <1>5, <1>6, ZonesStay DEF EInv

\* Nothing held is about a record that is neither on the server nor in a queue.
LEMMA AddEdits ==
    ASSUME TInv, TInv', VInv, VInv', EInv, NEW d \in Devices, NEW id \in Ids, Add(d, id)
    PROVE  EInv'
<1> DEFINE h == [blob |-> now', version |-> 0, created |-> now']
           item == [id |-> id, repo |-> active[d], blob |-> now', expected |-> 0,
                    stamp |-> now', op |-> now', action |-> "create"]
<1>1. /\ TypeOK /\ Made /\ records[id] = None /\ draft[d] = None
      /\ UNCHANGED <<records, log, sync, late, draft>>
      /\ accounts' = [accounts EXCEPT ![d][id] = h]
      /\ Queue(d, id, "create", now', 0, now')
  BY DEF TInv, Add, Unused, server
<1>2. /\ \A e \in Devices : accounts[e][id] = None
      /\ \A e \in Devices : \A x \in Elements(queue[e]) : x.id # id
  BY DEF Add, Unused
<1>3. now' \in Nat /\ Queued(d, item)
  <2>1. "create" \in Actions /\ 0 \in Nat
    BY DEF Actions
  <2>2. QED
    BY <1>1, <2>1, MadeTypes, QueueAdds
<1>4. ~AheadOfUTC => \A j \in Held : j.id # id
  BY <1>1, <1>2 DEF EInv, InTime, Unsent
<1>5. draft' = [draft EXCEPT ![d] = None]
  BY <1>1 DEF TypeOK
<1>6. /\ item.id = id /\ item.op = now' /\ item.stamp = now' /\ item.expected = 0 /\ IsEdit(item)
      /\ h.created = now' /\ now' <= now'
  BY <1>3 DEF IsEdit
<1> HIDE DEF item, h
<1>7. ~AheadOfUTC => Leaving(d, id, item, h)
  BY <1>1, <1>2, <1>4, <1>6 DEF Leaving, SameCreated, Traces, Bounded
<1>8. QED
  BY <1>1, <1>3, <1>5, <1>6, <1>7, NewItemEdits

LEMMA SaveEditEdits ==
    ASSUME TInv, TInv', VInv, VInv', EInv, NEW d \in Devices, SaveEdit(d) PROVE EInv'
<1> DEFINE id == draft[d].id
           old == draft[d].account
           h == [old EXCEPT !.blob = now']
           isUpdate == accounts[d][id] # None
           action == IF isUpdate THEN "update" ELSE "create"
           expected == IF isUpdate THEN old.version ELSE 0
           item == [id |-> id, repo |-> active[d], blob |-> now', expected |-> expected,
                    stamp |-> old.created, op |-> now', action |-> action]
<1>1. /\ TypeOK /\ Made /\ draft[d] # None
      /\ accounts' = [accounts EXCEPT ![d][id] = h]
      /\ draft' = [draft EXCEPT ![d] = None]
      /\ UNCHANGED <<records, log, sync, late>>
      /\ Queue(d, id, action, now', expected, old.created)
  BY DEF TInv, SaveEdit, server
<1>2. id \in Ids /\ old \in Account /\ old.version \in Nat /\ old.created \in Stamps
  BY <1>1, DraftTypes
<1>3. action \in Actions /\ expected \in Nat
  BY <1>2 DEF Actions
<1>4. Queued(d, item)
  <2> HIDE DEF id, old, action, expected
  <2>1. QED
    BY <1>1, <1>2, <1>3, MadeTypes, QueueAdds
<1>5. h.version = old.version /\ h.created = old.created /\ old.created \in Int
  BY <1>2, OpsAssumption DEF Account
<1>6. /\ item.id = id /\ item.op = now' /\ item.stamp = old.created /\ item.expected = expected
      /\ IsEdit(item) /\ (expected # 0 => expected = old.version)
  BY DEF IsEdit
<1>7. records[id] = None => old.version = 0 /\ accounts[d][id] # None
  BY <1>1 DEF VInv, DraftsFollow, Follows
<1>8. ~AheadOfUTC => Dated /\ Traced /\ Unsent
  BY DEF EInv, InTime
<1>9. ~AheadOfUTC =>
         /\ SameCreated(d, old, records[id])
         /\ records[id] = None => old.created = accounts[d][id].created
  BY <1>1, <1>8 DEF Traced, Unsent
<1> HIDE DEF id, old, h, isUpdate, action, expected, item
<1>10. now \in Nat /\ now' = now + 1
  BY <1>1, MadeTypes
<1>11. ASSUME ~AheadOfUTC PROVE Leaving(d, id, item, h)
  <2>1. Traces(item, records[id]) /\ Bounded(d, item, records[id])
    BY <1>6, <1>9, <1>11 DEF Traces, Bounded, SameCreated
  <2>2. SameCreated(d, h, records[id])
    BY <1>5, <1>9, <1>11 DEF SameCreated
  <2>3. records[id] = None => old.created <= now'
    <3>1. records[id] = None => old.created <= now
      BY <1>2, <1>7, <1>8, <1>9, <1>11 DEF Dated
    <3>2. QED
      BY <1>5, <1>10, <3>1
  <2>4. records[id] = None => \A e \in Devices : e # d => accounts[e][id] = None
    BY <1>2, <1>7, <1>8, <1>11 DEF Unsent
  <2>5. ASSUME records[id] = None, NEW j \in Held, j.id = id
        PROVE  InOrder(item, j) /\ InOrder(j, item) /\ IsEdit(j) /\ j.stamp = h.created
    <3>1. IsEdit(j) /\ j.stamp = old.created
      BY <1>7, <1>8, <1>9, <1>11, <2>5 DEF Unsent
    <3>2. QED
      BY <1>5, <1>6, <3>1 DEF InOrder
  <2>6. QED
    BY <1>5, <1>6, <2>1, <2>2, <2>3, <2>4, <2>5 DEF Leaving
<1>12. records[id] = None => item.expected = 0
  BY <1>6, <1>7
<1>13. QED
  BY <1>1, <1>2, <1>4, <1>6, <1>11, <1>12, NewItemEdits

LEMMA DeleteEdits ==
    ASSUME TInv, TInv', VInv, VInv', EInv, NEW d \in Devices, NEW id \in Ids, Delete(d, id)
    PROVE  EInv'
<1> DEFINE old == accounts[d][id]
           item == [id |-> id, repo |-> active[d], blob |-> old.blob, expected |-> old.version,
                    stamp |-> now', op |-> now', action |-> "delete"]
<1>1. /\ TypeOK /\ Made /\ old # None
      /\ accounts' = [accounts EXCEPT ![d][id] = None]
      /\ draft' = [draft EXCEPT ![d] = None]
      /\ UNCHANGED <<records, log, sync, late>>
      /\ Queue(d, id, "delete", old.blob, old.version, now')
  BY DEF TInv, Delete, server
<1>2. old.blob \in Blobs /\ old.version \in Nat /\ "delete" \in Actions
  BY <1>1 DEF TypeOK, Account, Actions
<1>3. Queued(d, item)
  <2> HIDE DEF old
  <2>1. QED
    BY <1>1, <1>2, MadeTypes, QueueAdds
<1>4. /\ item.id = id /\ item.op = now' /\ item.stamp = now' /\ item.expected = old.version
      /\ ~IsEdit(item)
  BY DEF IsEdit
<1>5. now \in Nat /\ now' = now + 1
  BY <1>1, MadeTypes
<1>6. records[id] = None => old.version = 0
  BY <1>1 DEF VInv, AccountsFollow, Follows
<1>7. ~AheadOfUTC => Dated /\ Traced /\ Unsent
  BY DEF EInv, InTime
<1>8. ASSUME ~AheadOfUTC, records[id] = None, NEW j \in Held, j.id = id
      PROVE  IsEdit(j) /\ j.stamp <= now /\ j.stamp \in Int
  <2>1. j.stamp \in Int
    BY <1>1, HeldParts, ItemChange
  <2>2. QED
    BY <1>1, <1>7, <1>8, <2>1 DEF Dated, Unsent
<1>9. ~AheadOfUTC /\ records[id] # None => records[id].created <= now /\ records[id].created \in Int
  BY <1>7, RecordTypes DEF Dated, TInv, TypeOK
<1>10. ~AheadOfUTC /\ records[id] = None => \A e \in Devices : e # d => accounts[e][id] = None
  BY <1>1, <1>7 DEF Unsent
<1> DEFINE h == None
<1>11. h = None /\ accounts' = [accounts EXCEPT ![d][id] = h]
  BY <1>1
<1> HIDE DEF old, item, h
<1>12. ASSUME ~AheadOfUTC PROVE Leaving(d, id, item, h)
  <2>1. Traces(item, records[id]) /\ Bounded(d, item, records[id])
    BY <1>4, <1>5, <1>9, <1>12 DEF Traces, Bounded
  <2>2. ASSUME records[id] = None, NEW j \in Held, j.id = id
        PROVE  InOrder(item, j) /\ InOrder(j, item)
    BY <1>4, <1>5, <1>8, <1>12, <2>2 DEF InOrder
  <2>3. item.stamp <= now'
    BY <1>4, <1>5
  <2>4. QED
    BY <1>10, <1>11, <1>12, <2>1, <2>2, <2>3 DEF Leaving
<1>13. records[id] = None => item.expected = 0
  BY <1>4, <1>6
<1>14. QED
  BY <1>1, <1>3, <1>4, <1>11, <1>12, <1>13, NewItemEdits

-----------------------------------------------------------------------------
LEMMA InitEdits == ASSUME Init PROVE EInv
<1>1. \A id \in Ids : NoRows[id] = None
  BY DEF NoRows
<1>2. Idle.sent = <<>> /\ Idle.retry = <<>> /\ \A id \in Ids : Idle.rows[id] = None
  BY <1>1 DEF Idle
<1>3. Elements(<<>>) = {} /\ log = <<>>
  BY IdleRun DEF Init
<1>4. \A d \in Devices, k \in Runs : sync[d][k] = Idle
  BY DEF Init
<1>5. \A i : i \notin Held /\ \A d \in Devices : i \notin HeldBy(d)
  BY <1>2, <1>3, <1>4 DEF Held, HeldBy, Init
<1>6. /\ \A id \in Ids : records[id] = None
      /\ \A d \in Devices : draft[d] = None /\ \A id \in Ids : accounts[d][id] = None
  BY <1>1 DEF Init
<1>7. Numbered /\ Unversioned /\ Settled(Elements(log), records) /\ Once(log)
      /\ Named(Held \cup Elements(log))
  BY <1>3, <1>5 DEF Numbered, OneRecord, Unversioned, Settled, Once, Named
<1>8. Dated
  BY <1>2, <1>4, <1>5, <1>6 DEF Dated, DatedRow
<1>9. Traced /\ Unsent
  BY <1>5, <1>6 DEF Traced, Unsent
<1>10. QED
  BY <1>7, <1>8, <1>9 DEF EInv, InTime

LEMMA NextEdits ==
    ASSUME TInv, TInv', VInv, VInv', EInv, [Next]_vars PROVE EInv'
<1>1. CASE UNCHANGED vars
  <2>1. /\ UNCHANGED <<records, log, now, accounts, draft, queue, sync, late>>
    BY <1>1 DEF vars, server
  <2>2. Held' = Held /\ \A d \in Devices : HeldBy(d)' = HeldBy(d)
    BY <2>1 DEF Held, HeldBy
  <2>3. \A d \in Devices, k \in Runs, id \in Ids : sync'[d][k].rows[id] = sync[d][k].rows[id]
    BY <2>1
  <2>4. QED
    BY <2>1, <2>2, <2>3, QuietEdits
<1>2. ASSUME NEW d \in Devices, User(d) PROVE EInv'
  BY <1>2, AddEdits, ScreenEdits, SaveEditEdits, DeleteEdits DEF User
<1>3. ASSUME NEW d \in Devices, NEW k \in Runs,
             Start(d, k) \/ Device(d, k) \/ Server(d, k) \/ Fail(d, k)
      PROVE  EInv'
  BY <1>3, StartEdits, OnPushedEdits, OnResolvedEdits, OnStatusEdits, OnPulledEdits,
     StoreRowEdits, ServePushEdits, ServePullEdits DEF Device, Server
<1>4. QED
  BY <1>1, <1>2, <1>3, ServeLateEdits, TombstoneEdits DEF Next

\* A change that is taken twice is a delete, or a device is ahead of UTC.
LEMMA EditsAreOnce == ASSUME TInv, EInv PROVE EditsTakenOnce
<1> SUFFICES ASSUME NEW i \in DOMAIN log, NEW j \in DOMAIN log, i < j, log[i].op = log[j].op
             PROVE  /\ log[i].expected < log[j].expected
                    /\ log[i].action = "delete" \/ AheadOfUTC
  BY DEF EditsTakenOnce
<1>1. log[i].expected < log[j].expected
  BY DEF EInv, Once
<1>2. log[i] \in Elements(log) /\ log[j] \in Elements(log) /\ log[i].expected \in Nat
  <2>1. log \in Seq(Item)
    BY DEF TInv, TypeOK
  <2>2. log[i] \in Item
    BY <2>1
  <2>3. QED
    BY <2>2, ItemChange DEF Elements
<1>3. ASSUME ~AheadOfUTC, IsEdit(log[i]) PROVE FALSE
  <2>1. log[i] = log[j]
    BY <1>2, <1>3 DEF EInv, InTime, Named
  <2>2. QED
    BY <1>1, <1>2, <2>1
<1>4. QED
  BY <1>1, <1>3 DEF IsEdit

(***************************************************************************)
(* For any number of devices in any zones, overlapping syncs, lost         *)
(* replies, repeated and late pushes: the server takes a change again only *)
(* under a newer version, and where no device is ahead of UTC it takes no  *)
(* new account and no edit twice.                                          *)
(***************************************************************************)
THEOREM EditsOnce == Spec => []EditsTakenOnce
<1>1. Init => EInv
  BY InitEdits
<1>2. TInv /\ TInv' /\ VInv /\ VInv' /\ EInv /\ [Next]_vars => EInv'
  BY NextEdits
<1>3. TInv /\ EInv => EditsTakenOnce
  BY EditsAreOnce
<1>4. QED
  BY <1>1, <1>2, <1>3, SystemTypes, SystemFollows, PTL DEF Spec

=============================================================================
