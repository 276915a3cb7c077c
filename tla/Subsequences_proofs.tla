------------------------- MODULE Subsequences_proofs -------------------------
(***************************************************************************)
(* What Only returns, for every sequence and set.  Both need induction,    *)
(* which is had from the least element of a set of naturals (WFMin).       *)
(***************************************************************************)
EXTENDS Subsequences, WellFoundedInduction, SequenceTheorems, TLAPS

\* Induction over the naturals, for a set of them.
LEMMA SetInduction ==
    ASSUME NEW S, 0 \in S, \A n \in Nat : n \in S => n + 1 \in S
    PROVE  \A n \in Nat : n \in S
<1>1. IsWellFoundedOn(OpToRel(<, Nat), Nat)
  BY NatLessThanWellFounded
<1> DEFINE T == Nat \ S
<1>2. SUFFICES ASSUME T # {} PROVE FALSE
  OBVIOUS
<1>3. PICK x \in T : \A y \in T : ~ (<<y, x>> \in OpToRel(<, Nat))
  BY <1>1, <1>2, WFMin
<1>4. x # 0 /\ x \in Nat
  OBVIOUS
<1>5. x - 1 \in Nat /\ x - 1 \notin T
  <2>1. x - 1 \in Nat /\ x - 1 < x
    BY <1>4
  <2>2. <<x - 1, x>> \in OpToRel(<, Nat)
    BY <1>4, <2>1 DEF OpToRel
  <2>3. QED
    BY <1>3, <2>1, <2>2
<1>6. QED
  BY <1>5

\* The recursive definition of OnlyTo has a solution.
LEMMA OnlyToDefined ==
    ASSUME NEW X, NEW s \in Seq(X), NEW S
    PROVE  OnlyTo(s, S) =
             [n \in 0..Len(s) |->
                IF n = 0 THEN <<>>
                ELSE IF s[n] \in S THEN Append(OnlyTo(s, S)[n - 1], s[n])
                ELSE OnlyTo(s, S)[n - 1]]
<1> DEFINE Solves(f, m) ==
             /\ f = [n \in 0..m |-> f[n]]
             /\ \A n \in 0..m :
                  f[n] = IF n = 0 THEN <<>>
                         ELSE IF s[n] \in S THEN Append(f[n - 1], s[n]) ELSE f[n - 1]
           I == {m \in Nat : \E f : Solves(f, m)}
<1>1. 0 \in I
  <2>1. Solves([n \in 0..0 |-> <<>>], 0)
    OBVIOUS
  <2>2. QED
    BY <2>1
<1>2. ASSUME NEW m \in Nat, m \in I PROVE m + 1 \in I
  <2>1. PICK f : Solves(f, m)
    BY <1>2
  <2> DEFINE g == [n \in 0..m + 1 |->
                     IF n <= m THEN f[n]
                     ELSE IF s[n] \in S THEN Append(f[n - 1], s[n]) ELSE f[n - 1]]
  <2>2. \A n \in 0..m : g[n] = f[n]
    OBVIOUS
  <2>3. g[m + 1] = IF s[m + 1] \in S THEN Append(f[m], s[m + 1]) ELSE f[m]
    OBVIOUS
  <2>4. g = [n \in 0..m + 1 |-> g[n]]
    OBVIOUS
  <2> HIDE DEF g
  <2>5. ASSUME NEW n \in 0..m + 1
        PROVE  g[n] = IF n = 0 THEN <<>>
                      ELSE IF s[n] \in S THEN Append(g[n - 1], s[n]) ELSE g[n - 1]
    <3>1. CASE n <= m
      <4>1. f[n] = IF n = 0 THEN <<>>
                   ELSE IF s[n] \in S THEN Append(f[n - 1], s[n]) ELSE f[n - 1]
        BY <2>1, <3>1
      <4>2. g[n] = f[n] /\ (n # 0 => g[n - 1] = f[n - 1])
        BY <2>2, <3>1
      <4>3. QED
        BY <4>1, <4>2
    <3>2. CASE n = m + 1
      BY <2>2, <2>3, <3>2
    <3>3. QED
      BY <3>1, <3>2
  <2>6. Solves(g, m + 1)
    BY <2>4, <2>5
  <2>7. QED
    BY <2>6
<1> HIDE DEF I
<1>3. Len(s) \in I
  BY <1>1, <1>2, SetInduction
<1>4. PICK f : Solves(f, Len(s))
  BY <1>3 DEF I
<1>5. f = [n \in 0..Len(s) |->
             IF n = 0 THEN <<>>
             ELSE IF s[n] \in S THEN Append(f[n - 1], s[n]) ELSE f[n - 1]]
  BY <1>4
<1>6. QED
  BY <1>5 DEF OnlyTo

LEMMA ElementsAppend ==
    ASSUME NEW X, NEW s \in Seq(X), NEW x \in X
    PROVE  Elements(Append(s, x)) = Elements(s) \cup {x}
<1> DEFINE t == Append(s, x)
<1>1. DOMAIN t = 1..Len(s) + 1 /\ DOMAIN s = 1..Len(s) /\ Len(s) \in Nat
  OBVIOUS
<1>2. (\A i \in 1..Len(s) : t[i] = s[i]) /\ t[Len(s) + 1] = x
  OBVIOUS
<1> HIDE DEF t
<1>3. Elements(t) = Elements(s) \cup {x}
  BY <1>1, <1>2 DEF Elements
<1>4. QED
  BY <1>3 DEF t

LEMMA ElementsConcat ==
    ASSUME NEW X, NEW s \in Seq(X), NEW t \in Seq(X)
    PROVE  s \o t \in Seq(X) /\ Elements(s \o t) = Elements(s) \cup Elements(t)
<1> DEFINE u == s \o t
<1>1. /\ DOMAIN u = 1..Len(s) + Len(t) /\ DOMAIN s = 1..Len(s) /\ DOMAIN t = 1..Len(t)
      /\ Len(s) \in Nat /\ Len(t) \in Nat /\ u \in Seq(X)
  OBVIOUS
<1>2. (\A i \in 1..Len(s) : u[i] = s[i]) /\ (\A i \in 1..Len(t) : u[Len(s) + i] = t[i])
  OBVIOUS
<1> HIDE DEF u
<1>3. \A i \in DOMAIN u : i \in DOMAIN s \/ (i - Len(s) \in DOMAIN t /\ u[i] = t[i - Len(s)])
  BY <1>1, <1>2
<1>4. Elements(u) \subseteq Elements(s) \cup Elements(t)
  BY <1>1, <1>2, <1>3 DEF Elements
<1>5. Elements(s) \subseteq Elements(u)
  BY <1>1, <1>2 DEF Elements
<1>6. Elements(t) \subseteq Elements(u)
  <2>1. \A i \in DOMAIN t : Len(s) + i \in DOMAIN u
    BY <1>1
  <2>2. QED
    BY <1>1, <1>2, <2>1 DEF Elements
<1>7. QED
  BY <1>1, <1>4, <1>5, <1>6 DEF u

\* A sequence with an element has a head, which is one; the tail has no others.
LEMMA ElementsHeadTail ==
    ASSUME NEW X, NEW s \in Seq(X)
    PROVE  /\ Elements(s) \subseteq X /\ Elements(<<>>) = {}
           /\ s # <<>> => /\ Head(s) \in Elements(s) /\ Head(s) \in X
                          /\ Tail(s) \in Seq(X) /\ Elements(Tail(s)) \subseteq Elements(s)
<1>1. Elements(s) \subseteq X /\ Elements(<<>>) = {}
  BY DEF Elements
<1>2. ASSUME s # <<>>
      PROVE  /\ Head(s) \in Elements(s) /\ Head(s) \in X
             /\ Tail(s) \in Seq(X) /\ Elements(Tail(s)) \subseteq Elements(s)
  <2>1. Head(s) = s[1] /\ 1 \in DOMAIN s
    BY <1>2
  <2>2. Head(s) \in Elements(s) /\ Head(s) \in X
    BY <2>1 DEF Elements
  <2> DEFINE t == Tail(s)
  <2>3. /\ t \in Seq(X) /\ \A i \in DOMAIN t : i + 1 \in DOMAIN s /\ t[i] = s[i + 1]
    BY <1>2
  <2> HIDE DEF t
  <2>4. Elements(t) \subseteq Elements(s)
    BY <2>3 DEF Elements
  <2>5. QED
    BY <2>2, <2>3, <2>4 DEF t
<1>3. QED
  BY <1>1, <1>2

(***************************************************************************)
(* Only(s, S) is a sequence of the elements of s that are in S, and has    *)
(* no more of them than s has.                                             *)
(***************************************************************************)
THEOREM OnlyElements ==
    ASSUME NEW X, NEW s \in Seq(X), NEW S
    PROVE  /\ Only(s, S) \in Seq(X)
           /\ Elements(Only(s, S)) = Elements(s) \cap S
           /\ Len(Only(s, S)) <= Len(s)
<1> DEFINE f == OnlyTo(s, S)
           I == {n \in Nat : n <= Len(s) =>
                   /\ f[n] \in Seq(X)
                   /\ Elements(f[n]) = {s[i] : i \in 1..n} \cap S
                   /\ Len(f[n]) <= n}
<1>1. f[0] = <<>> /\ \A n \in 1..Len(s) :
        f[n] = IF s[n] \in S THEN Append(f[n - 1], s[n]) ELSE f[n - 1]
  <2> HIDE DEF f
  <2>1. f = [n \in 0..Len(s) |->
               IF n = 0 THEN <<>>
               ELSE IF s[n] \in S THEN Append(f[n - 1], s[n]) ELSE f[n - 1]]
    BY OnlyToDefined DEF f
  <2> DEFINE R(n) == IF n = 0 THEN <<>>
                     ELSE IF s[n] \in S THEN Append(f[n - 1], s[n]) ELSE f[n - 1]
  <2>2. f = [n \in 0..Len(s) |-> R(n)]
    BY <2>1
  <2> HIDE DEF R
  <2>3. \A n \in 0..Len(s) : f[n] = R(n)
    BY <2>2
  <2>4. Len(s) \in Nat
    OBVIOUS
  <2>5. f[0] = R(0) /\ \A n \in 1..Len(s) : f[n] = R(n)
    BY <2>3, <2>4
  <2>6. R(0) = <<>>
    BY DEF R
  <2>7. ASSUME NEW n \in 1..Len(s)
        PROVE  R(n) = IF s[n] \in S THEN Append(f[n - 1], s[n]) ELSE f[n - 1]
    BY DEF R
  <2>8. QED
    BY <2>5, <2>6, <2>7
<1> HIDE DEF f
<1>2. 0 \in I
  <2>1. Elements(<<>>) = {} /\ {s[i] : i \in 1..0} \cap S = {}
    BY DEF Elements
  <2>2. <<>> \in Seq(X) /\ Len(<<>>) <= 0
    OBVIOUS
  <2>3. f[0] \in Seq(X) /\ Elements(f[0]) = {s[i] : i \in 1..0} \cap S /\ Len(f[0]) <= 0
    BY <1>1, <2>1, <2>2, Zenon
  <2>4. QED
    BY <2>3
<1>3. ASSUME NEW n \in Nat, n \in I PROVE n + 1 \in I
  <2> SUFFICES ASSUME n + 1 <= Len(s)
               PROVE  /\ f[n + 1] \in Seq(X)
                      /\ Elements(f[n + 1]) = {s[i] : i \in 1..n + 1} \cap S
                      /\ Len(f[n + 1]) <= n + 1
    OBVIOUS
  <2>1. /\ f[n] \in Seq(X) /\ Len(f[n]) <= n
        /\ Elements(f[n]) = {s[i] : i \in 1..n} \cap S
    BY <1>3
  <2>2. f[n + 1] = IF s[n + 1] \in S THEN Append(f[n], s[n + 1]) ELSE f[n]
    BY <1>1
  <2>3. s[n + 1] \in X
    OBVIOUS
  <2>4. {s[i] : i \in 1..n + 1} = {s[i] : i \in 1..n} \cup {s[n + 1]}
    OBVIOUS
  <2>5. Elements(Append(f[n], s[n + 1])) = Elements(f[n]) \cup {s[n + 1]}
    BY <2>1, <2>3, ElementsAppend
  <2> HIDE DEF I
  <2>6. QED
    BY <2>1, <2>2, <2>3, <2>4, <2>5
<1> HIDE DEF I
<1>4. Len(s) \in I
  BY <1>2, <1>3, SetInduction
<1>5. Elements(s) = {s[i] : i \in 1..Len(s)}
  BY DEF Elements
<1>6. QED
  BY <1>4, <1>5 DEF I, f, Only
=============================================================================
