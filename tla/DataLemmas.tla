----------------------------- MODULE DataLemmas -----------------------------
(***************************************************************************)
(* What the operators of Picking return, for every sequence and every set  *)
(* of positions, and those of HandleTable, for every table: the lemmas the *)
(* proofs of the components share.                                         *)
(***************************************************************************)
EXTENDS Picking, HandleTable, FiniteSetTheorems, SequenceTheorems, TLAPS

(* The positions of a set have ranks 1..Cardinality(S), each exactly once. *)
LEMMA RankBijective ==
  ASSUME NEW S, IsFiniteSet(S), S \subseteq Nat
  PROVE  /\ Cardinality(S) \in Nat
         /\ \A i \in S : Rank(S, i) \in 1..Cardinality(S)
         /\ \A i, j \in S : Rank(S, i) = Rank(S, j) => i = j
         /\ \A j \in 1..Cardinality(S) : \E i \in S : Rank(S, i) = j
<1> DEFINE upTo(i) == {k \in S : k <= i}
           n == Cardinality(S)
           f == [i \in S |-> Cardinality(upTo(i))]
<1>1. n \in Nat
  BY FS_CardinalityType
<1>2. ASSUME NEW i \in S
      PROVE  IsFiniteSet(upTo(i)) /\ Cardinality(upTo(i)) \in 1..n
  <2>1. IsFiniteSet(upTo(i)) /\ Cardinality(upTo(i)) <= n
    BY FS_Subset, upTo(i) \in SUBSET S
  <2>2. Cardinality(upTo(i)) \in Nat
    BY <2>1, FS_CardinalityType
  <2>3. i \in upTo(i)
    BY S \subseteq Nat
  <2>4. Cardinality(upTo(i)) # 0
    BY <2>1, <2>3, FS_EmptySet
  <2>5. QED
    BY <1>1, <2>1, <2>2, <2>4
<1>3. ASSUME NEW i \in S, NEW j \in S, i < j
      PROVE  Cardinality(upTo(i)) # Cardinality(upTo(j))
  <2>0. i < j /\ i \in Nat /\ j \in Nat /\ \A k \in S : k \in Nat
    BY <1>3, S \subseteq Nat
  <2>1. \A k \in S : k <= i => k <= j
    BY <2>0
  <2>2. j \in upTo(j) /\ j \notin upTo(i)
    BY <2>0
  <2>3. Cardinality(upTo(i)) = Cardinality(upTo(j)) => upTo(j) = upTo(i)
    BY <1>2, <2>1, upTo(i) \in SUBSET upTo(j), FS_Subset
  <2>4. QED
    BY <2>2, <2>3
<1>4. f \in Injection(S, 1..n)
  <2>1. f \in [S -> 1..n]
    BY <1>2
  <2>2. ASSUME NEW i \in S, NEW j \in S, f[i] = f[j]
        PROVE  i = j
    <3>1. i \in Nat /\ j \in Nat
      BY S \subseteq Nat
    <3>2. ~(i < j) /\ ~(j < i)
      BY <1>3, <2>2
    <3>3. QED
      BY <3>1, <3>2
  <2>3. QED
    BY <2>1, <2>2 DEF Injection, IsInjective
<1>5. IsFiniteSet(1..n) /\ Cardinality(1..n) = n
  BY <1>1, FS_Interval
<1>6. f \in Surjection(S, 1..n)
  BY <1>4, <1>5, FS_Injection
<1>7. \A i \in S : f[i] = Rank(S, i)
  BY DEF Rank
<1>8. \A i \in S : f[i] \in 1..n
  BY <1>2
<1>9. \A i, j \in S : f[i] = f[j] => i = j
  BY <1>4 DEF Injection, IsInjective
<1>10. \A j \in 1..n : \E i \in S : f[i] = j
  BY <1>6 DEF Surjection
<1> HIDE DEF f
<1>11. QED
  BY <1>1, <1>7, <1>8, <1>9, <1>10

(* Pick(q, S) holds exactly the elements of q at the positions in S, once  *)
(* each if q holds every element once.                                     *)
LEMMA PickFacts ==
  ASSUME NEW T, NEW q \in Seq(T), NEW S \in SUBSET DOMAIN q
  PROVE  /\ Pick(q, S) \in Seq(T)
         /\ Elements(Pick(q, S)) = {q[i] : i \in S}
         /\ Distinct(q) => Distinct(Pick(q, S))
<1> DEFINE n == Cardinality(S)
           at(j) == CHOOSE i \in S : Rank(S, i) = j
<1>1. S \subseteq Nat /\ IsFiniteSet(S)
  <2>1. DOMAIN q = 1..Len(q) /\ Len(q) \in Nat
    OBVIOUS
  <2>2. IsFiniteSet(1..Len(q))
    BY <2>1, FS_Interval
  <2>3. QED
    BY <2>1, <2>2, FS_Subset
<1>2. n \in Nat /\ \A j \in 1..n : at(j) \in S /\ Rank(S, at(j)) = j
  <2>1. n \in Nat /\ \A j \in 1..n : \E i \in S : Rank(S, i) = j
    BY <1>1, RankBijective
  <2>2. QED
    BY <2>1
<1>3. \A i \in S : q[i] \in T
  OBVIOUS
<1>4. Pick(q, S) = [j \in 1..n |-> q[at(j)]]
  BY DEF Pick
<1>5. Pick(q, S) \in Seq(T)
  <2>1. Pick(q, S) \in [1..n -> T]
    BY <1>2, <1>3, <1>4
  <2>2. QED
    BY <1>2, <2>1
<1>6. \A i \in S : Rank(S, i) \in 1..n /\ at(Rank(S, i)) = i
  BY <1>1, RankBijective
<1>7. DOMAIN Pick(q, S) = 1..n
  BY <1>4
<1>8. Elements(Pick(q, S)) = {q[i] : i \in S}
  BY <1>2, <1>4, <1>6, <1>7 DEF Elements
<1>9. ASSUME Distinct(q)  PROVE Distinct(Pick(q, S))
  <2>1. ASSUME NEW j1 \in 1..n, NEW j2 \in 1..n, q[at(j1)] = q[at(j2)]
        PROVE  j1 = j2
    BY <1>2, <1>9, <2>1 DEF Distinct
  <2>2. QED
    BY <1>4, <1>7, <2>1 DEF Distinct
<1>10. QED
  BY <1>5, <1>8, <1>9

(* What is left of a non-empty sequence without its head: wait_for_task    *)
(* and the return of a callback take the head off.                         *)
LEMMA TailFacts ==
  ASSUME NEW T, NEW q \in Seq(T), q # <<>>
  PROVE  /\ Tail(q) \in Seq(T)
         /\ Head(q) \in T
         /\ Elements(q) = Elements(Tail(q)) \cup {Head(q)}
         /\ Distinct(q) => Distinct(Tail(q)) /\ Head(q) \notin Elements(Tail(q))
<1>1. Len(q) \in Nat /\ Len(q) > 0 /\ DOMAIN q = 1..Len(q)
  OBVIOUS
<1>2. /\ Tail(q) \in Seq(T)
      /\ DOMAIN Tail(q) = 1..(Len(q) - 1)
      /\ \A i \in 1..(Len(q) - 1) : Tail(q)[i] = q[i + 1]
  BY <1>1
<1>3. Head(q) = q[1] /\ Head(q) \in T
  BY <1>1
<1>4. Elements(q) = Elements(Tail(q)) \cup {Head(q)}
  <2>1. ASSUME NEW i \in 2..Len(q)
        PROVE  i - 1 \in 1..(Len(q) - 1) /\ Tail(q)[i - 1] = q[i]
    BY <1>1, <1>2
  <2>2. \A i \in 1..Len(q) : i = 1 \/ i \in 2..Len(q)
    BY <1>1
  <2>3. \A i \in 1..Len(q) : q[i] \in Elements(Tail(q)) \cup {Head(q)}
    <3>1. \A i \in 2..Len(q) : q[i] \in Elements(Tail(q))
      BY <1>2, <2>1 DEF Elements
    <3>2. QED
      BY <1>3, <2>2, <3>1
  <2>4. \A i \in 1..(Len(q) - 1) : i + 1 \in 1..Len(q)
    BY <1>1
  <2>5. Elements(Tail(q)) \cup {Head(q)} \subseteq Elements(q)
    BY <1>1, <1>2, <1>3, <2>4 DEF Elements
  <2>6. QED
    BY <1>1, <2>3, <2>5 DEF Elements
<1>5. ASSUME Distinct(q)
      PROVE  Distinct(Tail(q)) /\ Head(q) \notin Elements(Tail(q))
  <2>1. \A i \in 1..(Len(q) - 1) : i + 1 \in 1..Len(q) /\ i + 1 # 1
    BY <1>1
  <2>2. \A i, j \in 1..(Len(q) - 1) : Tail(q)[i] = Tail(q)[j] => i = j
    <3>1. TAKE i, j \in 1..(Len(q) - 1)
    <3>2. HAVE Tail(q)[i] = Tail(q)[j]
    <3>3. i + 1 = j + 1
      BY <1>1, <1>2, <1>5, <2>1, <3>2 DEF Distinct
    <3>4. QED
      BY <3>3
  <2>3. \A i \in 1..(Len(q) - 1) : Tail(q)[i] # Head(q)
    BY <1>1, <1>2, <1>3, <1>5, <2>1 DEF Distinct
  <2>4. QED
    BY <1>2, <2>2, <2>3 DEF Distinct, Elements
<1>6. QED
  BY <1>2, <1>3, <1>4, <1>5

(* The elements of two concatenated sequences, and that they stay distinct *)
(* if the two have none in common.                                         *)
LEMMA ConcatFacts ==
  ASSUME NEW T, NEW p \in Seq(T), NEW q \in Seq(T)
  PROVE  /\ p \o q \in Seq(T)
         /\ Elements(p \o q) = Elements(p) \cup Elements(q)
         /\ Distinct(p) /\ Distinct(q) /\ Elements(p) \cap Elements(q) = {}
              => Distinct(p \o q)
<1> DEFINE m == Len(p)
           n == Len(q)
<1>1. m \in Nat /\ n \in Nat /\ DOMAIN p = 1..m /\ DOMAIN q = 1..n
  OBVIOUS
<1>2. /\ p \o q \in Seq(T)
      /\ DOMAIN (p \o q) = 1..(m + n)
      /\ \A i \in 1..(m + n) : (p \o q)[i] = IF i <= m THEN p[i] ELSE q[i - m]
  OBVIOUS
<1> HIDE DEF m, n
<1>3. \A i \in 1..(m + n) : i \in 1..m \/ (~(i <= m) /\ i - m \in 1..n)
  BY <1>1
<1>4. /\ \A i \in 1..m : i \in 1..(m + n) /\ i <= m
      /\ \A i \in 1..n : m + i \in 1..(m + n) /\ ~(m + i <= m) /\ (m + i) - m = i
  BY <1>1
<1>5. /\ \A i \in 1..m : (p \o q)[i] = p[i]
      /\ \A i \in 1..n : (p \o q)[m + i] = q[i]
  BY <1>2, <1>4
<1>6. Elements(p \o q) = Elements(p) \cup Elements(q)
  <2>1. Elements(p \o q) \subseteq Elements(p) \cup Elements(q)
    BY <1>1, <1>2, <1>3 DEF Elements
  <2>2. /\ \A i \in 1..m : p[i] \in Elements(p \o q)
        /\ \A i \in 1..n : q[i] \in Elements(p \o q)
    <3>1. \A i \in 1..(m + n) : (p \o q)[i] \in Elements(p \o q)
      BY <1>2 DEF Elements
    <3>2. QED
      BY <1>4, <1>5, <3>1
  <2>3. QED
    BY <1>1, <2>1, <2>2 DEF Elements
<1>7. ASSUME Distinct(p), Distinct(q), Elements(p) \cap Elements(q) = {},
             NEW i \in 1..(m + n), NEW j \in 1..(m + n),
             (p \o q)[i] = (p \o q)[j]
      PROVE  i = j
  <2>1. CASE i \in 1..m /\ j \in 1..m
    BY <1>1, <1>5, <1>7, <2>1 DEF Distinct
  <2>2. CASE i - m \in 1..n /\ j - m \in 1..n /\ ~(i <= m) /\ ~(j <= m)
    <3>1. q[i - m] = q[j - m]
      BY <1>2, <1>7, <2>2
    <3>2. i - m = j - m
      BY <1>1, <1>7, <2>2, <3>1 DEF Distinct
    <3>3. QED
      BY <1>1, <3>2
  <2>3. CASE i \in 1..m /\ j - m \in 1..n /\ ~(j <= m)
    BY <1>1, <1>2, <1>5, <1>7, <2>3 DEF Elements
  <2>4. CASE j \in 1..m /\ i - m \in 1..n /\ ~(i <= m)
    BY <1>1, <1>2, <1>5, <1>7, <2>4 DEF Elements
  <2>5. QED
    BY <1>3, <2>1, <2>2, <2>3, <2>4
<1>8. QED
  BY <1>2, <1>6, <1>7 DEF Distinct

(* A later position has a higher rank.                                     *)
LEMMA RankMonotone ==
  ASSUME NEW S, IsFiniteSet(S), S \subseteq Nat, NEW i \in S, NEW j \in S, i < j
  PROVE  Rank(S, i) < Rank(S, j)
<1> DEFINE upTo(n) == {k \in S : k <= n}
<1>1. i \in Nat /\ j \in Nat /\ \A k \in S : k \in Nat
  BY S \subseteq Nat
<1>2. upTo(i) \in SUBSET upTo(j) /\ upTo(j) \in SUBSET S
  <2>1. \A k \in S : k <= i => k <= j
    BY <1>1, i < j
  <2>2. QED
    BY <2>1
<1>3. j \in upTo(j) /\ j \notin upTo(i)
  BY <1>1, i < j
<1> HIDE DEF upTo
<1>4. /\ IsFiniteSet(upTo(j)) /\ IsFiniteSet(upTo(i))
      /\ Cardinality(upTo(i)) <= Cardinality(upTo(j))
      /\ Cardinality(upTo(i)) = Cardinality(upTo(j)) => upTo(i) = upTo(j)
  BY <1>2, FS_Subset
<1>5. Cardinality(upTo(i)) \in Nat /\ Cardinality(upTo(j)) \in Nat
  BY <1>4, FS_CardinalityType
<1>6. Cardinality(upTo(i)) < Cardinality(upTo(j))
  BY <1>3, <1>4, <1>5
<1>7. QED
  BY <1>6 DEF Rank, upTo

(* Where Pick puts the elements of q.                                      *)
LEMMA PickPlaces ==
  ASSUME NEW T, NEW q \in Seq(T), NEW S \in SUBSET DOMAIN q
  PROVE  /\ \A i \in S : Rank(S, i) \in DOMAIN Pick(q, S) /\ Pick(q, S)[Rank(S, i)] = q[i]
         /\ \A i, j \in S : i < j => Rank(S, i) < Rank(S, j)
         /\ \A a \in DOMAIN Pick(q, S) : \E i \in S : Rank(S, i) = a /\ Pick(q, S)[a] = q[i]
<1> DEFINE n == Cardinality(S)
           at(a) == CHOOSE i \in S : Rank(S, i) = a
<1>1. DOMAIN q = 1..Len(q) /\ Len(q) \in Nat
  OBVIOUS
<1>2. IsFiniteSet(1..Len(q))
  BY <1>1, FS_Interval
<1>3. S \subseteq Nat /\ IsFiniteSet(S)
  BY <1>1, <1>2, FS_Subset
<1>4. /\ n \in Nat
      /\ \A i \in S : Rank(S, i) \in 1..n
      /\ \A i, j \in S : Rank(S, i) = Rank(S, j) => i = j
      /\ \A a \in 1..n : \E i \in S : Rank(S, i) = a
  BY <1>3, RankBijective
<1>5. Pick(q, S) = [a \in 1..n |-> q[at(a)]]
  BY DEF Pick
<1>6. \A a \in 1..n : at(a) \in S /\ Rank(S, at(a)) = a
  BY <1>4
<1>7. \A i \in S : at(Rank(S, i)) = i
  BY <1>4, <1>6
<1> HIDE DEF at, n
<1>8. \A i \in S : Rank(S, i) \in DOMAIN Pick(q, S) /\ Pick(q, S)[Rank(S, i)] = q[i]
  BY <1>4, <1>5, <1>7
<1>9. \A i, j \in S : i < j => Rank(S, i) < Rank(S, j)
  BY <1>3, RankMonotone
<1>10. \A a \in DOMAIN Pick(q, S) : \E i \in S : Rank(S, i) = a /\ Pick(q, S)[a] = q[i]
  BY <1>5, <1>6
<1>11. QED
  BY <1>8, <1>9, <1>10

(* A non-empty set of positions has a least one: the one of rank 1.        *)
LEMMA LeastPosition ==
  ASSUME NEW q, NEW T, q \in Seq(T), NEW S \in SUBSET DOMAIN q, S # {}
  PROVE  \E i \in S : \A j \in S : i <= j
<1>1. DOMAIN q = 1..Len(q) /\ Len(q) \in Nat
  OBVIOUS
<1>2. IsFiniteSet(1..Len(q))
  BY <1>1, FS_Interval
<1>3. S \subseteq Nat /\ IsFiniteSet(S)
  BY <1>1, <1>2, FS_Subset
<1>4. /\ Cardinality(S) \in Nat
      /\ \A i \in S : Rank(S, i) \in 1..Cardinality(S)
      /\ \A a \in 1..Cardinality(S) : \E i \in S : Rank(S, i) = a
  BY <1>3, RankBijective
<1>5. Cardinality(S) # 0
  BY <1>3, FS_EmptySet
<1>6. PICK i \in S : Rank(S, i) = 1
  BY <1>4, <1>5
<1>7. ASSUME NEW j \in S  PROVE i <= j
  <2>1. i \in Nat /\ j \in Nat
    BY <1>3
  <2>2. ~(j < i)
    BY <1>3, <1>4, <1>6, RankMonotone
  <2>3. QED
    BY <2>1, <2>2
<1>8. QED
  BY <1>7

LEMMA SeqGrows ==
  ASSUME NEW S, NEW R, S \subseteq R, NEW q \in Seq(S)
  PROVE  q \in Seq(R)
<1>1. q \in [1 .. Len(q) -> S] /\ Len(q) \in Nat
  OBVIOUS
<1>2. q \in [1 .. Len(q) -> R]
  BY <1>1
<1>3. QED
  BY <1>1, <1>2, SeqDef

-----------------------------------------------------------------------------
(* A handle table whose objects are in S.  No handle is 0, and none that   *)
(* was not given out yet resolves.                                         *)
IsTable(t, S) ==
  /\ t = [next |-> t.next, entries |-> t.entries]
  /\ t.next \in Nat /\ 0 < t.next
  /\ t.entries = [h \in DOMAIN t.entries |-> t.entries[h]]
  /\ \A h \in DOMAIN t.entries :
       h \in Nat /\ 0 < h /\ h < t.next /\ t.entries[h] \in S

LEMMA NewFacts ==
  ASSUME NEW S
  PROVE  IsTable(New, S) /\ Live(New) = {}
<1>1. PICK e : e = [h \in {} |-> 0]
  OBVIOUS
<1>2. DOMAIN e = {} /\ e = [h \in DOMAIN e |-> e[h]]
  BY <1>1
<1>3. PICK t : t = [next |-> 1, entries |-> e]
  OBVIOUS
<1>4. t.next = 1 /\ t.entries = e /\ t = [next |-> t.next, entries |-> t.entries]
  BY <1>3
<1>5. IsTable(t, S) /\ Live(t) = {}
  BY <1>2, <1>4 DEF IsTable, Live
<1>6. New = t
  BY <1>1, <1>3 DEF New
<1>7. QED
  BY <1>5, <1>6

(* A new handle is one nobody has.                                         *)
LEMMA CreateFacts ==
  ASSUME NEW S, NEW t, IsTable(t, S), NEW v \in S
  PROVE  /\ IsTable(Create(t, v), S)
         /\ t.next \notin Live(t) /\ t.next # 0
         /\ Live(Create(t, v)) = Live(t) \cup {t.next}
         /\ Get(Create(t, v), t.next) = v
         /\ \A h \in Live(t) : Get(Create(t, v), h) = Get(t, h)
<1> DEFINE e == [h \in DOMAIN t.entries \cup {t.next} |->
                   IF h = t.next THEN v ELSE t.entries[h]]
<1>1. Create(t, v) = [next |-> t.next + 1, entries |-> e]
  BY DEF Create
<1>2. DOMAIN e = DOMAIN t.entries \cup {t.next} /\ e = [h \in DOMAIN e |-> e[h]]
  OBVIOUS
<1>3. t.next \notin DOMAIN t.entries /\ t.next \in Nat /\ 0 < t.next
  BY DEF IsTable
<1>4. e[t.next] = v /\ \A h \in DOMAIN t.entries : e[h] = t.entries[h]
  BY <1>3
<1> HIDE DEF e
<1>5. \A h \in DOMAIN e : h \in Nat /\ 0 < h /\ h < t.next + 1 /\ e[h] \in S
  BY <1>2, <1>3, <1>4 DEF IsTable
<1>6. PICK q : q = [next |-> t.next + 1, entries |-> e]
  OBVIOUS
<1>7. q.next = t.next + 1 /\ q.entries = e /\ q = [next |-> q.next, entries |-> q.entries]
  BY <1>6
<1>8. IsTable(q, S)
  BY <1>2, <1>3, <1>5, <1>7 DEF IsTable
<1>9. QED
  BY <1>1, <1>2, <1>3, <1>4, <1>6, <1>7, <1>8 DEF Live, Get

LEMMA CloseFacts ==
  ASSUME NEW S, NEW t, IsTable(t, S), NEW h
  PROVE  /\ IsTable(Close(t, h), S)
         /\ Live(Close(t, h)) = Live(t) \ {h}
         /\ \A k \in Live(Close(t, h)) : Get(Close(t, h), k) = Get(t, k)
<1> DEFINE e == [k \in DOMAIN t.entries \ {h} |-> t.entries[k]]
<1>1. PICK q : q = Close(t, h)
  OBVIOUS
<1>2. q = [next |-> t.next, entries |-> e]
  BY <1>1 DEF Close, IsTable
<1>3. DOMAIN e = DOMAIN t.entries \ {h} /\ e = [k \in DOMAIN e |-> e[k]]
  OBVIOUS
<1>4. \A k \in DOMAIN e : e[k] = t.entries[k]
  OBVIOUS
<1> HIDE DEF e
<1>5. q.next = t.next /\ q.entries = e /\ q = [next |-> q.next, entries |-> q.entries]
  BY <1>2
<1>6. IsTable(q, S)
  BY <1>3, <1>4, <1>5 DEF IsTable
<1>7. QED
  BY <1>1, <1>3, <1>4, <1>5, <1>6 DEF Live, Get

LEMMA TableGrows ==
  ASSUME NEW S, NEW R, S \subseteq R, NEW t, IsTable(t, S)
  PROVE  IsTable(t, R)
BY DEF IsTable
=============================================================================
