------------------------- MODULE HalRegistryProofs -------------------------
(* Proofs about the HAL registry.                                              *)
(*                                                                             *)
(* RegistryInv is inductive; the properties of HalRegistry follow from it.  It *)
(* has one part per kind of structure, one for the calls in progress, one for  *)
(* owners and one for entries.  For each part a lemma says what a step may do  *)
(* to the variables it is about, and another that the part is kept.            *)
EXTENDS HalRegistry, FiniteSetTheorems, TLAPS

------------------------------------------------------------------------------
(* Lists. *)

\* Counting from below numbers the members of a finite set of naturals.
LEMMA Ranks ==
    ASSUME NEW K, K \subseteq Nat, IsFiniteSet(K)
    PROVE  /\ Cardinality(K) \in Nat
           /\ \A i \in K : Cardinality({h \in K : h <= i}) \in 1..Cardinality(K)
           /\ \A i, j \in K : i < j => Cardinality({h \in K : h <= i}) < Cardinality({h \in K : h <= j})
           /\ \A n \in 1..Cardinality(K) : \E i \in K : Cardinality({h \in K : h <= i}) = n
<1> DEFINE U(i) == {h \in K : h <= i}
           rank == [i \in K |-> Cardinality(U(i))]
<1>1. Cardinality(K) \in Nat
  BY FS_CardinalityType
<1>2. \A i \in K : IsFiniteSet(U(i)) /\ Cardinality(U(i)) \in Nat /\ Cardinality(U(i)) <= Cardinality(K)
  <2> TAKE i \in K
  <2>1. U(i) \in SUBSET K
    OBVIOUS
  <2> QED
    BY <2>1, FS_Subset, FS_CardinalityType
<1>3. \A i \in K : Cardinality(U(i)) \in 1..Cardinality(K)
  <2> TAKE i \in K
  <2>1. i \in U(i)
    OBVIOUS
  <2>2. Cardinality(U(i)) # 0
    BY <2>1, <1>2, FS_EmptySet
  <2> QED
    BY <2>2, <1>1, <1>2
<1>4. \A i, j \in K : i < j => Cardinality(U(i)) < Cardinality(U(j))
  <2> SUFFICES ASSUME NEW i \in K, NEW j \in K, i < j PROVE Cardinality(U(i)) < Cardinality(U(j))
    OBVIOUS
  <2>0. i \in Nat /\ j \in Nat /\ \A h \in K : h \in Nat
    OBVIOUS
  <2>1. U(i) \in SUBSET U(j) /\ j \in U(j) /\ j \notin U(i)
    <3>1. \A h \in K : h <= i => h <= j
      BY <2>0
    <3>2. j <= j /\ ~(j <= i)
      BY <2>0
    <3> QED
      BY <3>1, <3>2
  <2>2. U(i) # U(j)
    BY <2>1
  <2>3. Cardinality(U(i)) <= Cardinality(U(j)) /\ Cardinality(U(i)) # Cardinality(U(j))
    BY <2>1, <2>2, <1>2, FS_Subset
  <2> QED
    BY <2>3, <1>2
<1> HIDE DEF U
<1>5. rank \in Injection(K, 1..Cardinality(K))
  <2>1. rank \in [K -> 1..Cardinality(K)]
    BY <1>3
  <2>2. \A i, j \in K : rank[i] = rank[j] => i = j
    <3> SUFFICES ASSUME NEW i \in K, NEW j \in K, i # j PROVE rank[i] # rank[j]
      OBVIOUS
    <3>1. CASE i < j
      BY <3>1, <1>2, <1>4
    <3>2. CASE j < i
      BY <3>2, <1>2, <1>4
    <3> QED
      BY <3>1, <3>2
  <2> QED
    BY <2>1, <2>2 DEF Injection, IsInjective
<1>6. IsFiniteSet(1..Cardinality(K)) /\ Cardinality(1..Cardinality(K)) = Cardinality(K)
  BY <1>1, FS_Interval
<1>7. rank \in Surjection(K, 1..Cardinality(K))
  BY <1>5, <1>6, FS_Injection
<1>8. \A n \in 1..Cardinality(K) : \E i \in K : rank[i] = n
  BY <1>7 DEF Surjection
<1> QED
  BY <1>1, <1>3, <1>4, <1>8 DEF U

\* Unlinking keeps the others, in their order.
LEMMA WithoutFacts ==
    ASSUME NEW S, NEW l \in Seq(S), NEW g
    PROVE  /\ Without(l, g) \in Seq(S)
           /\ Len(Without(l, g)) <= Len(l)
           /\ \A n \in 1..Len(Without(l, g)) :
                 /\ Nth(l, g, n) \in 1..Len(l)
                 /\ l[Nth(l, g, n)] \notin g
                 /\ Without(l, g)[n] = l[Nth(l, g, n)]
           /\ \A m, n \in 1..Len(Without(l, g)) : m < n => Nth(l, g, m) < Nth(l, g, n)
           /\ \A i \in 1..Len(l) : l[i] \notin g => \E n \in 1..Len(Without(l, g)) : Nth(l, g, n) = i
<1> DEFINE K == {i \in DOMAIN l : l[i] \notin g}
           R(i) == Cardinality({h \in K : h <= i})
           w == Without(l, g)
<1>1. Len(l) \in Nat /\ DOMAIN l = 1..Len(l)
  OBVIOUS
<1>2. IsFiniteSet(1..Len(l)) /\ Cardinality(1..Len(l)) = Len(l)
  BY <1>1, FS_Interval
<1>3. K \in SUBSET (1..Len(l))
  BY <1>1
<1>4. IsFiniteSet(K) /\ Cardinality(K) <= Len(l)
  BY <1>2, <1>3, FS_Subset
<1>5. K \subseteq Nat
  BY <1>3
<1> HIDE DEF K
<1>6. /\ Cardinality(K) \in Nat
      /\ \A i \in K : R(i) \in 1..Cardinality(K)
      /\ \A i, j \in K : i < j => R(i) < R(j)
      /\ \A n \in 1..Cardinality(K) : \E i \in K : R(i) = n
  BY <1>4, <1>5, Ranks
<1> HIDE DEF R
<1>7. \A n : Nth(l, g, n) = CHOOSE i \in K : R(i) = n
  BY DEF Nth, K, R
<1>8. \A n \in 1..Cardinality(K) : Nth(l, g, n) \in K /\ R(Nth(l, g, n)) = n
  BY <1>6, <1>7
<1>9. w = [n \in 1..Cardinality(K) |-> l[Nth(l, g, n)]]
  BY DEF Without, K
<1>10. \A i \in K : i \in 1..Len(l) /\ l[i] \in S /\ l[i] \notin g
  BY <1>1 DEF K
<1>11. w \in Seq(S) /\ Len(w) = Cardinality(K)
  BY <1>6, <1>8, <1>9, <1>10
<1>12. \A m, n \in 1..Cardinality(K) : m < n => Nth(l, g, m) < Nth(l, g, n)
  <2> SUFFICES ASSUME NEW m \in 1..Cardinality(K), NEW n \in 1..Cardinality(K), m < n,
                      ~(Nth(l, g, m) < Nth(l, g, n))
               PROVE  FALSE
    OBVIOUS
  <2>1. Nth(l, g, m) \in K /\ Nth(l, g, n) \in K /\ R(Nth(l, g, m)) = m /\ R(Nth(l, g, n)) = n
    BY <1>8
  <2>2. Nth(l, g, n) < Nth(l, g, m) \/ Nth(l, g, n) = Nth(l, g, m)
    <3>1. Nth(l, g, m) \in Nat /\ Nth(l, g, n) \in Nat
      BY <2>1, <1>5
    <3> QED
      BY <3>1
  <2>3. R(Nth(l, g, n)) < R(Nth(l, g, m)) \/ R(Nth(l, g, n)) = R(Nth(l, g, m))
    BY <2>1, <2>2, <1>6
  <2> QED
    BY <2>1, <2>3, <1>6
<1>13. \A i \in K : \E n \in 1..Cardinality(K) : Nth(l, g, n) = i
  <2> TAKE i \in K
  <2>1. R(i) \in 1..Cardinality(K)
    BY <1>6
  <2>2. Nth(l, g, R(i)) \in K /\ R(Nth(l, g, R(i))) = R(i)
    BY <2>1, <1>8
  <2> DEFINE j == Nth(l, g, R(i))
  <2> HIDE DEF j
  <2>3. j < i => R(j) < R(i)
    BY <2>2, <1>6 DEF j
  <2>4. i < j => R(i) < R(j)
    BY <2>2, <1>6 DEF j
  <2>5. R(j) = R(i) /\ R(i) \in Nat /\ i \in Nat /\ j \in Nat
    <3>1. R(j) = R(i) /\ j \in K
      BY <2>2 DEF j
    <3>2. R(i) \in Nat
      BY <2>1, <1>6
    <3> QED
      BY <3>1, <3>2, <1>5
  <2>6. i = j
    BY <2>3, <2>4, <2>5
  <2> QED
    BY <2>1, <2>6 DEF j
<1>14. \A i \in 1..Len(l) : l[i] \notin g => i \in K
  BY <1>1 DEF K
<1> QED
  BY <1>4, <1>8, <1>9, <1>10, <1>11, <1>12, <1>13, <1>14

\* No element is in the list twice.
Distinct(l) == \A i, j \in 1..Len(l) : l[i] = l[j] => i = j

\* m is l with x put at place i.
Inserted(l, i, x, m) ==
    /\ i \in 1..Len(m) /\ Len(m) = Len(l) + 1
    /\ m[i] = x
    /\ \A j \in 1..Len(l) : m[IF j < i THEN j ELSE j + 1] = l[j]

\* The structures 1..N are on the list or on the free list, each once.
ListOK(list, free, N) ==
    /\ list \in Seq(1..N) /\ free \in Seq(1..N)
    /\ Distinct(list) /\ Distinct(free)
    /\ \A i \in 1..Len(list), j \in 1..Len(free) : list[i] # free[j]
    /\ \A x \in 1..N : x \in Listed(list) \/ x \in Listed(free)

\* What Listed collects.
LEMMA ListedIs ==
    ASSUME NEW S, NEW l \in Seq(S)
    PROVE  /\ \A i \in 1..Len(l) : l[i] \in Listed(l) /\ l[i] \in S
           /\ \A x \in Listed(l) : x \in S /\ \E i \in 1..Len(l) : l[i] = x
BY DEF Listed

\* Unlinking takes exactly the members of g out of the list.
LEMMA ListedWithout ==
    ASSUME NEW S, NEW l \in Seq(S), NEW g
    PROVE  Listed(Without(l, g)) = Listed(l) \ g
<1> DEFINE w == Without(l, g)
<1>1. w \in Seq(S)
  BY WithoutFacts
<1>2. ASSUME NEW x \in Listed(w) PROVE x \in Listed(l) \ g
  <2>1. PICK n \in 1..Len(w) : w[n] = x
    BY <1>1, <1>2, ListedIs
  <2>2. Nth(l, g, n) \in 1..Len(l) /\ l[Nth(l, g, n)] \notin g /\ w[n] = l[Nth(l, g, n)]
    BY WithoutFacts
  <2> QED
    BY <2>1, <2>2, ListedIs
<1>3. ASSUME NEW x \in Listed(l), x \notin g PROVE x \in Listed(w)
  <2>1. PICK i \in 1..Len(l) : l[i] = x
    BY <1>3, ListedIs
  <2>2. PICK n \in 1..Len(w) : Nth(l, g, n) = i
    BY <1>3, <2>1, WithoutFacts
  <2>3. w[n] = x
    BY <2>1, <2>2, WithoutFacts
  <2> QED
    BY <1>1, <2>3, ListedIs
<1> QED
  BY <1>2, <1>3

\* Unlinking duplicates nothing.
LEMMA DistinctWithout ==
    ASSUME NEW S, NEW l \in Seq(S), NEW g, Distinct(l)
    PROVE  Distinct(Without(l, g))
<1> DEFINE w == Without(l, g)
<1> SUFFICES ASSUME NEW m \in 1..Len(w), NEW n \in 1..Len(w), w[m] = w[n] PROVE m = n
  BY DEF Distinct
<1>1. /\ Nth(l, g, m) \in 1..Len(l) /\ Nth(l, g, n) \in 1..Len(l)
      /\ l[Nth(l, g, m)] = l[Nth(l, g, n)]
  BY WithoutFacts
<1>2. Nth(l, g, m) = Nth(l, g, n)
  BY <1>1 DEF Distinct
<1>3. (m < n => Nth(l, g, m) < Nth(l, g, n)) /\ (n < m => Nth(l, g, n) < Nth(l, g, m))
  BY WithoutFacts
<1>4. m \in Nat /\ n \in Nat /\ Nth(l, g, m) \in Nat /\ Nth(l, g, n) \in Nat
  BY <1>1, WithoutFacts
<1> HIDE DEF w
<1> QED
  BY <1>2, <1>3, <1>4

\* InsertAt, as the insertion loops use it, puts one element in.
LEMMA InsertFacts ==
    ASSUME NEW S, NEW l \in Seq(S), NEW i \in 1..Len(l) + 1, NEW x \in S
    PROVE  InsertAt(l, i, x) \in Seq(S) /\ Inserted(l, i, x, InsertAt(l, i, x))
<1> DEFINE a == SubSeq(l, 1, i - 1)
           b == SubSeq(l, i, Len(l))
<1>1. a \in Seq(S) /\ Len(a) = i - 1 /\ \A j \in 1..i - 1 : a[j] = l[j]
  OBVIOUS
<1>2. b \in Seq(S) /\ Len(b) = Len(l) + 1 - i /\ \A j \in 1..Len(l) + 1 - i : b[j] = l[i + j - 1]
  OBVIOUS
<1> HIDE DEF a, b
<1>3. a \o <<x>> \in Seq(S) /\ Len(a \o <<x>>) = i /\ (a \o <<x>>)[i] = x
      /\ \A j \in 1..i - 1 : (a \o <<x>>)[j] = l[j]
  BY <1>1
<1> DEFINE c == a \o <<x>>
<1> HIDE DEF c
<1>4. c \o b \in Seq(S) /\ Len(c \o b) = Len(l) + 1
  <2>1. c \in Seq(S) /\ b \in Seq(S) /\ Len(c) = i /\ Len(b) = Len(l) + 1 - i /\ Len(l) \in Nat
    BY <1>2, <1>3 DEF c
  <2>2. c \o b \in Seq(S) /\ Len(c \o b) = Len(c) + Len(b)
    BY <2>1
  <2> QED
    BY <2>1, <2>2
<1>5. (c \o b)[i] = x
  BY <1>2, <1>3 DEF c
<1>6. ASSUME NEW j \in 1..Len(l) PROVE (c \o b)[IF j < i THEN j ELSE j + 1] = l[j]
  <2>1. CASE j < i
    BY <2>1, <1>2, <1>3 DEF c
  <2>2. CASE ~(j < i)
    <3>1. (c \o b)[j + 1] = b[j + 1 - i]
      BY <2>2, <1>2, <1>3 DEF c
    <3>2. j + 1 - i \in 1..Len(l) + 1 - i /\ i + (j + 1 - i) - 1 = j
      BY <2>2
    <3> QED
      BY <2>2, <3>1, <3>2, <1>2
  <2> QED
    BY <2>1, <2>2
<1>7. InsertAt(l, i, x) = c \o b
  BY DEF InsertAt, a, b, c
<1> QED
  BY <1>4, <1>5, <1>6, <1>7 DEF Inserted

\* A list that gained x holds x besides what it held, and holds it once when x is new.
LEMMA ListedInserted ==
    ASSUME NEW S, NEW l \in Seq(S), NEW m \in Seq(S), NEW i, NEW x \in S, Inserted(l, i, x, m)
    PROVE  /\ Listed(m) = Listed(l) \cup {x}
           /\ Distinct(l) /\ x \notin Listed(l) => Distinct(m)
<1>0. Len(l) \in Nat /\ Len(m) = Len(l) + 1 /\ i \in 1..Len(m) /\ m[i] = x
  BY DEF Inserted
<1>1. \A j \in 1..Len(m) : j = i \/ \E h \in 1..Len(l) : /\ j = (IF h < i THEN h ELSE h + 1)
                                                       /\ m[j] = l[h]
  <2> TAKE j \in 1..Len(m)
  <2>1. CASE j < i
    <3>1. j \in 1..Len(l) /\ m[j] = l[j]
      BY <2>1, <1>0 DEF Inserted
    <3> QED
      BY <2>1, <3>1
  <2>2. CASE j > i
    <3>1. j - 1 \in 1..Len(l) /\ ~(j - 1 < i) /\ (j - 1) + 1 = j
      BY <2>2, <1>0
    <3>2. m[(j - 1) + 1] = l[j - 1]
      BY <3>1 DEF Inserted
    <3> QED
      BY <3>1, <3>2
  <2> QED
    BY <2>1, <2>2, <1>0
<1>2. \A h \in 1..Len(l) : \E j \in 1..Len(m) : m[j] = l[h]
  <2> TAKE h \in 1..Len(l)
  <2>1. (IF h < i THEN h ELSE h + 1) \in 1..Len(m) /\ m[IF h < i THEN h ELSE h + 1] = l[h]
    BY <1>0 DEF Inserted
  <2> QED
    BY <2>1
<1>3. Listed(m) = Listed(l) \cup {x}
  <2>1. \A y \in Listed(m) : y \in Listed(l) \cup {x}
    <3> TAKE y \in Listed(m)
    <3>1. PICK j \in 1..Len(m) : m[j] = y
      BY ListedIs
    <3> QED
      BY <3>1, <1>0, <1>1, ListedIs
  <2>2. \A y \in Listed(l) : y \in Listed(m)
    <3> TAKE y \in Listed(l)
    <3>1. PICK h \in 1..Len(l) : l[h] = y
      BY ListedIs
    <3> QED
      BY <3>1, <1>2, ListedIs
  <2>3. x \in Listed(m)
    BY <1>0, ListedIs
  <2> QED
    BY <2>1, <2>2, <2>3
<1>4. ASSUME Distinct(l), x \notin Listed(l) PROVE Distinct(m)
  <2> SUFFICES ASSUME NEW p \in 1..Len(m), NEW q \in 1..Len(m), m[p] = m[q] PROVE p = q
    BY DEF Distinct
  <2>1. \A h \in 1..Len(l) : l[h] # x
    BY <1>4, ListedIs
  <2>2. CASE p = i \/ q = i
    BY <2>1, <2>2, <1>0, <1>1
  <2>3. CASE p # i /\ q # i
    <3>1. PICK h \in 1..Len(l) : p = (IF h < i THEN h ELSE h + 1) /\ m[p] = l[h]
      BY <2>3, <1>1
    <3>2. PICK g \in 1..Len(l) : q = (IF g < i THEN g ELSE g + 1) /\ m[q] = l[g]
      BY <2>3, <1>1
    <3>3. h = g
      BY <3>1, <3>2, <1>4 DEF Distinct
    <3> QED
      BY <3>1, <3>2, <3>3
  <2> QED
    BY <2>2, <2>3
<1> QED
  BY <1>3, <1>4

\* Pushing on a free list, or linking at the root, inserts at place 1.
LEMMA ConsFacts ==
    ASSUME NEW S, NEW l \in Seq(S), NEW x \in S
    PROVE  <<x>> \o l \in Seq(S) /\ Inserted(l, 1, x, <<x>> \o l)
<1>1. <<x>> \o l \in Seq(S) /\ Len(<<x>> \o l) = Len(l) + 1 /\ (<<x>> \o l)[1] = x
  OBVIOUS
<1>2. \A j \in 1..Len(l) : (<<x>> \o l)[j + 1] = l[j]
  OBVIOUS
<1>3. \A j \in 1..Len(l) : ~(j < 1)
  OBVIOUS
<1> QED
  BY <1>1, <1>2, <1>3 DEF Inserted

\* Popping the head of a free list.
LEMMA TailFacts ==
    ASSUME NEW S, NEW l \in Seq(S), l # <<>>
    PROVE  /\ Head(l) \in S /\ Tail(l) \in Seq(S) /\ Inserted(Tail(l), 1, Head(l), l)
           /\ Listed(l) = Listed(Tail(l)) \cup {Head(l)}
           /\ Distinct(l) => Distinct(Tail(l)) /\ Head(l) \notin Listed(Tail(l))
<1>1. /\ Head(l) \in S /\ Tail(l) \in Seq(S) /\ Len(l) = Len(Tail(l)) + 1 /\ Head(l) = l[1]
      /\ Len(l) \in Nat /\ Len(l) >= 1
  OBVIOUS
<1>2. \A j \in 1..Len(Tail(l)) : Tail(l)[j] = l[j + 1] /\ j + 1 \in 1..Len(l) /\ ~(j < 1) /\ j + 1 # 1
  BY <1>1
<1>3. Inserted(Tail(l), 1, Head(l), l)
  BY <1>1, <1>2 DEF Inserted
<1> DEFINE t == Tail(l)
           x == Head(l)
<1> HIDE DEF t, x
<1>t. t \in Seq(S) /\ x \in S /\ Inserted(t, 1, x, l)
  BY <1>1, <1>3 DEF t, x
<1>4. Listed(l) = Listed(Tail(l)) \cup {Head(l)}
  <2>1. Listed(l) = Listed(t) \cup {x}
    BY <1>t, ListedInserted
  <2> QED
    BY <2>1 DEF t, x
<1>5. ASSUME Distinct(l) PROVE Distinct(Tail(l)) /\ Head(l) \notin Listed(Tail(l))
  <2>1. Distinct(Tail(l))
    BY <1>1, <1>2, <1>5 DEF Distinct
  <2>2. \A j \in 1..Len(Tail(l)) : Tail(l)[j] # Head(l)
    BY <1>1, <1>2, <1>5 DEF Distinct
  <2>3. \A j \in 1..Len(t) : t[j] # x
    BY <2>2 DEF t, x
  <2>4. x \notin Listed(t)
    BY <1>t, <2>3, ListedIs
  <2> QED
    BY <2>1, <2>4 DEF t, x
<1> QED
  BY <1>1, <1>3, <1>4, <1>5

\* The structures of l, freed one after the other, are pushed on m.
LEMMA ReverseFacts ==
    ASSUME NEW S, NEW l \in Seq(S), NEW m \in Seq(S), Distinct(l), Distinct(m),
           \A i \in 1..Len(l), j \in 1..Len(m) : l[i] # m[j]
    PROVE  /\ Reverse(l) \o m \in Seq(S) /\ Distinct(Reverse(l) \o m)
           /\ Listed(Reverse(l) \o m) = Listed(l) \cup Listed(m)
<1> DEFINE r == Reverse(l)
<1>1. r \in Seq(S) /\ Len(r) = Len(l) /\ \A i \in 1..Len(l) : r[i] = l[(Len(l) - i) + 1]
  BY DEF Reverse
<1> HIDE DEF r
<1>2. \A i \in 1..Len(l) : (Len(l) - i) + 1 \in 1..Len(l) /\ i = (Len(l) - ((Len(l) - i) + 1)) + 1
  OBVIOUS
<1>3. \A i \in 1..Len(l) : r[(Len(l) - i) + 1] = l[i]
  BY <1>1, <1>2
<1> DEFINE c == r \o m
<1>4. /\ c \in Seq(S) /\ Len(c) = Len(l) + Len(m)
      /\ \A i \in 1..Len(l) : c[i] = r[i]
      /\ \A i \in 1..Len(m) : c[Len(l) + i] = m[i]
  <2>0. r \in Seq(S)
    BY <1>1
  <2>1. c \in Seq(S) /\ Len(c) = Len(r) + Len(m)
    BY <2>0
  <2>2. \A i \in 1..Len(r) : c[i] = r[i]
    BY <1>1
  <2>3. \A i \in 1..Len(m) : c[Len(r) + i] = m[i]
    BY <1>1
  <2> QED
    BY <1>1, <2>1, <2>2, <2>3
<1> HIDE DEF c
<1>5. \A p \in 1..Len(c) :
         \/ p \in 1..Len(l) /\ c[p] = l[(Len(l) - p) + 1]
         \/ p - Len(l) \in 1..Len(m) /\ c[p] = m[p - Len(l)]
  <2> TAKE p \in 1..Len(c)
  <2>1. CASE p <= Len(l)
    <3>1. p \in 1..Len(l)
      BY <2>1
    <3>2. c[p] = r[p]
      BY <3>1, <1>4
    <3>3. r[p] = l[(Len(l) - p) + 1]
      BY <3>1, <1>1
    <3> QED
      BY <3>1, <3>2, <3>3
  <2>2. CASE p > Len(l)
    <3>1. p - Len(l) \in 1..Len(m) /\ Len(l) + (p - Len(l)) = p
      BY <2>2, <1>4
    <3> QED
      BY <3>1, <1>4
  <2> QED
    BY <2>1, <2>2
<1>6. Listed(c) = Listed(l) \cup Listed(m)
  <2>1. \A x \in Listed(c) : x \in Listed(l) \cup Listed(m)
    <3> TAKE x \in Listed(c)
    <3>1. PICK p \in 1..Len(c) : c[p] = x
      BY <1>4, ListedIs
    <3>2. CASE p \in 1..Len(l) /\ c[p] = l[(Len(l) - p) + 1]
      <4>1. (Len(l) - p) + 1 \in 1..Len(l)
        BY <3>2, <1>2
      <4>2. l[(Len(l) - p) + 1] \in Listed(l)
        BY <4>1, ListedIs
      <4> QED
        BY <3>1, <3>2, <4>2
    <3>3. CASE p - Len(l) \in 1..Len(m) /\ c[p] = m[p - Len(l)]
      BY <3>1, <3>3, ListedIs
    <3> QED
      BY <3>2, <3>3, <1>5
  <2>2. \A i \in 1..Len(l) : l[i] \in Listed(c)
    <3> TAKE i \in 1..Len(l)
    <3>1. c[(Len(l) - i) + 1] = l[i] /\ (Len(l) - i) + 1 \in 1..Len(c)
      <4>1. (Len(l) - i) + 1 \in 1..Len(l)
        BY <1>2
      <4>2. c[(Len(l) - i) + 1] = r[(Len(l) - i) + 1] /\ r[(Len(l) - i) + 1] = l[i]
        BY <4>1, <1>3, <1>4
      <4>3. Len(l) \in Nat /\ Len(m) \in Nat /\ Len(c) = Len(l) + Len(m)
        BY <1>4
      <4> QED
        BY <4>1, <4>2, <4>3
    <3> QED
      BY <3>1, <1>4, ListedIs
  <2>3. \A i \in 1..Len(m) : m[i] \in Listed(c)
    <3> TAKE i \in 1..Len(m)
    <3>1. c[Len(l) + i] = m[i] /\ Len(l) + i \in 1..Len(c)
      BY <1>4
    <3> QED
      BY <3>1, <1>4, ListedIs
  <2> QED
    BY <2>1, <2>2, <2>3, ListedIs
<1>7. Distinct(c)
  <2> SUFFICES ASSUME NEW p \in 1..Len(c), NEW q \in 1..Len(c), c[p] = c[q] PROVE p = q
    BY DEF Distinct
  <2>1. CASE p \in 1..Len(l) /\ c[p] = l[(Len(l) - p) + 1]
    <3>1. q \in 1..Len(l) /\ c[q] = l[(Len(l) - q) + 1]
      BY <2>1, <1>2, <1>5
    <3>2. (Len(l) - p) + 1 = (Len(l) - q) + 1
      <4>1. (Len(l) - p) + 1 \in 1..Len(l) /\ (Len(l) - q) + 1 \in 1..Len(l)
        BY <2>1, <3>1, <1>2
      <4>2. l[(Len(l) - p) + 1] = l[(Len(l) - q) + 1]
        BY <2>1, <3>1
      <4> QED
        BY <4>1, <4>2 DEF Distinct
    <3> QED
      BY <2>1, <3>1, <3>2
  <2>2. CASE p - Len(l) \in 1..Len(m) /\ c[p] = m[p - Len(l)]
    <3>1. q - Len(l) \in 1..Len(m) /\ c[q] = m[q - Len(l)]
      BY <2>2, <1>2, <1>5
    <3>2. p - Len(l) = q - Len(l)
      BY <2>2, <3>1 DEF Distinct
    <3> QED
      BY <3>2
  <2> QED
    BY <2>1, <2>2, <1>5
<1> QED
  BY <1>4, <1>6, <1>7 DEF c, r

\* A list and its free list share the structures 1..N out between them.
LEMMA ListedDisjoint ==
    ASSUME NEW N \in Nat, NEW l, NEW f, ListOK(l, f, N)
    PROVE  /\ l \in Seq(1..N) /\ f \in Seq(1..N) /\ Distinct(l) /\ Distinct(f)
           /\ Listed(l) \subseteq 1..N /\ Listed(f) \subseteq 1..N
           /\ Listed(l) \cap Listed(f) = {} /\ Listed(l) \cup Listed(f) = 1..N
<1>1. /\ l \in Seq(1..N) /\ f \in Seq(1..N) /\ Distinct(l) /\ Distinct(f)
      /\ \A i \in 1..Len(l), j \in 1..Len(f) : l[i] # f[j]
      /\ \A x \in 1..N : x \in Listed(l) \/ x \in Listed(f)
  BY DEF ListOK
<1>2. /\ \A x \in Listed(l) : x \in 1..N /\ \E i \in 1..Len(l) : l[i] = x
      /\ \A x \in Listed(f) : x \in 1..N /\ \E i \in 1..Len(f) : f[i] = x
  BY <1>1, ListedIs
<1> QED
  BY <1>1, <1>2

\* The same, the other way round.
LEMMA ListOKFrom ==
    ASSUME NEW N \in Nat, NEW l \in Seq(1..N), NEW f \in Seq(1..N), Distinct(l), Distinct(f),
           Listed(l) \cap Listed(f) = {}, Listed(l) \cup Listed(f) = 1..N
    PROVE  ListOK(l, f, N)
<1>1. \A i \in 1..Len(l) : l[i] \in Listed(l)
  BY ListedIs
<1>2. \A i \in 1..Len(f) : f[i] \in Listed(f)
  BY ListedIs
<1> QED
  BY <1>1, <1>2 DEF ListOK

\* The structure x, taken from the free list f, is linked at place i of l.
Linked(l, f, i, x, m, N) ==
    /\ ListOK(l, f, N) /\ f # <<>> /\ x = Head(f)
    /\ m \in Seq(1..N) /\ Inserted(l, i, x, m)

\* A structure moves from the free list to the list.
LEMMA Take ==
    ASSUME NEW N \in Nat, NEW l, NEW f, NEW i, NEW x, NEW m, Linked(l, f, i, x, m, N)
    PROVE  /\ ListOK(m, Tail(f), N)
           /\ x \in 1..N /\ x \notin Listed(l)
           /\ Listed(m) = Listed(l) \cup {x}
<1>1. /\ l \in Seq(1..N) /\ f \in Seq(1..N) /\ Distinct(l) /\ Distinct(f)
      /\ Listed(l) \subseteq 1..N /\ Listed(f) \subseteq 1..N
      /\ Listed(l) \cap Listed(f) = {} /\ Listed(l) \cup Listed(f) = 1..N
  BY ListedDisjoint DEF Linked
<1> DEFINE t == Tail(f)
<1>2. /\ x \in 1..N /\ t \in Seq(1..N) /\ Listed(f) = Listed(t) \cup {x}
      /\ Distinct(t) /\ x \notin Listed(t)
  BY <1>1, TailFacts DEF Linked
<1> HIDE DEF t
<1>4. Listed(m) = Listed(l) \cup {x} /\ (x \notin Listed(l) => Distinct(m))
  BY <1>1, <1>2, ListedInserted DEF Linked
<1>5. x \notin Listed(l)
  BY <1>1, <1>2
<1>6. Listed(m) \cap Listed(t) = {} /\ Listed(m) \cup Listed(t) = 1..N
  BY <1>1, <1>2, <1>4
<1>7. ListOK(m, t, N)
  BY <1>2, <1>4, <1>5, <1>6, ListOKFrom DEF Linked
<1> QED
  BY <1>2, <1>4, <1>5, <1>7 DEF t

\* Structures unlinked and pushed on the free list one after the other.
LEMMA Give ==
    ASSUME NEW N \in Nat, NEW l, NEW f, ListOK(l, f, N), NEW gone, gone \subseteq Listed(l)
    PROVE  ListOK(Without(l, gone), Reverse(Without(l, Listed(l) \ gone)) \o f, N)
<1>1. /\ l \in Seq(1..N) /\ f \in Seq(1..N) /\ Distinct(l) /\ Distinct(f)
      /\ Listed(l) \subseteq 1..N /\ Listed(f) \subseteq 1..N
      /\ Listed(l) \cap Listed(f) = {} /\ Listed(l) \cup Listed(f) = 1..N
  BY ListedDisjoint
<1> DEFINE w == Without(l, gone)
           m == Without(l, Listed(l) \ gone)
<1>2. w \in Seq(1..N) /\ m \in Seq(1..N)
  BY <1>1, WithoutFacts
<1>3. Distinct(w) /\ Distinct(m)
  BY <1>1, DistinctWithout
<1>4. Listed(w) = Listed(l) \ gone /\ Listed(m) = Listed(l) \ (Listed(l) \ gone)
  BY <1>1, ListedWithout
<1> HIDE DEF w, m
<1>5. \A i \in 1..Len(m), j \in 1..Len(f) : m[i] # f[j]
  <2>1. \A i \in 1..Len(m) : m[i] \in Listed(m)
    BY <1>2, ListedIs
  <2>2. \A j \in 1..Len(f) : f[j] \in Listed(f)
    BY <1>1, ListedIs
  <2> QED
    BY <2>1, <2>2, <1>1, <1>4
<1>6. /\ Reverse(m) \o f \in Seq(1..N) /\ Distinct(Reverse(m) \o f)
      /\ Listed(Reverse(m) \o f) = Listed(m) \cup Listed(f)
  BY <1>1, <1>2, <1>3, <1>5, ReverseFacts
<1> DEFINE e == Reverse(m) \o f
<1> HIDE DEF e
<1>7. e \in Seq(1..N) /\ Distinct(e) /\ Listed(e) = Listed(m) \cup Listed(f)
  BY <1>6 DEF e
<1>8. Listed(w) \cap Listed(e) = {} /\ Listed(w) \cup Listed(e) = 1..N
  BY <1>1, <1>4, <1>7
<1>9. ListOK(w, e, N)
  BY <1>2, <1>3, <1>7, <1>8, ListOKFrom
<1> QED
  BY <1>9 DEF w, m, e

\* hal_app_exit: every structure goes to the free list.
LEMMA GiveAll ==
    ASSUME NEW N \in Nat, NEW l, NEW f, ListOK(l, f, N)
    PROVE  ListOK(<<>>, Reverse(l) \o f, N)
<1>1. /\ l \in Seq(1..N) /\ f \in Seq(1..N) /\ Distinct(l) /\ Distinct(f)
      /\ Listed(l) \cup Listed(f) = 1..N
  BY ListedDisjoint
<1>2. \A i \in 1..Len(l), j \in 1..Len(f) : l[i] # f[j]
  BY DEF ListOK
<1> DEFINE e == Reverse(l) \o f
<1>3. e \in Seq(1..N) /\ Distinct(e) /\ Listed(e) = 1..N
  <2>1. e \in Seq(1..N) /\ Distinct(e) /\ Listed(e) = Listed(l) \cup Listed(f)
    BY <1>1, <1>2, ReverseFacts
  <2> QED
    BY <1>1, <2>1
<1> HIDE DEF e
<1>4. <<>> \in Seq(1..N) /\ Distinct(<<>>) /\ Listed(<<>>) = {}
  BY DEF Distinct, Listed
<1>5. ListOK(<<>>, e, N)
  BY <1>3, <1>4, ListOKFrom
<1> QED
  BY <1>5 DEF e

\* One structure goes to the free list.
LEMMA GiveOne ==
    ASSUME NEW N \in Nat, NEW l, NEW f, ListOK(l, f, N), NEW c \in Listed(l)
    PROVE  ListOK(Without(l, {c}), <<c>> \o f, N) /\ Listed(Without(l, {c})) = Listed(l) \ {c}
<1>1. /\ l \in Seq(1..N) /\ f \in Seq(1..N) /\ Distinct(l) /\ Distinct(f)
      /\ Listed(l) \subseteq 1..N /\ Listed(f) \subseteq 1..N
      /\ Listed(l) \cap Listed(f) = {} /\ Listed(l) \cup Listed(f) = 1..N
  BY ListedDisjoint
<1> DEFINE w == Without(l, {c})
           e == <<c>> \o f
<1>2. w \in Seq(1..N) /\ Distinct(w) /\ Listed(w) = Listed(l) \ {c}
  BY <1>1, WithoutFacts, DistinctWithout, ListedWithout
<1>3. e \in Seq(1..N) /\ Inserted(f, 1, c, e)
  BY <1>1, ConsFacts
<1> HIDE DEF w, e
<1>4. c \in 1..N /\ c \notin Listed(f)
  BY <1>1
<1>5. Listed(e) = Listed(f) \cup {c} /\ Distinct(e)
  BY <1>1, <1>3, <1>4, ListedInserted
<1>6. Listed(w) \cap Listed(e) = {} /\ Listed(w) \cup Listed(e) = 1..N
  BY <1>1, <1>2, <1>5
<1>7. ListOK(w, e, N)
  BY <1>2, <1>3, <1>5, <1>6, ListOKFrom
<1> QED
  BY <1>2, <1>7 DEF w, e

\* init_hal_data: every structure is free.
LEMMA AllFree ==
    ASSUME NEW N \in Nat
    PROVE  ListOK(<<>>, Upto(N), N)
<1>1. Upto(N) \in Seq(1..N) /\ Len(Upto(N)) = N /\ \A i \in 1..N : Upto(N)[i] = i
  BY DEF Upto
<1>2. Distinct(Upto(N)) /\ Listed(Upto(N)) = 1..N
  BY <1>1 DEF Distinct, Listed
<1>3. <<>> \in Seq(1..N) /\ Distinct(<<>>) /\ Listed(<<>>) = {}
  BY DEF Distinct, Listed
<1> QED
  BY <1>1, <1>2, <1>3, ListOKFrom

\* A bijection from or to a finite set keeps the count.
LEMMA SameCount ==
    ASSUME NEW A, NEW B, NEW h \in [A -> B],
           \A x, y \in A : h[x] = h[y] => x = y,
           \A b \in B : \E a \in A : h[a] = b,
           IsFiniteSet(A) \/ IsFiniteSet(B)
    PROVE  IsFiniteSet(A) /\ IsFiniteSet(B) /\ Cardinality(A) = Cardinality(B)
<1>1. h \in Injection(A, B) /\ h \in Surjection(A, B)
  BY DEF Injection, IsInjective, Surjection
<1>2. IsFiniteSet(A)
  BY <1>1, FS_Injection
<1>3. h \in Bijection(A, B)
  BY <1>1 DEF Bijection
<1>4. ExistsBijection(A, B)
  BY <1>3 DEF ExistsBijection
<1> QED
  BY <1>2, <1>4, FS_Bijection

\* How often the value f occurs at the places A.
Count(A, v, f) == Cardinality({a \in A : v[a] = f})

\* h moves the places A with values va to the places B with values vb, of which
\* new is the only one it does not reach.
Moves(A, va, B, vb, h, new) ==
    /\ new \in B /\ h \in [A -> B]
    /\ \A x, y \in A : h[x] = h[y] => x = y
    /\ \A a \in A : h[a] # new
    /\ \A b \in B : b # new => \E a \in A : h[a] = b
    /\ \A a \in A : vb[h[a]] = va[a]

\* When the larger set is finite, so is the smaller one.
LEMMA MovesFinite ==
    ASSUME NEW A, NEW B, NEW new, NEW h, NEW va, NEW vb,
           Moves(A, va, B, vb, h, new), IsFiniteSet(B)
    PROVE  IsFiniteSet(A)
<1>1. h \in Injection(A, B)
  BY DEF Moves, Injection, IsInjective
<1> QED
  BY <1>1, FS_Injection

\* Every value is counted as before, the new one once more.
LEMMA CountInserted ==
    ASSUME NEW A, NEW B, NEW new, NEW h, NEW va, NEW vb,
           Moves(A, va, B, vb, h, new), IsFiniteSet(A)
    PROVE  /\ IsFiniteSet(B) /\ Cardinality(B) = Cardinality(A) + 1
           /\ \A f : vb[new] = f =>
                 Count(B, vb, f) = Count(A, va, f) + 1
           /\ \A f : vb[new] # f =>
                 Count(B, vb, f) = Count(A, va, f)
<1> DEFINE C == B \ {new}
<1>1. /\ h \in [A -> C] /\ \A b \in C : \E a \in A : h[a] = b
      /\ new \in B /\ \A x, y \in A : h[x] = h[y] => x = y
      /\ \A a \in A : vb[h[a]] = va[a]
  BY DEF Moves
<1> HIDE DEF C
<1>3. IsFiniteSet(A) /\ IsFiniteSet(C) /\ Cardinality(A) = Cardinality(C)
  BY <1>1, SameCount
<1>4. B = C \cup {new} /\ new \notin C
  BY <1>1 DEF C
<1>5. IsFiniteSet(B) /\ Cardinality(B) = Cardinality(A) + 1
  BY <1>3, <1>4, FS_AddElement
<1>6. ASSUME NEW f
      PROVE  /\ vb[new] = f =>
                   Count(B, vb, f) = Count(A, va, f) + 1
             /\ vb[new] # f =>
                   Count(B, vb, f) = Count(A, va, f)
  <2> DEFINE D == {a \in A : va[a] = f}
             E == {b \in C : vb[b] = f}
             g == [a \in D |-> h[a]]
  <2>1. g \in [D -> E] /\ \A x, y \in D : g[x] = g[y] => x = y
    BY <1>1
  <2>2. \A b \in E : \E a \in D : g[a] = b
    BY <1>1
  <2>3. D \in SUBSET A
    OBVIOUS
  <2>4. IsFiniteSet(D)
    BY <1>3, <2>3, FS_Subset
  <2> HIDE DEF g, D, E
  <2>5. IsFiniteSet(E) /\ Cardinality(D) = Cardinality(E)
    BY <2>1, <2>2, <2>4, SameCount
  <2>6. Cardinality(E) \in Nat
    BY <2>5, FS_CardinalityType
  <2>7. CASE vb[new] = f
    <3>1. {b \in B : vb[b] = f} = E \cup {new} /\ new \notin E
      BY <1>4, <2>7 DEF E
    <3>2. Cardinality(E \cup {new}) = Cardinality(E) + 1
      BY <3>1, <2>5, FS_AddElement
    <3> QED
      BY <2>5, <2>7, <3>1, <3>2 DEF D, Count
  <2>8. CASE vb[new] # f
    <3>1. {b \in B : vb[b] = f} = E
      BY <1>4, <2>8 DEF E
    <3> QED
      BY <2>5, <2>8, <3>1 DEF D, Count
  <2> QED
    BY <2>7, <2>8
<1> QED
  BY <1>3, <1>5, <1>6

\* h leads from each place of B, with values vb, to the place of A it had, with
\* values va; only places with values in g are missing.
Keeps(A, va, B, vb, h, g) ==
    /\ h \in [B -> A]
    /\ \A x, y \in B : h[x] = h[y] => x = y
    /\ \A b \in B : vb[b] = va[h[b]]
    /\ \A a \in A : va[a] \notin g => \E b \in B : h[b] = a

\* The values not in g are counted as before.
LEMMA CountKept ==
    ASSUME NEW A, NEW B, NEW h, NEW g, NEW va, NEW vb,
           Keeps(A, va, B, vb, h, g), IsFiniteSet(A)
    PROVE  /\ IsFiniteSet(B) /\ Cardinality(B) <= Cardinality(A)
           /\ \A f : f \notin g =>
                 Count(B, vb, f) = Count(A, va, f)
<1>0. /\ h \in [B -> A] /\ \A x, y \in B : h[x] = h[y] => x = y
      /\ \A b \in B : vb[b] = va[h[b]]
      /\ \A a \in A : va[a] \notin g => \E b \in B : h[b] = a
  BY DEF Keeps
<1>1. h \in Injection(B, A)
  BY <1>0 DEF Injection, IsInjective
<1>2. IsFiniteSet(B) /\ Cardinality(B) <= Cardinality(A)
  BY <1>1, FS_Injection
<1>3. ASSUME NEW f, f \notin g
      PROVE  Count(B, vb, f) = Count(A, va, f)
  <2> DEFINE D == {b \in B : vb[b] = f}
             E == {a \in A : va[a] = f}
             j == [b \in D |-> h[b]]
  <2>1. j \in [D -> E] /\ \A x, y \in D : j[x] = j[y] => x = y
    BY <1>0
  <2>2. \A a \in E : \E b \in D : j[b] = a
    BY <1>0, <1>3
  <2>3. D \in SUBSET B
    OBVIOUS
  <2>4. IsFiniteSet(D)
    BY <1>2, <2>3, FS_Subset
  <2> HIDE DEF j, D, E
  <2>5. Cardinality(D) = Cardinality(E)
    BY <2>1, <2>2, <2>4, SameCount
  <2> QED
    BY <2>5 DEF D, E, Count
<1> QED
  BY <1>2, <1>3

\* The entries of threads th, and those that call f.
Ent(th, T) == UNION {{t} \X DOMAIN th[t].functs : t \in T}
Cal(th, f, T) == {e \in Ent(th, T) : th[e[1]].functs[e[2]] = f}

\* How many entries call f.
Uses(th, f, T) == Cardinality(Cal(th, f, T))

\* What an entry is: a listed thread and a place in its list.
LEMMA EntIs ==
    ASSUME NEW th, NEW T
    PROVE  /\ \A t \in T : \A i \in DOMAIN th[t].functs : <<t, i>> \in Ent(th, T)
           /\ \A e \in Ent(th, T) : /\ e[1] \in T /\ e[2] \in DOMAIN th[e[1]].functs
                                    /\ e = <<e[1], e[2]>>
BY DEF Ent

\* Of the threads T, th2 has one entry more than th: x at place i of thread t.
Puts(S, T, t, th, th2, i, x) ==
    /\ t \in T
    /\ \A u \in T : th[u].functs \in Seq(S) /\ th2[u].functs \in Seq(S)
    /\ Inserted(th[t].functs, i, x, th2[t].functs)
    /\ \A u \in T : u # t => th2[u].functs = th[u].functs
    /\ IsFiniteSet(Ent(th, T)) \/ IsFiniteSet(Ent(th2, T))

\* One entry more: the count of the function it calls goes up by one, no other changes.
LEMMA EntInserted ==
    ASSUME NEW S, NEW T, NEW t, NEW th, NEW th2, NEW i, NEW x, Puts(S, T, t, th, th2, i, x)
    PROVE  /\ IsFiniteSet(Ent(th, T)) /\ IsFiniteSet(Ent(th2, T))
           /\ Cardinality(Ent(th2, T)) = Cardinality(Ent(th, T)) + 1
           /\ Uses(th2, x, T) = Uses(th, x, T) + 1
           /\ \A f : f # x => Uses(th2, f, T) = Uses(th, f, T)
<1> SUFFICES ASSUME t \in T,
                    \A u \in T : th[u].functs \in Seq(S) /\ th2[u].functs \in Seq(S),
                    Inserted(th[t].functs, i, x, th2[t].functs),
                    \A u \in T : u # t => th2[u].functs = th[u].functs,
                    IsFiniteSet(Ent(th, T)) \/ IsFiniteSet(Ent(th2, T))
             PROVE  /\ IsFiniteSet(Ent(th, T)) /\ IsFiniteSet(Ent(th2, T))
                    /\ Cardinality(Ent(th2, T)) = Cardinality(Ent(th, T)) + 1
                    /\ Uses(th2, x, T) = Uses(th, x, T) + 1
                    /\ \A f : f # x => Uses(th2, f, T) = Uses(th, f, T)
  BY DEF Puts
<1> DEFINE A == Ent(th, T)
           B == Ent(th2, T)
           new == <<t, i>>
           Moved(u, j) == IF u = t /\ ~(j < i) THEN j + 1 ELSE j
           h == [a \in A |-> <<a[1], Moved(a[1], a[2])>>]
           va == [a \in A |-> th[a[1]].functs[a[2]]]
           vb == [b \in B |-> th2[b[1]].functs[b[2]]]
<1>1. \A u \in T : /\ Len(th[u].functs) \in Nat /\ DOMAIN th[u].functs = 1..Len(th[u].functs)
                   /\ Len(th2[u].functs) \in Nat /\ DOMAIN th2[u].functs = 1..Len(th2[u].functs)
  OBVIOUS
<1>2. /\ i \in 1..Len(th2[t].functs) /\ Len(th2[t].functs) = Len(th[t].functs) + 1
      /\ th2[t].functs[i] = x
      /\ \A j \in 1..Len(th[t].functs) : th2[t].functs[IF j < i THEN j ELSE j + 1] = th[t].functs[j]
  BY DEF Inserted
<1>3. \A u \in T : \A j \in DOMAIN th[u].functs :
         /\ Moved(u, j) \in DOMAIN th2[u].functs
         /\ th2[u].functs[Moved(u, j)] = th[u].functs[j]
         /\ ~(u = t /\ Moved(u, j) = i)
         /\ \A k \in DOMAIN th[u].functs : Moved(u, j) = Moved(u, k) => j = k
  <2> TAKE u \in T
  <2> TAKE j \in DOMAIN th[u].functs
  <2>1. CASE u # t
    BY <2>1
  <2>2. CASE u = t
    <3>1. /\ j \in 1..Len(th[t].functs) /\ Len(th[t].functs) \in Nat /\ i \in Nat
          /\ DOMAIN th2[t].functs = 1..Len(th[t].functs) + 1
          /\ DOMAIN th[t].functs = 1..Len(th[t].functs)
          /\ Moved(u, j) = IF j < i THEN j ELSE j + 1
      BY <2>2, <1>1, <1>2
    <3>2. Moved(u, j) \in DOMAIN th2[t].functs /\ Moved(u, j) # i
      BY <3>1
    <3>3. th2[t].functs[Moved(u, j)] = th[t].functs[j]
      BY <3>1, <1>2
    <3>4. \A k \in DOMAIN th[t].functs : Moved(u, j) = Moved(u, k) => j = k
      BY <2>2, <3>1
    <3> QED
      BY <2>2, <3>2, <3>3, <3>4
  <2> QED
    BY <2>1, <2>2
<1>4. \A u \in T : \A j \in DOMAIN th2[u].functs :
         ~(u = t /\ j = i) => \E k \in DOMAIN th[u].functs : Moved(u, k) = j
  <2> SUFFICES ASSUME NEW u \in T, NEW j \in DOMAIN th2[u].functs, ~(u = t /\ j = i)
               PROVE  \E k \in DOMAIN th[u].functs : Moved(u, k) = j
    OBVIOUS
  <2>1. CASE u # t
    BY <2>1
  <2>2. CASE u = t
    <3>1. /\ j \in 1..Len(th[t].functs) + 1 /\ Len(th[t].functs) \in Nat /\ i \in Nat /\ j # i
          /\ i \in 1..Len(th[t].functs) + 1
          /\ DOMAIN th[t].functs = 1..Len(th[t].functs)
      BY <2>2, <1>1, <1>2
    <3>2. CASE j < i
      BY <2>2, <3>1, <3>2
    <3>3. CASE j > i
      <4>1. j - 1 \in 1..Len(th[t].functs) /\ ~(j - 1 < i) /\ (j - 1) + 1 = j
        BY <3>1, <3>3
      <4> QED
        BY <2>2, <3>1, <4>1
    <3> QED
      BY <3>1, <3>2, <3>3
  <2> QED
    BY <2>1, <2>2
<1> HIDE DEF Moved
<1>5. \A a \in A : /\ a[1] \in T /\ a[2] \in DOMAIN th[a[1]].functs /\ a = <<a[1], a[2]>>
  BY EntIs
<1>6. \A b \in B : /\ b[1] \in T /\ b[2] \in DOMAIN th2[b[1]].functs /\ b = <<b[1], b[2]>>
  BY EntIs
<1>7. /\ \A u \in T : \A j \in DOMAIN th[u].functs : <<u, j>> \in A
      /\ \A u \in T : \A j \in DOMAIN th2[u].functs : <<u, j>> \in B
  BY EntIs
<1>8. new \in B /\ vb[new] = x
  BY <1>1, <1>2, <1>7
<1> HIDE DEF A, B
<1>9. h \in [A -> B]
  BY <1>3, <1>5, <1>7
<1>10. \A a, c \in A : h[a] = h[c] => a = c
  <2> SUFFICES ASSUME NEW a \in A, NEW c \in A, h[a] = h[c] PROVE a = c
    OBVIOUS
  <2>1. a[1] = c[1] /\ Moved(a[1], a[2]) = Moved(c[1], c[2])
    OBVIOUS
  <2>2. a[2] = c[2]
    BY <2>1, <1>3, <1>5
  <2> QED
    BY <2>1, <2>2, <1>5
<1>11. \A a \in A : h[a] # new
  BY <1>3, <1>5
<1>12. \A b \in B : b # new => \E a \in A : h[a] = b
  <2> SUFFICES ASSUME NEW b \in B, b # new PROVE \E a \in A : h[a] = b
    OBVIOUS
  <2>1. ~(b[1] = t /\ b[2] = i)
    BY <1>6
  <2>2. PICK k \in DOMAIN th[b[1]].functs : Moved(b[1], k) = b[2]
    BY <2>1, <1>4, <1>6
  <2>3. <<b[1], k>> \in A
    BY <1>6, <1>7
  <2>4. h[<<b[1], k>>] = b
    BY <2>2, <2>3, <1>6
  <2> QED
    BY <2>3, <2>4
<1>13. \A a \in A : vb[h[a]] = va[a]
  <2> TAKE a \in A
  <2>1. h[a] = <<a[1], Moved(a[1], a[2])>> /\ h[a] \in B
    BY <1>9
  <2>2. vb[h[a]] = th2[a[1]].functs[Moved(a[1], a[2])]
    BY <2>1
  <2> QED
    BY <2>2, <1>3, <1>5
<1>14. IsFiniteSet(A) \/ IsFiniteSet(B)
  BY DEF A, B
<1> HIDE DEF h, new
<1>15. /\ IsFiniteSet(A) /\ IsFiniteSet(B) /\ Cardinality(B) = Cardinality(A) + 1
       /\ \A f : vb[new] = f =>
             Count(B, vb, f) = Count(A, va, f) + 1
       /\ \A f : vb[new] # f =>
             Count(B, vb, f) = Count(A, va, f)
  <2> HIDE DEF va, vb
  <2>1. Moves(A, va, B, vb, h, new)
    BY <1>8, <1>9, <1>10, <1>11, <1>12, <1>13 DEF Moves
  <2>2. IsFiniteSet(A)
    BY <1>14, <2>1, MovesFinite
  <2> QED
    BY <2>1, <2>2, CountInserted
<1>16. \A f : /\ Uses(th, f, T) = Count(A, va, f)
              /\ Uses(th2, f, T) = Count(B, vb, f)
  <2> TAKE f
  <2>1. Cal(th, f, T) = {a \in A : va[a] = f} /\ Cal(th2, f, T) = {b \in B : vb[b] = f}
    BY DEF Cal, A, B
  <2> QED
    BY <2>1 DEF Count, Uses
<1> HIDE DEF va, vb
<1>17. /\ Uses(th2, x, T) = Uses(th, x, T) + 1
       /\ \A f : f # x => Uses(th2, f, T) = Uses(th, f, T)
  <2>1. vb[new] = x
    BY <1>8
  <2> QED
    BY <2>1, <1>15, <1>16
<1> QED
  BY <1>15, <1>17 DEF A, B

\* In th2 the entries of the functions in g have left the threads T.
Sweeps(S, T, th, th2, g) ==
    /\ \A u \in T : th[u].functs \in Seq(S)
    /\ \A u \in T : th2[u].functs = Without(th[u].functs, g)
    /\ IsFiniteSet(Ent(th, T))

\* The entries of the functions in g go: the counts of the others stay.
LEMMA EntSwept ==
    ASSUME NEW S, NEW T, NEW th, NEW th2, NEW g, Sweeps(S, T, th, th2, g)
    PROVE  /\ IsFiniteSet(Ent(th2, T)) /\ Cardinality(Ent(th2, T)) <= Cardinality(Ent(th, T))
           /\ \A f : f \notin g => Uses(th2, f, T) = Uses(th, f, T)
<1> SUFFICES ASSUME \A u \in T : th[u].functs \in Seq(S),
                    \A u \in T : th2[u].functs = Without(th[u].functs, g),
                    IsFiniteSet(Ent(th, T))
             PROVE  /\ IsFiniteSet(Ent(th2, T)) /\ Cardinality(Ent(th2, T)) <= Cardinality(Ent(th, T))
                    /\ \A f : f \notin g => Uses(th2, f, T) = Uses(th, f, T)
  BY DEF Sweeps
<1> DEFINE A == Ent(th, T)
           B == Ent(th2, T)
           Was(u, n) == Nth(th[u].functs, g, n)
           h == [b \in B |-> <<b[1], Was(b[1], b[2])>>]
           va == [a \in A |-> th[a[1]].functs[a[2]]]
           vb == [b \in B |-> th2[b[1]].functs[b[2]]]
<1>1. \A u \in T : /\ DOMAIN th[u].functs = 1..Len(th[u].functs)
                   /\ th2[u].functs \in Seq(S)
                   /\ DOMAIN th2[u].functs = 1..Len(th2[u].functs)
  BY WithoutFacts
<1>2. \A u \in T : \A n \in DOMAIN th2[u].functs :
         Was(u, n) \in DOMAIN th[u].functs /\ th2[u].functs[n] = th[u].functs[Was(u, n)]
  BY <1>1, WithoutFacts
<1>3. \A u \in T : \A m, n \in DOMAIN th2[u].functs : Was(u, m) = Was(u, n) => m = n
  <2> SUFFICES ASSUME NEW u \in T, NEW m \in DOMAIN th2[u].functs, NEW n \in DOMAIN th2[u].functs,
                      Was(u, m) = Was(u, n)
               PROVE  m = n
    OBVIOUS
  <2>1. (m < n => Was(u, m) < Was(u, n)) /\ (n < m => Was(u, n) < Was(u, m))
    <3>1. m \in 1..Len(Without(th[u].functs, g)) /\ n \in 1..Len(Without(th[u].functs, g))
      BY <1>1
    <3>2. th[u].functs \in Seq(S)
      OBVIOUS
    <3>3. \A p, q \in 1..Len(Without(th[u].functs, g)) :
             p < q => Nth(th[u].functs, g, p) < Nth(th[u].functs, g, q)
      BY <3>2, WithoutFacts
    <3> QED
      BY <3>1, <3>3
  <2>2. Was(u, m) \in Nat /\ Was(u, n) \in Nat /\ m \in Nat /\ n \in Nat
    BY <1>1, <1>2
  <2> HIDE DEF Was
  <2> QED
    BY <2>1, <2>2
<1>4. \A u \in T : \A i \in DOMAIN th[u].functs :
         th[u].functs[i] \notin g => \E n \in DOMAIN th2[u].functs : Was(u, n) = i
  BY <1>1, WithoutFacts
<1> HIDE DEF Was
<1>5. \A a \in A : /\ a[1] \in T /\ a[2] \in DOMAIN th[a[1]].functs /\ a = <<a[1], a[2]>>
  BY EntIs
<1>6. \A b \in B : /\ b[1] \in T /\ b[2] \in DOMAIN th2[b[1]].functs /\ b = <<b[1], b[2]>>
  BY EntIs
<1>7. /\ \A u \in T : \A j \in DOMAIN th[u].functs : <<u, j>> \in A
      /\ \A u \in T : \A j \in DOMAIN th2[u].functs : <<u, j>> \in B
  BY EntIs
<1>14. IsFiniteSet(A)
  OBVIOUS
<1> HIDE DEF A, B
<1>9. h \in [B -> A]
  BY <1>2, <1>6, <1>7
<1>10. \A a, c \in B : h[a] = h[c] => a = c
  <2> SUFFICES ASSUME NEW a \in B, NEW c \in B, h[a] = h[c] PROVE a = c
    OBVIOUS
  <2>1. a[1] = c[1] /\ Was(a[1], a[2]) = Was(c[1], c[2])
    OBVIOUS
  <2>2. a[2] = c[2]
    BY <2>1, <1>3, <1>6
  <2> QED
    BY <2>1, <2>2, <1>6
<1>12. \A a \in A : va[a] \notin g => \E b \in B : h[b] = a
  <2> SUFFICES ASSUME NEW a \in A, va[a] \notin g PROVE \E b \in B : h[b] = a
    OBVIOUS
  <2>2. PICK n \in DOMAIN th2[a[1]].functs : Was(a[1], n) = a[2]
    BY <1>4, <1>5
  <2>3. <<a[1], n>> \in B
    BY <1>5, <1>7
  <2>4. h[<<a[1], n>>] = a
    BY <2>2, <2>3, <1>5
  <2> QED
    BY <2>3, <2>4
<1>13. \A b \in B : vb[b] = va[h[b]]
  <2> TAKE b \in B
  <2>1. h[b] = <<b[1], Was(b[1], b[2])>> /\ h[b] \in A
    BY <1>9
  <2>2. va[h[b]] = th[b[1]].functs[Was(b[1], b[2])]
    BY <2>1
  <2> QED
    BY <2>2, <1>2, <1>6
<1> HIDE DEF h
<1>15. /\ IsFiniteSet(B) /\ Cardinality(B) <= Cardinality(A)
       /\ \A f : f \notin g => Count(B, vb, f) = Count(A, va, f)
  <2> HIDE DEF va, vb
  <2>1. Keeps(A, va, B, vb, h, g)
    BY <1>9, <1>10, <1>12, <1>13 DEF Keeps
  <2> QED
    BY <1>14, <2>1, CountKept
<1>16. \A f : /\ Uses(th, f, T) = Count(A, va, f)
              /\ Uses(th2, f, T) = Count(B, vb, f)
  <2> TAKE f
  <2>1. Cal(th, f, T) = {a \in A : va[a] = f} /\ Cal(th2, f, T) = {b \in B : vb[b] = f}
    BY DEF Cal, A, B
  <2> QED
    BY <2>1 DEF Count, Uses
<1> QED
  BY <1>15, <1>16 DEF A, B

\* Entries depend on the function lists of the threads only.
LEMMA EntSame ==
    ASSUME NEW T, NEW th, NEW th2, \A u \in T : th2[u].functs = th[u].functs
    PROVE  Ent(th2, T) = Ent(th, T) /\ \A f : Cal(th2, f, T) = Cal(th, f, T)
<1>1. Ent(th2, T) = Ent(th, T)
  BY DEF Ent
<1>2. \A e \in Ent(th, T) : e[1] \in T
  BY EntIs
<1> QED
  BY <1>1, <1>2 DEF Cal

\* A thread without entries joins.
LEMMA EntJoined ==
    ASSUME NEW T, NEW t, NEW th, th[t].functs = <<>>
    PROVE  /\ Ent(th, T \cup {t}) = Ent(th, T)
           /\ \A f : Cal(th, f, T \cup {t}) = Cal(th, f, T)
<1>1. DOMAIN th[t].functs = {}
  OBVIOUS
<1>2. Ent(th, T \cup {t}) = Ent(th, T)
  BY <1>1 DEF Ent
<1> QED
  BY <1>2 DEF Cal

\* The entries of f in T are those in t and those in the others.
Splits(th, f, T, t) ==
    /\ Cardinality(Cal(th, f, T)) \in Nat
    /\ Cardinality(Cal(th, f, {t})) \in Nat
    /\ Cardinality(Cal(th, f, T \ {t})) \in Nat
    /\ Cardinality(Cal(th, f, T \ {t})) = Cardinality(Cal(th, f, T)) - Cardinality(Cal(th, f, {t}))

\* A thread leaves with its entries.
LEMMA EntLeft ==
    ASSUME NEW T, NEW t \in T, NEW th, IsFiniteSet(Ent(th, T))
    PROVE  /\ IsFiniteSet(Ent(th, T \ {t})) /\ Cardinality(Ent(th, T \ {t})) <= Cardinality(Ent(th, T))
           /\ \A f : Splits(th, f, T, t)
<1> DEFINE A == Ent(th, T)
           B == Ent(th, T \ {t})
           C == Ent(th, {t})
<1>1. B \in SUBSET A /\ C \in SUBSET A /\ A = B \cup C
  BY DEF Ent
<1>2. \A e \in B : e[1] # t
  BY EntIs
<1>3. \A e \in C : e[1] = t
  BY EntIs
<1>4. IsFiniteSet(B) /\ Cardinality(B) <= Cardinality(A) /\ IsFiniteSet(C)
  BY <1>1, FS_Subset
<1>5. ASSUME NEW f
      PROVE  Splits(th, f, T, t)
  <2> DEFINE D == Cal(th, f, T \ {t})
             E == Cal(th, f, {t})
  <2>1. D \in SUBSET B /\ E \in SUBSET C /\ Cal(th, f, T) = D \cup E
    BY <1>1 DEF Cal
  <2>2. IsFiniteSet(D) /\ IsFiniteSet(E)
    BY <2>1, <1>4, FS_Subset
  <2>3. D \cap E = {}
    BY <2>1, <1>2, <1>3
  <2> HIDE DEF D, E
  <2>4. /\ Cardinality(D) \in Nat /\ Cardinality(E) \in Nat /\ Cardinality(D \cap E) = 0
        /\ Cardinality(D \cup E) = Cardinality(D) + Cardinality(E) - Cardinality(D \cap E)
    BY <2>2, <2>3, FS_CardinalityType, FS_EmptySet, FS_Union
  <2>5. Cardinality(D \cup E) = Cardinality(D) + Cardinality(E)
    BY <2>4
  <2>6. Cardinality(D \cup E) \in Nat /\ Cardinality(D) = Cardinality(D \cup E) - Cardinality(E)
    BY <2>4, <2>5
  <2> QED
    BY <2>1, <2>4, <2>6 DEF D, E, Splits
<1> QED
  BY <1>4, <1>5

\* No threads, no entries.
LEMMA EntNone ==
    ASSUME NEW th
    PROVE  /\ IsFiniteSet(Ent(th, {})) /\ Cardinality(Ent(th, {})) = 0
           /\ \A f : Cardinality(Cal(th, f, {})) = 0
<1>1. Ent(th, {}) = {} /\ \A f : Cal(th, f, {}) = {}
  BY DEF Ent, Cal
<1> QED
  BY <1>1, FS_EmptySet

\* What is counted is not negative, nothing is counted only where nothing is,
\* and a function has no more entries than there are.
LEMMA CalFinite ==
    ASSUME NEW T, NEW th, NEW f, IsFiniteSet(Ent(th, T))
    PROVE  /\ Cardinality(Ent(th, T)) \in Nat
           /\ Cardinality(Cal(th, f, T)) \in 0..Cardinality(Ent(th, T))
           /\ Cardinality(Cal(th, f, T)) = 0 => Cal(th, f, T) = {}
<1>1. Cal(th, f, T) \in SUBSET Ent(th, T)
  BY DEF Cal
<1>2. IsFiniteSet(Cal(th, f, T)) /\ Cardinality(Cal(th, f, T)) <= Cardinality(Ent(th, T))
  BY <1>1, FS_Subset
<1>3. Cardinality(Cal(th, f, T)) \in Nat /\ Cardinality(Ent(th, T)) \in Nat
  BY <1>2, FS_CardinalityType
<1> QED
  BY <1>2, <1>3, FS_EmptySet

------------------------------------------------------------------------------
(* Sorted lists. *)

\* Strictly ascending.
Sorted(names) == \A i, j \in 1..Len(names) : i < j => names[i] < names[j]

\* A non-empty set of naturals has a least member.
LEMMA LeastOf ==
    ASSUME NEW S, S \subseteq Nat, S # {}
    PROVE  \E x \in S : \A y \in S : x <= y
<1> DEFINE R == OpToRel(<, Nat)
<1>2. IsWellFoundedOn(R, Nat)
  BY NatLessThanWellFounded, Zenon
<1>3. \A x, y \in Nat : y < x => <<y, x>> \in R
  BY DEF OpToRel
<1> HIDE DEF R
<1>4. PICK x \in S : \A y \in S : ~(<<y, x>> \in R)
  BY <1>2, WFMin
<1>5. \A y \in S : x <= y
  <2> TAKE y \in S
  <2>1. x \in Nat /\ y \in Nat
    OBVIOUS
  <2>2. ~(y < x)
    BY <1>3, <1>4, <2>1, Zenon
  <2> QED
    BY <2>1, <2>2
<1> QED
  BY <1>5

\* The insertion loops stop at the first name that is not smaller.
LEMMA StopFacts ==
    ASSUME NEW names \in Seq(Nat), NEW name \in Nat
    PROVE  LET i == Stop(names, name)
           IN  /\ i \in 1..Len(names) + 1
               /\ \A j \in 1..i - 1 : names[j] < name
               /\ i \in 1..Len(names) => names[i] >= name
<1> DEFINE S == {i \in 1..Len(names) + 1 : i = Len(names) + 1 \/ names[i] >= name}
           P(i) == /\ \A j \in 1..i - 1 : names[j] < name
                   /\ i \in DOMAIN names => names[i] >= name
<1>0. Len(names) \in Nat /\ DOMAIN names = 1..Len(names) /\ \A j \in 1..Len(names) : names[j] \in Nat
  OBVIOUS
<1>1. S \subseteq Nat /\ Len(names) + 1 \in S
  BY <1>0
<1>2. PICK i \in S : \A y \in S : i <= y
  <2> HIDE DEF S
  <2> QED
    BY <1>1, LeastOf
<1>3. i \in 1..Len(names) + 1
  OBVIOUS
<1>4. \A j \in 1..i - 1 : names[j] < name
  <2> TAKE j \in 1..i - 1
  <2>1. j \in 1..Len(names) /\ ~(i <= j)
    BY <1>0, <1>3
  <2>2. j \notin S
    BY <1>2, <2>1
  <2>3. ~(names[j] >= name)
    BY <1>0, <2>1, <2>2
  <2>4. names[j] \in Nat
    BY <1>0, <2>1
  <2> QED
    BY <2>3, <2>4
<1>5. i \in DOMAIN names => names[i] >= name
  BY <1>0
<1>6. P(i)
  BY <1>4, <1>5
<1>7. Stop(names, name) = CHOOSE n \in 1..Len(names) + 1 : P(n)
  BY DEF Stop
<1> HIDE DEF P, S
<1>8. Stop(names, name) \in 1..Len(names) + 1 /\ P(Stop(names, name))
  BY <1>3, <1>6, <1>7
<1> QED
  BY <1>0, <1>8 DEF P

\* Linking in order: a name that the list does not hold yet.
LEMMA SortedInsert ==
    ASSUME NEW names \in Seq(Nat), NEW name \in Nat, Sorted(names), ~Duplicate(names, name),
           NEW new \in Seq(Nat), Inserted(names, Stop(names, name), name, new)
    PROVE  Sorted(new)
<1> DEFINE i == Stop(names, name)
<1>1. /\ i \in 1..Len(names) + 1
      /\ \A j \in 1..i - 1 : names[j] < name
      /\ i \in 1..Len(names) => names[i] >= name
  BY StopFacts
<1>2. i \in 1..Len(names) => names[i] # name
  BY DEF Duplicate
<1>3. Inserted(names, i, name, new)
  OBVIOUS
<1>0. Len(names) \in Nat /\ \A j \in 1..Len(names) : names[j] \in Nat
  OBVIOUS
<1> HIDE DEF i
<1>4. i \in 1..Len(names) => names[i] > name
  BY <1>0, <1>1, <1>2
<1>5. \A j \in 1..Len(names) : ~(j < i) => names[j] > name
  <2> SUFFICES ASSUME NEW j \in 1..Len(names), ~(j < i) PROVE names[j] > name
    OBVIOUS
  <2>1. i \in 1..Len(names) /\ (i = j \/ i < j)
    BY <1>0, <1>1
  <2>2. names[i] > name /\ (i < j => names[i] < names[j])
    BY <1>4, <2>1 DEF Sorted
  <2>3. names[i] \in Nat /\ names[j] \in Nat
    BY <1>0, <2>1
  <2> QED
    BY <2>1, <2>2, <2>3
<1>6. \A j \in 1..Len(names) : j < i => names[j] < name
  BY <1>0, <1>1
<1> SUFFICES ASSUME NEW p \in 1..Len(new), NEW q \in 1..Len(new), p < q PROVE new[p] < new[q]
  BY DEF Sorted
<1>7. /\ Len(new) = Len(names) + 1 /\ i \in 1..Len(new) /\ new[i] = name
      /\ \A j \in 1..Len(names) : new[IF j < i THEN j ELSE j + 1] = names[j]
  BY <1>3 DEF Inserted
<1>8. \A j \in 1..Len(new) : /\ j < i => j \in 1..Len(names) /\ new[j] = names[j]
                             /\ j > i => /\ j - 1 \in 1..Len(names) /\ ~(j - 1 < i)
                                         /\ new[j] = names[j - 1]
  <2> TAKE j \in 1..Len(new)
  <2>1. ASSUME j < i PROVE j \in 1..Len(names) /\ new[j] = names[j]
    <3>1. j \in 1..Len(names)
      BY <1>0, <1>7, <2>1
    <3> QED
      BY <1>7, <2>1, <3>1
  <2>2. ASSUME j > i PROVE j - 1 \in 1..Len(names) /\ ~(j - 1 < i) /\ new[j] = names[j - 1]
    <3>1. j - 1 \in 1..Len(names) /\ ~(j - 1 < i) /\ (j - 1) + 1 = j
      BY <1>0, <1>7, <2>2
    <3>2. new[(j - 1) + 1] = names[j - 1]
      BY <1>7, <3>1
    <3> QED
      BY <3>1, <3>2
  <2> QED
    BY <2>1, <2>2
<1>9. p \in Nat /\ q \in Nat /\ i \in Nat
  BY <1>0, <1>7
<1>10. CASE q < i
  <2>1. p \in 1..Len(names) /\ q \in 1..Len(names) /\ new[p] = names[p] /\ new[q] = names[q]
    BY <1>8, <1>9, <1>10
  <2> QED
    BY <2>1 DEF Sorted
<1>11. CASE q = i
  <2>1. p \in 1..Len(names) /\ new[p] = names[p] /\ new[q] = name /\ p < i
    BY <1>7, <1>8, <1>9, <1>11
  <2> QED
    BY <1>6, <2>1
<1>12. CASE q > i
  <2>1. q - 1 \in 1..Len(names) /\ ~(q - 1 < i) /\ new[q] = names[q - 1]
    BY <1>8, <1>12
  <2>2. names[q - 1] > name /\ names[q - 1] \in Nat
    BY <1>0, <1>5, <2>1
  <2>3. CASE p < i
    <3>1. p \in 1..Len(names) /\ new[p] = names[p]
      BY <1>8, <2>3
    <3>2. names[p] < name /\ names[p] \in Nat
      BY <1>0, <1>6, <2>3, <3>1
    <3>3. name \in Nat
      OBVIOUS
    <3>4. names[p] < names[q - 1]
      BY <2>2, <3>2, <3>3
    <3> QED
      BY <2>1, <3>1, <3>4
  <2>4. CASE p = i
    BY <1>7, <2>1, <2>2, <2>4
  <2>5. CASE p > i
    <3>1. p - 1 \in 1..Len(names) /\ new[p] = names[p - 1]
      BY <1>8, <2>5
    <3>2. p - 1 < q - 1
      BY <1>9
    <3>3. names[p - 1] < names[q - 1]
      BY <2>1, <3>1, <3>2 DEF Sorted
    <3> QED
      BY <2>1, <3>1, <3>3
  <2> QED
    BY <1>9, <2>3, <2>4, <2>5
<1> QED
  BY <1>9, <1>10, <1>11, <1>12

\* Unlinking keeps the order; Name gives the name of each element.
LEMMA SortedWithout ==
    ASSUME NEW S, NEW l \in Seq(S), NEW g, NEW names, NEW kept,
           Len(names) = Len(l), Sorted(names),
           Len(kept) = Len(Without(l, g)),
           \A n \in 1..Len(kept) : kept[n] = names[Nth(l, g, n)]
    PROVE  Sorted(kept)
<1> SUFFICES ASSUME NEW m \in 1..Len(kept), NEW n \in 1..Len(kept), m < n PROVE kept[m] < kept[n]
  BY DEF Sorted
<1>1. m \in 1..Len(Without(l, g)) /\ n \in 1..Len(Without(l, g))
  OBVIOUS
<1>2. /\ Nth(l, g, m) \in 1..Len(l) /\ Nth(l, g, n) \in 1..Len(l)
      /\ Nth(l, g, m) < Nth(l, g, n)
  BY <1>1, WithoutFacts
<1>3. names[Nth(l, g, m)] < names[Nth(l, g, n)]
  BY <1>2 DEF Sorted
<1> QED
  BY <1>3

\* BOOLEAN, under a name that the record types below keep folded.
Flag == BOOLEAN

\* What comp_id of a thread holds: a uuid, 0 or the failure of hal_init.
CompIds == -1..MaxIds

\* What the structures of each kind hold.
CompRec == [id : 0..MaxIds, name : {NoName}, ready : Flag]
FunctRec == [name : Names \cup {NoName}, owner : 0..MaxComps, users : Nat, runtime : 0..MaxPins]
PinRec == [name : Nat, owner : 0..MaxComps]
ParamRec == [name : Nat, owner : 0..MaxComps, data : 0..MaxFuncts]
ThreadRec == [name : ThreadNames \cup {NoName}, comp_id : CompIds, task_id : Nat, runtime : 0..MaxPins,
              functs : Seq(1..MaxFuncts)]

\* Where a caller of hal_export_funct is once it has linked its function.
Exporting == {"export_pin", "export_pin_locked", "export_zero", "export_tmax", "export_tmax_locked",
              "export_inc", "export_inc_locked"}
\* Where a caller of hal_create_thread is once it has linked its thread.
Creating == {"create_comp", "create_tmax", "create_tmax_locked", "create_pin", "create_pin_locked",
             "create_ready", "create_ready_locked"}
\* Where a caller is going to take a uuid.
Taking == {"create_insert", "create_comp"}

\* The callers whose call is going to take a uuid.
Pending == {k \in Callers : call[k].pc \in Taking}

\* The ids of listed components are different uuids that were handed out: a
\* uuid in the hands of a caller names one component or none.
CompsInv ==
    /\ comp \in [1..MaxComps -> CompRec] /\ ListOK(compList, compFree, MaxComps)
    /\ \A c \in Listed(compList) : comp[c].id \in 1..uuid
    /\ \A c, d \in Listed(compList) : comp[c].id = comp[d].id => c = d

\* Functions: each structure on one list, once, and the names sorted.
FunctsInv ==
    /\ funct \in [1..MaxFuncts -> FunctRec] /\ ListOK(functList, functFree, MaxFuncts)
    /\ Sorted(FunctNames)

\* Pins: the same.
PinsInv ==
    /\ pin \in [1..MaxPins -> PinRec] /\ ListOK(pinList, pinFree, MaxPins)
    /\ Sorted(PinNames)

\* Params: no more than the bound, and the names sorted.
ParamsInv ==
    /\ paramList \in Seq(ParamRec) /\ Len(paramList) <= MaxParams
    /\ Sorted(ParamNames)

\* Threads: each structure on one list, once.
ThreadsInv ==
    /\ thread \in [1..MaxThreads -> ThreadRec] /\ ListOK(threadList, threadFree, MaxThreads)

\* The task table and the lifecycle fields.
RestInv ==
    /\ task \in [0..MaxTasks - 1 -> 0..MaxThreads]
    /\ state \in {"ACTIVE", "RUNNING", "SHUTTING_DOWN"} /\ threads_running \in {0, 1}

\* What caller k knows between two sections: an id that was handed out when it
\* exports, names of the right kind and, once it has linked a structure, which
\* one.  The name of a thread is gone when its structure was freed meanwhile.
CallInv(k) ==
    /\ call[k].pc \in Exporting \cup {"export_insert"} => call[k].id <= uuid
    /\ call[k].pc \in Exporting \cup {"export_insert"} => call[k].name \in Names
    /\ call[k].pc \in Exporting => call[k].slot \in 1..MaxFuncts
    /\ call[k].pc = "create_insert" => call[k].name \in ThreadNames
    /\ call[k].pc \in Creating => call[k].name \in ThreadNames \cup {0}
    /\ call[k].pc \in Creating => call[k].slot \in 1..MaxThreads
    /\ call[k].pc = "add" => call[k].pos \in Int \ {0}

\* Every caller, and a uuid left for each that is going to take one.
CallsInv ==
    /\ call \in [Callers -> CallType]
    /\ uuid \in Nat /\ uuid + Cardinality(Pending) <= MaxIds
    /\ \A k \in Callers : CallInv(k)

\* A caller that exports a function for a component that is still there has
\* linked it there.
SlotOwned(k) ==
    call[k].pc \in Exporting =>
        \A c \in Listed(compList) : comp[c].id = call[k].id =>
            call[k].slot \in Listed(functList) /\ funct[call[k].slot].owner = c

\* Owners of functions and params, and the functions that exports in progress work for.
OwnersInv ==
    /\ OwnersListed /\ ParamsShowLiveFuncts
    /\ \A k \in Callers : SlotOwned(k)

\* users counts the entries of every function structure, the free ones included:
\* alloc_funct_struct hands them out again.
EntriesInv ==
    /\ IsFiniteSet(EntriesOf(Listed(threadList)))
    /\ Cardinality(EntriesOf(Listed(threadList))) <= MaxEntries
    /\ EntriesListed
    /\ \A f \in 1..MaxFuncts : funct[f].users = Cardinality(CallsOf(f, Listed(threadList)))

\* The inductive invariant.
RegistryInv ==
    /\ CompsInv /\ FunctsInv /\ PinsInv /\ ParamsInv /\ ThreadsInv /\ RestInv /\ CallsInv
    /\ OwnersInv /\ EntriesInv

\* A step of caller k.
Step(k) == Call(k) \/ Continue(k)

\* The steps that change a list or a structure.
Loud(k) ==
    \/ \E name \in CompNames : hal_init(k, name)
    \/ \E id \in 1..uuid : hal_exit(k, id) \/ hal_ready(k, id) \/ hal_unready(k, id)
    \/ export_insert(k) \/ export_pin(k) \/ export_tmax(k) \/ export_inc(k)
    \/ create_rollback(k) \/ create_start_failed(k) \/ create_insert(k)
    \/ create_comp(k) \/ create_tmax(k) \/ create_pin(k) \/ create_ready(k)
    \/ delete_thread(k) \/ add_entry(k) \/ del_entry(k) \/ app_exit(k)

\* The other steps.
Quiet == UNCHANGED <<comps, functs, pins, paramList, threads, task, uuid>>

\* Every other step changes no list and no structure.
LEMMA QuietOrLoud ==
    ASSUME NEW k \in Callers, Step(k)
    PROVE  Quiet \/ Loud(k)
<1>1. CASE Call(k)
  <2>1. CASE \E thr \in ThreadNames :
                \/ hal_create_thread(k, thr)
                \/ hal_thread_delete(k, thr)
                \/ \E name \in Names :
                      \/ \E pos \in Positions : hal_add_funct_to_thread(k, name, thr, pos)
                      \/ hal_del_funct_from_thread(k, name, thr)
    BY <2>1 DEF Quiet, hal_create_thread, hal_thread_delete, hal_add_funct_to_thread,
                hal_del_funct_from_thread, comps, functs, pins, threads, tasks
  <2>2. CASE \E id \in 1..uuid, name \in Names : hal_export_funct(k, id, name)
    BY <2>2 DEF Quiet, hal_export_funct, comps, functs, pins, threads, tasks
  <2>3. CASE \/ \E bits \in LockTypes : hal_set_lock(k, bits)
             \/ hal_start_threads(k) \/ hal_stop_threads(k) \/ hal_app_exit(k)
    BY <2>3 DEF Quiet, hal_set_lock, hal_start_threads, hal_stop_threads, hal_app_exit, comps, functs,
                pins, threads, tasks
  <2> QED
    BY <1>1, <2>1, <2>2, <2>3 DEF Call, Loud
<1>2. CASE Continue(k)
  <2>1. CASE \/ export_gate(k) \/ export_zero(k) \/ create_refused(k) \/ create_gate(k)
             \/ delete_missing(k) \/ delete_exit(k) \/ start_state(k) \/ stop_state(k)
             \/ app_exit_unmap(k)
    BY <2>1 DEF Quiet, export_gate, export_zero, create_refused, create_gate, delete_missing,
                delete_exit, start_state, stop_state, app_exit_unmap, comps, functs, pins, threads, tasks
  <2> QED
    BY <1>2, <2>1 DEF Continue, Loud
<1> QED
  BY <1>1, <1>2 DEF Step

\* The bounds are naturals.
LEMMA Bounds ==
    /\ MaxComps \in Nat /\ MaxFuncts \in Nat /\ MaxPins \in Nat /\ MaxParams \in Nat
    /\ MaxThreads \in Nat /\ MaxEntries \in Nat /\ MaxTasks \in Nat /\ MaxIds \in Nat
BY BoundsAreNat

\* A component that is found is in the list and has the id.
LEMMA FindCompIs ==
    ASSUME ListOK(compList, compFree, MaxComps), NEW id, FindComp(id) # 0
    PROVE  /\ FindComp(id) \in Listed(compList) /\ FindComp(id) \in 1..MaxComps
           /\ comp[FindComp(id)].id = id
<1>1. Listed(compList) \subseteq 1..MaxComps
  BY Bounds, ListedDisjoint
<1>2. FindComp(id) \in Listed(compList) /\ comp[FindComp(id)].id = id
  BY DEF FindComp
<1> QED
  BY <1>1, <1>2

\* A thread that is found is in the list.
LEMMA FindThreadIs ==
    ASSUME ListOK(threadList, threadFree, MaxThreads), NEW name, FindThread(name) # 0
    PROVE  FindThread(name) \in Listed(threadList) /\ FindThread(name) \in 1..MaxThreads
<1>1. Listed(threadList) \subseteq 1..MaxThreads
  BY Bounds, ListedDisjoint
<1>2. FindThread(name) \in Listed(threadList)
  BY DEF FindThread
<1> QED
  BY <1>1, <1>2

\* A function that is found is in the list.
LEMMA FindFunctIs ==
    ASSUME ListOK(functList, functFree, MaxFuncts), NEW name, FindFunct(name) # 0
    PROVE  FindFunct(name) \in Listed(functList) /\ FindFunct(name) \in 1..MaxFuncts
<1>1. Listed(functList) \subseteq 1..MaxFuncts
  BY Bounds, ListedDisjoint
<1>2. FindFunct(name) \in Listed(functList)
  BY DEF FindFunct
<1> QED
  BY <1>1, <1>2

------------------------------------------------------------------------------
(* Components. *)

\* TRUE and FALSE, without unfolding BOOLEAN.
LEMMA Flags == TRUE \in Flag /\ FALSE \in Flag
BY DEF Flag

\* What a step may do to the components.
LEMMA CompsSteps ==
    ASSUME NEW k \in Callers, Step(k)
    PROVE  \/ UNCHANGED <<comps, uuid>>
           \/ \E name : CompNew(name) /\ (IdsLeft \/ call[k].pc = "create_comp")
           \/ \E id \in 1..uuid : hal_exit(k, id)
           \/ \E id, ready : ready \in Flag /\ FindComp(id) # 0 /\ SetReady(id, ready) /\ uuid' = uuid
<1>1. CASE Quiet
  BY <1>1 DEF Quiet, comps
<1>2. CASE \E name \in CompNames : hal_init(k, name)
  BY <1>2 DEF hal_init
<1>3. CASE \E id \in 1..uuid : hal_exit(k, id)
  BY <1>3
<1>4. CASE \E id \in 1..uuid : hal_ready(k, id) \/ hal_unready(k, id)
  BY <1>4, Flags DEF hal_ready, hal_unready
<1>5. CASE create_comp(k)
  BY <1>5 DEF create_comp, Locked
<1>6. CASE create_ready(k)
  BY <1>6, Flags DEF create_ready
<1>7. CASE \/ export_insert(k) \/ export_pin(k) \/ export_tmax(k) \/ export_inc(k)
           \/ create_rollback(k) \/ create_start_failed(k) \/ create_insert(k)
           \/ create_tmax(k) \/ create_pin(k)
  BY <1>7 DEF export_insert, export_pin, export_tmax, export_inc, create_rollback,
              create_start_failed, create_insert, create_tmax, create_pin, comps
<1>8. CASE delete_thread(k) \/ add_entry(k) \/ del_entry(k) \/ app_exit(k)
  BY <1>8 DEF delete_thread, add_entry, del_entry, app_exit, comps
<1> QED
  BY <1>1, <1>2, <1>3, <1>4, <1>5, <1>6, <1>7, <1>8, QuietOrLoud DEF Loud

\* The bound on uuids leaves one for every caller that is going to take one.
LEMMA IdLeft ==
    ASSUME CallsInv, NEW k \in Callers, IdsLeft \/ call[k].pc = "create_comp"
    PROVE  uuid \in Nat /\ uuid + 1 <= MaxIds
<1>1. IsFiniteSet(Pending) /\ Pending = {j \in Callers : call[j].pc \in {"create_insert", "create_comp"}}
  <2>1. Pending \in SUBSET Callers
    BY DEF Pending
  <2> QED
    BY <2>1, CallersAreFinite, FS_Subset DEF Pending, Taking
<1>2. Cardinality(Pending) \in Nat /\ (Cardinality(Pending) = 0 => Pending = {})
  BY <1>1, FS_CardinalityType, FS_EmptySet
<1>3. uuid \in Nat /\ uuid + Cardinality(Pending) <= MaxIds
  BY DEF CallsInv
<1>4. CASE IdsLeft
  <2>1. uuid + Cardinality(Pending) < MaxIds
    BY <1>1, <1>4 DEF IdsLeft
  <2> QED
    BY <2>1, <1>2, <1>3, Bounds
<1>5. CASE call[k].pc = "create_comp"
  <2>1. k \in Pending
    BY <1>5 DEF Pending, Taking
  <2>2. Cardinality(Pending) >= 1
    BY <2>1, <1>2
  <2> QED
    BY <2>2, <1>2, <1>3, Bounds
<1> QED
  BY <1>4, <1>5

\* What CompNew does when it links a component.
LEMMA CompLinked ==
    ASSUME CompsInv, NEW name, CompNew(name), ~UNCHANGED comps
    PROVE  LET c == Head(compFree)
           IN  /\ ListOK(compList', compFree', MaxComps)
               /\ c \in 1..MaxComps /\ c \notin Listed(compList)
               /\ Listed(compList') = Listed(compList) \cup {c}
               /\ comp' = [comp EXCEPT ![c] = [id |-> uuid + 1, name |-> NoName, ready |-> FALSE]]
<1> DEFINE c == Head(compFree)
<1>1. /\ compFree # <<>>
      /\ comp' = [comp EXCEPT ![c] = [id |-> uuid + 1, name |-> NoName, ready |-> FALSE]]
      /\ compList' = <<c>> \o compList /\ compFree' = Tail(compFree)
  BY DEF CompNew, halpr_alloc_comp_struct
<1>2. /\ ListOK(compList, compFree, MaxComps)
      /\ compList \in Seq(1..MaxComps) /\ compFree \in Seq(1..MaxComps)
  BY Bounds, ListedDisjoint DEF CompsInv
<1>3. c \in 1..MaxComps
  BY <1>1, <1>2, TailFacts
<1>4. <<c>> \o compList \in Seq(1..MaxComps) /\ Inserted(compList, 1, c, <<c>> \o compList)
  BY <1>2, <1>3, ConsFacts
<1>5. compList' \in Seq(1..MaxComps) /\ Inserted(compList, 1, c, compList') /\ c = Head(compFree)
  BY <1>1, <1>4
<1> HIDE DEF c
<1>6. /\ ListOK(compList', Tail(compFree), MaxComps)
      /\ c \in 1..MaxComps /\ c \notin Listed(compList)
      /\ Listed(compList') = Listed(compList) \cup {c}
  <2>1. Linked(compList, compFree, 1, c, compList', MaxComps)
    BY <1>1, <1>2, <1>5 DEF Linked
  <2> QED
    BY <2>1, Bounds, Take
<1> QED
  BY <1>1, <1>5, <1>6

\* Every step keeps the components in order: hal_init takes a fresh uuid, hal_exit unlinks.
LEMMA CompsStep ==
    ASSUME CompsInv, CallsInv, NEW k \in Callers, Step(k)
    PROVE  CompsInv'
<1>0. /\ comp \in [1..MaxComps -> CompRec] /\ ListOK(compList, compFree, MaxComps)
      /\ Listed(compList) \subseteq 1..MaxComps
      /\ \A c \in Listed(compList) : comp[c].id \in 1..uuid
      /\ \A c, d \in Listed(compList) : comp[c].id = comp[d].id => c = d
  BY Bounds, ListedDisjoint DEF CompsInv
<1>u. uuid \in Nat
  BY DEF CallsInv
<1>1. CASE UNCHANGED <<comps, uuid>>
  BY <1>1 DEF CompsInv, comps
<1>2. ASSUME NEW name, CompNew(name), IdsLeft \/ call[k].pc = "create_comp" PROVE CompsInv'
  <2>1. uuid + 1 <= MaxIds /\ uuid' = uuid + 1
    BY <1>2, IdLeft DEF CompNew
  <2>2. CASE UNCHANGED comps
    <3>1. \A c \in Listed(compList) : comp[c].id \in 1..uuid + 1
      BY <1>0, <1>u
    <3> QED
      BY <1>0, <2>1, <2>2, <3>1 DEF CompsInv, comps
  <2>3. CASE ~UNCHANGED comps
    <3> DEFINE c == Head(compFree)
               r == [id |-> uuid + 1, name |-> NoName, ready |-> FALSE]
    <3>1. /\ ListOK(compList', compFree', MaxComps)
          /\ c \in 1..MaxComps /\ c \notin Listed(compList)
          /\ Listed(compList') = Listed(compList) \cup {c}
          /\ comp' = [comp EXCEPT ![c] = r]
      BY <1>2, <2>3, CompLinked
    <3>2. r \in CompRec /\ r.id = uuid + 1
      <4>1. \A b \in Flag : [id |-> uuid + 1, name |-> NoName, ready |-> b] \in CompRec
        BY <1>u, <2>1, Bounds DEF CompRec
      <4> QED
        BY <4>1, Flags
    <3> HIDE DEF r, c
    <3>3. comp' \in [1..MaxComps -> CompRec]
      BY <1>0, <3>1, <3>2
    <3>4. comp'[c].id = uuid + 1 /\ \A d \in Listed(compList) : d # c /\ comp'[d] = comp[d]
      BY <1>0, <3>1, <3>2
    <3>5. \A d \in Listed(compList) : comp[d].id \in 1..uuid + 1 /\ comp[d].id # uuid + 1
      BY <1>0, <1>u
    <3>6. uuid + 1 \in 1..uuid + 1
      BY <1>u
    <3>7. \A d \in Listed(compList') : comp'[d].id \in 1..uuid'
      BY <2>1, <3>1, <3>4, <3>5, <3>6
    <3>8. \A d, e \in Listed(compList') : comp'[d].id = comp'[e].id => d = e
      BY <1>0, <3>1, <3>4, <3>5
    <3> QED
      BY <3>1, <3>3, <3>7, <3>8 DEF CompsInv
  <2> QED
    BY <2>2, <2>3
<1>3. ASSUME NEW id \in 1..uuid, hal_exit(k, id) PROVE CompsInv'
  <2> DEFINE c == FindComp(id)
             r == [FreeComp EXCEPT !.ready = comp[c].ready]
  <2>1. /\ c # 0 /\ compList' = Without(compList, {c}) /\ compFree' = <<c>> \o compFree
        /\ comp' = [comp EXCEPT ![c] = r] /\ uuid' = uuid
    BY <1>3 DEF hal_exit, free_comp_struct
  <2>2. c \in Listed(compList) /\ c \in 1..MaxComps
    BY <1>0, <2>1, FindCompIs
  <2>3. ListOK(compList', compFree', MaxComps) /\ Listed(compList') = Listed(compList) \ {c}
    BY <1>0, <2>1, <2>2, Bounds, GiveOne
  <2>4. r \in CompRec
    BY <1>0, <2>2, Bounds DEF CompRec, FreeComp
  <2> HIDE DEF c, r
  <2>5. comp' \in [1..MaxComps -> CompRec] /\ \A d \in Listed(compList') : comp'[d] = comp[d]
    BY <1>0, <2>1, <2>3, <2>4
  <2> QED
    BY <1>0, <2>1, <2>3, <2>5 DEF CompsInv
<1>4. ASSUME NEW id, NEW ready \in Flag, FindComp(id) # 0, SetReady(id, ready), uuid' = uuid
      PROVE  CompsInv'
  <2> DEFINE c == FindComp(id)
  <2>1. comp' = [comp EXCEPT ![c].ready = ready] /\ UNCHANGED <<compList, compFree>>
    BY <1>4 DEF SetReady
  <2>2. c \in 1..MaxComps
    BY <1>0, <1>4, FindCompIs
  <2> HIDE DEF c
  <2>3. comp' \in [1..MaxComps -> CompRec]
    BY <1>0, <2>1, <2>2 DEF CompRec
  <2>4. \A d \in 1..MaxComps : comp'[d].id = comp[d].id
    BY <1>0, <2>1, <2>2 DEF CompRec
  <2> QED
    BY <1>0, <1>4, <2>1, <2>3, <2>4 DEF CompsInv
<1> QED
  BY <1>1, <1>2, <1>3, <1>4, CompsSteps

------------------------------------------------------------------------------
(* Names. *)

\* The names of the structures on list l, with the records r.
NamesOf(l, r) == [i \in DOMAIN l |-> r[l[i]].name]

\* x, with its name, is linked where the search stopped, in l with records r;
\* the others keep their names.
LinkedByName(l, i, x, m, r, s, name) ==
    /\ Inserted(l, i, x, m) /\ i = Stop(NamesOf(l, r), name)
    /\ ~Duplicate(NamesOf(l, r), name) /\ Sorted(NamesOf(l, r))
    /\ \A y \in Listed(l) : r[y].name \in Nat /\ s[y].name = r[y].name
    /\ name \in Nat /\ s[x].name = name

\* Linking by name keeps the names sorted.
LEMMA NamesLinked ==
    ASSUME NEW S, NEW l \in Seq(S), NEW m \in Seq(S), NEW i, NEW x, NEW r, NEW s, NEW name,
           LinkedByName(l, i, x, m, r, s, name)
    PROVE  Sorted(NamesOf(m, s))
<1> DEFINE old == NamesOf(l, r)
           new == NamesOf(m, s)
<1>0. /\ Inserted(l, i, x, m) /\ i = Stop(old, name)
      /\ ~Duplicate(old, name) /\ Sorted(old)
      /\ \A y \in Listed(l) : r[y].name \in Nat /\ s[y].name = r[y].name
      /\ name \in Nat /\ s[x].name = name
  BY DEF LinkedByName
<1>1. /\ Len(l) \in Nat /\ DOMAIN l = 1..Len(l) /\ Len(m) = Len(l) + 1 /\ DOMAIN m = 1..Len(m)
      /\ i \in 1..Len(m) /\ m[i] = x
      /\ \A j \in 1..Len(l) : m[IF j < i THEN j ELSE j + 1] = l[j]
  BY <1>0 DEF Inserted
<1>2. \A j \in 1..Len(l) : l[j] \in Listed(l)
  BY ListedIs
<1>3. \A j \in 1..Len(l) : r[l[j]].name \in Nat /\ s[l[j]].name = r[l[j]].name
  BY <1>0, <1>2
<1>4. old \in Seq(Nat) /\ Len(old) = Len(l) /\ \A j \in 1..Len(l) : old[j] = r[l[j]].name
  BY <1>1, <1>3 DEF NamesOf
<1>5. \A j \in 1..Len(m) : j = i \/ \E h \in 1..Len(l) : m[j] = l[h]
  <2> TAKE j \in 1..Len(m)
  <2>1. CASE j < i
    <3>1. j \in 1..Len(l)
      BY <1>1, <2>1
    <3> QED
      BY <1>1, <2>1, <3>1
  <2>2. CASE j > i
    <3>1. j - 1 \in 1..Len(l) /\ ~(j - 1 < i) /\ (j - 1) + 1 = j
      BY <1>1, <2>2
    <3> QED
      BY <1>1, <3>1
  <2> QED
    BY <1>1, <2>1, <2>2
<1>6. \A j \in 1..Len(m) : s[m[j]].name \in Nat
  <2> TAKE j \in 1..Len(m)
  <2>1. CASE j = i
    BY <1>0, <1>1, <2>1
  <2>2. CASE j # i
    <3>1. PICK h \in 1..Len(l) : m[j] = l[h]
      BY <1>5, <2>2
    <3>2. s[l[h]].name \in Nat
      BY <1>3
    <3> QED
      BY <3>1, <3>2
  <2> QED
    BY <2>1, <2>2
<1>7. new \in Seq(Nat) /\ Len(new) = Len(m) /\ \A j \in 1..Len(m) : new[j] = s[m[j]].name
  BY <1>1, <1>6 DEF NamesOf
<1> HIDE DEF old, new
<1>8. \A j \in 1..Len(l) : new[IF j < i THEN j ELSE j + 1] = old[j]
  <2> TAKE j \in 1..Len(l)
  <2>1. (IF j < i THEN j ELSE j + 1) \in 1..Len(m)
    BY <1>1
  <2>2. m[IF j < i THEN j ELSE j + 1] = l[j]
    BY <1>1
  <2> QED
    BY <2>1, <2>2, <1>3, <1>4, <1>7
<1>9. Inserted(old, Stop(old, name), name, new)
  BY <1>0, <1>1, <1>4, <1>7, <1>8 DEF Inserted
<1>10. Sorted(new)
  BY <1>0, <1>4, <1>7, <1>9, SortedInsert
<1> QED
  BY <1>10 DEF new

\* So does unlinking.
LEMMA NamesUnlinked ==
    ASSUME NEW S, NEW l \in Seq(S), NEW g, NEW r, NEW s, Sorted(NamesOf(l, r)),
           \A y \in Listed(l) : y \notin g => s[y].name = r[y].name
    PROVE  Sorted(NamesOf(Without(l, g), s))
<1> DEFINE w == Without(l, g)
           old == NamesOf(l, r)
           new == NamesOf(w, s)
<1>1. Len(l) \in Nat /\ DOMAIN l = 1..Len(l)
  OBVIOUS
<1>2. w \in Seq(S) /\ Len(w) \in Nat /\ DOMAIN w = 1..Len(w)
  BY WithoutFacts
<1>3. \A n \in 1..Len(w) : /\ Nth(l, g, n) \in 1..Len(l)
                           /\ l[Nth(l, g, n)] \notin g
                           /\ w[n] = l[Nth(l, g, n)]
  BY WithoutFacts
<1>4. \A j \in 1..Len(l) : l[j] \in Listed(l)
  BY ListedIs
<1>5. Len(old) = Len(l) /\ \A j \in 1..Len(l) : old[j] = r[l[j]].name
  BY <1>1 DEF NamesOf
<1> HIDE DEF w
<1>6. Len(new) = Len(w) /\ \A j \in 1..Len(w) : new[j] = s[w[j]].name
  BY <1>2 DEF NamesOf
<1>7. \A n \in 1..Len(w) : new[n] = old[Nth(l, g, n)]
  BY <1>3, <1>4, <1>5, <1>6
<1>8. Len(new) = Len(Without(l, g)) /\ \A n \in 1..Len(new) : new[n] = old[Nth(l, g, n)]
  BY <1>6, <1>7 DEF w
<1>9. Sorted(old)
  OBVIOUS
<1> HIDE DEF old, new
<1>10. Sorted(new)
  BY <1>5, <1>8, <1>9, SortedWithout
<1> QED
  BY <1>10 DEF new, w

\* And so does a step that changes no name.
LEMMA NamesSame ==
    ASSUME NEW S, NEW l \in Seq(S), NEW r, NEW s, \A y \in Listed(l) : s[y].name = r[y].name
    PROVE  NamesOf(l, s) = NamesOf(l, r)
BY ListedIs DEF NamesOf

\* Names are naturals.
LEMMA NamesNat == Names \subseteq Nat /\ ThreadNames \subseteq Nat
BY NamesArePositive

\* The name of a thread, or the empty one of a thread that was freed.
LEMMA ThreadNameNat == \A n \in ThreadNames \cup {0} : n \in Nat
BY NamesNat

------------------------------------------------------------------------------
(* Pins. *)

\* Only hal_pin_new changes the pins.
LEMMA PinsSteps ==
    ASSUME CallsInv, NEW k \in Callers, Step(k)
    PROVE  UNCHANGED pins \/ \E id, name : name \in Nat /\ PinNew(id, name)
<1>0. CallInv(k)
  BY DEF CallsInv
<1>1. CASE Quiet
  BY <1>1 DEF Quiet
<1>2. CASE export_pin(k)
  <2>1. call[k].name \in Nat
    BY <1>0, <1>2, NamesNat DEF CallInv, Exporting, export_pin, Locked
  <2> QED
    BY <1>2, <2>1 DEF export_pin, TimeName
<1>3. CASE create_pin(k)
  <2>1. call[k].pc \in Creating
    BY <1>3 DEF Creating, create_pin, Locked
  <2>2. call[k].name \in ThreadNames \cup {0}
    BY <1>0, <2>1 DEF CallInv
  <2>3. call[k].name \in Nat
    BY <2>2, ThreadNameNat
  <2> QED
    BY <1>3, <2>3 DEF create_pin, TimeName
<1>4. CASE \E name \in CompNames : hal_init(k, name)
  BY <1>4 DEF hal_init
<1>5. CASE \E id \in 1..uuid : hal_exit(k, id) \/ hal_ready(k, id) \/ hal_unready(k, id)
  BY <1>5 DEF hal_exit, hal_ready, hal_unready
<1>6. CASE \/ export_insert(k) \/ export_tmax(k) \/ export_inc(k)
           \/ create_rollback(k) \/ create_start_failed(k) \/ create_insert(k)
           \/ create_comp(k) \/ create_tmax(k) \/ create_ready(k)
  BY <1>6 DEF export_insert, export_tmax, export_inc, create_rollback, create_start_failed,
              create_insert, create_comp, create_tmax, create_ready
<1>7. CASE delete_thread(k) \/ add_entry(k) \/ del_entry(k) \/ app_exit(k)
  BY <1>7 DEF delete_thread, add_entry, del_entry, app_exit
<1> QED
  BY <1>1, <1>2, <1>3, <1>4, <1>5, <1>6, <1>7, QuietOrLoud DEF Loud

\* What hal_pin_new does when it links a pin.
LEMMA PinLinked ==
    ASSUME CompsInv, PinsInv, NEW id, NEW name \in Nat, PinAdded(id, name), PinNew(id, name)
    PROVE  LET x == Head(pinFree)
               i == Stop(PinNames, name)
               r == [name |-> name, owner |-> FindComp(id)]
           IN  /\ FindComp(id) \in Listed(compList) /\ ~comp[FindComp(id)].ready
               /\ x \in 1..MaxPins /\ x \notin Listed(pinList)
               /\ Listed(pinList') = Listed(pinList) \cup {x}
               /\ r \in PinRec /\ r.name = name /\ r.owner = FindComp(id)
               /\ pin' = [pin EXCEPT ![x] = r]
               /\ ListOK(pinList', pinFree', MaxPins) /\ pinList' \in Seq(1..MaxPins)
               /\ Inserted(pinList, i, x, pinList') /\ ~Duplicate(PinNames, name)
<1> DEFINE x == Head(pinFree)
           i == Stop(PinNames, name)
           r == [name |-> name, owner |-> FindComp(id)]
<1>0. /\ pin \in [1..MaxPins -> PinRec] /\ ListOK(pinList, pinFree, MaxPins)
      /\ pinList \in Seq(1..MaxPins) /\ pinFree \in Seq(1..MaxPins)
      /\ Listed(pinList) \subseteq 1..MaxPins
  BY Bounds, ListedDisjoint DEF PinsInv
<1>1. /\ pin' = [pin EXCEPT ![x] = r]
      /\ pinList' = InsertAt(pinList, i, x)
      /\ pinFree' = Tail(pinFree) /\ pinFree # <<>>
      /\ FindComp(id) # 0 /\ ~comp[FindComp(id)].ready /\ ~Duplicate(PinNames, name)
  BY DEF PinNew, PinAdded, PinStored, Accepts, alloc_pin_struct
<1>2. x \in 1..MaxPins
  BY <1>0, <1>1, TailFacts
<1>3. PinNames \in Seq(Nat) /\ Len(PinNames) = Len(pinList)
  <2>1. \A j \in 1..Len(pinList) : pin[pinList[j]].name \in Nat
    <3>1. \A j \in 1..Len(pinList) : pinList[j] \in 1..MaxPins
      BY <1>0, ListedIs
    <3>2. \A p \in 1..MaxPins : pin[p].name \in Nat
      BY <1>0 DEF PinRec
    <3> QED
      BY <3>1, <3>2
  <2>2. PinNames = [j \in 1..Len(pinList) |-> pin[pinList[j]].name] /\ Len(pinList) \in Nat
    BY <1>0 DEF PinNames
  <2> QED
    BY <2>1, <2>2
<1>4. i \in 1..Len(pinList) + 1
  BY <1>3, StopFacts
<1>5. FindComp(id) \in Listed(compList) /\ r \in PinRec /\ r.name = name /\ r.owner = FindComp(id)
  <2>1. FindComp(id) \in Listed(compList) /\ FindComp(id) \in 1..MaxComps
    BY <1>1, FindCompIs DEF CompsInv
  <2> QED
    BY <2>1, Bounds DEF PinRec
<1> HIDE DEF x, i, r
<1>6. pinList' \in Seq(1..MaxPins) /\ Inserted(pinList, i, x, pinList')
  BY <1>0, <1>1, <1>2, <1>4, InsertFacts
<1>7. Linked(pinList, pinFree, i, x, pinList', MaxPins)
  BY <1>0, <1>1, <1>6 DEF Linked, x
<1>8. /\ ListOK(pinList', pinFree', MaxPins) /\ x \notin Listed(pinList)
      /\ Listed(pinList') = Listed(pinList) \cup {x}
  BY <1>1, <1>7, Bounds, Take
<1> QED
  BY <1>1, <1>2, <1>5, <1>6, <1>8 DEF x, i, r

\* Every step keeps the pins in order.
LEMMA PinsStep ==
    ASSUME CompsInv, PinsInv, CallsInv, NEW k \in Callers, Step(k)
    PROVE  PinsInv'
<1>0. /\ pin \in [1..MaxPins -> PinRec] /\ ListOK(pinList, pinFree, MaxPins)
      /\ pinList \in Seq(1..MaxPins) /\ pinFree \in Seq(1..MaxPins)
      /\ Listed(pinList) \subseteq 1..MaxPins
      /\ Sorted(NamesOf(pinList, pin))
  BY Bounds, ListedDisjoint DEF PinsInv, PinNames, NamesOf
<1>1. CASE UNCHANGED pins
  BY <1>1 DEF PinsInv, pins, PinNames
<1>2. ASSUME NEW id, NEW name \in Nat, PinNew(id, name) PROVE PinsInv'
  <2>1. CASE ~PinAdded(id, name)
    BY <1>2, <2>1 DEF PinNew, PinsInv, pins, PinNames
  <2>2. CASE PinAdded(id, name)
    <3> DEFINE x == Head(pinFree)
               i == Stop(PinNames, name)
               r == [name |-> name, owner |-> FindComp(id)]
    <3>1. /\ x \in 1..MaxPins /\ x \notin Listed(pinList)
          /\ r \in PinRec /\ r.name = name
          /\ pin' = [pin EXCEPT ![x] = r]
          /\ ListOK(pinList', pinFree', MaxPins) /\ pinList' \in Seq(1..MaxPins)
          /\ Inserted(pinList, i, x, pinList') /\ ~Duplicate(PinNames, name)
      BY <1>2, <2>2, PinLinked
    <3>3. PinNames = NamesOf(pinList, pin)
      BY DEF PinNames, NamesOf
    <3> HIDE DEF x, i, r
    <3>9. pin' \in [1..MaxPins -> PinRec]
      BY <1>0, <3>1
    <3>10. LinkedByName(pinList, i, x, pinList', pin, pin', name)
      <4>1. \A y \in Listed(pinList) : pin[y].name \in Nat /\ pin'[y].name = pin[y].name
        BY <1>0, <3>1 DEF PinRec
      <4>2. pin'[x].name = name
        BY <1>0, <3>1
      <4>3. i = Stop(NamesOf(pinList, pin), name) /\ ~Duplicate(NamesOf(pinList, pin), name)
        BY <3>1, <3>3 DEF i
      <4> QED
        BY <1>0, <1>2, <3>1, <4>1, <4>2, <4>3 DEF LinkedByName
    <3>11. Sorted(NamesOf(pinList', pin'))
      BY <1>0, <3>1, <3>10, NamesLinked
    <3> QED
      BY <3>1, <3>9, <3>11 DEF PinsInv, PinNames, NamesOf
  <2> QED
    BY <2>1, <2>2
<1> QED
  BY <1>1, <1>2, PinsSteps

------------------------------------------------------------------------------
(* Params. *)

\* Only hal_param_new and free_comp_struct change the params.
LEMMA ParamsSteps ==
    ASSUME CallsInv, NEW k \in Callers, Step(k)
    PROVE  \/ UNCHANGED paramList
           \/ \E id, name, data : name \in Nat /\ data \in 0..MaxFuncts /\ ParamNew(id, name, data)
           \/ \E c : paramList' = Without(paramList, {q \in Listed(paramList) : q.owner = c})
<1>0. CallInv(k)
  BY DEF CallsInv
<1>1. CASE Quiet
  BY <1>1 DEF Quiet
<1>2. CASE export_tmax(k) \/ export_inc(k)
  <2>1. call[k].name \in Nat /\ call[k].slot \in 0..MaxFuncts
    <3>1. call[k].pc \in Exporting
      BY <1>2 DEF Exporting, export_tmax, export_inc, Locked
    <3>2. call[k].name \in Names /\ call[k].slot \in 1..MaxFuncts
      BY <1>0, <3>1 DEF CallInv
    <3>3. call[k].name \in Nat
      BY <3>2, NamesNat
    <3>4. call[k].slot \in 0..MaxFuncts
      BY <3>2
    <3> QED
      BY <3>3, <3>4
  <2>2. TmaxName(call[k].name) \in Nat /\ IncreasedName(call[k].name) \in Nat
    BY <2>1 DEF TmaxName, IncreasedName
  <2> QED
    BY <1>2, <2>1, <2>2 DEF export_tmax, export_inc
<1>3. CASE create_tmax(k)
  <2>1. call[k].name \in Nat
    <3>1. call[k].pc \in Creating
      BY <1>3 DEF Creating, create_tmax, Locked
    <3>2. call[k].name \in ThreadNames \cup {0}
      BY <1>0, <3>1 DEF CallInv
    <3> QED
      BY <3>2, ThreadNameNat
  <2>2. TmaxName(call[k].name) \in Nat /\ 0 \in 0..MaxFuncts
    BY <2>1, Bounds DEF TmaxName
  <2> QED
    BY <1>3, <2>2 DEF create_tmax
<1>4. CASE \E id \in 1..uuid : hal_exit(k, id)
  BY <1>4 DEF hal_exit, free_comp_struct
<1>5. CASE \E name \in CompNames : hal_init(k, name)
  BY <1>5 DEF hal_init
<1>6. CASE \E id \in 1..uuid : hal_ready(k, id) \/ hal_unready(k, id)
  BY <1>6 DEF hal_ready, hal_unready
<1>7. CASE \/ export_insert(k) \/ export_pin(k)
           \/ create_rollback(k) \/ create_start_failed(k) \/ create_insert(k)
           \/ create_comp(k) \/ create_pin(k) \/ create_ready(k)
  BY <1>7 DEF export_insert, export_pin, create_rollback, create_start_failed,
              create_insert, create_comp, create_pin, create_ready
<1>8. CASE delete_thread(k) \/ add_entry(k) \/ del_entry(k) \/ app_exit(k)
  BY <1>8 DEF delete_thread, add_entry, del_entry, app_exit
<1> QED
  BY <1>1, <1>2, <1>3, <1>4, <1>5, <1>6, <1>7, <1>8, QuietOrLoud DEF Loud

\* What hal_param_new does when it links a param.
LEMMA ParamLinked ==
    ASSUME CompsInv, ParamsInv, NEW id, NEW name \in Nat, NEW data \in 0..MaxFuncts,
           ParamAdded(id, name), ParamNew(id, name, data)
    PROVE  LET q == [name |-> name, owner |-> FindComp(id), data |-> data]
               i == Stop(ParamNames, name)
           IN  /\ FindComp(id) \in Listed(compList) /\ ~comp[FindComp(id)].ready
               /\ q \in ParamRec /\ paramList' \in Seq(ParamRec)
               /\ Inserted(paramList, i, q, paramList')
               /\ Listed(paramList') = Listed(paramList) \cup {q}
<1> DEFINE q == [name |-> name, owner |-> FindComp(id), data |-> data]
           i == Stop(ParamNames, name)
<1>1. /\ FindComp(id) # 0 /\ ~comp[FindComp(id)].ready
      /\ paramList' = InsertAt(paramList, i, q)
  BY DEF ParamAdded, ParamNew, Accepts
<1>2. FindComp(id) \in Listed(compList) /\ FindComp(id) \in 1..MaxComps
  BY <1>1, FindCompIs DEF CompsInv
<1>3. q \in ParamRec
  BY <1>2, Bounds DEF ParamRec
<1>4. ParamNames \in Seq(Nat) /\ Len(ParamNames) = Len(paramList) /\ paramList \in Seq(ParamRec)
  <2>1. paramList \in Seq(ParamRec) /\ Len(paramList) \in Nat
    BY DEF ParamsInv
  <2>2. \A j \in 1..Len(paramList) : paramList[j].name \in Nat
    <3>1. \A j \in 1..Len(paramList) : paramList[j] \in ParamRec
      BY <2>1
    <3> QED
      BY <3>1 DEF ParamRec
  <2>3. ParamNames = [j \in 1..Len(paramList) |-> paramList[j].name]
    BY <2>1 DEF ParamNames
  <2> QED
    BY <2>1, <2>2, <2>3
<1>5. i \in 1..Len(paramList) + 1
  BY <1>4, StopFacts
<1> HIDE DEF q, i
<1>6. paramList' \in Seq(ParamRec) /\ Inserted(paramList, i, q, paramList')
  BY <1>1, <1>3, <1>4, <1>5, InsertFacts
<1>7. Listed(paramList') = Listed(paramList) \cup {q}
  BY <1>3, <1>4, <1>6, ListedInserted
<1> QED
  BY <1>1, <1>2, <1>3, <1>6, <1>7 DEF q, i

\* Every step keeps the params in order.
LEMMA ParamsStep ==
    ASSUME CompsInv, ParamsInv, CallsInv, NEW k \in Callers, Step(k)
    PROVE  ParamsInv'
<1> DEFINE self == [q \in ParamRec |-> q]
<1>0. /\ paramList \in Seq(ParamRec) /\ Len(paramList) <= MaxParams /\ Sorted(ParamNames)
      /\ Len(paramList) \in Nat
  BY DEF ParamsInv
<1>1. \A l \in Seq(ParamRec) : NamesOf(l, self) = [i \in DOMAIN l |-> l[i].name]
  BY DEF NamesOf
<1>2. ParamNames = NamesOf(paramList, self)
  BY <1>0, <1>1 DEF ParamNames
<1>3. CASE UNCHANGED paramList
  BY <1>3 DEF ParamsInv, ParamNames
<1>4. ASSUME NEW id, NEW name \in Nat, NEW data \in 0..MaxFuncts, ParamNew(id, name, data)
      PROVE  ParamsInv'
  <2>1. CASE ~ParamAdded(id, name)
    BY <1>4, <2>1 DEF ParamNew, ParamsInv, ParamNames
  <2>2. CASE ParamAdded(id, name)
    <3> DEFINE q == [name |-> name, owner |-> FindComp(id), data |-> data]
               i == Stop(ParamNames, name)
    <3>1. /\ q \in ParamRec /\ paramList' \in Seq(ParamRec)
          /\ Inserted(paramList, i, q, paramList')
      BY <1>4, <2>2, ParamLinked
    <3>2. Len(paramList) < MaxParams /\ ~Duplicate(ParamNames, name)
      BY <2>2 DEF ParamAdded
    <3>3. self[q].name = name
      BY <3>1
    <3>4. \A y \in Listed(paramList) : self[y].name \in Nat
      <4>1. \A y \in Listed(paramList) : y \in ParamRec
        BY <1>0, ListedIs
      <4> QED
        BY <4>1 DEF ParamRec
    <3> HIDE DEF q, i, self
    <3>5. LinkedByName(paramList, i, q, paramList', self, self, name)
      BY <1>0, <1>2, <1>4, <3>1, <3>2, <3>3, <3>4 DEF LinkedByName, i
    <3>6. Sorted(NamesOf(paramList', self))
      BY <1>0, <3>1, <3>5, NamesLinked
    <3>7. ParamNames' = NamesOf(paramList', self)
      BY <1>1, <3>1 DEF ParamNames
    <3>8. Len(paramList') <= MaxParams
      BY <1>0, <3>1, <3>2, Bounds DEF Inserted
    <3> QED
      BY <3>1, <3>6, <3>7, <3>8 DEF ParamsInv
  <2> QED
    BY <2>1, <2>2
<1>5. ASSUME NEW c, paramList' = Without(paramList, {q \in Listed(paramList) : q.owner = c})
      PROVE  ParamsInv'
  <2> DEFINE g == {q \in Listed(paramList) : q.owner = c}
  <2> HIDE DEF g, self
  <2>1. paramList' = Without(paramList, g)
    BY <1>5 DEF g
  <2>2. paramList' \in Seq(ParamRec) /\ Len(paramList') <= Len(paramList)
    BY <1>0, <2>1, WithoutFacts
  <2>3. Sorted(NamesOf(paramList, self))
    BY <1>0, <1>2
  <2>4. Sorted(NamesOf(Without(paramList, g), self))
    BY <1>0, <2>3, NamesUnlinked
  <2>5. ParamNames' = NamesOf(paramList', self)
    BY <1>1, <2>2 DEF ParamNames
  <2>6. Len(paramList') \in Nat
    BY <2>2
  <2> QED
    BY <1>0, <2>1, <2>2, <2>4, <2>5, <2>6, Bounds DEF ParamsInv
<1> QED
  BY <1>3, <1>4, <1>5, ParamsSteps

------------------------------------------------------------------------------
(* Functions and entries: what is freed was counted. *)

\* free_thread_struct subtracts no more from users than was counted.
LEMMA ReleasedCount ==
    ASSUME EntriesInv, FunctsInv, NEW T, NEW t \in Listed(threadList),
           T = {t} \/ T = Listed(threadList), NEW f \in 1..MaxFuncts
    PROVE  funct[f].users - Cardinality(CallsOf(f, T)) \in Nat
<1> DEFINE L == Listed(threadList)
<1>1. /\ IsFiniteSet(Ent(thread, L)) /\ funct[f].users = Cardinality(Cal(thread, f, L))
      /\ CallsOf(f, T) = Cal(thread, f, T)
  BY DEF EntriesInv, EntriesOf, CallsOf, Ent, Cal
<1> HIDE DEF L
<1>2. Cardinality(Cal(thread, f, L)) \in Nat
  BY <1>1, CalFinite
<1>3. CASE T = L
  BY <1>1, <1>2, <1>3
<1>4. CASE T = {t}
  <2>1. t \in L
    BY DEF L
  <2>2. Splits(thread, f, L, t)
    BY <1>1, <2>1, EntLeft
  <2> QED
    BY <1>1, <1>4, <2>2 DEF Splits
<1> QED
  BY <1>3, <1>4 DEF L

\* free_thread_struct leaves the functions well formed.
LEMMA ReleasedType ==
    ASSUME FunctsInv, NEW T,
           \A f \in 1..MaxFuncts : funct[f].users - Cardinality(CallsOf(f, T)) \in Nat,
           funct' = FunctsReleased(T), UNCHANGED <<functList, functFree>>
    PROVE  FunctsInv'
<1>0. /\ funct \in [1..MaxFuncts -> FunctRec] /\ ListOK(functList, functFree, MaxFuncts)
      /\ functList \in Seq(1..MaxFuncts)
      /\ Sorted(NamesOf(functList, funct))
  BY Bounds, ListedDisjoint DEF FunctsInv, FunctNames, NamesOf
<1>1. DOMAIN funct = 1..MaxFuncts
  BY <1>0
<1>2. \A f \in 1..MaxFuncts :
         /\ funct'[f] = [funct[f] EXCEPT !.users = funct[f].users - Cardinality(CallsOf(f, T))]
  BY <1>1 DEF FunctsReleased
<1>3. \A f \in 1..MaxFuncts : funct'[f] \in FunctRec /\ funct'[f].name = funct[f].name
  <2> TAKE f \in 1..MaxFuncts
  <2>1. \A n \in Nat : /\ [funct[f] EXCEPT !.users = n] \in FunctRec
                       /\ [funct[f] EXCEPT !.users = n].name = funct[f].name
    BY <1>0 DEF FunctRec
  <2> QED
    BY <1>2, <2>1
<1>4. funct' \in [1..MaxFuncts -> FunctRec]
  BY <1>1, <1>3 DEF FunctsReleased
<1>5. NamesOf(functList, funct') = NamesOf(functList, funct)
  <2>1. \A y \in Listed(functList) : funct'[y].name = funct[y].name
    BY <1>0, <1>3, ListedIs
  <2> QED
    BY <1>0, <2>1, NamesSame
<1> QED
  BY <1>0, <1>4, <1>5 DEF FunctsInv, FunctNames, NamesOf

\* One function's record changes, its name does not.
LEMMA FunctChanged ==
    ASSUME FunctsInv, NEW f, NEW rec \in FunctRec, rec.name = funct[f].name,
           funct' = [funct EXCEPT ![f] = rec], UNCHANGED <<functList, functFree>>
    PROVE  FunctsInv'
<1>0. /\ funct \in [1..MaxFuncts -> FunctRec] /\ ListOK(functList, functFree, MaxFuncts)
      /\ functList \in Seq(1..MaxFuncts)
      /\ Sorted(NamesOf(functList, funct))
  BY Bounds, ListedDisjoint DEF FunctsInv, FunctNames, NamesOf
<1>1. funct' \in [1..MaxFuncts -> FunctRec] /\ \A y \in 1..MaxFuncts : funct'[y].name = funct[y].name
  BY <1>0
<1>2. NamesOf(functList, funct') = NamesOf(functList, funct)
  <2>1. \A y \in Listed(functList) : funct'[y].name = funct[y].name
    BY <1>0, <1>1, ListedIs
  <2> QED
    BY <1>0, <2>1, NamesSame
<1> QED
  BY <1>0, <1>1, <1>2 DEF FunctsInv, FunctNames, NamesOf

\* The names of the listed functions are a sequence of naturals.
LEMMA FunctNamesAre ==
    ASSUME FunctsInv
    PROVE  /\ FunctNames = NamesOf(functList, funct) /\ FunctNames \in Seq(Nat)
           /\ Len(FunctNames) = Len(functList)
           /\ \A f \in 1..MaxFuncts : funct[f].name \in Nat
<1>0. funct \in [1..MaxFuncts -> FunctRec] /\ functList \in Seq(1..MaxFuncts)
  BY Bounds, ListedDisjoint DEF FunctsInv
<1>1. \A f \in 1..MaxFuncts : funct[f].name \in Nat
  <2>1. \A f \in 1..MaxFuncts : funct[f].name \in Names \cup {0}
    BY <1>0 DEF FunctRec, NoName
  <2>2. \A n \in Names \cup {0} : n \in Nat
    BY NamesNat
  <2> QED
    BY <2>1, <2>2
<1>2. \A j \in 1..Len(functList) : functList[j] \in 1..MaxFuncts
  BY <1>0, ListedIs
<1>3. FunctNames = [j \in 1..Len(functList) |-> funct[functList[j]].name] /\ Len(functList) \in Nat
  BY <1>0 DEF FunctNames
<1>4. FunctNames \in Seq(Nat) /\ Len(FunctNames) = Len(functList)
  BY <1>1, <1>2, <1>3
<1> QED
  BY <1>1, <1>4 DEF FunctNames, NamesOf

\* The structure alloc_funct_struct returns, filled in.
NewFunct(a, b, c) == [FreeFunct EXCEPT !.name = a, !.owner = b, !.runtime = c]

\* It is well formed and has no users.
LEMMA NewFunctIs ==
    ASSUME NEW a \in Names, NEW b \in 0..MaxComps, NEW c \in 0..MaxPins
    PROVE  /\ NewFunct(a, b, c) \in FunctRec
           /\ NewFunct(a, b, c).name = a /\ NewFunct(a, b, c).owner = b /\ NewFunct(a, b, c).users = 0
BY Bounds DEF FreeFunct, FunctRec, NewFunct

\* What hal_export_funct does when it links a function.
Exported(k) == Accepts(call[k].id) /\ functFree # <<>> /\ ~Duplicate(FunctNames, call[k].name)

\* What the mutex section of hal_export_funct does when it links a function.
LEMMA FunctLinked ==
    ASSUME CompsInv, FunctsInv, CallsInv, NEW k \in Callers, export_insert(k), Exported(k)
    PROVE  LET f == Head(functFree)
               rec == NewFunct(call[k].name, FindComp(call[k].id), funct[f].runtime)
           IN  /\ FindComp(call[k].id) \in Listed(compList) /\ ~comp[FindComp(call[k].id)].ready
               /\ comp[FindComp(call[k].id)].id = call[k].id
               /\ f \in 1..MaxFuncts /\ f \notin Listed(functList)
               /\ Listed(functList') = Listed(functList) \cup {f}
               /\ rec \in FunctRec /\ rec.owner = FindComp(call[k].id) /\ rec.users = 0
               /\ funct' = [funct EXCEPT ![f] = rec]
               /\ FunctsInv'
               /\ call' = [call EXCEPT ![k].pc = "export_pin", ![k].slot = f]
<1> DEFINE f == Head(functFree)
           rec == NewFunct(call[k].name, FindComp(call[k].id), funct[f].runtime)
           i == Stop(FunctNames, call[k].name)
<1>0. /\ funct \in [1..MaxFuncts -> FunctRec] /\ ListOK(functList, functFree, MaxFuncts)
      /\ functList \in Seq(1..MaxFuncts) /\ functFree \in Seq(1..MaxFuncts)
      /\ Listed(functList) \subseteq 1..MaxFuncts
      /\ Sorted(NamesOf(functList, funct))
  BY Bounds, ListedDisjoint DEF FunctsInv, FunctNames, NamesOf
<1>1. /\ funct' = [funct EXCEPT ![f] = rec]
      /\ functList' = InsertAt(functList, i, f)
      /\ functFree' = Tail(functFree) /\ functFree # <<>>
      /\ call' = [call EXCEPT ![k].pc = "export_pin", ![k].slot = f]
      /\ call[k].pc = "export_insert"
      /\ FindComp(call[k].id) # 0 /\ ~comp[FindComp(call[k].id)].ready
      /\ ~Duplicate(FunctNames, call[k].name)
  BY DEF export_insert, Exported, Accepts, alloc_funct_struct, Locked, NewFunct
<1>2. f \in 1..MaxFuncts
  BY <1>0, <1>1, TailFacts
<1>3. call[k].name \in Names /\ call[k].name \in Nat
  <2>1. call[k].name \in Names
    BY <1>1 DEF CallsInv, CallInv
  <2> QED
    BY <2>1, NamesNat
<1>4. /\ FindComp(call[k].id) \in Listed(compList) /\ FindComp(call[k].id) \in 1..MaxComps
      /\ comp[FindComp(call[k].id)].id = call[k].id
  BY <1>1, FindCompIs DEF CompsInv
<1>5. /\ rec \in FunctRec /\ rec.name = call[k].name /\ rec.owner = FindComp(call[k].id)
      /\ rec.users = 0
  <2>1. funct[f].runtime \in 0..MaxPins
    BY <1>0, <1>2 DEF FunctRec
  <2>3. FindComp(call[k].id) \in 0..MaxComps
    BY <1>4, Bounds
  <2> QED
    BY <1>3, <2>1, <2>3, NewFunctIs
<1>6. i \in 1..Len(functList) + 1
  BY <1>3, FunctNamesAre, StopFacts
<1> HIDE DEF f, i, rec
<1>7. functList' \in Seq(1..MaxFuncts) /\ Inserted(functList, i, f, functList')
  BY <1>0, <1>1, <1>2, <1>6, InsertFacts
<1>8. Linked(functList, functFree, i, f, functList', MaxFuncts)
  BY <1>0, <1>1, <1>7 DEF Linked, f
<1>9. /\ ListOK(functList', functFree', MaxFuncts) /\ f \notin Listed(functList)
      /\ Listed(functList') = Listed(functList) \cup {f}
  BY <1>1, <1>8, Bounds, Take
<1>10. funct' \in [1..MaxFuncts -> FunctRec]
  BY <1>0, <1>1, <1>2, <1>5
<1>11. LinkedByName(functList, i, f, functList', funct, funct', call[k].name)
  <2>1. \A y \in Listed(functList) : funct[y].name \in Nat /\ funct'[y].name = funct[y].name
    BY <1>0, <1>1, <1>9, FunctNamesAre
  <2>2. funct'[f].name = call[k].name
    BY <1>0, <1>1, <1>2, <1>5
  <2>3. /\ i = Stop(NamesOf(functList, funct), call[k].name)
        /\ ~Duplicate(NamesOf(functList, funct), call[k].name)
    BY <1>1, FunctNamesAre DEF i
  <2> QED
    BY <1>0, <1>3, <1>7, <2>1, <2>2, <2>3 DEF LinkedByName
<1>12. Sorted(NamesOf(functList', funct'))
  BY <1>0, <1>7, <1>11, NamesLinked
<1>13. FunctsInv'
  BY <1>9, <1>10, <1>12 DEF FunctsInv, FunctNames, NamesOf
<1> QED
  BY <1>1, <1>2, <1>4, <1>5, <1>9, <1>13 DEF f, rec

\* What free_comp_struct does to the component's functions.
LEMMA FunctsFreed ==
    ASSUME FunctsInv, NEW gone, gone \subseteq Listed(functList), FreeFuncts(gone)
    PROVE  /\ FunctsInv'
           /\ Listed(functList') = Listed(functList) \ gone
           /\ \A f \in 1..MaxFuncts : funct'[f] = IF f \in gone THEN FreeFunct ELSE funct[f]
<1>0. /\ funct \in [1..MaxFuncts -> FunctRec] /\ ListOK(functList, functFree, MaxFuncts)
      /\ functList \in Seq(1..MaxFuncts) /\ Sorted(NamesOf(functList, funct))
  BY Bounds, ListedDisjoint DEF FunctsInv, FunctNames, NamesOf
<1>1. /\ funct' = [f \in DOMAIN funct |-> IF f \in gone THEN FreeFunct ELSE funct[f]]
      /\ functList' = Without(functList, gone)
      /\ functFree' = Reverse(Without(functList, Listed(functList) \ gone)) \o functFree
  BY DEF FreeFuncts
<1>2. FreeFunct \in FunctRec
  BY Bounds DEF FunctRec, FreeFunct
<1>3. /\ \A f \in 1..MaxFuncts : funct'[f] = IF f \in gone THEN FreeFunct ELSE funct[f]
      /\ funct' \in [1..MaxFuncts -> FunctRec]
  BY <1>0, <1>1, <1>2
<1>4. ListOK(functList', functFree', MaxFuncts)
  BY <1>0, <1>1, Bounds, Give
<1>5. Listed(functList') = Listed(functList) \ gone
  BY <1>0, <1>1, ListedWithout
<1>6. \A y \in Listed(functList) : y \notin gone => funct'[y].name = funct[y].name
  BY <1>0, <1>3, ListedIs
<1>7. Sorted(NamesOf(functList', funct'))
  BY <1>0, <1>1, <1>6, NamesUnlinked
<1> QED
  BY <1>3, <1>4, <1>5, <1>7 DEF FunctsInv, FunctNames, NamesOf

\* Every step keeps the functions in order.
LEMMA FunctsStep ==
    ASSUME CompsInv, FunctsInv, PinsInv, ThreadsInv, CallsInv, EntriesInv, NEW k \in Callers, Step(k)
    PROVE  FunctsInv'
<1>0. funct \in [1..MaxFuncts -> FunctRec]
  BY DEF FunctsInv
<1>1. CASE UNCHANGED functs
  BY <1>1 DEF FunctsInv, functs, FunctNames
<1>2. CASE export_insert(k)
  <2>1. CASE Exported(k)
    BY <1>2, <2>1, FunctLinked
  <2>2. CASE ~Exported(k)
    BY <1>1, <1>2, <2>2 DEF export_insert, Exported
  <2> QED
    BY <2>1, <2>2
<1>3. CASE \E id \in 1..uuid : hal_exit(k, id)
  BY <1>3, FunctsFreed DEF hal_exit, free_comp_struct
<1>4. CASE export_pin(k)
  <2> DEFINE f == call[k].slot
             rec == [funct[f] EXCEPT !.runtime = PinAddress(call[k].id, funct[f].runtime)]
  <2>1. f \in 1..MaxFuncts
    BY <1>4 DEF export_pin, Locked, CallsInv, CallInv, Exporting
  <2>2. funct' = [funct EXCEPT ![f] = rec] /\ UNCHANGED <<functList, functFree>>
    BY <1>0, <1>4, <2>1 DEF export_pin, FunctRec
  <2>3. PinAddress(call[k].id, funct[f].runtime) \in 0..MaxPins
    <3>1. funct[f].runtime \in 0..MaxPins
      BY <1>0, <2>1 DEF FunctRec
    <3>2. pinFree # <<>> => Head(pinFree) \in 1..MaxPins
      <4>1. pinFree \in Seq(1..MaxPins)
        BY Bounds, ListedDisjoint DEF PinsInv
      <4> QED
        BY <4>1, TailFacts
    <3> QED
      BY <3>1, <3>2, Bounds DEF PinAddress, PinStored, alloc_pin_struct
  <2>4. rec \in FunctRec /\ rec.name = funct[f].name
    BY <1>0, <2>1, <2>3 DEF FunctRec
  <2> HIDE DEF rec, f
  <2> QED
    BY <2>2, <2>4, FunctChanged
<1>5. CASE delete_thread(k)
  <2> DEFINE t == FindThread(call[k].thr)
  <2>1. t # 0 /\ funct' = FunctsReleased({t}) /\ UNCHANGED <<functList, functFree>>
    BY <1>5 DEF delete_thread
  <2>2. t \in Listed(threadList)
    BY <2>1, FindThreadIs DEF ThreadsInv
  <2> HIDE DEF t
  <2>3. \A f \in 1..MaxFuncts : funct[f].users - Cardinality(CallsOf(f, {t})) \in Nat
    BY <2>2, ReleasedCount
  <2> QED
    BY <2>1, <2>3, ReleasedType
<1>6. CASE app_exit(k)
  <2> DEFINE L == Listed(threadList)
  <2>1. funct' = FunctsReleased(L) /\ UNCHANGED <<functList, functFree>>
    BY <1>6 DEF app_exit
  <2>2. \A f \in 1..MaxFuncts : funct[f].users - Cardinality(CallsOf(f, L)) \in Nat
    <3> TAKE f \in 1..MaxFuncts
    <3>1. IsFiniteSet(Ent(thread, L)) /\ CallsOf(f, L) = Cal(thread, f, L)
      BY DEF EntriesInv, EntriesOf, CallsOf, Ent, Cal
    <3>2. funct[f].users = Cardinality(CallsOf(f, L))
      BY DEF EntriesInv
    <3>3. Cardinality(Cal(thread, f, L)) \in Nat
      BY <3>1, CalFinite
    <3> QED
      BY <3>1, <3>2, <3>3
  <2> HIDE DEF L
  <2> QED
    BY <2>1, <2>2, ReleasedType
<1>7. CASE add_entry(k)
  <2>1. CASE UNCHANGED funct
    BY <1>1, <1>7, <2>1 DEF add_entry, functs
  <2>2. CASE ~UNCHANGED funct
    <3> DEFINE f == FindFunct(call[k].name)
               rec == [funct[f] EXCEPT !.users = funct[f].users + 1]
    <3>1. f # 0 /\ funct' = [funct EXCEPT ![f].users = funct[f].users + 1] /\ UNCHANGED <<functList, functFree>>
      BY <1>7, <2>2 DEF add_entry
    <3>2. f \in 1..MaxFuncts
      BY <3>1, FindFunctIs DEF FunctsInv
    <3>3. rec \in FunctRec /\ rec.name = funct[f].name /\ funct' = [funct EXCEPT ![f] = rec]
      BY <1>0, <3>1, <3>2 DEF FunctRec
    <3> HIDE DEF rec, f
    <3> QED
      BY <3>1, <3>3, FunctChanged
  <2> QED
    BY <2>1, <2>2
<1>8. CASE del_entry(k)
  <2>1. CASE UNCHANGED funct
    BY <1>1, <1>8, <2>1 DEF del_entry, functs
  <2>2. CASE ~UNCHANGED funct
    <3> DEFINE f == FindFunct(call[k].name)
               rec == [funct[f] EXCEPT !.users = funct[f].users - 1]
    <3>1. /\ f # 0 /\ funct[f].users # 0 /\ funct' = [funct EXCEPT ![f].users = funct[f].users - 1]
          /\ UNCHANGED <<functList, functFree>>
      BY <1>8, <2>2 DEF del_entry
    <3>2. f \in 1..MaxFuncts
      BY <3>1, FindFunctIs DEF FunctsInv
    <3>3. rec \in FunctRec /\ rec.name = funct[f].name /\ funct' = [funct EXCEPT ![f] = rec]
      BY <1>0, <3>1, <3>2 DEF FunctRec
    <3> HIDE DEF rec, f
    <3> QED
      BY <3>1, <3>3, FunctChanged
  <2> QED
    BY <2>1, <2>2
<1>9. CASE Quiet
  BY <1>1, <1>9 DEF Quiet
<1>10. CASE \E name \in CompNames : hal_init(k, name)
  BY <1>1, <1>10 DEF hal_init
<1>11. CASE \E id \in 1..uuid : hal_ready(k, id) \/ hal_unready(k, id)
  BY <1>1, <1>11 DEF hal_ready, hal_unready
<1>12. CASE \/ export_tmax(k) \/ export_inc(k) \/ create_rollback(k) \/ create_start_failed(k)
            \/ create_insert(k) \/ create_comp(k) \/ create_tmax(k) \/ create_pin(k) \/ create_ready(k)
  BY <1>1, <1>12 DEF export_tmax, export_inc, create_rollback, create_start_failed, create_insert,
                     create_comp, create_tmax, create_pin, create_ready
<1> QED
  BY <1>2, <1>3, <1>4, <1>5, <1>6, <1>7, <1>8, <1>9, <1>10, <1>11, <1>12, QuietOrLoud DEF Loud

------------------------------------------------------------------------------
(* Threads. *)

\* The fields of a thread structure.
LEMMA ThreadRecIs ==
    ASSUME NEW r \in ThreadRec
    PROVE  /\ r.name \in ThreadNames \cup {NoName} /\ r.comp_id \in CompIds /\ r.task_id \in Nat
           /\ r.runtime \in 0..MaxPins /\ r.functs \in Seq(1..MaxFuncts)
BY DEF ThreadRec

\* One field of a thread structure is written.
LEMMA ThreadField ==
    ASSUME NEW r \in ThreadRec
    PROVE  /\ \A x \in ThreadNames \cup {NoName} : [r EXCEPT !.name = x] \in ThreadRec
           /\ \A x \in CompIds : [r EXCEPT !.comp_id = x] \in ThreadRec
           /\ \A x \in Nat : [r EXCEPT !.task_id = x] \in ThreadRec
           /\ \A x \in 0..MaxPins : [r EXCEPT !.runtime = x] \in ThreadRec
           /\ \A x \in Seq(1..MaxFuncts) : /\ [r EXCEPT !.functs = x] \in ThreadRec
                                           /\ [r EXCEPT !.functs = x].functs = x
           /\ \A x : /\ [r EXCEPT !.comp_id = x].functs = r.functs
                     /\ [r EXCEPT !.runtime = x].functs = r.functs
<1>1. \A x \in ThreadNames \cup {NoName} : [r EXCEPT !.name = x] \in ThreadRec
  BY DEF ThreadRec
<1>2. \A x \in CompIds : [r EXCEPT !.comp_id = x] \in ThreadRec
  BY DEF ThreadRec
<1>3. \A x \in Nat : [r EXCEPT !.task_id = x] \in ThreadRec
  BY DEF ThreadRec
<1>4. \A x \in 0..MaxPins : [r EXCEPT !.runtime = x] \in ThreadRec
  BY DEF ThreadRec
<1>5. \A x \in Seq(1..MaxFuncts) : /\ [r EXCEPT !.functs = x] \in ThreadRec
                                   /\ [r EXCEPT !.functs = x].functs = x
  BY DEF ThreadRec
<1>6. \A x : /\ [r EXCEPT !.comp_id = x].functs = r.functs
             /\ [r EXCEPT !.runtime = x].functs = r.functs
  BY DEF ThreadRec
<1> QED
  BY <1>1, <1>2, <1>3, <1>4, <1>5, <1>6

\* A structure without entries, under a name and a task number.
Emptied(r, name, id) == [r EXCEPT !.name = name, !.task_id = id, !.functs = <<>>]

\* It is well formed and has no entries.
LEMMA EmptiedIs ==
    ASSUME NEW r \in ThreadRec, NEW name \in ThreadNames \cup {NoName}, NEW id \in Nat
    PROVE  Emptied(r, name, id) \in ThreadRec /\ Emptied(r, name, id).functs = <<>>
<1>1. <<>> \in Seq(1..MaxFuncts)
  OBVIOUS
<1> QED
  BY <1>1 DEF Emptied, ThreadRec

\* free_thread_struct leaves a well formed structure without entries.
LEMMA Freed ==
    ASSUME NEW t, thread[t] \in ThreadRec
    PROVE  FreedThread(t) \in ThreadRec /\ FreedThread(t).functs = <<>>
<1>1. FreedThread(t) = Emptied(thread[t], NoName, 0)
  BY DEF FreedThread, Emptied
<1> QED
  BY <1>1, EmptiedIs

\* The list stays and every listed thread keeps its entries.
EntriesKept ==
    /\ UNCHANGED <<threadList, threadFree>>
    /\ \A t \in Listed(threadList) : thread'[t].functs = thread[t].functs

\* One thread's structure changes.
LEMMA ThreadChanged ==
    ASSUME ThreadsInv, NEW t \in 1..MaxThreads, NEW rec \in ThreadRec,
           thread' = [thread EXCEPT ![t] = rec], UNCHANGED <<threadList, threadFree>>
    PROVE  /\ ThreadsInv'
           /\ t \notin Listed(threadList) \/ rec.functs = thread[t].functs => EntriesKept
           /\ thread'[t] = rec /\ \A u \in Listed(threadList) : u # t => thread'[u] = thread[u]
<1>0. /\ thread \in [1..MaxThreads -> ThreadRec] /\ ListOK(threadList, threadFree, MaxThreads)
      /\ Listed(threadList) \subseteq 1..MaxThreads
  BY Bounds, ListedDisjoint DEF ThreadsInv
<1>1. thread' \in [1..MaxThreads -> ThreadRec] /\ thread'[t] = rec
  BY <1>0
<1>2. \A u \in Listed(threadList) : u # t => thread'[u] = thread[u]
  BY <1>0
<1>3. t \notin Listed(threadList) \/ rec.functs = thread[t].functs => EntriesKept
  BY <1>1, <1>2 DEF EntriesKept
<1>4. ThreadsInv'
  BY <1>0, <1>1 DEF ThreadsInv
<1> QED
  BY <1>1, <1>2, <1>3, <1>4

\* The structure of a thread that hal_create_thread gives up is not listed.
LEMMA ThreadRolledBack ==
    ASSUME ThreadsInv, NEW k \in Callers, create_rollback(k) \/ create_start_failed(k)
    PROVE  ThreadsInv' /\ EntriesKept
<1> DEFINE t == Head(threadFree)
<1>0. /\ threadFree # <<>> /\ thread' = [thread EXCEPT ![t] = FreedThread(t)]
      /\ UNCHANGED <<threadList, threadFree>>
  BY DEF create_rollback, create_start_failed, alloc_thread_struct
<1>1. /\ thread \in [1..MaxThreads -> ThreadRec]
      /\ threadFree \in Seq(1..MaxThreads) /\ Listed(threadList) \cap Listed(threadFree) = {}
  BY Bounds, ListedDisjoint DEF ThreadsInv
<1>2. t \in 1..MaxThreads /\ t \in Listed(threadFree)
  <2>1. t \in 1..MaxThreads /\ Listed(threadFree) = Listed(Tail(threadFree)) \cup {t}
    BY <1>0, <1>1, TailFacts
  <2> QED
    BY <2>1
<1> HIDE DEF t
<1>3. t \notin Listed(threadList)
  BY <1>1, <1>2
<1>4. FreedThread(t) \in ThreadRec
  BY <1>1, <1>2, Freed
<1> QED
  BY <1>0, <1>2, <1>3, <1>4, ThreadChanged

\* allocate_task_id returns a slot of the task table.
LEMMA NewTaskIs ==
    ASSUME RestInv, TaskSlots # {}
    PROVE  NewTask \in Nat /\ NewTask \in DOMAIN task
<1>1. DOMAIN task = 0..MaxTasks - 1
  BY DEF RestInv
<1>2. TaskSlots \subseteq Nat /\ TaskSlots \subseteq DOMAIN task
  BY <1>1, Bounds DEF TaskSlots
<1>3. \E x \in TaskSlots : \A y \in TaskSlots : x <= y
  BY <1>2, LeastOf
<1>4. NewTask \in TaskSlots
  BY <1>3 DEF NewTask
<1> QED
  BY <1>2, <1>4

\* A thread joins the list without entries.
LEMMA ThreadJoins ==
    ASSUME ThreadsInv, RestInv, CallsInv, NEW k \in Callers, create_insert(k)
    PROVE  LET t == Head(threadFree)
           IN  /\ ThreadsInv'
               /\ t \in 1..MaxThreads /\ t \notin Listed(threadList)
               /\ Listed(threadList') = Listed(threadList) \cup {t}
               /\ thread'[t].functs = <<>>
               /\ \A u \in Listed(threadList) : thread'[u] = thread[u]
<1> DEFINE t == Head(threadFree)
           rec == Emptied(thread[t], call[k].name, NewTask)
<1>0. /\ thread \in [1..MaxThreads -> ThreadRec] /\ ListOK(threadList, threadFree, MaxThreads)
      /\ threadFree \in Seq(1..MaxThreads) /\ threadList \in Seq(1..MaxThreads)
      /\ Listed(threadList) \subseteq 1..MaxThreads
  BY Bounds, ListedDisjoint DEF ThreadsInv
<1>1. /\ threadFree # <<>> /\ threadList' = <<t>> \o threadList /\ threadFree' = Tail(threadFree)
      /\ call[k].pc = "create_insert" /\ TaskSlots # {}
  BY DEF create_insert, alloc_thread_struct, Locked, NoTaskFor
<1>2. t \in 1..MaxThreads
  BY <1>0, <1>1, TailFacts
<1>3. thread' = [thread EXCEPT ![t] = rec]
  BY <1>0, <1>2 DEF create_insert, alloc_thread_struct, Emptied
<1>4. rec \in ThreadRec /\ rec.functs = <<>>
  <2>1. call[k].name \in ThreadNames
    BY <1>1 DEF CallsInv, CallInv
  <2>2. NewTask \in Nat
    BY <1>1, NewTaskIs
  <2>3. thread[t] \in ThreadRec
    BY <1>0, <1>2
  <2> QED
    BY <2>1, <2>2, <2>3, EmptiedIs
<1>5. <<t>> \o threadList \in Seq(1..MaxThreads) /\ Inserted(threadList, 1, t, <<t>> \o threadList)
  BY <1>0, <1>2, ConsFacts
<1>6. threadList' \in Seq(1..MaxThreads) /\ Inserted(threadList, 1, t, threadList') /\ t = Head(threadFree)
  BY <1>1, <1>5
<1> HIDE DEF t, rec
<1>7. /\ ListOK(threadList', Tail(threadFree), MaxThreads)
      /\ t \notin Listed(threadList)
      /\ Listed(threadList') = Listed(threadList) \cup {t}
  <2>1. Linked(threadList, threadFree, 1, t, threadList', MaxThreads)
    BY <1>0, <1>1, <1>6 DEF Linked
  <2> QED
    BY <2>1, Bounds, Take
<1>8. thread' \in [1..MaxThreads -> ThreadRec] /\ thread'[t].functs = <<>>
  BY <1>0, <1>2, <1>3, <1>4
<1>9. \A u \in Listed(threadList) : thread'[u] = thread[u]
  BY <1>0, <1>3, <1>7
<1>10. ThreadsInv'
  BY <1>1, <1>7, <1>8 DEF ThreadsInv
<1> QED
  BY <1>2, <1>7, <1>8, <1>9, <1>10 DEF t

\* hal_del_funct_from_thread takes one entry out: putting it back gives the old list.
LEMMA RemoveFacts ==
    ASSUME NEW S, NEW l \in Seq(S), NEW x \in Listed(l)
    PROVE  \E i : RemoveFirst(l, x) \in Seq(S) /\ Inserted(RemoveFirst(l, x), i, x, l)
<1> DEFINE I == {n \in 1..Len(l) : l[n] = x}
<1>0. Len(l) \in Nat /\ DOMAIN l = 1..Len(l)
  OBVIOUS
<1>1. I # {} /\ I \subseteq Nat /\ \E n \in 1..Len(l) : l[n] = x
  BY ListedIs
<1>2. SelectInSeq(l, LAMBDA v : v = x) = Min(I)
  BY <1>1 DEF SelectInSeq
<1>3. RemoveFirst(l, x) = RemoveAt(l, Min(I))
  BY <1>1, <1>2 DEF RemoveFirst
<1>4. Min(I) \in I
  <2> HIDE DEF I
  <2>1. \E n \in I : \A m \in I : n <= m
    BY <1>1, LeastOf
  <2> QED
    BY <2>1 DEF Min
<1> DEFINE i == Min(I)
           a == SubSeq(l, 1, i - 1)
           b == SubSeq(l, i + 1, Len(l))
<1>5. i \in 1..Len(l) /\ l[i] = x
  BY <1>4
<1> HIDE DEF I, i
<1>6. a \in Seq(S) /\ Len(a) = i - 1 /\ \A j \in 1..i - 1 : a[j] = l[j]
  BY <1>5
<1>7. b \in Seq(S) /\ Len(b) = Len(l) - i /\ \A j \in 1..Len(l) - i : b[j] = l[i + j]
  BY <1>5
<1> HIDE DEF a, b
<1> DEFINE m == a \o b
<1>8. m \in Seq(S) /\ Len(m) = Len(l) - 1
  <2>1. m \in Seq(S) /\ Len(m) = Len(a) + Len(b)
    BY <1>6, <1>7
  <2> QED
    BY <1>0, <1>5, <1>6, <1>7, <2>1
<1>9. ASSUME NEW j \in 1..Len(m) PROVE l[IF j < i THEN j ELSE j + 1] = m[j]
  <2>1. CASE j < i
    BY <1>5, <1>6, <1>7, <1>8, <2>1
  <2>2. CASE ~(j < i)
    <3>1. m[j] = b[j - (i - 1)]
      BY <1>5, <1>6, <1>7, <1>8, <2>2
    <3>2. j - (i - 1) \in 1..Len(l) - i /\ i + (j - (i - 1)) = j + 1
      BY <1>0, <1>5, <1>8, <2>2
    <3> QED
      BY <2>2, <3>1, <3>2, <1>7
  <2> QED
    BY <2>1, <2>2
<1>10. Inserted(m, i, x, l)
  <2> HIDE DEF m
  <2>1. Len(l) = Len(m) + 1
    BY <1>0, <1>8
  <2> QED
    BY <1>5, <1>9, <2>1 DEF Inserted
<1>11. RemoveFirst(l, x) = m
  BY <1>3 DEF RemoveAt, a, b, i
<1> QED
  BY <1>8, <1>10, <1>11

\* The walk of hal_add_funct_to_thread ends at a place of the list.
LEMMA InsertIndexIs ==
    ASSUME NEW len \in Nat, NEW pos \in Int \ {0}, InsertIndex(len, pos) # 0
    PROVE  InsertIndex(len, pos) \in 1..len + 1
<1>1. CASE pos > 0
  BY <1>1 DEF InsertIndex
<1>2. CASE pos < 0
  BY <1>2 DEF InsertIndex
<1> QED
  BY <1>1, <1>2

\* hal_exit: the entries of the component's functions leave the listed threads.
LEMMA ThreadsSwept ==
    ASSUME ThreadsInv, NEW gone, FreeFuncts(gone), UNCHANGED <<threadList, threadFree>>
    PROVE  LET used == {f \in gone : funct[f].users > 0}
           IN  /\ ThreadsInv'
               /\ \A u \in Listed(threadList) : thread'[u].functs = Without(thread[u].functs, used)
<1> DEFINE used == {f \in gone : funct[f].users > 0}
           L == Listed(threadList)
<1>0. /\ thread \in [1..MaxThreads -> ThreadRec] /\ ListOK(threadList, threadFree, MaxThreads)
      /\ L \subseteq 1..MaxThreads
  BY Bounds, ListedDisjoint DEF ThreadsInv
<1>1. thread' = [t \in DOMAIN thread |->
                    IF t \in L THEN [thread[t] EXCEPT !.functs = Without(thread[t].functs, used)]
                    ELSE thread[t]]
  BY DEF FreeFuncts
<1> HIDE DEF used, L
<1>2. \A u \in 1..MaxThreads : /\ thread[u] \in ThreadRec
                               /\ Without(thread[u].functs, used) \in Seq(1..MaxFuncts)
  <2> TAKE u \in 1..MaxThreads
  <2>1. thread[u] \in ThreadRec
    BY <1>0
  <2>2. thread[u].functs \in Seq(1..MaxFuncts)
    BY <2>1, ThreadRecIs
  <2> QED
    BY <2>1, <2>2, WithoutFacts
<1>3. \A u \in 1..MaxThreads :
         /\ [thread[u] EXCEPT !.functs = Without(thread[u].functs, used)] \in ThreadRec
         /\ [thread[u] EXCEPT !.functs = Without(thread[u].functs, used)].functs =
            Without(thread[u].functs, used)
  BY <1>2, ThreadField
<1>4. \A u \in 1..MaxThreads : /\ thread'[u] \in ThreadRec
                               /\ u \in L => thread'[u].functs = Without(thread[u].functs, used)
  BY <1>0, <1>1, <1>3
<1>5. thread' \in [1..MaxThreads -> ThreadRec]
  BY <1>0, <1>1, <1>4
<1>6. ThreadsInv'
  BY <1>0, <1>5 DEF ThreadsInv
<1> QED
  BY <1>0, <1>4, <1>6 DEF used, L

\* A thread leaves the list.
LEMMA ThreadLeaves ==
    ASSUME ThreadsInv, NEW k \in Callers, delete_thread(k)
    PROVE  LET t == FindThread(call[k].thr)
           IN  /\ ThreadsInv' /\ t \in Listed(threadList)
               /\ Listed(threadList') = Listed(threadList) \ {t}
               /\ \A u \in Listed(threadList') : thread'[u] = thread[u]
<1> DEFINE t == FindThread(call[k].thr)
<1>0. /\ thread \in [1..MaxThreads -> ThreadRec] /\ ListOK(threadList, threadFree, MaxThreads)
      /\ Listed(threadList) \subseteq 1..MaxThreads
  BY Bounds, ListedDisjoint DEF ThreadsInv
<1>1. /\ t # 0 /\ threadList' = Without(threadList, {t}) /\ threadFree' = <<t>> \o threadFree
      /\ thread' = [thread EXCEPT ![t] = FreedThread(t)]
  BY DEF delete_thread
<1>2. t \in Listed(threadList) /\ t \in 1..MaxThreads
  BY <1>0, <1>1, FindThreadIs
<1> HIDE DEF t
<1>3. ListOK(threadList', threadFree', MaxThreads) /\ Listed(threadList') = Listed(threadList) \ {t}
  BY <1>0, <1>1, <1>2, Bounds, GiveOne
<1>4. FreedThread(t) \in ThreadRec
  BY <1>0, <1>2, Freed
<1>5. thread' \in [1..MaxThreads -> ThreadRec] /\ \A u \in Listed(threadList') : thread'[u] = thread[u]
  BY <1>0, <1>1, <1>2, <1>3, <1>4
<1>6. ThreadsInv'
  BY <1>3, <1>5 DEF ThreadsInv
<1> QED
  BY <1>2, <1>3, <1>5, <1>6 DEF t

\* hal_app_exit: all threads leave.
LEMMA ThreadsLeave ==
    ASSUME ThreadsInv, NEW k \in Callers, app_exit(k)
    PROVE  ThreadsInv' /\ Listed(threadList') = {}
<1>0. /\ thread \in [1..MaxThreads -> ThreadRec] /\ ListOK(threadList, threadFree, MaxThreads)
  BY DEF ThreadsInv
<1>1. /\ thread' = [t \in DOMAIN thread |-> IF t \in Listed(threadList) THEN FreedThread(t) ELSE thread[t]]
      /\ threadList' = <<>> /\ threadFree' = Reverse(threadList) \o threadFree
  BY DEF app_exit
<1>2. \A t \in 1..MaxThreads : thread[t] \in ThreadRec /\ FreedThread(t) \in ThreadRec
  BY <1>0, Freed
<1>3. thread' \in [1..MaxThreads -> ThreadRec]
  BY <1>0, <1>1, <1>2
<1>4. ListOK(threadList', threadFree', MaxThreads)
  BY <1>0, <1>1, Bounds, GiveAll
<1> QED
  BY <1>1, <1>3, <1>4 DEF ThreadsInv, Listed

\* The function x takes place i of thread t, in functs of the structures th2.
EntryPut(th, th2, t, i, x) ==
    /\ Inserted(th[t].functs, i, x, th2[t].functs)
    /\ \A u \in Listed(threadList) : u # t => th2[u].functs = th[u].functs

\* What hal_add_funct_to_thread asks before it puts an entry.
Added(k) ==
    LET f == FindFunct(call[k].name)
        t == FindThread(call[k].thr)
    IN /\ f # 0 /\ t # 0
       /\ Available(f)
       /\ call[k].name \in FpFuncts => call[k].thr \in FpThreads
       /\ InsertIndex(Len(thread[t].functs), call[k].pos) # 0
       /\ Cardinality(EntriesOf(Listed(threadList))) < MaxEntries

\* What hal_add_funct_to_thread does when it adds an entry.
LEMMA EntryAdded ==
    ASSUME FunctsInv, ThreadsInv, CallsInv, NEW k \in Callers, add_entry(k), Added(k)
    PROVE  LET f == FindFunct(call[k].name)
               t == FindThread(call[k].thr)
           IN  /\ ThreadsInv' /\ UNCHANGED <<threadList, threadFree>>
               /\ f \in 1..MaxFuncts /\ f \in Listed(functList) /\ t \in Listed(threadList)
               /\ Cardinality(EntriesOf(Listed(threadList))) < MaxEntries
               /\ \E i : EntryPut(thread, thread', t, i, f)
               /\ funct' = [funct EXCEPT ![f].users = funct[f].users + 1]
<1> DEFINE f == FindFunct(call[k].name)
           t == FindThread(call[k].thr)
           i == InsertIndex(Len(thread[t].functs), call[k].pos)
           rec == [thread[t] EXCEPT !.functs = InsertAt(thread[t].functs, i, f)]
<1>0. /\ thread \in [1..MaxThreads -> ThreadRec] /\ ListOK(threadList, threadFree, MaxThreads)
  BY DEF ThreadsInv
<1>1. /\ f # 0 /\ t # 0 /\ i # 0 /\ Cardinality(EntriesOf(Listed(threadList))) < MaxEntries
      /\ funct' = [funct EXCEPT ![f].users = funct[f].users + 1]
      /\ UNCHANGED <<threadList, threadFree>> /\ call[k].pc = "add"
  BY DEF add_entry, Added, Locked
<1>2. f \in Listed(functList) /\ f \in 1..MaxFuncts
  BY <1>1, FindFunctIs DEF FunctsInv
<1>3. t \in Listed(threadList) /\ t \in 1..MaxThreads
  BY <1>0, <1>1, FindThreadIs
<1>4. thread' = [thread EXCEPT ![t] = rec]
  BY <1>0, <1>3 DEF add_entry, Added
<1>5. call[k].pos \in Int \ {0}
  BY <1>1 DEF CallsInv, CallInv
<1> HIDE DEF f, t
<1>6. thread[t] \in ThreadRec /\ thread[t].functs \in Seq(1..MaxFuncts) /\ Len(thread[t].functs) \in Nat
  BY <1>0, <1>3, ThreadRecIs
<1>7. i \in 1..Len(thread[t].functs) + 1
  BY <1>1, <1>5, <1>6, InsertIndexIs
<1> HIDE DEF i
<1>8. /\ InsertAt(thread[t].functs, i, f) \in Seq(1..MaxFuncts)
      /\ Inserted(thread[t].functs, i, f, InsertAt(thread[t].functs, i, f))
  BY <1>2, <1>6, <1>7, InsertFacts
<1>9. rec \in ThreadRec /\ rec.functs = InsertAt(thread[t].functs, i, f)
  BY <1>6, <1>8, ThreadField
<1> HIDE DEF rec
<1>10. /\ ThreadsInv' /\ thread'[t] = rec
       /\ \A u \in Listed(threadList) : u # t => thread'[u] = thread[u]
  BY <1>1, <1>3, <1>4, <1>9, ThreadChanged
<1>11. EntryPut(thread, thread', t, i, f)
  BY <1>8, <1>9, <1>10 DEF EntryPut
<1> QED
  BY <1>1, <1>2, <1>3, <1>10, <1>11 DEF f, t

\* What hal_del_funct_from_thread asks before it takes an entry out.
Removed(k) ==
    LET f == FindFunct(call[k].name)
        t == FindThread(call[k].thr)
    IN /\ f # 0 /\ t # 0
       /\ funct[f].users # 0
       /\ f \in Listed(thread[t].functs)

\* What hal_del_funct_from_thread does when it removes an entry.
LEMMA EntryRemoved ==
    ASSUME FunctsInv, ThreadsInv, NEW k \in Callers, del_entry(k), Removed(k)
    PROVE  LET f == FindFunct(call[k].name)
               t == FindThread(call[k].thr)
           IN  /\ ThreadsInv' /\ UNCHANGED <<threadList, threadFree>>
               /\ f \in 1..MaxFuncts /\ f \in Listed(functList) /\ t \in Listed(threadList)
               /\ \E i : EntryPut(thread', thread, t, i, f)
               /\ funct' = [funct EXCEPT ![f].users = funct[f].users - 1]
<1> DEFINE f == FindFunct(call[k].name)
           t == FindThread(call[k].thr)
           rec == [thread[t] EXCEPT !.functs = RemoveFirst(thread[t].functs, f)]
<1>0. /\ thread \in [1..MaxThreads -> ThreadRec] /\ ListOK(threadList, threadFree, MaxThreads)
  BY DEF ThreadsInv
<1>1. /\ f # 0 /\ t # 0 /\ f \in Listed(thread[t].functs)
      /\ funct' = [funct EXCEPT ![f].users = funct[f].users - 1]
      /\ UNCHANGED <<threadList, threadFree>>
  BY DEF del_entry, Removed
<1>2. f \in Listed(functList) /\ f \in 1..MaxFuncts
  BY <1>1, FindFunctIs DEF FunctsInv
<1>3. t \in Listed(threadList) /\ t \in 1..MaxThreads
  BY <1>0, <1>1, FindThreadIs
<1>4. thread' = [thread EXCEPT ![t] = rec]
  BY <1>0, <1>3 DEF del_entry, Removed
<1> HIDE DEF f, t
<1>6. thread[t] \in ThreadRec /\ thread[t].functs \in Seq(1..MaxFuncts)
  BY <1>0, <1>3, ThreadRecIs
<1>7. PICK i : /\ RemoveFirst(thread[t].functs, f) \in Seq(1..MaxFuncts)
               /\ Inserted(RemoveFirst(thread[t].functs, f), i, f, thread[t].functs)
  BY <1>1, <1>6, RemoveFacts
<1>9. rec \in ThreadRec /\ rec.functs = RemoveFirst(thread[t].functs, f)
  BY <1>6, <1>7, ThreadField
<1> HIDE DEF rec
<1>10. /\ ThreadsInv' /\ thread'[t] = rec
       /\ \A u \in Listed(threadList) : u # t => thread'[u] = thread[u]
  BY <1>1, <1>3, <1>4, <1>9, ThreadChanged
<1>11. EntryPut(thread', thread, t, i, f)
  BY <1>7, <1>9, <1>10 DEF EntryPut
<1> QED
  BY <1>1, <1>2, <1>3, <1>10, <1>11 DEF f, t

\* hal_create_thread writes comp_id and runtime of the thread it has linked.
LEMMA ThreadWritten ==
    ASSUME PinsInv, ThreadsInv, CallsInv, NEW k \in Callers, create_comp(k) \/ create_pin(k)
    PROVE  ThreadsInv' /\ EntriesKept
<1> DEFINE t == call[k].slot
<1>0. thread \in [1..MaxThreads -> ThreadRec]
  BY DEF ThreadsInv
<1>1. t \in 1..MaxThreads
  BY DEF create_comp, create_pin, Locked, CallsInv, CallInv, Creating
<1>2. UNCHANGED <<threadList, threadFree>> /\ thread[t] \in ThreadRec
  BY <1>0, <1>1 DEF create_comp, create_pin
<1>3. CASE create_comp(k)
  <2>1. uuid + 1 \in CompIds /\ -1 \in CompIds
    <3>1. uuid \in Nat /\ uuid + 1 <= MaxIds
      BY <1>3, IdLeft DEF create_comp, Locked
    <3> QED
      BY <3>1, Bounds DEF CompIds
  <2>2. thread' = [thread EXCEPT ![t].comp_id = uuid + 1] \/ thread' = [thread EXCEPT ![t].comp_id = -1]
    BY <1>3 DEF create_comp
  <2> HIDE DEF t
  <2>3. PICK x \in CompIds : thread' = [thread EXCEPT ![t] = [thread[t] EXCEPT !.comp_id = x]]
    BY <1>0, <1>1, <2>1, <2>2
  <2> DEFINE rec == [thread[t] EXCEPT !.comp_id = x]
  <2>4. rec \in ThreadRec /\ rec.functs = thread[t].functs
    BY <1>2, ThreadField
  <2>5. thread' = [thread EXCEPT ![t] = rec]
    BY <2>3
  <2> HIDE DEF rec
  <2> QED
    BY <1>1, <1>2, <2>4, <2>5, ThreadChanged
<1>4. CASE create_pin(k)
  <2> DEFINE x == PinAddress(call[k].id, thread[t].runtime)
             rec == [thread[t] EXCEPT !.runtime = x]
  <2>1. x \in 0..MaxPins
    <3>1. thread[t].runtime \in 0..MaxPins
      BY <1>2, ThreadRecIs
    <3>2. pinFree # <<>> => Head(pinFree) \in 1..MaxPins
      <4>1. pinFree \in Seq(1..MaxPins)
        BY Bounds, ListedDisjoint DEF PinsInv
      <4> QED
        BY <4>1, TailFacts
    <3> QED
      BY <3>1, <3>2, Bounds DEF PinAddress, PinStored, alloc_pin_struct
  <2>2. thread' = [thread EXCEPT ![t] = rec]
    BY <1>0, <1>1, <1>4 DEF create_pin
  <2> HIDE DEF x, t
  <2>4. rec \in ThreadRec /\ rec.functs = thread[t].functs
    BY <1>2, <2>1, ThreadField
  <2> HIDE DEF rec
  <2> QED
    BY <1>1, <1>2, <2>2, <2>4, ThreadChanged
<1> QED
  BY <1>3, <1>4

\* A step that leaves the threads alone keeps their entries.
LEMMA ThreadsSame ==
    ASSUME ThreadsInv, UNCHANGED threads
    PROVE  ThreadsInv' /\ EntriesKept
BY DEF ThreadsInv, threads, EntriesKept

\* Every step keeps the threads in order.
LEMMA ThreadsStep ==
    ASSUME FunctsInv, PinsInv, ThreadsInv, RestInv, CallsInv, NEW k \in Callers, Step(k)
    PROVE  ThreadsInv'
<1>1. CASE Quiet
  BY <1>1, ThreadsSame DEF Quiet
<1>2. CASE \/ \E name \in CompNames : hal_init(k, name)
           \/ \E id \in 1..uuid : hal_ready(k, id) \/ hal_unready(k, id)
           \/ export_insert(k) \/ export_pin(k) \/ export_tmax(k) \/ export_inc(k)
           \/ create_tmax(k) \/ create_ready(k)
  BY <1>2, ThreadsSame DEF hal_init, hal_ready, hal_unready, export_insert, export_pin, export_tmax,
                           export_inc, create_tmax, create_ready
<1>3. CASE \E id \in 1..uuid : hal_exit(k, id)
  BY <1>3, ThreadsSwept DEF hal_exit, free_comp_struct
<1>4. CASE create_rollback(k) \/ create_start_failed(k)
  BY <1>4, ThreadRolledBack
<1>5. CASE create_insert(k)
  BY <1>5, ThreadJoins
<1>6. CASE create_comp(k) \/ create_pin(k)
  BY <1>6, ThreadWritten
<1>7. CASE delete_thread(k) \/ app_exit(k)
  BY <1>7, ThreadLeaves, ThreadsLeave
<1>8. CASE add_entry(k)
  <2>1. CASE Added(k)
    BY <1>8, <2>1, EntryAdded
  <2>2. CASE ~Added(k)
    BY <1>8, <2>2, ThreadsSame DEF add_entry, Added, threads
  <2> QED
    BY <2>1, <2>2
<1>9. CASE del_entry(k)
  <2>1. CASE Removed(k)
    BY <1>9, <2>1, EntryRemoved
  <2>2. CASE ~Removed(k)
    BY <1>9, <2>2, ThreadsSame DEF del_entry, Removed, threads
  <2> QED
    BY <2>1, <2>2
<1> QED
  BY <1>1, <1>2, <1>3, <1>4, <1>5, <1>6, <1>7, <1>8, <1>9, QuietOrLoud DEF Loud

------------------------------------------------------------------------------
(* Tasks and the lifecycle. *)

\* Every step keeps the task table and the lifecycle fields in their ranges.
LEMMA RestStep ==
    ASSUME ThreadsInv, RestInv, CallsInv, NEW k \in Callers, Step(k)
    PROVE  RestInv'
<1>0. /\ task \in [0..MaxTasks - 1 -> 0..MaxThreads] /\ 0 \in 0..MaxThreads
      /\ state \in {"ACTIVE", "RUNNING", "SHUTTING_DOWN"} /\ threads_running \in {0, 1}
  BY Bounds DEF RestInv
<1>1. task' \in [0..MaxTasks - 1 -> 0..MaxThreads]
  <2>1. CASE UNCHANGED task
    BY <1>0, <2>1
  <2>2. CASE create_rollback(k) \/ delete_thread(k)
    BY <1>0, <2>2 DEF create_rollback, delete_thread, TaskDeleted
  <2>3. CASE create_insert(k)
    <3>1. task' = [task EXCEPT ![NewTask] = Head(threadFree)]
      BY <2>3 DEF create_insert, alloc_thread_struct
    <3>2. Head(threadFree) \in 0..MaxThreads
      BY <2>3, Bounds, ThreadJoins
    <3> QED
      BY <1>0, <3>1, <3>2
  <2>4. CASE app_exit(k)
    BY <1>0, <2>4 DEF app_exit
  <2>5. CASE Quiet
    BY <2>1, <2>5 DEF Quiet
  <2>6. CASE \/ \E name \in CompNames : hal_init(k, name)
             \/ \E id \in 1..uuid : hal_exit(k, id) \/ hal_ready(k, id) \/ hal_unready(k, id)
             \/ export_insert(k) \/ export_pin(k) \/ export_tmax(k) \/ export_inc(k)
    BY <2>1, <2>6 DEF hal_init, hal_exit, hal_ready, hal_unready, export_insert, export_pin,
                      export_tmax, export_inc, tasks
  <2>7. CASE \/ create_start_failed(k) \/ create_comp(k) \/ create_tmax(k) \/ create_pin(k)
             \/ create_ready(k) \/ add_entry(k) \/ del_entry(k)
    BY <2>1, <2>7 DEF create_start_failed, create_comp, create_tmax, create_pin, create_ready,
                      add_entry, del_entry, tasks
  <2> QED
    BY <2>2, <2>3, <2>4, <2>5, <2>6, <2>7, QuietOrLoud DEF Loud
<1>2. state' \in {"ACTIVE", "RUNNING", "SHUTTING_DOWN"} /\ threads_running' \in {0, 1}
  <2>1. CASE UNCHANGED life
    BY <1>0, <2>1 DEF life
  <2>2. CASE Call(k)
    <3>1. CASE \E thr \in ThreadNames :
                \/ hal_create_thread(k, thr)
                \/ hal_thread_delete(k, thr)
                \/ \E name \in Names :
                      \/ \E pos \in Positions : hal_add_funct_to_thread(k, name, thr, pos)
                      \/ hal_del_funct_from_thread(k, name, thr)
      BY <2>1, <3>1 DEF hal_create_thread, hal_thread_delete, hal_add_funct_to_thread,
                        hal_del_funct_from_thread
    <3>2. CASE \E id \in 1..uuid : \/ hal_exit(k, id) \/ hal_ready(k, id) \/ hal_unready(k, id)
                                   \/ \E name \in Names : hal_export_funct(k, id, name)
      BY <2>1, <3>2 DEF hal_export_funct, hal_exit, hal_ready, hal_unready
    <3>3. CASE \/ \E name \in CompNames : hal_init(k, name)
               \/ \E bits \in LockTypes : hal_set_lock(k, bits)
      BY <2>1, <3>3 DEF hal_init, hal_set_lock
    <3>4. CASE hal_start_threads(k) \/ hal_stop_threads(k) \/ hal_app_exit(k)
      BY <1>0, <3>4 DEF hal_start_threads, hal_stop_threads, hal_app_exit
    <3> QED
      BY <2>2, <3>1, <3>2, <3>3, <3>4 DEF Call
  <2>3. CASE Continue(k)
    <3>1. CASE export_insert(k) \/ export_gate(k) \/ export_pin(k) \/ export_zero(k)
               \/ export_tmax(k) \/ export_inc(k)
      BY <2>1, <3>1 DEF export_insert, export_gate, export_pin, export_zero, export_tmax, export_inc
    <3>2. CASE create_refused(k) \/ create_insert(k) \/ create_comp(k) \/ create_gate(k)
               \/ create_tmax(k) \/ create_pin(k) \/ create_ready(k)
      BY <2>1, <3>2 DEF create_refused, create_insert, create_comp, create_gate, create_tmax,
                        create_pin, create_ready
    <3>3. CASE delete_missing(k) \/ delete_exit(k) \/ add_entry(k) \/ del_entry(k) \/ app_exit_unmap(k)
      BY <2>1, <3>3 DEF delete_missing, delete_exit, add_entry, del_entry, app_exit_unmap
    <3>4. CASE create_rollback(k) \/ create_start_failed(k) \/ delete_thread(k)
      BY <1>0, <3>4 DEF create_rollback, create_start_failed, delete_thread
    <3>5. CASE start_state(k) \/ stop_state(k) \/ app_exit(k)
      BY <1>0, <3>5 DEF start_state, stop_state, app_exit
    <3> QED
      BY <2>3, <3>1, <3>2, <3>3, <3>4, <3>5 DEF Continue
  <2> QED
    BY <2>2, <2>3 DEF Step
<1> QED
  BY <1>1, <1>2 DEF RestInv

------------------------------------------------------------------------------
(* Calls. *)

\* CallInv of the record r when the last uuid is u.
CallOK(r, u) ==
    /\ r.pc \in Exporting \cup {"export_insert"} => r.id <= u
    /\ r.pc \in Exporting \cup {"export_insert"} => r.name \in Names
    /\ r.pc \in Exporting => r.slot \in 1..MaxFuncts
    /\ r.pc = "create_insert" => r.name \in ThreadNames
    /\ r.pc \in Creating => r.name \in ThreadNames \cup {0}
    /\ r.pc \in Creating => r.slot \in 1..MaxThreads
    /\ r.pc = "add" => r.pos \in Int \ {0}

\* There are finitely many callers, so finitely many that wait for a uuid.
LEMMA PendingIs ==
    /\ IsFiniteSet(Pending) /\ Cardinality(Pending) \in Nat
    /\ IsFiniteSet(Pending') /\ Cardinality(Pending') \in Nat
<1>1. Pending \in SUBSET Callers /\ Pending' \in SUBSET Callers
  BY DEF Pending
<1>2. IsFiniteSet(Pending) /\ IsFiniteSet(Pending')
  BY <1>1, CallersAreFinite, FS_Subset
<1> QED
  BY <1>2, FS_CardinalityType

\* What a step of caller k may do to the number of uuids handed out or promised.
Promised(k, r) ==
    \/ uuid' = uuid /\ r.pc \notin Taking
    \/ uuid' = uuid /\ call[k].pc \in Taking
    \/ uuid' = uuid /\ IdsLeft
    \/ uuid' = uuid + 1 /\ r.pc = call[k].pc /\ IdsLeft
    \/ uuid' = uuid + 1 /\ r.pc \notin Taking /\ call[k].pc \in Taking

\* When a caller moves on, the uuids still suffice for those that wait for one.
LEMMA PromisesKept ==
    ASSUME CallsInv, NEW k \in Callers, NEW r, call' = [call EXCEPT ![k] = r], Promised(k, r)
    PROVE  uuid' \in Nat /\ uuid' >= uuid /\ uuid' + Cardinality(Pending') <= MaxIds
<1>0. /\ uuid \in Nat /\ uuid + Cardinality(Pending) <= MaxIds /\ MaxIds \in Nat
      /\ DOMAIN call = Callers /\ call'[k] = r /\ \A j \in Callers : j # k => call'[j] = call[j]
  BY Bounds DEF CallsInv
<1>1. Pending' \subseteq Pending \cup {k} /\ (r.pc \notin Taking => Pending' = Pending \ {k})
      /\ (r.pc \in Taking <=> k \in Pending') /\ (call[k].pc \in Taking <=> k \in Pending)
  BY <1>0 DEF Pending
<1>2. IdsLeft => uuid + Cardinality(Pending) < MaxIds
  BY DEF IdsLeft, Pending, Taking
<1> DEFINE P == Pending
           Q == Pending'
<1>3. IsFiniteSet(P) /\ Cardinality(P) \in Nat /\ IsFiniteSet(Q) /\ Cardinality(Q) \in Nat
  BY PendingIs
<1>4. /\ Q \subseteq P \cup {k} /\ (r.pc \notin Taking => Q = P \ {k})
      /\ (r.pc \in Taking <=> k \in Q) /\ (call[k].pc \in Taking <=> k \in P)
      /\ uuid + Cardinality(P) <= MaxIds /\ (IdsLeft => uuid + Cardinality(P) < MaxIds)
  BY <1>0, <1>1, <1>2
<1> HIDE DEF P, Q
<1>5. Q \subseteq P => Cardinality(Q) <= Cardinality(P)
  BY <1>3, FS_Subset
<1>6. Cardinality(Q) <= Cardinality(P) + 1
  <2>1. IsFiniteSet(P \cup {k}) /\ Cardinality(P \cup {k}) <= Cardinality(P) + 1
    <3>1. /\ IsFiniteSet(P \cup {k})
          /\ Cardinality(P \cup {k}) = IF k \in P THEN Cardinality(P) ELSE Cardinality(P) + 1
      BY <1>3, FS_AddElement
    <3> QED
      BY <1>3, <3>1
  <2>2. Cardinality(Q) <= Cardinality(P \cup {k}) /\ Cardinality(P \cup {k}) \in Nat
    BY <1>4, <2>1, FS_Subset, FS_CardinalityType
  <2> QED
    BY <1>3, <2>1, <2>2
<1>7. k \in P /\ Q = P \ {k} => Cardinality(Q) = Cardinality(P) - 1
  BY <1>3, FS_RemoveElement
<1>8. CASE uuid' = uuid /\ (r.pc \notin Taking \/ call[k].pc \in Taking)
  <2>1. Q \subseteq P
    BY <1>4, <1>8
  <2> QED
    BY <1>0, <1>3, <1>4, <1>5, <1>8, <2>1 DEF Q
<1>9. CASE uuid' = uuid /\ IdsLeft
  BY <1>0, <1>3, <1>4, <1>6, <1>9 DEF Q
<1>10. CASE uuid' = uuid + 1 /\ r.pc = call[k].pc /\ IdsLeft
  <2>1. Q \subseteq P
    BY <1>4, <1>10
  <2> QED
    BY <1>0, <1>3, <1>4, <1>5, <1>10, <2>1 DEF Q
<1>11. CASE uuid' = uuid + 1 /\ r.pc \notin Taking /\ call[k].pc \in Taking
  BY <1>0, <1>3, <1>4, <1>7, <1>11 DEF Q
<1> QED
  BY <1>8, <1>9, <1>10, <1>11 DEF Promised

\* One caller moves on; the others keep what they know.
LEMMA CallChanged ==
    ASSUME CallsInv, NEW k \in Callers, NEW r \in CallType, call' = [call EXCEPT ![k] = r],
           Promised(k, r), CallOK(r, uuid')
    PROVE  CallsInv'
<1>0. /\ uuid \in Nat /\ call \in [Callers -> CallType] /\ \A j \in Callers : CallOK(call[j], uuid)
  BY DEF CallsInv, CallInv, CallOK
<1>1. uuid' \in Nat /\ uuid' >= uuid /\ uuid' + Cardinality(Pending') <= MaxIds
  BY PromisesKept
<1>2. call' \in [Callers -> CallType]
  BY <1>0
<1>3. \A j \in Callers : CallOK(call'[j], uuid')
  <2> TAKE j \in Callers
  <2>1. CASE j = k
    BY <1>0, <2>1
  <2>2. CASE j # k
    <3>1. call'[j] = call[j] /\ call[j].id \in Int
      BY <1>0, <2>2, Bounds DEF CallType
    <3>2. call[j].pc \in Exporting \cup {"export_insert"} => call[j].id <= uuid'
      BY <1>0, <1>1, <3>1 DEF CallOK
    <3> QED
      BY <1>0, <3>1, <3>2 DEF CallOK
  <2> QED
    BY <2>1, <2>2
<1> QED
  BY <1>1, <1>2, <1>3 DEF CallsInv, CallInv, CallOK

\* A caller in no call owes and knows nothing.
LEMMA IdleIs ==
    /\ Idle \in CallType /\ Idle.pc = "idle" /\ Idle.id = 0
    /\ \A u \in Nat : CallOK(Idle, u)
<1>1. Idle \in CallType /\ Idle.pc = "idle" /\ Idle.id = 0
  BY Bounds DEF Idle, CallType, Places
<1>2. \A u \in Nat : CallOK(Idle, u)
  BY DEF Idle, CallOK, Exporting, Creating
<1> QED
  BY <1>1, <1>2

\* The caller returns.
LEMMA CallReturns ==
    ASSUME CallsInv, NEW k \in Callers, Return(k),
           uuid' = uuid \/ (uuid' = uuid + 1 /\ call[k].pc \in Taking)
    PROVE  CallsInv'
<1>1. uuid' \in Nat
  BY DEF CallsInv
<1>2. Promised(k, Idle)
  BY IdleIs DEF Promised, Taking
<1> QED
  BY <1>1, <1>2, IdleIs, CallChanged DEF Return

\* The record of a call that is at pc now.
Moved(r, pc) == [r EXCEPT !.pc = pc]

\* Moving on within hal_export_funct or hal_create_thread keeps what the call knows.
LEMMA MovedIs ==
    ASSUME NEW r \in CallType, NEW pc \in Places, NEW u, CallOK(r, u),
           pc \in Exporting => r.pc \in Exporting, pc \in Creating => r.pc \in Creating,
           pc \notin {"export_insert", "create_insert", "add"}
    PROVE  Moved(r, pc) \in CallType /\ Moved(r, pc).pc = pc /\ CallOK(Moved(r, pc), u)
<1>1. Moved(r, pc) \in CallType /\ Moved(r, pc).pc = pc
  BY DEF Moved, CallType
<1>2. /\ Moved(r, pc).id = r.id /\ Moved(r, pc).name = r.name /\ Moved(r, pc).slot = r.slot
      /\ Moved(r, pc).pos = r.pos
  BY DEF Moved, CallType
<1> QED
  BY <1>1, <1>2 DEF CallOK

\* The caller goes on.
LEMMA CallMoves ==
    ASSUME CallsInv, NEW k \in Callers, NEW pc \in Places, Goto(k, pc), uuid' = uuid,
           pc \in Exporting => call[k].pc \in Exporting,
           pc \in Creating => call[k].pc \in Creating,
           pc \notin {"export_insert", "create_insert", "create_comp", "add"}
    PROVE  CallsInv'
<1>0. call[k] \in CallType /\ CallOK(call[k], uuid) /\ call \in [Callers -> CallType]
  BY DEF CallsInv, CallInv, CallOK
<1> DEFINE r == Moved(call[k], pc)
<1>1. r \in CallType /\ r.pc = pc /\ CallOK(r, uuid)
  BY <1>0, MovedIs
<1>2. call' = [call EXCEPT ![k] = r]
  BY <1>0 DEF Goto, Moved, CallType
<1> HIDE DEF r
<1>3. Promised(k, r)
  BY <1>1 DEF Promised, Taking
<1> QED
  BY <1>1, <1>2, <1>3, CallChanged

\* A call that is one step leaves every caller where it is.
LEMMA CallsSame ==
    ASSUME CallsInv, NEW k \in Callers, call' = call, uuid' = uuid \/ (uuid' = uuid + 1 /\ IdsLeft)
    PROVE  CallsInv'
<1>0. /\ call[k] \in CallType /\ CallOK(call[k], uuid) /\ call \in [Callers -> CallType] /\ uuid \in Nat
  BY DEF CallsInv, CallInv, CallOK
<1>1. call' = [call EXCEPT ![k] = call[k]]
  BY <1>0
<1>2. CASE uuid' = uuid
  BY <1>2 DEF CallsInv, CallInv, Pending
<1>3. CASE uuid' = uuid + 1 /\ IdsLeft
  <2>1. CallOK(call[k], uuid')
    <3>1. call[k].id \in Int
      BY <1>0, Bounds DEF CallType
    <3>2. call[k].pc \in Exporting \cup {"export_insert"} => call[k].id <= uuid'
      BY <1>0, <1>3, <3>1 DEF CallOK
    <3> QED
      BY <1>0, <3>2 DEF CallOK
  <2>2. Promised(k, call[k])
    BY <1>3 DEF Promised
  <2> QED
    BY <1>0, <1>1, <2>1, <2>2, CallChanged
<1> QED
  BY <1>2, <1>3

------------------------------------------------------------------------------
(* The records of calls that begin, and of calls that remember a structure. *)

\* The call records that callers enter with, and how a section updates them.
BeginExport(id, name) == [Idle EXCEPT !.pc = "export_insert", !.id = id, !.name = name]
BeginCreate(name) == [Idle EXCEPT !.pc = "create_insert", !.name = name]
BeginDelete(name) == [Idle EXCEPT !.pc = "delete", !.thr = name]
BeginAdd(name, thr, pos) == [Idle EXCEPT !.pc = "add", !.name = name, !.thr = thr, !.pos = pos]
BeginDel(name, thr) == [Idle EXCEPT !.pc = "del", !.name = name, !.thr = thr]
WithSlot(r, pc, slot) == [r EXCEPT !.pc = pc, !.slot = slot]
WithThread(r, pc, id, name) == [r EXCEPT !.pc = pc, !.id = id, !.name = name]

\* What a caller knows when it enters hal_export_funct.
LEMMA BeginExportIs ==
    ASSUME NEW u \in Nat, u <= MaxIds, NEW id \in 1..u, NEW name \in Names
    PROVE  /\ BeginExport(id, name) \in CallType /\ CallOK(BeginExport(id, name), u)
           /\ BeginExport(id, name).pc = "export_insert"
<1>1. /\ BeginExport(id, name) \in CallType /\ BeginExport(id, name).pc = "export_insert"
      /\ BeginExport(id, name).id = id /\ BeginExport(id, name).name = name
  <2>1. "export_insert" \in Places
    BY DEF Places
  <2>2. id \in -1..MaxIds
    BY Bounds
  <2> QED
    BY <2>1, <2>2, IdleIs DEF BeginExport, CallType
<1> HIDE DEF BeginExport
<1> QED
  BY <1>1 DEF CallOK, Exporting, Creating

\* What a caller knows when it enters hal_create_thread.
LEMMA BeginCreateIs ==
    ASSUME NEW u \in Nat, NEW name \in ThreadNames
    PROVE  BeginCreate(name) \in CallType /\ CallOK(BeginCreate(name), u)
<1>1. /\ BeginCreate(name) \in CallType /\ BeginCreate(name).pc = "create_insert"
      /\ BeginCreate(name).id = 0 /\ BeginCreate(name).name = name
  <2>1. "create_insert" \in Places
    BY DEF Places
  <2> QED
    BY <2>1, Bounds, IdleIs DEF BeginCreate, CallType
<1> QED
  BY <1>1 DEF CallOK, Exporting, Creating

\* What a caller knows when it enters hal_thread_delete.
LEMMA BeginDeleteIs ==
    ASSUME NEW u \in Nat, NEW name \in ThreadNames
    PROVE  /\ BeginDelete(name) \in CallType /\ CallOK(BeginDelete(name), u)
           /\ BeginDelete(name).pc = "delete"
<1>1. /\ BeginDelete(name) \in CallType /\ BeginDelete(name).pc = "delete"
      /\ BeginDelete(name).id = 0
  <2>1. "delete" \in Places
    BY DEF Places
  <2> QED
    BY <2>1, Bounds, IdleIs DEF BeginDelete, CallType
<1> QED
  BY <1>1 DEF CallOK, Exporting, Creating

\* What a caller knows when it enters hal_add_funct_to_thread.
LEMMA BeginAddIs ==
    ASSUME NEW u \in Nat, NEW name \in Names, NEW thr \in ThreadNames, NEW pos \in Positions, pos # 0
    PROVE  /\ BeginAdd(name, thr, pos) \in CallType /\ CallOK(BeginAdd(name, thr, pos), u)
           /\ BeginAdd(name, thr, pos).pc = "add"
<1>1. /\ BeginAdd(name, thr, pos) \in CallType /\ BeginAdd(name, thr, pos).pc = "add"
      /\ BeginAdd(name, thr, pos).id = 0 /\ BeginAdd(name, thr, pos).pos = pos
  <2>1. "add" \in Places
    BY DEF Places
  <2> QED
    BY <2>1, Bounds, IdleIs DEF BeginAdd, CallType
<1>2. pos \in Int \ {0}
  BY PositionsAreInts
<1> QED
  BY <1>1, <1>2 DEF CallOK, Exporting, Creating

\* What a caller knows when it enters hal_del_funct_from_thread.
LEMMA BeginDelIs ==
    ASSUME NEW u \in Nat, NEW name \in Names, NEW thr \in ThreadNames
    PROVE  /\ BeginDel(name, thr) \in CallType /\ CallOK(BeginDel(name, thr), u)
           /\ BeginDel(name, thr).pc = "del"
<1>1. /\ BeginDel(name, thr) \in CallType /\ BeginDel(name, thr).pc = "del"
      /\ BeginDel(name, thr).id = 0
  <2>1. "del" \in Places
    BY DEF Places
  <2> QED
    BY <2>1, Bounds, IdleIs DEF BeginDel, CallType
<1> QED
  BY <1>1 DEF CallOK, Exporting, Creating

\* The call remembers the structure it has linked.
LEMMA WithSlotIs ==
    ASSUME NEW u, NEW r \in CallType, CallOK(r, u), NEW pc \in Places, NEW slot \in Nat
    PROVE  /\ WithSlot(r, pc, slot) \in CallType /\ WithSlot(r, pc, slot).pc = pc
           /\ WithSlot(r, pc, slot).slot = slot /\ WithSlot(r, pc, slot).name = r.name
           /\ WithSlot(r, pc, slot).id = r.id
           /\ r.pc = "export_insert" => WithSlot(r, pc, slot).id <= u
BY DEF WithSlot, CallType, CallOK

\* hal_create_thread reads the component and the name in its structure.
LEMMA WithThreadIs ==
    ASSUME NEW r \in CallType, NEW pc \in Places, NEW id \in CompIds,
           NEW name \in ThreadNames \cup {0}
    PROVE  /\ WithThread(r, pc, id, name) \in CallType /\ WithThread(r, pc, id, name).pc = pc
           /\ WithThread(r, pc, id, name).slot = r.slot
           /\ WithThread(r, pc, id, name).name = name
BY DEF WithThread, CallType, CompIds

\* Entering a call keeps CallsInv.
LEMMA CallBegins ==
    ASSUME CallsInv, NEW k \in Callers, Call(k)
    PROVE  CallsInv'
<1>0. /\ uuid \in Nat /\ uuid <= MaxIds /\ call \in [Callers -> CallType]
  <2>1. /\ uuid \in Nat /\ uuid + Cardinality(Pending) <= MaxIds /\ call \in [Callers -> CallType]
    BY DEF CallsInv
  <2> QED
    BY <2>1, PendingIs, Bounds
<1>1. ASSUME NEW name \in CompNames, hal_init(k, name) PROVE CallsInv'
  BY <1>1, CallsSame DEF hal_init, CompNew
<1>2. ASSUME NEW thr \in ThreadNames, hal_create_thread(k, thr) PROVE CallsInv'
  <2>1. call' = [call EXCEPT ![k] = BeginCreate(thr)] /\ uuid' = uuid /\ IdsLeft
    BY <1>2 DEF hal_create_thread, BeginCreate
  <2>2. Promised(k, BeginCreate(thr))
    BY <2>1 DEF Promised
  <2> QED
    BY <1>0, <2>1, <2>2, BeginCreateIs, CallChanged
<1>3. ASSUME NEW thr \in ThreadNames, hal_thread_delete(k, thr) PROVE CallsInv'
  <2>1. call' = [call EXCEPT ![k] = BeginDelete(thr)] /\ uuid' = uuid
    BY <1>3 DEF hal_thread_delete, BeginDelete
  <2>2. Promised(k, BeginDelete(thr))
    BY <1>0, <2>1, BeginDeleteIs DEF Promised, Taking
  <2> QED
    BY <1>0, <2>1, <2>2, BeginDeleteIs, CallChanged
<1>4. ASSUME NEW thr \in ThreadNames, NEW name \in Names, NEW pos \in Positions,
             hal_add_funct_to_thread(k, name, thr, pos)
      PROVE  CallsInv'
  <2>1. call' = [call EXCEPT ![k] = BeginAdd(name, thr, pos)] /\ uuid' = uuid /\ pos # 0
    BY <1>4 DEF hal_add_funct_to_thread, BeginAdd
  <2>2. Promised(k, BeginAdd(name, thr, pos))
    BY <1>0, <2>1, BeginAddIs DEF Promised, Taking
  <2> QED
    BY <1>0, <2>1, <2>2, BeginAddIs, CallChanged
<1>5. ASSUME NEW thr \in ThreadNames, NEW name \in Names, hal_del_funct_from_thread(k, name, thr)
      PROVE  CallsInv'
  <2>1. call' = [call EXCEPT ![k] = BeginDel(name, thr)] /\ uuid' = uuid
    BY <1>5 DEF hal_del_funct_from_thread, BeginDel
  <2>2. Promised(k, BeginDel(name, thr))
    BY <1>0, <2>1, BeginDelIs DEF Promised, Taking
  <2> QED
    BY <1>0, <2>1, <2>2, BeginDelIs, CallChanged
<1>6. ASSUME NEW id \in 1..uuid, hal_exit(k, id) \/ hal_ready(k, id) \/ hal_unready(k, id)
      PROVE  CallsInv'
  BY <1>6, CallsSame DEF hal_exit, hal_ready, hal_unready
<1>7. ASSUME NEW id \in 1..uuid, NEW name \in Names, hal_export_funct(k, id, name) PROVE CallsInv'
  <2>1. call' = [call EXCEPT ![k] = BeginExport(id, name)] /\ uuid' = uuid
    BY <1>7 DEF hal_export_funct, BeginExport
  <2>2. /\ BeginExport(id, name) \in CallType /\ CallOK(BeginExport(id, name), uuid)
        /\ BeginExport(id, name).pc = "export_insert"
    BY <1>0, BeginExportIs
  <2>3. Promised(k, BeginExport(id, name))
    BY <2>1, <2>2 DEF Promised, Taking
  <2> QED
    BY <2>1, <2>2, <2>3, CallChanged
<1>8. ASSUME NEW bits \in LockTypes, hal_set_lock(k, bits) PROVE CallsInv'
  BY <1>8, CallsSame DEF hal_set_lock
<1>9. CASE hal_start_threads(k)
  <2>1. Goto(k, "start_state") /\ uuid' = uuid
    BY <1>9 DEF hal_start_threads
  <2> QED
    BY <2>1, CallMoves DEF Places, Exporting, Creating
<1>10. CASE hal_stop_threads(k)
  <2>1. Goto(k, "stop_state") /\ uuid' = uuid
    BY <1>10 DEF hal_stop_threads
  <2> QED
    BY <2>1, CallMoves DEF Places, Exporting, Creating
<1>11. CASE hal_app_exit(k)
  <2>1. Goto(k, "app_exit") /\ uuid' = uuid
    BY <1>11 DEF hal_app_exit
  <2> QED
    BY <2>1, CallMoves DEF Places, Exporting, Creating
<1> QED
  BY <1>1, <1>2, <1>3, <1>4, <1>5, <1>6, <1>7, <1>8, <1>9, <1>10, <1>11 DEF Call

\* hal_export_funct goes on.
LEMMA ExportContinues ==
    ASSUME CompsInv, FunctsInv, CallsInv, NEW k \in Callers,
           \/ export_insert(k) \/ export_gate(k) \/ export_pin(k) \/ export_zero(k)
           \/ export_tmax(k) \/ export_inc(k)
    PROVE  CallsInv'
<1>0. call[k] \in CallType /\ CallOK(call[k], uuid) /\ call \in [Callers -> CallType] /\ uuid \in Nat
  BY DEF CallsInv, CallInv, CallOK
<1>1. CASE export_insert(k)
  <2>1. uuid' = uuid /\ call[k].pc = "export_insert"
    BY <1>1 DEF export_insert, Locked
  <2>2. CASE Exported(k)
    <3> DEFINE f == Head(functFree)
               r == WithSlot(call[k], "export_pin", f)
    <3>1. f \in 1..MaxFuncts /\ call' = [call EXCEPT ![k].pc = "export_pin", ![k].slot = f]
      BY <1>1, <2>2, FunctLinked
    <3> HIDE DEF f
    <3>2. call' = [call EXCEPT ![k] = r]
      BY <1>0, <3>1 DEF WithSlot, CallType
    <3>3. "export_pin" \in Places /\ f \in Nat
      BY <3>1 DEF Places
    <3>4. /\ r \in CallType /\ r.pc = "export_pin" /\ r.slot = f /\ r.name = call[k].name /\ r.id <= uuid
      BY <1>0, <2>1, <3>3, WithSlotIs
    <3>5. call[k].name \in Names
      BY <1>0, <2>1 DEF CallOK
    <3> HIDE DEF r
    <3>6. CallOK(r, uuid)
      BY <3>1, <3>4, <3>5 DEF CallOK, Exporting, Creating
    <3>7. Promised(k, r)
      BY <2>1, <3>4 DEF Promised, Taking
    <3> QED
      BY <2>1, <3>2, <3>4, <3>6, <3>7, CallChanged
  <2>3. CASE ~Exported(k)
    <3>1. Return(k)
      BY <1>1, <2>3 DEF export_insert, Exported
    <3> QED
      BY <2>1, <3>1, CallReturns
  <2> QED
    BY <2>2, <2>3
<1>2. CASE export_gate(k)
  <2>1. uuid' = uuid /\ call[k].pc \in {"export_pin", "export_tmax", "export_inc"}
    BY <1>2 DEF export_gate
  <2>2. CASE Return(k)
    BY <2>1, <2>2, CallReturns
  <2>3. CASE ~Return(k)
    <3>1. \/ Goto(k, "export_pin_locked") \/ Goto(k, "export_tmax_locked")
          \/ Goto(k, "export_inc_locked") \/ Goto(k, "export_inc")
      <4>1. /\ PastGate["export_pin"] = "export_pin_locked" /\ PastGate["export_tmax"] = "export_tmax_locked"
            /\ PastGate["export_inc"] = "export_inc_locked"
        BY DEF PastGate
      <4>2. CASE "LOAD" \notin lock
        <5>1. Goto(k, PastGate[call[k].pc])
          BY <1>2, <4>2 DEF export_gate
        <5> QED
          BY <2>1, <4>1, <5>1
      <4>3. CASE "LOAD" \in lock /\ call[k].pc = "export_tmax"
        BY <1>2, <4>3 DEF export_gate
      <4>4. CASE "LOAD" \in lock /\ call[k].pc # "export_tmax"
        BY <1>2, <2>3, <4>4 DEF export_gate
      <4> QED
        BY <4>2, <4>3, <4>4
    <3>2. /\ call[k].pc \in Exporting
          /\ {"export_pin_locked", "export_tmax_locked", "export_inc_locked", "export_inc"} \subseteq
             Places \ (Creating \cup {"export_insert", "create_insert", "create_comp", "add"})
      BY <2>1 DEF Exporting, Creating, Places
    <3>3. PICK pc \in {"export_pin_locked", "export_tmax_locked", "export_inc_locked", "export_inc"} :
             Goto(k, pc)
      BY <3>1
    <3> QED
      BY <2>1, <3>2, <3>3, CallMoves
  <2> QED
    BY <2>2, <2>3
<1>3. CASE export_pin(k)
  <2>1. /\ uuid' = uuid /\ call[k].pc = "export_pin_locked"
        /\ Return(k) \/ Goto(k, "export_zero")
    BY <1>3 DEF export_pin, Locked
  <2> QED
    BY <2>1, CallReturns, CallMoves DEF Places, Exporting, Creating
<1>4. CASE export_zero(k)
  <2>1. uuid' = uuid /\ call[k].pc = "export_zero" /\ Goto(k, "export_tmax")
    BY <1>4 DEF export_zero, At
  <2> QED
    BY <2>1, CallMoves DEF Places, Exporting, Creating
<1>5. CASE export_tmax(k)
  <2>1. uuid' = uuid /\ call[k].pc = "export_tmax_locked" /\ Goto(k, "export_inc")
    BY <1>5 DEF export_tmax, Locked
  <2> QED
    BY <2>1, CallMoves DEF Places, Exporting, Creating
<1>6. CASE export_inc(k)
  BY <1>6, CallReturns DEF export_inc
<1> QED
  BY <1>1, <1>2, <1>3, <1>4, <1>5, <1>6

\* hal_create_thread goes on.
LEMMA CreateContinues ==
    ASSUME ThreadsInv, RestInv, CallsInv, NEW k \in Callers,
           \/ create_refused(k) \/ create_rollback(k) \/ create_start_failed(k) \/ create_insert(k)
           \/ create_comp(k) \/ create_gate(k) \/ create_tmax(k) \/ create_pin(k) \/ create_ready(k)
    PROVE  CallsInv'
<1>0. call[k] \in CallType /\ CallOK(call[k], uuid) /\ call \in [Callers -> CallType] /\ uuid \in Nat
  BY DEF CallsInv, CallInv, CallOK
<1>1. CASE create_refused(k) \/ create_rollback(k) \/ create_start_failed(k) \/ create_ready(k)
  BY <1>1, CallReturns DEF create_refused, create_rollback, create_start_failed, create_ready
<1>2. CASE create_insert(k)
  <2> DEFINE t == Head(threadFree)
             r == WithSlot(call[k], "create_comp", t)
  <2>1. /\ uuid' = uuid /\ call[k].pc = "create_insert"
        /\ call' = [call EXCEPT ![k].pc = "create_comp", ![k].slot = t]
    BY <1>2 DEF create_insert, Locked, alloc_thread_struct
  <2>2. t \in 1..MaxThreads
    BY <1>2, ThreadJoins
  <2> HIDE DEF t
  <2>3. call' = [call EXCEPT ![k] = r]
    BY <1>0, <2>1 DEF WithSlot, CallType
  <2>4. "create_comp" \in Places /\ t \in Nat
    BY <2>2 DEF Places
  <2>5. /\ r \in CallType /\ r.pc = "create_comp" /\ r.slot = t /\ r.name = call[k].name
    BY <1>0, <2>4, WithSlotIs
  <2>6. call[k].name \in ThreadNames
    BY <1>0, <2>1 DEF CallOK
  <2> HIDE DEF r
  <2>7. CallOK(r, uuid)
    BY <2>2, <2>5, <2>6 DEF CallOK, Exporting, Creating
  <2>8. Promised(k, r)
    BY <2>1, <2>5 DEF Promised, Taking
  <2> QED
    BY <2>1, <2>3, <2>5, <2>7, <2>8, CallChanged
<1>3. CASE create_comp(k)
  <2>1. uuid' = uuid + 1 /\ call[k].pc = "create_comp" /\ call[k].pc \in Taking
    BY <1>3 DEF create_comp, CompNew, Locked, Taking
  <2>2. CASE Return(k)
    BY <2>1, <2>2, CallReturns
  <2>3. CASE ~Return(k)
    <3> DEFINE r == Moved(call[k], "create_tmax")
    <3>1. Goto(k, "create_tmax")
      BY <1>3, <2>3 DEF create_comp
    <3>2. call' = [call EXCEPT ![k] = r]
      BY <1>0, <3>1 DEF Goto, Moved, CallType
    <3>3. CallOK(call[k], uuid + 1)
      BY <1>0, <2>1 DEF CallOK, Exporting
    <3>4. r \in CallType /\ r.pc = "create_tmax" /\ CallOK(r, uuid + 1)
      BY <1>0, <2>1, <3>3, MovedIs DEF Places, Exporting, Creating
    <3> HIDE DEF r
    <3>5. Promised(k, r)
      BY <2>1, <3>4 DEF Promised, Taking
    <3> QED
      BY <2>1, <3>2, <3>4, <3>5, CallChanged
  <2> QED
    BY <2>2, <2>3
<1>4. CASE create_gate(k)
  <2> DEFINE t == call[k].slot
             pc == PastGate[call[k].pc]
             r == WithThread(call[k], pc, thread[t].comp_id, thread[t].name)
  <2>1. uuid' = uuid /\ call[k].pc \in {"create_tmax", "create_pin", "create_ready"}
    BY <1>4 DEF create_gate
  <2>2. CASE Return(k)
    BY <2>1, <2>2, CallReturns
  <2>3. CASE ~Return(k)
    <3>1. pc \in {"create_tmax_locked", "create_pin_locked", "create_ready_locked"}
      BY <2>1 DEF PastGate
    <3>2. t \in 1..MaxThreads
      BY <1>0, <2>1 DEF CallOK, Creating
    <3>3. thread[t].comp_id \in CompIds /\ thread[t].name \in ThreadNames \cup {0}
      <4>1. thread[t] \in ThreadRec
        BY <3>2 DEF ThreadsInv
      <4> QED
        BY <4>1, ThreadRecIs DEF NoName
    <3>4. call' = [call EXCEPT ![k] = r]
      BY <1>0, <1>4, <2>3 DEF create_gate, WithThread, CallType
    <3>5. pc \in Places
      BY <3>1 DEF Places
    <3> HIDE DEF pc
    <3>6. /\ r \in CallType /\ r.pc = pc /\ r.slot = t
          /\ r.name \in ThreadNames \cup {0}
      BY <1>0, <3>3, <3>5, WithThreadIs
    <3> HIDE DEF r, t
    <3>7. CallOK(r, uuid)
      BY <3>1, <3>2, <3>6 DEF CallOK, Exporting, Creating
    <3>8. Promised(k, r)
      BY <2>1, <3>1, <3>6 DEF Promised, Taking
    <3> QED
      BY <2>1, <3>4, <3>6, <3>7, <3>8, CallChanged
  <2> QED
    BY <2>2, <2>3
<1>5. CASE create_tmax(k)
  <2>1. /\ uuid' = uuid /\ call[k].pc = "create_tmax_locked" /\ (Return(k) \/ Goto(k, "create_pin"))
    BY <1>5 DEF create_tmax, Locked
  <2> QED
    BY <2>1, CallReturns, CallMoves DEF Places, Exporting, Creating
<1>6. CASE create_pin(k)
  <2>1. /\ uuid' = uuid /\ call[k].pc = "create_pin_locked" /\ (Return(k) \/ Goto(k, "create_ready"))
    BY <1>6 DEF create_pin, Locked
  <2> QED
    BY <2>1, CallReturns, CallMoves DEF Places, Exporting, Creating
<1> QED
  BY <1>1, <1>2, <1>3, <1>4, <1>5, <1>6

\* Every step keeps what the callers know.
LEMMA CallsStep ==
    ASSUME CompsInv, FunctsInv, ThreadsInv, RestInv, CallsInv, NEW k \in Callers, Step(k)
    PROVE  CallsInv'
<1>1. CASE Call(k)
  BY <1>1, CallBegins
<1>2. CASE \/ export_insert(k) \/ export_gate(k) \/ export_pin(k) \/ export_zero(k)
           \/ export_tmax(k) \/ export_inc(k)
  BY <1>2, ExportContinues
<1>3. CASE \/ create_refused(k) \/ create_rollback(k) \/ create_start_failed(k) \/ create_insert(k)
           \/ create_comp(k) \/ create_gate(k) \/ create_tmax(k) \/ create_pin(k) \/ create_ready(k)
  BY <1>3, CreateContinues
<1>4. CASE delete_missing(k) \/ delete_thread(k) \/ add_entry(k) \/ del_entry(k)
           \/ start_state(k) \/ stop_state(k)
  BY <1>4, CallReturns DEF delete_missing, delete_thread, add_entry, del_entry, start_state, stop_state
<1>5. CASE delete_exit(k)
  <2>1. Goto(k, "delete_exit") /\ uuid' = uuid
    BY <1>5 DEF delete_exit
  <2> QED
    BY <2>1, CallMoves DEF Places, Exporting, Creating
<1>6. CASE app_exit(k)
  <2>1. Goto(k, "app_exit_unmap") /\ uuid' = uuid
    BY <1>6 DEF app_exit
  <2> QED
    BY <2>1, CallMoves DEF Places, Exporting, Creating
<1>7. CASE app_exit_unmap(k)
  BY <1>7, CallsSame DEF app_exit_unmap
<1> QED
  BY <1>1, <1>2, <1>3, <1>4, <1>5, <1>6, <1>7 DEF Step, Continue

------------------------------------------------------------------------------
(* Owners. *)

\* The step is a hal_exit that finds its component.
Exit(k) == \E id \in 1..uuid : hal_exit(k, id)

\* Components stay, and a new one has a uuid nobody has heard of.
CompsGrow ==
    /\ Listed(compList) \subseteq Listed(compList')
    /\ \A c \in Listed(compList) : comp'[c].id = comp[c].id
    /\ \A c \in Listed(compList') : c \notin Listed(compList) => comp'[c].id = uuid + 1

\* Only hal_exit takes a component away.
LEMMA CompsGrowStep ==
    ASSUME CompsInv, CallsInv, NEW k \in Callers, Step(k), ~Exit(k)
    PROVE  CompsGrow
<1>0. /\ comp \in [1..MaxComps -> CompRec] /\ Listed(compList) \subseteq 1..MaxComps
      /\ ListOK(compList, compFree, MaxComps)
  BY Bounds, ListedDisjoint DEF CompsInv
<1>1. CASE UNCHANGED comps
  BY <1>1 DEF comps, CompsGrow
<1>2. ASSUME NEW name, CompNew(name), ~UNCHANGED comps PROVE CompsGrow
  <2> DEFINE c == Head(compFree)
             r == [id |-> uuid + 1, name |-> NoName, ready |-> FALSE]
  <2>1. /\ c \in 1..MaxComps /\ c \notin Listed(compList)
        /\ Listed(compList') = Listed(compList) \cup {c}
        /\ comp' = [comp EXCEPT ![c] = r] /\ r.id = uuid + 1
    BY <1>2, CompLinked
  <2> HIDE DEF c, r
  <2>2. comp'[c].id = uuid + 1 /\ \A d \in Listed(compList) : comp'[d] = comp[d]
    BY <1>0, <2>1
  <2> QED
    BY <2>1, <2>2 DEF CompsGrow
<1>3. ASSUME NEW id, NEW ready \in Flag, FindComp(id) # 0, SetReady(id, ready) PROVE CompsGrow
  <2> DEFINE c == FindComp(id)
  <2>1. comp' = [comp EXCEPT ![c].ready = ready] /\ UNCHANGED <<compList, compFree>>
    BY <1>3 DEF SetReady
  <2>2. c \in 1..MaxComps
    BY <1>0, <1>3, FindCompIs
  <2> HIDE DEF c
  <2>4. \A d \in 1..MaxComps : comp'[d].id = comp[d].id
    BY <1>0, <2>1, <2>2 DEF CompRec
  <2> QED
    BY <1>0, <2>1, <2>4 DEF CompsGrow
<1> QED
  BY <1>1, <1>2, <1>3, CompsSteps DEF Exit

\* Functions stay with their owners.
FunctsStay ==
    /\ functList' = functList
    /\ \A f \in 1..MaxFuncts : funct'[f].owner = funct[f].owner

\* Only hal_exit and the mutex section of hal_export_funct change which functions are listed, or who owns one.
LEMMA FunctsStayStep ==
    ASSUME FunctsInv, CallsInv, NEW k \in Callers, Step(k), ~Exit(k), ~(export_insert(k) /\ Exported(k))
    PROVE  FunctsStay
<1>0. funct \in [1..MaxFuncts -> FunctRec] /\ DOMAIN funct = 1..MaxFuncts
  BY DEF FunctsInv
<1>1. CASE UNCHANGED functs
  BY <1>1 DEF FunctsStay, functs
<1>2. CASE export_insert(k)
  BY <1>1, <1>2 DEF export_insert, Exported
<1>3. CASE export_pin(k)
  <2>1. /\ functList' = functList
        /\ funct' = [funct EXCEPT ![call[k].slot].runtime = PinAddress(call[k].id, funct[call[k].slot].runtime)]
    BY <1>3 DEF export_pin
  <2> QED
    BY <1>0, <2>1 DEF FunctsStay, FunctRec
<1>4. ASSUME NEW T, funct' = FunctsReleased(T), functList' = functList PROVE FunctsStay
  <2>1. \A f \in 1..MaxFuncts : \A n : [funct[f] EXCEPT !.users = n].owner = funct[f].owner
    BY <1>0 DEF FunctRec
  <2>2. \A f \in 1..MaxFuncts : funct'[f] = [funct[f] EXCEPT !.users = funct[f].users - Cardinality(CallsOf(f, T))]
    BY <1>0, <1>4 DEF FunctsReleased
  <2>3. ASSUME NEW f \in 1..MaxFuncts PROVE funct'[f].owner = funct[f].owner
    <3> DEFINE n == funct[f].users - Cardinality(CallsOf(f, T))
    <3>1. funct'[f] = [funct[f] EXCEPT !.users = n]
      BY <2>2
    <3> HIDE DEF n
    <3> QED
      BY <2>1, <3>1
  <2> QED
    BY <1>4, <2>3 DEF FunctsStay
<1>5. CASE delete_thread(k) \/ app_exit(k)
  BY <1>4, <1>5 DEF delete_thread, app_exit
<1>6. ASSUME NEW f, NEW n, funct' = [funct EXCEPT ![f].users = n], functList' = functList PROVE FunctsStay
  BY <1>0, <1>6 DEF FunctsStay, FunctRec
<1>7. CASE add_entry(k)
  BY <1>1, <1>6, <1>7 DEF add_entry, functs
<1>8. CASE del_entry(k)
  BY <1>1, <1>6, <1>8 DEF del_entry, functs
<1>9. CASE Quiet
  BY <1>1, <1>9 DEF Quiet
<1>10. CASE \/ \E name \in CompNames : hal_init(k, name)
            \/ \E id \in 1..uuid : hal_ready(k, id) \/ hal_unready(k, id)
  BY <1>1, <1>10 DEF hal_init, hal_ready, hal_unready
<1>12. CASE \/ export_tmax(k) \/ export_inc(k) \/ create_rollback(k) \/ create_start_failed(k)
            \/ create_insert(k) \/ create_comp(k) \/ create_tmax(k) \/ create_pin(k) \/ create_ready(k)
  BY <1>1, <1>12 DEF export_tmax, export_inc, create_rollback, create_start_failed, create_insert,
                     create_comp, create_tmax, create_pin, create_ready
<1> QED
  BY <1>2, <1>3, <1>5, <1>7, <1>8, <1>9, <1>10, <1>12, QuietOrLoud DEF Loud, Exit

\* A param is added on behalf of a component, and shows a field of the function
\* the caller has linked, or none.
ParamStep(k, name, data) ==
    /\ name \in Nat /\ data \in 0..MaxFuncts
    /\ ParamAdded(call[k].id, name) /\ ParamNew(call[k].id, name, data)
    /\ data = 0 \/ (call[k].pc \in Exporting /\ data = call[k].slot)
    /\ UNCHANGED <<comps, functs>>

\* Only hal_exit takes a param away, and one is added by a call in progress.
LEMMA ParamsStays ==
    ASSUME CallsInv, NEW k \in Callers, Step(k), ~Exit(k)
    PROVE  UNCHANGED paramList \/ \E name, data : ParamStep(k, name, data)
<1>0. CallInv(k)
  BY DEF CallsInv
<1>1. CASE Quiet
  BY <1>1 DEF Quiet
<1>2. CASE export_tmax(k) \/ export_inc(k)
  <2>1. call[k].pc \in Exporting
    BY <1>2 DEF Exporting, export_tmax, export_inc, Locked
  <2>2. call[k].name \in Names /\ call[k].slot \in 1..MaxFuncts
    BY <1>0, <2>1 DEF CallInv
  <2>3. /\ call[k].slot \in 0..MaxFuncts /\ TmaxName(call[k].name) \in Nat
        /\ IncreasedName(call[k].name) \in Nat
    <3>1. call[k].name \in Nat
      BY <2>2, NamesNat
    <3> QED
      BY <2>2, <3>1, Bounds DEF TmaxName, IncreasedName
  <2>4. \E name \in Nat : ParamNew(call[k].id, name, call[k].slot) /\ UNCHANGED <<comps, functs>>
    BY <1>2, <2>3 DEF export_tmax, export_inc
  <2> QED
    BY <2>1, <2>3, <2>4 DEF ParamStep, ParamNew
<1>3. CASE create_tmax(k)
  <2>1. call[k].name \in ThreadNames \cup {0}
    BY <1>0, <1>3 DEF CallInv, Creating, create_tmax, Locked
  <2>2. TmaxName(call[k].name) \in Nat /\ 0 \in 0..MaxFuncts
    <3>1. call[k].name \in Nat
      BY <2>1, ThreadNameNat
    <3> QED
      BY <3>1, Bounds DEF TmaxName
  <2>3. ParamNew(call[k].id, TmaxName(call[k].name), 0) /\ UNCHANGED <<comps, functs>>
    BY <1>3 DEF create_tmax
  <2> QED
    BY <2>2, <2>3 DEF ParamStep, ParamNew
<1>4. CASE \/ \E name \in CompNames : hal_init(k, name)
           \/ \E id \in 1..uuid : hal_ready(k, id) \/ hal_unready(k, id)
           \/ export_insert(k) \/ export_pin(k)
  BY <1>4 DEF hal_init, hal_ready, hal_unready, export_insert, export_pin
<1>5. CASE \/ create_rollback(k) \/ create_start_failed(k) \/ create_insert(k)
           \/ create_comp(k) \/ create_pin(k) \/ create_ready(k)
           \/ delete_thread(k) \/ add_entry(k) \/ del_entry(k) \/ app_exit(k)
  BY <1>5 DEF create_rollback, create_start_failed, create_insert, create_comp, create_pin,
              create_ready, delete_thread, add_entry, del_entry, app_exit
<1> QED
  BY <1>1, <1>2, <1>3, <1>4, <1>5, QuietOrLoud DEF Loud, Exit

\* A caller in hal_export_funct keeps the component and the function it works for.
SlotKept(j) ==
    call'[j].pc \in Exporting =>
        /\ call[j].pc \in Exporting
        /\ call'[j].id = call[j].id /\ call'[j].slot = call[j].slot

\* Only the mutex section of hal_export_funct starts an export.
LEMMA SlotsKept ==
    ASSUME CallsInv, NEW k \in Callers, Step(k), ~(export_insert(k) /\ Exported(k)), NEW j \in Callers
    PROVE  SlotKept(j)
<1>0. call \in [Callers -> CallType]
  BY DEF CallsInv
<1>1. CASE call' = call
  BY <1>1 DEF SlotKept
<1>2. ASSUME NEW r, call' = [call EXCEPT ![k] = r], r.pc \notin Exporting PROVE SlotKept(j)
  BY <1>0, <1>2 DEF SlotKept
<1>3. CASE Return(k)
  <2>1. Idle.pc \notin Exporting
    BY IdleIs DEF Exporting
  <2> QED
    BY <1>2, <1>3, <2>1 DEF Return
<1>4. ASSUME NEW pc, Goto(k, pc), pc \in Exporting => call[k].pc \in Exporting PROVE SlotKept(j)
  <2>1. call' = [call EXCEPT ![k].pc = pc]
    BY <1>4 DEF Goto
  <2>2. CASE j # k
    BY <1>0, <2>1, <2>2 DEF SlotKept
  <2>3. CASE j = k
    <3>1. call'[k].pc = pc /\ call'[k].id = call[k].id /\ call'[k].slot = call[k].slot
      BY <1>0, <2>1 DEF CallType
    <3> QED
      BY <1>4, <2>3, <3>1 DEF SlotKept
  <2> QED
    BY <2>2, <2>3
<1>5. CASE Call(k)
  <2>1. CASE \/ \E name \in CompNames : hal_init(k, name)
             \/ \E id \in 1..uuid : hal_exit(k, id) \/ hal_ready(k, id) \/ hal_unready(k, id)
             \/ \E bits \in LockTypes : hal_set_lock(k, bits)
    BY <1>1, <2>1 DEF hal_init, hal_exit, hal_ready, hal_unready, hal_set_lock
  <2>3. ASSUME NEW thr \in ThreadNames, hal_create_thread(k, thr) PROVE SlotKept(j)
    <3>1. call' = [call EXCEPT ![k] = BeginCreate(thr)]
      BY <2>3 DEF hal_create_thread, BeginCreate
    <3>2. BeginCreate(thr).pc \notin Exporting
      BY IdleIs DEF BeginCreate, CallType, Exporting
    <3> QED
      BY <1>2, <3>1, <3>2
  <2>4. ASSUME NEW thr \in ThreadNames, hal_thread_delete(k, thr) PROVE SlotKept(j)
    <3>1. call' = [call EXCEPT ![k] = BeginDelete(thr)]
      BY <2>4 DEF hal_thread_delete, BeginDelete
    <3>2. BeginDelete(thr).pc \notin Exporting
      BY IdleIs DEF BeginDelete, CallType, Exporting
    <3> QED
      BY <1>2, <3>1, <3>2
  <2>5. ASSUME NEW thr \in ThreadNames, NEW name \in Names, NEW pos \in Positions,
               hal_add_funct_to_thread(k, name, thr, pos)
        PROVE  SlotKept(j)
    <3>1. call' = [call EXCEPT ![k] = BeginAdd(name, thr, pos)]
      BY <2>5 DEF hal_add_funct_to_thread, BeginAdd
    <3>2. BeginAdd(name, thr, pos).pc \notin Exporting
      BY IdleIs DEF BeginAdd, CallType, Exporting
    <3> QED
      BY <1>2, <3>1, <3>2
  <2>6. ASSUME NEW thr \in ThreadNames, NEW name \in Names, hal_del_funct_from_thread(k, name, thr)
        PROVE  SlotKept(j)
    <3>1. call' = [call EXCEPT ![k] = BeginDel(name, thr)]
      BY <2>6 DEF hal_del_funct_from_thread, BeginDel
    <3>2. BeginDel(name, thr).pc \notin Exporting
      BY IdleIs DEF BeginDel, CallType, Exporting
    <3> QED
      BY <1>2, <3>1, <3>2
  <2>7. ASSUME NEW id \in 1..uuid, NEW name \in Names, hal_export_funct(k, id, name) PROVE SlotKept(j)
    <3>1. call' = [call EXCEPT ![k] = BeginExport(id, name)]
      BY <2>7 DEF hal_export_funct, BeginExport
    <3>2. BeginExport(id, name).pc \notin Exporting
      BY IdleIs DEF BeginExport, CallType, Exporting
    <3> QED
      BY <1>2, <3>1, <3>2
  <2>8. CASE hal_start_threads(k) \/ hal_stop_threads(k) \/ hal_app_exit(k)
    <3>1. Goto(k, "start_state") \/ Goto(k, "stop_state") \/ Goto(k, "app_exit")
      BY <2>8 DEF hal_start_threads, hal_stop_threads, hal_app_exit
    <3> QED
      BY <1>4, <3>1 DEF Exporting
  <2> QED
    BY <1>5, <2>1, <2>3, <2>4, <2>5, <2>6, <2>7, <2>8 DEF Call
<1>6. CASE \/ export_insert(k) \/ export_gate(k) \/ export_pin(k) \/ export_zero(k)
           \/ export_tmax(k) \/ export_inc(k)
  <2>1. CASE export_insert(k)
    BY <1>3, <2>1 DEF export_insert, Exported
  <2>2. CASE export_gate(k)
    <3>1. call[k].pc \in Exporting
      BY <2>2 DEF export_gate, Exporting
    <3>2. Return(k) \/ \E pc : Goto(k, pc)
      BY <2>2 DEF export_gate
    <3> QED
      BY <1>3, <1>4, <3>1, <3>2
  <2>3. CASE export_pin(k) \/ export_zero(k) \/ export_tmax(k) \/ export_inc(k)
    <3>1. call[k].pc \in Exporting
      BY <2>3 DEF export_pin, export_zero, export_tmax, export_inc, Locked, At, Exporting
    <3>2. Return(k) \/ \E pc : Goto(k, pc)
      BY <2>3 DEF export_pin, export_zero, export_tmax, export_inc
    <3> QED
      BY <1>3, <1>4, <3>1, <3>2
  <2> QED
    BY <1>6, <2>1, <2>2, <2>3
<1>7. CASE create_insert(k) \/ create_comp(k)
  <2>1. CASE create_insert(k)
    <3>1. call' = [call EXCEPT ![k].pc = "create_comp", ![k].slot = Head(threadFree)]
      BY <2>1 DEF create_insert, alloc_thread_struct
    <3>2. call'[k].pc \notin Exporting /\ \A i \in Callers : i # k => call'[i] = call[i]
      BY <1>0, <3>1 DEF Exporting, CallType
    <3> QED
      BY <3>2 DEF SlotKept
  <2>2. CASE create_comp(k) /\ ~Return(k)
    <3>1. Goto(k, "create_tmax")
      BY <2>2 DEF create_comp
    <3> QED
      BY <1>4, <3>1 DEF Exporting
  <2> QED
    BY <1>3, <1>7, <2>1, <2>2
<1>8. CASE create_gate(k)
  <2>1. CASE ~Return(k)
    <3>1. PastGate[call[k].pc] \in {"create_tmax_locked", "create_pin_locked", "create_ready_locked"}
      BY <1>8 DEF create_gate, PastGate
    <3>2. call'[k].pc = PastGate[call[k].pc] /\ \A i \in Callers : i # k => call'[i] = call[i]
      BY <1>0, <1>8, <2>1 DEF create_gate, CallType
    <3> QED
      BY <3>1, <3>2 DEF SlotKept, Exporting
  <2> QED
    BY <1>3, <2>1
<1>9. CASE create_tmax(k) \/ create_pin(k)
  <2>1. Return(k) \/ Goto(k, "create_pin") \/ Goto(k, "create_ready")
    BY <1>9 DEF create_tmax, create_pin
  <2> QED
    BY <1>3, <1>4, <2>1 DEF Exporting
<1>10. CASE create_refused(k) \/ create_rollback(k) \/ create_start_failed(k) \/ create_ready(k)
  BY <1>3, <1>10 DEF create_refused, create_rollback, create_start_failed, create_ready
<1>11. CASE delete_missing(k) \/ delete_thread(k) \/ add_entry(k) \/ del_entry(k)
            \/ start_state(k) \/ stop_state(k)
  BY <1>3, <1>11 DEF delete_missing, delete_thread, add_entry, del_entry, start_state, stop_state
<1>12. CASE delete_exit(k) \/ app_exit(k)
  <2>1. Goto(k, "delete_exit") \/ Goto(k, "app_exit_unmap")
    BY <1>12 DEF delete_exit, app_exit
  <2> QED
    BY <1>4, <2>1 DEF Exporting
<1>13. CASE app_exit_unmap(k)
  BY <1>1, <1>13 DEF app_exit_unmap
<1> QED
  BY <1>5, <1>6, <1>7, <1>8, <1>9, <1>10, <1>11, <1>12, <1>13 DEF Step, Continue

\* The records in the lists point at records in the lists, for the callers too.
LEMMA OwnersAre ==
    ASSUME OwnersInv
    PROVE  /\ \A f \in Listed(functList) : funct[f].owner \in Listed(compList)
           /\ \A q \in Listed(paramList) : q.owner \in Listed(compList)
           /\ \A q \in Listed(paramList) :
                 q.data # 0 => q.data \in Listed(functList) /\ funct[q.data].owner = q.owner
           /\ \A j \in Callers : call[j].pc \in Exporting =>
                 \A c \in Listed(compList) : comp[c].id = call[j].id =>
                    call[j].slot \in Listed(functList) /\ funct[call[j].slot].owner = c
BY DEF OwnersInv, OwnersListed, ParamsShowLiveFuncts, SlotOwned

\* Nothing but a param is added.
LEMMA OwnersStay ==
    ASSUME CompsInv, FunctsInv, ParamsInv, CallsInv, OwnersInv, NEW k \in Callers, Step(k), ~Exit(k),
           ~(export_insert(k) /\ Exported(k))
    PROVE  OwnersInv'
<1>0. /\ functList' = functList /\ Listed(functList) \subseteq 1..MaxFuncts
      /\ \A f \in 1..MaxFuncts : funct'[f].owner = funct[f].owner
  BY Bounds, ListedDisjoint, FunctsStayStep DEF FunctsStay, FunctsInv
<1>1. /\ Listed(compList) \subseteq Listed(compList')
      /\ \A c \in Listed(compList) : comp'[c].id = comp[c].id
      /\ \A c \in Listed(compList') : c \notin Listed(compList) => comp'[c].id = uuid + 1
  BY CompsGrowStep DEF CompsGrow
<1>2. \A j \in Callers : SlotOwned(j)'
  <2> SUFFICES ASSUME NEW j \in Callers, call'[j].pc \in Exporting,
                      NEW c \in Listed(compList'), comp'[c].id = call'[j].id
               PROVE  call'[j].slot \in Listed(functList) /\ funct'[call'[j].slot].owner = c
    BY <1>0 DEF SlotOwned
  <2>1. call[j].pc \in Exporting /\ call'[j].id = call[j].id /\ call'[j].slot = call[j].slot
    BY SlotsKept DEF SlotKept
  <2>2. call[j].id <= uuid /\ uuid \in Nat /\ call[j].id \in Int
    BY <2>1, Bounds DEF CallsInv, CallInv, CallType
  <2>3. call[j].id # uuid + 1
    BY <2>2
  <2>4. c \in Listed(compList) /\ comp[c].id = call[j].id
    BY <1>1, <2>1, <2>3
  <2>5. call[j].slot \in Listed(functList) /\ funct[call[j].slot].owner = c
    BY <2>1, <2>4, OwnersAre
  <2> QED
    BY <1>0, <2>1, <2>5
<1>3. OwnersListed' /\ ParamsShowLiveFuncts'
  <2>1. \A f \in Listed(functList') : funct'[f].owner \in Listed(compList')
    BY <1>0, <1>1, OwnersAre
  <2>2. CASE UNCHANGED paramList
    <3>1. \A q \in Listed(paramList') : q.owner \in Listed(compList')
      BY <1>1, <2>2, OwnersAre
    <3>2. \A q \in Listed(paramList') :
            q.data # 0 => q.data \in Listed(functList') /\ funct'[q.data].owner = q.owner
      BY <1>0, <2>2, OwnersAre
    <3> QED
      BY <2>1, <3>1, <3>2 DEF OwnersListed, ParamsShowLiveFuncts
  <2>3. ASSUME NEW name, NEW data, ParamStep(k, name, data) PROVE OwnersListed' /\ ParamsShowLiveFuncts'
    <3> DEFINE id == call[k].id
               q == [name |-> name, owner |-> FindComp(id), data |-> data]
    <3>1. /\ name \in Nat /\ data \in 0..MaxFuncts
          /\ ParamAdded(id, name) /\ ParamNew(id, name, data)
          /\ data = 0 \/ (call[k].pc \in Exporting /\ data = call[k].slot)
      BY <2>3 DEF ParamStep
    <3>2. /\ FindComp(id) \in Listed(compList)
          /\ Listed(paramList') = Listed(paramList) \cup {q}
      BY <3>1, ParamLinked
    <3>3. comp[FindComp(id)].id = id
      BY <3>1, FindCompIs DEF ParamAdded, Accepts, CompsInv
    <3>4. q.owner = FindComp(id) /\ q.data = data
      OBVIOUS
    <3> HIDE DEF q
    <3>5. data # 0 => data \in Listed(functList) /\ funct[data].owner = FindComp(id)
      BY <3>1, <3>2, <3>3, OwnersAre
    <3>6. \A p \in Listed(paramList') : p.owner \in Listed(compList')
      BY <1>1, <3>2, <3>4, OwnersAre
    <3>7. \A p \in Listed(paramList) :
            p.data # 0 => p.data \in Listed(functList') /\ funct'[p.data].owner = p.owner
      BY <1>0, OwnersAre
    <3>8. q.data # 0 => q.data \in Listed(functList') /\ funct'[q.data].owner = q.owner
      BY <1>0, <3>4, <3>5
    <3> QED
      BY <2>1, <3>2, <3>6, <3>7, <3>8 DEF OwnersListed, ParamsShowLiveFuncts
  <2> QED
    BY <2>2, <2>3, ParamsStays
<1> QED
  BY <1>2, <1>3 DEF OwnersInv

\* A function is linked.
LEMMA OwnersExported ==
    ASSUME CompsInv, FunctsInv, CallsInv, OwnersInv, NEW k \in Callers, export_insert(k), Exported(k)
    PROVE  OwnersInv'
<1> DEFINE f == Head(functFree)
           c == FindComp(call[k].id)
           rec == NewFunct(call[k].name, c, funct[f].runtime)
<1>0. /\ c \in Listed(compList) /\ comp[c].id = call[k].id
      /\ f \in 1..MaxFuncts /\ f \notin Listed(functList)
      /\ Listed(functList') = Listed(functList) \cup {f}
      /\ rec.owner = c
      /\ funct' = [funct EXCEPT ![f] = rec]
      /\ call' = [call EXCEPT ![k].pc = "export_pin", ![k].slot = f]
  BY FunctLinked
<1>1. UNCHANGED <<comp, compList, paramList>>
  BY DEF export_insert, comps
<1>2. /\ funct \in [1..MaxFuncts -> FunctRec] /\ call \in [Callers -> CallType]
      /\ Listed(functList) \subseteq 1..MaxFuncts
      /\ \A d, e \in Listed(compList) : comp[d].id = comp[e].id => d = e
  BY Bounds, ListedDisjoint DEF FunctsInv, CallsInv, CompsInv
<1> HIDE DEF f, c, rec
<1>3. funct'[f].owner = c /\ \A g \in Listed(functList) : funct'[g] = funct[g]
  BY <1>0, <1>2
<1>4. OwnersListed' /\ ParamsShowLiveFuncts'
  <2>1. \A g \in Listed(functList') : funct'[g].owner \in Listed(compList)
    BY <1>0, <1>3, OwnersAre
  <2>2. \A q \in Listed(paramList) : q.owner \in Listed(compList)
    BY OwnersAre
  <2>3. \A q \in Listed(paramList) :
          q.data # 0 => q.data \in Listed(functList') /\ funct'[q.data].owner = q.owner
    BY <1>0, <1>3, OwnersAre
  <2> QED
    BY <1>1, <2>1, <2>2, <2>3 DEF OwnersListed, ParamsShowLiveFuncts
<1>5. ASSUME NEW j \in Callers PROVE SlotOwned(j)'
  <2>1. CASE j # k
    <3>1. call'[j] = call[j]
      BY <1>0, <1>2, <2>1
    <3> SUFFICES ASSUME call[j].pc \in Exporting, NEW d \in Listed(compList), comp[d].id = call[j].id
                 PROVE  call[j].slot \in Listed(functList') /\ funct'[call[j].slot].owner = d
      BY <1>1, <3>1 DEF SlotOwned
    <3>2. call[j].slot \in Listed(functList) /\ funct[call[j].slot].owner = d
      BY OwnersAre
    <3> QED
      BY <1>0, <1>3, <3>2
  <2>2. CASE j = k
    <3>1. call'[k].id = call[k].id /\ call'[k].slot = f
      BY <1>0, <1>2 DEF CallType
    <3>2. \A d \in Listed(compList) : comp[d].id = call[k].id => d = c
      BY <1>0, <1>2
    <3> QED
      BY <1>0, <1>1, <1>3, <2>2, <3>1, <3>2 DEF SlotOwned
  <2> QED
    BY <2>1, <2>2
<1> QED
  BY <1>4, <1>5 DEF OwnersInv

\* A component leaves with its functions and params.
LEMMA OwnersExit ==
    ASSUME CompsInv, FunctsInv, ParamsInv, CallsInv, OwnersInv, NEW k \in Callers, Exit(k)
    PROVE  OwnersInv'
<1>0. PICK id \in 1..uuid : hal_exit(k, id)
  BY DEF Exit
<1> DEFINE c == FindComp(id)
           gone == {f \in Listed(functList) : funct[f].owner = c}
           out == {q \in Listed(paramList) : q.owner = c}
           r == [FreeComp EXCEPT !.ready = comp[c].ready]
<1>1. /\ c # 0 /\ compList' = Without(compList, {c}) /\ FreeFuncts(gone)
      /\ paramList' = Without(paramList, out) /\ comp' = [comp EXCEPT ![c] = r] /\ call' = call
  BY <1>0 DEF hal_exit, free_comp_struct
<1>2. /\ comp \in [1..MaxComps -> CompRec] /\ ListOK(compList, compFree, MaxComps)
      /\ compList \in Seq(1..MaxComps) /\ Listed(compList) \subseteq 1..MaxComps
      /\ Listed(functList) \subseteq 1..MaxFuncts /\ paramList \in Seq(ParamRec)
  BY Bounds, ListedDisjoint DEF CompsInv, FunctsInv, ParamsInv
<1>3. c \in 1..MaxComps
  BY <1>1, <1>2, FindCompIs
<1>4. gone \subseteq Listed(functList)
  OBVIOUS
<1>5. /\ Listed(functList') = Listed(functList) \ gone
      /\ \A f \in 1..MaxFuncts : funct'[f] = IF f \in gone THEN FreeFunct ELSE funct[f]
  <2> HIDE DEF gone
  <2> QED
    BY <1>1, <1>4, FunctsFreed
<1>6. Listed(compList') = Listed(compList) \ {c} /\ Listed(paramList') = Listed(paramList) \ out
  <2> HIDE DEF out, c
  <2> QED
    BY <1>1, <1>2, ListedWithout
<1>7. /\ \A f \in Listed(functList) : f \in gone <=> funct[f].owner = c
      /\ \A q \in Listed(paramList) : q \in out <=> q.owner = c
  OBVIOUS
<1> HIDE DEF gone, out, c, r
<1>8. \A d \in Listed(compList') : d \in Listed(compList) /\ d # c /\ comp'[d] = comp[d]
  BY <1>1, <1>2, <1>3, <1>6
<1>9. \A f \in Listed(functList) : funct[f].owner # c => f \in Listed(functList') /\ funct'[f] = funct[f]
  BY <1>2, <1>5, <1>7
<1>10. \A f \in Listed(functList') : f \in Listed(functList) /\ funct[f].owner # c
  BY <1>5, <1>7
<1>11. \A q \in Listed(paramList') : q \in Listed(paramList) /\ q.owner # c
  BY <1>6, <1>7
<1>12. OwnersListed' /\ ParamsShowLiveFuncts'
  <2>1. \A f \in Listed(functList') : funct'[f].owner \in Listed(compList')
    BY <1>6, <1>9, <1>10, OwnersAre
  <2>2. \A q \in Listed(paramList') : q.owner \in Listed(compList')
    BY <1>6, <1>11, OwnersAre
  <2>3. \A q \in Listed(paramList') :
          q.data # 0 => q.data \in Listed(functList') /\ funct'[q.data].owner = q.owner
    BY <1>9, <1>11, OwnersAre
  <2> QED
    BY <2>1, <2>2, <2>3 DEF OwnersListed, ParamsShowLiveFuncts
<1>13. ASSUME NEW j \in Callers PROVE SlotOwned(j)'
  <2> SUFFICES ASSUME call[j].pc \in Exporting, NEW d \in Listed(compList'), comp'[d].id = call[j].id
               PROVE  call[j].slot \in Listed(functList') /\ funct'[call[j].slot].owner = d
    BY <1>1 DEF SlotOwned
  <2>1. call[j].slot \in Listed(functList) /\ funct[call[j].slot].owner = d /\ d # c
    BY <1>8, OwnersAre
  <2> QED
    BY <1>9, <2>1
<1> QED
  BY <1>12, <1>13 DEF OwnersInv

\* Every step keeps owner_ptr of functions and params inside the component list.
LEMMA OwnersStep ==
    ASSUME CompsInv, FunctsInv, ParamsInv, CallsInv, OwnersInv, NEW k \in Callers, Step(k)
    PROVE  OwnersInv'
BY OwnersStay, OwnersExported, OwnersExit

------------------------------------------------------------------------------
(* Entries. *)

\* EntriesInv of the entries of the threads T in th, when the functions F are
\* listed and have the records fn.
EntriesOK(th, T, F, fn) ==
    /\ IsFiniteSet(Ent(th, T)) /\ Cardinality(Ent(th, T)) <= MaxEntries
    /\ \A t \in T : Listed(th[t].functs) \subseteq F
    /\ \A f \in 1..MaxFuncts : fn[f].users = Uses(th, f, T)

\* EntriesInv, now and after the step, in terms of EntriesOK.
LEMMA EntriesAre ==
    /\ EntriesInv <=> EntriesOK(thread, Listed(threadList), Listed(functList), funct)
    /\ EntriesInv' <=> EntriesOK(thread', Listed(threadList'), Listed(functList'), funct')
<1>1. /\ EntriesOf(Listed(threadList)) = Ent(thread, Listed(threadList))
      /\ \A f : Cardinality(CallsOf(f, Listed(threadList))) = Uses(thread, f, Listed(threadList))
  BY DEF EntriesOf, CallsOf, Ent, Cal, Uses
<1>2. /\ EntriesOf(Listed(threadList))' = Ent(thread', Listed(threadList'))
      /\ \A f : Cardinality(CallsOf(f, Listed(threadList))') = Uses(thread', f, Listed(threadList'))
  BY DEF EntriesOf, CallsOf, Ent, Cal, Uses
<1> QED
  BY <1>1, <1>2 DEF EntriesInv, EntriesListed, EntriesOK

\* A function has no more entries than there are.
LEMMA UsesFinite ==
    ASSUME NEW T, NEW th, NEW f, IsFiniteSet(Ent(th, T))
    PROVE  /\ Cardinality(Ent(th, T)) \in Nat /\ Uses(th, f, T) \in Nat
           /\ Uses(th, f, T) <= Cardinality(Ent(th, T))
<1>1. /\ Cardinality(Ent(th, T)) \in Nat
      /\ Cardinality(Cal(th, f, T)) \in 0..Cardinality(Ent(th, T))
  BY CalFinite
<1> QED
  BY <1>1 DEF Uses

\* A function that no thread calls has no entries, and the other way round.
LEMMA UsesNone ==
    ASSUME NEW T, NEW th, NEW f, IsFiniteSet(Ent(th, T)), \A t \in T : \E S : th[t].functs \in Seq(S)
    PROVE  Uses(th, f, T) = 0 <=> \A t \in T : f \notin Listed(th[t].functs)
<1>1. \A t \in T : \A i \in DOMAIN th[t].functs : <<t, i>> \in Ent(th, T)
  BY EntIs
<1>2. \A e \in Ent(th, T) : e[1] \in T /\ e[2] \in DOMAIN th[e[1]].functs
  BY EntIs
<1>3. ASSUME Uses(th, f, T) = 0 PROVE \A t \in T : f \notin Listed(th[t].functs)
  <2>1. Cal(th, f, T) = {}
    BY <1>3, CalFinite DEF Uses
  <2> SUFFICES ASSUME NEW t \in T, NEW i \in DOMAIN th[t].functs, th[t].functs[i] = f PROVE FALSE
    BY DEF Listed
  <2>2. <<t, i>> \in Cal(th, f, T)
    BY <1>1 DEF Cal
  <2> QED
    BY <2>1, <2>2
<1>4. ASSUME \A t \in T : f \notin Listed(th[t].functs) PROVE Uses(th, f, T) = 0
  <2>1. Cal(th, f, T) = {}
    BY <1>2, <1>4 DEF Cal, Listed
  <2> QED
    BY <2>1, FS_EmptySet DEF Uses
<1> QED
  BY <1>3, <1>4

\* The function lists of the listed threads.
LEMMA FunctsSeq ==
    ASSUME ThreadsInv
    PROVE  /\ \A t \in Listed(threadList) : thread[t].functs \in Seq(1..MaxFuncts)
           /\ Listed(threadList) \subseteq 1..MaxThreads
<1>0. /\ thread \in [1..MaxThreads -> ThreadRec] /\ Listed(threadList) \subseteq 1..MaxThreads
  BY Bounds, ListedDisjoint DEF ThreadsInv
<1>1. \A t \in 1..MaxThreads : thread[t] \in ThreadRec
  BY <1>0
<1> QED
  BY <1>0, <1>1, ThreadRecIs

\* The same after the step.
LEMMA FunctsSeqNext ==
    ASSUME ThreadsInv'
    PROVE  \A t \in Listed(threadList') : thread'[t].functs \in Seq(1..MaxFuncts)
<1>0. /\ thread' \in [1..MaxThreads -> ThreadRec] /\ Listed(threadList') \subseteq 1..MaxThreads
  BY Bounds, ListedDisjoint DEF ThreadsInv
<1>1. \A t \in 1..MaxThreads : thread'[t] \in ThreadRec
  BY <1>0
<1> QED
  BY <1>0, <1>1, ThreadRecIs

\* The threads keep their entries and the functions their counts.
LEMMA EntriesStay ==
    ASSUME EntriesInv, EntriesKept, Listed(functList) \subseteq Listed(functList'),
           \A f \in 1..MaxFuncts : funct'[f].users = funct[f].users
    PROVE  EntriesInv'
<1> DEFINE L == Listed(threadList)
<1>1. EntriesOK(thread, L, Listed(functList), funct)
  BY EntriesAre
<1>2. threadList' = threadList /\ \A t \in L : thread'[t].functs = thread[t].functs
  BY DEF EntriesKept
<1>3. Ent(thread', L) = Ent(thread, L) /\ \A f : Cal(thread', f, L) = Cal(thread, f, L)
  <2> HIDE DEF L
  <2> QED
    BY <1>2, EntSame
<1>4. EntriesOK(thread', L, Listed(functList'), funct')
  BY <1>1, <1>2, <1>3 DEF EntriesOK, Uses
<1> QED
  BY <1>2, <1>4, EntriesAre

\* A function that is linked has no entries yet.
LEMMA EntriesExported ==
    ASSUME CompsInv, FunctsInv, ThreadsInv, CallsInv, EntriesInv, NEW k \in Callers,
           export_insert(k), Exported(k)
    PROVE  EntriesInv'
<1> DEFINE f == Head(functFree)
           rec == NewFunct(call[k].name, FindComp(call[k].id), funct[f].runtime)
           L == Listed(threadList)
<1>0. /\ f \in 1..MaxFuncts /\ f \notin Listed(functList)
      /\ Listed(functList') = Listed(functList) \cup {f}
      /\ funct' = [funct EXCEPT ![f] = rec] /\ rec.users = 0
  BY FunctLinked
<1> HIDE DEF f, rec
<1>1. funct \in [1..MaxFuncts -> FunctRec] /\ EntriesKept
  BY DEF FunctsInv, export_insert, EntriesKept, threads
<1>2. EntriesOK(thread, L, Listed(functList), funct)
  BY EntriesAre
<1>3. funct[f].users = 0
  <2>1. /\ IsFiniteSet(Ent(thread, L)) /\ funct[f].users = Uses(thread, f, L)
        /\ \A t \in L : f \notin Listed(thread[t].functs)
    BY <1>0, <1>2 DEF EntriesOK
  <2>2. \A t \in L : thread[t].functs \in Seq(1..MaxFuncts)
    BY FunctsSeq
  <2> HIDE DEF L
  <2> QED
    BY <2>1, <2>2, UsesNone
<1>4. \A g \in 1..MaxFuncts : funct'[g].users = funct[g].users
  BY <1>0, <1>1, <1>3
<1> QED
  BY <1>0, <1>1, <1>4, EntriesStay

\* A thread joins.
LEMMA EntriesJoined ==
    ASSUME ThreadsInv, RestInv, CallsInv, EntriesInv, NEW k \in Callers, create_insert(k)
    PROVE  EntriesInv'
<1> DEFINE t == Head(threadFree)
           L == Listed(threadList)
<1>0. /\ Listed(threadList') = L \cup {t} /\ thread'[t].functs = <<>>
      /\ \A u \in L : thread'[u] = thread[u]
  BY ThreadJoins
<1>1. UNCHANGED <<funct, functList>>
  BY DEF create_insert, functs
<1>2. EntriesOK(thread, L, Listed(functList), funct)
  BY EntriesAre
<1> DEFINE M == L \cup {t}
<1>3. Ent(thread', M) = Ent(thread', L) /\ \A f : Cal(thread', f, M) = Cal(thread', f, L)
  <2> HIDE DEF t, L
  <2> QED
    BY <1>0, EntJoined
<1>4. Ent(thread', L) = Ent(thread, L) /\ \A f : Cal(thread', f, L) = Cal(thread, f, L)
  <2> HIDE DEF t, L
  <2> QED
    BY <1>0, EntSame
<1>5. \A u \in M : Listed(thread'[u].functs) \subseteq Listed(functList)
  <2>1. Listed(thread'[t].functs) = {}
    BY <1>0 DEF Listed
  <2>2. \A u \in L : Listed(thread'[u].functs) \subseteq Listed(functList)
    BY <1>0, <1>2 DEF EntriesOK
  <2> HIDE DEF t, L
  <2> QED
    BY <2>1, <2>2
<1> HIDE DEF M
<1>6. EntriesOK(thread', M, Listed(functList), funct)
  BY <1>2, <1>3, <1>4, <1>5 DEF EntriesOK, Uses
<1> QED
  BY <1>0, <1>1, <1>6, EntriesAre DEF M

\* A thread leaves.
LEMMA EntriesLeft ==
    ASSUME FunctsInv, ThreadsInv, EntriesInv, NEW k \in Callers, delete_thread(k)
    PROVE  EntriesInv'
<1> DEFINE t == FindThread(call[k].thr)
           L == Listed(threadList)
           M == L \ {t}
<1>0. t \in L /\ Listed(threadList') = M /\ \A u \in M : thread'[u] = thread[u]
  BY ThreadLeaves
<1>1. funct' = FunctsReleased({t}) /\ functList' = functList /\ DOMAIN funct = 1..MaxFuncts
      /\ funct \in [1..MaxFuncts -> FunctRec]
  BY DEF delete_thread, FunctsInv
<1>2. EntriesOK(thread, L, Listed(functList), funct)
  BY EntriesAre
<1> HIDE DEF t, L
<1>3. /\ IsFiniteSet(Ent(thread, M)) /\ Cardinality(Ent(thread, M)) <= Cardinality(Ent(thread, L))
      /\ \A f : Splits(thread, f, L, t)
  BY <1>0, <1>2, EntLeft DEF EntriesOK
<1>4. Ent(thread', M) = Ent(thread, M) /\ \A f : Cal(thread', f, M) = Cal(thread, f, M)
  <2> HIDE DEF M
  <2> QED
    BY <1>0, EntSame
<1>5. ASSUME NEW f \in 1..MaxFuncts PROVE funct'[f].users = Uses(thread, f, M)
  <2>1. funct'[f].users = funct[f].users - Cardinality(CallsOf(f, {t}))
    BY <1>1 DEF FunctsReleased, FunctRec
  <2>2. CallsOf(f, {t}) = Cal(thread, f, {t})
    BY DEF CallsOf, EntriesOf, Cal, Ent
  <2>3. funct[f].users = Cardinality(Cal(thread, f, L))
    BY <1>2 DEF EntriesOK, Uses
  <2>4. Cardinality(Cal(thread, f, M)) = Cardinality(Cal(thread, f, L)) - Cardinality(Cal(thread, f, {t}))
    BY <1>3 DEF Splits
  <2> QED
    BY <2>1, <2>2, <2>3, <2>4 DEF Uses
<1>6. \A u \in M : Listed(thread'[u].functs) \subseteq Listed(functList)
  BY <1>0, <1>2 DEF EntriesOK
<1>7. Cardinality(Ent(thread, M)) <= MaxEntries
  <2>1. Cardinality(Ent(thread, M)) \in Nat /\ Cardinality(Ent(thread, L)) \in Nat
    BY <1>2, <1>3, UsesFinite DEF EntriesOK
  <2>2. Cardinality(Ent(thread, L)) <= MaxEntries
    BY <1>2 DEF EntriesOK
  <2> QED
    BY <1>3, <2>1, <2>2, Bounds
<1> HIDE DEF M
<1>8. EntriesOK(thread', M, Listed(functList), funct')
  BY <1>3, <1>4, <1>5, <1>6, <1>7 DEF EntriesOK, Uses
<1> QED
  BY <1>0, <1>1, <1>8, EntriesAre

\* All threads leave.
LEMMA EntriesGone ==
    ASSUME FunctsInv, ThreadsInv, EntriesInv, NEW k \in Callers, app_exit(k)
    PROVE  EntriesInv'
<1> DEFINE L == Listed(threadList)
<1>0. Listed(threadList') = {}
  BY ThreadsLeave
<1>1. /\ funct' = FunctsReleased(L) /\ functList' = functList
      /\ funct \in [1..MaxFuncts -> FunctRec]
  BY DEF app_exit, FunctsInv
<1>2. EntriesOK(thread, L, Listed(functList), funct)
  BY EntriesAre
<1> HIDE DEF L
<1>3. /\ IsFiniteSet(Ent(thread', {})) /\ Cardinality(Ent(thread', {})) = 0
      /\ \A f : Uses(thread', f, {}) = 0
  BY EntNone DEF Uses
<1>5. ASSUME NEW f \in 1..MaxFuncts PROVE funct'[f].users = 0
  <2>1. funct'[f].users = funct[f].users - Cardinality(CallsOf(f, L))
    BY <1>1 DEF FunctsReleased, FunctRec
  <2>2. CallsOf(f, L) = Cal(thread, f, L)
    BY DEF CallsOf, EntriesOf, Cal, Ent
  <2>3. funct[f].users = Cardinality(Cal(thread, f, L))
    BY <1>2 DEF EntriesOK, Uses
  <2>4. funct[f].users \in Nat
    BY <1>1 DEF FunctRec
  <2> QED
    BY <2>1, <2>2, <2>3, <2>4
<1>8. EntriesOK(thread', {}, Listed(functList), funct')
  BY <1>3, <1>5, Bounds DEF EntriesOK
<1> QED
  BY <1>0, <1>1, <1>8, EntriesAre

\* The entries of the component's functions leave the threads.
LEMMA EntriesSwept ==
    ASSUME FunctsInv, ThreadsInv, EntriesInv, NEW gone, gone \subseteq Listed(functList),
           FreeFuncts(gone), UNCHANGED <<threadList, threadFree>>
    PROVE  EntriesInv'
<1> DEFINE used == {f \in gone : funct[f].users > 0}
           L == Listed(threadList)
<1>0. \A u \in L : thread'[u].functs = Without(thread[u].functs, used)
  BY ThreadsSwept
<1>1. /\ funct \in [1..MaxFuncts -> FunctRec]
      /\ Listed(functList') = Listed(functList) \ gone
      /\ \A f \in 1..MaxFuncts : funct'[f] = IF f \in gone THEN FreeFunct ELSE funct[f]
      /\ Listed(functList) \subseteq 1..MaxFuncts
  BY FunctsFreed, Bounds, ListedDisjoint DEF FunctsInv
<1>2. EntriesOK(thread, L, Listed(functList), funct)
  BY EntriesAre
<1>3. \A u \in L : thread[u].functs \in Seq(1..MaxFuncts)
  BY FunctsSeq
<1>4. \A f \in 1..MaxFuncts : /\ f \in used <=> f \in gone /\ funct[f].users > 0
                              /\ f \in gone /\ f \notin used => funct[f].users = 0
                              /\ funct[f].users \in Nat
  BY <1>1 DEF FunctRec
<1> HIDE DEF used, L
<1>5. /\ IsFiniteSet(Ent(thread', L)) /\ Cardinality(Ent(thread', L)) <= Cardinality(Ent(thread, L))
      /\ \A f : f \notin used => Uses(thread', f, L) = Uses(thread, f, L)
  <2>1. IsFiniteSet(Ent(thread, L))
    BY <1>2 DEF EntriesOK
  <2>2. Sweeps(1..MaxFuncts, L, thread, thread', used)
    BY <1>0, <1>3, <2>1 DEF Sweeps
  <2> QED
    BY <2>2, EntSwept
<1>6. \A u \in L : /\ thread'[u].functs \in Seq(1..MaxFuncts)
                   /\ Listed(thread'[u].functs) = Listed(thread[u].functs) \ used
  BY <1>0, <1>3, WithoutFacts, ListedWithout
<1>7. \A f \in used : Uses(thread', f, L) = 0
  <2> TAKE f \in used
  <2>1. \A u \in L : f \notin Listed(thread'[u].functs)
    BY <1>6
  <2> QED
    BY <1>5, <1>6, <2>1, UsesNone
<1>8. ASSUME NEW f \in 1..MaxFuncts PROVE funct'[f].users = Uses(thread', f, L)
  <2>0. FreeFunct.users = 0 /\ funct[f].users = Uses(thread, f, L)
    BY <1>2 DEF FreeFunct, EntriesOK
  <2>1. CASE f \in used
    BY <1>1, <1>4, <1>7, <2>0, <2>1
  <2>2. CASE f \in gone /\ f \notin used
    BY <1>1, <1>4, <1>5, <2>0, <2>2
  <2>3. CASE f \notin gone
    BY <1>1, <1>4, <1>5, <2>0, <2>3
  <2> QED
    BY <2>1, <2>2, <2>3
<1>9. \A u \in L : Listed(thread'[u].functs) \subseteq Listed(functList')
  <2> SUFFICES ASSUME NEW u \in L, NEW f \in Listed(thread'[u].functs) PROVE f \notin gone /\ f \in Listed(functList)
    BY <1>1
  <2>1. f \in Listed(thread[u].functs) /\ f \notin used
    BY <1>6
  <2>2. f \in Listed(functList) /\ f \in 1..MaxFuncts
    BY <1>1, <1>2, <2>1 DEF EntriesOK
  <2>3. funct[f].users # 0
    <3>1. IsFiniteSet(Ent(thread, L)) /\ funct[f].users = Uses(thread, f, L)
      BY <1>2, <2>2 DEF EntriesOK
    <3> QED
      BY <1>3, <2>1, <3>1, UsesNone
  <2> QED
    BY <1>4, <2>1, <2>2, <2>3
<1>10. Cardinality(Ent(thread', L)) <= MaxEntries
  <2>1. Cardinality(Ent(thread', L)) \in Nat /\ Cardinality(Ent(thread, L)) \in Nat
    BY <1>2, <1>5, UsesFinite DEF EntriesOK
  <2>2. Cardinality(Ent(thread, L)) <= MaxEntries
    BY <1>2 DEF EntriesOK
  <2> QED
    BY <1>5, <2>1, <2>2, Bounds
<1>11. EntriesOK(thread', L, Listed(functList'), funct')
  BY <1>5, <1>8, <1>9, <1>10 DEF EntriesOK
<1> QED
  BY <1>11, EntriesAre DEF L

\* One list of entries with one more.
LEMMA PutListed ==
    ASSUME NEW S, NEW old \in Seq(S), NEW new \in Seq(S), NEW i, NEW f, Inserted(old, i, f, new)
    PROVE  Listed(new) = Listed(old) \cup {f}
<1>1. i \in 1..Len(new) /\ new[i] = f
  BY DEF Inserted
<1>2. f \in S
  BY <1>1, ListedIs
<1> QED
  BY <1>2, ListedInserted

\* What the threads call when th2 has one entry more than th.
LEMMA EntriesPut ==
    ASSUME NEW L, NEW t, NEW th, NEW th2, NEW i, NEW f, Puts(1..MaxFuncts, L, t, th, th2, i, f)
    PROVE  /\ \A u \in L : Listed(th[u].functs) \subseteq Listed(th2[u].functs)
           /\ \A u \in L : Listed(th2[u].functs) \subseteq Listed(th[u].functs) \cup {f}
<1>0. /\ t \in L /\ Inserted(th[t].functs, i, f, th2[t].functs)
      /\ \A u \in L : u # t => th2[u].functs = th[u].functs
      /\ th[t].functs \in Seq(1..MaxFuncts) /\ th2[t].functs \in Seq(1..MaxFuncts)
  BY DEF Puts
<1>1. Listed(th2[t].functs) = Listed(th[t].functs) \cup {f}
  <2> DEFINE old == th[t].functs
             new == th2[t].functs
  <2>1. old \in Seq(1..MaxFuncts) /\ new \in Seq(1..MaxFuncts) /\ Inserted(old, i, f, new)
    BY <1>0
  <2> HIDE DEF old, new
  <2>2. Listed(new) = Listed(old) \cup {f}
    BY <2>1, PutListed
  <2> QED
    BY <2>2 DEF old, new
<1> QED
  BY <1>0, <1>1

\* hal_add_funct_to_thread counts the entry it adds.
LEMMA EntriesAdded ==
    ASSUME FunctsInv, ThreadsInv, CallsInv, EntriesInv, NEW k \in Callers, add_entry(k), Added(k)
    PROVE  EntriesInv'
<1> DEFINE f == FindFunct(call[k].name)
           t == FindThread(call[k].thr)
           L == Listed(threadList)
<1>0. /\ ThreadsInv' /\ UNCHANGED <<threadList, threadFree>>
      /\ f \in 1..MaxFuncts /\ f \in Listed(functList) /\ t \in L
      /\ Cardinality(EntriesOf(L)) < MaxEntries
      /\ \E i : EntryPut(thread, thread', t, i, f)
      /\ funct' = [funct EXCEPT ![f].users = funct[f].users + 1]
  BY EntryAdded
<1>1. functList' = functList /\ funct \in [1..MaxFuncts -> FunctRec]
  BY DEF add_entry, FunctsInv
<1>2. EntriesOK(thread, L, Listed(functList), funct) /\ EntriesOf(L) = Ent(thread, L)
  BY EntriesAre DEF EntriesOf, Ent
<1>3. /\ \A u \in L : thread[u].functs \in Seq(1..MaxFuncts)
      /\ \A u \in L : thread'[u].functs \in Seq(1..MaxFuncts)
  BY <1>0, FunctsSeq, FunctsSeqNext
<1> HIDE DEF f, t
<1>4. /\ IsFiniteSet(Ent(thread, L)) /\ IsFiniteSet(Ent(thread', L))
      /\ Cardinality(Ent(thread', L)) = Cardinality(Ent(thread, L)) + 1
      /\ Uses(thread', f, L) = Uses(thread, f, L) + 1
      /\ \A g : g # f => Uses(thread', g, L) = Uses(thread, g, L)
      /\ \A u \in L : Listed(thread'[u].functs) \subseteq Listed(thread[u].functs) \cup {f}
  <2>1. PICK i : EntryPut(thread, thread', t, i, f)
    BY <1>0
  <2>2. IsFiniteSet(Ent(thread, L)) /\ t \in L
    BY <1>0, <1>2 DEF EntriesOK
  <2>3. Puts(1..MaxFuncts, L, t, thread, thread', i, f)
    BY <1>3, <2>1, <2>2 DEF EntryPut, Puts
  <2> HIDE DEF L
  <2> QED
    BY <2>3, EntInserted, EntriesPut
<1> HIDE DEF L
<1>5. ASSUME NEW g \in 1..MaxFuncts PROVE funct'[g].users = Uses(thread', g, L)
  <2>1. funct[g].users = Uses(thread, g, L)
    BY <1>2 DEF EntriesOK
  <2>2. CASE g = f
    <3>1. funct'[f].users = funct[f].users + 1
      BY <1>0, <1>1 DEF FunctRec
    <3> QED
      BY <1>4, <2>1, <2>2, <3>1
  <2>3. CASE g # f
    <3>1. funct'[g].users = funct[g].users
      BY <1>0, <1>1, <2>3
    <3> QED
      BY <1>4, <2>1, <2>3, <3>1
  <2> QED
    BY <2>2, <2>3
<1>6. \A u \in L : Listed(thread'[u].functs) \subseteq Listed(functList)
  BY <1>0, <1>2, <1>4 DEF EntriesOK
<1>7. Cardinality(Ent(thread', L)) <= MaxEntries
  <2>1. Cardinality(Ent(thread, L)) \in Nat
    BY <1>4, UsesFinite
  <2> QED
    BY <1>0, <1>2, <1>4, <2>1, Bounds
<1>8. EntriesOK(thread', L, Listed(functList), funct')
  BY <1>4, <1>5, <1>6, <1>7 DEF EntriesOK
<1> QED
  BY <1>0, <1>1, <1>8, EntriesAre DEF L

\* hal_del_funct_from_thread counts the entry it removes.
LEMMA EntriesRemoved ==
    ASSUME FunctsInv, ThreadsInv, EntriesInv, NEW k \in Callers, del_entry(k), Removed(k)
    PROVE  EntriesInv'
<1> DEFINE f == FindFunct(call[k].name)
           t == FindThread(call[k].thr)
           L == Listed(threadList)
<1>0. /\ ThreadsInv' /\ UNCHANGED <<threadList, threadFree>>
      /\ f \in 1..MaxFuncts /\ f \in Listed(functList) /\ t \in L
      /\ \E i : EntryPut(thread', thread, t, i, f)
      /\ funct' = [funct EXCEPT ![f].users = funct[f].users - 1]
  BY EntryRemoved
<1>1. functList' = functList /\ funct \in [1..MaxFuncts -> FunctRec]
  BY DEF del_entry, FunctsInv
<1>2. EntriesOK(thread, L, Listed(functList), funct)
  BY EntriesAre
<1>3. /\ \A u \in L : thread[u].functs \in Seq(1..MaxFuncts)
      /\ \A u \in L : thread'[u].functs \in Seq(1..MaxFuncts)
  BY <1>0, FunctsSeq, FunctsSeqNext
<1> HIDE DEF f, t
<1>4. /\ IsFiniteSet(Ent(thread, L)) /\ IsFiniteSet(Ent(thread', L))
      /\ Cardinality(Ent(thread, L)) = Cardinality(Ent(thread', L)) + 1
      /\ Uses(thread, f, L) = Uses(thread', f, L) + 1
      /\ \A g : g # f => Uses(thread, g, L) = Uses(thread', g, L)
      /\ \A u \in L : Listed(thread'[u].functs) \subseteq Listed(thread[u].functs)
  <2>1. PICK i : EntryPut(thread', thread, t, i, f)
    BY <1>0
  <2>2. IsFiniteSet(Ent(thread, L)) /\ t \in L
    BY <1>0, <1>2 DEF EntriesOK
  <2>3. Puts(1..MaxFuncts, L, t, thread', thread, i, f)
    BY <1>3, <2>1, <2>2 DEF EntryPut, Puts
  <2> HIDE DEF L
  <2> QED
    BY <2>3, EntInserted, EntriesPut
<1> HIDE DEF L
<1>5. ASSUME NEW g \in 1..MaxFuncts PROVE funct'[g].users = Uses(thread', g, L)
  <2>1. funct[g].users = Uses(thread, g, L) /\ Uses(thread', g, L) \in Nat
    BY <1>2, <1>4, UsesFinite DEF EntriesOK
  <2>2. CASE g = f
    <3>1. funct'[f].users = funct[f].users - 1
      BY <1>0, <1>1 DEF FunctRec
    <3> QED
      BY <1>4, <2>1, <2>2, <3>1
  <2>3. CASE g # f
    <3>1. funct'[g].users = funct[g].users
      BY <1>0, <1>1, <2>3
    <3> QED
      BY <1>4, <2>1, <2>3, <3>1
  <2> QED
    BY <2>2, <2>3
<1>6. \A u \in L : Listed(thread'[u].functs) \subseteq Listed(functList)
  BY <1>0, <1>2, <1>4 DEF EntriesOK
<1>7. Cardinality(Ent(thread', L)) <= MaxEntries
  <2>1. Cardinality(Ent(thread', L)) \in Nat /\ Cardinality(Ent(thread, L)) <= MaxEntries
    BY <1>2, <1>4, UsesFinite DEF EntriesOK
  <2> QED
    BY <1>4, <2>1, Bounds
<1>8. EntriesOK(thread', L, Listed(functList), funct')
  BY <1>4, <1>5, <1>6, <1>7 DEF EntriesOK
<1> QED
  BY <1>0, <1>1, <1>8, EntriesAre DEF L

\* Every step keeps users equal to the number of entries.
LEMMA EntriesStep ==
    ASSUME CompsInv, FunctsInv, PinsInv, ThreadsInv, RestInv, CallsInv, EntriesInv,
           NEW k \in Callers, Step(k)
    PROVE  EntriesInv'
<1>0. funct \in [1..MaxFuncts -> FunctRec]
  BY DEF FunctsInv
<1>1. CASE UNCHANGED functs /\ EntriesKept
  BY <1>1, EntriesStay DEF functs
<1>2. CASE Quiet
  BY <1>1, <1>2, ThreadsSame DEF Quiet
<1>3. CASE \/ \E name \in CompNames : hal_init(k, name)
           \/ \E id \in 1..uuid : hal_ready(k, id) \/ hal_unready(k, id)
           \/ export_tmax(k) \/ export_inc(k) \/ create_tmax(k) \/ create_ready(k)
  BY <1>1, <1>3, ThreadsSame DEF hal_init, hal_ready, hal_unready, export_tmax, export_inc,
                                 create_tmax, create_ready
<1>4. CASE export_insert(k)
  <2>1. CASE Exported(k)
    BY <1>4, <2>1, EntriesExported
  <2>2. CASE ~Exported(k)
    BY <1>1, <1>4, <2>2, ThreadsSame DEF export_insert, Exported
  <2> QED
    BY <2>1, <2>2
<1>5. CASE export_pin(k)
  <2>1. /\ functList' = functList /\ UNCHANGED threads
        /\ funct' = [funct EXCEPT ![call[k].slot].runtime = PinAddress(call[k].id, funct[call[k].slot].runtime)]
    BY <1>5 DEF export_pin
  <2>2. \A f \in 1..MaxFuncts : funct'[f].users = funct[f].users
    BY <1>0, <2>1 DEF FunctRec
  <2> QED
    BY <2>1, <2>2, ThreadsSame, EntriesStay
<1>6. CASE \E id \in 1..uuid : hal_exit(k, id)
  <2>1. PICK id \in 1..uuid : hal_exit(k, id)
    BY <1>6
  <2> DEFINE gone == {f \in Listed(functList) : funct[f].owner = FindComp(id)}
  <2>2. gone \subseteq Listed(functList) /\ FreeFuncts(gone) /\ UNCHANGED <<threadList, threadFree>>
    BY <2>1 DEF hal_exit, free_comp_struct
  <2> HIDE DEF gone
  <2> QED
    BY <2>2, EntriesSwept
<1>7. CASE create_rollback(k) \/ create_start_failed(k)
  BY <1>1, <1>7, ThreadRolledBack DEF create_rollback, create_start_failed
<1>8. CASE create_insert(k)
  BY <1>8, EntriesJoined
<1>9. CASE create_comp(k) \/ create_pin(k)
  BY <1>1, <1>9, ThreadWritten DEF create_comp, create_pin
<1>10. CASE delete_thread(k) \/ app_exit(k)
  BY <1>10, EntriesLeft, EntriesGone
<1>11. CASE add_entry(k)
  <2>1. CASE Added(k)
    BY <1>11, <2>1, EntriesAdded
  <2>2. CASE ~Added(k)
    BY <1>1, <1>11, <2>2, ThreadsSame DEF add_entry, Added, threads, functs
  <2> QED
    BY <2>1, <2>2
<1>12. CASE del_entry(k)
  <2>1. CASE Removed(k)
    BY <1>12, <2>1, EntriesRemoved
  <2>2. CASE ~Removed(k)
    BY <1>1, <1>12, <2>2, ThreadsSame DEF del_entry, Removed, threads, functs
  <2> QED
    BY <2>1, <2>2
<1> QED
  BY <1>2, <1>3, <1>4, <1>5, <1>6, <1>7, <1>8, <1>9, <1>10, <1>11, <1>12, QuietOrLoud DEF Loud

------------------------------------------------------------------------------
(* The invariant and the theorems. *)

\* init_hal_data: the empty segment satisfies the invariant.
LEMMA InitInv == Init => RegistryInv
<1> SUFFICES ASSUME Init PROVE RegistryInv
  OBVIOUS
<1>0. /\ \A S : <<>> \in Seq(S) /\ Len(<<>>) = 0 /\ DOMAIN <<>> = {}
      /\ Listed(<<>>) = {}
  BY DEF Listed
<1>1. CompsInv
  <2>1. FreeComp \in CompRec
    <3>1. \A b \in Flag : [id |-> 0, name |-> NoName, ready |-> b] \in CompRec
      BY Bounds DEF CompRec
    <3> QED
      BY <3>1, Flags DEF FreeComp
  <2>2. comp \in [1..MaxComps -> CompRec] /\ compList = <<>> /\ compFree = Upto(MaxComps)
    BY <2>1 DEF Init
  <2> QED
    BY <1>0, <2>2, Bounds, AllFree DEF CompsInv
<1>2. FunctsInv
  <2>1. FreeFunct \in FunctRec
    BY Bounds DEF FreeFunct, FunctRec
  <2>2. funct \in [1..MaxFuncts -> FunctRec] /\ functList = <<>> /\ functFree = Upto(MaxFuncts)
    BY <2>1 DEF Init
  <2>3. Sorted(FunctNames)
    BY <1>0, <2>2 DEF FunctNames, Sorted
  <2> QED
    BY <2>2, <2>3, Bounds, AllFree DEF FunctsInv
<1>3. PinsInv
  <2>1. FreePin \in PinRec
    BY Bounds DEF FreePin, PinRec, NoName
  <2>2. pin \in [1..MaxPins -> PinRec] /\ pinList = <<>> /\ pinFree = Upto(MaxPins)
    BY <2>1 DEF Init
  <2>3. Sorted(PinNames)
    BY <1>0, <2>2 DEF PinNames, Sorted
  <2> QED
    BY <2>2, <2>3, Bounds, AllFree DEF PinsInv
<1>4. ParamsInv
  <2>1. paramList = <<>>
    BY DEF Init
  <2>2. Sorted(ParamNames)
    BY <1>0, <2>1 DEF ParamNames, Sorted
  <2> QED
    BY <1>0, <2>1, <2>2, Bounds DEF ParamsInv
<1>5. ThreadsInv
  <2>1. FreeThread \in ThreadRec
    BY <1>0, Bounds DEF FreeThread, ThreadRec, CompIds
  <2>2. thread \in [1..MaxThreads -> ThreadRec] /\ threadList = <<>> /\ threadFree = Upto(MaxThreads)
    BY <2>1 DEF Init
  <2> QED
    BY <2>2, Bounds, AllFree DEF ThreadsInv
<1>6. RestInv
  BY Bounds DEF Init, RestInv
<1>7. CallsInv
  <2>1. call = [k \in Callers |-> Idle] /\ uuid = 0
    BY DEF Init
  <2>2. \A k \in Callers : call[k] = Idle
    BY <2>1
  <2>3. Pending = {}
    BY <2>2, IdleIs DEF Pending, Taking
  <2>4. Cardinality(Pending) = 0
    BY <2>3, FS_EmptySet
  <2>5. \A k \in Callers : CallInv(k)
    BY <2>1, <2>2, IdleIs DEF CallInv, Exporting, Creating
  <2> QED
    BY <2>1, <2>4, <2>5, IdleIs, Bounds DEF CallsInv
<1>8. OwnersInv
  <2>1. compList = <<>> /\ functList = <<>> /\ paramList = <<>>
    BY DEF Init
  <2> QED
    BY <1>0, <2>1 DEF OwnersInv, OwnersListed, ParamsShowLiveFuncts, SlotOwned
<1>9. EntriesInv
  <2>1. threadList = <<>> /\ \A f \in 1..MaxFuncts : funct[f].users = 0
    BY DEF Init, FreeFunct
  <2>2. EntriesOK(thread, {}, Listed(functList), funct)
    BY <2>1, EntNone, Bounds DEF EntriesOK, Uses
  <2> QED
    BY <1>0, <2>1, <2>2, EntriesAre
<1> QED
  BY <1>1, <1>2, <1>3, <1>4, <1>5, <1>6, <1>7, <1>8, <1>9 DEF RegistryInv

\* A step that changes nothing keeps the invariant.
LEMMA Stutter == RegistryInv /\ UNCHANGED vars => RegistryInv'
<1> SUFFICES ASSUME RegistryInv, UNCHANGED vars PROVE RegistryInv'
  OBVIOUS
<1>1. /\ UNCHANGED <<comp, compList, compFree, funct, functList, functFree, pin, pinList, pinFree>>
      /\ UNCHANGED <<paramList, thread, threadList, threadFree, task, uuid, state, threads_running, call>>
  BY DEF vars, comps, functs, pins, threads, tasks, life
<1>2. CompsInv' /\ FunctsInv' /\ PinsInv' /\ ParamsInv' /\ ThreadsInv' /\ RestInv'
  BY <1>1 DEF RegistryInv, CompsInv, FunctsInv, PinsInv, ParamsInv, ThreadsInv, RestInv, FunctNames,
              PinNames, ParamNames
<1>3. CallsInv'
  BY <1>1 DEF RegistryInv, CallsInv, CallInv, Pending
<1>4. OwnersInv'
  BY <1>1 DEF RegistryInv, OwnersInv, OwnersListed, ParamsShowLiveFuncts, SlotOwned
<1>5. EntriesInv'
  BY <1>1, EntriesAre DEF RegistryInv
<1> QED
  BY <1>2, <1>3, <1>4, <1>5 DEF RegistryInv

\* Every step of every caller keeps the invariant.
LEMMA Inductive == RegistryInv /\ [Next]_vars => RegistryInv'
<1> SUFFICES ASSUME RegistryInv, [Next]_vars PROVE RegistryInv'
  OBVIOUS
<1>1. CASE UNCHANGED vars
  BY <1>1, Stutter
<1>2. ASSUME NEW k \in Callers, Step(k) PROVE RegistryInv'
  <2>0. /\ CompsInv /\ FunctsInv /\ PinsInv /\ ParamsInv /\ ThreadsInv /\ RestInv /\ CallsInv
        /\ OwnersInv /\ EntriesInv
    BY DEF RegistryInv
  <2>1. CompsInv'
    BY <1>2, <2>0, CompsStep
  <2>2. FunctsInv'
    BY <1>2, <2>0, FunctsStep
  <2>3. PinsInv'
    BY <1>2, <2>0, PinsStep
  <2>4. ParamsInv'
    BY <1>2, <2>0, ParamsStep
  <2>5. ThreadsInv'
    BY <1>2, <2>0, ThreadsStep
  <2>6. RestInv'
    BY <1>2, <2>0, RestStep
  <2>7. CallsInv'
    BY <1>2, <2>0, CallsStep
  <2>8. OwnersInv'
    BY <1>2, <2>0, OwnersStep
  <2>9. EntriesInv'
    BY <1>2, <2>0, EntriesStep
  <2> QED
    BY <2>1, <2>2, <2>3, <2>4, <2>5, <2>6, <2>7, <2>8, <2>9 DEF RegistryInv
<1> QED
  BY <1>1, <1>2 DEF Next, Crashed, Step

\* RegistryInv holds in every state that calls into the library reach,
\* whatever the interleaving of their mutex sections.
THEOREM RegistryInvariant == Spec => []RegistryInv
BY InitInv, Inductive, PTL DEF Spec

\* Each structure is linked or on its free list, in one place: the allocators
\* and free functions lose none and free none twice.  And every field is in the
\* range of its C type and of the bounds: users is never negative and never
\* exceeds the entries there can be.
THEOREM RegistryTypes == Spec => []TypeOK
<1>1. RegistryInv => TypeOK
  <2> SUFFICES ASSUME RegistryInv PROVE TypeOK
    OBVIOUS
  <2>1. \A c \in 1..MaxComps : comp[c].id \in 0..MaxIds /\ comp[c].ready \in BOOLEAN
    <3>1. \A c \in 1..MaxComps : comp[c] \in CompRec
      BY DEF RegistryInv, CompsInv
    <3>2. \A r \in CompRec : r.id \in 0..MaxIds /\ r.ready \in Flag
      BY DEF CompRec
    <3> QED
      BY <3>1, <3>2, Zenon DEF Flag
  <2>2. \A f \in 1..MaxFuncts : /\ funct[f].name \in Names \cup {NoName}
                                /\ funct[f].owner \in 0..MaxComps
                                /\ funct[f].users \in 0..MaxEntries
                                /\ funct[f].runtime \in 0..MaxPins
    <3>1. \A f \in 1..MaxFuncts : funct[f] \in FunctRec
      BY DEF RegistryInv, FunctsInv
    <3>2. ASSUME NEW f \in 1..MaxFuncts PROVE funct[f].users \in 0..MaxEntries
      <4>1. /\ IsFiniteSet(Ent(thread, Listed(threadList)))
            /\ Cardinality(Ent(thread, Listed(threadList))) <= MaxEntries
            /\ funct[f].users = Uses(thread, f, Listed(threadList))
        BY EntriesAre DEF RegistryInv, EntriesOK
      <4> QED
        BY <4>1, UsesFinite, Bounds
    <3> QED
      BY <3>1, <3>2 DEF FunctRec
  <2>3. /\ Shared(compList, compFree, MaxComps) /\ Shared(functList, functFree, MaxFuncts)
        /\ Shared(pinList, pinFree, MaxPins) /\ Shared(threadList, threadFree, MaxThreads)
    <3>1. ASSUME NEW N \in Nat, NEW l, NEW f, ListOK(l, f, N) PROVE Shared(l, f, N)
      <4>1. /\ l \in Seq(1..N) /\ f \in Seq(1..N) /\ Distinct(l) /\ Distinct(f)
            /\ Listed(l) \cap Listed(f) = {} /\ Listed(l) \cup Listed(f) = 1..N
        BY <3>1, ListedDisjoint
      <4>2. DOMAIN l = 1..Len(l) /\ DOMAIN f = 1..Len(f)
        BY <4>1
      <4>3. IsInjective(l) /\ IsInjective(f)
        BY <4>1, <4>2 DEF Distinct, IsInjective
      <4> QED
        BY <4>1, <4>3 DEF Shared
    <3> QED
      BY <3>1, Bounds DEF RegistryInv, CompsInv, FunctsInv, PinsInv, ThreadsInv
  <2>4. /\ \A i \in DOMAIN task : task[i] \in 0..MaxThreads
        /\ Len(paramList) <= MaxParams
        /\ state \in {"ACTIVE", "RUNNING", "SHUTTING_DOWN"} /\ threads_running \in {0, 1}
        /\ call \in [Callers -> CallType]
    BY DEF RegistryInv, RestInv, ParamsInv, CallsInv
  <2> QED
    BY <2>1, <2>2, <2>3, <2>4 DEF TypeOK
<1> QED
  BY <1>1, RegistryInvariant, PTL

\* hal_exit leaves no function and no param behind whose owner_ptr points at
\* the freed component structure.
THEOREM OwnersAreListed == Spec => []OwnersListed
<1>1. RegistryInv => OwnersListed
  BY DEF RegistryInv, OwnersInv
<1> QED
  BY <1>1, RegistryInvariant, PTL

\* A param that shows a field of a function never outlives it, although
\* hal_export_funct gives the mutex back between linking the function and
\* creating its params.
THEOREM ParamsShowLive == Spec => []ParamsShowLiveFuncts
<1>1. RegistryInv => ParamsShowLiveFuncts
  BY DEF RegistryInv, OwnersInv
<1> QED
  BY <1>1, RegistryInvariant, PTL

\* users of a function is the number of entries that call it, through
\* hal_add_funct_to_thread, hal_del_funct_from_thread, hal_thread_delete,
\* hal_exit and hal_app_exit.
THEOREM UsersCount == Spec => []UsersCountEntries
<1>1. RegistryInv => UsersCountEntries
  <2>1. ASSUME RegistryInv PROVE Listed(functList) \subseteq 1..MaxFuncts
    BY <2>1, Bounds, ListedDisjoint DEF RegistryInv, FunctsInv
  <2> QED
    BY <2>1 DEF RegistryInv, EntriesInv, UsersCountEntries
<1> QED
  BY <1>1, RegistryInvariant, PTL

\* No thread in the list holds an entry of a function that free_funct_struct
\* has cleared.
THEOREM EntriesAreListed == Spec => []EntriesListed
<1>1. RegistryInv => EntriesListed
  BY DEF RegistryInv, EntriesInv
<1> QED
  BY <1>1, RegistryInvariant, PTL

\* The insertion loops keep the function, pin and param lists strictly ordered
\* by name, so their duplicate test is exact.
THEOREM ListsAreSorted == Spec => []ListsSorted
<1>1. RegistryInv => ListsSorted
  <2> SUFFICES ASSUME RegistryInv PROVE ListsSorted
    OBVIOUS
  <2>1. Sorted(FunctNames) /\ Sorted(PinNames) /\ Sorted(ParamNames)
    BY DEF RegistryInv, FunctsInv, PinsInv, ParamsInv
  <2>2. /\ DOMAIN FunctNames = 1..Len(FunctNames) /\ DOMAIN PinNames = 1..Len(PinNames)
        /\ DOMAIN ParamNames = 1..Len(ParamNames)
    <3>1. /\ DOMAIN functList = 1..Len(functList) /\ DOMAIN pinList = 1..Len(pinList)
          /\ DOMAIN paramList = 1..Len(paramList)
          /\ Len(functList) \in Nat /\ Len(pinList) \in Nat /\ Len(paramList) \in Nat
      BY Bounds, ListedDisjoint DEF RegistryInv, FunctsInv, PinsInv, ParamsInv
    <3> QED
      BY <3>1 DEF FunctNames, PinNames, ParamNames
  <2> QED
    BY <2>1, <2>2 DEF ListsSorted, Sorted
<1> QED
  BY <1>1, RegistryInvariant, PTL

\* What ReadyIsFrozen says of one step.
Frozen ==
    \A c \in Listed(compList) \cap Listed(compList') :
        comp[c].ready /\ comp'[c].ready /\ comp'[c].id = comp[c].id =>
           /\ \A f \in Listed(functList') :
                 funct'[f].owner = c => f \in Listed(functList) /\ funct[f].owner = c
           /\ \A q \in Listed(paramList') : q.owner = c => q \in Listed(paramList)
           /\ \A p \in Listed(pinList') :
                 pin'[p].owner = c => p \in Listed(pinList) /\ pin[p].owner = c

\* A function joins a component only through hal_export_funct, which refuses a
\* ready one.
LEMMA FunctsFrozen ==
    ASSUME CompsInv, FunctsInv, CallsInv, NEW k \in Callers, Step(k), NEW c, comp[c].ready
    PROVE  \A f \in Listed(functList') :
               funct'[f].owner = c => f \in Listed(functList) /\ funct[f].owner = c
<1>0. funct \in [1..MaxFuncts -> FunctRec] /\ Listed(functList) \subseteq 1..MaxFuncts
  BY Bounds, ListedDisjoint DEF FunctsInv
<1>1. CASE Exit(k)
  <2>1. PICK id \in 1..uuid : hal_exit(k, id)
    BY <1>1 DEF Exit
  <2> DEFINE gone == {f \in Listed(functList) : funct[f].owner = FindComp(id)}
  <2>2. FreeFuncts(gone) /\ gone \subseteq Listed(functList)
    BY <2>1 DEF hal_exit, free_comp_struct
  <2> HIDE DEF gone
  <2>3. /\ Listed(functList') = Listed(functList) \ gone
        /\ \A f \in 1..MaxFuncts : funct'[f] = IF f \in gone THEN FreeFunct ELSE funct[f]
    BY <2>2, FunctsFreed
  <2> QED
    BY <1>0, <2>3
<1>2. CASE export_insert(k) /\ Exported(k)
  <2> DEFINE f == Head(functFree)
             d == FindComp(call[k].id)
             rec == NewFunct(call[k].name, d, funct[f].runtime)
  <2>1. /\ ~comp[d].ready /\ f \in 1..MaxFuncts /\ f \notin Listed(functList)
        /\ Listed(functList') = Listed(functList) \cup {f}
        /\ rec.owner = d /\ funct' = [funct EXCEPT ![f] = rec]
    BY <1>2, FunctLinked
  <2> HIDE DEF f, d, rec
  <2>2. funct'[f].owner = d /\ d # c /\ \A g \in Listed(functList) : funct'[g] = funct[g]
    BY <1>0, <2>1
  <2> QED
    BY <2>1, <2>2
<1>3. CASE ~Exit(k) /\ ~(export_insert(k) /\ Exported(k))
  BY <1>0, <1>3, FunctsStayStep DEF FunctsStay
<1> QED
  BY <1>1, <1>2, <1>3

\* The same of hal_param_new.
LEMMA ParamsFrozen ==
    ASSUME CompsInv, ParamsInv, CallsInv, NEW k \in Callers, Step(k), NEW c, comp[c].ready
    PROVE  \A q \in Listed(paramList') : q.owner = c => q \in Listed(paramList)
<1>1. CASE Exit(k)
  <2>1. PICK g : paramList' = Without(paramList, g)
    BY <1>1 DEF Exit, hal_exit, free_comp_struct
  <2>2. paramList \in Seq(ParamRec)
    BY DEF ParamsInv
  <2> QED
    BY <2>1, <2>2, ListedWithout
<1>2. CASE UNCHANGED paramList
  BY <1>2
<1>3. ASSUME NEW name, NEW data, ParamStep(k, name, data)
      PROVE  \A q \in Listed(paramList') : q.owner = c => q \in Listed(paramList)
  <2> DEFINE d == FindComp(call[k].id)
             q == [name |-> name, owner |-> d, data |-> data]
  <2>1. ~comp[d].ready /\ Listed(paramList') = Listed(paramList) \cup {q}
    BY <1>3, ParamLinked DEF ParamStep
  <2>2. q.owner = d
    OBVIOUS
  <2> HIDE DEF d, q
  <2> QED
    BY <2>1, <2>2
<1> QED
  BY <1>1, <1>2, <1>3, ParamsStays

\* The same of hal_pin_new.
LEMMA PinsFrozen ==
    ASSUME CompsInv, PinsInv, CallsInv, NEW k \in Callers, Step(k), NEW c, comp[c].ready
    PROVE  \A p \in Listed(pinList') : pin'[p].owner = c => p \in Listed(pinList) /\ pin[p].owner = c
<1>0. pin \in [1..MaxPins -> PinRec] /\ Listed(pinList) \subseteq 1..MaxPins
  BY Bounds, ListedDisjoint DEF PinsInv
<1>1. CASE UNCHANGED pins
  BY <1>1 DEF pins
<1>2. ASSUME NEW id, NEW name \in Nat, PinNew(id, name), PinAdded(id, name)
      PROVE  \A p \in Listed(pinList') : pin'[p].owner = c => p \in Listed(pinList) /\ pin[p].owner = c
  <2> DEFINE d == FindComp(id)
             x == Head(pinFree)
             r == [name |-> name, owner |-> d]
  <2>1. /\ ~comp[d].ready /\ x \in 1..MaxPins /\ x \notin Listed(pinList)
        /\ Listed(pinList') = Listed(pinList) \cup {x}
        /\ r.owner = d /\ pin' = [pin EXCEPT ![x] = r]
    BY <1>2, PinLinked
  <2> HIDE DEF d, x, r
  <2>2. pin'[x].owner = d /\ d # c /\ \A p \in Listed(pinList) : pin'[p] = pin[p]
    BY <1>0, <2>1
  <2> QED
    BY <2>1, <2>2
<1>3. \A id, name : PinNew(id, name) => PinAdded(id, name) \/ UNCHANGED pins
  BY DEF PinNew
<1> QED
  BY <1>1, <1>2, <1>3, PinsSteps

\* hal_ready freezes a component: while it is and stays ready no function, param
\* or pin joins it, although hal_export_funct and hal_create_thread make several
\* calls, each under the mutex on its own, and hal_ready may come between them.
THEOREM ReadyFreezes == Spec => ReadyIsFrozen
<1>1. RegistryInv /\ [Next]_vars => [Frozen]_vars
  <2> SUFFICES ASSUME RegistryInv, [Next]_vars, ~UNCHANGED vars PROVE Frozen
    OBVIOUS
  <2>1. PICK k \in Callers : Step(k)
    BY DEF Next, Crashed, Step
  <2>2. CompsInv /\ FunctsInv /\ PinsInv /\ ParamsInv /\ CallsInv
    BY DEF RegistryInv
  <2> QED
    BY <2>1, <2>2, FunctsFrozen, ParamsFrozen, PinsFrozen DEF Frozen
<1>2. Spec => [][Frozen]_vars
  BY <1>1, RegistryInvariant, PTL DEF Spec
<1> QED
  BY <1>2 DEF ReadyIsFrozen, Frozen

=============================================================================
