--------------------------- MODULE Graphs_proofs ---------------------------
(* Proofs about the links between nodes (Anchor), for any nodes, any number *)
(* of inputs and outputs and any number of links; and about the graphs that *)
(* contain the nodes (ComputeGraph), for any graphs, nodes, slots and names. *)
EXTENDS Anchor, ComputeGraph, FiniteSetTheorems, SequenceTheorems,
        WellFoundedInduction, TLAPS

-----------------------------------------------------------------------------
(* Counting the occurrences of an element in a sequence. *)

One(x, y) == IF x = y THEN 1 ELSE 0

LEMMA CountType ==
  ASSUME NEW T, NEW s \in Seq(T), NEW x
  PROVE  /\ IsFiniteSet({i \in 1..Len(s) : s[i] = x})
         /\ Count(s, x) \in Nat
         /\ Count(s, x) = 0 <=> ~ \E i \in 1..Len(s) : s[i] = x
  <1> DEFINE I == {i \in 1..Len(s) : s[i] = x}
  <1>1. IsFiniteSet(1..Len(s))
    BY FS_Interval
  <1>2. IsFiniteSet(I)
    BY <1>1, FS_Subset
  <1>3. Cardinality(I) \in Nat /\ (Cardinality(I) = 0 <=> I = {})
    BY <1>2, FS_CardinalityType, FS_EmptySet
  <1> QED
    BY <1>2, <1>3 DEF Count

LEMMA CountEmpty == \A x : Count(<< >>, x) = 0
  BY FS_EmptySet DEF Count

LEMMA CountAppend ==
  ASSUME NEW T, NEW s \in Seq(T), NEW y \in T, NEW x
  PROVE  Count(Append(s, y), x) = Count(s, x) + One(x, y)
  <1> DEFINE r == Append(s, y)
             I == {i \in 1..Len(s) : s[i] = x}
             J == {i \in 1..Len(r) : r[i] = x}
  <1>1. /\ Len(s) \in Nat /\ Len(r) = Len(s) + 1 /\ r[Len(s) + 1] = y
        /\ \A i \in 1..Len(s) : r[i] = s[i]
    OBVIOUS
  <1>2. IsFiniteSet(I) /\ Cardinality(I) \in Nat
    BY CountType, FS_CardinalityType
  <1>c. Count(s, x) = Cardinality(I) /\ Count(r, x) = Cardinality(J)
    BY DEF Count
  <1>3. CASE x = y
    <2>1. J = I \cup {Len(s) + 1} /\ Len(s) + 1 \notin I
      BY <1>1, <1>3
    <2> HIDE DEF I, J
    <2>2. Cardinality(J) = Cardinality(I) + 1
      BY <1>2, <2>1, FS_AddElement
    <2> QED
      BY <1>c, <1>3, <2>2 DEF One
  <1>4. CASE x # y
    <2>1. J = I
      BY <1>1, <1>4
    <2> HIDE DEF I, J
    <2> QED
      BY <1>c, <1>4, <1>2, <2>1 DEF One
  <1> QED
    BY <1>3, <1>4

LEMMA CountReplaceAt ==
  ASSUME NEW T, NEW s \in Seq(T), NEW k \in 1..Len(s), NEW y \in T, NEW x
  PROVE  Count(ReplaceAt(s, k, y), x) = Count(s, x) - One(x, s[k]) + One(x, y)
  <1> DEFINE r == ReplaceAt(s, k, y)
             I == {i \in 1..Len(s) : s[i] = x}
             J == {i \in 1..Len(r) : r[i] = x}
  <1>1. /\ r \in Seq(T) /\ Len(r) = Len(s) /\ r[k] = y
        /\ \A i \in 1..Len(s) : i # k => r[i] = s[i]
    BY DEF ReplaceAt
  <1> HIDE DEF r
  <1>2. IsFiniteSet(I) /\ Cardinality(I) \in Nat
    BY CountType, FS_CardinalityType
  <1>3. IsFiniteSet(I \ {k}) /\ k \notin I \ {k}
    BY <1>2, FS_RemoveElement
  <1>4. Cardinality(I \ {k}) = Cardinality(I) - One(x, s[k])
    <2>1. k \in I <=> x = s[k]
      OBVIOUS
    <2> HIDE DEF I
    <2>2. Cardinality(I \ {k}) = IF k \in I THEN Cardinality(I) - 1 ELSE Cardinality(I)
      BY <1>2, FS_RemoveElement
    <2> QED
      BY <1>2, <2>1, <2>2 DEF One
  <1>5. Cardinality(J) = Cardinality(I \ {k}) + One(x, y)
    <2>1. CASE x = y
      <3>1. J = (I \ {k}) \cup {k}
        BY <1>1, <2>1
      <3> QED
        BY <1>3, <2>1, <3>1, FS_AddElement DEF One
    <2>2. CASE x # y
      <3>1. J = I \ {k}
        BY <1>1, <2>2
      <3> HIDE DEF I, J
      <3>2. Cardinality(I \ {k}) \in Nat
        BY <1>3, FS_CardinalityType
      <3> QED
        BY <2>2, <3>1, <3>2 DEF One
    <2> QED
      BY <2>1, <2>2
  <1>6. Count(r, x) = Cardinality(J) /\ Count(s, x) = Cardinality(I)
    BY DEF Count
  <1>7. Count(r, x) = Count(s, x) - One(x, s[k]) + One(x, y)
    BY <1>4, <1>5, <1>6
  <1> QED
    BY <1>7 DEF r

LEMMA RemoveAtShape ==
  ASSUME NEW T, NEW s \in Seq(T), NEW k \in 1..Len(s)
  PROVE  /\ RemoveAt(s, k) \in Seq(T)
         /\ Len(RemoveAt(s, k)) = Len(s) - 1
         /\ \A i \in 1..(Len(s) - 1) :
              RemoveAt(s, k)[i] = IF i < k THEN s[i] ELSE s[i + 1]
  <1> DEFINE u == SubSeq(s, 1, k - 1)
             v == SubSeq(s, k + 1, Len(s))
  <1>1. /\ u \in Seq(T) /\ Len(u) = k - 1
        /\ \A i \in 1..(k - 1) : u[i] = s[i]
    OBVIOUS
  <1>2. /\ v \in Seq(T) /\ Len(v) = Len(s) - k
        /\ \A i \in 1..(Len(s) - k) : v[i] = s[k + i]
    OBVIOUS
  <1> HIDE DEF u, v
  <1>3. /\ u \o v \in Seq(T) /\ Len(u \o v) = Len(s) - 1
    BY <1>1, <1>2
  <1>4. ASSUME NEW i \in 1..(Len(s) - 1)
        PROVE  (u \o v)[i] = IF i < k THEN s[i] ELSE s[i + 1]
    <2>1. CASE i < k
      BY <1>1, <1>2, <2>1
    <2>2. CASE i >= k
      <3>0. i \in 1..(Len(u) + Len(v)) /\ ~(i <= Len(u)) /\ i - Len(u) = i - (k - 1)
        BY <1>1, <1>2, <2>2
      <3>1. (u \o v)[i] = v[i - (k - 1)]
        <4>1. (u \o v)[i] = v[i - Len(u)]
          BY <1>1, <1>2, <3>0, ConcatProperties
        <4>2. i - Len(u) = i - (k - 1)
          BY <3>0
        <4> QED
          BY <4>1, <4>2
      <3>2. i - (k - 1) \in 1..(Len(s) - k) /\ k + (i - (k - 1)) = i + 1
        BY <2>2
      <3>3. v[i - (k - 1)] = s[k + (i - (k - 1))]
        BY <1>2, <3>2, Zenon
      <3>4. ~(i < k)
        BY <2>2
      <3> QED
        BY <3>1, <3>2, <3>3, <3>4, Zenon
    <2>3. i < k \/ i >= k
      OBVIOUS
    <2> QED
      BY <2>1, <2>2, <2>3
  <1> QED
    BY <1>3, <1>4 DEF RemoveAt, u, v

LEMMA CountRemoveAt ==
  ASSUME NEW T, NEW s \in Seq(T), NEW k \in 1..Len(s), NEW x
  PROVE  Count(RemoveAt(s, k), x) = Count(s, x) - One(x, s[k])
  <1> DEFINE r == RemoveAt(s, k)
             I == {i \in 1..Len(s) : s[i] = x}
             J == {i \in 1..Len(r) : r[i] = x}
             f == [i \in J |-> IF i < k THEN i ELSE i + 1]
  <1>1. /\ r \in Seq(T) /\ Len(r) = Len(s) - 1 /\ Len(s) \in Nat
        /\ \A i \in 1..(Len(s) - 1) : r[i] = IF i < k THEN s[i] ELSE s[i + 1]
    BY RemoveAtShape
  <1> HIDE DEF r
  <1>2. IsFiniteSet(I) /\ Cardinality(I) \in Nat /\ IsFiniteSet(J)
    BY <1>1, CountType, FS_CardinalityType
  <1>3. f \in Bijection(J, I \ {k})
    <2>1. f \in [J -> I \ {k}]
      BY <1>1
    <2>2. \A a, b \in J : f[a] = f[b] => a = b
      BY <1>1
    <2>3. \A c \in I \ {k} : \E a \in J : f[a] = c
      <3> SUFFICES ASSUME NEW c \in I \ {k} PROVE \E a \in J : f[a] = c
        OBVIOUS
      <3>1. CASE c < k
        <4>1. c \in 1..(Len(s) - 1) /\ s[c] = x
          BY <1>1, <3>1
        <4>2. c \in J
          BY <1>1, <3>1, <4>1
        <4>3. f[c] = c
          BY <3>1, <4>2
        <4> QED
          BY <4>2, <4>3
      <3>2. CASE c > k
        <4>1. c - 1 \in 1..(Len(s) - 1) /\ ~(c - 1 < k) /\ (c - 1) + 1 = c /\ s[c] = x
          BY <1>1, <3>2
        <4>2. c - 1 \in J
          BY <1>1, <4>1
        <4>3. f[c - 1] = c
          BY <4>1, <4>2
        <4> QED
          BY <4>2, <4>3
      <3>3. c < k \/ c > k
        BY <1>1
      <3> QED
        BY <3>1, <3>2, <3>3
    <2> HIDE DEF f, I, J
    <2> QED
      BY <2>1, <2>2, <2>3 DEF Bijection, Injection, Surjection, IsInjective
  <1>4. Cardinality(I \ {k}) = Cardinality(J)
    BY <1>2, <1>3, FS_Bijection DEF ExistsBijection
  <1>5. Cardinality(I \ {k}) = Cardinality(I) - One(x, s[k])
    <2>1. k \in I <=> x = s[k]
      OBVIOUS
    <2> HIDE DEF I
    <2>2. Cardinality(I \ {k}) = IF k \in I THEN Cardinality(I) - 1 ELSE Cardinality(I)
      BY <1>2, FS_RemoveElement
    <2> QED
      BY <1>2, <2>1, <2>2 DEF One
  <1>6. Count(r, x) = Cardinality(J) /\ Count(s, x) = Cardinality(I)
    BY DEF Count
  <1>7. Count(r, x) = Count(s, x) - One(x, s[k])
    BY <1>4, <1>5, <1>6
  <1> QED
    BY <1>7 DEF r

(* The position SelectInSeq finds for an element that is there. *)
LEMMA FirstIndexIsIndex ==
  ASSUME NEW T, NEW s \in Seq(T), NEW e, \E i \in 1..Len(s) : s[i] = e
  PROVE  FirstIndex(s, e) \in 1..Len(s) /\ s[FirstIndex(s, e)] = e
  <1> DEFINE I == {i \in 1..Len(s) : s[i] = e}
  <1>1. I # {} /\ I \subseteq Nat
    OBVIOUS
  <1>2. \E m \in I : \A j \in I : m <= j
    <2> HIDE DEF I
    <2> DEFINE R == OpToRel(<, Nat)
    <2>1. IsWellFoundedOn(R, Nat)
      BY NatLessThanWellFounded
    <2>2. R = {ss \in Nat \X Nat : ss[1] < ss[2]}
      BY DEF OpToRel
    <2> HIDE DEF R
    <2>3. PICK m \in I : \A j \in I : ~ (<<j, m>> \in R)
      BY <1>1, <2>1, WFMin
    <2>4. \A j \in I : j < m => <<j, m>> \in R
      <3> SUFFICES ASSUME NEW j \in I, j < m PROVE <<j, m>> \in R
        OBVIOUS
      <3>1. <<j, m>> \in Nat \X Nat /\ <<j, m>>[1] < <<j, m>>[2]
        BY <1>1
      <3> QED
        BY <2>2, <3>1
    <2>5. \A j \in I : j \in Nat /\ m \in Nat /\ ~(j < m)
      BY <1>1, <2>3, <2>4
    <2>6. \A j \in I : m <= j
      BY <2>5
    <2> QED
      BY <2>6
  <1>3. FirstIndex(s, e) = Min(I)
    BY <1>1 DEF FirstIndex, SelectInSeq
  <1>4. Min(I) \in I
    BY <1>2 DEF Min
  <1> QED
    BY <1>3, <1>4

LEMMA CountRemoveFirst ==
  ASSUME NEW T, NEW s \in Seq(T), NEW e, \E i \in 1..Len(s) : s[i] = e
  PROVE  /\ RemoveFirst(s, e) \in Seq(T)
         /\ Len(RemoveFirst(s, e)) = Len(s) - 1
         /\ \A i \in 1..(Len(s) - 1) : \E j \in 1..Len(s) : RemoveFirst(s, e)[i] = s[j]
         /\ \A x : Count(RemoveFirst(s, e), x) = Count(s, x) - One(x, e)
  <1>1. FirstIndex(s, e) \in 1..Len(s) /\ s[FirstIndex(s, e)] = e
    BY FirstIndexIsIndex
  <1>2. RemoveFirst(s, e) = RemoveAt(s, FirstIndex(s, e))
    BY DEF RemoveFirst, FirstIndex
  <1> DEFINE k == FirstIndex(s, e)
             r == RemoveAt(s, k)
  <1> HIDE DEF k, r
  <1>3. k \in 1..Len(s) /\ s[k] = e /\ RemoveFirst(s, e) = r
    BY <1>1, <1>2 DEF k, r
  <1>4. /\ r \in Seq(T) /\ Len(r) = Len(s) - 1
        /\ \A i \in 1..(Len(s) - 1) : r[i] = IF i < k THEN s[i] ELSE s[i + 1]
    BY <1>3, RemoveAtShape DEF r
  <1>5. \A i \in 1..(Len(s) - 1) : \E j \in 1..Len(s) : r[i] = s[j]
    <2> SUFFICES ASSUME NEW i \in 1..(Len(s) - 1)
                 PROVE  \E j \in 1..Len(s) : r[i] = s[j]
      OBVIOUS
    <2>1. i \in 1..Len(s) /\ i + 1 \in 1..Len(s)
      OBVIOUS
    <2> QED
      BY <1>4, <2>1
  <1>6. \A x : Count(r, x) = Count(s, x) - One(x, e)
    BY <1>3, CountRemoveAt DEF r
  <1> QED
    BY <1>3, <1>4, <1>5, <1>6

-----------------------------------------------------------------------------
(* What a peer list is without the anchors of a set: the entries outside it, *)
(* in order.  Erasing a member of the set leaves that as it is.              *)

Less == OpToRel(<, Nat)

LEMMA LeastNumber ==
  ASSUME NEW S, S \subseteq Nat, S # {}
  PROVE  \E x \in S : \A y \in S : x <= y
  <1>1. IsWellFoundedOn(Less, Nat)
    BY NatLessThanWellFounded DEF Less
  <1>2. PICK x \in S : \A y \in S : ~(<<y, x>> \in Less)
    BY <1>1, WFMin
  <1>3. ASSUME NEW y \in S PROVE x <= y
    <2>1. x \in Nat /\ y \in Nat /\ ~(<<y, x>> \in Less)
      BY <1>2
    <2>2. ~(y < x)
      BY <2>1 DEF Less, OpToRel
    <2> QED
      BY <2>1, <2>2
  <1> QED
    BY <1>3

(* f[i] is what is left of the first i entries of s. *)
Rests(f, T, s, S, n) ==
    /\ f \in [0..n -> Seq(T)]
    /\ f[0] = << >>
    /\ \A i \in 1..n : f[i] = IF s[i] \in S THEN f[i - 1] ELSE Append(f[i - 1], s[i])

LEMMA RestsExist ==
  ASSUME NEW T, NEW s \in Seq(T), NEW S
  PROVE  \E f : Rests(f, T, s, S, Len(s))
  <1> DEFINE K == {n \in Nat : n <= Len(s) /\ ~ \E f : Rests(f, T, s, S, n)}
  <1>1. K = {}
    <2> SUFFICES ASSUME K # {} PROVE FALSE
      OBVIOUS
    <2>1. PICK n \in K : \A l \in K : n <= l
      <3>1. K \subseteq Nat
        OBVIOUS
      <3> HIDE DEF K
      <3> QED
        BY <3>1, LeastNumber
    <2>2. n \in Nat /\ n <= Len(s) /\ ~ \E f : Rests(f, T, s, S, n)
      OBVIOUS
    <2>3. n # 0
      <3>1. Rests([i \in 0..0 |-> << >>], T, s, S, 0)
        BY DEF Rests
      <3> QED
        BY <2>2, <3>1
    <2>4. n - 1 \in Nat /\ n - 1 <= Len(s) /\ n - 1 < n
      BY <2>2, <2>3
    <2>5. PICK f : Rests(f, T, s, S, n - 1)
      BY <2>1, <2>4
    <2> HIDE DEF K
    <2> DEFINE last == IF s[n] \in S THEN f[n - 1] ELSE Append(f[n - 1], s[n])
               g == [i \in 0..n |-> IF i = n THEN last ELSE f[i]]
    <2>6. last \in Seq(T)
      <3>1. f[n - 1] \in Seq(T) /\ s[n] \in T
        BY <2>2, <2>3, <2>4, <2>5 DEF Rests
      <3> QED
        BY <3>1
    <2>7. \A i \in 0..n : i = n \/ (i \in 0..(n - 1) /\ f[i] \in Seq(T))
      BY <2>2, <2>4, <2>5 DEF Rests
    <2>8. g \in [0..n -> Seq(T)] /\ g[n] = last /\ \A i \in 0..(n - 1) : g[i] = f[i]
      <3> HIDE DEF last
      <3> QED
        BY <2>2, <2>4, <2>6, <2>7
    <2>9. n - 1 \in 0..(n - 1) /\ 0 \in 0..(n - 1)
      BY <2>4
    <2>10. ASSUME NEW i \in 1..n
           PROVE  g[i] = IF s[i] \in S THEN g[i - 1] ELSE Append(g[i - 1], s[i])
      <3>1. CASE i = n
        BY <2>8, <2>9, <3>1
      <3>2. CASE i # n
        <4>1. i \in 1..(n - 1) /\ i \in 0..(n - 1) /\ i - 1 \in 0..(n - 1)
          BY <2>2, <3>2
        <4>2. f[i] = IF s[i] \in S THEN f[i - 1] ELSE Append(f[i - 1], s[i])
          BY <2>5, <4>1 DEF Rests
        <4>3. g[i] = f[i] /\ g[i - 1] = f[i - 1]
          BY <2>8, <4>1
        <4> QED
          BY <4>2, <4>3
      <3> QED
        BY <3>1, <3>2
    <2>11. g[0] = << >>
      BY <2>5, <2>8, <2>9 DEF Rests
    <2> HIDE DEF g
    <2>12. Rests(g, T, s, S, n)
      BY <2>8, <2>10, <2>11 DEF Rests
    <2> QED
      BY <2>2, <2>12
  <1>2. Len(s) \in Nat /\ Len(s) <= Len(s)
    OBVIOUS
  <1> QED
    BY <1>1, <1>2

LEMMA RestsAreUnique ==
  ASSUME NEW T, NEW s \in Seq(T), NEW S, NEW f, Rests(f, T, s, S, Len(s))
  PROVE  RestOf(s, S) = f[Len(s)]
  <1> DEFINE step(g) == [i \in 0..Len(s) |-> IF i = 0 THEN << >>
                           ELSE IF s[i] \in S THEN g[i - 1] ELSE Append(g[i - 1], s[i])]
             c == CHOOSE g : g = step(g)
  <1>1. f = step(f)
    <2>1. \A i \in 0..Len(s) : i = 0 \/ i \in 1..Len(s)
      OBVIOUS
    <2>2. DOMAIN f = 0..Len(s) /\ f = [i \in 0..Len(s) |-> f[i]]
      BY DEF Rests
    <2>3. \A i \in 0..Len(s) : f[i] = step(f)[i]
      BY <2>1 DEF Rests
    <2> QED
      BY <2>2, <2>3
  <1>2. c = step(c)
    BY <1>1
  <1>3. RestOf(s, S) = c[Len(s)]
    BY DEF RestOf
  <1> HIDE DEF c
  <1>4. /\ c[0] = << >>
        /\ \A i \in 1..Len(s) : c[i] = IF s[i] \in S THEN c[i - 1] ELSE Append(c[i - 1], s[i])
    <2>1. 0 \in 0..Len(s) /\ \A i \in 1..Len(s) : i \in 0..Len(s) /\ i # 0
      OBVIOUS
    <2> QED
      BY <1>2, <2>1
  <1> HIDE DEF step
  <1>5. {n \in 0..Len(s) : c[n] # f[n]} = {}
    <2> DEFINE K == {n \in 0..Len(s) : c[n] # f[n]}
    <2> SUFFICES ASSUME K # {} PROVE FALSE
      OBVIOUS
    <2>1. PICK n \in K : \A l \in K : n <= l
      <3>1. K \subseteq Nat
        OBVIOUS
      <3> HIDE DEF K
      <3> QED
        BY <3>1, LeastNumber
    <2>2. n \in 0..Len(s) /\ c[n] # f[n] /\ n # 0
      BY <1>4 DEF Rests
    <2>3. n \in 1..Len(s) /\ n - 1 \in 0..Len(s) /\ n - 1 < n
      BY <2>2
    <2>4. c[n - 1] = f[n - 1]
      BY <2>1, <2>3
    <2>5. f[n] = IF s[n] \in S THEN f[n - 1] ELSE Append(f[n - 1], s[n])
      BY <2>3 DEF Rests
    <2> QED
      BY <1>4, <2>2, <2>3, <2>4, <2>5
  <1> QED
    BY <1>3, <1>5

(* A list without entries in the set is its own rest. *)
LEMMA RestOfOthers ==
  ASSUME NEW T, NEW s \in Seq(T), NEW S, \A i \in 1..Len(s) : s[i] \notin S
  PROVE  RestOf(s, S) = s
  <1> DEFINE f == [i \in 0..Len(s) |-> SubSeq(s, 1, i)]
  <1>1. \A i \in 0..Len(s) : SubSeq(s, 1, i) \in Seq(T) /\ Len(SubSeq(s, 1, i)) = i
                             /\ \A j \in 1..i : SubSeq(s, 1, i)[j] = s[j]
    OBVIOUS
  <1>2. f[0] = << >>
    <2>1. 0 \in 0..Len(s) /\ Len(SubSeq(s, 1, 0)) = 0 /\ SubSeq(s, 1, 0) \in Seq(T)
      BY <1>1
    <2> QED
      BY <2>1, EmptySeq
  <1>3. ASSUME NEW i \in 1..Len(s) PROVE f[i] = Append(f[i - 1], s[i])
    <2> DEFINE t == SubSeq(s, 1, i - 1)
               u == SubSeq(s, 1, i)
    <2>1. i \in Nat /\ i - 1 \in Nat /\ i \in 0..Len(s) /\ i - 1 \in 0..Len(s) /\ s[i] \in T
      OBVIOUS
    <2>2. t \in Seq(T) /\ Len(t) = i - 1 /\ \A j \in 1..(i - 1) : t[j] = s[j]
      BY <1>1, <2>1
    <2>3. u \in Seq(T) /\ Len(u) = i /\ \A j \in 1..i : u[j] = s[j]
      BY <1>1, <2>1
    <2>4. f[i] = u /\ f[i - 1] = t
      BY <2>1
    <2> HIDE DEF t, u, f
    <2>5. Append(t, s[i]) \in Seq(T) /\ Len(Append(t, s[i])) = i
          /\ \A j \in 1..(i - 1) : Append(t, s[i])[j] = s[j]
          /\ Append(t, s[i])[i] = s[i]
      BY <2>1, <2>2, AppendProperties
    <2>6. \A j \in 1..i : j \in 1..(i - 1) \/ j = i
      OBVIOUS
    <2>7. \A j \in 1..i : u[j] = Append(t, s[i])[j]
      BY <2>3, <2>5, <2>6
    <2> QED
      BY <2>1, <2>3, <2>4, <2>5, <2>7, SeqEqual
  <1>4. f \in [0..Len(s) -> Seq(T)] /\ f[Len(s)] = s
    <2>1. Len(s) \in 0..Len(s) /\ SubSeq(s, 1, Len(s)) = s
      OBVIOUS
    <2> QED
      BY <1>1, <2>1
  <1> HIDE DEF f
  <1>5. Rests(f, T, s, S, Len(s))
    BY <1>2, <1>3, <1>4 DEF Rests
  <1> QED
    BY <1>4, <1>5, RestsAreUnique

(* Erasing an entry that is in the set leaves the rest as it is. *)
LEMMA RestOfErased ==
  ASSUME NEW T, NEW s \in Seq(T), NEW S, NEW k \in 1..Len(s), s[k] \in S
  PROVE  RestOf(RemoveAt(s, k), S) = RestOf(s, S)
  <1> DEFINE r == RemoveAt(s, k)
  <1>1. /\ r \in Seq(T) /\ Len(r) = Len(s) - 1 /\ Len(s) \in Nat /\ k \in Nat
        /\ \A i \in 1..(Len(s) - 1) : r[i] = IF i < k THEN s[i] ELSE s[i + 1]
    <2>1. Len(s) \in Nat /\ k \in Nat
      OBVIOUS
    <2>2. /\ r \in Seq(T) /\ Len(r) = Len(s) - 1
          /\ \A i \in 1..(Len(s) - 1) : r[i] = IF i < k THEN s[i] ELSE s[i + 1]
      BY RemoveAtShape, Zenon
    <2> QED
      BY <2>1, <2>2, Zenon
  <1> HIDE DEF r
  <1>2. PICK f : Rests(f, T, s, S, Len(s))
    BY RestsExist
  <1> DEFINE g == [i \in 0..Len(r) |-> IF i < k THEN f[i] ELSE f[i + 1]]
  <1>3. /\ \A i \in 0..Len(r) : i \in 0..Len(s) /\ i + 1 \in 0..Len(s)
        /\ \A i \in 0..Len(s) : f[i] \in Seq(T)
    <2>1. \A i \in 0..Len(s) : f[i] \in Seq(T)
      BY <1>2 DEF Rests
    <2>2. \A i \in 0..(Len(s) - 1) : i \in 0..Len(s) /\ i + 1 \in 0..Len(s)
      OBVIOUS
    <2> QED
      BY <1>1, <2>1, <2>2
  <1>4. g \in [0..Len(r) -> Seq(T)]
    BY <1>3
  <1>5. \A i \in 0..Len(r) : g[i] = IF i < k THEN f[i] ELSE f[i + 1]
    OBVIOUS
  <1>6. 0 \in 0..Len(r) /\ 0 < k /\ Len(r) \in 0..Len(r)
    BY <1>1
  <1> HIDE DEF g
  <1>7. g[0] = << >>
    BY <1>2, <1>5, <1>6 DEF Rests
  <1>8. f[k] = f[k - 1]
    BY <1>2 DEF Rests
  <1>9. ASSUME NEW i \in 1..Len(r)
        PROVE  g[i] = IF r[i] \in S THEN g[i - 1] ELSE Append(g[i - 1], r[i])
    <2>1. i \in 0..Len(r) /\ i - 1 \in 0..Len(r) /\ i \in 1..(Len(s) - 1)
      BY <1>1
    <2>2. CASE i < k
      <3>1. i \in 1..Len(s) /\ i - 1 < k
        BY <1>1, <2>2
      <3>2. f[i] = IF s[i] \in S THEN f[i - 1] ELSE Append(f[i - 1], s[i])
        BY <1>2, <3>1 DEF Rests
      <3> QED
        BY <1>1, <1>5, <2>1, <2>2, <3>1, <3>2
    <2>3. CASE i = k
      <3>1. i + 1 \in 1..Len(s) /\ i - 1 < k /\ ~(i < k) /\ (i + 1) - 1 = i
        BY <1>1, <2>1, <2>3
      <3>2. f[i + 1] = IF s[i + 1] \in S THEN f[i] ELSE Append(f[i], s[i + 1])
        BY <1>2, <3>1 DEF Rests
      <3>3. g[i] = f[i + 1] /\ g[i - 1] = f[i] /\ r[i] = s[i + 1]
        BY <1>1, <1>5, <1>8, <2>1, <2>3, <3>1
      <3> QED
        BY <3>2, <3>3
    <2>4. CASE i > k
      <3>1. i + 1 \in 1..Len(s) /\ ~(i - 1 < k) /\ ~(i < k) /\ (i + 1) - 1 = i /\ (i - 1) + 1 = i
        BY <1>1, <2>1, <2>4
      <3>2. f[i + 1] = IF s[i + 1] \in S THEN f[i] ELSE Append(f[i], s[i + 1])
        BY <1>2, <3>1 DEF Rests
      <3>3. g[i] = f[i + 1] /\ g[i - 1] = f[i] /\ r[i] = s[i + 1]
        BY <1>1, <1>5, <2>1, <3>1
      <3> QED
        BY <3>2, <3>3
    <2> QED
      BY <1>1, <2>1, <2>2, <2>3, <2>4
  <1>10. Rests(g, T, r, S, Len(r))
    BY <1>4, <1>7, <1>9 DEF Rests
  <1>11. RestOf(r, S) = g[Len(r)] /\ RestOf(s, S) = f[Len(s)]
    BY <1>1, <1>2, <1>10, RestsAreUnique
  <1>12. g[Len(r)] = f[Len(s)]
    <2>1. CASE Len(r) < k
      <3>1. k = Len(s) /\ Len(r) = k - 1
        BY <1>1, <2>1
      <3> QED
        BY <1>5, <1>6, <1>8, <2>1, <3>1
    <2>2. CASE ~(Len(r) < k)
      <3>1. Len(r) + 1 = Len(s)
        BY <1>1
      <3> QED
        BY <1>5, <1>6, <2>2, <3>1
    <2> QED
      BY <2>1, <2>2
  <1> QED
    BY <1>11, <1>12 DEF r

LEMMA RestOfErasedFirst ==
  ASSUME NEW T, NEW s \in Seq(T), NEW S, NEW e \in S, \E i \in 1..Len(s) : s[i] = e
  PROVE  RestOf(RemoveFirst(s, e), S) = RestOf(s, S)
  <1> DEFINE k == FirstIndex(s, e)
  <1>1. k \in 1..Len(s) /\ s[k] = e
    BY FirstIndexIsIndex
  <1>2. RemoveFirst(s, e) = RemoveAt(s, k)
    BY DEF RemoveFirst, FirstIndex
  <1> HIDE DEF k
  <1> QED
    BY <1>1, <1>2, RestOfErased

-----------------------------------------------------------------------------
(* A peer list changes one anchor at a time; what each change does to the   *)
(* counts is all that the invariants need.                                  *)

Links(p)     == p \in [Anchors -> Seq(Anchors)]
Both(P, Q)   == IF P /\ Q THEN 1 ELSE 0

(* An anchor is an input or an output, never both. *)
LEMMA Sides ==
  /\ Anchors = InAnchors \cup OutAnchors
  /\ InAnchors \cap OutAnchors = {}
  BY DEF Anchors, InAnchors, OutAnchors, InDataAnchors, OutDataAnchors,
         InDataAnchor, OutDataAnchor, InControlAnchor, OutControlAnchor

LEMMA PeersOKByCount ==
  ASSUME NEW p, Links(p)
  PROVE  PeersOK(p) <=> \A a, b \in Anchors : Count(p[a], b) # 0 =>
                          \/ a \in OutAnchors /\ b \in InAnchors
                          \/ a \in InAnchors /\ b \in OutAnchors
  <1>1. ASSUME NEW a \in Anchors, NEW b \in Anchors
        PROVE  Count(p[a], b) # 0 <=> \E i \in 1..Len(p[a]) : p[a][i] = b
    <2>1. p[a] \in Seq(Anchors)
      BY DEF Links
    <2> QED
      BY <2>1, CountType
  <1>2. \A a \in Anchors : \A i \in 1..Len(p[a]) : p[a][i] \in Anchors
    BY DEF Links
  <1>3. ASSUME PeersOK(p), NEW a \in Anchors, NEW b \in Anchors, Count(p[a], b) # 0
        PROVE  \/ a \in OutAnchors /\ b \in InAnchors
               \/ a \in InAnchors /\ b \in OutAnchors
    <2>1. PICK i \in 1..Len(p[a]) : p[a][i] = b
      BY <1>1, <1>3
    <2> QED
      BY <1>3, <2>1 DEF PeersOK
  <1>4. ASSUME \A a, b \in Anchors : Count(p[a], b) # 0 =>
                 \/ a \in OutAnchors /\ b \in InAnchors
                 \/ a \in InAnchors /\ b \in OutAnchors,
               NEW a \in Anchors, NEW i \in 1..Len(p[a])
        PROVE  \/ a \in OutAnchors /\ p[a][i] \in InAnchors
               \/ a \in InAnchors /\ p[a][i] \in OutAnchors
    <2>1. p[a][i] \in Anchors
      BY <1>2
    <2>2. Count(p[a], p[a][i]) # 0
      BY <1>1, <2>1
    <2> QED
      BY <1>4, <2>1, <2>2
  <1>5. PeersOK(p) <=> \A a \in Anchors : \A i \in 1..Len(p[a]) :
          \/ a \in OutAnchors /\ p[a][i] \in InAnchors
          \/ a \in InAnchors /\ p[a][i] \in OutAnchors
    BY DEF PeersOK, Links
  <1> QED
    BY <1>3, <1>4, <1>5

LEMMA CountAt ==
  ASSUME NEW p, Links(p), NEW a \in Anchors, NEW b
  PROVE  Count(p[a], b) \in Nat
  <1>1. p[a] \in Seq(Anchors)
    BY DEF Links
  <1> QED
    BY <1>1, CountType

LEMMA StageAppend ==
  ASSUME NEW p, Links(p), NEW x \in Anchors, NEW y \in Anchors
  PROVE  LET q == [p EXCEPT ![x] = Append(@, y)] IN
         /\ Links(q)
         /\ \A a, b \in Anchors :
              Count(q[a], b) = Count(p[a], b) + Both(a = x, b = y)
  <1> DEFINE q == [p EXCEPT ![x] = Append(@, y)]
  <1>1. Links(q) /\ q[x] = Append(p[x], y) /\ p[x] \in Seq(Anchors)
    BY DEF Links
  <1>2. ASSUME NEW a \in Anchors, NEW b \in Anchors
        PROVE  Count(q[a], b) = Count(p[a], b) + Both(a = x, b = y)
    <2>1. Count(p[a], b) \in Nat
      BY CountAt
    <2>2. CASE a = x
      <3>1. Count(q[x], b) = Count(p[x], b) + One(b, y)
        BY <1>1, CountAppend
      <3> QED
        BY <2>2, <3>1 DEF One, Both
    <2>3. CASE a # x
      <3>1. q[a] = p[a]
        BY <2>3 DEF Links
      <3> QED
        BY <2>1, <2>3, <3>1 DEF Both
    <2> QED
      BY <2>2, <2>3
  <1> QED
    BY <1>1, <1>2

LEMMA StageRemove ==
  ASSUME NEW p, Links(p), NEW x \in Anchors, NEW y \in Anchors,
         IsLinkedWith(p, x, y)
  PROVE  LET q == [p EXCEPT ![x] = RemoveFirst(@, y)] IN
         /\ Links(q)
         /\ \A a, b \in Anchors :
              Count(q[a], b) = Count(p[a], b) - Both(a = x, b = y)
  <1> DEFINE q == [p EXCEPT ![x] = RemoveFirst(@, y)]
  <1>0. p[x] \in Seq(Anchors) /\ \E i \in 1..Len(p[x]) : p[x][i] = y
    BY DEF Links, IsLinkedWith, Contains
  <1>r. /\ RemoveFirst(p[x], y) \in Seq(Anchors)
        /\ \A b : Count(RemoveFirst(p[x], y), b) = Count(p[x], b) - One(b, y)
    BY <1>0, CountRemoveFirst
  <1>1. Links(q) /\ q[x] = RemoveFirst(p[x], y)
    BY <1>r DEF Links
  <1>2. ASSUME NEW a \in Anchors, NEW b \in Anchors
        PROVE  Count(q[a], b) = Count(p[a], b) - Both(a = x, b = y)
    <2>1. Count(p[a], b) \in Nat
      BY CountAt
    <2>2. CASE a = x
      BY <2>2, <1>1, <1>r DEF One, Both
    <2>3. CASE a # x
      <3>1. q[a] = p[a]
        BY <2>3 DEF Links
      <3> QED
        BY <2>1, <2>3, <3>1 DEF Both
    <2> QED
      BY <2>2, <2>3
  <1> QED
    BY <1>1, <1>2

LEMMA StageReplace ==
  ASSUME NEW p, Links(p), NEW x \in Anchors, NEW y \in Anchors, NEW z \in Anchors,
         IsLinkedWith(p, x, y)
  PROVE  LET q == [p EXCEPT ![x] = ReplaceAt(@, FirstIndex(@, y), z)] IN
         /\ Links(q)
         /\ \A a, b \in Anchors :
              Count(q[a], b) = Count(p[a], b) - Both(a = x, b = y) + Both(a = x, b = z)
  <1> DEFINE k == FirstIndex(p[x], y)
             q == [p EXCEPT ![x] = ReplaceAt(@, FirstIndex(@, y), z)]
  <1>0. p[x] \in Seq(Anchors) /\ \E i \in 1..Len(p[x]) : p[x][i] = y
    BY DEF Links, IsLinkedWith, Contains
  <1>k. k \in 1..Len(p[x]) /\ p[x][k] = y
    BY <1>0, FirstIndexIsIndex
  <1> HIDE DEF k
  <1>r. /\ ReplaceAt(p[x], k, z) \in Seq(Anchors)
        /\ \A b : Count(ReplaceAt(p[x], k, z), b) = Count(p[x], b) - One(b, y) + One(b, z)
    <2>1. ReplaceAt(p[x], k, z) \in Seq(Anchors)
      BY <1>0, <1>k DEF ReplaceAt
    <2> QED
      BY <2>1, <1>0, <1>k, CountReplaceAt
  <1>1. Links(q) /\ q[x] = ReplaceAt(p[x], k, z)
    BY <1>r DEF Links, k
  <1>2. ASSUME NEW a \in Anchors, NEW b \in Anchors
        PROVE  Count(q[a], b) = Count(p[a], b) - Both(a = x, b = y) + Both(a = x, b = z)
    <2>1. Count(p[a], b) \in Nat
      BY CountAt
    <2>2. CASE a = x
      BY <2>2, <1>1, <1>r DEF One, Both
    <2>3. CASE a # x
      <3>1. q[a] = p[a]
        BY <2>3 DEF Links
      <3> QED
        BY <2>1, <2>3, <3>1 DEF Both
    <2> QED
      BY <2>2, <2>3
  <1> QED
    BY <1>1, <1>2

-----------------------------------------------------------------------------
(* The methods of Anchor keep the two copies of every link in step. *)

Sound(p) == PeersOK(p) /\ Mutual(p)

LEMMA SoundLinks == ASSUME NEW p, Sound(p) PROVE Links(p)
  BY DEF Sound, PeersOK, Links

LEMMA LinkSound ==
  ASSUME NEW p, Sound(p), NEW src \in OutAnchors, NEW dst \in InAnchors
  PROVE  Sound(Link(p, src, dst))
  <1> DEFINE q == [p EXCEPT ![src] = Append(@, dst)]
             r == [q EXCEPT ![dst] = Append(@, src)]
  <1>0. Links(p) /\ src \in Anchors /\ dst \in Anchors /\ src # dst
    BY Sides, SoundLinks
  <1>1. /\ Links(q)
        /\ \A a, b \in Anchors : Count(q[a], b) = Count(p[a], b) + Both(a = src, b = dst)
    BY <1>0, StageAppend
  <1>3. Link(p, src, dst) = r
    BY <1>0 DEF Link, Links
  <1> HIDE DEF q
  <1>2. /\ Links(r)
        /\ \A a, b \in Anchors : Count(r[a], b) = Count(q[a], b) + Both(a = dst, b = src)
    <2>1. Links(q) /\ src \in Anchors /\ dst \in Anchors
      BY <1>0, <1>1
    <2> QED
      BY <2>1, StageAppend
  <1> HIDE DEF r
  <1>4. \A a, b \in Anchors : Count(p[a], b) \in Nat
    BY <1>0, CountAt
  <1>5. Mutual(r)
    <2> SUFFICES ASSUME NEW a \in Anchors, NEW b \in Anchors
                 PROVE  Count(r[a], b) = Count(r[b], a)
      BY DEF Mutual
    <2>1. Count(p[a], b) = Count(p[b], a)
      BY DEF Sound, Mutual
    <2> QED
      BY <1>1, <1>2, <1>4, <2>1 DEF Both
  <1>6. PeersOK(r)
    <2> SUFFICES ASSUME NEW a \in Anchors, NEW b \in Anchors, Count(r[a], b) # 0
                 PROVE  \/ a \in OutAnchors /\ b \in InAnchors
                        \/ a \in InAnchors /\ b \in OutAnchors
      BY <1>2, PeersOKByCount
    <2>1. CASE Count(p[a], b) # 0
      BY <1>0, <2>1, PeersOKByCount DEF Sound
    <2>2. CASE Count(p[a], b) = 0
      <3>1. \/ a = src /\ b = dst
            \/ a = dst /\ b = src
        BY <1>1, <1>2, <1>4, <2>2 DEF Both
      <3> QED
        BY <3>1
    <2> QED
      BY <2>1, <2>2
  <1> QED
    BY <1>3, <1>5, <1>6 DEF Sound

LEMMA UnlinkSound ==
  ASSUME NEW p, Sound(p), NEW x \in Anchors, NEW y \in Anchors
  PROVE  Sound(Unlink(p, x, y))
  <1>1. CASE ~CanUnlink(p, x, y)
    BY <1>1 DEF Unlink
  <1>2. CASE CanUnlink(p, x, y)
    <2> DEFINE q == [p EXCEPT ![x] = RemoveFirst(@, y)]
               r == [q EXCEPT ![y] = RemoveFirst(@, x)]
    <2>0. Links(p) /\ IsLinkedWith(p, x, y) /\ IsLinkedWith(p, y, x)
      BY <1>2, SoundLinks DEF CanUnlink
    <2>4. \A a, b \in Anchors : Count(p[a], b) \in Nat
      BY <2>0, CountAt
    <2>n. x # y
      <3>1. Count(p[x], y) # 0
        <4>1. p[x] \in Seq(Anchors)
          BY <2>0 DEF Links
        <4> QED
          BY <2>0, <4>1, CountType DEF IsLinkedWith, Contains
      <3> QED
        BY <2>0, <3>1, Sides, PeersOKByCount DEF Sound
    <2>1. /\ Links(q)
          /\ \A a, b \in Anchors : Count(q[a], b) = Count(p[a], b) - Both(a = x, b = y)
      BY <2>0, StageRemove
    <2>i. IsLinkedWith(q, y, x)
      BY <2>0, <2>n DEF IsLinkedWith, Links
    <2>3. Unlink(p, x, y) = r
      BY <1>2, <2>0, <2>n DEF Unlink, Links
    <2> HIDE DEF q
    <2>2. /\ Links(r)
          /\ \A a, b \in Anchors : Count(r[a], b) = Count(q[a], b) - Both(a = y, b = x)
      BY <2>1, <2>i, StageRemove
    <2> HIDE DEF r
    <2>5. Mutual(r)
      BY <2>1, <2>2, <2>4 DEF Both, Sound, Mutual
    <2>6. PeersOK(r)
      <3> SUFFICES ASSUME NEW a \in Anchors, NEW b \in Anchors, Count(r[a], b) # 0
                   PROVE  \/ a \in OutAnchors /\ b \in InAnchors
                          \/ a \in InAnchors /\ b \in OutAnchors
        BY <2>2, PeersOKByCount
      <3>1. Count(p[a], b) # 0
        <4>1. Count(r[a], b) \in Nat
          BY <2>2, CountAt
        <4> QED
          BY <4>1, <2>1, <2>2, <2>4 DEF Both
      <3> QED
        BY <2>0, <3>1, PeersOKByCount DEF Sound
    <2> QED
      BY <2>3, <2>5, <2>6 DEF Sound
  <1> QED
    BY <1>1, <1>2

LEMMA ReplacePeerSound ==
  ASSUME NEW p, Sound(p),
         NEW this \in OutAnchors, NEW old \in InAnchors,
         NEW first \in InAnchors, NEW second \in OutAnchors, first # old
  PROVE  Sound(ReplacePeer(p, this, old, first, second))
  <1>1. CASE ~CanUnlink(p, this, old)
    BY <1>1 DEF ReplacePeer
  <1>2. CASE CanUnlink(p, this, old)
    <2> DEFINE p1 == [p  EXCEPT ![this] = ReplaceAt(@, FirstIndex(@, old), first)]
               p2 == [p1 EXCEPT ![first] = Append(@, this)]
               p3 == [p2 EXCEPT ![old] = ReplaceAt(@, FirstIndex(@, this), second)]
               p4 == [p3 EXCEPT ![second] = Append(@, old)]
    <2>0. /\ Links(p) /\ IsLinkedWith(p, this, old) /\ IsLinkedWith(p, old, this)
          /\ this \in Anchors /\ old \in Anchors /\ first \in Anchors /\ second \in Anchors
          /\ this # old /\ this # first /\ second # old /\ second # first
      BY <1>2, Sides, SoundLinks DEF CanUnlink
    <2>1. /\ Links(p1)
          /\ \A a, b \in Anchors : Count(p1[a], b) =
               Count(p[a], b) - Both(a = this, b = old) + Both(a = this, b = first)
      BY <2>0, StageReplace
    <2>5. ReplacePeer(p, this, old, first, second) = p4
      BY <1>2 DEF ReplacePeer
    <2>j. p1[old] = p[old]
      BY <2>0 DEF Links
    <2> HIDE DEF p1
    <2>2. /\ Links(p2)
          /\ \A a, b \in Anchors : Count(p2[a], b) = Count(p1[a], b) + Both(a = first, b = this)
      BY <2>0, <2>1, StageAppend
    <2>i. IsLinkedWith(p2, old, this)
      BY <2>0, <2>1, <2>j DEF IsLinkedWith, Links
    <2> HIDE DEF p2
    <2>3. /\ Links(p3)
          /\ \A a, b \in Anchors : Count(p3[a], b) =
               Count(p2[a], b) - Both(a = old, b = this) + Both(a = old, b = second)
      BY <2>0, <2>2, <2>i, StageReplace
    <2> HIDE DEF p3
    <2>4. /\ Links(p4)
          /\ \A a, b \in Anchors : Count(p4[a], b) = Count(p3[a], b) + Both(a = second, b = old)
      BY <2>0, <2>3, StageAppend
    <2> HIDE DEF p4
    <2>6. \A a, b \in Anchors : Count(p[a], b) \in Nat
      BY <2>0, CountAt
    <2>7. \A a, b \in Anchors : Count(p4[a], b) =
            Count(p[a], b) - Both(a = this, b = old) + Both(a = this, b = first)
              + Both(a = first, b = this) - Both(a = old, b = this)
              + Both(a = old, b = second) + Both(a = second, b = old)
      <3> SUFFICES ASSUME NEW a \in Anchors, NEW b \in Anchors
                   PROVE  Count(p4[a], b) =
                            Count(p[a], b) - Both(a = this, b = old) + Both(a = this, b = first)
                              + Both(a = first, b = this) - Both(a = old, b = this)
                              + Both(a = old, b = second) + Both(a = second, b = old)
        OBVIOUS
      <3>1. /\ Count(p[a], b) \in Nat
            /\ Count(p1[a], b) =
                 Count(p[a], b) - Both(a = this, b = old) + Both(a = this, b = first)
            /\ Count(p2[a], b) = Count(p1[a], b) + Both(a = first, b = this)
            /\ Count(p3[a], b) =
                 Count(p2[a], b) - Both(a = old, b = this) + Both(a = old, b = second)
            /\ Count(p4[a], b) = Count(p3[a], b) + Both(a = second, b = old)
        BY <2>1, <2>2, <2>3, <2>4, <2>6
      <3> QED
        BY <3>1 DEF Both
    <2>8. Mutual(p4)
      <3> SUFFICES ASSUME NEW a \in Anchors, NEW b \in Anchors
                   PROVE  Count(p4[a], b) = Count(p4[b], a)
        BY DEF Mutual
      <3>1. Count(p[a], b) = Count(p[b], a)
        BY DEF Sound, Mutual
      <3> QED
        BY <2>6, <2>7, <3>1 DEF Both
    <2>9. PeersOK(p4)
      <3> SUFFICES ASSUME NEW a \in Anchors, NEW b \in Anchors, Count(p4[a], b) # 0
                   PROVE  \/ a \in OutAnchors /\ b \in InAnchors
                          \/ a \in InAnchors /\ b \in OutAnchors
        BY <2>4, PeersOKByCount
      <3>1. CASE Count(p[a], b) # 0
        BY <2>0, <3>1, PeersOKByCount DEF Sound
      <3>2. CASE Count(p[a], b) = 0
        <4>1. Count(p4[a], b) \in Nat
          BY <2>4, CountAt
        <4>2. \/ a = this /\ b = first
              \/ a = first /\ b = this
              \/ a = old /\ b = second
              \/ a = second /\ b = old
          BY <4>1, <3>2, <2>7 DEF Both
        <4> QED
          BY <4>2
      <3> QED
        BY <3>1, <3>2
    <2> QED
      BY <2>5, <2>8, <2>9 DEF Sound
  <1> QED
    BY <1>1, <1>2

LEMMA LinkToSound ==
  ASSUME NEW p, Sound(p), NEW src \in OutAnchors, NEW dst \in InAnchors
  PROVE  Sound(LinkTo(p, src, dst))
  BY LinkSound DEF LinkTo

-----------------------------------------------------------------------------
Inv == Sound(peers) /\ todo \in Seq(Anchors)

LEMMA InitInv == Init => Inv
  <1> SUFFICES ASSUME Init PROVE Inv
    OBVIOUS
  <1>1. Links(peers) /\ todo \in Seq(Anchors)
    BY DEF Init, Links
  <1>2. \A a, b \in Anchors : Count(peers[a], b) = 0
    BY CountEmpty DEF Init
  <1> QED
    BY <1>1, <1>2, PeersOKByCount DEF Inv, Sound, Mutual

(* The anchors the actions name are anchors of the right side. *)
LEMMA NodeAnchors ==
  /\ InDataAnchors \subseteq InAnchors
  /\ OutDataAnchors \subseteq OutAnchors
  /\ \A n \in Nodes : InControlAnchor(n) \in InAnchors /\ OutControlAnchor(n) \in OutAnchors
  /\ \A n \in Nodes : InNum[n] > 0 => InDataAnchor(n, 0) \in InDataAnchors
  /\ \A n \in Nodes : OutNum[n] > 0 => OutDataAnchor(n, 0) \in OutDataAnchors
  <1>1. \A n \in Nodes : InNum[n] > 0 => 0 \in 0..(InNum[n] - 1)
    BY NodesAssumption
  <1>2. \A n \in Nodes : OutNum[n] > 0 => 0 \in 0..(OutNum[n] - 1)
    BY NodesAssumption
  <1> QED
    BY <1>1, <1>2 DEF InAnchors, OutAnchors, InDataAnchors, OutDataAnchors

(* The anchors that ~Node unlinks, one after the other. *)
LEMMA DyingAnchors ==
  ASSUME NEW n \in Nodes
  PROVE  [i \in 1..InNum[n] |-> InDataAnchor(n, i - 1)]
           \o [i \in 1..OutNum[n] |-> OutDataAnchor(n, i - 1)]
           \o <<InControlAnchor(n), OutControlAnchor(n)>> \in Seq(Anchors)
  <1>1. [i \in 1..InNum[n] |-> InDataAnchor(n, i - 1)] \in Seq(Anchors)
    <2>1. InNum[n] \in Nat
      BY NodesAssumption
    <2>2. \A i \in 1..InNum[n] : i - 1 \in 0..(InNum[n] - 1)
      BY <2>1
    <2>3. \A i \in 1..InNum[n] : InDataAnchor(n, i - 1) \in Anchors
      BY <2>2 DEF Anchors, InAnchors, InDataAnchors
    <2> QED
      BY <2>1, <2>3
  <1>2. [i \in 1..OutNum[n] |-> OutDataAnchor(n, i - 1)] \in Seq(Anchors)
    <2>1. OutNum[n] \in Nat
      BY NodesAssumption
    <2>2. \A i \in 1..OutNum[n] : i - 1 \in 0..(OutNum[n] - 1)
      BY <2>1
    <2>3. \A i \in 1..OutNum[n] : OutDataAnchor(n, i - 1) \in Anchors
      BY <2>2 DEF Anchors, OutAnchors, OutDataAnchors
    <2> QED
      BY <2>1, <2>3
  <1>3. <<InControlAnchor(n), OutControlAnchor(n)>> \in Seq(Anchors)
    BY NodeAnchors, Sides
  <1> QED
    BY <1>1, <1>2, <1>3, ConcatProperties

LEMMA NextInv == Inv /\ [Next]_vars => Inv'
  <1> SUFFICES ASSUME Inv, [Next]_vars PROVE Inv'
    OBVIOUS
  <1> USE DEF Inv
  <1>1. ASSUME NEW src \in OutAnchors, NEW dst \in InAnchors, AddEdge(src, dst)
        PROVE  Inv'
    BY <1>1, LinkToSound DEF AddEdge, Idle
  <1>2. ASSUME NEW a \in Anchors, NEW b \in Anchors, RemoveEdge(a, b)
        PROVE  Inv'
    BY <1>2, UnlinkSound DEF RemoveEdge, Idle
  <1>3. ASSUME NEW src \in OutAnchors, NEW dst \in InAnchors, NEW new_dst \in InAnchors,
               ReplaceEdgeDst(src, dst, new_dst)
        PROVE  Inv'
    <2>1. Sound(Unlink(peers, src, dst))
      BY UnlinkSound, Sides
    <2>2. Sound(LinkTo(Unlink(peers, src, dst), src, new_dst))
      BY <2>1, LinkToSound
    <2> QED
      BY <1>3, <2>2 DEF ReplaceEdgeDst, Idle
  <1>4. ASSUME NEW src \in OutDataAnchors, NEW dst \in InDataAnchors, NEW n \in Nodes,
               InsertNodeBetweenDataAnchors(src, dst, n)
        PROVE  Inv'
    <2>1. /\ src \in OutAnchors /\ dst \in InAnchors
          /\ InDataAnchor(n, 0) \in InAnchors /\ OutDataAnchor(n, 0) \in OutAnchors
          /\ InDataAnchor(n, 0) # dst
      BY <1>4, NodeAnchors DEF InsertNodeBetweenDataAnchors
    <2> QED
      BY <1>4, <2>1, ReplacePeerSound DEF InsertNodeBetweenDataAnchors, Idle
  <1>5. ASSUME NEW a \in Anchors, UnlinkAll(a) PROVE Inv'
    BY <1>5 DEF UnlinkAll, Begin
  <1>6. ASSUME NEW n \in Nodes, DestroyNode(n) PROVE Inv'
    BY <1>6, DyingAnchors DEF DestroyNode, Begin
  <1>7. CASE UnlinkRound
    <2>1. Head(todo) \in Anchors /\ Tail(todo) \in Seq(Anchors)
      BY <1>7 DEF UnlinkRound
    <2>2. CASE peers[Head(todo)] = << >>
      BY <1>7, <2>1, <2>2 DEF UnlinkRound
    <2>3. CASE peers[Head(todo)] # << >>
      <3>1. peers[Head(todo)] \in Seq(Anchors)
        BY <2>1 DEF Sound, PeersOK
      <3>2. Head(peers[Head(todo)]) \in Anchors
        BY <2>3, <3>1
      <3>3. Sound(Unlink(peers, Head(todo), Head(peers[Head(todo)])))
        BY <2>1, <3>2, UnlinkSound
      <3> QED
        BY <1>7, <2>3, <3>3 DEF UnlinkRound
    <2> QED
      BY <2>2, <2>3
  <1>8. CASE UNCHANGED vars
    BY <1>8 DEF vars
  <1> QED
    BY <1>1, <1>2, <1>3, <1>4, <1>5, <1>6, <1>7, <1>8, Sides, NodeAnchors DEF Next

LEMMA InvAlways == Spec => []Inv
  BY InitInv, NextInv, PTL DEF Spec

(* Links join outputs to inputs, in every graph. *)
THEOREM TypeCorrect == Spec => []TypeOK
  <1>1. Inv => TypeOK
    BY DEF Inv, Sound, TypeOK
  <1> QED
    BY <1>1, InvAlways, PTL

(* The two ends of every link agree on how often they are linked, whatever   *)
(* sequence of AddEdge, RemoveEdge, ReplaceEdgeDst, InsertNodeBetween-       *)
(* DataAnchors, UnlinkAll and ~Node led there.                               *)
THEOREM LinksAreMutualAlways == Spec => []LinksAreMutual
  <1>1. Inv => LinksAreMutual
    BY DEF Inv, Sound, LinksAreMutual
  <1> QED
    BY <1>1, InvAlways, PTL

(* Hence the loop in Anchor::UnlinkAll makes progress in every round. *)
THEOREM UnlinkAlwaysSucceedsAlways == Spec => []UnlinkAlwaysSucceeds
  <1>1. Inv => UnlinkAlwaysSucceeds
    <2> SUFFICES ASSUME Inv, todo # << >>, peers[Head(todo)] # << >>
                 PROVE  CanUnlink(peers, Head(todo), Head(peers[Head(todo)]))
      BY DEF UnlinkAlwaysSucceeds
    <2> DEFINE a == Head(todo)
               b == Head(peers[a])
    <2>1. a \in Anchors
      BY DEF Inv
    <2>2. peers[a] \in Seq(Anchors)
      BY <2>1 DEF Inv, Sound, PeersOK
    <2>3. b \in Anchors /\ 1 \in 1..Len(peers[a]) /\ peers[a][1] = b
      BY <2>2
    <2>4. peers[b] \in Seq(Anchors)
      BY <2>3 DEF Inv, Sound, PeersOK
    <2> HIDE DEF a, b
    <2>5. Count(peers[a], b) # 0
      BY <2>2, <2>3, CountType
    <2>6. Count(peers[b], a) # 0
      BY <2>1, <2>3, <2>5 DEF Inv, Sound, Mutual
    <2>7. \E i \in 1..Len(peers[b]) : peers[b][i] = a
      BY <2>4, <2>6, CountType
    <2>8. CanUnlink(peers, a, b)
      BY <2>3, <2>7 DEF CanUnlink, IsLinkedWith, Contains
    <2> QED
      BY <2>8 DEF a, b
  <1> QED
    BY <1>1, InvAlways, PTL

-----------------------------------------------------------------------------
(* UnlinkAll and ~Node take out the links of their anchors and no other.  While *)
(* the loop runs, an anchor it has left has no peers, and the list of any other *)
(* anchor, without the anchors being unlinked, is what it was at the beginning. *)
UnlinkingOK ==
    /\ unlinking \subseteq Anchors
    /\ DOMAIN before = Anchors
    /\ \A i \in 1..Len(todo) : todo[i] \in unlinking
    /\ \A a \in unlinking : peers[a] = << >> \/ \E i \in 1..Len(todo) : todo[i] = a
    /\ \A a \in Anchors \ unlinking : RestOf(peers[a], unlinking) = RestOf(before[a], unlinking)

UInv == todo # << >> => UnlinkingOK

(* A sequence that is not empty consists of its head and its tail. *)
LEMMA HeadAndTail ==
  ASSUME NEW T, NEW s \in Seq(T), s # << >>
  PROVE  /\ Head(s) \in T /\ Tail(s) \in Seq(T) /\ 1 \in 1..Len(s) /\ s[1] = Head(s)
         /\ \A i \in 1..Len(Tail(s)) : i + 1 \in 1..Len(s) /\ Tail(s)[i] = s[i + 1]
         /\ \A i \in 1..Len(s) : s[i] = Head(s) \/ \E j \in 1..Len(Tail(s)) : Tail(s)[j] = s[i]
  <1>1. Len(s) \in Nat /\ Len(s) > 0 /\ Len(Tail(s)) = Len(s) - 1
    OBVIOUS
  <1>2. \A i \in 1..Len(Tail(s)) : i + 1 \in 1..Len(s) /\ Tail(s)[i] = s[i + 1]
    BY <1>1
  <1>3. Head(s) \in T /\ Tail(s) \in Seq(T) /\ 1 \in 1..Len(s) /\ s[1] = Head(s)
    BY <1>1
  <1>4. ASSUME NEW i \in 1..Len(s), s[i] # Head(s)
        PROVE  \E j \in 1..Len(Tail(s)) : Tail(s)[j] = s[i]
    <2>1. i # 1
      BY <1>3, <1>4
    <2>2. i - 1 \in 1..Len(Tail(s)) /\ (i - 1) + 1 = i
      BY <1>1, <2>1
    <2>3. Tail(s)[i - 1] = s[i]
      BY <1>2, <2>2
    <2> QED
      BY <2>2, <2>3
  <1> QED
    BY <1>2, <1>3, <1>4

(* What one Unlink of the loop leaves of the other lists. *)
LEMMA UnlinkLeaves ==
  ASSUME NEW p, Sound(p), NEW S \in SUBSET Anchors, NEW a \in S, NEW b \in Anchors
  PROVE  /\ \A c \in Anchors : p[c] = << >> => Unlink(p, a, b)[c] = << >>
         /\ \A c \in Anchors \ S : RestOf(Unlink(p, a, b)[c], S) = RestOf(p[c], S)
  <1>1. CASE ~CanUnlink(p, a, b)
    BY <1>1 DEF Unlink
  <1>2. CASE CanUnlink(p, a, b)
    <2>1. /\ Links(p) /\ a \in Anchors
          /\ \E i \in 1..Len(p[a]) : p[a][i] = b
          /\ \E i \in 1..Len(p[b]) : p[b][i] = a
      BY <1>2, SoundLinks DEF CanUnlink, IsLinkedWith, Contains
    <2>2. p[a] # << >> /\ p[b] # << >> /\ p[b] \in Seq(Anchors)
      BY <2>1 DEF Links
    <2>3. \A c \in Anchors : c # a /\ c # b => Unlink(p, a, b)[c] = p[c]
      BY <1>2, <2>1 DEF Unlink, Links
    <2>4. b # a => Unlink(p, a, b)[b] = RemoveFirst(p[b], a)
      BY <1>2, <2>1 DEF Unlink, Links
    <2>5. RestOf(RemoveFirst(p[b], a), S) = RestOf(p[b], S)
      BY <2>1, <2>2, RestOfErasedFirst
    <2> QED
      BY <2>2, <2>3, <2>4, <2>5
  <1> QED
    BY <1>1, <1>2

LEMMA UBegin ==
  ASSUME Inv, NEW anchors \in Seq(Anchors), Begin(anchors)
  PROVE  UInv'
  <1>1. /\ todo' = anchors /\ before' = peers /\ peers' = peers
        /\ unlinking' = {anchors[i] : i \in 1..Len(anchors)}
    BY DEF Begin
  <1>2. unlinking' \subseteq Anchors /\ \A i \in 1..Len(todo') : todo'[i] \in unlinking'
    BY <1>1
  <1>3. \A a \in unlinking' : \E i \in 1..Len(todo') : todo'[i] = a
    BY <1>1
  <1>4. DOMAIN before' = Anchors
    BY <1>1 DEF Inv, Sound, PeersOK
  <1> QED
    BY <1>1, <1>2, <1>3, <1>4 DEF UInv, UnlinkingOK

LEMMA URound ==
  ASSUME Inv, UInv, UnlinkRound
  PROVE  /\ UInv'
         /\ todo' = << >> => peers' = Without(before, unlinking)
  <1> DEFINE a == Head(todo)
  <1>0. todo # << >> /\ UnlinkingOK /\ todo \in Seq(Anchors)
    BY DEF UnlinkRound, UInv, Inv
  <1>1. /\ a \in Anchors /\ Tail(todo) \in Seq(Anchors) /\ a \in unlinking
        /\ \A i \in 1..Len(Tail(todo)) : Tail(todo)[i] \in unlinking
        /\ \A i \in 1..Len(todo) : todo[i] = a \/ \E j \in 1..Len(Tail(todo)) : Tail(todo)[j] = todo[i]
    <2>1. /\ Head(todo) \in Anchors /\ Tail(todo) \in Seq(Anchors) /\ 1 \in 1..Len(todo) /\ todo[1] = Head(todo)
          /\ \A i \in 1..Len(Tail(todo)) : i + 1 \in 1..Len(todo) /\ Tail(todo)[i] = todo[i + 1]
          /\ \A i \in 1..Len(todo) : todo[i] = Head(todo) \/ \E j \in 1..Len(Tail(todo)) : Tail(todo)[j] = todo[i]
      BY <1>0, HeadAndTail
    <2> QED
      BY <1>0, <2>1 DEF UnlinkingOK
  <1>2. peers[a] \in Seq(Anchors)
    BY <1>1 DEF Inv, Sound, PeersOK
  <1>3. CASE peers[a] = << >>
    <2>1. todo' = Tail(todo) /\ peers' = peers
          /\ (Tail(todo) # << >> => before' = before /\ unlinking' = unlinking)
      BY <1>3 DEF UnlinkRound
    <2>2. ASSUME NEW c \in unlinking PROVE peers[c] = << >> \/ \E j \in 1..Len(Tail(todo)) : Tail(todo)[j] = c
      BY <1>0, <1>1, <1>3 DEF UnlinkingOK
    <2>3. CASE Tail(todo) # << >>
      <3>1. UnlinkingOK'
        BY <1>0, <1>1, <2>1, <2>2, <2>3 DEF UnlinkingOK
      <3> QED
        BY <2>1, <2>3, <3>1 DEF UInv
    <2>4. CASE Tail(todo) = << >>
      <3>1. \A c \in unlinking : peers[c] = << >>
        BY <2>2, <2>4
      <3>2. ASSUME NEW c \in Anchors \ unlinking PROVE peers[c] = RestOf(before[c], unlinking)
        <4>1. peers[c] \in Seq(Anchors)
          BY DEF Inv, Sound, PeersOK
        <4>2. ASSUME NEW i \in 1..Len(peers[c]), peers[c][i] \in unlinking PROVE FALSE
          <5> DEFINE d == peers[c][i]
          <5>1. d \in Anchors /\ d \in unlinking
            BY <1>0, <4>2 DEF UnlinkingOK
          <5> HIDE DEF d
          <5>2. Count(peers[c], d) # 0
            BY <4>1, CountType DEF d
          <5>3. Count(peers[d], c) # 0
            BY <5>1, <5>2 DEF Inv, Sound, Mutual
          <5> QED
            BY <3>1, <5>1, <5>3, CountEmpty
        <4>3. RestOf(peers[c], unlinking) = peers[c]
          BY <4>1, <4>2, RestOfOthers
        <4> QED
          BY <1>0, <4>3 DEF UnlinkingOK
      <3>3. \A c \in Anchors : peers[c] = IF c \in unlinking THEN << >> ELSE RestOf(before[c], unlinking)
        BY <3>1, <3>2
      <3>4. peers = [c \in Anchors |-> peers[c]]
        BY DEF Inv, Sound, PeersOK
      <3>5. Without(before, unlinking)
              = [c \in Anchors |-> IF c \in unlinking THEN << >> ELSE RestOf(before[c], unlinking)]
        BY <1>0 DEF Without, UnlinkingOK
      <3>6. peers = Without(before, unlinking)
        BY <3>3, <3>4, <3>5
      <3> QED
        BY <2>1, <2>4, <3>6 DEF UInv
    <2> QED
      BY <2>1, <2>3, <2>4
  <1>4. CASE peers[a] # << >>
    <2> DEFINE b == Head(peers[a])
    <2>1. b \in Anchors
      BY <1>2, <1>4, HeadAndTail
    <2>2. peers' = Unlink(peers, a, b) /\ todo' = todo /\ before' = before /\ unlinking' = unlinking
      BY <1>4 DEF UnlinkRound
    <2> HIDE DEF a, b
    <2>3. unlinking \in SUBSET Anchors /\ Sound(peers)
      BY <1>0 DEF UnlinkingOK, Inv
    <2>4. /\ \A c \in Anchors : peers[c] = << >> => peers'[c] = << >>
          /\ \A c \in Anchors \ unlinking : RestOf(peers'[c], unlinking) = RestOf(peers[c], unlinking)
      <3>1. a \in unlinking
        BY <1>1
      <3>2. /\ \A c \in Anchors : peers[c] = << >> => Unlink(peers, a, b)[c] = << >>
            /\ \A c \in Anchors \ unlinking : RestOf(Unlink(peers, a, b)[c], unlinking) = RestOf(peers[c], unlinking)
        BY <2>1, <2>3, <3>1, UnlinkLeaves
      <3> QED
        BY <2>2, <3>2
    <2>5. UnlinkingOK'
      BY <1>0, <2>2, <2>3, <2>4 DEF UnlinkingOK
    <2> QED
      BY <1>0, <2>2, <2>5 DEF UInv
  <1> QED
    BY <1>3, <1>4

LEMMA UInvKept ==
  ASSUME Inv, UInv, [Next]_vars
  PROVE  /\ UInv'
         /\ todo # << >> /\ todo' = << >> => peers' = Without(before, unlinking)
  <1>1. CASE todo = << >> /\ todo' = todo
    BY <1>1 DEF UInv
  <1>2. ASSUME NEW a \in Anchors, UnlinkAll(a) PROVE UInv' /\ todo = << >>
    <2>1. <<a>> \in Seq(Anchors) /\ Begin(<<a>>)
      BY <1>2 DEF UnlinkAll
    <2> QED
      BY <2>1, UBegin DEF Begin
  <1>3. ASSUME NEW n \in Nodes, DestroyNode(n) PROVE UInv' /\ todo = << >>
    BY <1>3, DyingAnchors, UBegin DEF DestroyNode, Begin
  <1>4. CASE UnlinkRound
    BY <1>4, URound
  <1>5. CASE UNCHANGED vars
    BY <1>5 DEF vars, UInv, UnlinkingOK
  <1> QED
    BY <1>1, <1>2, <1>3, <1>4, <1>5
       DEF Next, AddEdge, RemoveEdge, ReplaceEdgeDst, InsertNodeBetweenDataAnchors, Idle

(* Anchor::UnlinkAll and ~Node leave every other link, in its place: when the *)
(* last of their anchors has no peers, the list of any other anchor is what it *)
(* was at the beginning without the anchors that were unlinked.               *)
THEOREM UnlinksExactlyAlways == Spec => UnlinksExactly
  <1>1. Init => UInv
    BY DEF Init, UInv
  <1>2. Inv /\ UInv /\ [Next]_vars
          => UInv' /\ [todo # << >> /\ todo' = << >> => peers' = Without(before, unlinking)]_vars
    BY UInvKept
  <1> QED
    BY <1>1, <1>2, InvAlways, PTL DEF Spec, UnlinksExactly

-----------------------------------------------------------------------------
(* Recursion over 0..n. *)

(* What holds of 0, and of a number when of the one before.                   *)
LEMMA CountUp ==
  ASSUME NEW n \in Nat, NEW A, 0 \in A, \A k \in 1..n : k - 1 \in A => k \in A
  PROVE  \A k \in 0..n : k \in A
  <1> DEFINE Rest == {k \in 0..n : k \notin A}
  <1> SUFFICES ASSUME Rest # {} PROVE FALSE
    OBVIOUS
  <1>1. Rest \subseteq Nat
    OBVIOUS
  <1>2. PICK k \in Rest : \A l \in Rest : k <= l
    <2> HIDE DEF Rest
    <2> QED
      BY <1>1, LeastNumber
  <1>3. k \in 1..n /\ k - 1 \in 0..n /\ k - 1 \notin Rest
    BY <1>2
  <1> QED
    BY <1>3

(* A recursion over 0..n whose values stay in D has a solution.               *)
Solves(f, D, n, first, F) == /\ f \in [0..n -> D] /\ f[0] = first
                             /\ \A k \in 1..n : f[k] = F[<<f[k-1], k>>]

LEMMA RunExists ==
  ASSUME NEW D, NEW n \in Nat, NEW first \in D, NEW F, \A x \in D, k \in 1..n : F[<<x, k>>] \in D
  PROVE  \E f : Solves(f, D, n, first, F)
  <1> DEFINE A == {m \in 0..n : \E f : Solves(f, D, m, first, F)}
  <1>1. 0 \in A
    <2> DEFINE a == [k \in 0..0 |-> first]
    <2>1. a \in [0..0 -> D] /\ a[0] = first /\ 1..0 = {}
      OBVIOUS
    <2> HIDE DEF a
    <2>2. Solves(a, D, 0, first, F)
      BY <2>1 DEF Solves
    <2> QED
      BY <2>2
  <1>2. ASSUME NEW m \in 1..n, m - 1 \in A PROVE m \in A
    <2>1. PICK g : Solves(g, D, m - 1, first, F)
      BY <1>2
    <2> DEFINE v == F[<<g[m-1], m>>]
               a == [k \in 0..m |-> IF k = m THEN v ELSE g[k]]
    <2>2. v \in D /\ g \in [0..m-1 -> D] /\ g[0] = first
      <3>1. m - 1 \in 0..m-1 /\ g \in [0..m-1 -> D] /\ g[0] = first
        BY <2>1 DEF Solves
      <3>2. g[m-1] \in D
        BY <3>1
      <3> QED
        BY <3>1, <3>2
    <2> HIDE DEF v
    <2>3. a \in [0..m -> D] /\ a[m] = v /\ \A k \in 0..m-1 : a[k] = g[k]
      BY <2>2
    <2> HIDE DEF a
    <2>4. a[0] = first
      <3>1. 0 \in 0..m-1
        OBVIOUS
      <3> QED
        BY <2>2, <2>3, <3>1
    <2>5. ASSUME NEW k \in 1..m PROVE a[k] = F[<<a[k-1], k>>]
      <3>0. k - 1 \in 0..m-1
        OBVIOUS
      <3>1. CASE k = m
        BY <2>3, <3>0, <3>1 DEF v
      <3>2. CASE k # m
        <4>1. k \in 1..m-1 /\ k \in 0..m-1
          BY <3>2
        <4>2. g[k] = F[<<g[k-1], k>>]
          BY <2>1, <4>1 DEF Solves
        <4>3. a[k] = g[k] /\ a[k-1] = g[k-1]
          BY <2>3, <3>0, <4>1
        <4> QED
          BY <4>2, <4>3
      <3> QED
        BY <3>1, <3>2
    <2>6. Solves(a, D, m, first, F)
      BY <2>3, <2>4, <2>5 DEF Solves
    <2> QED
      BY <2>6
  <1>3. \A m \in 0..n : m \in A
    <2> HIDE DEF A
    <2> QED
      BY <1>1, <1>2, CountUp
  <1> QED
    BY <1>3

(* What a recursion chooses is a solution: its values are in D.               *)
LEMMA RunStays ==
  ASSUME NEW D, NEW n \in Nat, NEW f, NEW F, DOMAIN f = 0..n, f = [k \in 0..n |-> f[k]], f[0] \in D,
         \A k \in 1..n : f[k-1] \in D => f[k] \in D
  PROVE  f \in [0..n -> D]
  <1> DEFINE A == {k \in 0..n : f[k] \in D}
  <1>1. 0 \in A
    OBVIOUS
  <1>2. ASSUME NEW k \in 1..n, k - 1 \in A PROVE k \in A
    BY <1>2
  <1>3. \A k \in 0..n : k \in A
    <2> HIDE DEF A
    <2> QED
      BY <1>1, <1>2, CountUp
  <1> QED
    BY <1>3

-----------------------------------------------------------------------------
(* Lists without repetition.                                                  *)

LEMMA ToSetIs == \A T : \A s \in Seq(T) : ToSet(s) \subseteq T /\ \A x : x \in ToSet(s) <=> \E i \in 1..Len(s) : s[i] = x
  BY DEF ToSet

LEMMA DistinctAppend ==
  ASSUME NEW T, NEW s \in Seq(T), NEW x \in T, IsDistinct(s), x \notin ToSet(s)
  PROVE  /\ Append(s, x) \in Seq(T) /\ Len(Append(s, x)) = Len(s) + 1
         /\ IsDistinct(Append(s, x)) /\ ToSet(Append(s, x)) = ToSet(s) \cup {x}
  <1> DEFINE r == Append(s, x)
  <1>1. r \in Seq(T) /\ Len(r) = Len(s) + 1 /\ Len(s) \in Nat /\ r[Len(s) + 1] = x /\ \A i \in 1..Len(s) : r[i] = s[i]
    BY AppendProperties
  <1> HIDE DEF r
  <1>2. DOMAIN r = 1..(Len(s) + 1) /\ DOMAIN s = 1..Len(s)
    BY <1>1
  <1>3. \A i \in 1..(Len(s) + 1) : i = Len(s) + 1 \/ i \in 1..Len(s)
    BY <1>1
  <1>4. IsDistinct(r)
    <2> SUFFICES ASSUME NEW i \in 1..(Len(s) + 1), NEW j \in 1..(Len(s) + 1), r[i] = r[j] PROVE i = j
      BY <1>2 DEF IsDistinct
    <2>1. CASE i = Len(s) + 1 /\ j # Len(s) + 1
      <3>1. j \in 1..Len(s) /\ s[j] = x
        BY <1>1, <1>3, <2>1
      <3> QED
        BY <3>1, ToSetIs
    <2>2. CASE j = Len(s) + 1 /\ i # Len(s) + 1
      <3>1. i \in 1..Len(s) /\ s[i] = x
        BY <1>1, <1>3, <2>2
      <3> QED
        BY <3>1, ToSetIs
    <2>3. CASE i # Len(s) + 1 /\ j # Len(s) + 1
      <3>1. i \in 1..Len(s) /\ j \in 1..Len(s) /\ s[i] = s[j]
        BY <1>1, <1>3, <2>3
      <3> QED
        BY <1>2, <3>1 DEF IsDistinct
    <2> QED
      BY <2>1, <2>2, <2>3
  <1>5. ToSet(r) = ToSet(s) \cup {x}
    <2>1. ToSet(r) = {r[i] : i \in 1..(Len(s) + 1)} /\ ToSet(s) = {s[i] : i \in 1..Len(s)}
      BY <1>2 DEF ToSet
    <2>2. Len(s) + 1 \in 1..(Len(s) + 1) /\ \A i \in 1..Len(s) : i \in 1..(Len(s) + 1)
      BY <1>1
    <2>3. \A y \in ToSet(r) : y \in ToSet(s) \cup {x}
      BY <1>1, <1>3, <2>1
    <2>4. \A y \in ToSet(s) \cup {x} : y \in ToSet(r)
      BY <1>1, <2>1, <2>2
    <2> QED
      BY <2>3, <2>4
  <1> QED
    BY <1>1, <1>4, <1>5 DEF r

LEMMA DistinctRemoved ==
  ASSUME NEW T, NEW s \in Seq(T), NEW e, IsDistinct(s)
  PROVE  /\ RemoveFirst(s, e) \in Seq(T)
         /\ IsDistinct(RemoveFirst(s, e)) /\ ToSet(RemoveFirst(s, e)) = ToSet(s) \ {e}
         /\ e \in ToSet(s) => Len(RemoveFirst(s, e)) = Len(s) - 1
  <1>1. CASE e \in ToSet(s)
    <2>1. \E i \in 1..Len(s) : s[i] = e
      BY <1>1, ToSetIs
    <2> DEFINE k == FirstIndex(s, e)
               r == RemoveAt(s, k)
    <2>a. FirstIndex(s, e) \in 1..Len(s) /\ s[FirstIndex(s, e)] = e
      BY <2>1, FirstIndexIsIndex
    <2>b. RemoveFirst(s, e) = RemoveAt(s, FirstIndex(s, e))
      BY <2>1 DEF RemoveFirst, FirstIndex
    <2> HIDE DEF k, r
    <2>2. k \in 1..Len(s) /\ s[k] = e /\ RemoveFirst(s, e) = r
      BY <2>a, <2>b DEF k, r
    <2>c. k \in 1..Len(s)
      BY <2>2
    <2>d. /\ r \in Seq(T) /\ Len(r) = Len(s) - 1
          /\ \A i \in 1..(Len(s) - 1) : r[i] = IF i < k THEN s[i] ELSE s[i + 1]
      BY <2>c, RemoveAtShape DEF r
    <2>3. /\ r \in Seq(T) /\ Len(r) = Len(s) - 1 /\ Len(s) \in Nat
          /\ \A i \in 1..(Len(s) - 1) : r[i] = IF i < k THEN s[i] ELSE s[i + 1]
      BY <2>d
    <2> DEFINE at(i) == IF i < k THEN i ELSE i + 1
    <2>4. \A i \in 1..(Len(s) - 1) : at(i) \in 1..Len(s) /\ at(i) # k /\ r[i] = s[at(i)]
      BY <2>2, <2>3
    <2>5. \A i, j \in 1..(Len(s) - 1) : at(i) = at(j) => i = j
      BY <2>2, <2>3
    <2>6. \A i \in 1..Len(s) : i # k => \E j \in 1..(Len(s) - 1) : at(j) = i
      <3> SUFFICES ASSUME NEW i \in 1..Len(s), i # k PROVE \E j \in 1..(Len(s) - 1) : at(j) = i
        OBVIOUS
      <3>1. CASE i < k
        <4>1. i \in 1..(Len(s) - 1) /\ at(i) = i
          BY <2>2, <2>3, <3>1
        <4> QED
          BY <4>1
      <3>2. CASE ~(i < k)
        <4>1. i - 1 \in 1..(Len(s) - 1) /\ at(i - 1) = i
          BY <2>2, <2>3, <3>2
        <4> QED
          BY <4>1
      <3> QED
        BY <3>1, <3>2
    <2> HIDE DEF at
    <2>7. DOMAIN r = 1..(Len(s) - 1) /\ DOMAIN s = 1..Len(s)
      BY <2>3
    <2>8. \A i, j \in 1..Len(s) : s[i] = s[j] => i = j
      BY <2>7 DEF IsDistinct
    <2>9. IsDistinct(r)
      <3> SUFFICES ASSUME NEW i \in 1..(Len(s) - 1), NEW j \in 1..(Len(s) - 1), r[i] = r[j] PROVE i = j
        BY <2>7 DEF IsDistinct
      <3>1. at(i) = at(j)
        BY <2>4, <2>8
      <3> QED
        BY <2>5, <3>1
    <2>10. ToSet(r) = ToSet(s) \ {e}
      <3>1. ASSUME NEW x \in ToSet(r) PROVE x \in ToSet(s) \ {e}
        <4>1. PICK i \in 1..(Len(s) - 1) : r[i] = x
          BY <2>3, <3>1, ToSetIs
        <4>2. at(i) \in 1..Len(s) /\ s[at(i)] = x /\ at(i) # k
          BY <2>4, <4>1
        <4>3. x # e
          BY <2>2, <2>8, <4>2
        <4> QED
          BY <4>2, <4>3, ToSetIs
      <3>2. ASSUME NEW x \in ToSet(s), x # e PROVE x \in ToSet(r)
        <4>1. PICK i \in 1..Len(s) : s[i] = x
          BY <3>2, ToSetIs
        <4>2. i # k
          BY <2>2, <3>2, <4>1
        <4>3. PICK j \in 1..(Len(s) - 1) : at(j) = i
          BY <2>6, <4>2
        <4>4. r[j] = x
          BY <2>4, <4>1, <4>3
        <4> QED
          BY <2>3, <4>4, ToSetIs
      <3> QED
        BY <3>1, <3>2
    <2> QED
      BY <2>2, <2>3, <2>9, <2>10
  <1>2. CASE e \notin ToSet(s)
    <2>1. RemoveFirst(s, e) = s
      BY <1>2, ToSetIs DEF RemoveFirst
    <2> QED
      BY <1>2, <2>1
  <1> QED
    BY <1>1, <1>2

LEMMA DistinctKept ==
  ASSUME NEW T, NEW s \in Seq(T), NEW S, IsDistinct(s)
  PROVE  Kept(s, S) \in Seq(T) /\ IsDistinct(Kept(s, S)) /\ ToSet(Kept(s, S)) = ToSet(s) \cap S
  <1> DEFINE n == Len(s)
             D == Seq(T)
             next(q, i) == IF s[i] \in S THEN Append(q, s[i]) ELSE q
             step(g) == [i \in 0..n |-> IF i = 0 THEN << >> ELSE next(g[i - 1], i)]
             F == [x \in D \X (1..n) |-> next(x[1], x[2])]
             c == CHOOSE g : g = step(g)
             part(i) == {s[j] : j \in 1..i}
  <1>1. n \in Nat /\ << >> \in D /\ \A i \in 1..n : s[i] \in T
    OBVIOUS
  <1>2. \A q \in D, i \in 1..n : next(q, i) \in D
    BY <1>1
  <1>3. Kept(s, S) = c[n]
    BY DEF Kept
  <1> HIDE DEF D, n
  <1>r1. \E g : g = step(g)
    <2>1. \A q \in D, i \in 1..n : F[<<q, i>>] = next(q, i)
      OBVIOUS
    <2> HIDE DEF F, next
    <2>2. \A q \in D, i \in 1..n : F[<<q, i>>] \in D
      BY <1>2, <2>1
    <2>3. PICK f : Solves(f, D, n, << >>, F)
      BY <1>1, <2>2, RunExists
    <2>4. f \in [0..n -> D] /\ f[0] = << >> /\ \A i \in 1..n : f[i] = F[<<f[i - 1], i>>]
      BY <2>3 DEF Solves
    <2>5. ASSUME NEW i \in 0..n PROVE f[i] = IF i = 0 THEN << >> ELSE next(f[i - 1], i)
      <3>1. CASE i = 0
        BY <2>4, <3>1
      <3>2. CASE i # 0
        <4>1. i \in 1..n /\ i - 1 \in 0..n
          BY <1>1, <3>2
        <4>2. f[i - 1] \in D
          BY <2>4, <4>1
        <4> QED
          BY <2>1, <2>4, <3>2, <4>1, <4>2
      <3> QED
        BY <3>1, <3>2
    <2>6. f = [i \in 0..n |-> f[i]]
      BY <2>4
    <2>7. f = step(f)
      BY <2>5, <2>6
    <2> QED
      BY <2>7
  <1>r2. c = step(c)
    <2> HIDE DEF step
    <2> QED
      BY <1>r1
  <1> HIDE DEF c
  <1>r3. DOMAIN c = 0..n /\ c = [i \in 0..n |-> c[i]] /\ c[0] = << >> /\ \A i \in 1..n : c[i] = next(c[i - 1], i)
    <2> HIDE DEF next
    <2>1. DOMAIN c = 0..n /\ \A i \in 0..n : c[i] = IF i = 0 THEN << >> ELSE next(c[i - 1], i)
      BY <1>r2
    <2>2. c = [i \in 0..n |-> c[i]]
      BY <1>r2
    <2>3. 0 \in 0..n /\ \A i \in 1..n : i \in 0..n /\ i # 0
      BY <1>1
    <2> QED
      BY <2>1, <2>2, <2>3
  <1>r4. c \in [0..n -> D] /\ c[n] \in D
    <2> HIDE DEF next
    <2>1. \A i \in 1..n : c[i - 1] \in D => c[i] \in D
      BY <1>2, <1>r3
    <2>2. c \in [0..n -> D]
      BY <1>1, <1>r3, <2>1, RunStays
    <2> QED
      BY <1>1, <2>2
  <1> DEFINE A == {i \in 0..n : IsDistinct(c[i]) /\ ToSet(c[i]) = part(i) \cap S}
  <1>5. 0 \in A
    <2>1. c[0] = << >> /\ 0 \in 0..n
      BY <1>1, <1>r3
    <2>2. IsDistinct(<< >>) /\ ToSet(<< >>) = {} /\ part(0) = {}
      BY DEF IsDistinct, ToSet
    <2> QED
      BY <2>1, <2>2
  <1>6. ASSUME NEW i \in 1..n, i - 1 \in A PROVE i \in A
    <2>1. i \in 0..n /\ i - 1 \in 0..n /\ part(i) = part(i - 1) \cup {s[i]} /\ s[i] \in T
      <3>1. \A j : j \in 1..i <=> j \in 1..(i - 1) \/ j = i
        BY <1>1
      <3> QED
        BY <1>1, <3>1
    <2> DEFINE b == c[i - 1]
    <2>2. b \in Seq(T) /\ IsDistinct(b) /\ ToSet(b) = part(i - 1) \cap S
      BY <1>6, <1>r4, <2>1 DEF D
    <2>3. c[i] = IF s[i] \in S THEN Append(b, s[i]) ELSE b
      BY <1>r3
    <2>4. s[i] \notin part(i - 1)
      <3>1. \A j \in 1..(i - 1) : j \in DOMAIN s /\ i \in DOMAIN s /\ j # i
        BY <1>1 DEF n
      <3> QED
        BY <3>1 DEF IsDistinct
    <2> HIDE DEF b, part, next
    <2>5. CASE s[i] \in S
      <3>1. s[i] \notin ToSet(b)
        BY <2>2, <2>4
      <3>2. IsDistinct(Append(b, s[i])) /\ ToSet(Append(b, s[i])) = ToSet(b) \cup {s[i]}
        BY <2>1, <2>2, <3>1, DistinctAppend
      <3>3. ToSet(Append(b, s[i])) = part(i) \cap S
        BY <2>1, <2>2, <2>5, <3>2
      <3> QED
        BY <2>1, <2>3, <2>5, <3>2, <3>3
    <2>6. CASE s[i] \notin S
      BY <2>1, <2>2, <2>3, <2>6
    <2> QED
      BY <2>5, <2>6
  <1>7. n \in A
    <2> HIDE DEF A
    <2>1. \A i \in 0..n : i \in A
      BY <1>1, <1>5, <1>6, CountUp
    <2> QED
      BY <1>1, <2>1
  <1>8. part(n) = ToSet(s)
    BY DEF ToSet, n
  <1> QED
    BY <1>3, <1>7, <1>8, <1>r4 DEF D

-----------------------------------------------------------------------------
(* Graphs, and what a call may change of them.                                *)
Registers == UNION {[X -> Graphs] : X \in SUBSET Names}
GraphRec ==
    [name : Names, nodes : Seq(TreeNodes), size : Nat, inputs : Seq(TreeNodes),
     outputs : Seq(TreeNodes \X OutIndexes), list : Seq(Graphs), named : Registers,
     parentGraph : Graphs \cup {None}, parentNode : TreeNodes \cup {None}]
Trees == [Graphs -> GraphRec]

SameNodes(G, H) ==
    \A g \in Graphs : H[g].nodes = G[g].nodes /\ H[g].size = G[g].size /\ H[g].outputs = G[g].outputs
SameNames(G, H) ==
    \A g \in Graphs : /\ H[g].name = G[g].name
                      /\ H[g].parentGraph = G[g].parentGraph /\ H[g].parentNode = G[g].parentNode
SameRegisters(G, H, S) == \A g \in S : H[g].list = G[g].list /\ H[g].named = G[g].named

RegistersAgreeIn(G) ==
    \A g \in Graphs :
        /\ IsDistinct(G[g].list)
        /\ ToSet(G[g].list) = {G[g].named[x] : x \in DOMAIN G[g].named}
        /\ \A x \in DOMAIN G[g].named : G[G[g].named[x]].name = x
        /\ \A h \in Graphs \ {g} : ToSet(G[g].list) \cap ToSet(G[h].list) = {}

LEMMA FieldsOf ==
  ASSUME NEW G \in Trees, NEW g \in Graphs
  PROVE  /\ G[g] \in GraphRec /\ G[g].name \in Names /\ G[g].nodes \in Seq(TreeNodes) /\ G[g].size \in Nat
         /\ G[g].inputs \in Seq(TreeNodes) /\ G[g].outputs \in Seq(TreeNodes \X OutIndexes)
         /\ G[g].list \in Seq(Graphs) /\ G[g].named \in Registers
         /\ G[g].parentGraph \in Graphs \cup {None} /\ G[g].parentNode \in TreeNodes \cup {None}
  <1>1. G[g] \in GraphRec
    BY DEF Trees
  <1> DEFINE e == G[g]
  <1> HIDE DEF e
  <1>2. e \in GraphRec
    BY <1>1 DEF e
  <1>3. e \in GraphRec /\ e.name \in Names /\ e.nodes \in Seq(TreeNodes) /\ e.size \in Nat
         /\ e.inputs \in Seq(TreeNodes) /\ e.outputs \in Seq(TreeNodes \X OutIndexes)
         /\ e.list \in Seq(Graphs) /\ e.named \in Registers
         /\ e.parentGraph \in Graphs \cup {None} /\ e.parentNode \in TreeNodes \cup {None}
    BY <1>2 DEF GraphRec
  <1> QED
    BY <1>3 DEF e

LEMMA RegisterIs ==
  ASSUME NEW m \in Registers
  PROVE  /\ DOMAIN m \subseteq Names /\ \A x \in DOMAIN m : m[x] \in Graphs
         /\ m = [x \in DOMAIN m |-> m[x]]
  <1>1. PICK X \in SUBSET Names : m \in [X -> Graphs]
    BY DEF Registers
  <1> QED
    BY <1>1

LEMMA IsRegister ==
  ASSUME NEW X, X \subseteq Names, NEW m, m \in [X -> Graphs]
  PROVE  m \in Registers
  BY DEF Registers

(* A change of one register.                                                  *)
SetRegister(G, h, l, m) == [G EXCEPT ![h].list = l, ![h].named = m]

LEMMA RegisterSet ==
  ASSUME NEW G \in Trees, NEW h \in Graphs, NEW l \in Seq(Graphs), NEW m \in Registers
  PROVE  LET H == SetRegister(G, h, l, m)
         IN  /\ H \in Trees /\ SameNodes(G, H) /\ SameNames(G, H) /\ SameRegisters(G, H, Graphs \ {h})
             /\ H[h].list = l /\ H[h].named = m
  <1> DEFINE H == SetRegister(G, h, l, m)
             e == G[h]
             f == [e EXCEPT !.list = l, !.named = m]
  <1>1. H = [G EXCEPT ![h] = f]
    BY DEF Trees, SetRegister
  <1>2. e \in GraphRec
    BY FieldsOf
  <1> HIDE DEF e
  <1>3. /\ f \in GraphRec /\ f.list = l /\ f.named = m
        /\ f.nodes = e.nodes /\ f.size = e.size /\ f.outputs = e.outputs
        /\ f.name = e.name /\ f.parentGraph = e.parentGraph /\ f.parentNode = e.parentNode
    BY <1>2 DEF GraphRec
  <1> HIDE DEF f, H
  <1>4. H \in Trees /\ H[h] = f /\ G[h] = e /\ \A g \in Graphs \ {h} : H[g] = G[g]
    BY <1>1, <1>3 DEF Trees, e
  <1>5. SameNodes(G, H)
    BY <1>3, <1>4 DEF SameNodes
  <1>6. SameNames(G, H)
    BY <1>3, <1>4 DEF SameNames
  <1> QED
    BY <1>3, <1>4, <1>5, <1>6 DEF SameRegisters, H

-----------------------------------------------------------------------------
(* Entering a graph in a register, and taking it out.                         *)
Added(G, H, h, g) ==
    /\ H \in Trees /\ SameNodes(G, H) /\ SameNames(G, H) /\ SameRegisters(G, H, Graphs \ {h})
    /\ H[h].list = Append(G[h].list, g)
    /\ H[h].named = [x \in DOMAIN G[h].named \cup {G[g].name} |-> IF x = G[g].name THEN g ELSE G[h].named[x]]
Removed(G, H, h, name) ==
    /\ H \in Trees /\ SameNodes(G, H) /\ SameNames(G, H) /\ SameRegisters(G, H, Graphs \ {h})
    /\ H[h].list = RemoveFirst(G[h].list, G[h].named[name])
    /\ H[h].named = Dropping(G[h].named, name)

LEMMA AddSubgraphIs ==
  ASSUME NEW G \in Trees, NEW h \in Graphs, NEW g \in Graphs, CanAddSubgraph(G, h, g)
  PROVE  Added(G, AddSubgraph(G, h, g), h, g)
  <1> DEFINE l == Append(G[h].list, g)
             m == [x \in DOMAIN G[h].named \cup {G[g].name} |-> IF x = G[g].name THEN g ELSE G[h].named[x]]
             H == SetRegister(G, h, l, m)
  <1>1. l \in Seq(Graphs)
    BY FieldsOf
  <1>2. m \in Registers
    <2>1. G[h].named \in Registers /\ G[g].name \in Names
      BY FieldsOf
    <2>2. DOMAIN G[h].named \subseteq Names /\ \A x \in DOMAIN G[h].named : G[h].named[x] \in Graphs
      BY <2>1, RegisterIs
    <2>3. m \in [DOMAIN G[h].named \cup {G[g].name} -> Graphs]
      BY <2>2
    <2> HIDE DEF m
    <2> QED
      BY <2>1, <2>2, <2>3, IsRegister
  <1>3. AddSubgraph(G, h, g) = H
    <2>1. AddSubgraph(G, h, g) = [G EXCEPT ![h].list = Append(@, g),
                   ![h].named = [x \in DOMAIN @ \cup {G[g].name} |-> IF x = G[g].name THEN g ELSE @[x]]]
      BY DEF AddSubgraph
    <2> QED
      BY <2>1, FieldsOf DEF Trees, GraphRec, SetRegister
  <1> HIDE DEF l, m
  <1>4. /\ H \in Trees /\ SameNodes(G, H) /\ SameNames(G, H) /\ SameRegisters(G, H, Graphs \ {h})
        /\ H[h].list = l /\ H[h].named = m
    BY <1>1, <1>2, RegisterSet
  <1> HIDE DEF H
  <1> QED
    BY <1>3, <1>4 DEF Added, l, m

LEMMA RemoveSubgraphIs ==
  ASSUME NEW G \in Trees, NEW h \in Graphs, NEW name \in DOMAIN G[h].named, IsDistinct(G[h].list)
  PROVE  Removed(G, RemoveSubgraph(G, h, name), h, name)
  <1> DEFINE l == RemoveFirst(G[h].list, G[h].named[name])
             m == Dropping(G[h].named, name)
             H == SetRegister(G, h, l, m)
  <1>0. G[h].list \in Seq(Graphs) /\ G[h].named \in Registers
    BY FieldsOf
  <1>1. l \in Seq(Graphs)
    BY <1>0, DistinctRemoved
  <1>2. m \in Registers
    <2>1. DOMAIN G[h].named \subseteq Names /\ \A x \in DOMAIN G[h].named : G[h].named[x] \in Graphs
      BY <1>0, RegisterIs
    <2>2. m \in [DOMAIN G[h].named \ {name} -> Graphs]
      BY <2>1 DEF Dropping
    <2> HIDE DEF m
    <2> QED
      BY <2>1, <2>2, IsRegister
  <1>3. RemoveSubgraph(G, h, name) = H
    <2>1. RemoveSubgraph(G, h, name) = [G EXCEPT ![h].list = RemoveFirst(@, G[h].named[name]), ![h].named = Dropping(@, name)]
      BY DEF RemoveSubgraph
    <2> QED
      BY <2>1, FieldsOf DEF Trees, GraphRec, SetRegister
  <1> HIDE DEF l, m
  <1>4. /\ H \in Trees /\ SameNodes(G, H) /\ SameNames(G, H) /\ SameRegisters(G, H, Graphs \ {h})
        /\ H[h].list = l /\ H[h].named = m
    BY <1>1, <1>2, RegisterSet
  <1> HIDE DEF H
  <1> QED
    BY <1>3, <1>4 DEF Removed, l, m

(* Registers agree still when one of them changed rightly.                    *)
LEMMA RegistersByParts ==
  ASSUME NEW G \in Trees, NEW H, NEW h \in Graphs, RegistersAgreeIn(G),
         SameNames(G, H), SameRegisters(G, H, Graphs \ {h}), DOMAIN H[h].named \subseteq Names,
         \A x \in DOMAIN H[h].named : H[h].named[x] \in Graphs /\ G[H[h].named[x]].name = x,
         IsDistinct(H[h].list), ToSet(H[h].list) = {H[h].named[x] : x \in DOMAIN H[h].named},
         \A g \in Graphs \ {h} : ToSet(H[h].list) \cap ToSet(G[g].list) = {}
  PROVE  RegistersAgreeIn(H)
  <1> SUFFICES ASSUME NEW g \in Graphs
               PROVE  /\ IsDistinct(H[g].list)
                      /\ ToSet(H[g].list) = {H[g].named[x] : x \in DOMAIN H[g].named}
                      /\ \A x \in DOMAIN H[g].named : H[H[g].named[x]].name = x
                      /\ \A k \in Graphs \ {g} : ToSet(H[g].list) \cap ToSet(H[k].list) = {}
    BY DEF RegistersAgreeIn
  <1>1. CASE g = h
    <2>1. \A k \in Graphs \ {g} : ToSet(H[g].list) \cap ToSet(H[k].list) = {}
      BY <1>1 DEF SameRegisters
    <2>2. \A x \in DOMAIN H[g].named : H[H[g].named[x]].name = x
      BY <1>1 DEF SameNames
    <2> QED
      BY <1>1, <2>1, <2>2
  <1>2. CASE g # h
    <2>1. H[g].list = G[g].list /\ H[g].named = G[g].named
      BY <1>2 DEF SameRegisters
    <2>2. \A k \in Graphs \ {g} : ToSet(H[g].list) \cap ToSet(H[k].list) = {}
      <3> SUFFICES ASSUME NEW k \in Graphs \ {g} PROVE ToSet(H[g].list) \cap ToSet(H[k].list) = {}
        OBVIOUS
      <3>1. CASE k = h
        BY <1>2, <2>1, <3>1
      <3>2. CASE k # h
        BY <2>1, <3>2 DEF SameRegisters, RegistersAgreeIn
      <3> QED
        BY <3>1, <3>2
    <2>3. \A x \in DOMAIN H[g].named : H[g].named[x] \in Graphs
      <3>1. G[g].named \in Registers
        BY FieldsOf
      <3> QED
        BY <2>1, <3>1, RegisterIs
    <2>4. \A x \in DOMAIN H[g].named : H[H[g].named[x]].name = x
      BY <2>1, <2>3 DEF SameNames, RegistersAgreeIn
    <2>5. IsDistinct(H[g].list) /\ ToSet(H[g].list) = {H[g].named[x] : x \in DOMAIN H[g].named}
      BY <2>1 DEF RegistersAgreeIn
    <2> QED
      BY <2>2, <2>4, <2>5
  <1> QED
    BY <1>1, <1>2

LEMMA AddedAgree ==
  ASSUME NEW G \in Trees, NEW H, NEW h \in Graphs, NEW g \in Graphs, RegistersAgreeIn(G), Added(G, H, h, g),
         G[g].name \notin DOMAIN G[h].named, \A k \in Graphs : g \notin ToSet(G[k].list)
  PROVE  RegistersAgreeIn(H) /\ ToSet(H[h].list) = ToSet(G[h].list) \cup {g}
  <1>1. G[h].list \in Seq(Graphs) /\ G[h].named \in Registers /\ G[g].name \in Names
    BY FieldsOf
  <1> DEFINE m == G[h].named
             x0 == G[g].name
  <1>2. DOMAIN m \subseteq Names /\ \A x \in DOMAIN m : m[x] \in Graphs
    BY <1>1, RegisterIs
  <1>3. /\ H[h].list = Append(G[h].list, g)
        /\ H[h].named = [x \in DOMAIN m \cup {x0} |-> IF x = x0 THEN g ELSE m[x]]
    BY DEF Added
  <1>4. IsDistinct(G[h].list) /\ ToSet(G[h].list) = {m[x] : x \in DOMAIN m} /\ \A x \in DOMAIN m : G[m[x]].name = x
    BY DEF RegistersAgreeIn
  <1>5. IsDistinct(H[h].list) /\ ToSet(H[h].list) = ToSet(G[h].list) \cup {g}
    BY <1>1, <1>3, <1>4, DistinctAppend
  <1>6. \A k \in Graphs \ {h} : ToSet(G[h].list) \cap ToSet(G[k].list) = {}
    BY DEF RegistersAgreeIn
  <1>7. \A k \in Graphs \ {h} : ToSet(H[h].list) \cap ToSet(G[k].list) = {}
    BY <1>5, <1>6
  <1>8. x0 \notin DOMAIN m /\ G[g].name = x0
    OBVIOUS
  <1> HIDE DEF m, x0
  <1>9. /\ DOMAIN H[h].named = DOMAIN m \cup {x0} /\ H[h].named[x0] = g
        /\ \A x \in DOMAIN m : H[h].named[x] = m[x]
    BY <1>3, <1>8
  <1>10. \A x \in DOMAIN H[h].named : H[h].named[x] \in Graphs /\ G[H[h].named[x]].name = x
    BY <1>2, <1>4, <1>8, <1>9
  <1>11. ToSet(H[h].list) = {H[h].named[x] : x \in DOMAIN H[h].named}
    BY <1>4, <1>5, <1>9
  <1>12. DOMAIN H[h].named \subseteq Names
    BY <1>1, <1>2, <1>9 DEF x0
  <1>13. RegistersAgreeIn(H)
    <2>1. SameNames(G, H) /\ SameRegisters(G, H, Graphs \ {h})
      BY DEF Added
    <2> QED
      BY <1>5, <1>7, <1>10, <1>11, <1>12, <2>1, RegistersByParts
  <1> QED
    BY <1>5, <1>13

LEMMA RemovedAgree ==
  ASSUME NEW G \in Trees, NEW H, NEW h \in Graphs, NEW name \in DOMAIN G[h].named, RegistersAgreeIn(G), Removed(G, H, h, name)
  PROVE  RegistersAgreeIn(H) /\ ToSet(H[h].list) = ToSet(G[h].list) \ {G[h].named[name]}
  <1>1. G[h].list \in Seq(Graphs) /\ G[h].named \in Registers
    BY FieldsOf
  <1> DEFINE m == G[h].named
             g == m[name]
  <1>2. DOMAIN m \subseteq Names /\ \A x \in DOMAIN m : m[x] \in Graphs
    BY <1>1, RegisterIs
  <1>3. H[h].list = RemoveFirst(G[h].list, g) /\ H[h].named = Dropping(m, name)
    BY DEF Removed
  <1>4. IsDistinct(G[h].list) /\ ToSet(G[h].list) = {m[x] : x \in DOMAIN m} /\ \A x \in DOMAIN m : G[m[x]].name = x
    BY DEF RegistersAgreeIn
  <1>5. IsDistinct(H[h].list) /\ ToSet(H[h].list) = ToSet(G[h].list) \ {g}
    BY <1>1, <1>3, <1>4, DistinctRemoved
  <1>6. \A k \in Graphs \ {h} : ToSet(G[h].list) \cap ToSet(G[k].list) = {}
    BY DEF RegistersAgreeIn
  <1>7. \A k \in Graphs \ {h} : ToSet(H[h].list) \cap ToSet(G[k].list) = {}
    BY <1>5, <1>6
  <1>8. name \in DOMAIN m
    OBVIOUS
  <1> HIDE DEF m
  <1>9. DOMAIN H[h].named = DOMAIN m \ {name} /\ \A x \in DOMAIN m \ {name} : H[h].named[x] = m[x]
    BY <1>3 DEF Dropping
  <1>10. \A x \in DOMAIN H[h].named : H[h].named[x] \in Graphs /\ G[H[h].named[x]].name = x
    BY <1>2, <1>4, <1>9
  <1>11. ToSet(H[h].list) = {H[h].named[x] : x \in DOMAIN H[h].named}
    <2>1. \A x \in DOMAIN m : m[x] = g => x = name
      BY <1>4, <1>8
    <2> HIDE DEF g
    <2>2. ASSUME NEW y \in ToSet(H[h].list) PROVE \E x \in DOMAIN H[h].named : y = H[h].named[x]
      <3>1. y # g /\ \E x \in DOMAIN m : y = m[x]
        BY <1>4, <1>5
      <3> QED
        BY <1>9, <3>1 DEF g
    <2>3. ASSUME NEW x \in DOMAIN H[h].named PROVE H[h].named[x] \in ToSet(H[h].list)
      BY <1>4, <1>5, <1>9, <2>1
    <2> QED
      BY <2>2, <2>3
  <1>12. DOMAIN H[h].named \subseteq Names
    BY <1>2, <1>9
  <1>13. RegistersAgreeIn(H)
    <2>1. SameNames(G, H) /\ SameRegisters(G, H, Graphs \ {h})
      BY DEF Removed
    <2> QED
      BY <1>5, <1>7, <1>10, <1>11, <1>12, <2>1, RegistersByParts
  <1> QED
    BY <1>5, <1>13 DEF m

-----------------------------------------------------------------------------
(* Parents.  The parents of a graph are set together, a graph in a register   *)
(* has them, and no graph is above itself.                                    *)
Ranked(G, rank) ==
    /\ rank \in [Graphs -> Nat]
    /\ \A g \in Graphs : G[g].parentGraph # None => rank[G[g].parentGraph] < rank[g]
ParentsRight(G) ==
    /\ \A g \in Graphs : G[g].parentGraph = None <=> G[g].parentNode = None
    /\ \A g \in Graphs : \A x \in ToSet(G[g].list) : G[x].parentGraph # None
    /\ \E rank : Ranked(G, rank)

(* The way up from h: it stays where there is no parent.                      *)
WayUp(G, h, c) ==
    /\ c \in [0..Cardinality(Graphs) -> Graphs] /\ c[0] = h /\ FindRootGraph(G, h) = c[Cardinality(Graphs)]
    /\ \A k \in 1..Cardinality(Graphs) :
         c[k] = IF G[c[k - 1]].parentGraph = None THEN c[k - 1] ELSE G[c[k - 1]].parentGraph

LEMMA WayUpExists ==
  ASSUME NEW G \in Trees, NEW h \in Graphs
  PROVE  \E c : WayUp(G, h, c)
  <1> DEFINE n == Cardinality(Graphs)
             D == Graphs
             next(q, k) == IF G[q].parentGraph = None THEN q ELSE G[q].parentGraph
             step(g) == [k \in 0..n |-> IF k = 0 THEN h ELSE next(g[k - 1], k)]
             F == [x \in D \X (1..n) |-> next(x[1], x[2])]
             c == CHOOSE g : g = step(g)
  <1>1. n \in Nat /\ h \in D
    BY FS_CardinalityType, ContentAssumption
  <1>2. \A q \in D, k \in 1..n : next(q, k) \in D
    BY FieldsOf
  <1>3. FindRootGraph(G, h) = c[n]
    BY DEF FindRootGraph
  <1> HIDE DEF D, n
  <1>r1. \E g : g = step(g)
    <2>1. \A q \in D, k \in 1..n : F[<<q, k>>] = next(q, k)
      OBVIOUS
    <2> HIDE DEF F, next
    <2>2. \A q \in D, k \in 1..n : F[<<q, k>>] \in D
      BY <1>2, <2>1
    <2>3. PICK f : Solves(f, D, n, h, F)
      BY <1>1, <2>2, RunExists
    <2>4. f \in [0..n -> D] /\ f[0] = h /\ \A k \in 1..n : f[k] = F[<<f[k - 1], k>>]
      BY <2>3 DEF Solves
    <2>5. ASSUME NEW k \in 0..n PROVE f[k] = IF k = 0 THEN h ELSE next(f[k - 1], k)
      <3>1. CASE k = 0
        BY <2>4, <3>1
      <3>2. CASE k # 0
        <4>1. k \in 1..n /\ k - 1 \in 0..n
          BY <1>1, <3>2
        <4>2. f[k - 1] \in D
          BY <2>4, <4>1
        <4> QED
          BY <2>1, <2>4, <3>2, <4>1, <4>2
      <3> QED
        BY <3>1, <3>2
    <2>6. f = [k \in 0..n |-> f[k]]
      BY <2>4
    <2>7. f = step(f)
      BY <2>5, <2>6
    <2> QED
      BY <2>7
  <1>r2. c = step(c)
    <2> HIDE DEF step
    <2> QED
      BY <1>r1
  <1> HIDE DEF c
  <1>r3. DOMAIN c = 0..n /\ c = [k \in 0..n |-> c[k]] /\ c[0] = h /\ \A k \in 1..n : c[k] = next(c[k - 1], k)
    <2> HIDE DEF next
    <2>1. DOMAIN c = 0..n /\ \A k \in 0..n : c[k] = IF k = 0 THEN h ELSE next(c[k - 1], k)
      BY <1>r2
    <2>2. c = [k \in 0..n |-> c[k]]
      BY <1>r2
    <2>3. 0 \in 0..n /\ \A k \in 1..n : k \in 0..n /\ k # 0
      BY <1>1
    <2> QED
      BY <2>1, <2>2, <2>3
  <1>r4. c \in [0..n -> D] /\ c[n] \in D
    <2> HIDE DEF next
    <2>1. \A k \in 1..n : c[k - 1] \in D => c[k] \in D
      BY <1>2, <1>r3
    <2>2. c \in [0..n -> D]
      BY <1>1, <1>r3, <2>1, RunStays
    <2> QED
      BY <1>1, <2>2
  <1> WITNESS c
  <1> QED
    BY <1>3, <1>r3, <1>r4 DEF WayUp, D, n

(* With as many steps as there are graphs it ends where there is no parent.   *)
LEMMA WayUpEnds ==
  ASSUME NEW G \in Trees, NEW h \in Graphs, ParentsRight(G), NEW c, WayUp(G, h, c)
  PROVE  G[c[Cardinality(Graphs)]].parentGraph = None
  <1> DEFINE n == Cardinality(Graphs)
  <1>0. n \in Nat /\ IsFiniteSet(Graphs)
    BY FS_CardinalityType, ContentAssumption
  <1>1. PICK rank : Ranked(G, rank)
    BY DEF ParentsRight
  <1> DEFINE down(k) == \A i, j \in 0..k : i < j => rank[c[j]] < rank[c[i]]
             A == {k \in 0..n : G[c[k]].parentGraph = None \/ down(k)}
  <1>2. c \in [0..n -> Graphs] /\ \A k \in 1..n : c[k] = IF G[c[k - 1]].parentGraph = None THEN c[k - 1] ELSE G[c[k - 1]].parentGraph
    BY DEF WayUp
  <1>3. rank \in [Graphs -> Nat] /\ \A g \in Graphs : G[g].parentGraph # None => rank[G[g].parentGraph] < rank[g]
    BY <1>1 DEF Ranked
  <1> HIDE DEF n
  <1>4. 0 \in A
    <2>1. down(0)
      OBVIOUS
    <2> QED
      BY <1>0, <2>1
  <1>5. ASSUME NEW k \in 1..n, k - 1 \in A PROVE k \in A
    <2>0. k \in 0..n /\ k - 1 \in 0..n /\ k \in Nat
      BY <1>0
    <2>1. CASE G[c[k - 1]].parentGraph = None
      <3>1. c[k] = c[k - 1]
        BY <1>2, <2>1
      <3> QED
        BY <2>0, <2>1, <3>1
    <2>2. CASE G[c[k - 1]].parentGraph # None
      <3>1. down(k - 1) /\ c[k] = G[c[k - 1]].parentGraph /\ c[k - 1] \in Graphs
        BY <1>2, <1>5, <2>0, <2>2
      <3>2. rank[c[k]] < rank[c[k - 1]]
        BY <1>3, <2>2, <3>1
      <3>3. \A i \in 0..n : rank[c[i]] \in Nat
        BY <1>2, <1>3
      <3>4. down(k)
        <4> SUFFICES ASSUME NEW i \in 0..k, NEW j \in 0..k, i < j PROVE rank[c[j]] < rank[c[i]]
          OBVIOUS
        <4>1. CASE j = k
          <5>1. i \in 0..(k - 1)
            BY <2>0, <4>1
          <5>2. CASE i = k - 1
            BY <3>2, <4>1, <5>2
          <5>3. CASE i # k - 1
            <6>1. i < k - 1 /\ k - 1 \in 0..(k - 1)
              BY <2>0, <5>1, <5>3
            <6>2. rank[c[k - 1]] < rank[c[i]]
              BY <3>1, <5>1, <6>1
            <6>3. rank[c[k - 1]] \in Nat /\ rank[c[i]] \in Nat /\ rank[c[k]] \in Nat
              BY <1>0, <2>0, <3>3, <5>1
            <6> HIDE DEF down
            <6> QED
              BY <3>2, <4>1, <6>2, <6>3
          <5> QED
            BY <5>2, <5>3
        <4>2. CASE j # k
          <5>1. i \in 0..(k - 1) /\ j \in 0..(k - 1)
            BY <2>0, <4>2
          <5> QED
            BY <3>1, <5>1
        <4> QED
          BY <4>1, <4>2
      <3> QED
        BY <2>0, <3>4
    <2> QED
      BY <2>1, <2>2
  <1>6. n \in A
    <2> HIDE DEF A
    <2>1. \A k \in 0..n : k \in A
      BY <1>0, <1>4, <1>5, CountUp
    <2> QED
      BY <1>0, <2>1
  <1>7. ~down(n)
    <2> SUFFICES ASSUME down(n) PROVE FALSE
      OBVIOUS
    <2>1. IsFiniteSet(0..n) /\ Cardinality(0..n) = n + 1
      BY <1>0, FS_Interval
    <2>a. Cardinality(Graphs) < Cardinality(0..n)
      BY <1>0, <2>1 DEF n
    <2>2. PICK i, j \in 0..n : i # j /\ c[i] = c[j]
      BY <1>0, <1>2, <2>1, <2>a, FS_PigeonHole
    <2>3. rank[c[i]] \in Nat /\ rank[c[j]] \in Nat
      BY <1>2, <1>3
    <2>4. i < j \/ j < i
      BY <2>2
    <2>5. rank[c[i]] < rank[c[j]] \/ rank[c[j]] < rank[c[i]]
      BY <2>4
    <2> HIDE DEF down
    <2> QED
      BY <2>2, <2>3, <2>5
  <1> QED
    BY <1>6, <1>7 DEF n

LEMMA RootIs ==
  ASSUME NEW G \in Trees, NEW h \in Graphs, ParentsRight(G)
  PROVE  /\ FindRootGraph(G, h) \in Graphs /\ G[FindRootGraph(G, h)].parentGraph = None
         /\ G[h].parentGraph = None => FindRootGraph(G, h) = h
         /\ G[h].parentGraph # None => FindRootGraph(G, h) = FindRootGraph(G, G[h].parentGraph)
  <1> DEFINE n == Cardinality(Graphs)
  <1>0. n \in Nat /\ n > 0
    <2>1. IsFiniteSet(Graphs)
      BY ContentAssumption
    <2>2. Graphs # {}
      OBVIOUS
    <2> QED
      BY <2>1, <2>2, FS_CardinalityType, FS_EmptySet
  <1>1. PICK c : WayUp(G, h, c)
    BY WayUpExists
  <1>2. c \in [0..n -> Graphs] /\ c[0] = h /\ FindRootGraph(G, h) = c[n]
        /\ \A k \in 1..n : c[k] = IF G[c[k - 1]].parentGraph = None THEN c[k - 1] ELSE G[c[k - 1]].parentGraph
    BY <1>1 DEF WayUp
  <1>3. G[c[n]].parentGraph = None
    BY <1>1, WayUpEnds
  <1> HIDE DEF n
  <1>4. ASSUME G[h].parentGraph = None PROVE c[n] = h
    <2> DEFINE A == {k \in 0..n : c[k] = h}
    <2>1. 0 \in A
      BY <1>0, <1>2
    <2>2. \A k \in 1..n : k - 1 \in A => k \in A
      BY <1>0, <1>2, <1>4
    <2> HIDE DEF A
    <2>3. \A k \in 0..n : k \in A
      BY <1>0, <2>1, <2>2, CountUp
    <2> QED
      BY <1>0, <2>3 DEF A
  <1>5. ASSUME G[h].parentGraph # None PROVE c[n] = FindRootGraph(G, G[h].parentGraph)
    <2> DEFINE p == G[h].parentGraph
    <2>1. p \in Graphs
      BY <1>5, FieldsOf
    <2> HIDE DEF p
    <2>2. PICK d : WayUp(G, p, d)
      BY <2>1, WayUpExists
    <2>3. d \in [0..n -> Graphs] /\ d[0] = p /\ FindRootGraph(G, p) = d[n]
        /\ \A k \in 1..n : d[k] = IF G[d[k - 1]].parentGraph = None THEN d[k - 1] ELSE G[d[k - 1]].parentGraph
      BY <2>2 DEF WayUp, n
    <2> DEFINE A == {k \in 0..(n - 1) : d[k] = c[k + 1]}
    <2>4. 0 \in A
      <3>1. 1 \in 1..n /\ 0 \in 0..(n - 1) /\ 1 - 1 = 0 /\ 0 + 1 = 1
        BY <1>0
      <3>2. c[1] = p
        BY <1>2, <1>5, <3>1 DEF p
      <3> QED
        BY <2>3, <3>1, <3>2
    <2>5. \A k \in 1..(n - 1) : k - 1 \in A => k \in A
      <3> SUFFICES ASSUME NEW k \in 1..(n - 1), d[k - 1] = c[k] PROVE d[k] = c[k + 1] /\ k \in 0..(n - 1)
        BY <1>0
      <3>1. k \in 1..n /\ k + 1 \in 1..n /\ (k + 1) - 1 = k /\ k \in 0..(n - 1)
        BY <1>0
      <3>2. c[k + 1] = IF G[c[k]].parentGraph = None THEN c[k] ELSE G[c[k]].parentGraph
        BY <1>2, <3>1
      <3>3. d[k] = IF G[d[k - 1]].parentGraph = None THEN d[k - 1] ELSE G[d[k - 1]].parentGraph
        BY <2>3, <3>1
      <3> QED
        BY <3>1, <3>2, <3>3
    <2>6. d[n - 1] = c[n]
      <3> HIDE DEF A
      <3>1. n - 1 \in Nat /\ n - 1 \in 0..(n - 1) /\ (n - 1) + 1 = n
        BY <1>0
      <3>2. \A k \in 0..(n - 1) : k \in A
        BY <2>4, <2>5, <3>1, CountUp
      <3> QED
        BY <3>1, <3>2 DEF A
    <2>7. d[n] = d[n - 1]
      <3>1. n \in 1..n
        BY <1>0
      <3> QED
        BY <1>3, <2>3, <2>6, <3>1
    <2> QED
      BY <2>3, <2>6, <2>7 DEF p
  <1>6. c[n] \in Graphs
    BY <1>0, <1>2
  <1> QED
    BY <1>2, <1>3, <1>4, <1>5, <1>6

(* Names of parents alone decide who is above whom.                           *)
LEMMA ParentsKept ==
  ASSUME NEW G \in Trees, NEW H \in Trees, ParentsRight(G), SameNames(G, H),
         \A g \in Graphs : \A x \in ToSet(H[g].list) : G[x].parentGraph # None
  PROVE  ParentsRight(H)
  <1>1. PICK rank : Ranked(G, rank)
    BY DEF ParentsRight
  <1>2. Ranked(H, rank)
    BY <1>1 DEF Ranked, SameNames
  <1>3. \A g \in Graphs : \A x \in ToSet(H[g].list) : H[x].parentGraph # None
    <2> SUFFICES ASSUME NEW g \in Graphs, NEW x \in ToSet(H[g].list) PROVE H[x].parentGraph # None
      OBVIOUS
    <2>1. x \in Graphs
      BY FieldsOf, ToSetIs
    <2> QED
      BY <2>1 DEF SameNames
  <1>4. \A g \in Graphs : H[g].parentGraph = None <=> H[g].parentNode = None
    BY DEF SameNames, ParentsRight
  <1> QED
    BY <1>2, <1>3, <1>4 DEF ParentsRight

(* A root that gets parents in another tree is above no graph it was not      *)
(* above before: everything in its tree moves down together.                  *)
LEMMA ParentedRight ==
  ASSUME NEW G \in Trees, NEW H \in Trees, ParentsRight(G), NEW g \in Graphs, NEW p \in Graphs,
         G[g].parentGraph = None, FindRootGraph(G, p) # g,
         H[g].parentGraph = p, H[g].parentNode # None,
         \A x \in Graphs : H[x].list = G[x].list,
         \A x \in Graphs \ {g} : H[x].parentGraph = G[x].parentGraph /\ H[x].parentNode = G[x].parentNode
  PROVE  ParentsRight(H)
  <1>0. p # None
    BY ContentAssumption
  <1>1. PICK rank : Ranked(G, rank)
    BY DEF ParentsRight
  <1>2. rank \in [Graphs -> Nat] /\ \A x \in Graphs : G[x].parentGraph # None => rank[G[x].parentGraph] < rank[x]
    BY <1>1 DEF Ranked
  <1> DEFINE low == [x \in Graphs |-> rank[x] + (IF FindRootGraph(G, x) = g THEN rank[p] + 1 ELSE 0)]
  <1>3. low \in [Graphs -> Nat]
    BY <1>2
  <1>4. ASSUME NEW x \in Graphs, H[x].parentGraph # None PROVE low[H[x].parentGraph] < low[x]
    <2>1. CASE x = g
      <3>1. FindRootGraph(G, g) = g
        BY RootIs
      <3>2. low[g] = rank[g] + (rank[p] + 1) /\ low[p] = rank[p] /\ rank[g] \in Nat /\ rank[p] \in Nat
        BY <1>2, <3>1
      <3>3. low[p] < low[g]
        <4> HIDE DEF low
        <4> QED
          BY <3>2
      <3> QED
        BY <2>1, <3>3
    <2>2. CASE x # g
      <3> DEFINE q == G[x].parentGraph
      <3>1. q # None /\ q \in Graphs /\ H[x].parentGraph = q
        BY <1>4, <2>2, FieldsOf
      <3>2. FindRootGraph(G, x) = FindRootGraph(G, q) /\ rank[q] < rank[x]
        BY <1>2, <3>1, RootIs
      <3> HIDE DEF q
      <3>3. low[q] < low[x]
        BY <1>2, <3>1, <3>2
      <3> QED
        BY <3>1, <3>3
    <2> QED
      BY <2>1, <2>2
  <1> HIDE DEF low
  <1>5. Ranked(H, low)
    BY <1>3, <1>4 DEF Ranked
  <1>6. \A x \in Graphs : H[x].parentGraph = None <=> H[x].parentNode = None
    BY <1>0 DEF ParentsRight
  <1>7. ASSUME NEW x \in Graphs, NEW y \in ToSet(H[x].list) PROVE H[y].parentGraph # None
    <2>1. y \in Graphs /\ y \in ToSet(G[x].list)
      BY FieldsOf, ToSetIs
    <2>2. G[y].parentGraph # None
      BY <2>1 DEF ParentsRight
    <2> QED
      BY <2>1, <2>2, <1>0
  <1> QED
    BY <1>5, <1>6, <1>7 DEF ParentsRight

-----------------------------------------------------------------------------
(* The node lists.                                                            *)

(* InsertAt puts the element at the position and moves the ones behind it.    *)
LEMMA InsertAtPlaces ==
  ASSUME NEW S, NEW s \in Seq(S), NEW i \in 1..(Len(s) + 1), NEW e \in S
  PROVE  /\ InsertAt(s, i, e) \in Seq(S)
         /\ Len(InsertAt(s, i, e)) = Len(s) + 1
         /\ \A j \in 1..(Len(s) + 1) : InsertAt(s, i, e)[j] = IF j < i THEN s[j] ELSE IF j = i THEN e ELSE s[j - 1]
  <1> DEFINE front == SubSeq(s, 1, i - 1)
             back == SubSeq(s, i, Len(s))
             mid == front \o <<e>>
             all == mid \o back
  <1>1. Len(s) \in Nat /\ \A j \in 1..Len(s) : s[j] \in S
    BY ElementOfSeq, LenProperties
  <1>2. front \in Seq(S) /\ Len(front) = i - 1 /\ \A j \in 1..(i - 1) : front[j] = s[j]
    BY <1>1, SubSeqProperties
  <1>3. back \in Seq(S) /\ Len(back) = Len(s) - i + 1 /\ \A j \in 1..(Len(s) - i + 1) : back[j] = s[i + j - 1]
    BY <1>1, SubSeqProperties
  <1>4. <<e>> \in Seq(S) /\ Len(<<e>>) = 1 /\ <<e>>[1] = e
    OBVIOUS
  <1> HIDE DEF front, back
  <1>5. /\ mid \in Seq(S) /\ Len(mid) = i
        /\ \A j \in 1..i : mid[j] = IF j <= i - 1 THEN front[j] ELSE <<e>>[j - (i - 1)]
    BY <1>2, <1>4, ConcatProperties
  <1> HIDE DEF mid
  <1>6. /\ all \in Seq(S) /\ Len(all) = Len(s) + 1
        /\ \A j \in 1..(Len(s) + 1) : all[j] = IF j <= i THEN mid[j] ELSE back[j - i]
    BY <1>1, <1>3, <1>5, ConcatProperties
  <1>7. InsertAt(s, i, e) = all
    BY DEF InsertAt, mid, front, back
  <1> HIDE DEF all
  <1>8. ASSUME NEW j \in 1..(Len(s) + 1)
        PROVE  all[j] = IF j < i THEN s[j] ELSE IF j = i THEN e ELSE s[j - 1]
    <2>1. CASE j < i
      <3>1. j \in 1..(i - 1) /\ j \in 1..i /\ j <= i
        BY <1>1, <2>1
      <3> QED
        BY <1>2, <1>5, <1>6, <2>1, <3>1
    <2>2. CASE j = i
      <3>1. mid[j] = <<e>>[1]
        BY <1>5, <2>2
      <3> QED
        BY <1>4, <1>6, <2>2, <3>1
    <2>3. CASE j > i
      <3>1. j - i \in 1..(Len(s) - i + 1) /\ i + (j - i) - 1 = j - 1
        BY <1>1, <2>3
      <3>2. back[j - i] = s[j - 1]
        BY <1>3, <3>1
      <3> QED
        BY <1>1, <1>6, <2>3, <3>2
    <2>4. j < i \/ j = i \/ j > i
      BY <1>1
    <2> QED
      BY <1>1, <2>1, <2>2, <2>3, <2>4
  <1> QED
    BY <1>6, <1>7, <1>8

LEMMA DistinctInserted ==
  ASSUME NEW T, NEW s \in Seq(T), NEW i \in 1..(Len(s) + 1), NEW e \in T, IsDistinct(s), e \notin ToSet(s)
  PROVE  /\ InsertAt(s, i, e) \in Seq(T) /\ Len(InsertAt(s, i, e)) = Len(s) + 1
         /\ IsDistinct(InsertAt(s, i, e)) /\ ToSet(InsertAt(s, i, e)) = ToSet(s) \cup {e}
  <1> DEFINE r == InsertAt(s, i, e)
             from(j) == IF j < i THEN j ELSE j - 1
  <1>0. Len(s) \in Nat
    OBVIOUS
  <1>1a. r \in Seq(T)
    BY InsertAtPlaces
  <1>1b. Len(r) = Len(s) + 1
    BY InsertAtPlaces
  <1>1c. \A j \in 1..(Len(s) + 1) : r[j] = IF j < i THEN s[j] ELSE IF j = i THEN e ELSE s[j - 1]
    BY InsertAtPlaces
  <1> HIDE DEF r
  <1>2. r[i] = e /\ \A j \in 1..(Len(s) + 1) : j # i => r[j] = s[from(j)] /\ from(j) \in 1..Len(s)
    <2>1. r[i] = e
      BY <1>1c
    <2>2. ASSUME NEW j \in 1..(Len(s) + 1), j # i PROVE r[j] = s[from(j)] /\ from(j) \in 1..Len(s)
      <3>1. from(j) \in 1..Len(s)
        BY <1>0, <2>2
      <3> QED
        BY <1>1c, <2>2, <3>1
    <2> QED
      BY <2>1, <2>2
  <1>3. \A j, k \in 1..(Len(s) + 1) : j # i /\ k # i /\ from(j) = from(k) => j = k
    BY <1>0
  <1>4. \A k \in 1..Len(s) : \E j \in 1..(Len(s) + 1) : j # i /\ from(j) = k
    <2> SUFFICES ASSUME NEW k \in 1..Len(s) PROVE \E j \in 1..(Len(s) + 1) : j # i /\ from(j) = k
      OBVIOUS
    <2>1. CASE k < i
      <3>1. k \in 1..(Len(s) + 1) /\ k # i /\ from(k) = k
        BY <1>0, <2>1
      <3> QED
        BY <3>1
    <2>2. CASE ~(k < i)
      <3>1. k + 1 \in 1..(Len(s) + 1) /\ k + 1 # i /\ from(k + 1) = k
        BY <1>0, <2>2
      <3> QED
        BY <3>1
    <2> QED
      BY <2>1, <2>2
  <1> HIDE DEF from
  <1>5. DOMAIN r = 1..(Len(s) + 1) /\ DOMAIN s = 1..Len(s)
    BY <1>1a, <1>1b
  <1>6. \A j, k \in 1..Len(s) : s[j] = s[k] => j = k
    BY <1>5 DEF IsDistinct
  <1>7. \A k \in 1..Len(s) : s[k] # e
    BY ToSetIs
  <1>8. IsDistinct(r)
    <2> SUFFICES ASSUME NEW j \in 1..(Len(s) + 1), NEW k \in 1..(Len(s) + 1), r[j] = r[k] PROVE j = k
      BY <1>5 DEF IsDistinct
    <2>1. CASE j = i /\ k # i
      BY <1>2, <1>7, <2>1
    <2>2. CASE j # i /\ k = i
      BY <1>2, <1>7, <2>2
    <2>3. CASE j # i /\ k # i
      BY <1>2, <1>3, <1>6, <2>3
    <2> QED
      BY <2>1, <2>2, <2>3
  <1>9. ToSet(r) = ToSet(s) \cup {e}
    <2>1. ASSUME NEW x \in ToSet(r) PROVE x \in ToSet(s) \cup {e}
      <3>1. PICK j \in 1..(Len(s) + 1) : r[j] = x
        BY <1>1a, <1>1b, ToSetIs
      <3> QED
        BY <1>2, <3>1, ToSetIs
    <2>2. ASSUME NEW x \in ToSet(s) PROVE x \in ToSet(r)
      <3>1. PICK k \in 1..Len(s) : s[k] = x
        BY ToSetIs
      <3>2. PICK j \in 1..(Len(s) + 1) : j # i /\ from(j) = k
        BY <1>4
      <3>3. r[j] = x
        BY <1>2, <3>1, <3>2
      <3> QED
        BY <1>1a, <1>1b, <3>3, ToSetIs
    <2>3. e \in ToSet(r)
      BY <1>1a, <1>1b, <1>2, ToSetIs
    <2> QED
      BY <2>1, <2>2, <2>3
  <1> QED
    BY <1>1a, <1>1b, <1>8, <1>9 DEF r

(* The conjuncts of NodeListsAgree, of any graphs and owners.                 *)
NodesOK(e, g, own) ==
    /\ e.size = Len(e.nodes)
    /\ IsDistinct(e.nodes)
    /\ \A n \in ToSet(e.nodes) : own[n] = g
    /\ IsDistinct(e.outputs)
    /\ \A o \in ToSet(e.outputs) : Contains(e.nodes, o[1])
NodesAgreeIn(G, own) == \A g \in Graphs : NodesOK(G[g], g, own)

Owners == [TreeNodes -> Graphs \cup {None}]
TreeOK(G, own) == /\ G \in Trees /\ own \in Owners
                  /\ NodesAgreeIn(G, own) /\ RegistersAgreeIn(G) /\ ParentsRight(G)

(* A call that changes the nodes of one graph, and not the tree.              *)
NodesOf(G, H, h, q, k, o) ==
    /\ H \in Trees /\ \A g \in Graphs \ {h} : H[g] = G[g]
    /\ SameNames(G, H) /\ SameRegisters(G, H, Graphs)
    /\ H[h].nodes = q /\ H[h].size = k /\ H[h].outputs = o

SetGraph(G, h, f) == [G EXCEPT ![h] = f]

LEMMA GraphSet ==
  ASSUME NEW G \in Trees, NEW h \in Graphs, NEW f \in GraphRec,
         f.name = G[h].name, f.parentGraph = G[h].parentGraph, f.parentNode = G[h].parentNode,
         f.list = G[h].list, f.named = G[h].named
  PROVE  NodesOf(G, SetGraph(G, h, f), h, f.nodes, f.size, f.outputs)
  <1> DEFINE H == SetGraph(G, h, f)
  <1>1. H \in Trees /\ H[h] = f /\ \A g \in Graphs \ {h} : H[g] = G[g]
    BY DEF SetGraph, Trees
  <1> HIDE DEF H
  <1>2. SameNames(G, H)
    BY <1>1 DEF SameNames
  <1>3. SameRegisters(G, H, Graphs)
    BY <1>1 DEF SameRegisters
  <1>4. NodesOf(G, H, h, f.nodes, f.size, f.outputs)
    BY <1>1, <1>2, <1>3 DEF NodesOf
  <1> QED
    BY <1>4 DEF H

LEMMA SetsNodes ==
  ASSUME NEW G \in Trees, NEW h \in Graphs, NEW q \in Seq(TreeNodes), NEW k \in Nat
  PROVE  NodesOf(G, [G EXCEPT ![h].nodes = q, ![h].size = k], h, q, k, G[h].outputs)
  <1> DEFINE e == G[h]
             f == [e EXCEPT !.nodes = q, !.size = k]
  <1>1. [G EXCEPT ![h].nodes = q, ![h].size = k] = SetGraph(G, h, f)
    BY DEF Trees, SetGraph
  <1>2. e \in GraphRec
    BY FieldsOf
  <1> HIDE DEF e
  <1>3. /\ f \in GraphRec /\ f.nodes = q /\ f.size = k
        /\ f.outputs = e.outputs /\ f.list = e.list /\ f.named = e.named
        /\ f.name = e.name /\ f.parentGraph = e.parentGraph /\ f.parentNode = e.parentNode
    BY <1>2 DEF GraphRec
  <1> HIDE DEF f
  <1>4. NodesOf(G, SetGraph(G, h, f), h, f.nodes, f.size, f.outputs)
    BY <1>3, GraphSet DEF e
  <1> QED
    BY <1>1, <1>3, <1>4 DEF e

LEMMA SetsInputs ==
  ASSUME NEW G \in Trees, NEW h \in Graphs, NEW q \in Seq(TreeNodes)
  PROVE  NodesOf(G, [G EXCEPT ![h].inputs = q], h, G[h].nodes, G[h].size, G[h].outputs)
  <1> DEFINE e == G[h]
             f == [e EXCEPT !.inputs = q]
  <1>1. [G EXCEPT ![h].inputs = q] = SetGraph(G, h, f)
    BY DEF Trees, SetGraph
  <1>2. e \in GraphRec
    BY FieldsOf
  <1> HIDE DEF e
  <1>3. /\ f \in GraphRec /\ f.nodes = e.nodes /\ f.size = e.size
        /\ f.outputs = e.outputs /\ f.list = e.list /\ f.named = e.named
        /\ f.name = e.name /\ f.parentGraph = e.parentGraph /\ f.parentNode = e.parentNode
    BY <1>2 DEF GraphRec
  <1> HIDE DEF f
  <1>4. NodesOf(G, SetGraph(G, h, f), h, f.nodes, f.size, f.outputs)
    BY <1>3, GraphSet DEF e
  <1> QED
    BY <1>1, <1>3, <1>4 DEF e

LEMMA SetsOutputs ==
  ASSUME NEW G \in Trees, NEW h \in Graphs, NEW q \in Seq(TreeNodes \X OutIndexes)
  PROVE  NodesOf(G, [G EXCEPT ![h].outputs = q], h, G[h].nodes, G[h].size, q)
  <1> DEFINE e == G[h]
             f == [e EXCEPT !.outputs = q]
  <1>1. [G EXCEPT ![h].outputs = q] = SetGraph(G, h, f)
    BY DEF Trees, SetGraph
  <1>2. e \in GraphRec
    BY FieldsOf
  <1> HIDE DEF e
  <1>3. /\ f \in GraphRec /\ f.nodes = e.nodes /\ f.size = e.size
        /\ f.outputs = q /\ f.list = e.list /\ f.named = e.named
        /\ f.name = e.name /\ f.parentGraph = e.parentGraph /\ f.parentNode = e.parentNode
    BY <1>2 DEF GraphRec
  <1> HIDE DEF f
  <1>4. NodesOf(G, SetGraph(G, h, f), h, f.nodes, f.size, f.outputs)
    BY <1>3, GraphSet DEF e
  <1> QED
    BY <1>1, <1>3, <1>4 DEF e

LEMMA NodesSame ==
  ASSUME NEW G \in Trees, NEW h \in Graphs
  PROVE  NodesOf(G, G, h, G[h].nodes, G[h].size, G[h].outputs)
  BY DEF NodesOf, SameNames, SameRegisters

LEMMA NodesThen ==
  ASSUME NEW G, NEW H, NEW K, NEW h \in Graphs, NEW q, NEW k, NEW o, NEW q2, NEW k2, NEW o2,
         NodesOf(G, H, h, q, k, o), NodesOf(H, K, h, q2, k2, o2)
  PROVE  NodesOf(G, K, h, q2, k2, o2)
  BY DEF NodesOf, SameNames, SameRegisters

LEMMA PushBackIs ==
  ASSUME NEW G \in Trees, NEW h \in Graphs, NEW n \in TreeNodes
  PROVE  NodesOf(G, PushBackToNodeList(G, h, n), h, Append(G[h].nodes, n), G[h].size + 1, G[h].outputs)
  <1> DEFINE q == Append(G[h].nodes, n)
             k == G[h].size + 1
  <1>1. q \in Seq(TreeNodes) /\ k \in Nat
    BY FieldsOf
  <1>2. PushBackToNodeList(G, h, n) = [G EXCEPT ![h].nodes = q, ![h].size = k]
    <2>1. PushBackToNodeList(G, h, n) = [G EXCEPT ![h].nodes = Append(@, n), ![h].size = @ + 1]
      BY DEF PushBackToNodeList
    <2> QED
      BY <2>1, FieldsOf DEF Trees, GraphRec
  <1> HIDE DEF q, k
  <1>3. NodesOf(G, [G EXCEPT ![h].nodes = q, ![h].size = k], h, q, k, G[h].outputs)
    BY <1>1, SetsNodes
  <1> QED
    BY <1>2, <1>3 DEF q, k

(* What such a call leaves.                                                   *)
LEMMA NodesLeft ==
  ASSUME NEW G, NEW own, TreeOK(G, own), NEW H, NEW own2 \in Owners, NEW h \in Graphs, NEW q, NEW k, NEW o,
         NodesOf(G, H, h, q, k, o), k = Len(q), IsDistinct(q), \A n \in ToSet(q) : own2[n] = h,
         IsDistinct(o), \A x \in ToSet(o) : Contains(q, x[1]),
         \A g \in Graphs \ {h} : \A n \in ToSet(G[g].nodes) : own2[n] = g
  PROVE  TreeOK(H, own2)
  <1>1. H \in Trees /\ SameNames(G, H) /\ SameRegisters(G, H, Graphs) /\ \A g \in Graphs \ {h} : H[g] = G[g]
    BY DEF NodesOf
  <1>2. G \in Trees /\ RegistersAgreeIn(G) /\ ParentsRight(G) /\ NodesAgreeIn(G, own)
    BY DEF TreeOK
  <1>3. NodesAgreeIn(H, own2)
    <2> SUFFICES ASSUME NEW g \in Graphs PROVE NodesOK(H[g], g, own2)
      BY DEF NodesAgreeIn
    <2>1. CASE g = h
      BY <2>1 DEF NodesOK, NodesOf
    <2>2. CASE g # h
      <3>1. NodesOK(G[g], g, own) /\ H[g] = G[g]
        BY <1>1, <1>2, <2>2 DEF NodesAgreeIn
      <3> QED
        BY <2>2, <3>1 DEF NodesOK
    <2> QED
      BY <2>1, <2>2
  <1>4. RegistersAgreeIn(H)
    <2> SUFFICES ASSUME NEW g \in Graphs
                 PROVE  /\ IsDistinct(H[g].list)
                        /\ ToSet(H[g].list) = {H[g].named[x] : x \in DOMAIN H[g].named}
                        /\ \A x \in DOMAIN H[g].named : H[H[g].named[x]].name = x
                        /\ \A c \in Graphs \ {g} : ToSet(H[g].list) \cap ToSet(H[c].list) = {}
      BY DEF RegistersAgreeIn
    <2>1. \A c \in Graphs : H[c].list = G[c].list /\ H[c].named = G[c].named
      BY <1>1 DEF SameRegisters
    <2>2. \A x \in DOMAIN G[g].named : G[g].named[x] \in Graphs
      BY <1>2, FieldsOf, RegisterIs
    <2>3. \A x \in DOMAIN H[g].named : H[H[g].named[x]].name = x
      BY <1>1, <1>2, <2>1, <2>2 DEF RegistersAgreeIn, SameNames
    <2>4. /\ IsDistinct(G[g].list)
          /\ ToSet(G[g].list) = {G[g].named[x] : x \in DOMAIN G[g].named}
          /\ \A c \in Graphs \ {g} : ToSet(G[g].list) \cap ToSet(G[c].list) = {}
      BY <1>2 DEF RegistersAgreeIn
    <2>5. \A c \in Graphs \ {g} : ToSet(H[g].list) \cap ToSet(H[c].list) = {}
      BY <2>1, <2>4
    <2>6. IsDistinct(H[g].list) /\ ToSet(H[g].list) = {H[g].named[x] : x \in DOMAIN H[g].named}
      BY <2>1, <2>4
    <2> QED
      BY <2>3, <2>5, <2>6
  <1>5. ParentsRight(H)
    <2>1. \A g \in Graphs : \A x \in ToSet(H[g].list) : G[x].parentGraph # None
      BY <1>1, <1>2 DEF SameRegisters, ParentsRight
    <2> QED
      BY <1>1, <1>2, <2>1, ParentsKept
  <1> QED
    BY <1>1, <1>3, <1>4, <1>5 DEF TreeOK

(* In which lists a node is.                                                  *)
LEMMA InOneList ==
  ASSUME NEW G, NEW own, TreeOK(G, own), NEW n \in TreeNodes, NEW g \in Graphs
  PROVE  /\ n \in ToSet(G[g].nodes) => own[n] = g
         /\ Contains(G[g].nodes, n) <=> n \in ToSet(G[g].nodes)
  <1>1. G \in Trees /\ NodesAgreeIn(G, own)
    BY DEF TreeOK
  <1>2. G[g].nodes \in Seq(TreeNodes)
    BY <1>1, FieldsOf
  <1>3. n \in ToSet(G[g].nodes) => own[n] = g
    BY <1>1 DEF NodesAgreeIn, NodesOK
  <1> QED
    BY <1>2, <1>3, ToSetIs DEF Contains

(* What a list of nodes may become: one more node, or the same.               *)
LEMMA NodeEnters ==
  ASSUME NEW G, NEW own, TreeOK(G, own), NEW h \in Graphs, NEW n \in TreeNodes,
         \A g \in Graphs : n \notin ToSet(G[g].nodes),
         NEW own2 \in Owners, own2[n] = h, \A m \in TreeNodes \ {n} : own2[m] = own[m],
         NEW H, NEW q, NodesOf(G, H, h, q, G[h].size + 1, G[h].outputs),
         q \in Seq(TreeNodes), Len(q) = Len(G[h].nodes) + 1, IsDistinct(q), ToSet(q) = ToSet(G[h].nodes) \cup {n}
  PROVE  TreeOK(H, own2)
  <1> DEFINE k == G[h].size + 1
             o == G[h].outputs
  <1>1. G \in Trees /\ NodesAgreeIn(G, own) /\ own \in Owners
    BY DEF TreeOK
  <1>2. own2[n] = h /\ \A m \in TreeNodes \ {n} : own2[m] = own[m]
    OBVIOUS
  <1>3. k = Len(q) /\ IsDistinct(o)
    BY <1>1 DEF NodesAgreeIn, NodesOK
  <1>4. \A g \in Graphs : ToSet(G[g].nodes) \subseteq TreeNodes
    BY <1>1, FieldsOf, ToSetIs
  <1>5. \A g \in Graphs : \A m \in ToSet(G[g].nodes) : m # n /\ own[m] = g
    BY <1>1 DEF NodesAgreeIn, NodesOK
  <1>6. \A g \in Graphs : \A m \in ToSet(G[g].nodes) : own2[m] = g
    BY <1>2, <1>4, <1>5
  <1>7. \A m \in ToSet(q) : own2[m] = h
    BY <1>2, <1>6
  <1>8. \A x \in ToSet(o) : Contains(q, x[1])
    <2> SUFFICES ASSUME NEW x \in ToSet(o) PROVE Contains(q, x[1])
      OBVIOUS
    <2>1. Contains(G[h].nodes, x[1]) /\ G[h].nodes \in Seq(TreeNodes)
      BY <1>1, FieldsOf DEF NodesAgreeIn, NodesOK
    <2>2. x[1] \in ToSet(G[h].nodes)
      BY <2>1, ToSetIs DEF Contains
    <2>3. x[1] \in ToSet(q)
      BY <2>2
    <2> QED
      BY <2>3, ToSetIs DEF Contains
  <1>9. NodesOf(G, H, h, q, k, o)
    OBVIOUS
  <1>10. \A g \in Graphs \ {h} : \A m \in ToSet(G[g].nodes) : own2[m] = g
    BY <1>6
  <1> HIDE DEF k, o
  <1>12. k = Len(q) /\ IsDistinct(q) /\ IsDistinct(o)
    BY <1>3
  <1> QED
    BY <1>7, <1>8, <1>9, <1>10, <1>12, NodesLeft

LEMMA NodePushed ==
  ASSUME NEW G, NEW own, TreeOK(G, own), NEW h \in Graphs, NEW n \in TreeNodes, NEW own2 \in Owners,
         \A g \in Graphs : n \notin ToSet(G[g].nodes), own2[n] = h, \A m \in TreeNodes \ {n} : own2[m] = own[m]
  PROVE  TreeOK(PushBackToNodeList(G, h, n), own2)
  <1> DEFINE q == Append(G[h].nodes, n)
             H == PushBackToNodeList(G, h, n)
  <1>1. G \in Trees /\ G[h].nodes \in Seq(TreeNodes) /\ IsDistinct(G[h].nodes)
    BY FieldsOf DEF TreeOK, NodesAgreeIn, NodesOK
  <1>2. q \in Seq(TreeNodes) /\ Len(q) = Len(G[h].nodes) + 1 /\ IsDistinct(q) /\ ToSet(q) = ToSet(G[h].nodes) \cup {n}
    BY <1>1, DistinctAppend
  <1>3. NodesOf(G, H, h, q, G[h].size + 1, G[h].outputs)
    BY <1>1, PushBackIs
  <1> HIDE DEF q, H
  <1>4. TreeOK(H, own2)
    BY <1>2, <1>3, NodeEnters
  <1> QED
    BY <1>4 DEF H

(* The outputs of a graph may grow by the node that is listed then.           *)
LEMMA NodeEnsured ==
  ASSUME NEW G, NEW own, TreeOK(G, own), NEW h \in Graphs, NEW n \in TreeNodes, own[n] = h,
         NEW H, NEW o, NodesOf(G, H, h, G[h].nodes, G[h].size, o), IsDistinct(o),
         \A x \in ToSet(o) : x[1] = n \/ x \in ToSet(G[h].outputs)
  PROVE  TreeOK(EnsureListed(H, h, n), own)
  <1>1. G \in Trees /\ NodesAgreeIn(G, own) /\ own \in Owners
    BY DEF TreeOK
  <1>2. H \in Trees /\ H[h].nodes = G[h].nodes /\ H[h].size = G[h].size /\ H[h].outputs = o
    BY DEF NodesOf
  <1>3. G[h].nodes \in Seq(TreeNodes) /\ IsDistinct(G[h].nodes) /\ G[h].size = Len(G[h].nodes)
        /\ \A m \in ToSet(G[h].nodes) : own[m] = h
    BY <1>1, FieldsOf DEF NodesAgreeIn, NodesOK
  <1>4. \A g \in Graphs : \A m \in ToSet(G[g].nodes) : own[m] = g
    BY <1>1 DEF NodesAgreeIn, NodesOK
  <1>5. \A x \in ToSet(o) : x[1] = n \/ x[1] \in ToSet(G[h].nodes)
    BY <1>1, <1>3, ToSetIs DEF NodesAgreeIn, NodesOK, Contains
  <1>6. CASE n \in ToSet(G[h].nodes)
    <2>1. EnsureListed(H, h, n) = H
      BY <1>2, <1>3, <1>6, ToSetIs DEF EnsureListed, Contains
    <2>2. \A x \in ToSet(o) : Contains(G[h].nodes, x[1])
      BY <1>3, <1>5, <1>6, ToSetIs DEF Contains
    <2>3. TreeOK(H, own)
      BY <1>1, <1>3, <1>4, <2>2, NodesLeft
    <2> QED
      BY <2>1, <2>3
  <1>7. CASE n \notin ToSet(G[h].nodes)
    <2> DEFINE q == Append(G[h].nodes, n)
               k == G[h].size + 1
               K == PushBackToNodeList(H, h, n)
    <2>1. EnsureListed(H, h, n) = K
      BY <1>2, <1>3, <1>7, ToSetIs DEF EnsureListed, Contains
    <2>2. NodesOf(H, K, h, q, k, o)
      BY <1>2, PushBackIs
    <2>3. q \in Seq(TreeNodes) /\ Len(q) = Len(G[h].nodes) + 1 /\ IsDistinct(q) /\ ToSet(q) = ToSet(G[h].nodes) \cup {n}
      BY <1>3, <1>7, DistinctAppend
    <2>4. k = Len(q)
      BY <1>3, <2>3
    <2> HIDE DEF q, k, K
    <2>5. NodesOf(G, K, h, q, k, o)
      BY <2>2, NodesThen
    <2>6. \A m \in ToSet(q) : own[m] = h
      BY <1>3, <2>3
    <2>7. \A x \in ToSet(o) : Contains(q, x[1])
      <3> SUFFICES ASSUME NEW x \in ToSet(o) PROVE Contains(q, x[1])
        OBVIOUS
      <3>1. x[1] \in ToSet(q)
        BY <1>5, <2>3
      <3> QED
        BY <2>3, <3>1, ToSetIs DEF Contains
    <2>8. TreeOK(K, own)
      BY <1>1, <1>4, <2>4, <2>3, <2>5, <2>6, <2>7, NodesLeft
    <2> QED
      BY <2>1, <2>8
  <1> QED
    BY <1>6, <1>7

LEMMA OneRemoved ==
  ASSUME NEW T, NEW s \in Seq(T), NEW e
  PROVE  RemoveFirst(s, e) \in Seq(T)
  <1>1. CASE \E i \in 1..Len(s) : s[i] = e
    BY <1>1, CountRemoveFirst
  <1>2. CASE ~ \E i \in 1..Len(s) : s[i] = e
    BY <1>2 DEF RemoveFirst
  <1> QED
    BY <1>1, <1>2

LEMMA EraseIs ==
  ASSUME NEW G \in Trees, NEW h \in Graphs, NEW n \in ToSet(G[h].nodes), G[h].size = Len(G[h].nodes)
  PROVE  NodesOf(G, EraseFromNodeList(G, h, n), h, RemoveFirst(G[h].nodes, n), G[h].size - 1, G[h].outputs)
  <1> DEFINE q == RemoveFirst(G[h].nodes, n)
             k == G[h].size - 1
  <1>1. q \in Seq(TreeNodes) /\ k \in Nat
    <2>1. G[h].nodes \in Seq(TreeNodes)
      BY FieldsOf
    <2>2. q \in Seq(TreeNodes)
      BY <2>1, OneRemoved
    <2>3. \E i \in 1..Len(G[h].nodes) : G[h].nodes[i] = n
      BY <2>1, ToSetIs
    <2>4. k \in Nat
      BY <2>1, <2>3
    <2> QED
      BY <2>2, <2>4
  <1>2. EraseFromNodeList(G, h, n) = [G EXCEPT ![h].nodes = q, ![h].size = k]
    <2>1. EraseFromNodeList(G, h, n) = [G EXCEPT ![h].nodes = RemoveFirst(@, n), ![h].size = @ - 1]
      BY DEF EraseFromNodeList
    <2> QED
      BY <2>1, FieldsOf DEF Trees, GraphRec
  <1> HIDE DEF q, k
  <1>3. NodesOf(G, [G EXCEPT ![h].nodes = q, ![h].size = k], h, q, k, G[h].outputs)
    BY <1>1, SetsNodes
  <1> QED
    BY <1>2, <1>3 DEF q, k

(* A node that is no output leaves the list.                                  *)
LEMMA NodeLeaves ==
  ASSUME NEW G, NEW own, TreeOK(G, own), NEW h \in Graphs, NEW n \in ToSet(G[h].nodes),
         \A x \in ToSet(G[h].outputs) : x[1] # n
  PROVE  TreeOK(EraseFromNodeList(G, h, n), own)
  <1> DEFINE q == RemoveFirst(G[h].nodes, n)
             k == G[h].size - 1
             o == G[h].outputs
             H == EraseFromNodeList(G, h, n)
  <1>1. G \in Trees /\ NodesAgreeIn(G, own) /\ own \in Owners
    BY DEF TreeOK
  <1>2. G[h].nodes \in Seq(TreeNodes) /\ IsDistinct(G[h].nodes) /\ G[h].size = Len(G[h].nodes) /\ IsDistinct(o)
    BY <1>1, FieldsOf DEF NodesAgreeIn, NodesOK
  <1>3. \A g \in Graphs : \A m \in ToSet(G[g].nodes) : own[m] = g
    BY <1>1 DEF NodesAgreeIn, NodesOK
  <1>4. q \in Seq(TreeNodes) /\ IsDistinct(q) /\ ToSet(q) = ToSet(G[h].nodes) \ {n} /\ Len(q) = Len(G[h].nodes) - 1
    BY <1>2, DistinctRemoved
  <1>5. k = Len(q)
    BY <1>2, <1>4
  <1>6. NodesOf(G, H, h, q, k, o)
    BY <1>1, <1>2, EraseIs
  <1>7. \A x \in ToSet(o) : Contains(q, x[1])
    <2> SUFFICES ASSUME NEW x \in ToSet(o) PROVE Contains(q, x[1])
      OBVIOUS
    <2>1. Contains(G[h].nodes, x[1])
      BY <1>1 DEF NodesAgreeIn, NodesOK
    <2>2. x[1] \in ToSet(G[h].nodes) /\ x[1] # n
      BY <1>2, <2>1, ToSetIs DEF Contains
    <2>3. x[1] \in ToSet(q)
      BY <1>4, <2>2
    <2> HIDE DEF q, o
    <2> QED
      BY <1>4, <2>3, ToSetIs DEF Contains
  <1> HIDE DEF q, k, o, H
  <1>8. TreeOK(H, own)
    BY <1>1, <1>2, <1>3, <1>4, <1>5, <1>6, <1>7, NodesLeft
  <1> QED
    BY <1>8 DEF H

-----------------------------------------------------------------------------
(* Taking graphs out of a register.                                           *)
LEMMA RegistersLeft ==
  ASSUME NEW G, NEW own, TreeOK(G, own), NEW H \in Trees, SameNodes(G, H), SameNames(G, H), RegistersAgreeIn(H),
         \A g \in Graphs : \A x \in ToSet(H[g].list) : G[x].parentGraph # None
  PROVE  TreeOK(H, own)
  <1>1. G \in Trees /\ own \in Owners /\ NodesAgreeIn(G, own) /\ ParentsRight(G)
    BY DEF TreeOK
  <1>2. NodesAgreeIn(H, own)
    BY <1>1 DEF NodesAgreeIn, NodesOK, SameNodes
  <1>3. ParentsRight(H)
    BY <1>1, ParentsKept
  <1> QED
    BY <1>1, <1>2, <1>3 DEF TreeOK

LEMMA ListedHaveParents ==
  ASSUME NEW G, NEW own, TreeOK(G, own), NEW h \in Graphs
  PROVE  /\ G[h].list \in Seq(Graphs) /\ G[h].named \in Registers /\ IsDistinct(G[h].list)
         /\ ToSet(G[h].list) \subseteq Graphs /\ \A x \in ToSet(G[h].list) : G[x].parentGraph # None
         /\ \A x \in DOMAIN G[h].named : G[h].named[x] \in ToSet(G[h].list) /\ G[G[h].named[x]].name = x
         /\ \A g \in ToSet(G[h].list) : G[g].name \in DOMAIN G[h].named /\ G[h].named[G[g].name] = g
  <1>1. G \in Trees /\ RegistersAgreeIn(G) /\ ParentsRight(G)
    BY DEF TreeOK
  <1>2. G[h].list \in Seq(Graphs) /\ G[h].named \in Registers
    BY <1>1, FieldsOf
  <1>3. ToSet(G[h].list) \subseteq Graphs
    BY <1>2, ToSetIs
  <1>4. \A x \in ToSet(G[h].list) : G[x].parentGraph # None
    BY <1>1 DEF ParentsRight
  <1>5. /\ IsDistinct(G[h].list) /\ ToSet(G[h].list) = {G[h].named[x] : x \in DOMAIN G[h].named}
        /\ \A x \in DOMAIN G[h].named : G[G[h].named[x]].name = x
    BY <1>1 DEF RegistersAgreeIn
  <1>6. \A x \in DOMAIN G[h].named : G[h].named[x] \in ToSet(G[h].list) /\ G[G[h].named[x]].name = x
    BY <1>5
  <1>7. \A g \in ToSet(G[h].list) : G[g].name \in DOMAIN G[h].named /\ G[h].named[G[g].name] = g
    BY <1>5
  <1> QED
    BY <1>2, <1>3, <1>4, <1>5, <1>6, <1>7

LEMMA RemovedIsOK ==
  ASSUME NEW G, NEW own, TreeOK(G, own), NEW h \in Graphs, NEW name \in DOMAIN G[h].named,
         NEW H, Removed(G, H, h, name)
  PROVE  TreeOK(H, own)
  <1>1. G \in Trees /\ RegistersAgreeIn(G) /\ ParentsRight(G)
    BY DEF TreeOK
  <1>2. H \in Trees /\ SameNodes(G, H) /\ SameNames(G, H) /\ SameRegisters(G, H, Graphs \ {h})
    BY DEF Removed
  <1>3. RegistersAgreeIn(H) /\ ToSet(H[h].list) = ToSet(G[h].list) \ {G[h].named[name]}
    BY <1>1, RemovedAgree
  <1>4. ASSUME NEW g \in Graphs, NEW x \in ToSet(H[g].list) PROVE G[x].parentGraph # None
    <2>1. x \in ToSet(G[g].list)
      <3>1. CASE g = h
        BY <1>3, <3>1
      <3>2. CASE g # h
        BY <1>2, <3>2 DEF SameRegisters
      <3> QED
        BY <3>1, <3>2
    <2> QED
      BY <1>1, <2>1 DEF ParentsRight
  <1> QED
    BY <1>2, <1>3, <1>4, RegistersLeft

(* By the graph, as the older function takes it: it is in the register, or    *)
(* its name is in no use there.                                               *)
LEMMA SubGraphRemoved ==
  ASSUME NEW G, NEW own, TreeOK(G, own), NEW h \in Graphs, NEW g \in Graphs,
         G[g].name \in DOMAIN G[h].named => G[h].named[G[g].name] = g
  PROVE  LET H == RemoveSubGraph(G, h, g)
         IN  /\ TreeOK(H, own) /\ SameNodes(G, H) /\ SameNames(G, H)
             /\ DOMAIN H[h].named \subseteq DOMAIN G[h].named
             /\ \A x \in DOMAIN H[h].named : H[h].named[x] = G[h].named[x]
  <1> DEFINE x0 == G[g].name
             l == RemoveFirst(G[h].list, g)
             m == Dropping(G[h].named, x0)
             H == SetRegister(G, h, l, m)
  <1>1. G \in Trees /\ RegistersAgreeIn(G) /\ ParentsRight(G)
    BY DEF TreeOK
  <1>2. G[h].list \in Seq(Graphs) /\ G[h].named \in Registers /\ IsDistinct(G[h].list)
        /\ DOMAIN G[h].named \subseteq Names /\ \A x \in DOMAIN G[h].named : G[h].named[x] \in Graphs
    BY ListedHaveParents, RegisterIs
  <1>3. l \in Seq(Graphs) /\ IsDistinct(l) /\ ToSet(l) = ToSet(G[h].list) \ {g}
    BY <1>2, DistinctRemoved
  <1>4. DOMAIN m = DOMAIN G[h].named \ {x0} /\ \A x \in DOMAIN G[h].named \ {x0} : m[x] = G[h].named[x]
    BY DEF Dropping
  <1>5. m \in Registers
    <2>1. m \in [DOMAIN G[h].named \ {x0} -> Graphs]
      BY <1>2 DEF Dropping
    <2> HIDE DEF m
    <2>2. DOMAIN G[h].named \ {x0} \subseteq Names
      BY <1>2
    <2> QED
      BY <2>1, <2>2, IsRegister
  <1>6. RemoveSubGraph(G, h, g) = H
    <2>1. RemoveSubGraph(G, h, g) = [G EXCEPT ![h].list = RemoveFirst(@, g), ![h].named = Dropping(@, G[g].name)]
      BY DEF RemoveSubGraph
    <2> QED
      BY <1>1, <2>1, FieldsOf DEF Trees, GraphRec, SetRegister
  <1> HIDE DEF l, m, x0
  <1>7. /\ H \in Trees /\ SameNodes(G, H) /\ SameNames(G, H) /\ SameRegisters(G, H, Graphs \ {h})
        /\ H[h].list = l /\ H[h].named = m
    BY <1>1, <1>3, <1>5, RegisterSet
  <1> HIDE DEF H
  <1>8. RegistersAgreeIn(H)
    <2>1. \A x \in DOMAIN m : m[x] \in Graphs /\ G[m[x]].name = x
      BY <1>2, <1>4, ListedHaveParents
    <2>2. ToSet(l) = {m[x] : x \in DOMAIN m}
      <3>1. ASSUME NEW y \in ToSet(l) PROVE \E x \in DOMAIN m : y = m[x]
        <4>1. y \in ToSet(G[h].list) /\ y # g
          BY <1>3
        <4>2. G[y].name \in DOMAIN G[h].named /\ G[h].named[G[y].name] = y
          BY <4>1, ListedHaveParents
        <4>3. G[y].name # x0
          BY <4>1, <4>2 DEF x0
        <4> QED
          BY <1>4, <4>2, <4>3
      <3>2. ASSUME NEW x \in DOMAIN m PROVE m[x] \in ToSet(l)
        <4>1. x \in DOMAIN G[h].named /\ x # x0 /\ m[x] = G[h].named[x]
          BY <1>4
        <4>2. m[x] \in ToSet(G[h].list) /\ G[m[x]].name = x
          BY <4>1, ListedHaveParents
        <4>3. m[x] # g
          BY <4>1, <4>2 DEF x0
        <4> QED
          BY <1>3, <4>2, <4>3
      <3> QED
        BY <3>1, <3>2
    <2>3. \A k \in Graphs \ {h} : ToSet(l) \cap ToSet(G[k].list) = {}
      <3>1. \A k \in Graphs \ {h} : ToSet(G[h].list) \cap ToSet(G[k].list) = {}
        BY <1>1 DEF RegistersAgreeIn
      <3> QED
        BY <1>3, <3>1
    <2>4. DOMAIN m \subseteq Names
      BY <1>2, <1>4
    <2>5. SameNames(G, H) /\ SameRegisters(G, H, Graphs \ {h}) /\ DOMAIN H[h].named \subseteq Names
      BY <1>7, <2>4
    <2>6. \A x \in DOMAIN H[h].named : H[h].named[x] \in Graphs /\ G[H[h].named[x]].name = x
      BY <1>7, <2>1
    <2>7. IsDistinct(H[h].list) /\ ToSet(H[h].list) = {H[h].named[x] : x \in DOMAIN H[h].named}
      BY <1>3, <1>7, <2>2
    <2>8. \A k \in Graphs \ {h} : ToSet(H[h].list) \cap ToSet(G[k].list) = {}
      BY <1>7, <2>3
    <2> QED
      BY <1>1, <2>5, <2>6, <2>7, <2>8, RegistersByParts
  <1>9. ASSUME NEW k \in Graphs, NEW x \in ToSet(H[k].list) PROVE G[x].parentGraph # None
    <2>1. x \in ToSet(G[k].list)
      <3>1. CASE k = h
        BY <1>3, <1>7, <3>1
      <3>2. CASE k # h
        BY <1>7, <3>2 DEF SameRegisters
      <3> QED
        BY <3>1, <3>2
    <2> QED
      BY <1>1, <2>1 DEF ParentsRight
  <1>10. TreeOK(H, own)
    BY <1>7, <1>8, <1>9, RegistersLeft
  <1> QED
    BY <1>4, <1>6, <1>7, <1>10

(* By names: what remains is the rest, in order.                              *)
LEMMA SubgraphsRemoved ==
  ASSUME NEW G, NEW own, TreeOK(G, own), NEW h \in Graphs, NEW names
  PROVE  TreeOK(RemoveSubgraphs(G, h, names), own)
  <1> DEFINE d == G[h].named
             S == Graphs \ {d[x] : x \in names \cap DOMAIN d}
             l == Kept(G[h].list, S)
             m == [x \in DOMAIN d \ names |-> d[x]]
             H == SetRegister(G, h, l, m)
  <1>1. G \in Trees /\ RegistersAgreeIn(G) /\ ParentsRight(G)
    BY DEF TreeOK
  <1>2. G[h].list \in Seq(Graphs) /\ d \in Registers /\ IsDistinct(G[h].list)
        /\ DOMAIN d \subseteq Names /\ \A x \in DOMAIN d : d[x] \in Graphs
    BY ListedHaveParents, RegisterIs
  <1>3. l \in Seq(Graphs) /\ IsDistinct(l) /\ ToSet(l) = ToSet(G[h].list) \cap S
    <2> HIDE DEF S
    <2> QED
      BY <1>2, DistinctKept
  <1>4. DOMAIN m = DOMAIN d \ names /\ \A x \in DOMAIN d \ names : m[x] = d[x]
    OBVIOUS
  <1>5. m \in Registers
    <2>1. m \in [DOMAIN d \ names -> Graphs]
      BY <1>2
    <2> HIDE DEF m
    <2>2. DOMAIN d \ names \subseteq Names
      BY <1>2
    <2> QED
      BY <2>1, <2>2, IsRegister
  <1>6. RemoveSubgraphs(G, h, names) = H
    <2>1. RemoveSubgraphs(G, h, names) = [G EXCEPT ![h].list = Kept(@, S), ![h].named = [x \in DOMAIN @ \ names |-> @[x]]]
      BY DEF RemoveSubgraphs
    <2> HIDE DEF S
    <2> QED
      BY <1>1, <2>1, FieldsOf DEF Trees, GraphRec, SetRegister
  <1> HIDE DEF l, m
  <1>7. /\ H \in Trees /\ SameNodes(G, H) /\ SameNames(G, H) /\ SameRegisters(G, H, Graphs \ {h})
        /\ H[h].list = l /\ H[h].named = m
    BY <1>1, <1>3, <1>5, RegisterSet
  <1> HIDE DEF H
  <1>8. RegistersAgreeIn(H)
    <2>1. \A x \in DOMAIN m : m[x] \in Graphs /\ G[m[x]].name = x
      BY <1>2, <1>4, ListedHaveParents
    <2>2. ToSet(l) = {m[x] : x \in DOMAIN m}
      <3>1. ASSUME NEW y \in ToSet(l) PROVE \E x \in DOMAIN m : y = m[x]
        <4>1. y \in ToSet(G[h].list) /\ y \in S
          BY <1>3
        <4>2. G[y].name \in DOMAIN d /\ d[G[y].name] = y
          BY <4>1, ListedHaveParents
        <4>3. G[y].name \notin names
          BY <4>1, <4>2
        <4> QED
          BY <1>4, <4>2, <4>3
      <3>2. ASSUME NEW x \in DOMAIN m PROVE m[x] \in ToSet(l)
        <4>1. x \in DOMAIN d /\ x \notin names /\ m[x] = d[x]
          BY <1>4
        <4>2. m[x] \in ToSet(G[h].list) /\ G[m[x]].name = x /\ m[x] \in Graphs
          BY <1>2, <4>1, ListedHaveParents
        <4>3. ASSUME NEW y \in names \cap DOMAIN d, d[y] = m[x] PROVE FALSE
          BY <4>1, <4>2, <4>3, ListedHaveParents
        <4> QED
          BY <1>3, <4>2, <4>3
      <3> QED
        BY <3>1, <3>2
    <2>3. \A k \in Graphs \ {h} : ToSet(l) \cap ToSet(G[k].list) = {}
      <3>1. \A k \in Graphs \ {h} : ToSet(G[h].list) \cap ToSet(G[k].list) = {}
        BY <1>1 DEF RegistersAgreeIn
      <3> QED
        BY <1>3, <3>1
    <2>4. DOMAIN m \subseteq Names
      BY <1>2, <1>4
    <2>5. SameNames(G, H) /\ SameRegisters(G, H, Graphs \ {h}) /\ DOMAIN H[h].named \subseteq Names
      BY <1>7, <2>4
    <2>6. \A x \in DOMAIN H[h].named : H[h].named[x] \in Graphs /\ G[H[h].named[x]].name = x
      BY <1>7, <2>1
    <2>7. IsDistinct(H[h].list) /\ ToSet(H[h].list) = {H[h].named[x] : x \in DOMAIN H[h].named}
      BY <1>3, <1>7, <2>2
    <2>8. \A k \in Graphs \ {h} : ToSet(H[h].list) \cap ToSet(G[k].list) = {}
      BY <1>7, <2>3
    <2> QED
      BY <1>1, <2>5, <2>6, <2>7, <2>8, RegistersByParts
  <1>9. ASSUME NEW k \in Graphs, NEW x \in ToSet(H[k].list) PROVE G[x].parentGraph # None
    <2>1. x \in ToSet(G[k].list)
      <3>1. CASE k = h
        BY <1>3, <1>7, <3>1
      <3>2. CASE k # h
        BY <1>7, <3>2 DEF SameRegisters
      <3> QED
        BY <3>1, <3>2
    <2> QED
      BY <1>1, <2>1 DEF ParentsRight
  <1>10. TreeOK(H, own)
    BY <1>7, <1>8, <1>9, RegistersLeft
  <1> QED
    BY <1>6, <1>10

-----------------------------------------------------------------------------
(* Below a node.                                                              *)
SlotsOK == slots \in [TreeNodes -> Seq(Names \cup {None})]

LEMMA SubgraphFound ==
  ASSUME NEW G, NEW own, TreeOK(G, own), NEW h \in Graphs, NEW name
  PROVE  GetSubgraph(G, h, name) \in ToSet(G[FindRootGraph(G, h)].list) \cup {None}
  <1> DEFINE r == FindRootGraph(G, h)
  <1>1. r \in Graphs
    BY RootIs DEF TreeOK
  <1> HIDE DEF r
  <1>2. \A x \in DOMAIN G[r].named : G[r].named[x] \in ToSet(G[r].list)
    BY <1>1, ListedHaveParents
  <1>3. GetSubgraph(G, h, name) = IF name \in DOMAIN G[r].named THEN G[r].named[name] ELSE None
    BY DEF GetSubgraph, r
  <1>4. GetSubgraph(G, h, name) \in ToSet(G[r].list) \cup {None}
    BY <1>2, <1>3
  <1> QED
    BY <1>4 DEF r

Reached(S) == [left : Seq(TreeNodes), found : Seq(S)]
Visited(S) == [left : Seq(TreeNodes), all : Seq(TreeNodes), found : Seq(S)]

LEMMA InsertionsFound ==
  ASSUME NEW G, NEW own, TreeOK(G, own), SlotsOK, NEW h \in Graphs, NEW n \in TreeNodes, NEW rest \in Seq(TreeNodes)
  PROVE  Insertions(G, h, n, rest) \in Reached(ToSet(G[FindRootGraph(G, h)].list))
  <1> DEFINE S == ToSet(G[FindRootGraph(G, h)].list)
             D == Reached(S)
             last == Len(slots[n])
             first == [left |-> rest, found |-> << >>]
             at(k) == GetSubgraph(G, h, slots[n][last - k + 1])
             next(q, k) == IF at(k) = None THEN q ELSE [left |-> G[at(k)].nodes \o q.left, found |-> Append(q.found, at(k))]
             step(g) == [k \in 0..last |-> IF k = 0 THEN first ELSE next(g[k - 1], k)]
             F == [x \in D \X (1..last) |-> next(x[1], x[2])]
             c == CHOOSE g : g = step(g)
  <1>1. last \in Nat /\ first \in D
    <2>1. last \in Nat
      BY DEF SlotsOK
    <2>2. first \in D
      BY DEF Reached
    <2> QED
      BY <2>1, <2>2
  <1>2. \A q \in D, k \in 1..last : next(q, k) \in D
    <2> SUFFICES ASSUME NEW q \in D, NEW k \in 1..last PROVE next(q, k) \in D
      OBVIOUS
    <2>1. at(k) \in S \cup {None}
      BY SubgraphFound
    <2>2. S \subseteq Graphs
      BY RootIs, ListedHaveParents DEF TreeOK
    <2> DEFINE g == at(k)
               nodes == G[g].nodes
    <2>3. CASE g = None
      BY <2>3
    <2>4. CASE g # None
      <3>1. g \in S /\ g \in Graphs
        BY <2>1, <2>2, <2>4
      <3>2. nodes \in Seq(TreeNodes)
        BY <3>1, FieldsOf DEF TreeOK
      <3>3. next(q, k) = [left |-> nodes \o q.left, found |-> Append(q.found, g)]
        BY <2>4
      <3> HIDE DEF next, nodes, g, S
      <3>4. q.left \in Seq(TreeNodes) /\ q.found \in Seq(S)
        BY DEF Reached
      <3>5. nodes \o q.left \in Seq(TreeNodes)
        BY <3>2, <3>4
      <3>6. Append(q.found, g) \in Seq(S)
        BY <3>1, <3>4
      <3> DEFINE lft == nodes \o q.left
                 fnd == Append(q.found, g)
      <3> HIDE DEF lft, fnd
      <3>7. lft \in Seq(TreeNodes) /\ fnd \in Seq(S) /\ next(q, k) = [left |-> lft, found |-> fnd]
        BY <3>3, <3>5, <3>6 DEF lft, fnd
      <3> QED
        BY <3>7 DEF Reached
    <2> QED
      BY <2>3, <2>4
  <1>3. Insertions(G, h, n, rest) = c[last]
    BY DEF Insertions
  <1> HIDE DEF D, last, first, at
  <1>r1. \E g : g = step(g)
    <2>1. \A q \in D, k \in 1..last : F[<<q, k>>] = next(q, k)
      OBVIOUS
    <2> HIDE DEF F, next
    <2>2. \A q \in D, k \in 1..last : F[<<q, k>>] \in D
      BY <1>2, <2>1
    <2>3. PICK f : Solves(f, D, last, first, F)
      BY <1>1, <2>2, RunExists
    <2>4. f \in [0..last -> D] /\ f[0] = first /\ \A k \in 1..last : f[k] = F[<<f[k - 1], k>>]
      BY <2>3 DEF Solves
    <2>5. ASSUME NEW k \in 0..last PROVE f[k] = IF k = 0 THEN first ELSE next(f[k - 1], k)
      <3>1. CASE k = 0
        BY <2>4, <3>1
      <3>2. CASE k # 0
        <4>1. k \in 1..last /\ k - 1 \in 0..last
          BY <1>1, <3>2
        <4>2. f[k - 1] \in D
          BY <2>4, <4>1
        <4> QED
          BY <2>1, <2>4, <3>2, <4>1, <4>2
      <3> QED
        BY <3>1, <3>2
    <2>6. f = [k \in 0..last |-> f[k]]
      BY <2>4
    <2>7. f = step(f)
      BY <2>5, <2>6
    <2> QED
      BY <2>7
  <1>r2. c = step(c)
    <2> HIDE DEF step
    <2> QED
      BY <1>r1
  <1> HIDE DEF c
  <1>r3. DOMAIN c = 0..last /\ c = [k \in 0..last |-> c[k]] /\ c[0] = first /\ \A k \in 1..last : c[k] = next(c[k - 1], k)
    <2> HIDE DEF next
    <2>1. DOMAIN c = 0..last /\ \A k \in 0..last : c[k] = IF k = 0 THEN first ELSE next(c[k - 1], k)
      BY <1>r2
    <2>2. c = [k \in 0..last |-> c[k]]
      BY <1>r2
    <2>3. 0 \in 0..last /\ \A k \in 1..last : k \in 0..last /\ k # 0
      BY <1>1
    <2> QED
      BY <2>1, <2>2, <2>3
  <1>r4. c \in [0..last -> D] /\ c[last] \in D
    <2> HIDE DEF next
    <2>1. \A k \in 1..last : c[k - 1] \in D => c[k] \in D
      BY <1>2, <1>r3
    <2>2. c \in [0..last -> D]
      BY <1>1, <1>r3, <2>1, RunStays
    <2> QED
      BY <1>1, <2>2
  <1> QED
    BY <1>3, <1>r4 DEF D

LEMMA VisitFound ==
  ASSUME NEW G, NEW own, TreeOK(G, own), SlotsOK, NEW h \in Graphs, NEW seeds \in Seq(TreeNodes)
  PROVE  Visit(G, h, seeds).found \in Seq(ToSet(G[FindRootGraph(G, h)].list))
  <1> DEFINE S == ToSet(G[FindRootGraph(G, h)].list)
             D == Visited(S)
             n == MaxVisits
             first == [left |-> seeds, all |-> << >>, found |-> << >>]
             put(q) == Insertions(G, h, Head(q.left), Tail(q.left))
             next(q, k) == IF q.left = << >> THEN q ELSE [left |-> put(q).left, all |-> Append(q.all, Head(q.left)), found |-> q.found \o put(q).found]
             step(g) == [k \in 0..n |-> IF k = 0 THEN first ELSE next(g[k - 1], k)]
             F == [x \in D \X (1..n) |-> next(x[1], x[2])]
             c == CHOOSE g : g = step(g)
  <1>1. n \in Nat /\ first \in D
    <2>1. n \in Nat
      <3>1. Cardinality(TreeNodes) \in Nat
        BY FS_CardinalityType, ContentAssumption
      <3> QED
        BY <3>1 DEF MaxVisits
    <2>2. first \in D
      BY DEF Visited
    <2> QED
      BY <2>1, <2>2
  <1>2. \A q \in D, k \in 1..n : next(q, k) \in D
    <2> SUFFICES ASSUME NEW q \in D, NEW k \in 1..n, q.left # << >> PROVE next(q, k) \in D
      OBVIOUS
    <2>1. q.left \in Seq(TreeNodes) /\ q.all \in Seq(TreeNodes) /\ q.found \in Seq(S)
      BY DEF Visited
    <2>2. Head(q.left) \in TreeNodes /\ Tail(q.left) \in Seq(TreeNodes)
      BY <2>1, HeadAndTail
    <2> DEFINE p == put(q)
               hd == Head(q.left)
    <2>3. p \in Reached(S)
      BY <2>2, InsertionsFound
    <2>4. next(q, k) = [left |-> p.left, all |-> Append(q.all, hd), found |-> q.found \o p.found]
      OBVIOUS
    <2>5. hd \in TreeNodes
      BY <2>2
    <2> HIDE DEF p, hd, next, S
    <2>6. p.left \in Seq(TreeNodes) /\ p.found \in Seq(S)
      BY <2>3 DEF Reached
    <2> DEFINE a == Append(q.all, hd)
               f == q.found \o p.found
               l == p.left
    <2>7. a \in Seq(TreeNodes) /\ f \in Seq(S) /\ l \in Seq(TreeNodes)
      BY <2>1, <2>5, <2>6
    <2> HIDE DEF a, f, l
    <2>8. next(q, k) = [left |-> l, all |-> a, found |-> f]
      BY <2>4 DEF a, f, l
    <2> QED
      BY <2>7, <2>8 DEF Visited
  <1>3. Visit(G, h, seeds) = c[n]
    BY DEF Visit
  <1> HIDE DEF D, n, first, put
  <1>r1. \E g : g = step(g)
    <2>1. \A q \in D, k \in 1..n : F[<<q, k>>] = next(q, k)
      OBVIOUS
    <2> HIDE DEF F, next
    <2>2. \A q \in D, k \in 1..n : F[<<q, k>>] \in D
      BY <1>2, <2>1
    <2>3. PICK f : Solves(f, D, n, first, F)
      BY <1>1, <2>2, RunExists
    <2>4. f \in [0..n -> D] /\ f[0] = first /\ \A k \in 1..n : f[k] = F[<<f[k - 1], k>>]
      BY <2>3 DEF Solves
    <2>5. ASSUME NEW k \in 0..n PROVE f[k] = IF k = 0 THEN first ELSE next(f[k - 1], k)
      <3>1. CASE k = 0
        BY <2>4, <3>1
      <3>2. CASE k # 0
        <4>1. k \in 1..n /\ k - 1 \in 0..n
          BY <1>1, <3>2
        <4>2. f[k - 1] \in D
          BY <2>4, <4>1
        <4> QED
          BY <2>1, <2>4, <3>2, <4>1, <4>2
      <3> QED
        BY <3>1, <3>2
    <2>6. f = [k \in 0..n |-> f[k]]
      BY <2>4
    <2>7. f = step(f)
      BY <2>5, <2>6
    <2> QED
      BY <2>7
  <1>r2. c = step(c)
    <2> HIDE DEF step
    <2> QED
      BY <1>r1
  <1> HIDE DEF c
  <1>r3. DOMAIN c = 0..n /\ c = [k \in 0..n |-> c[k]] /\ c[0] = first /\ \A k \in 1..n : c[k] = next(c[k - 1], k)
    <2> HIDE DEF next
    <2>1. DOMAIN c = 0..n /\ \A k \in 0..n : c[k] = IF k = 0 THEN first ELSE next(c[k - 1], k)
      BY <1>r2
    <2>2. c = [k \in 0..n |-> c[k]]
      BY <1>r2
    <2>3. 0 \in 0..n /\ \A k \in 1..n : k \in 0..n /\ k # 0
      BY <1>1
    <2> QED
      BY <2>1, <2>2, <2>3
  <1>r4. c \in [0..n -> D] /\ c[n] \in D
    <2> HIDE DEF next
    <2>1. \A k \in 1..n : c[k - 1] \in D => c[k] \in D
      BY <1>2, <1>r3
    <2>2. c \in [0..n -> D]
      BY <1>1, <1>r3, <2>1, RunStays
    <2> QED
      BY <1>1, <2>2
  <1>4. Visit(G, h, seeds) \in Visited(S)
    BY <1>3, <1>r4 DEF D
  <1> HIDE DEF S
  <1>5. Visit(G, h, seeds).found \in Seq(S)
    BY <1>4 DEF Visited
  <1> QED
    BY <1>5 DEF S

(* What is left of the registers is as it was.                                *)
Fewer(G, own, h) ==
    {H \in Trees : /\ TreeOK(H, own) /\ SameNodes(G, H) /\ SameNames(G, H)
                   /\ DOMAIN H[h].named \subseteq DOMAIN G[h].named
                   /\ \A x \in DOMAIN H[h].named : H[h].named[x] = G[h].named[x]}

LEMMA FewerStill ==
  ASSUME NEW G, NEW own, TreeOK(G, own), NEW h \in Graphs, NEW H \in Fewer(G, own, h), NEW g \in ToSet(G[h].list)
  PROVE  RemoveSubGraph(H, h, g) \in Fewer(G, own, h)
  <1> DEFINE K == RemoveSubGraph(H, h, g)
  <1>1. TreeOK(H, own) /\ SameNodes(G, H) /\ SameNames(G, H) /\ H \in Trees
        /\ DOMAIN H[h].named \subseteq DOMAIN G[h].named
        /\ \A x \in DOMAIN H[h].named : H[h].named[x] = G[h].named[x]
    BY DEF Fewer
  <1>2. g \in Graphs /\ G[g].name \in DOMAIN G[h].named /\ G[h].named[G[g].name] = g
    BY ListedHaveParents
  <1>3. H[g].name = G[g].name
    BY <1>1, <1>2 DEF SameNames
  <1>4. H[g].name \in DOMAIN H[h].named => H[h].named[H[g].name] = g
    BY <1>1, <1>2, <1>3
  <1>5. /\ TreeOK(K, own) /\ SameNodes(H, K) /\ SameNames(H, K)
        /\ DOMAIN K[h].named \subseteq DOMAIN H[h].named
        /\ \A x \in DOMAIN K[h].named : K[h].named[x] = H[h].named[x]
    BY <1>1, <1>2, <1>4, SubGraphRemoved
  <1> HIDE DEF K
  <1>6. K \in Trees
    BY <1>5 DEF TreeOK
  <1>7. SameNodes(G, K) /\ SameNames(G, K)
    BY <1>1, <1>5 DEF SameNodes, SameNames
  <1>8. DOMAIN K[h].named \subseteq DOMAIN G[h].named /\ \A x \in DOMAIN K[h].named : K[h].named[x] = G[h].named[x]
    BY <1>1, <1>5
  <1>9. K \in Fewer(G, own, h)
    BY <1>5, <1>6, <1>7, <1>8 DEF Fewer
  <1> QED
    BY <1>9 DEF K

LEMMA TreeIsFewer ==
  ASSUME NEW G, NEW own, TreeOK(G, own), NEW h \in Graphs
  PROVE  G \in Fewer(G, own, h)
  BY DEF Fewer, TreeOK, SameNodes, SameNames

LEMMA RecursivelyRemoved ==
  ASSUME NEW G, NEW own, TreeOK(G, own), SlotsOK, NEW h \in Graphs, NEW n \in TreeNodes
  PROVE  TreeOK(RemoveSubgraphRecursively(G, h, n), own) /\ SameNodes(G, RemoveSubgraphRecursively(G, h, n))
  <1> DEFINE root == FindRootGraph(G, h)
             found == Visit(G, root, <<n>>).found
             l == Len(found)
             D == Fewer(G, own, root)
             next(q, k) == RemoveSubGraph(q, root, found[k])
             step(g) == [k \in 0..l |-> IF k = 0 THEN G ELSE next(g[k - 1], k)]
             F == [x \in D \X (1..l) |-> next(x[1], x[2])]
             c == CHOOSE g : g = step(g)
  <1>0. root \in Graphs /\ FindRootGraph(G, root) = root
    BY RootIs DEF TreeOK
  <1>3. RemoveSubgraphRecursively(G, h, n) = c[l]
    BY DEF RemoveSubgraphRecursively
  <1> HIDE DEF root
  <1>4. found \in Seq(ToSet(G[root].list))
    <2>1. <<n>> \in Seq(TreeNodes)
      OBVIOUS
    <2> QED
      BY <1>0, <2>1, VisitFound
  <1> HIDE DEF found
  <1>1. l \in Nat /\ G \in D
    BY <1>0, <1>4, TreeIsFewer
  <1>2. \A q \in D, k \in 1..l : next(q, k) \in D
    BY <1>0, <1>4, FewerStill
  <1> HIDE DEF D, l
  <1>r1. \E g : g = step(g)
    <2>1. \A q \in D, k \in 1..l : F[<<q, k>>] = next(q, k)
      OBVIOUS
    <2> HIDE DEF F, next
    <2>2. \A q \in D, k \in 1..l : F[<<q, k>>] \in D
      BY <1>2, <2>1
    <2>3. PICK f : Solves(f, D, l, G, F)
      BY <1>1, <2>2, RunExists
    <2>4. f \in [0..l -> D] /\ f[0] = G /\ \A k \in 1..l : f[k] = F[<<f[k - 1], k>>]
      BY <2>3 DEF Solves
    <2>5. ASSUME NEW k \in 0..l PROVE f[k] = IF k = 0 THEN G ELSE next(f[k - 1], k)
      <3>1. CASE k = 0
        BY <2>4, <3>1
      <3>2. CASE k # 0
        <4>1. k \in 1..l /\ k - 1 \in 0..l
          BY <1>1, <3>2
        <4>2. f[k - 1] \in D
          BY <2>4, <4>1
        <4> QED
          BY <2>1, <2>4, <3>2, <4>1, <4>2
      <3> QED
        BY <3>1, <3>2
    <2>6. f = [k \in 0..l |-> f[k]]
      BY <2>4
    <2>7. f = step(f)
      BY <2>5, <2>6
    <2> QED
      BY <2>7
  <1>r2. c = step(c)
    <2> HIDE DEF step
    <2> QED
      BY <1>r1
  <1> HIDE DEF c
  <1>r3. DOMAIN c = 0..l /\ c = [k \in 0..l |-> c[k]] /\ c[0] = G /\ \A k \in 1..l : c[k] = next(c[k - 1], k)
    <2> HIDE DEF next
    <2>1. DOMAIN c = 0..l /\ \A k \in 0..l : c[k] = IF k = 0 THEN G ELSE next(c[k - 1], k)
      BY <1>r2
    <2>2. c = [k \in 0..l |-> c[k]]
      BY <1>r2
    <2>3. 0 \in 0..l /\ \A k \in 1..l : k \in 0..l /\ k # 0
      BY <1>1
    <2> QED
      BY <2>1, <2>2, <2>3
  <1>r4. c \in [0..l -> D] /\ c[l] \in D
    <2> HIDE DEF next
    <2>1. \A k \in 1..l : c[k - 1] \in D => c[k] \in D
      BY <1>2, <1>r3
    <2>2. c \in [0..l -> D]
      BY <1>1, <1>r3, <2>1, RunStays
    <2> QED
      BY <1>1, <2>2
  <1>5. RemoveSubgraphRecursively(G, h, n) \in Fewer(G, own, root)
    BY <1>3, <1>r4 DEF D
  <1> QED
    BY <1>5 DEF Fewer

-----------------------------------------------------------------------------
(* The move to the root.  todo holds every graph once, with the graph that    *)
(* holds it, which a root holds already.                                      *)
InRoot(G, f) == \E r \in Graphs : G[r].parentGraph = None /\ f \in ToSet(G[r].list)
Pair == Graphs \X Graphs
Pairs(G, q) ==
    /\ q \in Seq(Pair)
    /\ \A i \in 1..Len(q) : q[i][2] \in ToSet(G[q[i][1]].list) /\ InRoot(G, q[i][1])
    /\ \A i, j \in 1..Len(q) : q[i][2] = q[j][2] => i = j

LEMMA HeldOnce ==
  ASSUME NEW G, NEW own, TreeOK(G, own), NEW g, NEW k, g \in Graphs, k \in Graphs, NEW x, x \in ToSet(G[g].list), x \in ToSet(G[k].list)
  PROVE  g = k
  BY DEF TreeOK, RegistersAgreeIn

LEMMA PairsEmpty == \A G : Pairs(G, << >>)
  <1>1. << >> \in Seq(Pair) /\ 1..Len(<< >>) = {}
    OBVIOUS
  <1> QED
    BY <1>1 DEF Pairs

LEMMA PairsJoin ==
  ASSUME NEW G, NEW own, TreeOK(G, own), NEW p, NEW q, Pairs(G, p), Pairs(G, q),
         \A i \in 1..Len(p), j \in 1..Len(q) : p[i][1] # q[j][1]
  PROVE  /\ Pairs(G, p \o q)
         /\ \A i \in 1..Len(p \o q) : (\E j \in 1..Len(p) : (p \o q)[i] = p[j]) \/ (\E j \in 1..Len(q) : (p \o q)[i] = q[j])
  <1> DEFINE r == p \o q
  <1>1. p \in Seq(Pair) /\ q \in Seq(Pair) /\ Len(p) \in Nat /\ Len(q) \in Nat
    BY DEF Pairs
  <1>2. /\ r \in Seq(Pair) /\ Len(r) = Len(p) + Len(q)
        /\ \A i \in 1..(Len(p) + Len(q)) : r[i] = IF i <= Len(p) THEN p[i] ELSE q[i - Len(p)]
    BY <1>1, ConcatProperties
  <1> HIDE DEF r
  <1>3. \A i \in 1..Len(r) : \/ i \in 1..Len(p) /\ r[i] = p[i]
                             \/ i - Len(p) \in 1..Len(q) /\ r[i] = q[i - Len(p)]
    BY <1>1, <1>2
  <1>4. /\ \A i \in 1..Len(p) : p[i][2] \in ToSet(G[p[i][1]].list) /\ InRoot(G, p[i][1]) /\ p[i] \in Pair
        /\ \A i \in 1..Len(q) : q[i][2] \in ToSet(G[q[i][1]].list) /\ InRoot(G, q[i][1]) /\ q[i] \in Pair
    BY <1>1 DEF Pairs
  <1>5. \A i \in 1..Len(r) : r[i][2] \in ToSet(G[r[i][1]].list) /\ InRoot(G, r[i][1])
    BY <1>3, <1>4
  <1>6. \A i \in 1..Len(p), j \in 1..Len(q) : p[i][2] # q[j][2]
    <2> SUFFICES ASSUME NEW i \in 1..Len(p), NEW j \in 1..Len(q), p[i][2] = q[j][2] PROVE FALSE
      OBVIOUS
    <2>1. p[i][1] \in Graphs /\ q[j][1] \in Graphs
      BY <1>4 DEF Pair
    <2>2. p[i][2] \in ToSet(G[p[i][1]].list) /\ p[i][2] \in ToSet(G[q[j][1]].list)
      BY <1>4
    <2>3. p[i][1] = q[j][1]
      BY <2>1, <2>2, HeldOnce
    <2> QED
      BY <2>3
  <1>7. /\ \A i, j \in 1..Len(p) : p[i][2] = p[j][2] => i = j
        /\ \A i, j \in 1..Len(q) : q[i][2] = q[j][2] => i = j
    BY DEF Pairs
  <1>8. ASSUME NEW i \in 1..Len(r), NEW j \in 1..Len(r), r[i][2] = r[j][2] PROVE i = j
    <2>1. CASE i \in 1..Len(p) /\ r[i] = p[i] /\ j \in 1..Len(p) /\ r[j] = p[j]
      BY <1>7, <1>8, <2>1
    <2>2. CASE i \in 1..Len(p) /\ r[i] = p[i] /\ j - Len(p) \in 1..Len(q) /\ r[j] = q[j - Len(p)]
      BY <1>6, <1>8, <2>2
    <2>3. CASE i - Len(p) \in 1..Len(q) /\ r[i] = q[i - Len(p)] /\ j \in 1..Len(p) /\ r[j] = p[j]
      BY <1>6, <1>8, <2>3
    <2>4. CASE i - Len(p) \in 1..Len(q) /\ r[i] = q[i - Len(p)] /\ j - Len(p) \in 1..Len(q) /\ r[j] = q[j - Len(p)]
      <3>1. i - Len(p) = j - Len(p)
        BY <1>7, <1>8, <2>4
      <3>2. i \in Int /\ j \in Int
        OBVIOUS
      <3> QED
        BY <1>1, <3>1, <3>2
    <2> QED
      BY <1>3, <2>1, <2>2, <2>3, <2>4
  <1>9. Pairs(G, r)
    BY <1>2, <1>5, <1>8 DEF Pairs
  <1>10. \A i \in 1..Len(r) : (\E j \in 1..Len(p) : r[i] = p[j]) \/ (\E j \in 1..Len(q) : r[i] = q[j])
    BY <1>3
  <1> QED
    BY <1>9, <1>10 DEF r

LEMMA HeldIs ==
  ASSUME NEW G, NEW own, TreeOK(G, own), NEW g \in Graphs, InRoot(G, g)
  PROVE  Pairs(G, Held(G, g)) /\ \A i \in 1..Len(Held(G, g)) : Held(G, g)[i][1] = g
  <1> DEFINE l == G[g].list
             q == Held(G, g)
  <1>1. l \in Seq(Graphs) /\ IsDistinct(l)
    BY ListedHaveParents
  <1>2. DOMAIN l = 1..Len(l) /\ Len(l) \in Nat /\ \A i \in 1..Len(l) : l[i] \in Graphs /\ l[i] \in ToSet(l)
    BY <1>1, ToSetIs
  <1>3. q = [i \in 1..Len(l) |-> <<g, l[i]>>]
    BY <1>2 DEF Held
  <1> HIDE DEF l, q
  <1>4. q \in Seq(Pair) /\ Len(q) = Len(l) /\ \A i \in 1..Len(l) : q[i] = <<g, l[i]>>
    <2>1. \A i \in 1..Len(l) : <<g, l[i]>> \in Pair
      BY <1>2 DEF Pair
    <2> HIDE DEF Pair
    <2>2. q \in [1..Len(l) -> Pair]
      BY <1>3, <2>1
    <2>3. q \in Seq(Pair)
      BY <1>2, <2>2
    <2>4. DOMAIN q = 1..Len(l) /\ DOMAIN q = 1..Len(q) /\ Len(q) \in Nat
      BY <2>2, <2>3
    <2>5. Len(q) = Len(l)
      BY <1>2, <2>4
    <2> QED
      BY <1>3, <2>3, <2>5
  <1>5. \A i \in 1..Len(q) : q[i][1] = g /\ q[i][2] = l[i]
    BY <1>4
  <1>6. \A i \in 1..Len(q) : q[i][2] \in ToSet(G[q[i][1]].list) /\ InRoot(G, q[i][1])
    BY <1>2, <1>4, <1>5 DEF l
  <1>7. \A i, j \in 1..Len(q) : q[i][2] = q[j][2] => i = j
    BY <1>1, <1>2, <1>4, <1>5 DEF IsDistinct
  <1> QED
    BY <1>4, <1>5, <1>6, <1>7 DEF Pairs, q

LEMMA HeldBelowIs ==
  ASSUME NEW G, NEW own, TreeOK(G, own), NEW h \in Graphs, G[h].parentGraph = None
  PROVE  Pairs(G, HeldBelow(G, h))
  <1> DEFINE list == G[h].list
             n == Len(list)
             D == Seq(Pair)
             next(q, k) == q \o Held(G, list[k])
             step(g) == [k \in 0..n |-> IF k = 0 THEN << >> ELSE next(g[k - 1], k)]
             F == [x \in D \X (1..n) |-> next(x[1], x[2])]
             c == CHOOSE g : g = step(g)
  <1>0. list \in Seq(Graphs) /\ IsDistinct(list) /\ \A k \in 1..n : list[k] \in Graphs /\ list[k] \in ToSet(list)
    BY ListedHaveParents, ToSetIs
  <1>1. n \in Nat /\ << >> \in D
    BY <1>0
  <1>a. \A k \in 1..n : InRoot(G, list[k])
    BY <1>0 DEF InRoot
  <1>b. \A k \in 1..n : Pairs(G, Held(G, list[k])) /\ \A i \in 1..Len(Held(G, list[k])) : Held(G, list[k])[i][1] = list[k]
    BY <1>0, <1>a, HeldIs
  <1>2. \A q \in D, k \in 1..n : next(q, k) \in D
    BY <1>b DEF Pairs
  <1>3. HeldBelow(G, h) = c[n]
    BY DEF HeldBelow
  <1> HIDE DEF D, n, list
  <1>r1. \E g : g = step(g)
    <2>1. \A q \in D, k \in 1..n : F[<<q, k>>] = next(q, k)
      OBVIOUS
    <2> HIDE DEF F, next
    <2>2. \A q \in D, k \in 1..n : F[<<q, k>>] \in D
      BY <1>2, <2>1
    <2>3. PICK f : Solves(f, D, n, << >>, F)
      BY <1>1, <2>2, RunExists
    <2>4. f \in [0..n -> D] /\ f[0] = << >> /\ \A k \in 1..n : f[k] = F[<<f[k - 1], k>>]
      BY <2>3 DEF Solves
    <2>5. ASSUME NEW k \in 0..n PROVE f[k] = IF k = 0 THEN << >> ELSE next(f[k - 1], k)
      <3>1. CASE k = 0
        BY <2>4, <3>1
      <3>2. CASE k # 0
        <4>1. k \in 1..n /\ k - 1 \in 0..n
          BY <1>1, <3>2
        <4>2. f[k - 1] \in D
          BY <2>4, <4>1
        <4> QED
          BY <2>1, <2>4, <3>2, <4>1, <4>2
      <3> QED
        BY <3>1, <3>2
    <2>6. f = [k \in 0..n |-> f[k]]
      BY <2>4
    <2>7. f = step(f)
      BY <2>5, <2>6
    <2> QED
      BY <2>7
  <1>r2. c = step(c)
    <2> HIDE DEF step
    <2> QED
      BY <1>r1
  <1> HIDE DEF c
  <1>r3. DOMAIN c = 0..n /\ c = [k \in 0..n |-> c[k]] /\ c[0] = << >> /\ \A k \in 1..n : c[k] = next(c[k - 1], k)
    <2> HIDE DEF next
    <2>1. DOMAIN c = 0..n /\ \A k \in 0..n : c[k] = IF k = 0 THEN << >> ELSE next(c[k - 1], k)
      BY <1>r2
    <2>2. c = [k \in 0..n |-> c[k]]
      BY <1>r2
    <2>3. 0 \in 0..n /\ \A k \in 1..n : k \in 0..n /\ k # 0
      BY <1>1
    <2> QED
      BY <2>1, <2>2, <2>3
  <1>r4. c \in [0..n -> D] /\ c[n] \in D
    <2> HIDE DEF next
    <2>1. \A k \in 1..n : c[k - 1] \in D => c[k] \in D
      BY <1>2, <1>r3
    <2>2. c \in [0..n -> D]
      BY <1>1, <1>r3, <2>1, RunStays
    <2> QED
      BY <1>1, <2>2
  <1> DEFINE From(k) == \A i \in 1..Len(c[k]) : \E j \in 1..k : c[k][i][1] = list[j]
             A == {k \in 0..n : Pairs(G, c[k]) /\ From(k)}
  <1>4. 0 \in A
    <2>1. 1..Len(<< >>) = {} /\ 0 \in 0..n
      BY <1>1
    <2> QED
      BY <1>r3, <2>1, PairsEmpty
  <1>5. ASSUME NEW k \in 1..n, k - 1 \in A PROVE k \in A
    <2> DEFINE p == c[k - 1]
               q == Held(G, list[k])
    <2>1. Pairs(G, p) /\ From(k - 1) /\ k - 1 \in 0..n /\ k \in 0..n
      BY <1>1, <1>5
    <2>2. Pairs(G, q) /\ \A i \in 1..Len(q) : q[i][1] = list[k]
      BY <1>b
    <2>3. c[k] = p \o q
      BY <1>r3
    <2>4. \A i \in 1..Len(p) : \E j \in 1..(k - 1) : p[i][1] = list[j]
      BY <2>1
    <2>5. \A j \in 1..(k - 1) : list[j] # list[k]
      <3>1. DOMAIN list = 1..n
        BY <1>0 DEF n
      <3>2. \A j \in 1..(k - 1) : j \in 1..n /\ j # k
        BY <1>1
      <3> QED
        BY <1>0, <3>1, <3>2 DEF IsDistinct
    <2> HIDE DEF p, q
    <2>6. \A i \in 1..Len(p), j \in 1..Len(q) : p[i][1] # q[j][1]
      BY <2>2, <2>4, <2>5
    <2>7. Pairs(G, p \o q)
      BY <2>1, <2>2, <2>6, PairsJoin
    <2>8. \A i \in 1..Len(p \o q) : (\E j \in 1..Len(p) : (p \o q)[i] = p[j]) \/ (\E j \in 1..Len(q) : (p \o q)[i] = q[j])
      BY <2>1, <2>2, <2>6, PairsJoin
    <2>9. \A i \in 1..Len(c[k]) : \E j \in 1..k : c[k][i][1] = list[j]
      <3>1. \A j \in 1..(k - 1) : j \in 1..k
        OBVIOUS
      <3>2. k \in 1..k
        OBVIOUS
      <3> QED
        BY <2>2, <2>3, <2>4, <2>8, <3>1, <3>2
    <2> QED
      BY <2>1, <2>3, <2>7, <2>9
  <1>6. n \in A
    <2> HIDE DEF A
    <2>1. \A k \in 0..n : k \in A
      BY <1>1, <1>4, <1>5, CountUp
    <2> QED
      BY <1>1, <2>1
  <1> QED
    BY <1>3, <1>6

(* One graph that moves.                                                      *)
MovedTo(G, M, own, from, root, g) ==
    /\ TreeOK(M, own) /\ SameNames(G, M)
    /\ \A y : y \in ToSet(M[root].list) <=> y \in ToSet(G[root].list) \/ y = g
    /\ \A y : y \in ToSet(M[from].list) <=> y \in ToSet(G[from].list) /\ y # g
    /\ \A k \in Graphs \ {root, from} : M[k].list = G[k].list

LEMMA GraphMoved ==
  ASSUME NEW G, NEW own, TreeOK(G, own), NEW from \in Graphs, NEW root \in Graphs, from # root,
         NEW g \in ToSet(G[from].list), CanAddSubgraph(G, root, g)
  PROVE  MovedTo(G, RemoveSubgraph(AddSubgraph(G, root, g), from, G[g].name), own, from, root, g)
  <1> DEFINE x == G[g].name
             A == AddSubgraph(G, root, g)
             M == RemoveSubgraph(A, from, x)
             R == RemoveSubgraph(G, from, x)
  <1>1. G \in Trees /\ RegistersAgreeIn(G)
    BY DEF TreeOK
  <1>2. g \in Graphs /\ x \in DOMAIN G[from].named /\ G[from].named[x] = g /\ IsDistinct(G[from].list)
        /\ G[g].parentGraph # None
    BY ListedHaveParents
  <1>3. Added(G, A, root, g)
    BY <1>1, <1>2, AddSubgraphIs
  <1>4. A \in Trees /\ A[from].list = G[from].list /\ A[from].named = G[from].named
    BY <1>3 DEF Added, SameRegisters
  <1> HIDE DEF A, x
  <1>5. Removed(A, M, from, x)
    BY <1>2, <1>4, RemoveSubgraphIs
  <1>6. Removed(G, R, from, x)
    BY <1>1, <1>2, RemoveSubgraphIs
  <1> HIDE DEF M, R
  <1>7. TreeOK(R, own)
    BY <1>2, <1>6, RemovedIsOK
  <1>8. ToSet(R[from].list) = ToSet(G[from].list) \ {g}
    BY <1>1, <1>2, <1>6, RemovedAgree
  <1>9. M \in Trees /\ SameNodes(G, M) /\ SameNames(G, M)
    BY <1>3, <1>5 DEF Added, Removed, SameNodes, SameNames
  <1>10. R \in Trees /\ SameNodes(G, R) /\ SameNames(G, R) /\ \A k \in Graphs \ {from} : R[k].list = G[k].list /\ R[k].named = G[k].named
    BY <1>6 DEF Removed, SameRegisters
  <1>11. M[from].list = R[from].list /\ M[from].named = R[from].named
    BY <1>4, <1>5, <1>6 DEF Removed
  <1>12. \A k \in Graphs \ {root, from} : M[k].list = G[k].list /\ M[k].named = G[k].named
    BY <1>3, <1>5 DEF Added, Removed, SameRegisters
  <1>13. M[root].list = A[root].list /\ M[root].named = A[root].named
    BY <1>5 DEF Removed, SameRegisters
  <1>14. Added(R, M, root, g)
    <2>1. SameNodes(R, M) /\ SameNames(R, M)
      BY <1>9, <1>10 DEF SameNodes, SameNames
    <2>2. SameRegisters(R, M, Graphs \ {root})
      BY <1>10, <1>11, <1>12 DEF SameRegisters
    <2>3. R[root].list = G[root].list /\ R[root].named = G[root].named /\ R[g].name = G[g].name
      BY <1>2, <1>10 DEF SameNames
    <2>4. M[root].list = Append(R[root].list, g)
      BY <1>3, <1>13, <2>3 DEF Added
    <2>5. M[root].named = [y \in DOMAIN R[root].named \cup {R[g].name} |-> IF y = R[g].name THEN g ELSE R[root].named[y]]
      BY <1>3, <1>13, <2>3 DEF Added
    <2> QED
      BY <1>9, <2>1, <2>2, <2>4, <2>5 DEF Added
  <1>15. R[g].name \notin DOMAIN R[root].named
    BY <1>2, <1>10 DEF CanAddSubgraph, SameNames
  <1>16. \A k \in Graphs : g \notin ToSet(R[k].list)
    <2> SUFFICES ASSUME NEW k \in Graphs, g \in ToSet(R[k].list) PROVE FALSE
      OBVIOUS
    <2>1. k # from
      BY <1>8
    <2>2. g \in ToSet(G[k].list)
      BY <1>10, <2>1
    <2> QED
      BY <2>1, <2>2, HeldOnce
  <1>17. RegistersAgreeIn(M) /\ ToSet(M[root].list) = ToSet(R[root].list) \cup {g}
    <2>1. R \in Trees /\ RegistersAgreeIn(R)
      BY <1>7 DEF TreeOK
    <2>2. g \in Graphs
      BY <1>2
    <2>3. RegistersAgreeIn(M)
      BY <2>1, <2>2, <1>14, <1>15, <1>16, AddedAgree
    <2>4. ToSet(M[root].list) = ToSet(R[root].list) \cup {g}
      <3>1. M[root].list = Append(R[root].list, g)
        BY <1>14 DEF Added
      <3>2. R[root].list \in Seq(Graphs) /\ IsDistinct(R[root].list)
        BY <1>7, ListedHaveParents
      <3> DEFINE l == R[root].list
      <3> HIDE DEF l
      <3>3. g \notin ToSet(l) /\ l \in Seq(Graphs) /\ IsDistinct(l)
        BY <1>16, <3>2 DEF l
      <3>4. ToSet(Append(l, g)) = ToSet(l) \cup {g}
        BY <2>2, <3>3, DistinctAppend
      <3> QED
        BY <3>1, <3>4 DEF l
    <2> QED
      BY <2>3, <2>4
  <1>18. R[root].list = G[root].list
    BY <1>10
  <1>19. ASSUME NEW k \in Graphs, NEW y \in ToSet(M[k].list) PROVE G[y].parentGraph # None
    <2>1. CASE y = g
      BY <1>2, <2>1
    <2>2. CASE y # g
      <3>1. y \in ToSet(G[k].list)
        <4>1. CASE k = root
          BY <1>17, <1>18, <1>19, <2>2, <4>1
        <4>2. CASE k = from
          BY <1>8, <1>11, <1>19, <4>2
        <4>3. CASE k # root /\ k # from
          BY <1>12, <1>19, <4>3
        <4> QED
          BY <4>1, <4>2, <4>3
      <3> QED
        BY <3>1, ListedHaveParents
    <2> QED
      BY <2>1, <2>2
  <1>20. TreeOK(M, own)
    BY <1>9, <1>17, <1>19, RegistersLeft
  <1>21. ToSet(M[root].list) = ToSet(G[root].list) \cup {g} /\ ToSet(M[from].list) = ToSet(G[from].list) \ {g}
    BY <1>8, <1>11, <1>17, <1>18
  <1>22. /\ TreeOK(M, own) /\ SameNames(G, M)
         /\ \A y : y \in ToSet(M[root].list) <=> y \in ToSet(G[root].list) \/ y = g
         /\ \A y : y \in ToSet(M[from].list) <=> y \in ToSet(G[from].list) /\ y # g
         /\ \A k \in Graphs \ {root, from} : M[k].list = G[k].list
    BY <1>9, <1>12, <1>20, <1>21
  <1> QED
    BY <1>22 DEF MovedTo, M, A, x

Moves(own) == {st \in [G : Trees, todo : Seq(Pair), ok : BOOLEAN] : TreeOK(st.G, own) /\ Pairs(st.G, st.todo)}

LEMMA OneMoved ==
  ASSUME NEW own, NEW st \in Moves(own), st.todo # << >>
  PROVE  MoveOne(st) \in Moves(own)
  <1> DEFINE G == st.G
             q == st.todo
             from == Head(q)[1]
             g == Head(q)[2]
             root == FindRootGraph(G, from)
             A == AddSubgraph(G, root, g)
             M == RemoveSubgraph(A, from, G[g].name)
             t == Tail(q)
  <1>1. G \in Trees /\ TreeOK(G, own) /\ Pairs(G, q) /\ q # << >>
    BY DEF Moves
  <1>m. MoveOne(st) = IF ~CanAddSubgraph(G, root, g) THEN [st EXCEPT !.todo = << >>, !.ok = FALSE]
                      ELSE [G |-> M, todo |-> Held(M, g) \o t, ok |-> TRUE]
    BY DEF MoveOne
  <1>2. CASE ~CanAddSubgraph(G, root, g)
    <2>1. MoveOne(st) = [st EXCEPT !.todo = << >>, !.ok = FALSE]
      BY <1>2, <1>m
    <2>2. << >> \in Seq(Pair) /\ FALSE \in BOOLEAN
      OBVIOUS
    <2>3. st \in [G : Trees, todo : Seq(Pair), ok : BOOLEAN]
      BY DEF Moves
    <2>4. MoveOne(st) \in [G : Trees, todo : Seq(Pair), ok : BOOLEAN] /\ MoveOne(st).G = G /\ MoveOne(st).todo = << >>
      BY <2>1, <2>2, <2>3
    <2> HIDE DEF G
    <2> QED
      BY <1>1, <2>4, PairsEmpty DEF Moves
  <1>3. CASE CanAddSubgraph(G, root, g)
    <2>0. q \in Seq(Pair)
      BY <1>1 DEF Pairs
    <2>1. /\ Head(q) \in Pair /\ t \in Seq(Pair) /\ 1 \in 1..Len(q) /\ q[1] = Head(q)
          /\ \A i \in 1..Len(t) : i + 1 \in 1..Len(q) /\ t[i] = q[i + 1]
      BY <1>1, <2>0, HeadAndTail
    <2>2. from \in Graphs /\ g \in Graphs
      BY <2>1 DEF Pair
    <2>3. g \in ToSet(G[from].list) /\ InRoot(G, from)
      <3> HIDE DEF G
      <3> QED
        BY <1>1, <2>1 DEF Pairs
    <2>4. MoveOne(st) = [G |-> M, todo |-> Held(M, g) \o t, ok |-> TRUE]
      BY <1>3, <1>m
    <2>5. root \in Graphs /\ G[root].parentGraph = None
      BY <1>1, <2>2, RootIs DEF TreeOK
    <2>6. CanAddSubgraph(G, root, g)
      BY <1>3
    <2>7. \A i \in 1..Len(t) : t[i][2] # g /\ t[i][2] \in ToSet(G[t[i][1]].list) /\ InRoot(G, t[i][1]) /\ t[i] \in Pair
      <3> SUFFICES ASSUME NEW i \in 1..Len(t)
                   PROVE  t[i][2] # g /\ t[i][2] \in ToSet(G[t[i][1]].list) /\ InRoot(G, t[i][1]) /\ t[i] \in Pair
        OBVIOUS
      <3>1. i + 1 \in 1..Len(q) /\ t[i] = q[i + 1] /\ i + 1 # 1
        BY <2>1
      <3> HIDE DEF G, q, t
      <3>2. q[i + 1][2] # g
        <4>1. \A a, b \in 1..Len(q) : q[a][2] = q[b][2] => a = b
          BY <1>1 DEF Pairs
        <4> QED
          BY <2>1, <3>1, <4>1
      <3>3. t[i] \in Pair
        BY <2>1
      <3>4. q[i + 1][2] \in ToSet(G[q[i + 1][1]].list) /\ InRoot(G, q[i + 1][1])
        BY <1>1, <3>1 DEF Pairs
      <3> QED
        BY <3>1, <3>2, <3>3, <3>4
    <2>8. \A i, j \in 1..Len(t) : t[i][2] = t[j][2] => i = j
      <3> SUFFICES ASSUME NEW i \in 1..Len(t), NEW j \in 1..Len(t), t[i][2] = t[j][2] PROVE i = j
        OBVIOUS
      <3>1. i + 1 \in 1..Len(q) /\ t[i] = q[i + 1] /\ j + 1 \in 1..Len(q) /\ t[j] = q[j + 1]
        BY <2>1
      <3> HIDE DEF G, q, t
      <3>2. i + 1 = j + 1
        BY <1>1, <3>1 DEF Pairs
      <3> QED
        BY <3>2
    <2> HIDE DEF G, q, t, from, g, root
    <2>9. G[from].parentGraph # None
      <3>1. PICK r \in Graphs : from \in ToSet(G[r].list)
        BY <2>3 DEF InRoot
      <3> QED
        BY <1>1, <3>1, ListedHaveParents
    <2>10. from # root
      BY <2>5, <2>9
    <2>11. /\ TreeOK(M, own)
           /\ SameNames(G, M)
           /\ \A y : y \in ToSet(M[root].list) <=> y \in ToSet(G[root].list) \/ y = g
           /\ \A y : y \in ToSet(M[from].list) <=> y \in ToSet(G[from].list) /\ y # g
           /\ \A k \in Graphs \ {root, from} : M[k].list = G[k].list
      <3>1. g \in ToSet(G[from].list)
        BY <2>3
      <3>2. MovedTo(G, M, own, from, root, g)
        BY <1>1, <2>2, <2>5, <2>6, <2>10, <3>1, GraphMoved DEF M, A
      <3> HIDE DEF M
      <3> QED
        BY <3>2 DEF MovedTo
    <2> HIDE DEF M
    <2>12. M[root].parentGraph = None /\ \A k \in Graphs : M[k].parentGraph = G[k].parentGraph
      BY <2>5, <2>11 DEF SameNames
    <2>13. InRoot(M, g)
      BY <2>5, <2>11, <2>12 DEF InRoot
    <2>14. ASSUME NEW f, InRoot(G, f) PROVE InRoot(M, f) /\ f # g
      <3>1. PICK r \in Graphs : G[r].parentGraph = None /\ f \in ToSet(G[r].list)
        BY <2>14 DEF InRoot
      <3>2. r # from
        BY <2>9, <3>1
      <3>3. f \in ToSet(M[r].list)
        <4>1. CASE r = root
          BY <2>11, <3>1, <4>1
        <4>2. CASE r # root
          BY <2>11, <3>1, <3>2, <4>2
        <4> QED
          BY <4>1, <4>2
      <3>4. f # g
        BY <1>1, <2>2, <2>3, <3>1, <3>2, HeldOnce
      <3> QED
        BY <2>12, <3>1, <3>3, <3>4 DEF InRoot
    <2>15. ASSUME NEW f \in Graphs, NEW y \in ToSet(G[f].list), y # g PROVE y \in ToSet(M[f].list)
      <3>1. CASE f = root
        BY <2>11, <3>1
      <3>2. CASE f = from
        BY <2>11, <2>15, <3>2
      <3>3. CASE f # root /\ f # from
        BY <2>11, <3>3
      <3> QED
        BY <3>1, <3>2, <3>3
    <2>16. \A i \in 1..Len(t) : t[i][1] \in Graphs
      BY <2>7 DEF Pair
    <2>17. Pairs(M, t)
      <3>1. \A i \in 1..Len(t) : t[i][2] \in ToSet(M[t[i][1]].list) /\ InRoot(M, t[i][1])
        BY <2>7, <2>14, <2>15, <2>16
      <3> QED
        BY <2>1, <2>8, <3>1 DEF Pairs
    <2>18. Pairs(M, Held(M, g)) /\ \A i \in 1..Len(Held(M, g)) : Held(M, g)[i][1] = g
      BY <2>2, <2>11, <2>13, HeldIs
    <2> DEFINE b == Held(M, g)
               d == b \o t
    <2> HIDE DEF b
    <2>19. \A i \in 1..Len(b), j \in 1..Len(t) : b[i][1] # t[j][1]
      BY <2>7, <2>14, <2>18 DEF b
    <2>20. Pairs(M, d)
      BY <2>11, <2>17, <2>18, <2>19, PairsJoin DEF b
    <2>21. MoveOne(st) = [G |-> M, todo |-> d, ok |-> TRUE]
      BY <2>4 DEF b
    <2> HIDE DEF d
    <2>22. M \in Trees /\ d \in Seq(Pair)
      BY <2>11, <2>20 DEF TreeOK, Pairs
    <2> QED
      BY <2>11, <2>20, <2>21, <2>22 DEF Moves
  <1> QED
    BY <1>2, <1>3

LEMMA Moved ==
  ASSUME NEW G, NEW own, TreeOK(G, own), NEW h \in Graphs, G[h].parentGraph = None
  PROVE  TreeOK(Move(G, h).G, own)
  <1> DEFINE n == Cardinality(Graphs)
             D == Moves(own)
             below == HeldBelow(G, h)
             first == [G |-> G, todo |-> below, ok |-> TRUE]
             next(q, k) == IF q.todo = << >> THEN q ELSE MoveOne(q)
             step(g) == [k \in 0..n |-> IF k = 0 THEN first ELSE next(g[k - 1], k)]
             F == [x \in D \X (1..n) |-> next(x[1], x[2])]
             c == CHOOSE g : g = step(g)
  <1>1. n \in Nat /\ first \in D
    <2>1. n \in Nat
      BY FS_CardinalityType, ContentAssumption
    <2>2. Pairs(G, below) /\ G \in Trees
      BY HeldBelowIs DEF TreeOK
    <2> HIDE DEF below
    <2>3. below \in Seq(Pair)
      BY <2>2 DEF Pairs
    <2>4. first \in D
      BY <2>2, <2>3 DEF Moves
    <2> QED
      BY <2>1, <2>4
  <1>2. \A q \in D, k \in 1..n : next(q, k) \in D
    BY OneMoved
  <1>3. Move(G, h) = c[n]
    BY DEF Move
  <1> HIDE DEF D, n, first
  <1>r1. \E g : g = step(g)
    <2>1. \A q \in D, k \in 1..n : F[<<q, k>>] = next(q, k)
      OBVIOUS
    <2> HIDE DEF F, next
    <2>2. \A q \in D, k \in 1..n : F[<<q, k>>] \in D
      BY <1>2, <2>1
    <2>3. PICK f : Solves(f, D, n, first, F)
      BY <1>1, <2>2, RunExists
    <2>4. f \in [0..n -> D] /\ f[0] = first /\ \A k \in 1..n : f[k] = F[<<f[k - 1], k>>]
      BY <2>3 DEF Solves
    <2>5. ASSUME NEW k \in 0..n PROVE f[k] = IF k = 0 THEN first ELSE next(f[k - 1], k)
      <3>1. CASE k = 0
        BY <2>4, <3>1
      <3>2. CASE k # 0
        <4>1. k \in 1..n /\ k - 1 \in 0..n
          BY <1>1, <3>2
        <4>2. f[k - 1] \in D
          BY <2>4, <4>1
        <4> QED
          BY <2>1, <2>4, <3>2, <4>1, <4>2
      <3> QED
        BY <3>1, <3>2
    <2>6. f = [k \in 0..n |-> f[k]]
      BY <2>4
    <2>7. f = step(f)
      BY <2>5, <2>6
    <2> QED
      BY <2>7
  <1>r2. c = step(c)
    <2> HIDE DEF step
    <2> QED
      BY <1>r1
  <1> HIDE DEF c
  <1>r3. DOMAIN c = 0..n /\ c = [k \in 0..n |-> c[k]] /\ c[0] = first /\ \A k \in 1..n : c[k] = next(c[k - 1], k)
    <2> HIDE DEF next
    <2>1. DOMAIN c = 0..n /\ \A k \in 0..n : c[k] = IF k = 0 THEN first ELSE next(c[k - 1], k)
      BY <1>r2
    <2>2. c = [k \in 0..n |-> c[k]]
      BY <1>r2
    <2>3. 0 \in 0..n /\ \A k \in 1..n : k \in 0..n /\ k # 0
      BY <1>1
    <2> QED
      BY <2>1, <2>2, <2>3
  <1>r4. c \in [0..n -> D] /\ c[n] \in D
    <2> HIDE DEF next
    <2>1. \A k \in 1..n : c[k - 1] \in D => c[k] \in D
      BY <1>2, <1>r3
    <2>2. c \in [0..n -> D]
      BY <1>1, <1>r3, <2>1, RunStays
    <2> QED
      BY <1>1, <2>2
  <1>4. Move(G, h) \in Moves(own)
    BY <1>3, <1>r4 DEF D
  <1> QED
    BY <1>4 DEF Moves

-----------------------------------------------------------------------------
(* The calls.                                                                 *)
TreeInv == TreeOK(graph, owner) /\ SlotsOK

LEMMA OwnerSet ==
  ASSUME TreeInv, NEW h \in Graphs, NEW n \in TreeNodes, owner' = [owner EXCEPT ![n] = h]
  PROVE  owner' \in Owners /\ owner'[n] = h /\ \A m \in TreeNodes \ {n} : owner'[m] = owner[m]
  BY DEF TreeInv, TreeOK, Owners

LEMMA Unlisted ==
  ASSUME TreeInv, NEW h \in Graphs, NEW n \in TreeNodes, Addable(h, n)
  PROVE  \A g \in Graphs : n \notin ToSet(graph[g].nodes)
  <1> SUFFICES ASSUME NEW g \in Graphs, n \in ToSet(graph[g].nodes) PROVE FALSE
    OBVIOUS
  <1>1. Contains(graph[g].nodes, n)
    BY InOneList DEF TreeInv
  <1> QED
    BY <1>1 DEF Addable, Listed

LEMMA AddNodeInv ==
  ASSUME TreeInv, NEW h \in Graphs, NEW n \in TreeNodes, AddNode(h, n)
  PROVE  TreeInv'
  <1>1. graph' = PushBackToNodeList(graph, h, n) /\ owner' = [owner EXCEPT ![n] = h] /\ slots' = slots /\ Addable(h, n)
    BY DEF AddNode
  <1>2. owner' \in Owners /\ owner'[n] = h /\ \A m \in TreeNodes \ {n} : owner'[m] = owner[m]
    BY <1>1, OwnerSet
  <1>3. \A g \in Graphs : n \notin ToSet(graph[g].nodes)
    BY <1>1, Unlisted
  <1>4. TreeOK(PushBackToNodeList(graph, h, n), owner')
    BY <1>2, <1>3, NodePushed DEF TreeInv
  <1>5. TreeOK(graph', owner')
    BY <1>1, <1>4
  <1>6. SlotsOK'
    BY <1>1 DEF SlotsOK, TreeInv
  <1> QED
    BY <1>5, <1>6 DEF TreeInv

LEMMA AddNodeFrontInv ==
  ASSUME TreeInv, NEW h \in Graphs, NEW n \in TreeNodes, AddNodeFront(h, n)
  PROVE  TreeInv'
  <1> DEFINE nodes == graph[h].nodes
             at == IF graph[h].size > 0 /\ nodes # << >> /\ Head(nodes) \in DataNodes THEN 2 ELSE 1
             q == InsertAt(nodes, at, n)
             k == graph[h].size + 1
             K == [graph EXCEPT ![h].nodes = q, ![h].size = k]
  <1>0. graph \in Trees /\ nodes \in Seq(TreeNodes) /\ IsDistinct(nodes) /\ graph[h].size = Len(nodes)
    BY FieldsOf DEF TreeInv, TreeOK, NodesAgreeIn, NodesOK
  <1>1. owner' = [owner EXCEPT ![n] = h] /\ slots' = slots /\ Addable(h, n)
    BY DEF AddNodeFront
  <1>a. graph' = K
    <2>1. graph' = [graph EXCEPT ![h].nodes = InsertAt(@, at, n), ![h].size = @ + 1]
      BY DEF AddNodeFront
    <2> HIDE DEF at
    <2> QED
      BY <1>0, <2>1, FieldsOf DEF Trees, GraphRec
  <1>2. owner' \in Owners /\ owner'[n] = h /\ \A m \in TreeNodes \ {n} : owner'[m] = owner[m]
    BY <1>1, OwnerSet
  <1>3. \A g \in Graphs : n \notin ToSet(graph[g].nodes)
    BY <1>1, Unlisted
  <1>4. at \in 1..(Len(nodes) + 1)
    <2>1. Len(nodes) \in Nat
      BY <1>0
    <2>2. nodes # << >> => Len(nodes) > 0
      BY <1>0
    <2> QED
      BY <2>1, <2>2
  <1>5. n \notin ToSet(nodes)
    BY <1>3
  <1> HIDE DEF nodes, at
  <1>6. q \in Seq(TreeNodes) /\ Len(q) = Len(nodes) + 1 /\ IsDistinct(q) /\ ToSet(q) = ToSet(nodes) \cup {n}
    BY <1>0, <1>4, <1>5, DistinctInserted
  <1> HIDE DEF q
  <1>7. NodesOf(graph, K, h, q, k, graph[h].outputs)
    <2>1. k \in Nat
      BY <1>0, FieldsOf
    <2> HIDE DEF k
    <2> QED
      BY <1>0, <1>6, <2>1, SetsNodes
  <1> HIDE DEF K
  <1>8. TreeOK(K, owner')
    BY <1>2, <1>3, <1>6, <1>7, NodeEnters DEF TreeInv, nodes
  <1>9. SlotsOK'
    BY <1>1 DEF SlotsOK, TreeInv
  <1> QED
    BY <1>a, <1>8, <1>9 DEF TreeInv

LEMMA OnlyGraph ==
  ASSUME TreeInv, NEW H, TreeOK(H, owner), graph' = H, UNCHANGED <<owner, slots>>
  PROVE  TreeInv'
  <1>1. owner' = owner /\ slots' = slots
    OBVIOUS
  <1>2. TreeOK(graph', owner')
    BY <1>1
  <1>3. SlotsOK'
    BY <1>1 DEF TreeInv, SlotsOK
  <1> QED
    BY <1>2, <1>3 DEF TreeInv

LEMMA AddInputNodeInv ==
  ASSUME TreeInv, NEW h \in Graphs, NEW n \in TreeNodes, AddInputNode(h, n)
  PROVE  TreeInv'
  <1> DEFINE q == Append(graph[h].inputs, n)
             H == [graph EXCEPT ![h].inputs = q]
  <1>1. graph \in Trees /\ TreeOK(graph, owner)
    BY DEF TreeInv, TreeOK
  <1>2. q \in Seq(TreeNodes)
    BY <1>1, FieldsOf
  <1>3. owner[n] = h /\ UNCHANGED <<owner, slots>>
    BY DEF AddInputNode
  <1>4. graph' = EnsureListed(H, h, n)
    <2>1. graph' = EnsureListed([graph EXCEPT ![h].inputs = Append(@, n)], h, n)
      BY DEF AddInputNode
    <2>2. [graph EXCEPT ![h].inputs = Append(@, n)] = H
      BY <1>1, FieldsOf DEF Trees, GraphRec
    <2> QED
      BY <2>1, <2>2
  <1> HIDE DEF q
  <1>5. NodesOf(graph, H, h, graph[h].nodes, graph[h].size, graph[h].outputs)
    BY <1>1, <1>2, SetsInputs
  <1>6. IsDistinct(graph[h].outputs)
    BY <1>1 DEF TreeOK, NodesAgreeIn, NodesOK
  <1> HIDE DEF H
  <1>7. TreeOK(EnsureListed(H, h, n), owner)
    BY <1>1, <1>3, <1>5, <1>6, NodeEnsured
  <1> QED
    BY <1>3, <1>4, <1>7, OnlyGraph

LEMMA AddOutputNodeInv ==
  ASSUME TreeInv, NEW h \in Graphs, NEW n \in TreeNodes, NEW index \in OutIndexes, AddOutputNodeByIndex(h, n, index)
  PROVE  TreeInv'
  <1> DEFINE o == graph[h].outputs
             e == <<n, index>>
  <1>1. graph \in Trees /\ TreeOK(graph, owner) /\ o \in Seq(TreeNodes \X OutIndexes) /\ IsDistinct(o)
    BY FieldsOf DEF TreeInv, TreeOK, NodesAgreeIn, NodesOK
  <1>2. owner[n] = h /\ UNCHANGED <<owner, slots>>
    BY DEF AddOutputNodeByIndex
  <1>3. CASE Contains(o, e)
    <2>1. graph' = EnsureListed(graph, h, n)
      BY <1>3 DEF AddOutputNodeByIndex
    <2>2. NodesOf(graph, graph, h, graph[h].nodes, graph[h].size, o)
      BY <1>1, NodesSame
    <2>3. TreeOK(EnsureListed(graph, h, n), owner)
      BY <1>1, <1>2, <2>2, NodeEnsured
    <2> QED
      BY <1>2, <2>1, <2>3, OnlyGraph
  <1>4. CASE ~Contains(o, e)
    <2> DEFINE q == Append(o, e)
               H == [graph EXCEPT ![h].outputs = q]
    <2>1. graph' = EnsureListed(H, h, n)
      <3>1. graph' = EnsureListed([graph EXCEPT ![h].outputs = Append(@, <<n, index>>)], h, n)
        BY <1>4 DEF AddOutputNodeByIndex
      <3>2. [graph EXCEPT ![h].outputs = Append(@, <<n, index>>)] = H
        BY <1>1, FieldsOf DEF Trees, GraphRec
      <3> QED
        BY <3>1, <3>2
    <2>2. e \in TreeNodes \X OutIndexes /\ e[1] = n
      OBVIOUS
    <2> HIDE DEF e, o
    <2>3. e \notin ToSet(o)
      BY <1>1, <1>4, ToSetIs DEF Contains
    <2>4. q \in Seq(TreeNodes \X OutIndexes) /\ IsDistinct(q) /\ ToSet(q) = ToSet(o) \cup {e}
      BY <1>1, <2>2, <2>3, DistinctAppend
    <2> HIDE DEF q
    <2>5. NodesOf(graph, H, h, graph[h].nodes, graph[h].size, q)
      BY <1>1, <2>4, SetsOutputs
    <2> HIDE DEF H
    <2>6. \A x \in ToSet(q) : x[1] = n \/ x \in ToSet(graph[h].outputs)
      BY <2>2, <2>4 DEF o
    <2>7. TreeOK(EnsureListed(H, h, n), owner)
      BY <1>1, <1>2, <2>4, <2>5, <2>6, NodeEnsured
    <2> QED
      BY <1>2, <2>1, <2>7, OnlyGraph
  <1> QED
    BY <1>3, <1>4

(* A node that is no output any more, and no input once.                      *)
LEMMA OutOfEnds ==
  ASSUME NEW G, NEW own, TreeOK(G, own), NEW h \in Graphs, NEW n \in TreeNodes
  PROVE  LET H == RemoveOutputNode(RemoveInputNode(G, h, n), h, n)
         IN  TreeOK(H, own) /\ H[h].nodes = G[h].nodes /\ \A x \in ToSet(H[h].outputs) : x[1] # n
  <1> DEFINE q == RemoveFirst(G[h].inputs, n)
             A == [G EXCEPT ![h].inputs = q]
             S == {x \in ToSet(G[h].outputs) : x[1] # n}
             o == Kept(G[h].outputs, S)
             H == [A EXCEPT ![h].outputs = o]
  <1>1. G \in Trees /\ NodesAgreeIn(G, own) /\ own \in Owners
    BY DEF TreeOK
  <1>2. G[h].inputs \in Seq(TreeNodes) /\ G[h].outputs \in Seq(TreeNodes \X OutIndexes) /\ G[h].nodes \in Seq(TreeNodes)
    BY <1>1, FieldsOf
  <1>3. /\ G[h].size = Len(G[h].nodes) /\ IsDistinct(G[h].nodes) /\ IsDistinct(G[h].outputs)
        /\ \A x \in ToSet(G[h].outputs) : Contains(G[h].nodes, x[1])
    BY <1>1 DEF NodesAgreeIn, NodesOK
  <1>4. q \in Seq(TreeNodes)
    BY <1>2, OneRemoved
  <1>5. RemoveInputNode(G, h, n) = A
    BY <1>1, FieldsOf DEF Trees, GraphRec, RemoveInputNode
  <1> HIDE DEF q
  <1>6. NodesOf(G, A, h, G[h].nodes, G[h].size, G[h].outputs)
    BY <1>1, <1>4, SetsInputs
  <1> HIDE DEF A
  <1>7. A \in Trees /\ A[h].outputs = G[h].outputs /\ A[h].nodes = G[h].nodes /\ A[h].size = G[h].size
    BY <1>6 DEF NodesOf
  <1>8. RemoveOutputNode(A, h, n) = H
    <2>1. RemoveOutputNode(A, h, n) = [A EXCEPT ![h].outputs = Kept(@, {x \in ToSet(@) : x[1] # n})]
      BY DEF RemoveOutputNode
    <2>2. RemoveOutputNode(A, h, n) = [A EXCEPT ![h].outputs = Kept(A[h].outputs, {x \in ToSet(A[h].outputs) : x[1] # n})]
      BY <1>7, <2>1, FieldsOf DEF Trees, GraphRec
    <2> QED
      BY <1>7, <2>2
  <1>9. o \in Seq(TreeNodes \X OutIndexes) /\ IsDistinct(o) /\ ToSet(o) = ToSet(G[h].outputs) \cap S
    <2> HIDE DEF S
    <2> QED
      BY <1>2, <1>3, DistinctKept
  <1>10. \A x \in ToSet(o) : x[1] # n /\ Contains(G[h].nodes, x[1])
    BY <1>3, <1>9
  <1> HIDE DEF o
  <1>11. NodesOf(A, H, h, G[h].nodes, G[h].size, o)
    BY <1>7, <1>9, SetsOutputs
  <1> HIDE DEF H
  <1>12. NodesOf(G, H, h, G[h].nodes, G[h].size, o)
    BY <1>6, <1>11, NodesThen
  <1>13. \A g \in Graphs : \A m \in ToSet(G[g].nodes) : own[m] = g
    BY <1>1 DEF NodesAgreeIn, NodesOK
  <1>14. TreeOK(H, own)
    BY <1>1, <1>3, <1>9, <1>10, <1>12, <1>13, NodesLeft
  <1>15. H[h].nodes = G[h].nodes /\ H[h].outputs = o
    BY <1>12 DEF NodesOf
  <1>16. TreeOK(H, own) /\ H[h].nodes = G[h].nodes /\ \A x \in ToSet(H[h].outputs) : x[1] # n
    BY <1>10, <1>14, <1>15
  <1> QED
    BY <1>5, <1>8, <1>16

LEMMA RemoveNodeInv ==
  ASSUME TreeInv, NEW h \in Graphs, NEW n \in TreeNodes, RemoveNodeWithoutRelink(h, n)
  PROVE  TreeInv'
  <1> DEFINE G == RemoveOutputNode(RemoveInputNode(graph, h, n), h, n)
             H == RemoveSubgraphRecursively(G, h, n)
  <1>1. /\ graph' = IF Contains(graph[h].nodes, n) THEN EraseFromNodeList(H, h, n) ELSE G
        /\ UNCHANGED <<owner, slots>>
    BY DEF RemoveNodeWithoutRelink
  <1>2. TreeOK(graph, owner) /\ SlotsOK
    BY DEF TreeInv
  <1>3. TreeOK(G, owner) /\ G[h].nodes = graph[h].nodes /\ \A x \in ToSet(G[h].outputs) : x[1] # n
    BY <1>2, OutOfEnds
  <1> HIDE DEF G
  <1>4. TreeOK(H, owner) /\ SameNodes(G, H)
    BY <1>2, <1>3, RecursivelyRemoved
  <1> HIDE DEF H
  <1>5. CASE Contains(graph[h].nodes, n)
    <2>1. n \in ToSet(graph[h].nodes)
      BY <1>2, <1>5, InOneList
    <2>2. H[h].nodes = graph[h].nodes /\ H[h].outputs = G[h].outputs
      BY <1>3, <1>4 DEF SameNodes
    <2>3. n \in ToSet(H[h].nodes) /\ \A x \in ToSet(H[h].outputs) : x[1] # n
      BY <1>3, <2>1, <2>2
    <2>4. TreeOK(EraseFromNodeList(H, h, n), owner)
      BY <1>4, <2>3, NodeLeaves
    <2> QED
      BY <1>1, <1>5, <2>4, OnlyGraph
  <1>6. CASE ~Contains(graph[h].nodes, n)
    BY <1>1, <1>3, <1>6, OnlyGraph
  <1> QED
    BY <1>5, <1>6

LEMMA AddSubgraphNameInv ==
  ASSUME TreeInv, NEW n \in TreeNodes, AddSubgraphName(n)
  PROVE  TreeInv'
  <1>1. slots' = [slots EXCEPT ![n] = Append(@, None)] /\ graph' = graph /\ owner' = owner
    BY DEF AddSubgraphName
  <1>2. SlotsOK'
    BY <1>1 DEF SlotsOK, TreeInv
  <1>3. TreeOK(graph', owner')
    BY <1>1 DEF TreeInv
  <1> QED
    BY <1>2, <1>3 DEF TreeInv

LEMMA RemoveSubgraphsOnNodeInv ==
  ASSUME TreeInv, NEW n \in TreeNodes, RemoveSubgraphsOnNode(n)
  PROVE  TreeInv'
  <1> DEFINE root == FindRootGraph(graph, owner[n])
             named == graph[root].named
             names == slots[n]
             l == Len(names)
             D == Seq(Names \cup {None})
             next(q, k) == Clear(q, names[k])
             step(g) == [k \in 0..l |-> IF k = 0 THEN names ELSE next(g[k - 1], k)]
             F == [x \in D \X (1..l) |-> next(x[1], x[2])]
             c == CHOOSE g : g = step(g)
             Cleared(i) == [slots EXCEPT ![n] = c[i]]
             Below(i) == Collected(named, Cleared(i), names[i])
             Lost(i) == ~(Below(i) \subseteq DOMAIN named)
             ok == ~\E i \in DOMAIN names : Lost(i)
             last == IF ok THEN l
                     ELSE CHOOSE i \in DOMAIN names : Lost(i) /\ \A j \in 1..(i - 1) : ~Lost(j)
             gone == UNION {Below(i) : i \in DOMAIN names}
  <1>3. /\ owner[n] # None /\ owner' = owner
        /\ slots' = Cleared(last)
        /\ graph' = IF ok THEN RemoveSubgraphs(graph, root, gone) ELSE graph
    BY DEF RemoveSubgraphsOnNode
  <1> HIDE DEF Below, Cleared, Lost
  <1>1. l \in Nat /\ names \in D /\ DOMAIN names = 1..l
    BY DEF TreeInv, SlotsOK
  <1>2. \A q \in D, k \in 1..l : next(q, k) \in D
    <2> SUFFICES ASSUME NEW q \in D, NEW x PROVE Clear(q, x) \in D
      OBVIOUS
    <2> DEFINE i == SelectInSeq(q, LAMBDA y : y = x)
    <2>1. Clear(q, x) = q \/ Clear(q, x) = [q EXCEPT ![i] = None]
      BY DEF Clear
    <2> HIDE DEF i
    <2> DEFINE e == [q EXCEPT ![i] = None]
               T == Names \cup {None}
    <2>2. q \in Seq(T) /\ None \in T
      OBVIOUS
    <2> HIDE DEF T
    <2>3. Len(q) \in Nat /\ DOMAIN q = 1..Len(q) /\ \A j \in 1..Len(q) : q[j] \in T
      BY <2>2
    <2>4. e = [j \in 1..Len(q) |-> e[j]] /\ \A j \in 1..Len(q) : e[j] = q[j] \/ e[j] = None
      BY <2>2, <2>3
    <2> HIDE DEF e
    <2>5. e \in [1..Len(q) -> T]
      BY <2>2, <2>3, <2>4
    <2>6. e \in Seq(T)
      BY <2>3, <2>5
    <2> QED
      BY <2>1, <2>6 DEF e, T
  <1>4. last \in 0..l
    <2>1. CASE ok
      BY <1>1, <2>1
    <2>2. CASE ~ok
      <3> DEFINE I == {i \in 1..l : Lost(i)}
      <3>1. I \subseteq Nat /\ I # {}
        BY <1>1, <2>2
      <3> HIDE DEF I
      <3>2. PICK m \in I : \A y \in I : m <= y
        BY <3>1, LeastNumber
      <3>3. m \in 1..l /\ Lost(m) /\ \A j \in 1..(m - 1) : ~Lost(j)
        <4>1. m \in 1..l /\ Lost(m)
          BY <3>2 DEF I
        <4>2. ASSUME NEW j \in 1..(m - 1), Lost(j) PROVE FALSE
          <5>1. j \in 1..l /\ j < m
            BY <1>1, <4>1
          <5>2. j \in I
            BY <4>2, <5>1 DEF I
          <5>3. m <= j
            BY <3>2, <5>2
          <5> QED
            BY <4>1, <5>1, <5>3
        <4> QED
          BY <4>1, <4>2
      <3>4. \E i \in DOMAIN names : Lost(i) /\ \A j \in 1..(i - 1) : ~Lost(j)
        BY <1>1, <3>3
      <3>5. last \in DOMAIN names
        <4> HIDE DEF ok
        <4>1. last = CHOOSE i \in DOMAIN names : Lost(i) /\ \A j \in 1..(i - 1) : ~Lost(j)
          BY <2>2
        <4> QED
          BY <3>4, <4>1
      <3> QED
        BY <1>1, <3>5
    <2> QED
      BY <2>1, <2>2
  <1> HIDE DEF last, ok, gone, root
  <1> HIDE DEF D, l, names
  <1>r1. \E g : g = step(g)
    <2>1. \A q \in D, k \in 1..l : F[<<q, k>>] = next(q, k)
      OBVIOUS
    <2> HIDE DEF F, next
    <2>2. \A q \in D, k \in 1..l : F[<<q, k>>] \in D
      BY <1>2, <2>1
    <2>3. PICK f : Solves(f, D, l, names, F)
      BY <1>1, <2>2, RunExists
    <2>4. f \in [0..l -> D] /\ f[0] = names /\ \A k \in 1..l : f[k] = F[<<f[k - 1], k>>]
      BY <2>3 DEF Solves
    <2>5. ASSUME NEW k \in 0..l PROVE f[k] = IF k = 0 THEN names ELSE next(f[k - 1], k)
      <3>1. CASE k = 0
        BY <2>4, <3>1
      <3>2. CASE k # 0
        <4>1. k \in 1..l /\ k - 1 \in 0..l
          BY <1>1, <3>2
        <4>2. f[k - 1] \in D
          BY <2>4, <4>1
        <4> QED
          BY <2>1, <2>4, <3>2, <4>1, <4>2
      <3> QED
        BY <3>1, <3>2
    <2>6. f = [k \in 0..l |-> f[k]]
      BY <2>4
    <2>7. f = step(f)
      BY <2>5, <2>6
    <2> QED
      BY <2>7
  <1>r2. c = step(c)
    <2> HIDE DEF step
    <2> QED
      BY <1>r1
  <1> HIDE DEF c
  <1>r3. DOMAIN c = 0..l /\ c = [k \in 0..l |-> c[k]] /\ c[0] = names /\ \A k \in 1..l : c[k] = next(c[k - 1], k)
    <2> HIDE DEF next
    <2>1. DOMAIN c = 0..l /\ \A k \in 0..l : c[k] = IF k = 0 THEN names ELSE next(c[k - 1], k)
      BY <1>r2
    <2>2. c = [k \in 0..l |-> c[k]]
      BY <1>r2
    <2>3. 0 \in 0..l /\ \A k \in 1..l : k \in 0..l /\ k # 0
      BY <1>1
    <2> QED
      BY <2>1, <2>2, <2>3
  <1>r4. c \in [0..l -> D] /\ c[l] \in D
    <2> HIDE DEF next
    <2>1. \A k \in 1..l : c[k - 1] \in D => c[k] \in D
      BY <1>2, <1>r3
    <2>2. c \in [0..l -> D]
      BY <1>1, <1>r3, <2>1, RunStays
    <2> QED
      BY <1>1, <2>2
  <1>5. slots' = [slots EXCEPT ![n] = c[last]] /\ c[last] \in Seq(Names \cup {None})
    BY <1>3, <1>4, <1>r4 DEF Cleared, D
  <1>6. SlotsOK'
    BY <1>5 DEF SlotsOK, TreeInv
  <1>7. root \in Graphs
    <2>1. owner[n] \in Graphs
      BY <1>3 DEF TreeInv, TreeOK, Owners
    <2> QED
      BY <2>1, RootIs DEF TreeInv, TreeOK, root
  <1>8. TreeOK(graph', owner')
    <2>1. TreeOK(RemoveSubgraphs(graph, root, gone), owner)
      BY <1>7, SubgraphsRemoved DEF TreeInv
    <2>2. graph' = RemoveSubgraphs(graph, root, gone) \/ graph' = graph
      BY <1>3
    <2> QED
      BY <1>3, <2>1, <2>2 DEF TreeInv
  <1> QED
    BY <1>6, <1>8 DEF TreeInv

(* A graph with parents, and in the register that takes it.                   *)
LEMMA AttachedIsOK ==
  ASSUME TreeInv, NEW n \in TreeNodes, NEW g \in Graphs, Attachable(n, g), NEW h \in Graphs
  PROVE  owner[n] \in Graphs /\ TreeOK(AddSubgraph(Parented(n, g), h, g), owner)
  <1> DEFINE G == Parented(n, g)
             p == owner[n]
             H == AddSubgraph(G, h, g)
             e == graph[g]
             f == [e EXCEPT !.parentNode = n, !.parentGraph = p]
  <1>0. n # None
    BY ContentAssumption
  <1>1. TreeOK(graph, owner) /\ graph \in Trees /\ owner \in Owners /\ NodesAgreeIn(graph, owner)
        /\ RegistersAgreeIn(graph) /\ ParentsRight(graph)
    BY DEF TreeInv, TreeOK
  <1>2. p \in Graphs
    <2>1. PICK k \in Graphs : Contains(graph[k].nodes, n)
      BY DEF Attachable, Listed
    <2>2. owner[n] = k
      BY <1>1, <2>1, InOneList
    <2> QED
      BY <2>2
  <1>3. graph[g].parentGraph = None /\ FindRootGraph(graph, p) # g
    BY <1>1 DEF Attachable, ParentsRight
  <1>4. G = [graph EXCEPT ![g] = f]
    BY <1>1 DEF Trees, Parented
  <1>5. e \in GraphRec
    BY <1>1, FieldsOf
  <1> HIDE DEF e, p
  <1>6. /\ f \in GraphRec /\ f.parentNode = n /\ f.parentGraph = p /\ f.name = e.name
        /\ f.nodes = e.nodes /\ f.size = e.size /\ f.outputs = e.outputs /\ f.list = e.list /\ f.named = e.named
    BY <1>2, <1>5 DEF GraphRec
  <1> HIDE DEF f, G
  <1>7. G \in Trees /\ G[g] = f /\ \A k \in Graphs \ {g} : G[k] = graph[k]
    BY <1>1, <1>4, <1>6 DEF Trees
  <1>8. SameNodes(graph, G) /\ SameRegisters(graph, G, Graphs) /\ \A k \in Graphs : G[k].name = graph[k].name
    BY <1>6, <1>7 DEF SameNodes, SameRegisters, e
  <1>9. NodesAgreeIn(G, owner)
    BY <1>1, <1>8 DEF NodesAgreeIn, NodesOK, SameNodes
  <1>10. RegistersAgreeIn(G)
    <2> SUFFICES ASSUME NEW k \in Graphs
                 PROVE  /\ IsDistinct(G[k].list)
                        /\ ToSet(G[k].list) = {G[k].named[x] : x \in DOMAIN G[k].named}
                        /\ \A x \in DOMAIN G[k].named : G[G[k].named[x]].name = x
                        /\ \A c \in Graphs \ {k} : ToSet(G[k].list) \cap ToSet(G[c].list) = {}
      BY DEF RegistersAgreeIn
    <2>1. \A c \in Graphs : G[c].list = graph[c].list /\ G[c].named = graph[c].named
      BY <1>8 DEF SameRegisters
    <2>2. /\ IsDistinct(graph[k].list)
          /\ ToSet(graph[k].list) = {graph[k].named[x] : x \in DOMAIN graph[k].named}
          /\ \A x \in DOMAIN graph[k].named : graph[graph[k].named[x]].name = x
          /\ \A c \in Graphs \ {k} : ToSet(graph[k].list) \cap ToSet(graph[c].list) = {}
      BY <1>1 DEF RegistersAgreeIn
    <2>3. \A x \in DOMAIN graph[k].named : graph[k].named[x] \in Graphs
      BY <1>1, FieldsOf, RegisterIs
    <2>4. \A x \in DOMAIN G[k].named : G[G[k].named[x]].name = x
      BY <1>8, <2>1, <2>2, <2>3
    <2>5. \A c \in Graphs \ {k} : ToSet(G[k].list) \cap ToSet(G[c].list) = {}
      BY <2>1, <2>2
    <2>6. IsDistinct(G[k].list) /\ ToSet(G[k].list) = {G[k].named[x] : x \in DOMAIN G[k].named}
      BY <2>1, <2>2
    <2> QED
      BY <2>4, <2>5, <2>6
  <1>11. ParentsRight(G)
    <2>1. G[g].parentGraph = p /\ G[g].parentNode # None
      BY <1>0, <1>6, <1>7
    <2>2. \A x \in Graphs : G[x].list = graph[x].list
      BY <1>8 DEF SameRegisters
    <2>3. \A x \in Graphs \ {g} : G[x].parentGraph = graph[x].parentGraph /\ G[x].parentNode = graph[x].parentNode
      BY <1>7
    <2> QED
      BY <1>1, <1>2, <1>3, <1>7, <2>1, <2>2, <2>3, ParentedRight
  <1>12. TreeOK(G, owner)
    BY <1>1, <1>7, <1>9, <1>10, <1>11 DEF TreeOK
  <1>13. \A k \in Graphs : g \notin ToSet(G[k].list)
    <2> SUFFICES ASSUME NEW k \in Graphs, g \in ToSet(G[k].list) PROVE FALSE
      OBVIOUS
    <2>1. g \in ToSet(graph[k].list)
      BY <1>8 DEF SameRegisters
    <2> QED
      BY <1>1, <1>3, <2>1, ListedHaveParents
  <1>14. TreeOK(H, owner)
    <2>1. CASE ~CanAddSubgraph(G, h, g)
      BY <1>12, <2>1 DEF AddSubgraph
    <2>2. CASE CanAddSubgraph(G, h, g)
      <3> HIDE DEF H
      <3>1. Added(G, H, h, g)
        BY <1>7, <2>2, AddSubgraphIs DEF H
      <3>2. G[g].name \notin DOMAIN G[h].named /\ G[g].parentGraph # None
        BY <2>2 DEF CanAddSubgraph
      <3>3. RegistersAgreeIn(H)
        BY <1>7, <1>10, <1>13, <3>1, <3>2, AddedAgree
      <3>4. G[h].list \in Seq(Graphs) /\ IsDistinct(G[h].list) /\ g \notin ToSet(G[h].list)
        BY <1>12, <1>13, ListedHaveParents
      <3>5. H \in Trees /\ SameNodes(G, H) /\ SameNames(G, H) /\ SameRegisters(G, H, Graphs \ {h})
            /\ H[h].list = Append(G[h].list, g)
        BY <3>1 DEF Added
      <3> DEFINE q == G[h].list
      <3> HIDE DEF q
      <3>6. q \in Seq(Graphs) /\ IsDistinct(q) /\ g \notin ToSet(q)
        BY <3>4 DEF q
      <3>7. ToSet(Append(q, g)) = ToSet(q) \cup {g}
        BY <3>6, DistinctAppend
      <3>8. ASSUME NEW k \in Graphs, NEW x \in ToSet(H[k].list) PROVE G[x].parentGraph # None
        <4>1. CASE k = h
          <5>1. x = g \/ x \in ToSet(G[h].list)
            BY <3>5, <3>7, <3>8, <4>1 DEF q
          <5> QED
            BY <1>12, <3>2, <5>1, ListedHaveParents
        <4>2. CASE k # h
          <5>1. x \in ToSet(G[k].list)
            BY <3>5, <3>8, <4>2 DEF SameRegisters
          <5> QED
            BY <1>12, <5>1, ListedHaveParents
        <4> QED
          BY <4>1, <4>2
      <3> QED
        BY <1>12, <3>3, <3>5, <3>8, RegistersLeft
    <2> QED
      BY <2>1, <2>2
  <1> QED
    BY <1>2, <1>14 DEF p, G

LEMMA SlotSet ==
  ASSUME TreeInv, NEW n \in TreeNodes, NEW index, NEW g \in Graphs,
         slots' = slots \/ slots' = [slots EXCEPT ![n][index] = graph[g].name]
  PROVE  SlotsOK'
  <1> DEFINE x == graph[g].name
             s == slots[n]
             T == Names \cup {None}
             e == [s EXCEPT ![index] = x]
  <1>1. x \in T
    BY FieldsOf DEF TreeInv, TreeOK
  <1>2. slots \in [TreeNodes -> Seq(T)]
    BY DEF TreeInv, SlotsOK
  <1>3. s \in Seq(T)
    BY <1>2
  <1>4. [slots EXCEPT ![n][index] = x] = [slots EXCEPT ![n] = e]
    BY <1>2
  <1> HIDE DEF x, T, s
  <1>5. Len(s) \in Nat /\ DOMAIN s = 1..Len(s) /\ \A j \in 1..Len(s) : s[j] \in T
    BY <1>3
  <1>6. e = [j \in 1..Len(s) |-> e[j]] /\ \A j \in 1..Len(s) : e[j] = s[j] \/ e[j] = x
    BY <1>5
  <1> HIDE DEF e
  <1>7. e \in [1..Len(s) -> T]
    BY <1>1, <1>5, <1>6
  <1>8. e \in Seq(T)
    BY <1>5, <1>7
  <1>9. [slots EXCEPT ![n] = e] \in [TreeNodes -> Seq(T)]
    BY <1>2, <1>8
  <1>10. slots' \in [TreeNodes -> Seq(T)]
    BY <1>2, <1>4, <1>9 DEF x
  <1> QED
    BY <1>10 DEF SlotsOK, T

LEMMA SetSubgraphInv ==
  ASSUME TreeInv, NEW n \in TreeNodes, NEW index, NEW g \in Graphs, SetSubgraph(n, index, g)
  PROVE  TreeInv'
  <1> DEFINE root == FindRootGraph(graph, owner[n])
             H == AddSubgraph(Parented(n, g), root, g)
  <1>1. /\ Attachable(n, g) /\ owner' = owner
        /\ slots' = slots \/ slots' = [slots EXCEPT ![n][index] = graph[g].name]
        /\ graph' = H \/ graph' = graph
    BY DEF SetSubgraph
  <1>2. root \in Graphs
    <2>1. owner[n] \in Graphs
      BY <1>1, AttachedIsOK
    <2> QED
      BY <2>1, RootIs DEF TreeInv, TreeOK
  <1> HIDE DEF root
  <1>3. TreeOK(H, owner)
    BY <1>1, <1>2, AttachedIsOK
  <1> HIDE DEF H
  <1>4. TreeOK(graph', owner')
    BY <1>1, <1>3 DEF TreeInv
  <1>5. SlotsOK'
    BY <1>1, SlotSet
  <1> QED
    BY <1>4, <1>5 DEF TreeInv

LEMMA WalkAllSubgraphsInv ==
  ASSUME TreeInv, NEW n \in TreeNodes, NEW index, NEW g \in Graphs, WalkAllSubgraphs(n, index, g)
  PROVE  TreeInv'
  <1> DEFINE h == owner[n]
             H == AddSubgraph(Parented(n, g), h, g)
  <1>1. /\ Attachable(n, g) /\ owner' = owner
        /\ slots' = slots \/ slots' = [slots EXCEPT ![n][index] = graph[g].name]
        /\ graph' = H
    BY DEF WalkAllSubgraphs
  <1>2. h \in Graphs
    BY <1>1, AttachedIsOK
  <1> HIDE DEF h
  <1>3. TreeOK(H, owner)
    BY <1>1, <1>2, AttachedIsOK
  <1> HIDE DEF H
  <1>4. TreeOK(graph', owner')
    BY <1>1, <1>3
  <1>5. SlotsOK'
    BY <1>1, SlotSet
  <1> QED
    BY <1>4, <1>5 DEF TreeInv

LEMMA MoveSubgraphToRootInv ==
  ASSUME TreeInv, NEW h \in Graphs, MoveSubgraphToRoot(h)
  PROVE  TreeInv'
  <1>1. graph[h].parentGraph = None /\ graph' = Move(graph, h).G /\ UNCHANGED <<owner, slots>>
    BY DEF MoveSubgraphToRoot
  <1>2. TreeOK(Move(graph, h).G, owner)
    BY <1>1, Moved DEF TreeInv
  <1> QED
    BY <1>1, <1>2, OnlyGraph

LEMMA RemoveSubgraphByNameInv ==
  ASSUME TreeInv, NEW h \in Graphs, NEW name, RemoveSubgraphByName(h, name)
  PROVE  TreeInv'
  <1>1. name \in DOMAIN graph[h].named /\ graph' = RemoveSubgraph(graph, h, name) /\ UNCHANGED <<owner, slots>>
    BY DEF RemoveSubgraphByName
  <1>2. TreeOK(graph, owner) /\ graph \in Trees /\ IsDistinct(graph[h].list)
    BY ListedHaveParents DEF TreeInv, TreeOK
  <1>3. Removed(graph, RemoveSubgraph(graph, h, name), h, name)
    BY <1>1, <1>2, RemoveSubgraphIs
  <1>4. TreeOK(RemoveSubgraph(graph, h, name), owner)
    BY <1>1, <1>2, <1>3, RemovedIsOK
  <1> QED
    BY <1>1, <1>4, OnlyGraph

(* Two roots that exchange their members: none of them is in a register, so   *)
(* that the names they exchange are in no register either.                    *)
LEMMA SwapInv ==
  ASSUME TreeInv, NEW g \in Graphs, NEW h \in Graphs, Swap(g, h)
  PROVE  TreeInv'
  <1> DEFINE G == [graph EXCEPT ![g] = graph[h], ![h] = graph[g]]
             own == SetNodesOwner(SetNodesOwner(owner, G, g), G, h)
             of(k) == IF k = g THEN h ELSE IF k = h THEN g ELSE k
  <1>1. /\ TreeOK(graph, owner) /\ graph \in Trees /\ owner \in Owners /\ NodesAgreeIn(graph, owner)
        /\ RegistersAgreeIn(graph) /\ ParentsRight(graph) /\ SlotsOK
    BY DEF TreeInv, TreeOK
  <1>2. g # h /\ graph[g].parentGraph = None /\ graph[h].parentGraph = None /\ graph' = G /\ owner' = own /\ slots' = slots
    BY DEF Swap
  <1>3. G \in Trees /\ \A k \in Graphs : of(k) \in Graphs /\ G[k] = graph[of(k)]
    BY <1>1, <1>2 DEF Trees
  <1>4. G[g] = graph[h] /\ G[h] = graph[g] /\ \A k \in Graphs \ {g, h} : G[k] = graph[k]
    BY <1>1, <1>2, <1>3
  <1>5. \A j, k \in Graphs : of(j) = of(k) => j = k
    BY <1>2
  <1> HIDE DEF G
  <1>6. own \in Owners /\ \A n \in TreeNodes : own[n] = IF Contains(G[h].nodes, n) THEN h
                                                        ELSE IF Contains(G[g].nodes, n) THEN g ELSE owner[n]
    BY <1>1 DEF SetNodesOwner, Owners
  <1> HIDE DEF own, of
  <1>7. NodesAgreeIn(G, own)
    <2> SUFFICES ASSUME NEW k \in Graphs PROVE NodesOK(G[k], k, own)
      BY DEF NodesAgreeIn
    <2>1. NodesOK(graph[of(k)], of(k), owner) /\ of(k) \in Graphs /\ G[k] = graph[of(k)]
      BY <1>1, <1>3 DEF NodesAgreeIn
    <2>2. ASSUME NEW n \in ToSet(G[k].nodes) PROVE own[n] = k
      <3>1. n \in TreeNodes
        BY <1>3, FieldsOf, ToSetIs
      <3>2. \A j \in Graphs : Contains(graph[j].nodes, n) <=> n \in ToSet(graph[j].nodes)
        BY <1>1, <3>1, InOneList
      <3>3. \A j \in Graphs : n \in ToSet(graph[j].nodes) => owner[n] = j
        BY <1>1, <3>1, InOneList
      <3>4. n \in ToSet(graph[of(k)].nodes) /\ owner[n] = of(k)
        BY <2>1, <3>3
      <3>5. CASE k = h
        BY <1>4, <1>6, <3>1, <3>2, <3>4, <3>5, <2>1
      <3>6. CASE k = g
        <4>1. of(k) = h /\ ~Contains(G[h].nodes, n) /\ Contains(G[g].nodes, n)
          BY <1>2, <1>4, <3>2, <3>3, <3>4, <3>6, <2>1 DEF of
        <4> QED
          BY <1>6, <3>1, <3>6, <4>1
      <3>7. CASE k # g /\ k # h
        <4>1. of(k) = k /\ ~Contains(G[h].nodes, n) /\ ~Contains(G[g].nodes, n)
          BY <1>4, <3>2, <3>3, <3>4, <3>7 DEF of
        <4> QED
          BY <1>6, <3>1, <3>4, <4>1
      <3> QED
        BY <3>5, <3>6, <3>7
    <2> QED
      BY <2>1, <2>2 DEF NodesOK
  <1>8. \A k \in Graphs : G[k].list = graph[of(k)].list /\ G[k].named = graph[of(k)].named
        /\ G[k].parentGraph = graph[of(k)].parentGraph /\ G[k].parentNode = graph[of(k)].parentNode
    BY <1>3
  <1>9. \A k \in Graphs : G[k].parentGraph = graph[k].parentGraph /\ G[k].parentNode = graph[k].parentNode
    <2>1. graph[g].parentNode = None /\ graph[h].parentNode = None
      BY <1>1, <1>2 DEF ParentsRight
    <2> QED
      BY <1>2, <1>4, <2>1
  <1>10. RegistersAgreeIn(G)
    <2> SUFFICES ASSUME NEW k \in Graphs
                 PROVE  /\ IsDistinct(G[k].list)
                        /\ ToSet(G[k].list) = {G[k].named[x] : x \in DOMAIN G[k].named}
                        /\ \A x \in DOMAIN G[k].named : G[G[k].named[x]].name = x
                        /\ \A c \in Graphs \ {k} : ToSet(G[k].list) \cap ToSet(G[c].list) = {}
      BY DEF RegistersAgreeIn
    <2> DEFINE j == of(k)
    <2>0. j \in Graphs /\ G[k].list = graph[j].list /\ G[k].named = graph[j].named
      BY <1>3, <1>8
    <2>1. \A c \in Graphs \ {k} : of(c) \in Graphs \ {j} /\ G[c].list = graph[of(c)].list
      BY <1>3, <1>5, <1>8
    <2> HIDE DEF j
    <2>2. /\ IsDistinct(graph[j].list)
          /\ ToSet(graph[j].list) = {graph[j].named[x] : x \in DOMAIN graph[j].named}
          /\ \A c \in Graphs \ {j} : ToSet(graph[j].list) \cap ToSet(graph[c].list) = {}
      BY <1>1, <2>0 DEF RegistersAgreeIn
    <2>3. ASSUME NEW x \in DOMAIN graph[j].named PROVE G[graph[j].named[x]].name = x
      <3> DEFINE y == graph[j].named[x]
      <3>1. y \in ToSet(graph[j].list) /\ graph[y].name = x
        BY <1>1, <2>0, ListedHaveParents
      <3>2. y \in Graphs /\ graph[y].parentGraph # None
        BY <1>1, <2>0, <3>1, ListedHaveParents
      <3> HIDE DEF y
      <3>3. G[y] = graph[y]
        BY <1>2, <1>4, <3>2
      <3> QED
        BY <3>1, <3>3 DEF y
    <2>4. \A c \in Graphs \ {k} : ToSet(G[k].list) \cap ToSet(G[c].list) = {}
      BY <2>0, <2>1, <2>2
    <2>5. IsDistinct(G[k].list) /\ ToSet(G[k].list) = {G[k].named[x] : x \in DOMAIN G[k].named}
      BY <2>0, <2>2
    <2>6. \A x \in DOMAIN G[k].named : G[G[k].named[x]].name = x
      BY <2>0, <2>3
    <2> QED
      BY <2>4, <2>5, <2>6
  <1>11. ParentsRight(G)
    <2>1. PICK rank : Ranked(graph, rank)
      BY <1>1 DEF ParentsRight
    <2>2. Ranked(G, rank)
      BY <1>9, <2>1 DEF Ranked
    <2>3. ASSUME NEW k \in Graphs, NEW x \in ToSet(G[k].list) PROVE G[x].parentGraph # None
      <3>1. of(k) \in Graphs /\ x \in ToSet(graph[of(k)].list)
        BY <1>3, <1>8
      <3>2. x \in Graphs /\ graph[x].parentGraph # None
        BY <1>1, <3>1, ListedHaveParents
      <3> QED
        BY <1>9, <3>2
    <2>4. \A k \in Graphs : G[k].parentGraph = None <=> G[k].parentNode = None
      BY <1>1, <1>9 DEF ParentsRight
    <2> QED
      BY <2>2, <2>3, <2>4 DEF ParentsRight
  <1>12. TreeOK(G, own)
    BY <1>3, <1>6, <1>7, <1>10, <1>11 DEF TreeOK
  <1>13. TreeOK(graph', owner')
    BY <1>2, <1>12
  <1>14. SlotsOK'
    BY <1>1, <1>2 DEF SlotsOK
  <1> QED
    BY <1>13, <1>14 DEF TreeInv

LEMMA TreeInitInv == TreeInit => TreeInv
  <1> SUFFICES ASSUME TreeInit PROVE TreeInv
    OBVIOUS
  <1>1. PICK naming \in Namings :
        graph = [g \in Graphs |->
            [name |-> naming[g], nodes |-> Content[g], size |-> Len(Content[g]),
             inputs |-> << >>, outputs |-> << >>,
             list |-> << >>, named |-> << >>,
             parentGraph |-> None, parentNode |-> None]]
    BY DEF TreeInit
  <1>2. /\ owner = [n \in TreeNodes |->
            IF \E g \in Graphs : Contains(Content[g], n)
            THEN CHOOSE g \in Graphs : Contains(Content[g], n) ELSE None]
        /\ slots = [n \in TreeNodes |-> [i \in 1..Slots[n] |-> None]]
    BY DEF TreeInit
  <1>3. /\ naming \in [Graphs -> Names] /\ Content \in [Graphs -> Seq(TreeNodes)]
        /\ \A g, h \in Graphs : \A i \in DOMAIN Content[g], j \in DOMAIN Content[h] :
               Content[g][i] = Content[h][j] => g = h /\ i = j
    BY ContentAssumption
  <1>4. SlotsOK
    <2> SUFFICES ASSUME NEW n \in TreeNodes PROVE [i \in 1..Slots[n] |-> None] \in Seq(Names \cup {None})
      BY <1>2 DEF SlotsOK
    <2>1. Slots[n] \in Nat
      BY ContentAssumption
    <2>2. [i \in 1..Slots[n] |-> None] \in [1..Slots[n] -> Names \cup {None}]
      OBVIOUS
    <2> QED
      BY <2>1, <2>2
  <1>5. << >> \in Seq(TreeNodes) /\ << >> \in Seq(TreeNodes \X OutIndexes) /\ << >> \in Seq(Graphs)
        /\ DOMAIN << >> = {} /\ Len(<< >>) = 0 /\ ToSet(<< >>) = {} /\ IsDistinct(<< >>)
    <2>1. DOMAIN << >> = {}
      OBVIOUS
    <2> QED
      BY <2>1 DEF ToSet, IsDistinct
  <1>6. << >> \in Registers
    <2>1. << >> \in [{} -> Graphs]
      BY <1>5
    <2> QED
      BY <2>1, IsRegister
  <1>7. \A g \in Graphs : /\ graph[g] \in GraphRec /\ graph[g].nodes = Content[g] /\ graph[g].size = Len(Content[g])
                          /\ graph[g].outputs = << >> /\ graph[g].list = << >> /\ graph[g].named = << >>
                          /\ graph[g].parentGraph = None /\ graph[g].parentNode = None
    BY <1>1, <1>3, <1>5, <1>6 DEF GraphRec
  <1>8. graph \in Trees
    BY <1>1, <1>7 DEF Trees
  <1>9. ASSUME NEW g \in Graphs, NEW n \in ToSet(Content[g]) PROVE owner[n] = g
    <2>1. Content[g] \in Seq(TreeNodes) /\ n \in TreeNodes
      BY <1>3, <1>9, ToSetIs
    <2>2. Contains(Content[g], n)
      BY <1>9, <2>1, ToSetIs DEF Contains
    <2>3. \A h \in Graphs : Contains(Content[h], n) => h = g
      <3> SUFFICES ASSUME NEW h \in Graphs, Contains(Content[h], n) PROVE h = g
        OBVIOUS
      <3>1. PICK i \in 1..Len(Content[g]), j \in 1..Len(Content[h]) : Content[g][i] = n /\ Content[h][j] = n
        BY <2>2 DEF Contains
      <3>2. i \in DOMAIN Content[g] /\ j \in DOMAIN Content[h]
        BY <1>3
      <3> QED
        BY <1>3, <3>1, <3>2
    <2> QED
      BY <1>2, <2>1, <2>2, <2>3
  <1>10. owner \in Owners
    <2> SUFFICES ASSUME NEW n \in TreeNodes PROVE owner[n] \in Graphs \cup {None}
      BY <1>2 DEF Owners
    <2>1. CASE \E g \in Graphs : Contains(Content[g], n)
      BY <1>2, <2>1
    <2>2. CASE ~\E g \in Graphs : Contains(Content[g], n)
      BY <1>2, <2>2
    <2> QED
      BY <2>1, <2>2
  <1>11. NodesAgreeIn(graph, owner)
    <2> SUFFICES ASSUME NEW g \in Graphs PROVE NodesOK(graph[g], g, owner)
      BY DEF NodesAgreeIn
    <2>1. IsDistinct(Content[g])
      BY <1>3 DEF IsDistinct
    <2> QED
      BY <1>5, <1>7, <1>9, <2>1 DEF NodesOK
  <1>12. RegistersAgreeIn(graph)
    BY <1>5, <1>7 DEF RegistersAgreeIn
  <1>13. ParentsRight(graph)
    <2> DEFINE rank == [g \in Graphs |-> 0]
    <2>1. Ranked(graph, rank)
      BY <1>7 DEF Ranked
    <2> QED
      BY <1>5, <1>7, <2>1 DEF ParentsRight
  <1> QED
    BY <1>4, <1>8, <1>10, <1>11, <1>12, <1>13 DEF TreeInv, TreeOK

LEMMA TreeNextInv == TreeInv /\ [TreeNext]_treeVars => TreeInv'
  <1> SUFFICES ASSUME TreeInv, [TreeNext]_treeVars PROVE TreeInv'
    OBVIOUS
  <1>1. CASE UNCHANGED treeVars
    <2>1. graph' = graph /\ owner' = owner /\ slots' = slots
      BY <1>1 DEF treeVars
    <2>2. SlotsOK'
      BY <2>1 DEF TreeInv, SlotsOK
    <2>3. TreeOK(graph', owner')
      BY <2>1 DEF TreeInv
    <2> QED
      BY <2>2, <2>3 DEF TreeInv
  <1>2. CASE TreeNext
    <2>1. ASSUME NEW h \in Graphs, NEW n \in TreeNodes, AddNode(h, n) PROVE TreeInv'
      BY <2>1, AddNodeInv
    <2>2. ASSUME NEW h \in Graphs, NEW n \in TreeNodes, AddNodeFront(h, n) PROVE TreeInv'
      BY <2>2, AddNodeFrontInv
    <2>3. ASSUME NEW h \in Graphs, NEW n \in TreeNodes, AddInputNode(h, n) PROVE TreeInv'
      BY <2>3, AddInputNodeInv
    <2>4. ASSUME NEW h \in Graphs, NEW n \in TreeNodes, NEW index \in OutIndexes, AddOutputNodeByIndex(h, n, index) PROVE TreeInv'
      BY <2>4, AddOutputNodeInv
    <2>5. ASSUME NEW h \in Graphs, NEW n \in TreeNodes, RemoveNodeWithoutRelink(h, n) PROVE TreeInv'
      BY <2>5, RemoveNodeInv
    <2>6. ASSUME NEW n \in TreeNodes, AddSubgraphName(n) PROVE TreeInv'
      BY <2>6, AddSubgraphNameInv
    <2>7. ASSUME NEW n \in TreeNodes, RemoveSubgraphsOnNode(n) PROVE TreeInv'
      BY <2>7, RemoveSubgraphsOnNodeInv
    <2>8. ASSUME NEW n \in TreeNodes, NEW index \in 1..MaxSlots, NEW g \in Graphs, SetSubgraph(n, index, g) PROVE TreeInv'
      BY <2>8, SetSubgraphInv
    <2>9. ASSUME NEW n \in TreeNodes, NEW index \in 1..MaxSlots, NEW g \in Graphs, WalkAllSubgraphs(n, index, g) PROVE TreeInv'
      BY <2>9, WalkAllSubgraphsInv
    <2>10. ASSUME NEW h \in Graphs, MoveSubgraphToRoot(h) PROVE TreeInv'
      BY <2>10, MoveSubgraphToRootInv
    <2>11. ASSUME NEW h \in Graphs, NEW name \in Names, RemoveSubgraphByName(h, name) PROVE TreeInv'
      BY <2>11, RemoveSubgraphByNameInv
    <2>12. ASSUME NEW h \in Graphs, NEW g \in Graphs, Swap(g, h) PROVE TreeInv'
      BY <2>12, SwapInv
    <2> QED
      BY <1>2, <2>1, <2>2, <2>3, <2>4, <2>5, <2>6, <2>7, <2>8, <2>9, <2>10, <2>11, <2>12 DEF TreeNext
  <1> QED
    BY <1>1, <1>2

(* Lists, sizes, owners and registers of the graph container agree, whatever  *)
(* was added, attached, moved, removed or swapped, in any order and also when *)
(* a clash of names ends a call half way (ComputeGraph's node list with       *)
(* direct_nodes_size_, sub_graph_ and names_to_subgraph_).                    *)
THEOREM ContainersAgreeAlways == TreeSpec => []ContainersAgree
  <1>1. TreeInv => ContainersAgree
    <2> SUFFICES ASSUME TreeInv PROVE ContainersAgree
      OBVIOUS
    <2>1. NodesAgreeIn(graph, owner) /\ RegistersAgreeIn(graph)
      BY DEF TreeInv, TreeOK
    <2>2. NodeListsAgree
      BY <2>1 DEF NodesAgreeIn, NodesOK, NodeListsAgree
    <2>3. RegistersAgree
      BY <2>1 DEF RegistersAgreeIn, RegistersAgree
    <2> QED
      BY <2>2, <2>3 DEF ContainersAgree
  <1> QED
    BY <1>1, TreeInitInv, TreeNextInv, PTL DEF TreeSpec

=============================================================================
