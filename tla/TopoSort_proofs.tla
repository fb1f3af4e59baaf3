-------------------------- MODULE TopoSort_proofs --------------------------
(* Proofs about TopoSort for every graph, every list of nodes, every run   *)
(* mode and every width of the counters.                                   *)
EXTENDS TopoSort, FiniteSetTheorems, SequenceTheorems,
        WellFoundedInduction, NaturalsInduction, TLAPS

-----------------------------------------------------------------------------
(* The elements of the sequences the sort works with. *)

Elements(s) ==
  /\ Len(s) \in Nat
  /\ \A x : x \in Range(s) <=> \E k \in 1..Len(s) : s[k] = x
  /\ IsInjective(s) <=> \A k, l \in 1..Len(s) : s[k] = s[l] => k = l

LEMMA RangeMember ==
  ASSUME NEW T, NEW s \in Seq(T)
  PROVE  Elements(s) /\ Range(s) \subseteq T
  BY DEF Range, IsInjective, Elements

LEMMA EmptyIsInjective ==
  /\ IsInjective(<< >>)
  /\ Range(<< >>) = {}
  BY DEF Range, IsInjective

LEMMA AppendIsInjective ==
  ASSUME NEW T, NEW s \in Seq(T), NEW x \in T
  PROVE  /\ Append(s, x) \in Seq(T)
         /\ Range(Append(s, x)) = Range(s) \cup {x}
         /\ IsInjective(s) /\ x \notin Range(s) => IsInjective(Append(s, x))
  <1> DEFINE t == Append(s, x)
  <1>1. /\ t \in Seq(T) /\ Len(s) \in Nat /\ Len(t) = Len(s) + 1
        /\ t[Len(s) + 1] = x /\ \A k \in 1..Len(s) : t[k] = s[k]
    OBVIOUS
  <1> HIDE DEF t
  <1>r. Elements(s) /\ Elements(t)
    BY <1>1, RangeMember
  <1>2. \A k \in 1..Len(t) : k \in 1..Len(s) \/ k = Len(s) + 1
    BY <1>1
  <1>3. Len(s) + 1 \in 1..Len(t) /\ \A k \in 1..Len(s) : k \in 1..Len(t)
    BY <1>1
  <1>4. Range(t) = Range(s) \cup {x}
    BY <1>1, <1>2, <1>3, <1>r DEF Elements
  <1>5. ASSUME IsInjective(s), x \notin Range(s), NEW k \in 1..Len(t), NEW l \in 1..Len(t),
               t[k] = t[l]
        PROVE  k = l
    BY <1>1, <1>2, <1>5, <1>r DEF Elements
  <1>6. IsInjective(s) /\ x \notin Range(s) => IsInjective(t)
    BY <1>1, <1>5, <1>r DEF Elements
  <1> QED
    BY <1>1, <1>4, <1>6 DEF t

LEMMA FrontIsInjective ==
  ASSUME NEW T, NEW s \in Seq(T), s # << >>
  PROVE  /\ Front(s) \in Seq(T) /\ Last(s) \in T
         /\ Range(s) = Range(Front(s)) \cup {Last(s)}
         /\ IsInjective(s) => IsInjective(Front(s)) /\ Last(s) \notin Range(Front(s))
  <1> DEFINE f == Front(s)
  <1>0. Len(s) \in Nat \ {0} /\ Len(s) - 1 \in Nat
    BY EmptySeq
  <1>1. /\ f \in Seq(T) /\ Len(f) = Len(s) - 1
        /\ \A k \in 1..Len(f) : f[k] = s[k]
    <2>1. PICK n \in Nat : n = Len(s) - 1
      BY <1>0
    <2>2. f = SubSeq(s, 1, n) /\ 1..n \subseteq 1..Len(s)
      BY <1>0, <2>1 DEF Front
    <2>3. /\ SubSeq(s, 1, n) \in Seq(T) /\ Len(SubSeq(s, 1, n)) = n
          /\ \A k \in 1..n : SubSeq(s, 1, n)[k] = s[k]
      BY <1>0, <2>1
    <2> QED
      BY <2>1, <2>2, <2>3
  <1>2. Last(s) = s[Len(s)] /\ Len(s) \in 1..Len(s) /\ Last(s) \in T
    BY <1>0 DEF Last
  <1> HIDE DEF f
  <1>r. Elements(s) /\ Elements(f)
    BY <1>1, RangeMember
  <1>3. \A k \in 1..Len(s) : k \in 1..Len(f) \/ k = Len(s)
    BY <1>0, <1>1
  <1>4. \A k \in 1..Len(f) : k \in 1..Len(s) /\ k # Len(s)
    BY <1>0, <1>1
  <1>5. Range(s) = Range(f) \cup {Last(s)}
    <2>1. ASSUME NEW x, x \in Range(s) PROVE x \in Range(f) \cup {Last(s)}
      <3>1. PICK k \in 1..Len(s) : s[k] = x
        BY <2>1, <1>r DEF Elements
      <3>2. k \in 1..Len(f) \/ k = Len(s)
        BY <1>3
      <3> QED
        BY <1>1, <1>2, <3>1, <3>2, <1>r DEF Elements
    <2>2. ASSUME NEW x, x \in Range(f) PROVE x \in Range(s)
      <3>1. PICK k \in 1..Len(f) : f[k] = x
        BY <2>2, <1>r DEF Elements
      <3>2. k \in 1..Len(s)
        BY <1>4
      <3> QED
        BY <1>1, <3>1, <3>2, <1>r DEF Elements
    <2>3. Last(s) \in Range(s)
      BY <1>2, <1>r DEF Elements
    <2> QED
      BY <2>1, <2>2, <2>3
  <1>6. ASSUME IsInjective(s)
        PROVE  IsInjective(f) /\ Last(s) \notin Range(f)
    BY <1>1, <1>2, <1>4, <1>6, <1>r DEF Elements
  <1> QED
    BY <1>1, <1>2, <1>5, <1>6 DEF f

LEMMA LastIsElement ==
  ASSUME NEW T, NEW s \in Seq(T), s # << >>
  PROVE  Last(s) \in Range(s) /\ Last(s) \in T
  <1>1. Range(s) = Range(Front(s)) \cup {Last(s)} /\ Last(s) \in T
    BY FrontIsInjective
  <1> QED
    BY <1>1

LEMMA ReverseIsInjective ==
  ASSUME NEW T, NEW s \in Seq(T)
  PROVE  /\ Reverse(s) \in Seq(T)
         /\ Range(Reverse(s)) = Range(s)
         /\ IsInjective(s) => IsInjective(Reverse(s))
  <1> DEFINE r == Reverse(s)
  <1>1. Len(s) \in Nat /\ \A k \in 1..Len(s) : (Len(s) - k) + 1 \in 1..Len(s)
    OBVIOUS
  <1>2. r \in Seq(T) /\ Len(r) = Len(s) /\ \A k \in 1..Len(s) : r[k] = s[(Len(s) - k) + 1]
    BY <1>1 DEF Reverse
  <1>3. \A k \in 1..Len(s) : s[k] = r[(Len(s) - k) + 1]
    BY <1>1, <1>2
  <1> HIDE DEF r
  <1>r. Elements(s) /\ Elements(r)
    BY <1>2, RangeMember
  <1>4. Range(r) = Range(s)
    <2>1. ASSUME NEW x PROVE x \in Range(r) => x \in Range(s)
      BY <1>1, <1>2, <1>r DEF Elements
    <2>2. ASSUME NEW x PROVE x \in Range(s) => x \in Range(r)
      BY <1>1, <1>2, <1>3, <1>r DEF Elements
    <2> QED
      BY <2>1, <2>2
  <1>5. ASSUME IsInjective(s), NEW k \in 1..Len(r), NEW l \in 1..Len(r), r[k] = r[l]
        PROVE  k = l
    <2> DEFINE m == (Len(s) - k) + 1
               n == (Len(s) - l) + 1
    <2>0. m \in 1..Len(s) /\ n \in 1..Len(s) /\ s[m] = s[n]
      BY <1>1, <1>2, <1>5
    <2> HIDE DEF m, n
    <2>2. m = n
      BY <1>5, <2>0, <1>r DEF Elements
    <2>1. (Len(s) - k) + 1 = (Len(s) - l) + 1
      BY <2>2 DEF m, n
    <2> QED
      BY <1>1, <1>2, <2>1
  <1>6. IsInjective(s) => IsInjective(r)
    BY <1>2, <1>5, <1>r DEF Elements
  <1> QED
    BY <1>2, <1>4, <1>6 DEF r

LEMMA ConcatIsInjective ==
  ASSUME NEW T, NEW s \in Seq(T), NEW t \in Seq(T)
  PROVE  /\ s \o t \in Seq(T)
         /\ Range(s \o t) = Range(s) \cup Range(t)
         /\ IsInjective(s) /\ IsInjective(t) /\ Range(s) \cap Range(t) = {}
              => IsInjective(s \o t)
  <1> DEFINE r == s \o t
  <1>1. /\ r \in Seq(T) /\ Len(s) \in Nat /\ Len(t) \in Nat /\ Len(r) = Len(s) + Len(t)
        /\ \A k \in 1..Len(s) : r[k] = s[k]
        /\ \A k \in 1..Len(t) : r[Len(s) + k] = t[k]
    BY ConcatProperties
  <1> HIDE DEF r
  <1>r. Elements(s) /\ Elements(t) /\ Elements(r)
    BY <1>1, RangeMember
  <1>2. ASSUME NEW k \in 1..Len(r)
        PROVE  k \in 1..Len(s) \/ \E l \in 1..Len(t) : k = Len(s) + l
    <2>1. k <= Len(s) \/ k > Len(s)
      BY <1>1
    <2>2. CASE k > Len(s)
      <3>1. k - Len(s) \in 1..Len(t) /\ k = Len(s) + (k - Len(s))
        BY <1>1, <2>2
      <3> QED
        BY <3>1
    <2> QED
      BY <1>1, <2>1, <2>2
  <1>3. /\ \A k \in 1..Len(s) : k \in 1..Len(r)
        /\ \A k \in 1..Len(t) : Len(s) + k \in 1..Len(r)
    BY <1>1
  <1>4. Range(r) = Range(s) \cup Range(t)
    <2>1. ASSUME NEW x, x \in Range(r) PROVE x \in Range(s) \cup Range(t)
      <3>1. PICK k \in 1..Len(r) : r[k] = x
        BY <2>1, <1>r DEF Elements
      <3>2. CASE k \in 1..Len(s)
        BY <1>1, <3>1, <3>2, <1>r DEF Elements
      <3>3. ASSUME NEW l \in 1..Len(t), k = Len(s) + l
            PROVE  x \in Range(t)
        <4>1. t[l] = x
          BY <1>1, <3>1, <3>3
        <4> QED
          BY <4>1, <1>r DEF Elements
      <3> QED
        BY <1>2, <3>2, <3>3
    <2>2. ASSUME NEW x, x \in Range(s) PROVE x \in Range(r)
      <3>1. PICK k \in 1..Len(s) : s[k] = x
        BY <2>2, <1>r DEF Elements
      <3>2. r[k] = x /\ k \in 1..Len(r)
        BY <1>1, <1>3, <3>1
      <3> QED
        BY <3>2, <1>r DEF Elements
    <2>3. ASSUME NEW x, x \in Range(t) PROVE x \in Range(r)
      <3>1. PICK k \in 1..Len(t) : t[k] = x
        BY <2>3, <1>r DEF Elements
      <3>2. r[Len(s) + k] = x /\ Len(s) + k \in 1..Len(r)
        BY <1>1, <1>3, <3>1
      <3> QED
        BY <3>2, <1>r DEF Elements
    <2> QED
      BY <2>1, <2>2, <2>3
  <1>5. ASSUME IsInjective(s), IsInjective(t), Range(s) \cap Range(t) = {},
               NEW k \in 1..Len(r), NEW l \in 1..Len(r), r[k] = r[l]
        PROVE  k = l
    <2>1. \A m \in 1..Len(s) : \A n \in 1..Len(t) : s[m] # t[n]
      BY <1>5, <1>r DEF Elements
    <2>2. CASE k \in 1..Len(s) /\ l \in 1..Len(s)
      BY <1>1, <1>5, <2>2, <1>r DEF Elements
    <2>3. ASSUME NEW m \in 1..Len(s), NEW n \in 1..Len(t) PROVE r[m] # r[Len(s) + n]
      BY <1>1, <2>1
    <2>4. ASSUME NEW m \in 1..Len(t), NEW n \in 1..Len(t), r[Len(s) + m] = r[Len(s) + n]
          PROVE  m = n
      <3>1. t[m] = t[n]
        BY <1>1, <2>4
      <3> QED
        BY <1>5, <3>1, <1>r DEF Elements
    <2> QED
      BY <1>2, <1>5, <2>2, <2>3, <2>4
  <1>6. IsInjective(s) /\ IsInjective(t) /\ Range(s) \cap Range(t) = {} => IsInjective(r)
    BY <1>1, <1>5, <1>r DEF Elements
  <1> QED
    BY <1>1, <1>4, <1>6 DEF r

LEMMA InsertIsInjective ==
  ASSUME NEW T, NEW s \in Seq(T), NEW x \in T, NEW p \in 1..(Len(s) + 1)
  PROVE  /\ InsertAt(s, p, x) \in Seq(T)
         /\ Len(InsertAt(s, p, x)) = Len(s) + 1
         /\ Range(InsertAt(s, p, x)) = Range(s) \cup {x}
         /\ IsInjective(s) /\ x \notin Range(s) => IsInjective(InsertAt(s, p, x))
  <1> DEFINE a == SubSeq(s, 1, p - 1)
             b == SubSeq(s, p, Len(s))
  <1>1. Len(s) \in Nat /\ p \in Nat /\ p >= 1 /\ p <= Len(s) + 1
    OBVIOUS
  <1>2. /\ a \in Seq(T) /\ Len(a) = p - 1
        /\ \A k \in 1..Len(a) : a[k] = s[k] /\ k \in 1..Len(s) /\ k < p
    BY <1>1
  <1>3. /\ b \in Seq(T) /\ Len(b) = Len(s) - p + 1
        /\ \A k \in 1..Len(b) : b[k] = s[p - 1 + k] /\ p - 1 + k \in 1..Len(s) /\ p - 1 + k >= p
    BY <1>1, SubSeqProperties
  <1>4. InsertAt(s, p, x) = Append(a, x) \o b
    <2>1. a \o <<x>> = Append(a, x)
      BY <1>2
    <2> QED
      BY <2>1 DEF InsertAt
  <1> HIDE DEF a, b
  <1>r. Elements(s) /\ Elements(a) /\ Elements(b)
    BY <1>2, <1>3, RangeMember
  <1>5. Range(a) \cup Range(b) = Range(s)
    <2>1. ASSUME NEW y, y \in Range(s) PROVE y \in Range(a) \cup Range(b)
      <3>1. PICK k \in 1..Len(s) : s[k] = y
        BY <2>1, <1>r DEF Elements
      <3>2. k < p \/ k >= p
        BY <1>1
      <3>3. CASE k < p
        <4>1. k \in 1..Len(a)
          BY <1>1, <1>2, <3>3
        <4> QED
          BY <1>2, <3>1, <4>1, <1>r DEF Elements
      <3>4. CASE k >= p
        <4>1. k - p + 1 \in 1..Len(b) /\ p - 1 + (k - p + 1) = k
          BY <1>1, <1>3, <3>4
        <4>2. b[k - p + 1] = y
          BY <1>3, <3>1, <4>1
        <4> QED
          BY <4>1, <4>2, <1>r DEF Elements
      <3> QED
        BY <3>2, <3>3, <3>4
    <2>2. ASSUME NEW y, y \in Range(a) PROVE y \in Range(s)
      BY <1>2, <2>2, <1>r DEF Elements
    <2>3. ASSUME NEW y, y \in Range(b) PROVE y \in Range(s)
      <3>1. PICK k \in 1..Len(b) : b[k] = y
        BY <2>3, <1>r DEF Elements
      <3>2. s[p - 1 + k] = y /\ p - 1 + k \in 1..Len(s)
        BY <1>3, <3>1
      <3> QED
        BY <3>2, <1>r DEF Elements
    <2> QED
      BY <2>1, <2>2, <2>3
  <1>6. /\ Append(a, x) \in Seq(T) /\ Range(Append(a, x)) = Range(a) \cup {x}
        /\ Len(Append(a, x)) = p
        /\ IsInjective(a) /\ x \notin Range(a) => IsInjective(Append(a, x))
    BY <1>1, <1>2, AppendIsInjective
  <1>7. ASSUME IsInjective(s)
        PROVE  IsInjective(a) /\ IsInjective(b) /\ Range(a) \cap Range(b) = {}
    <2>1. IsInjective(a)
      BY <1>2, <1>7, <1>r DEF Elements
    <2>2. IsInjective(b)
      <3>1. ASSUME NEW k \in 1..Len(b), NEW l \in 1..Len(b), b[k] = b[l] PROVE k = l
        <4> DEFINE m == p - 1 + k
                   n == p - 1 + l
        <4>0. m \in 1..Len(s) /\ n \in 1..Len(s) /\ s[m] = s[n]
          BY <1>3, <3>1
        <4> HIDE DEF m, n
        <4>2. m = n
          BY <1>7, <4>0, <1>r DEF Elements
        <4>1. p - 1 + k = p - 1 + l
          BY <4>2 DEF m, n
        <4> QED
          BY <1>1, <4>1
      <3> QED
        BY <1>3, <3>1, <1>r DEF Elements
    <2>3. ASSUME NEW y, y \in Range(a), y \in Range(b) PROVE FALSE
      <3>1. PICK k \in 1..Len(a) : a[k] = y
        BY <1>2, <2>3, <1>r DEF Elements
      <3>2. PICK l \in 1..Len(b) : b[l] = y
        BY <1>3, <2>3, <1>r DEF Elements
      <3>3. k = p - 1 + l
        BY <1>2, <1>3, <1>7, <3>1, <3>2, <1>r DEF Elements
      <3> QED
        BY <1>1, <1>2, <1>3, <3>3
    <2> QED
      BY <2>1, <2>2, <2>3
  <1>8. /\ Append(a, x) \o b \in Seq(T)
        /\ Range(Append(a, x) \o b) = Range(Append(a, x)) \cup Range(b)
        /\ IsInjective(Append(a, x)) /\ IsInjective(b) /\ Range(Append(a, x)) \cap Range(b) = {}
             => IsInjective(Append(a, x) \o b)
        /\ Len(Append(a, x) \o b) = p + Len(b)
    <2> DEFINE c == Append(a, x)
    <2>1. c \in Seq(T) /\ Len(c) = p
      BY <1>6
    <2> HIDE DEF c
    <2>2. /\ c \o b \in Seq(T)
          /\ Range(c \o b) = Range(c) \cup Range(b)
          /\ IsInjective(c) /\ IsInjective(b) /\ Range(c) \cap Range(b) = {}
               => IsInjective(c \o b)
      BY <1>3, <2>1, ConcatIsInjective
    <2>3. Len(c \o b) = Len(c) + Len(b)
      <3>1. c \in Seq(T) /\ b \in Seq(T)
        BY <1>3, <2>1
      <3> QED
        BY ONLY <3>1
    <2> QED
      BY <2>1, <2>2, <2>3 DEF c
  <1> QED
    BY <1>1, <1>3, <1>4, <1>5, <1>6, <1>7, <1>8

LEMMA SwapIsInjective ==
  ASSUME NEW T, NEW s \in Seq(T), NEW k \in 1..Len(s), NEW l \in 1..Len(s)
  PROVE  /\ Swap(s, k, l) \in Seq(T)
         /\ Range(Swap(s, k, l)) = Range(s)
         /\ IsInjective(s) => IsInjective(Swap(s, k, l))
  <1> DEFINE t == Swap(s, k, l)
  <1>1. /\ t \in Seq(T) /\ Len(t) = Len(s) /\ t[k] = s[l] /\ t[l] = s[k]
        /\ \A m \in 1..Len(s) : m # k /\ m # l => t[m] = s[m]
    BY DEF Swap
  <1> HIDE DEF t
  <1>r. Elements(s) /\ Elements(t)
    BY <1>1, RangeMember
  <1>2. Range(t) = Range(s)
    <2>1. ASSUME NEW x, x \in Range(t) PROVE x \in Range(s)
      BY <1>1, <2>1, <1>r DEF Elements
    <2>2. ASSUME NEW x, x \in Range(s) PROVE x \in Range(t)
      BY <1>1, <2>2, <1>r DEF Elements
    <2> QED
      BY <2>1, <2>2
  <1>3. IsInjective(s) => IsInjective(t)
    BY <1>1, <1>r DEF Elements
  <1> QED
    BY <1>1, <1>2, <1>3 DEF t

LEMMA InjectiveLength ==
  ASSUME NEW T, NEW s \in Seq(T), IsInjective(s)
  PROVE  IsFiniteSet(Range(s)) /\ Cardinality(Range(s)) = Len(s)
  <1>1. s \in [1..Len(s) -> Range(s)] /\ Elements(s) /\ Len(s) \in Nat
    BY RangeMember DEF Elements
  <1>2. s \in Bijection(1..Len(s), Range(s))
    BY <1>1 DEF Elements, Bijection, Injection, Surjection, IsInjective
  <1>3. ExistsBijection(1..Len(s), Range(s))
    BY <1>2 DEF ExistsBijection
  <1>4. \A n \in Nat : IsFiniteSet(1..n) /\ Cardinality(1..n) = n
    BY FS_Interval
  <1> QED
    BY <1>1, <1>3, <1>4, FS_Bijection

-----------------------------------------------------------------------------
(* The inductive invariant.  An edge is left while the traversal has not   *)
(* come to it; the counter of a node tells how many of its edges are left, *)
(* less the broken ones, and the node is taken when that reaches zero.     *)

LeftEdge(e) ==
  \/ e[1] \notin Range(vec)
  \/ /\ phase = "edges"
     /\ e[1] = Last(vec)
     /\ \/ e[2] > group
        \/ e[2] = group /\ e[3] >= pos

LeftIn(n) == {e \in In(n) : LeftEdge(e)}
Taken == Range(stack) \cup Range(queue) \cup Range(fresh) \cup Range(vec)

Distinct ==
  /\ IsInjective(stack) /\ IsInjective(queue) /\ IsInjective(fresh) /\ IsInjective(vec)
  /\ Range(stack) \cap Range(queue) = {}
  /\ Range(stack) \cap Range(fresh) = {}
  /\ Range(stack) \cap Range(vec) = {}
  /\ Range(queue) \cap Range(fresh) = {}
  /\ Range(queue) \cap Range(vec) = {}
  /\ Range(fresh) \cap Range(vec) = {}

Counted(n) ==
  cnt[n] = IF Cardinality(LeftIn(n)) >= Cardinality(Broken(n))
           THEN Cardinality(LeftIn(n)) - Cardinality(Broken(n))
           ELSE Cardinality(LeftIn(n)) - Cardinality(Broken(n)) + Modulus

Waits(n) == Cardinality(LeftIn(n)) > Cardinality(Broken(n))

VecInOrder ==
  \A k \in 1..Len(vec) : Broken(vec[k]) = {} =>
    \A e \in In(vec[k]) : \E l \in 1..(k - 1) : vec[l] = e[1]

EdgesFinite == IsFiniteSet(Edges) /\ Cardinality(Edges) <= MaxEdges

Collecting ==
  /\ i <= Len(nodes) + 1
  /\ queue = << >> /\ fresh = << >> /\ vec = << >>
  /\ IsInjective(stack)
  /\ specs <= Len(stack)
  /\ \A n : n \in Range(stack) <=> \E k \in 1..(i - 1) : nodes[k] = n /\ GetInEdgeSize(n) = 0
  /\ \A k \in 1..(i - 1) : cnt[nodes[k]] = GetInEdgeSize(nodes[k])

Sorting ==
  /\ Distinct
  /\ phase # "edges" => fresh = << >>
  /\ phase = "edges" => vec # << >>
  /\ phase = "swap" => vec = << >> /\ queue = << >>
  /\ VecInOrder
  /\ \A n \in Nodes : Counted(n)
  /\ \A n \in Nodes : Waits(n) => n \notin Taken
  /\ UniqueNames => \A n \in Nodes : Waits(n) \/ n \in Taken

Inv ==
  /\ TypeOK
  /\ NodeListIntact
  /\ EdgesFinite
  /\ ProducersFirst
  /\ LoopIsReal
  /\ phase = "idle" => Idle
  /\ phase = "collect" => Collecting
  /\ phase \in {"swap", "loop", "edges"} => Sorting

LEMMA GraphUnchanged ==
  ASSUME UNCHANGED graph
  PROVE  /\ Edges' = Edges
         /\ \A n : In(n)' = In(n)
         /\ \A n : Broken(n)' = Broken(n)
         /\ \A n : GetInEdgeSize(n)' = GetInEdgeSize(n)
         /\ EdgesFinite => EdgesFinite'
         /\ ProducersFirst => ProducersFirst'
         /\ LoopIsReal => LoopIsReal'
         /\ NodeListIntact => NodeListIntact'
  <1>1. Edges' = Edges /\ out' = out
    BY DEF Edges, graph
  <1>2. \A n : In(n)' = In(n)
    BY <1>1 DEF In, Dst
  <1>3. \A n : Broken(n)' = Broken(n)
    BY <1>2 DEF Broken
  <1>4. \A n : GetInEdgeSize(n)' = GetInEdgeSize(n)
    BY <1>2, <1>3 DEF GetInEdgeSize
  <1>5. EdgesFinite => EdgesFinite'
    BY <1>1 DEF EdgesFinite
  <1>6. ProducersFirst => ProducersFirst'
    BY <1>2, <1>3 DEF ProducersFirst, graph
  <1>7. LoopIsReal => LoopIsReal'
    BY <1>2, <1>3 DEF LoopIsReal, ClosedLoop, UniqueNames, graph
  <1>8. NodeListIntact => NodeListIntact'
    BY DEF NodeListIntact, IsPermutation, graph
  <1> QED
    BY <1>1, <1>2, <1>3, <1>4, <1>5, <1>6, <1>7, <1>8

LEMMA EdgeCounts ==
  ASSUME EdgesFinite, NEW n
  PROVE  /\ IsFiniteSet(In(n)) /\ IsFiniteSet(Broken(n)) /\ IsFiniteSet(LeftIn(n))
         /\ Cardinality(In(n)) \in Nat /\ Cardinality(Broken(n)) \in Nat
         /\ Cardinality(LeftIn(n)) \in Nat
         /\ Cardinality(Broken(n)) <= Cardinality(In(n))
         /\ Cardinality(LeftIn(n)) <= Cardinality(In(n))
         /\ Cardinality(In(n)) < Modulus
         /\ Modulus \in Nat
  <1>1. IsFiniteSet(Edges) /\ Cardinality(Edges) \in Nat /\ Cardinality(Edges) < Modulus
        /\ Modulus \in Nat
    BY TopoAssumption, FS_CardinalityType DEF EdgesFinite
  <1>2. In(n) \in SUBSET Edges /\ Broken(n) \in SUBSET In(n) /\ LeftIn(n) \in SUBSET In(n)
    BY DEF In, Broken, LeftIn
  <1>3. IsFiniteSet(In(n)) /\ Cardinality(In(n)) <= Cardinality(Edges)
    BY <1>1, <1>2, FS_Subset
  <1>4. /\ IsFiniteSet(Broken(n)) /\ Cardinality(Broken(n)) <= Cardinality(In(n))
        /\ IsFiniteSet(LeftIn(n)) /\ Cardinality(LeftIn(n)) <= Cardinality(In(n))
    BY <1>2, <1>3, FS_Subset
  <1>5. /\ Cardinality(In(n)) \in Nat /\ Cardinality(Broken(n)) \in Nat
        /\ Cardinality(LeftIn(n)) \in Nat
    BY <1>3, <1>4, FS_CardinalityType
  <1> QED
    BY <1>1, <1>3, <1>4, <1>5

LEMMA EdgeMember ==
  ASSUME NEW n, NEW e \in In(n)
  PROVE  /\ e[1] \in Nodes /\ e[2] \in Groups /\ e[3] \in 1..Len(out[e[1]][e[2]])
         /\ e = <<e[1], e[2], e[3]>> /\ out[e[1]][e[2]][e[3]] = n
  BY DEF In, Edges, Dst

LEMMA EdgeIntro ==
  ASSUME NEW n \in Nodes, NEW g \in Groups, NEW k \in 1..Len(out[n][g])
  PROVE  <<n, g, k>> \in Edges
  <1> DEFINE Row(m, h) == {<<m, h, l>> : l \in 1..Len(out[m][h])}
             Rows == {Row(m, h) : m \in Nodes, h \in Groups}
  <1>1. Edges = UNION Rows
    BY DEF Edges
  <1>2. <<n, g, k>> \in Row(n, g)
    OBVIOUS
  <1> HIDE DEF Row
  <1>3. Row(n, g) \in Rows
    OBVIOUS
  <1> HIDE DEF Rows
  <1> QED
    BY <1>1, <1>2, <1>3

-----------------------------------------------------------------------------
(* Each step keeps the invariant. *)

(* What holds of every step of a sort that leaves the graph alone, but for *)
(* the types and for what is proved of the phase it is in.                 *)
LEMMA StepKeepsGraph ==
  ASSUME Inv, UNCHANGED graph, TypeOK', phase' # "idle",
         phase' = "collect" => Collecting',
         phase' \in {"swap", "loop", "edges"} => Sorting'
  PROVE  Inv'
  BY GraphUnchanged DEF Inv

LEMMA CollectSourceStep ==
  ASSUME Inv, CollectSource
  PROVE  Inv'
  <1> DEFINE n == nodes[i]
             isSource == GetInEdgeSize(n) = 0
             isSpec   == Type[n] # "Data"
             bad == isSource /\ isSpec /\ mode = "predict" /\ GetOutEdgeSize(n) = 0
  <1>0. /\ TypeOK /\ DataTypes /\ Collecting /\ NodeListIntact /\ EdgesFinite
        /\ i \in Nat \ {0} /\ i <= Len(nodes) /\ Len(nodes) \in Nat /\ n \in Nodes
    <2>1. TypeOK /\ DataTypes /\ Collecting /\ NodeListIntact /\ EdgesFinite /\ i <= Len(nodes)
      BY DEF Inv, CollectSource, TypeOK
    <2>2. i \in Nat \ {0} /\ nodes \in Seq(Nodes)
      BY <2>1 DEF DataTypes
    <2> QED
      BY <2>1, <2>2
  <1>1. CASE bad
    <2>1. Return("isolated") /\ UNCHANGED <<nodes, id, out>>
      BY <1>1 DEF CollectSource
    <2>2. TypeOK'
      <3>1. 0 \in 0..(Modulus - 1)
        BY TopoAssumption
      <3>2. DataTypes'
        BY <1>0, <2>1, <3>1 DEF Return, DataTypes, Modes
      <3>3. reverse' \in BOOLEAN
        BY <2>1, Zenon DEF Return
      <3> QED
        BY <3>2, <3>3 DEF TypeOK
    <2>3. Idle' /\ phase' = "idle" /\ result' = "isolated"
      BY <2>1 DEF Return, Idle
    <2>4. EdgesFinite' /\ NodeListIntact'
      BY <1>0, <2>1 DEF EdgesFinite, Edges, NodeListIntact
    <2> QED
      BY <2>2, <2>3, <2>4 DEF Inv, ProducersFirst, LoopIsReal
  <1>2. CASE ~bad
    <2>1. /\ cnt' = [cnt EXCEPT ![n] = GetInEdgeSize(n)]
          /\ stack' = IF ~isSource THEN stack
                      ELSE InsertAt(stack, IF isSpec THEN 1 ELSE specs + 1, n)
          /\ specs' = IF isSource /\ isSpec THEN specs + 1 ELSE specs
          /\ i' = i + 1
          /\ UNCHANGED <<graph, phase, mode, reverse, queue, fresh, vec, j, inx, group, pos>>
      BY <1>2 DEF CollectSource
    <2>2. GetInEdgeSize(n) \in 0..(Modulus - 1)
      BY <1>0, EdgeCounts DEF GetInEdgeSize
    <2>3. IsInjective(nodes)
      BY <1>0 DEF NodeListIntact, IsPermutation
    <2>4. n \notin Range(stack)
      <3>1. ASSUME NEW k \in 1..(i - 1), nodes[k] = n PROVE FALSE
        <4>1. k \in DOMAIN nodes /\ i \in DOMAIN nodes /\ k # i
          BY <1>0 DEF DataTypes
        <4> QED
          BY <2>3, <3>1, <4>1 DEF IsInjective
      <3> QED
        BY <1>0, <3>1 DEF Collecting
    <2>5. /\ stack' \in Seq(Nodes) /\ IsInjective(stack') /\ specs' \in Nat
          /\ specs' <= Len(stack')
          /\ Range(stack') = IF isSource THEN Range(stack) \cup {n} ELSE Range(stack)
      <3>0. /\ stack \in Seq(Nodes) /\ Len(stack) \in Nat /\ specs \in Nat
            /\ specs <= Len(stack) /\ IsInjective(stack)
        BY <1>0 DEF DataTypes, Collecting
      <3>1. CASE isSource
        <4> DEFINE p == IF isSpec THEN 1 ELSE specs + 1
        <4>1. p \in 1..(Len(stack) + 1) /\ stack' = InsertAt(stack, p, n)
          BY <2>1, <3>0, <3>1
        <4> HIDE DEF p, n
        <4>2. /\ InsertAt(stack, p, n) \in Seq(Nodes)
              /\ Len(InsertAt(stack, p, n)) = Len(stack) + 1
              /\ Range(InsertAt(stack, p, n)) = Range(stack) \cup {n}
              /\ IsInjective(InsertAt(stack, p, n))
          BY <1>0, <2>4, <3>0, <4>1, InsertIsInjective
        <4>3. specs' \in Nat /\ specs' <= Len(stack) + 1
          BY <2>1, <3>0
        <4> QED
          BY <3>1, <4>1, <4>2, <4>3
      <3>2. CASE ~isSource
        BY <2>1, <3>0, <3>2
      <3> QED
        BY <3>1, <3>2
    <2>6. cnt' \in [Nodes -> 0..(Modulus - 1)] /\ cnt'[n] = GetInEdgeSize(n)
          /\ \A m \in Nodes : m # n => cnt'[m] = cnt[m]
      BY <1>0, <2>1, <2>2 DEF DataTypes
    <2>7. TypeOK'
      <3>1. DataTypes'
        <4>1. /\ i' = i + 1
              /\ UNCHANGED <<nodes, id, out, result, phase, mode, queue, fresh, vec,
                             j, inx, group, pos>>
          BY <2>1 DEF graph
        <4>2. i' \in Nat \ {0} /\ stack' \in Seq(Nodes) /\ specs' \in Nat
              /\ cnt' \in [Nodes -> 0..(Modulus - 1)]
          BY <1>0, <4>1, <2>5, <2>6
        <4>3. DataTypes
          BY <1>0
        <4> QED
          BY ONLY <4>1, <4>2, <4>3 DEF DataTypes
      <3> QED
        BY <1>0, <2>1, <3>1 DEF TypeOK
    <2>8. \A k : k \in 1..(i' - 1) <=> k \in 1..(i - 1) \/ k = i
      BY <1>0, <2>1
    <2>9. nodes' = nodes /\ \A m : GetInEdgeSize(m)' = GetInEdgeSize(m)
      BY <2>1, GraphUnchanged DEF graph
    <2> HIDE DEF n, isSource, isSpec, bad
    <2>10. \A m : m \in Range(stack)' <=>
                    \E k \in 1..(i' - 1) : nodes'[k] = m /\ GetInEdgeSize(m)' = 0
      <3>1. \A m : m \in Range(stack) <=>
                    \E k \in 1..(i - 1) : nodes[k] = m /\ GetInEdgeSize(m) = 0
        BY <1>0 DEF Collecting
      <3>2. n = nodes[i] /\ (isSource <=> GetInEdgeSize(n) = 0)
        BY DEF n, isSource
      <3> QED
        BY <2>5, <2>8, <2>9, <3>1, <3>2
    <2>11. (\A k \in 1..(i - 1) : cnt[nodes[k]] = GetInEdgeSize(nodes[k]))'
      <3>1. \A k \in 1..(i - 1) : cnt[nodes[k]] = GetInEdgeSize(nodes[k]) /\ nodes[k] \in Nodes
        BY <1>0 DEF Collecting, DataTypes
      <3>2. n = nodes[i]
        BY DEF n
      <3>3. ASSUME NEW k \in 1..(i' - 1)
            PROVE  cnt'[nodes[k]] = GetInEdgeSize(nodes[k])
        BY <2>6, <2>8, <3>1, <3>2
      <3> QED
        BY <2>9, <3>3
    <2>12. /\ i' <= Len(nodes') + 1
           /\ queue' = << >> /\ fresh' = << >> /\ vec' = << >> /\ phase' = "collect"
      BY <1>0, <2>1, <2>9 DEF Collecting, CollectSource
    <2>13. Collecting'
      BY <2>5, <2>10, <2>11, <2>12 DEF Collecting
    <2> QED
      BY <2>1, <2>7, <2>12, <2>13, StepKeepsGraph
  <1> QED
    BY <1>1, <1>2

(* The first state of the traversal: every edge is left, the sources are   *)
(* taken and no other node is.                                             *)
LEMMA CollectDoneStep ==
  ASSUME Inv, CollectDone
  PROVE  Inv'
  <1>1. /\ TypeOK /\ DataTypes /\ Collecting /\ NodeListIntact /\ EdgesFinite
        /\ i > Len(nodes) /\ phase' = "swap" /\ i' = 1
        /\ UNCHANGED <<graph, mode, reverse, cnt, stack, specs, queue, fresh, vec, j,
                       inx, group, pos>>
    BY DEF Inv, CollectDone, TypeOK
  <1>2. TypeOK'
    <2>1. DataTypes'
      <3>1. /\ phase' = "swap" /\ i' = 1 /\ DataTypes
            /\ UNCHANGED <<nodes, id, out, result, mode, cnt, stack, specs, queue, fresh,
                           vec, j, inx, group, pos>>
        BY <1>1 DEF graph
      <3> QED
        BY ONLY <3>1 DEF DataTypes
    <2> QED
      BY <1>1, <2>1 DEF TypeOK
  <1>3. \A n \in Nodes : \E k \in 1..(i - 1) : nodes[k] = n
    <2>1. nodes \in Seq(Nodes) /\ i \in Nat
      BY <1>1 DEF DataTypes
    <2>2. Elements(nodes) /\ Nodes = Range(nodes)
      BY <2>1, RangeMember, <1>1 DEF NodeListIntact, IsPermutation
    <2>3. 1..Len(nodes) \subseteq 1..(i - 1)
      BY <1>1, <2>1, <2>2 DEF Elements
    <2> QED
      BY <2>2, <2>3 DEF Elements
  <1>4. \A n \in Nodes : /\ n \in Range(stack) <=> GetInEdgeSize(n) = 0
                         /\ cnt[n] = GetInEdgeSize(n)
    BY <1>1, <1>3 DEF Collecting
  <1>5. vec' = << >> /\ queue' = << >> /\ fresh' = << >> /\ stack' = stack /\ cnt' = cnt
        /\ Range(vec') = {} /\ Range(queue') = {} /\ Range(fresh') = {}
    BY <1>1, EmptyIsInjective DEF Collecting
  <1>6. \A n : LeftIn(n)' = In(n) /\ Broken(n)' = Broken(n)
    <2>1. \A n : In(n)' = In(n) /\ Broken(n)' = Broken(n)
      BY <1>1, GraphUnchanged
    <2> QED
      BY <1>5, <2>1 DEF LeftIn, LeftEdge
  <1>7. ASSUME NEW n \in Nodes
        PROVE  /\ Counted(n)'
               /\ Waits(n)' <=> n \notin Taken'
    <2>1. /\ Cardinality(In(n)) \in Nat /\ Cardinality(Broken(n)) \in Nat
          /\ Cardinality(Broken(n)) <= Cardinality(In(n))
      BY <1>1, EdgeCounts
    <2>2. GetInEdgeSize(n) = Cardinality(In(n)) - Cardinality(Broken(n))
      BY DEF GetInEdgeSize
    <2>3. Counted(n)'
      BY <1>4, <1>5, <1>6, <2>1, <2>2 DEF Counted
    <2>4. n \in Taken' <=> n \in Range(stack)
      BY <1>5 DEF Taken
    <2>5. Waits(n)' <=> Cardinality(In(n)) > Cardinality(Broken(n))
      BY <1>6 DEF Waits
    <2> QED
      BY <1>4, <2>1, <2>2, <2>3, <2>4, <2>5
  <1>8. Distinct' /\ VecInOrder'
    BY <1>1, <1>5, EmptyIsInjective DEF Distinct, VecInOrder, Collecting
  <1>9. Sorting'
    BY <1>1, <1>5, <1>7, <1>8 DEF Sorting
  <1> QED
    BY <1>1, <1>2, <1>9, StepKeepsGraph

(* A step that comes to no edge and takes no new node keeps the counts. *)
LEMMA SortingKept ==
  ASSUME Inv, Sorting, TypeOK', UNCHANGED <<graph, cnt>>,
         phase' \in {"swap", "loop", "edges"},
         phase' # "edges" => fresh' = << >>,
         phase' = "edges" => vec' # << >>,
         phase' = "swap" => vec' = << >> /\ queue' = << >>,
         Distinct', VecInOrder', Taken' = Taken,
         \A n : LeftIn(n)' = LeftIn(n)
  PROVE  Inv'
  <1>1. \A n : In(n)' = In(n) /\ Broken(n)' = Broken(n)
    BY GraphUnchanged
  <1>2. \A n : Counted(n)' <=> Counted(n)
    BY <1>1 DEF Counted
  <1>3. \A n : Waits(n)' <=> Waits(n)
    BY <1>1 DEF Waits
  <1>4. Sorting'
    BY <1>2, <1>3 DEF Sorting
  <1> QED
    BY <1>4, StepKeepsGraph

(* The steps of the loop over the inputs only permute the stack. *)
LEMMA PermuteStep ==
  ASSUME Inv, phase = "swap", TypeOK', phase' \in {"swap", "loop"},
         Range(stack') = Range(stack),
         IsInjective(stack) => IsInjective(stack'),
         UNCHANGED <<graph, cnt, queue, fresh, vec, group, pos>>
  PROVE  Inv' /\ Taken' = Taken /\ \A n : LeftIn(n)' = LeftIn(n)
  <1>1. Sorting /\ \A n : In(n)' = In(n) /\ Broken(n)' = Broken(n)
    BY GraphUnchanged DEF Inv
  <1>2. \A n : LeftIn(n)' = LeftIn(n)
    BY <1>1 DEF LeftIn, LeftEdge
  <1>3. Taken' = Taken
    BY DEF Taken
  <1>4. Distinct' /\ VecInOrder'
    BY <1>1 DEF Sorting, Distinct, VecInOrder
  <1>5. phase' # "edges" /\ fresh' = << >> /\ vec' = << >> /\ queue' = << >>
    BY <1>1 DEF Sorting
  <1> QED
    BY <1>1, <1>2, <1>3, <1>4, <1>5, SortingKept

LEMMA OrderOfType == \A n : OrderOf(n) \in Nat
  <1> SUFFICES ASSUME NEW n PROVE OrderOf(n) \in Nat
    OBVIOUS
  <1> DEFINE I == {k \in 1..Len(InputsOrder) : InputsOrder[k] = NameOf[n]}
  <1>1. I \subseteq Nat
    BY TopoAssumption
  <1>2. OrderOf(n) = IF I # {} THEN Min(I) ELSE 0
    BY DEF OrderOf, SelectInSeq
  <1> HIDE DEF I
  <1>3. ASSUME I # {} PROVE \E m \in I : \A k \in I : m <= k
    <2> DEFINE R == OpToRel(<, Nat)
    <2>1. IsWellFoundedOn(R, Nat)
      BY NatLessThanWellFounded
    <2>2. R = {ss \in Nat \X Nat : ss[1] < ss[2]}
      BY DEF OpToRel
    <2> HIDE DEF R
    <2>3. PICK m \in I : \A k \in I : ~ (<<k, m>> \in R)
      BY <1>1, <1>3, <2>1, WFMin
    <2>4. \A k \in I : k < m => <<k, m>> \in R
      <3> SUFFICES ASSUME NEW k \in I, k < m PROVE <<k, m>> \in R
        OBVIOUS
      <3>1. <<k, m>> \in Nat \X Nat /\ <<k, m>>[1] < <<k, m>>[2]
        BY <1>1
      <3> QED
        BY <2>2, <3>1
    <2>5. \A k \in I : k \in Nat /\ m \in Nat /\ ~(k < m)
      BY <1>1, <2>3, <2>4
    <2> QED
      BY <2>5
  <1>4. CASE I # {}
    <2>1. Min(I) \in I
      BY <1>3, <1>4 DEF Min
    <2> QED
      BY <1>1, <1>2, <1>4, <2>1
  <1>5. CASE I = {}
    BY <1>2, <1>5
  <1> QED
    BY <1>4, <1>5

LEMMA SwapSteps ==
  ASSUME Inv, EnterI \/ CompareJ \/ LeaveI \/ SwapDone
  PROVE  Inv' /\ Taken' = Taken /\ \A n : LeftIn(n)' = LeftIn(n)
  <1>1. /\ TypeOK /\ DataTypes /\ phase = "swap"
        /\ UNCHANGED <<graph, mode, reverse, cnt, specs, queue, fresh, vec, group, pos>>
        /\ phase' \in {"swap", "loop"}
    BY DEF Inv, TypeOK, EnterI, CompareJ, LeaveI, SwapDone, order
  <1>2. i \in Nat \ {0} /\ j \in Nat \ {0} /\ inx \in Nat /\ stack \in Seq(Nodes)
        /\ Len(stack) \in Nat
    BY <1>1 DEF DataTypes
  <1>3. /\ stack' \in Seq(Nodes) /\ Range(stack') = Range(stack)
        /\ IsInjective(stack) => IsInjective(stack')
    <2>1. CASE EnterI \/ LeaveI \/ SwapDone
      BY <1>2, <2>1 DEF EnterI, LeaveI, SwapDone
    <2>2. CASE CompareJ
      <3>1. i \in 1..Len(stack) /\ j \in 1..Len(stack)
            /\ stack' \in {stack, Swap(stack, i, j)}
        BY <1>2, <2>2 DEF CompareJ
      <3> QED
        BY <1>2, <3>1, SwapIsInjective
    <2> QED
      BY <2>1, <2>2
  <1>4. i' \in Nat \ {0} /\ j' \in Nat \ {0} /\ inx' \in Nat
    <2>1. \A n : OrderOf(n) \in Nat
      BY OrderOfType
    <2> QED
      BY <1>2, <2>1 DEF EnterI, CompareJ, LeaveI, SwapDone, order
  <1>5. TypeOK'
    <2>1. DataTypes'
      <3>1. /\ DataTypes /\ phase' \in {"swap", "loop"} /\ stack' \in Seq(Nodes)
            /\ UNCHANGED <<nodes, id, out, result, mode, cnt, specs, queue, fresh, vec,
                           group, pos>>
        BY <1>1, <1>3 DEF graph
      <3> QED
        BY ONLY <1>4, <3>1 DEF DataTypes
    <2> QED
      BY <1>1, <2>1 DEF TypeOK
  <1> QED
    BY <1>1, <1>3, <1>5, PermuteStep

LEMMA NextGroupStep ==
  ASSUME Inv, NextGroup
  PROVE  Inv' /\ Taken' = Taken /\ \A n : LeftIn(n)' = LeftIn(n)
  <1>1. /\ TypeOK /\ DataTypes /\ Sorting /\ Distinct /\ phase = "edges"
        /\ group \in Groups /\ pos > Len(out[Last(vec)][group])
        /\ group' = group + 1 /\ pos' = 1
        /\ UNCHANGED <<graph, phase, mode, reverse, cnt, specs, queue, vec, order>>
    BY DEF Inv, TypeOK, NextGroup, Sorting
  <1>2. /\ stack \in Seq(Nodes) /\ fresh \in Seq(Nodes) /\ group \in Nat \ {0}
        /\ pos \in Nat \ {0} /\ vec \in Seq(Nodes) /\ vec # << >>
        /\ out \in [Nodes -> [Groups -> Seq(Nodes)]]
    BY <1>1 DEF DataTypes, Sorting
  <1>3. /\ stack' \in Seq(Nodes) /\ fresh' \in Seq(Nodes)
        /\ Range(stack') \cup Range(fresh') = Range(stack) \cup Range(fresh)
        /\ IsInjective(stack') /\ IsInjective(fresh') /\ Range(stack') \cap Range(fresh') = {}
    <2>1. CASE IsUseBFS
      BY <1>1, <1>2, <2>1 DEF NextGroup, Distinct
    <2>2. CASE ~IsUseBFS
      <3>1. PICK t \in {fresh, Reverse(fresh)} : stack' = stack \o t /\ fresh' = << >>
        BY <2>2 DEF NextGroup
      <3>2. t \in Seq(Nodes) /\ Range(t) = Range(fresh) /\ IsInjective(t)
        BY <1>1, <1>2, <3>1, ReverseIsInjective DEF Distinct
      <3>3. /\ stack \o t \in Seq(Nodes) /\ Range(stack \o t) = Range(stack) \cup Range(t)
            /\ IsInjective(stack \o t)
        BY <1>1, <1>2, <3>2, ConcatIsInjective DEF Distinct
      <3> QED
        BY <3>1, <3>2, <3>3, EmptyIsInjective
    <2> QED
      BY <2>1, <2>2
  <1>4. TypeOK'
    <2>1. DataTypes'
      <3>1. /\ DataTypes /\ UNCHANGED <<nodes, id, out, result, phase, mode, cnt, specs,
                                        queue, vec, i, j, inx>>
            /\ group' \in Nat \ {0} /\ pos' \in Nat \ {0}
        BY <1>1, <1>2 DEF graph, order
      <3> QED
        BY ONLY <1>3, <3>1 DEF DataTypes
    <2> QED
      BY <1>1, <2>1 DEF TypeOK
  <1>5. \A n : LeftIn(n)' = LeftIn(n)
    <2>1. ASSUME NEW n, NEW e \in In(n) PROVE LeftEdge(e)' <=> LeftEdge(e)
      <3>1. /\ e[1] \in Nodes /\ e[2] \in Groups /\ e[3] \in 1..Len(out[e[1]][e[2]])
        BY <2>1, EdgeMember
      <3>2. e[2] \in Int /\ e[3] \in Int /\ e[3] >= 1
        BY <3>1 DEF Groups
      <3>3. e[1] = Last(vec) /\ e[2] = group => e[3] < pos
        BY <1>1, <1>2, <3>1
      <3> QED
        BY <1>1, <1>2, <3>2, <3>3 DEF LeftEdge
    <2>2. \A n : In(n)' = In(n)
      BY <1>1, GraphUnchanged
    <2> QED
      BY <2>1, <2>2 DEF LeftIn
  <1>6. Taken' = Taken
    BY <1>1, <1>3 DEF Taken
  <1>7. Distinct'
    BY <1>1, <1>3 DEF Distinct
  <1>8. VecInOrder'
    BY <1>1, GraphUnchanged DEF Sorting, VecInOrder
  <1> QED
    BY <1>1, <1>2, <1>4, <1>5, <1>6, <1>7, <1>8, SortingKept

LEMMA EdgesDoneStep ==
  ASSUME Inv, EdgesDone
  PROVE  Inv' /\ Taken' = Taken /\ \A n : LeftIn(n)' = LeftIn(n)
  <1>1. /\ TypeOK /\ DataTypes /\ Sorting /\ Distinct /\ phase = "edges"
        /\ group \notin Groups /\ phase' = "loop"
        /\ queue' = Reverse(fresh) \o queue /\ fresh' = << >>
        /\ UNCHANGED <<graph, mode, reverse, cnt, stack, specs, vec, order, group, pos>>
    BY DEF Inv, TypeOK, EdgesDone, Sorting
  <1>2. queue \in Seq(Nodes) /\ fresh \in Seq(Nodes) /\ group \in Nat \ {0}
    BY <1>1 DEF DataTypes
  <1>3. /\ queue' \in Seq(Nodes) /\ Range(queue') = Range(fresh) \cup Range(queue)
        /\ IsInjective(queue') /\ fresh' \in Seq(Nodes)
        /\ Range(fresh') = {} /\ IsInjective(fresh')
    <2>1. Reverse(fresh) \in Seq(Nodes) /\ Range(Reverse(fresh)) = Range(fresh)
          /\ IsInjective(Reverse(fresh))
      BY <1>1, <1>2, ReverseIsInjective DEF Distinct
    <2>2. /\ Reverse(fresh) \o queue \in Seq(Nodes)
          /\ Range(Reverse(fresh) \o queue) = Range(Reverse(fresh)) \cup Range(queue)
          /\ IsInjective(Reverse(fresh) \o queue)
      BY <1>1, <1>2, <2>1, ConcatIsInjective DEF Distinct
    <2> QED
      BY <1>1, <2>1, <2>2, EmptyIsInjective
  <1>4. TypeOK'
    <2>1. DataTypes'
      <3>1. /\ DataTypes /\ phase' = "loop"
            /\ UNCHANGED <<nodes, id, out, result, mode, cnt, stack, specs, vec, i, j, inx,
                           group, pos>>
        BY <1>1 DEF graph, order
      <3> QED
        BY ONLY <1>3, <3>1 DEF DataTypes
    <2> QED
      BY <1>1, <2>1 DEF TypeOK
  <1>5. \A n : LeftIn(n)' = LeftIn(n)
    <2>1. ASSUME NEW n, NEW e \in In(n) PROVE LeftEdge(e)' <=> LeftEdge(e)
      <3>1. e[2] \in Groups
        BY <2>1, EdgeMember
      <3>2. e[2] < group
        BY <1>1, <1>2, <3>1, TopoAssumption DEF Groups
      <3>3. e[2] \in Int
        BY <3>1 DEF Groups
      <3>4. Last(vec) \in Range(vec)
        <4>1. vec \in Seq(Nodes) /\ vec # << >>
          BY <1>1 DEF DataTypes, Sorting
        <4> QED
          BY <4>1, LastIsElement
      <3> QED
        BY <1>1, <1>2, <3>2, <3>3, <3>4 DEF LeftEdge
    <2>2. \A n : In(n)' = In(n)
      BY <1>1, GraphUnchanged
    <2> QED
      BY <2>1, <2>2 DEF LeftIn
  <1>6. Taken' = Taken
    BY <1>1, <1>3 DEF Taken
  <1>7. Distinct'
    BY <1>1, <1>3 DEF Distinct
  <1>8. VecInOrder'
    BY <1>1, GraphUnchanged DEF Sorting, VecInOrder
  <1> QED
    BY <1>1, <1>4, <1>5, <1>6, <1>7, <1>8, SortingKept

(* A node that is visited has no edge left: its producers came before it. *)
LEMMA VisitStep ==
  ASSUME Inv, Visit
  PROVE  Inv' /\ Taken' = Taken /\ \A n : LeftIn(n)' = LeftIn(n)
  <1>1. /\ TypeOK /\ DataTypes /\ Sorting /\ Distinct /\ EdgesFinite /\ phase = "loop"
        /\ phase' = "edges" /\ group' = 1 /\ pos' = 1 /\ fresh = << >>
        /\ UNCHANGED <<graph, mode, reverse, cnt, specs, fresh, order>>
    BY DEF Inv, TypeOK, Visit, Sorting
  <1>2. stack \in Seq(Nodes) /\ queue \in Seq(Nodes) /\ vec \in Seq(Nodes)
    BY <1>1 DEF DataTypes
  <1>3. PICK v \in Nodes :
          /\ vec' = Append(vec, v) /\ v \notin Range(vec) /\ v \in Taken
          /\ stack' \in Seq(Nodes) /\ queue' \in Seq(Nodes)
          /\ Range(stack') \subseteq Range(stack) /\ Range(queue') \subseteq Range(queue)
          /\ Range(stack) \cup Range(queue) = Range(stack') \cup Range(queue') \cup {v}
          /\ v \notin Range(stack') /\ v \notin Range(queue')
          /\ IsInjective(stack') /\ IsInjective(queue')
    <2>1. CASE queue # << >>
      <3>1. /\ vec' = Append(vec, Last(queue)) /\ queue' = Front(queue) /\ stack' = stack
        BY <2>1 DEF Visit
      <3>2. /\ Front(queue) \in Seq(Nodes) /\ Last(queue) \in Nodes
            /\ Range(queue) = Range(Front(queue)) \cup {Last(queue)}
            /\ IsInjective(Front(queue)) /\ Last(queue) \notin Range(Front(queue))
        BY <1>1, <1>2, <2>1, FrontIsInjective DEF Distinct
      <3> QED
        BY <1>1, <1>2, <3>1, <3>2 DEF Distinct, Taken
    <2>2. CASE queue = << >>
      <3>1. /\ vec' = Append(vec, Last(stack)) /\ stack' = Front(stack) /\ queue' = queue
            /\ stack # << >>
        BY <2>2 DEF Visit
      <3>2. /\ Front(stack) \in Seq(Nodes) /\ Last(stack) \in Nodes
            /\ Range(stack) = Range(Front(stack)) \cup {Last(stack)}
            /\ IsInjective(Front(stack)) /\ Last(stack) \notin Range(Front(stack))
        BY <1>1, <1>2, <3>1, FrontIsInjective DEF Distinct
      <3> QED
        BY <1>1, <1>2, <3>1, <3>2 DEF Distinct, Taken
    <2> QED
      BY <2>1, <2>2
  <1>4. /\ vec' \in Seq(Nodes) /\ Range(vec') = Range(vec) \cup {v} /\ IsInjective(vec')
        /\ Len(vec') = Len(vec) + 1 /\ vec'[Len(vec) + 1] = v /\ Last(vec') = v
        /\ \A k \in 1..Len(vec) : vec'[k] = vec[k]
        /\ vec' # << >> /\ Len(vec) \in Nat
    <2>1. /\ vec' \in Seq(Nodes) /\ Range(vec') = Range(vec) \cup {v} /\ IsInjective(vec')
      BY <1>1, <1>2, <1>3, AppendIsInjective DEF Distinct
    <2>2. /\ Len(vec) \in Nat /\ Len(vec') = Len(vec) + 1 /\ vec'[Len(vec) + 1] = v
          /\ \A k \in 1..Len(vec) : vec'[k] = vec[k]
      BY <1>2, <1>3
    <2> QED
      BY <2>1, <2>2 DEF Last
  <1>5. TypeOK'
    <2>1. DataTypes'
      <3>1. /\ DataTypes /\ phase' = "edges" /\ group' = 1 /\ pos' = 1
            /\ stack' \in Seq(Nodes) /\ queue' \in Seq(Nodes) /\ vec' \in Seq(Nodes)
            /\ UNCHANGED <<nodes, id, out, result, mode, cnt, specs, fresh, i, j, inx>>
        BY <1>1, <1>3, <1>4 DEF graph, order
      <3> QED
        BY ONLY <3>1 DEF DataTypes
    <2> QED
      BY <1>1, <2>1 DEF TypeOK
  <1>6. \A n : LeftIn(n)' = LeftIn(n)
    <2>1. ASSUME NEW n, NEW e \in In(n) PROVE LeftEdge(e)' <=> LeftEdge(e)
      <3>1. e[2] \in Groups /\ e[3] \in 1..Len(out[e[1]][e[2]])
        BY <2>1, EdgeMember
      <3>2. e[2] \in Int /\ e[2] >= 1 /\ e[3] \in Int /\ e[3] >= 1
        BY <3>1 DEF Groups
      <3> QED
        BY <1>1, <1>3, <1>4, <3>2 DEF LeftEdge
    <2>2. \A n : In(n)' = In(n)
      BY <1>1, GraphUnchanged
    <2> QED
      BY <2>1, <2>2 DEF LeftIn
  <1>7. Taken' = Taken
    BY <1>1, <1>3, <1>4 DEF Taken
  <1>8. Distinct'
    BY <1>1, <1>3, <1>4, EmptyIsInjective DEF Distinct
  <1>9. VecInOrder'
    <2>1. ASSUME Broken(v) = {}, NEW e \in In(v)
          PROVE  \E l \in 1..Len(vec) : vec[l] = e[1]
      <3>1. ~Waits(v)
        BY <1>1, <1>3 DEF Sorting
      <3>2. /\ IsFiniteSet(LeftIn(v)) /\ Cardinality(LeftIn(v)) \in Nat
            /\ Cardinality(Broken(v)) = 0
        BY <1>1, <2>1, EdgeCounts, FS_EmptySet
      <3>3. LeftIn(v) = {}
        BY <3>1, <3>2, FS_EmptySet DEF Waits
      <3>4. e[1] \in Range(vec)
        BY <3>3 DEF LeftIn, LeftEdge
      <3> QED
        BY <1>2, <3>4, RangeMember DEF Elements
    <2>2. \A n : In(n)' = In(n) /\ Broken(n)' = Broken(n)
      BY <1>1, GraphUnchanged
    <2>3. ASSUME NEW k \in 1..Len(vec'), Broken(vec'[k]) = {}, NEW e \in In(vec'[k])
          PROVE  \E l \in 1..(k - 1) : vec'[l] = e[1]
      <3>1. k \in 1..Len(vec) \/ k = Len(vec) + 1
        BY <1>4
      <3>2. CASE k = Len(vec) + 1
        <4>1. PICK l \in 1..Len(vec) : vec[l] = e[1]
          BY <1>4, <2>1, <2>3, <3>2
        <4>2. l \in 1..(k - 1) /\ vec'[l] = e[1]
          BY <1>4, <3>2, <4>1
        <4> QED
          BY <4>2
      <3>3. CASE k \in 1..Len(vec)
        <4>1. vec'[k] = vec[k]
          BY <1>4, <3>3
        <4>2. PICK l \in 1..(k - 1) : vec[l] = e[1]
          BY <1>1, <2>3, <3>3, <4>1 DEF Sorting, VecInOrder
        <4>3. l \in 1..Len(vec)
          BY <1>4, <3>3
        <4> QED
          BY <1>4, <4>2, <4>3
      <3> QED
        BY <3>1, <3>2, <3>3
    <2> QED
      BY <2>2, <2>3 DEF VecInOrder
  <1> QED
    BY <1>1, <1>4, <1>5, <1>6, <1>7, <1>8, <1>9, SortingKept

(* The edge that is followed is left no more; no other edge changes.        *)
LEMMA FollowedEdge ==
  ASSUME Inv, FollowEdge
  PROVE  \E n0 \in Nodes, e0 \in Edges :
           /\ e0 = <<Last(vec), group, pos>> /\ e0 \in In(n0) /\ e0 \in LeftIn(n0)
           /\ \A n : LeftIn(n)' = LeftIn(n) \ {e0}
           /\ \A n : n # n0 => LeftIn(n)' = LeftIn(n)
           /\ cnt' = [cnt EXCEPT ![n0] = Decrement(@)]
           /\ fresh' = IF cnt'[n0] # 0 THEN fresh
                       ELSE IF IsUseBFS THEN Emplace(fresh, n0) ELSE Append(fresh, n0)
  <1>1. /\ TypeOK /\ DataTypes /\ Sorting /\ Distinct /\ EdgesFinite /\ phase = "edges"
        /\ group \in Groups /\ pos <= Len(out[Last(vec)][group]) /\ pos' = pos + 1
        /\ UNCHANGED <<graph, phase, mode, reverse, stack, specs, queue, vec, order, group>>
    BY DEF Inv, TypeOK, FollowEdge, Sorting
  <1>2. /\ fresh \in Seq(Nodes) /\ vec \in Seq(Nodes) /\ vec # << >>
        /\ pos \in Nat \ {0} /\ group \in Nat \ {0}
        /\ out \in [Nodes -> [Groups -> Seq(Nodes)]]
        /\ cnt \in [Nodes -> 0..(Modulus - 1)]
    BY <1>1 DEF DataTypes, Sorting
  <1>3. PICK v : v = Last(vec) /\ v \in Nodes /\ v \in Range(vec)
    BY <1>2, LastIsElement
  <1>4. PICK n0 \in Nodes : n0 = out[v][group][pos] /\ pos \in 1..Len(out[v][group])
    BY <1>1, <1>2, <1>3
  <1>c. /\ cnt' = [cnt EXCEPT ![n0] = Decrement(@)]
        /\ fresh' = IF cnt'[n0] # 0 THEN fresh
                    ELSE IF IsUseBFS THEN Emplace(fresh, n0) ELSE Append(fresh, n0)
    BY <1>3, <1>4 DEF FollowEdge
  <1>5. PICK e0 : e0 = <<v, group, pos>>
    OBVIOUS
  <1>6. e0 \in In(n0) /\ e0 \in LeftIn(n0)
    <2>2. e0 \in Edges
      BY <1>1, <1>3, <1>4, <1>5, EdgeIntro
    <2>3. e0[1] = v /\ e0[2] = group /\ e0[3] = pos
      BY <1>5
    <2>4. e0 \in In(n0)
      BY <1>4, <2>2, <2>3 DEF In, Dst
    <2>5. pos >= pos /\ phase = "edges" /\ v = Last(vec)
      BY <1>1, <1>2, <1>3
    <2> QED
      BY <2>3, <2>4, <2>5 DEF LeftIn, LeftEdge
  <1>7. \A n : LeftIn(n)' = LeftIn(n) \ {e0}
    <2>0. e0[1] = v /\ e0[2] = group /\ e0[3] = pos
      BY <1>5
    <2>1. ~LeftEdge(e0)'
      BY <1>1, <1>2, <1>3, <2>0 DEF LeftEdge
    <2>2. ASSUME NEW n, NEW e \in In(n), e # e0 PROVE LeftEdge(e)' <=> LeftEdge(e)
      <3>1. /\ e[2] \in Groups /\ e[3] \in 1..Len(out[e[1]][e[2]])
            /\ e = <<e[1], e[2], e[3]>>
        BY <2>2, EdgeMember
      <3>2. e[2] \in Int /\ e[3] \in Int
        BY <3>1 DEF Groups
      <3>3. ~(e[1] = v /\ e[2] = group /\ e[3] = pos)
        BY <1>5, <2>2, <3>1
      <3>4. /\ phase = "edges" /\ phase' = phase /\ vec' = vec /\ group' = group
            /\ pos' = pos + 1 /\ pos \in Nat /\ v = Last(vec)
        BY <1>1, <1>2, <1>3
      <3>5. e[3] >= pos' <=> e[3] >= pos /\ e[3] # pos
        BY <3>2, <3>4
      <3> QED
        BY <3>3, <3>4, <3>5 DEF LeftEdge
    <2>3. \A n : In(n)' = In(n)
      BY <1>1, GraphUnchanged
    <2> QED
      BY <2>1, <2>2, <2>3 DEF LeftIn
  <1>8. \A n : n # n0 => LeftIn(n)' = LeftIn(n)
    <2>1. \A n : n # n0 => e0 \notin In(n)
      BY <1>6 DEF In
    <2> QED
      BY <1>7, <2>1 DEF LeftIn
  <1>9. e0 \in Edges
    BY <1>6 DEF In
  <1> QED
    BY <1>3, <1>5, <1>6, <1>7, <1>8, <1>9, <1>c

(* emplace() leaves the map alone or puts the node in one place.             *)
LEMMA EmplacePlace ==
  ASSUME NEW s \in Seq(Nodes), NEW n \in Nodes
  PROVE  Cardinality({k \in 1..Len(s) : NameOf[s[k]] < NameOf[n]}) + 1 \in 1..(Len(s) + 1)
  <1> DEFINE K == {k \in 1..Len(s) : NameOf[s[k]] < NameOf[n]}
  <1>2. K \in SUBSET (1..Len(s)) /\ Len(s) \in Nat
    OBVIOUS
  <1> HIDE DEF K
  <1>3. IsFiniteSet(1..Len(s)) /\ Cardinality(1..Len(s)) = Len(s)
    <2>1. \A n1 \in Nat : IsFiniteSet(1..n1) /\ Cardinality(1..n1) = n1
      BY FS_Interval
    <2> QED
      BY <1>2, <2>1
  <1>4. IsFiniteSet(K) /\ Cardinality(K) <= Len(s)
    BY <1>2, <1>3, FS_Subset
  <1>5. Cardinality(K) \in Nat
    BY <1>4, FS_CardinalityType
  <1>6. Cardinality(K) + 1 \in 1..(Len(s) + 1)
    BY <1>2, <1>4, <1>5
  <1> QED
    BY <1>6 DEF K

LEMMA EmplaceInserts ==
  ASSUME NEW s \in Seq(Nodes), NEW n \in Nodes
  PROVE  Emplace(s, n) = s \/ \E p \in 1..(Len(s) + 1) : Emplace(s, n) = InsertAt(s, p, n)
  BY EmplacePlace DEF Emplace

(* One edge is left no more, and the node it leads to is taken when that   *)
(* was the last one it waited for.                                         *)
LEMMA FollowEdgeStep ==
  ASSUME Inv, FollowEdge
  PROVE  Inv'
  <1>1. /\ TypeOK /\ DataTypes /\ Sorting /\ Distinct /\ EdgesFinite /\ phase = "edges"
        /\ group \in Groups /\ pos <= Len(out[Last(vec)][group]) /\ pos' = pos + 1
        /\ UNCHANGED <<graph, phase, mode, reverse, stack, specs, queue, vec, order, group>>
    BY DEF Inv, TypeOK, FollowEdge, Sorting
  <1>2. /\ fresh \in Seq(Nodes) /\ vec \in Seq(Nodes) /\ vec # << >>
        /\ pos \in Nat \ {0} /\ group \in Nat \ {0}
        /\ out \in [Nodes -> [Groups -> Seq(Nodes)]]
        /\ cnt \in [Nodes -> 0..(Modulus - 1)]
    BY <1>1 DEF DataTypes, Sorting
  <1>3. PICK n0 \in Nodes, e0 \in Edges :
          /\ e0 = <<Last(vec), group, pos>> /\ e0 \in In(n0) /\ e0 \in LeftIn(n0)
          /\ \A n : LeftIn(n)' = LeftIn(n) \ {e0}
          /\ \A n : n # n0 => LeftIn(n)' = LeftIn(n)
          /\ cnt' = [cnt EXCEPT ![n0] = Decrement(@)]
          /\ fresh' = IF cnt'[n0] # 0 THEN fresh
                      ELSE IF IsUseBFS THEN Emplace(fresh, n0) ELSE Append(fresh, n0)
    BY FollowedEdge
  <1>9. \A n : In(n)' = In(n) /\ Broken(n)' = Broken(n)
    BY <1>1, GraphUnchanged
  <1>10. PICK u \in Nat, b \in Nat :
           /\ u = Cardinality(LeftIn(n0)) /\ b = Cardinality(Broken(n0))
           /\ b < Modulus /\ Modulus \in Nat /\ u >= 1
           /\ Cardinality(LeftIn(n0)') = u - 1
    <2>1. /\ IsFiniteSet(LeftIn(n0)) /\ Cardinality(LeftIn(n0)) \in Nat
          /\ Cardinality(Broken(n0)) \in Nat /\ Cardinality(Broken(n0)) < Modulus
          /\ Modulus \in Nat
      BY <1>1, EdgeCounts
    <2>2. /\ IsFiniteSet(LeftIn(n0) \ {e0})
          /\ Cardinality(LeftIn(n0) \ {e0}) = Cardinality(LeftIn(n0)) - 1
      BY <1>3, <2>1, FS_RemoveElement
    <2>3. Cardinality(LeftIn(n0) \ {e0}) \in Nat
      BY <2>2, FS_CardinalityType
    <2>4. Cardinality(LeftIn(n0)') = Cardinality(LeftIn(n0)) - 1
      BY <1>3, <2>2
    <2> QED
      BY <2>1, <2>2, <2>3, <2>4
  <1>11. /\ Waits(n0) <=> u > b
         /\ Waits(n0)' <=> u - 1 > b
         /\ \A n : n # n0 => (Waits(n)' <=> Waits(n))
    BY <1>3, <1>9, <1>10 DEF Waits
  <1>12. /\ cnt[n0] = IF u >= b THEN u - b ELSE u - b + Modulus
         /\ cnt' \in [Nodes -> 0..(Modulus - 1)]
         /\ cnt'[n0] = IF u - 1 >= b THEN u - 1 - b ELSE u - 1 - b + Modulus
         /\ \A n \in Nodes : n # n0 => cnt'[n] = cnt[n]
    <2>1. cnt[n0] = IF u >= b THEN u - b ELSE u - b + Modulus
      BY <1>1, <1>3, <1>10 DEF Sorting, Counted
    <2>2. Decrement(cnt[n0]) = IF u - 1 >= b THEN u - 1 - b ELSE u - 1 - b + Modulus
      <3>1. CASE u > b
        BY <1>10, <2>1, <3>1 DEF Decrement
      <3>2. CASE u = b
        BY <1>10, <2>1, <3>2 DEF Decrement
      <3>3. CASE u < b
        BY <1>10, <2>1, <3>3 DEF Decrement
      <3> QED
        BY <1>10, <3>1, <3>2, <3>3
    <2>3. Decrement(cnt[n0]) \in 0..(Modulus - 1)
      <3>1. cnt[n0] \in 0..(Modulus - 1)
        BY <1>2
      <3> QED
        BY <1>10, <3>1 DEF Decrement
    <2> QED
      BY <1>2, <1>3, <2>1, <2>2, <2>3
  <1>13. cnt'[n0] = 0 <=> u = b + 1
    BY <1>10, <1>12
  <1>14. \A n \in Nodes : Counted(n)'
    <2>1. ASSUME NEW n \in Nodes, n # n0 PROVE Counted(n)'
      BY <1>1, <1>3, <1>9, <1>12, <2>1 DEF Sorting, Counted
    <2>2. Counted(n0)'
      BY <1>9, <1>10, <1>12 DEF Counted
    <2> QED
      BY <2>1, <2>2
  <1>15. ASSUME cnt'[n0] = 0
         PROVE  n0 \notin Taken
    BY <1>1, <1>3, <1>10, <1>11, <1>13, <1>15 DEF Sorting
  <1>16. /\ fresh' \in Seq(Nodes) /\ IsInjective(fresh')
         /\ cnt'[n0] # 0 => fresh' = fresh
         /\ Range(fresh') \in {Range(fresh), Range(fresh) \cup {n0}}
         /\ cnt'[n0] = 0 /\ UniqueNames => Range(fresh') = Range(fresh) \cup {n0}
    <2>1. CASE cnt'[n0] # 0
      BY <1>1, <1>2, <1>3, <2>1 DEF Distinct
    <2>2. ASSUME cnt'[n0] = 0 PROVE n0 \notin Range(fresh) /\ IsInjective(fresh)
      BY <1>1, <1>15, <2>2 DEF Taken, Distinct
    <2>3. CASE cnt'[n0] = 0 /\ ~IsUseBFS
      <3>1. fresh' = Append(fresh, n0)
        BY <1>3, <2>3
      <3>2. /\ Append(fresh, n0) \in Seq(Nodes)
            /\ Range(Append(fresh, n0)) = Range(fresh) \cup {n0}
            /\ IsInjective(fresh) /\ n0 \notin Range(fresh) => IsInjective(Append(fresh, n0))
        BY <1>2, AppendIsInjective
      <3> QED
        BY <2>2, <2>3, <3>1, <3>2
    <2>4. CASE cnt'[n0] = 0 /\ IsUseBFS /\ \E k \in 1..Len(fresh) : NameOf[fresh[k]] = NameOf[n0]
      <3>1. fresh' = fresh
        BY <1>3, <2>4 DEF Emplace
      <3>2. ASSUME UniqueNames PROVE FALSE
        <4>1. PICK k \in 1..Len(fresh) : NameOf[fresh[k]] = NameOf[n0]
          BY <2>4
        <4>2. fresh[k] \in Nodes /\ fresh[k] \in Range(fresh)
          BY <1>2, <4>1, RangeMember DEF Elements
        <4>3. DOMAIN NameOf = Nodes
          BY TopoAssumption
        <4>4. fresh[k] = n0
          BY <1>3, <3>2, <4>1, <4>2, <4>3 DEF UniqueNames, IsInjective
        <4> QED
          BY <2>2, <2>4, <4>2, <4>4
      <3> QED
        BY <1>2, <2>2, <2>4, <3>1, <3>2
    <2>5. CASE cnt'[n0] = 0 /\ IsUseBFS /\ ~\E k \in 1..Len(fresh) : NameOf[fresh[k]] = NameOf[n0]
      <3>1. PICK p \in 1..(Len(fresh) + 1) : fresh' = InsertAt(fresh, p, n0)
        <4> DEFINE place == Cardinality({k \in 1..Len(fresh) : NameOf[fresh[k]] < NameOf[n0]}) + 1
        <4>1. fresh' = InsertAt(fresh, place, n0)
          BY <1>3, <2>5 DEF Emplace
        <4>2. place \in 1..(Len(fresh) + 1)
          BY <1>2, EmplacePlace
        <4> HIDE DEF place
        <4> QED
          BY <4>1, <4>2
      <3>2. /\ InsertAt(fresh, p, n0) \in Seq(Nodes)
            /\ Range(InsertAt(fresh, p, n0)) = Range(fresh) \cup {n0}
            /\ IsInjective(fresh) /\ n0 \notin Range(fresh) => IsInjective(InsertAt(fresh, p, n0))
        <4>1. fresh \in Seq(Nodes)
          BY <1>2
        <4> QED
          BY <4>1, InsertIsInjective
      <3> QED
        BY <2>2, <2>5, <3>1, <3>2
    <2> QED
      BY <2>1, <2>3, <2>4, <2>5
  <1>17. TypeOK'
    <2>1. DataTypes'
      <3>1. /\ DataTypes /\ pos' \in Nat \ {0}
            /\ UNCHANGED <<nodes, id, out, result, phase, mode, stack, specs, queue, vec,
                           i, j, inx, group>>
        BY <1>1, <1>2 DEF graph, order
      <3> QED
        BY ONLY <1>12, <1>16, <3>1 DEF DataTypes
    <2> QED
      BY <1>1, <2>1 DEF TypeOK
  <1>18. Distinct'
    <2>1. CASE cnt'[n0] # 0
      BY <1>1, <1>16, <2>1 DEF Distinct
    <2>2. CASE cnt'[n0] = 0
      BY <1>1, <1>15, <1>16, <2>2 DEF Distinct, Taken
    <2> QED
      BY <2>1, <2>2
  <1>19. VecInOrder'
    BY <1>1, <1>9 DEF Sorting, VecInOrder
  <1>20. /\ Taken' \in {Taken, Taken \cup {n0}}
         /\ cnt'[n0] # 0 => Taken' = Taken
         /\ cnt'[n0] = 0 /\ UniqueNames => Taken' = Taken \cup {n0}
    BY <1>1, <1>16 DEF Taken
  <1>21. \A n \in Nodes : Waits(n)' => n \notin Taken'
    BY <1>1, <1>10, <1>11, <1>13, <1>20 DEF Sorting
  <1>22. UniqueNames => \A n \in Nodes : Waits(n)' \/ n \in Taken'
    BY <1>1, <1>10, <1>11, <1>13, <1>20 DEF Sorting
  <1>23. Sorting'
    BY <1>1, <1>2, <1>14, <1>18, <1>19, <1>21, <1>22 DEF Sorting
  <1> QED
    BY <1>1, <1>17, <1>23, StepKeepsGraph

(* What SetId() gives to the nodes of a list without repetition. *)
LEMMA NumberedIsIndex ==
  ASSUME NEW s, NEW old, IsPermutation(s)
  PROVE  /\ Numbered(old, s) \in [Nodes -> Int]
         /\ \A k \in 1..Len(s) : s[k] \in Nodes /\ Numbered(old, s)[s[k]] = k - 1
  <1>1. s \in Seq(Nodes) /\ Range(s) = Nodes /\ IsInjective(s)
    BY DEF IsPermutation
  <1>2. Elements(s) /\ DOMAIN s = 1..Len(s)
    BY <1>1, RangeMember
  <1> DEFINE at(n) == CHOOSE k \in DOMAIN s : s[k] = n
  <1>3. \A n \in Nodes : at(n) \in 1..Len(s) /\ s[at(n)] = n
    BY <1>1, <1>2 DEF Elements
  <1>4. Numbered(old, s) = [n \in Nodes |-> at(n) - 1]
    BY <1>1 DEF Numbered
  <1> HIDE DEF at
  <1>5. Numbered(old, s) \in [Nodes -> Int]
    BY <1>2, <1>3, <1>4 DEF Elements
  <1>6. ASSUME NEW k \in 1..Len(s) PROVE s[k] \in Nodes /\ Numbered(old, s)[s[k]] = k - 1
    <2>1. s[k] \in Nodes
      BY <1>1
    <2>2. at(s[k]) = k
      BY <1>1, <1>2, <1>3, <2>1 DEF Elements
    <2> QED
      BY <1>4, <2>1, <2>2
  <1> QED
    BY <1>5, <1>6

LEMMA OutUnchanged ==
  ASSUME out' = out
  PROVE  /\ \A n : In(n)' = In(n) /\ Broken(n)' = Broken(n)
         /\ EdgesFinite => EdgesFinite'
  <1>1. Edges' = Edges
    BY DEF Edges
  <1>2. \A n : In(n)' = In(n)
    BY <1>1 DEF In, Dst
  <1> QED
    BY <1>1, <1>2 DEF Broken, EdgesFinite

(* The traversal that visited as many nodes as there are has visited all. *)
LEMMA AllVisitedIsPermutation ==
  ASSUME TypeOK, NodeListIntact, IsInjective(vec)
  PROVE  Len(vec) = Len(nodes) <=> IsPermutation(vec)
  <1>1. /\ vec \in Seq(Nodes) /\ nodes \in Seq(Nodes) /\ IsInjective(nodes)
        /\ Range(nodes) = Nodes
    BY DEF TypeOK, DataTypes, NodeListIntact, IsPermutation
  <1>2. Cardinality(Range(vec)) = Len(vec) /\ Cardinality(Nodes) = Len(nodes)
    BY <1>1, InjectiveLength
  <1>3. Range(vec) \in SUBSET Nodes
    BY <1>1, RangeMember
  <1>4. IsFiniteSet(Nodes)
    BY TopoAssumption
  <1>5. Cardinality(Range(vec)) = Cardinality(Nodes) => Range(vec) = Nodes
    BY <1>3, <1>4, FS_Subset
  <1> QED
    BY <1>1, <1>2, <1>5 DEF IsPermutation

LEMMA FinishStep ==
  ASSUME Inv, Finish
  PROVE  Inv'
  <1>1. /\ TypeOK /\ DataTypes /\ Sorting /\ Distinct /\ EdgesFinite /\ NodeListIntact
        /\ phase = "loop" /\ queue = << >> /\ stack = << >> /\ fresh = << >> /\ out' = out
    BY DEF Inv, TypeOK, Finish, Sorting
  <1>2. PICK r \in {"sorted", "loop"} :
          /\ Return(r)
          /\ r = "sorted" => Len(vec) = Len(nodes) /\ nodes' = vec /\ id' = Numbered(id, vec)
          /\ r = "loop" => Len(vec) # Len(nodes) /\ UNCHANGED <<nodes, id>>
    BY DEF Finish, AllVisited
  <1>3. Taken = Range(vec) /\ vec \in Seq(Nodes) /\ IsInjective(vec)
    BY <1>1, EmptyIsInjective DEF Taken, Distinct, DataTypes
  <1>4. Len(vec) = Len(nodes) <=> IsPermutation(vec)
    BY <1>1, <1>3, AllVisitedIsPermutation
  <1>5. NodeListIntact'
    BY <1>1, <1>2, <1>4 DEF NodeListIntact, IsPermutation
  <1>6. \A n : In(n)' = In(n) /\ Broken(n)' = Broken(n)
    BY <1>1, OutUnchanged
  <1>7. EdgesFinite'
    BY <1>1, OutUnchanged
  <1>8. id' \in [Nodes -> Int] /\ nodes' \in Seq(Nodes)
    BY <1>1, <1>2, <1>3, <1>4, NumberedIsIndex DEF DataTypes
  <1>9. TypeOK'
    <2>1. DataTypes'
      <3>1. 0 \in 0..(Modulus - 1) /\ out' \in [Nodes -> [Groups -> Seq(Nodes)]]
        BY <1>1, TopoAssumption DEF DataTypes
      <3>2. Return(r) /\ r \in {"sorted", "loop"}
        BY <1>2
      <3> QED
        BY ONLY <1>8, <3>1, <3>2 DEF Return, DataTypes, Modes
    <2>2. reverse' = FALSE
      BY <1>2 DEF Return
    <2> QED
      BY <2>1, <2>2 DEF TypeOK
  <1>10. Idle' /\ phase' = "idle" /\ result' = r
    BY <1>2 DEF Return, Idle
  <1>11. ProducersFirst'
    <2>1. SUFFICES ASSUME r = "sorted", NEW n \in Nodes, Broken(n) = {}, NEW e \in In(n)
                   PROVE  id'[e[1]] < id'[n]
      BY <1>6, <1>10 DEF ProducersFirst
    <2>2. IsPermutation(vec) /\ id' = Numbered(id, vec)
      BY <1>2, <1>4, <2>1
    <2>3. PICK k \in 1..Len(vec) : vec[k] = n
      BY <1>3, <2>2, RangeMember DEF IsPermutation, Elements
    <2>4. PICK l \in 1..(k - 1) : vec[l] = e[1]
      BY <1>1, <2>1, <2>3 DEF Sorting, VecInOrder
    <2>5. Len(vec) \in Nat /\ l \in 1..Len(vec) /\ l < k
      BY <1>3, <2>3, <2>4
    <2>6. id'[vec[k]] = k - 1 /\ id'[vec[l]] = l - 1
      BY <2>2, <2>3, <2>5, NumberedIsIndex
    <2> QED
      BY <2>3, <2>4, <2>5, <2>6
  <1>12. LoopIsReal'
    <2>1. SUFFICES ASSUME r = "loop", UniqueNames
                   PROVE  ClosedLoop'
      BY <1>10 DEF LoopIsReal, UniqueNames
    <2>2. PICK S : S = Nodes \ Range(vec)
      OBVIOUS
    <2>3. S # {}
      <3>1. Range(vec) # Nodes
        BY <1>2, <1>3, <1>4, <2>1 DEF IsPermutation
      <3>2. Range(vec) \subseteq Nodes
        BY <1>3, RangeMember
      <3> QED
        BY <2>2, <3>1, <3>2
    <2>4. ASSUME NEW n \in S PROVE \E e \in In(n) \ Broken(n) : e[1] \in S
      <3>1. n \in Nodes /\ n \notin Taken
        BY <1>3, <2>2, <2>4
      <3>2. Cardinality(LeftIn(n)) > Cardinality(Broken(n))
        BY <1>1, <2>1, <3>1 DEF Sorting, Waits
      <3>3. /\ IsFiniteSet(Broken(n)) /\ Cardinality(Broken(n)) \in Nat
            /\ Cardinality(LeftIn(n)) \in Nat
        BY <1>1, EdgeCounts
      <3>4. ~(LeftIn(n) \subseteq Broken(n))
        <4>1. ASSUME LeftIn(n) \in SUBSET Broken(n)
              PROVE  Cardinality(LeftIn(n)) <= Cardinality(Broken(n))
          BY <3>3, <4>1, FS_Subset
        <4> QED
          BY <3>2, <3>3, <4>1
      <3>5. PICK e \in LeftIn(n) : e \notin Broken(n)
        BY <3>4
      <3>6. e \in In(n) /\ e[1] \notin Range(vec)
        BY <1>1, <3>5 DEF LeftIn, LeftEdge
      <3>7. e[1] \in Nodes
        BY <3>6, EdgeMember
      <3> QED
        BY <2>2, <3>5, <3>6, <3>7
    <2>5. \A n \in S : \E e \in In(n)' \ Broken(n)' : e[1] \in S
      BY <1>6, <2>4
    <2>6. S \in (SUBSET Nodes) \ {{}}
      BY <2>2, <2>3
    <2> QED
      BY <2>5, <2>6 DEF ClosedLoop
  <1> QED
    BY <1>5, <1>7, <1>9, <1>10, <1>11, <1>12 DEF Inv

LEMMA AddEdgeStep ==
  ASSUME Inv, NEW src \in Nodes, NEW dst \in Nodes, NEW g \in Groups, AddEdge(src, g, dst)
  PROVE  Inv'
  <1>1. /\ TypeOK /\ DataTypes /\ EdgesFinite /\ NodeListIntact /\ Idle
        /\ Cardinality(Edges) < MaxEdges
        /\ out' = [out EXCEPT ![src][g] = Append(@, dst)] /\ result' = "none"
        /\ UNCHANGED <<nodes, id, phase, mode, reverse, cnt, stack, specs, queue, fresh, vec,
                       order, group, pos>>
    BY DEF Inv, TypeOK, AddEdge
  <1>2. out \in [Nodes -> [Groups -> Seq(Nodes)]]
    BY <1>1 DEF DataTypes
  <1>3. /\ out' \in [Nodes -> [Groups -> Seq(Nodes)]]
        /\ Len(out'[src][g]) = Len(out[src][g]) + 1 /\ Len(out[src][g]) \in Nat
        /\ \A m \in Nodes, h \in Groups : ~(m = src /\ h = g) => out'[m][h] = out[m][h]
    <2>1. out'[src][g] = Append(out[src][g], dst) /\ out[src][g] \in Seq(Nodes)
      BY <1>1, <1>2
    <2>2. out' \in [Nodes -> [Groups -> Seq(Nodes)]]
      BY <1>1, <1>2, <2>1
    <2>3. Len(Append(out[src][g], dst)) = Len(out[src][g]) + 1 /\ Len(out[src][g]) \in Nat
      BY <2>1
    <2> QED
      BY <1>1, <1>2, <2>1, <2>2, <2>3
  <1>4. PICK e0 : e0 = <<src, g, Len(out[src][g]) + 1>>
    OBVIOUS
  <1>5. Edges' \in SUBSET (Edges \cup {e0})
    <2>1. ASSUME NEW m \in Nodes, NEW h \in Groups, NEW k \in 1..Len(out'[m][h])
          PROVE  <<m, h, k>> \in Edges \cup {e0}
      <3>1. CASE m = src /\ h = g /\ k = Len(out[src][g]) + 1
        BY <1>4, <3>1
      <3>2. CASE ~(m = src /\ h = g /\ k = Len(out[src][g]) + 1)
        <4>1. ASSUME m = src, h = g PROVE k \in 1..Len(out[m][h])
          BY <1>3, <3>2, <4>1
        <4>2. ASSUME ~(m = src /\ h = g) PROVE k \in 1..Len(out[m][h])
          BY <1>3, <4>2
        <4>3. k \in 1..Len(out[m][h])
          BY <4>1, <4>2
        <4> QED
          BY <4>3, EdgeIntro
      <3> QED
        BY <3>1, <3>2
    <2>2. ASSUME NEW e \in Edges'
          PROVE  \E m \in Nodes, h \in Groups : \E k \in 1..Len(out'[m][h]) : e = <<m, h, k>>
      BY <2>2 DEF Edges
    <2> QED
      BY <2>1, <2>2
  <1>6. EdgesFinite'
    <2>1. IsFiniteSet(Edges) /\ Cardinality(Edges) \in Nat
      BY <1>1, FS_CardinalityType DEF EdgesFinite
    <2>2. /\ IsFiniteSet(Edges \cup {e0})
          /\ Cardinality(Edges \cup {e0}) <= Cardinality(Edges) + 1
          /\ Cardinality(Edges \cup {e0}) \in Nat
      <3>1. CASE e0 \in Edges
        <4>1. Edges \cup {e0} = Edges
          BY <3>1
        <4>2. PICK c \in Nat : c = Cardinality(Edges)
          BY <2>1
        <4>3. c <= c + 1
          OBVIOUS
        <4> QED
          BY <2>1, <4>1, <4>2, <4>3
      <3>2. CASE e0 \notin Edges
        BY <2>1, <3>2, FS_AddElement
      <3> QED
        BY <3>1, <3>2
    <2>3. IsFiniteSet(Edges') /\ Cardinality(Edges') <= Cardinality(Edges \cup {e0})
      BY <1>5, <2>2, FS_Subset
    <2>4. Cardinality(Edges') \in Nat /\ MaxEdges \in Nat
      BY <2>3, FS_CardinalityType, TopoAssumption
    <2> QED
      BY <1>1, <2>1, <2>2, <2>3, <2>4 DEF EdgesFinite
  <1>7. TypeOK'
    <2>1. DataTypes'
      <3>1. /\ DataTypes /\ out' \in [Nodes -> [Groups -> Seq(Nodes)]] /\ result' = "none"
            /\ UNCHANGED <<nodes, id, phase, mode, cnt, stack, specs, queue, fresh, vec,
                           i, j, inx, group, pos>>
        BY <1>1, <1>3 DEF order
      <3> QED
        BY ONLY <3>1 DEF DataTypes
    <2> QED
      BY <1>1, <2>1 DEF TypeOK
  <1>8. Idle' /\ NodeListIntact' /\ phase' = "idle"
    BY <1>1 DEF Idle, NodeListIntact, order
  <1> QED
    BY <1>1, <1>6, <1>7, <1>8 DEF Inv, ProducersFirst, LoopIsReal

LEMMA StartStep ==
  ASSUME Inv, NEW m \in RunModes, NEW rev \in BOOLEAN, TopologicalSortingGraph(m, rev)
  PROVE  Inv'
  <1>1. /\ TypeOK /\ DataTypes /\ Idle /\ phase' = "collect" /\ mode' = m /\ reverse' = rev
        /\ UNCHANGED <<graph, cnt, stack, specs, queue, fresh, vec, order, group, pos>>
    BY DEF Inv, TypeOK, TopologicalSortingGraph
  <1>2. TypeOK'
    <2>1. DataTypes'
      <3>1. /\ DataTypes /\ phase' = "collect" /\ mode' \in Modes
            /\ UNCHANGED <<nodes, id, out, result, cnt, stack, specs, queue, fresh, vec,
                           i, j, inx, group, pos>>
        BY <1>1, TopoAssumption DEF graph, order
      <3> QED
        BY ONLY <3>1 DEF DataTypes
    <2> QED
      BY <1>1, <2>1 DEF TypeOK
  <1>3. /\ i' = 1 /\ stack' = << >> /\ queue' = << >> /\ fresh' = << >> /\ vec' = << >>
        /\ specs' = 0 /\ nodes' = nodes /\ Len(nodes) \in Nat /\ nodes \in Seq(Nodes)
    BY <1>1 DEF Idle, order, graph, DataTypes
  <1>4. IsInjective(stack') /\ Range(stack') = {} /\ Len(stack') = 0
    BY <1>3, EmptyIsInjective
  <1>5. Collecting'
    BY <1>3, <1>4 DEF Collecting
  <1> QED
    BY <1>1, <1>2, <1>5, StepKeepsGraph

LEMMA InitInv ==
  ASSUME Init
  PROVE  Inv
  <1>1. /\ nodes = Arrival /\ id = Numbered([n \in Nodes |-> 0], Arrival) /\ result = "none" /\ Idle
        /\ out = [n \in Nodes |-> [g \in Groups |-> << >>]]
    BY DEF Init
  <1>2. IsPermutation(Arrival) /\ Modulus \in Nat /\ 0 \in 0..(Modulus - 1) /\ MaxEdges \in Nat
    BY TopoAssumption
  <1>3. Numbered([n \in Nodes |-> 0], Arrival) \in [Nodes -> Int] /\ Arrival \in Seq(Nodes)
    BY <1>2, NumberedIsIndex DEF IsPermutation
  <1>4. out \in [Nodes -> [Groups -> Seq(Nodes)]]
    BY <1>1
  <1>5. TypeOK
    <2>1. DataTypes
      BY <1>1, <1>2, <1>3, <1>4 DEF Idle, DataTypes, Modes
    <2>2. reverse = FALSE
      BY <1>1 DEF Idle
    <2> QED
      BY <2>1, <2>2 DEF TypeOK
  <1>6. EdgesFinite
    <2>1. ASSUME NEW n \in Nodes, NEW g \in Groups PROVE 1..Len(out[n][g]) = {}
      BY <1>1
    <2>2. Edges = {}
      BY <2>1 DEF Edges
    <2> QED
      BY <1>2, <2>2, FS_EmptySet DEF EdgesFinite
  <1>7. phase = "idle"
    BY <1>1 DEF Idle
  <1> QED
    BY <1>1, <1>2, <1>5, <1>6, <1>7 DEF Inv, NodeListIntact, ProducersFirst, LoopIsReal

LEMMA StutterStep ==
  ASSUME Inv, UNCHANGED vars
  PROVE  Inv'
  <1>1. /\ UNCHANGED <<graph, phase, mode, reverse, cnt, stack, specs, queue, fresh, vec,
                       order, group, pos>>
        /\ TypeOK /\ DataTypes
    BY DEF vars, graph, order, Inv, TypeOK
  <1>2. TypeOK'
    <2>1. UNCHANGED <<nodes, id, out, result, phase, mode, cnt, stack, specs, queue, fresh,
                      vec, i, j, inx, group, pos>>
      BY <1>1 DEF graph, order
    <2>2. DataTypes'
      BY ONLY <1>1, <2>1 DEF DataTypes
    <2> QED
      BY <1>1, <2>2 DEF TypeOK
  <1>3. \A n : In(n)' = In(n) /\ Broken(n)' = Broken(n) /\ GetInEdgeSize(n)' = GetInEdgeSize(n)
    BY <1>1, GraphUnchanged
  <1>4. \A n : LeftIn(n)' = LeftIn(n)
    BY <1>1, <1>3 DEF LeftIn, LeftEdge
  <1>5. (Idle => Idle') /\ (Collecting => Collecting')
    BY <1>1, <1>3 DEF Idle, Collecting, order, graph
  <1>6. Sorting => Sorting'
    <2>1. Taken' = Taken /\ (Distinct => Distinct') /\ (VecInOrder => VecInOrder')
      BY <1>1, <1>3 DEF Taken, Distinct, VecInOrder
    <2>2. \A n : (Counted(n)' <=> Counted(n)) /\ (Waits(n)' <=> Waits(n))
      BY <1>1, <1>3, <1>4 DEF Counted, Waits
    <2> QED
      BY <1>1, <2>1, <2>2 DEF Sorting
  <1> QED
    BY <1>1, <1>2, <1>5, <1>6, GraphUnchanged DEF Inv

LEMMA NextInv ==
  ASSUME Inv, [Next]_vars
  PROVE  Inv'
  <1>1. CASE \E src, dst \in Nodes, g \in Groups : AddEdge(src, g, dst)
    BY <1>1, AddEdgeStep
  <1>2. CASE \E m \in RunModes, rev \in BOOLEAN : TopologicalSortingGraph(m, rev)
    BY <1>2, StartStep
  <1>3. CASE SortStep
    BY <1>3, CollectSourceStep, CollectDoneStep, SwapSteps, VisitStep, FollowEdgeStep,
       NextGroupStep, EdgesDoneStep, FinishStep DEF SortStep
  <1>4. CASE UNCHANGED vars
    BY <1>4, StutterStep
  <1> QED
    BY <1>1, <1>2, <1>3, <1>4 DEF Next

LEMMA InvAlways == Spec => []Inv
  BY InitInv, NextInv, PTL DEF Spec

-----------------------------------------------------------------------------
(* The order beyond what the links ask.  Where every NextIteration lies      *)
(* downstream of the node it feeds, no broken edge of a node is followed     *)
(* before the node is taken, so that what a taken node still waits for is    *)
(* broken.                                                                   *)

LoopsReturn == \A n \in Nodes : \A e \in Broken(n) : e[1] \in Downstream(n)

ClosedFrom(S, n) ==
  /\ n \in S
  /\ \A e \in Edges : e[1] \in S /\ e \notin Broken(Dst(e)) => Dst(e) \in S

Loops ==
  LoopsReturn =>
    /\ \A n \in Taken : LeftIn(n) \subseteq Broken(n)
    /\ \A k \in 1..Len(vec) : \A e \in In(vec[k]) \ Broken(vec[k]) :
          \E l \in 1..(k - 1) : vec[l] = e[1]

LEMMA DownstreamIsLeast ==
  ASSUME TypeOK, NEW n \in Nodes
  PROVE  /\ ClosedFrom(Downstream(n), n)
         /\ \A S \in SUBSET Downstream(n) : ClosedFrom(S, n) => S = Downstream(n)
  <1> DEFINE R == {m \in Nodes : \A S \in SUBSET Nodes : ClosedFrom(S, n) => m \in S}
  <1>1. \A e \in Edges : Dst(e) \in Nodes
    <2> SUFFICES ASSUME NEW e \in Edges PROVE Dst(e) \in Nodes
      OBVIOUS
    <2>1. e \in In(Dst(e))
      BY DEF In
    <2>2. /\ e[1] \in Nodes /\ e[2] \in Groups /\ e[3] \in 1..Len(out[e[1]][e[2]])
          /\ out[e[1]][e[2]][e[3]] = Dst(e)
      BY <2>1, EdgeMember
    <2>3. out[e[1]][e[2]] \in Seq(Nodes)
      BY <2>2 DEF TypeOK, DataTypes
    <2> QED
      BY <2>2, <2>3
  <1>2. ClosedFrom(R, n)
    <2>1. n \in R
      BY DEF ClosedFrom
    <2>2. ASSUME NEW e \in Edges, e[1] \in R, e \notin Broken(Dst(e)) PROVE Dst(e) \in R
      <3>1. ASSUME NEW S \in SUBSET Nodes, ClosedFrom(S, n) PROVE Dst(e) \in S
        BY <2>2, <3>1 DEF ClosedFrom
      <3> QED
        BY <1>1, <3>1
    <2> HIDE DEF R
    <2> QED
      BY <2>1, <2>2 DEF ClosedFrom
  <1>3. ASSUME NEW S \in SUBSET R, ClosedFrom(S, n) PROVE S = R
    BY <1>3
  <1>4. R \in SUBSET Nodes
    OBVIOUS
  <1> HIDE DEF R
  <1> DEFINE D(Q) == ClosedFrom(Q, n) /\ \A S \in SUBSET Q : ClosedFrom(S, n) => S = Q
  <1>5. Downstream(n) = CHOOSE Q \in SUBSET Nodes : D(Q)
    BY DEF Downstream, ClosedFrom
  <1>6. D(R)
    BY <1>2, <1>3
  <1> HIDE DEF D
  <1>7. D(Downstream(n))
    BY <1>4, <1>5, <1>6
  <1> QED
    BY <1>7 DEF D

(* What lies downstream of a node has not been visited before the node.      *)
LEMMA DownstreamComesLater ==
  ASSUME TypeOK, NEW V, NEW n \in Nodes, n \notin V,
         \A m \in V : \A e \in In(m) \ Broken(m) : e[1] \in V
  PROVE  Downstream(n) \cap V = {}
  <1> DEFINE S == Downstream(n) \ V
  <1>1. /\ ClosedFrom(Downstream(n), n)
        /\ \A Q \in SUBSET Downstream(n) : ClosedFrom(Q, n) => Q = Downstream(n)
    BY DownstreamIsLeast
  <1>2. ASSUME NEW e \in Edges, e[1] \in S, e \notin Broken(Dst(e)) PROVE Dst(e) \in S
    <2>1. Dst(e) \in Downstream(n)
      BY <1>1, <1>2 DEF ClosedFrom
    <2>2. e \in In(Dst(e)) \ Broken(Dst(e))
      BY <1>2 DEF In
    <2> QED
      BY <1>2, <2>1, <2>2
  <1>3. n \in S
    BY <1>1 DEF ClosedFrom
  <1>4. ClosedFrom(S, n)
    BY <1>2, <1>3 DEF ClosedFrom
  <1>5. S = Downstream(n)
    BY <1>1, <1>4
  <1> QED
    BY <1>5

(* A step that takes no node and follows no edge.                            *)
LEMMA LoopsKept ==
  ASSUME Loops, UNCHANGED <<graph, vec>>, Taken' = Taken, \A n : LeftIn(n)' = LeftIn(n)
  PROVE  Loops'
  <1>1. Edges' = Edges /\ \A n : In(n)' = In(n) /\ Broken(n)' = Broken(n)
    BY GraphUnchanged
  <1>2. \A e : Dst(e)' = Dst(e)
    BY DEF Dst, graph
  <1>3. \A n : Downstream(n)' = Downstream(n)
    BY <1>1, <1>2 DEF Downstream
  <1>4. LoopsReturn' <=> LoopsReturn
    BY <1>1, <1>3 DEF LoopsReturn
  <1> QED
    BY <1>1, <1>4 DEF Loops

LEMMA LoopsStart ==
  ASSUME Inv, CollectDone
  PROVE  Loops'
  <1>1. CollectDone /\ Inv' /\ Collecting /\ EdgesFinite /\ NodeListIntact /\ TypeOK
    BY CollectDoneStep DEF Inv, CollectDone
  <1>2. /\ vec' = << >> /\ queue' = << >> /\ fresh' = << >> /\ stack' = stack
        /\ Range(vec') = {} /\ Range(queue') = {} /\ Range(fresh') = {} /\ UNCHANGED graph
    BY <1>1, EmptyIsInjective DEF Collecting, CollectDone
  <1>3. \A n : In(n)' = In(n) /\ Broken(n)' = Broken(n)
    BY <1>2, GraphUnchanged
  <1>4. ASSUME NEW n \in Taken' PROVE LeftIn(n)' \subseteq Broken(n)'
    <2>1. n \in Range(stack)
      BY <1>2 DEF Taken
    <2>2. GetInEdgeSize(n) = 0
      BY <1>1, <2>1 DEF Collecting
    <2>3. /\ IsFiniteSet(In(n)) /\ Cardinality(In(n)) \in Nat /\ Cardinality(Broken(n)) \in Nat
      BY <1>1, EdgeCounts
    <2>4. Cardinality(In(n)) = Cardinality(Broken(n))
      BY <2>2, <2>3 DEF GetInEdgeSize
    <2>5. Broken(n) \in SUBSET In(n)
      BY DEF Broken
    <2>6. Broken(n) = In(n)
      BY <2>3, <2>4, <2>5, FS_Subset
    <2>7. LeftIn(n)' \subseteq In(n)'
      BY DEF LeftIn
    <2> QED
      BY <1>3, <2>6, <2>7
  <1>5. Len(vec') = 0
    BY <1>2
  <1> QED
    BY <1>4, <1>5 DEF Loops

LEMMA LoopsVisit ==
  ASSUME Inv, Loops, Visit
  PROVE  Loops'
  <1>1. /\ TypeOK /\ Taken' = Taken /\ \A n : LeftIn(n)' = LeftIn(n)
        /\ UNCHANGED graph /\ phase = "loop" /\ fresh = << >> /\ Sorting /\ vec \in Seq(Nodes)
    BY VisitStep DEF Inv, Visit, Sorting, TypeOK, DataTypes
  <1>2. PICK v : vec' = Append(vec, v) /\ v \in Nodes /\ v \in Taken
    <2>1. queue \in Seq(Nodes) /\ stack \in Seq(Nodes)
      BY <1>1 DEF TypeOK, DataTypes
    <2>2. CASE queue # << >>
      <3>1. vec' = Append(vec, Last(queue))
        BY <2>2 DEF Visit
      <3> QED
        BY <2>1, <2>2, <3>1, LastIsElement DEF Taken
    <2>3. CASE queue = << >>
      <3>1. vec' = Append(vec, Last(stack)) /\ stack # << >>
        BY <2>3 DEF Visit
      <3> QED
        BY <2>1, <3>1, LastIsElement DEF Taken
    <2> QED
      BY <2>2, <2>3
  <1>3. \A n : In(n)' = In(n) /\ Broken(n)' = Broken(n)
    BY <1>1, GraphUnchanged
  <1>4. LoopsReturn' <=> LoopsReturn
    <2>1. Edges' = Edges /\ \A e : Dst(e)' = Dst(e)
      BY <1>1, GraphUnchanged DEF Dst, graph
    <2>2. \A n : Downstream(n)' = Downstream(n)
      BY <1>3, <2>1 DEF Downstream
    <2> QED
      BY <1>3, <2>2 DEF LoopsReturn
  <1>5. /\ Len(vec) \in Nat /\ Len(vec') = Len(vec) + 1 /\ vec'[Len(vec) + 1] = v
        /\ \A k \in 1..Len(vec) : vec'[k] = vec[k]
    BY <1>1, <1>2
  <1>6. ASSUME LoopsReturn, NEW k \in 1..Len(vec'), NEW e \in In(vec'[k]) \ Broken(vec'[k])
        PROVE  \E l \in 1..(k - 1) : vec'[l] = e[1]
    <2>1. k \in 1..Len(vec) \/ k = Len(vec) + 1
      BY <1>5
    <2>2. CASE k \in 1..Len(vec)
      <3>1. vec'[k] = vec[k]
        BY <1>5, <2>2
      <3>2. PICK l \in 1..(k - 1) : vec[l] = e[1]
        BY <1>6, <2>2, <3>1 DEF Loops
      <3>3. l \in 1..Len(vec)
        BY <1>5, <2>2
      <3> QED
        BY <1>5, <3>2, <3>3
    <2>3. CASE k = Len(vec) + 1
      <3>1. vec'[k] = v
        BY <1>5, <2>3
      <3>2. LeftIn(v) \subseteq Broken(v)
        BY <1>2, <1>6 DEF Loops
      <3>3. e \notin LeftIn(v) /\ e \in In(v)
        BY <1>6, <3>1, <3>2
      <3>4. e[1] \in Range(vec)
        BY <3>3 DEF LeftIn, LeftEdge
      <3>5. PICK l \in 1..Len(vec) : vec[l] = e[1]
        BY <1>1, <3>4, RangeMember DEF Elements
      <3>6. l \in 1..(k - 1) /\ vec'[l] = e[1]
        BY <1>5, <2>3, <3>5
      <3> QED
        BY <3>6
    <2> QED
      BY <2>1, <2>2, <2>3
  <1> QED
    BY <1>1, <1>3, <1>4, <1>6 DEF Loops

LEMMA LoopsFollow ==
  ASSUME Inv, Loops, FollowEdge
  PROVE  Loops'
  <1>1. /\ TypeOK /\ Sorting /\ EdgesFinite /\ UNCHANGED <<graph, vec, stack, queue>>
        /\ vec \in Seq(Nodes) /\ vec # << >> /\ fresh \in Seq(Nodes)
        /\ cnt \in [Nodes -> 0..(Modulus - 1)] /\ phase = "edges" /\ Inv'
    BY FollowEdgeStep DEF Inv, FollowEdge, Sorting, TypeOK, DataTypes
  <1>2. PICK n0 \in Nodes, e0 \in Edges :
          /\ e0 = <<Last(vec), group, pos>> /\ e0 \in In(n0) /\ e0 \in LeftIn(n0)
          /\ \A n : LeftIn(n)' = LeftIn(n) \ {e0}
          /\ \A n : n # n0 => LeftIn(n)' = LeftIn(n)
          /\ cnt' = [cnt EXCEPT ![n0] = Decrement(@)]
          /\ fresh' = IF cnt'[n0] # 0 THEN fresh
                      ELSE IF IsUseBFS THEN Emplace(fresh, n0) ELSE Append(fresh, n0)
    BY FollowedEdge
  <1>3. \A n : In(n)' = In(n) /\ Broken(n)' = Broken(n)
    BY <1>1, GraphUnchanged
  <1>4. LoopsReturn' <=> LoopsReturn
    <2>1. Edges' = Edges /\ \A e : Dst(e)' = Dst(e)
      BY <1>1, GraphUnchanged DEF Dst, graph
    <2>2. \A n : Downstream(n)' = Downstream(n)
      BY <1>3, <2>1 DEF Downstream
    <2> QED
      BY <1>3, <2>2 DEF LoopsReturn
  <1>5. Range(fresh') \subseteq Range(fresh) \cup {n0} /\ (cnt'[n0] # 0 => Range(fresh') = Range(fresh))
    <2>1. CASE cnt'[n0] # 0
      BY <1>2, <2>1
    <2>2. CASE cnt'[n0] = 0 /\ ~IsUseBFS
      <3>1. fresh' = Append(fresh, n0)
        BY <1>2, <2>2
      <3> QED
        BY <1>1, <2>2, <3>1, AppendIsInjective
    <2>3. CASE cnt'[n0] = 0 /\ IsUseBFS
      <3>1. fresh' = Emplace(fresh, n0)
        BY <1>2, <2>3
      <3>2. fresh' = fresh \/ \E p \in 1..(Len(fresh) + 1) : fresh' = InsertAt(fresh, p, n0)
        BY <1>1, <3>1, EmplaceInserts
      <3>3. \A p \in 1..(Len(fresh) + 1) : Range(InsertAt(fresh, p, n0)) = Range(fresh) \cup {n0}
        BY <1>1, InsertIsInjective
      <3> QED
        BY <2>3, <3>2, <3>3
    <2> QED
      BY <2>1, <2>2, <2>3
  <1>6. /\ Taken' \subseteq Taken \cup {n0}
        /\ cnt'[n0] # 0 => Taken' = Taken
    BY <1>1, <1>5 DEF Taken
  <1>7. ASSUME LoopsReturn, cnt'[n0] = 0 PROVE LeftIn(n0)' \subseteq Broken(n0)'
    <2> DEFINE V == Range(vec)
    <2>1. \A m \in V : \A e \in In(m) \ Broken(m) : e[1] \in V
      <3> SUFFICES ASSUME NEW m \in V, NEW e \in In(m) \ Broken(m) PROVE e[1] \in V
        OBVIOUS
      <3>1. PICK k \in 1..Len(vec) : vec[k] = m
        BY <1>1, RangeMember DEF Elements
      <3>2. PICK l \in 1..(k - 1) : vec[l] = e[1]
        BY <1>7, <3>1 DEF Loops
      <3>3. l \in 1..Len(vec)
        BY <1>1, <3>1
      <3> QED
        BY <1>1, <3>2, <3>3, RangeMember DEF Elements
    <2>2. n0 \notin V
      <3>1. Counted(n0)'
        BY <1>1 DEF Inv, Sorting, FollowEdge
      <3>2. /\ Cardinality(LeftIn(n0)) \in Nat /\ Cardinality(Broken(n0)) \in Nat
            /\ IsFiniteSet(LeftIn(n0)) /\ Cardinality(Broken(n0)) < Modulus /\ Modulus \in Nat
        BY <1>1, EdgeCounts
      <3>3. Cardinality(LeftIn(n0)') = Cardinality(LeftIn(n0)) - 1
        BY <1>2, <3>2, FS_RemoveElement
      <3>4. Cardinality(LeftIn(n0)) - 1 \in Nat
        <4>1. IsFiniteSet(LeftIn(n0) \ {e0}) /\ LeftIn(n0)' = LeftIn(n0) \ {e0}
          BY <1>2, <3>2, FS_Subset
        <4> QED
          BY <3>3, <4>1, FS_CardinalityType
      <3>5. 0 = IF Cardinality(LeftIn(n0)) - 1 >= Cardinality(Broken(n0))
                THEN Cardinality(LeftIn(n0)) - 1 - Cardinality(Broken(n0))
                ELSE Cardinality(LeftIn(n0)) - 1 - Cardinality(Broken(n0)) + Modulus
        BY <1>3, <1>7, <3>1, <3>3 DEF Counted
      <3>6. Cardinality(LeftIn(n0)) > Cardinality(Broken(n0))
        BY <3>2, <3>4, <3>5
      <3>7. n0 \notin Taken
        BY <1>1, <3>6 DEF Sorting, Waits
      <3> QED
        BY <3>7 DEF Taken
    <2>3. Downstream(n0) \cap V = {}
      <3> HIDE DEF V
      <3> QED
        BY <1>1, <2>1, <2>2, DownstreamComesLater
    <2>4. Broken(n0) \subseteq LeftIn(n0) \ {e0}
      <3> SUFFICES ASSUME NEW e \in Broken(n0) PROVE e \in LeftIn(n0) /\ e # e0
        OBVIOUS
      <3>1. e[1] \notin V
        BY <1>7, <2>3 DEF LoopsReturn
      <3>2. e0[1] \in V
        BY <1>1, <1>2, LastIsElement
      <3> QED
        BY <3>1, <3>2 DEF LeftIn, LeftEdge, Broken
    <2>5. /\ IsFiniteSet(LeftIn(n0)') /\ Cardinality(LeftIn(n0)') \in Nat
          /\ Cardinality(Broken(n0)) \in Nat /\ Cardinality(Broken(n0)) < Modulus
      <3>1. IsFiniteSet(LeftIn(n0))
        BY <1>1, EdgeCounts
      <3>2. LeftIn(n0)' \in SUBSET LeftIn(n0)
        BY <1>2
      <3>3. IsFiniteSet(LeftIn(n0)')
        BY <3>1, <3>2, FS_Subset
      <3> QED
        BY <1>1, <3>3, FS_CardinalityType, EdgeCounts
    <2>6. Cardinality(LeftIn(n0)') = Cardinality(Broken(n0))
      <3>1. Counted(n0)' /\ Modulus \in Nat
        BY <1>1, TopoAssumption DEF Inv, Sorting, FollowEdge
      <3>2. 0 = IF Cardinality(LeftIn(n0)') >= Cardinality(Broken(n0))
                THEN Cardinality(LeftIn(n0)') - Cardinality(Broken(n0))
                ELSE Cardinality(LeftIn(n0)') - Cardinality(Broken(n0)) + Modulus
        BY <1>3, <1>7, <3>1 DEF Counted
      <3> QED
        BY <2>5, <3>1, <3>2
    <2>7. Broken(n0) \in SUBSET LeftIn(n0)'
      BY <1>2, <2>4
    <2>8. Broken(n0) = LeftIn(n0)'
      BY <2>5, <2>6, <2>7, FS_Subset
    <2> QED
      BY <1>3, <2>8
  <1>8. ASSUME LoopsReturn, NEW n \in Taken' PROVE LeftIn(n)' \subseteq Broken(n)'
    <2>1. CASE n \in Taken
      BY <1>2, <1>3, <1>8, <2>1 DEF Loops
    <2>2. CASE n \notin Taken
      BY <1>6, <1>7, <1>8, <2>2
    <2> QED
      BY <2>1, <2>2
  <1>9. ASSUME LoopsReturn
        PROVE  \A k \in 1..Len(vec') : \A e \in In(vec'[k]) \ Broken(vec'[k]) :
                  \E l \in 1..(k - 1) : vec'[l] = e[1]
    BY <1>1, <1>9 DEF Loops
  <1> QED
    BY <1>3, <1>4, <1>8, <1>9 DEF Loops

(* A sort that succeeded has taken all nodes in that order.                  *)
LEMMA LoopsFinish ==
  ASSUME Inv, Loops, Finish
  PROVE  LoopsEnterFirst'
  <1>1. /\ TypeOK /\ NodeListIntact /\ Sorting /\ vec \in Seq(Nodes) /\ IsInjective(vec) /\ out' = out
    BY DEF Inv, Finish, Sorting, Distinct, TypeOK, DataTypes
  <1>2. \A n : In(n)' = In(n) /\ Broken(n)' = Broken(n)
    BY <1>1, OutUnchanged
  <1>3. \A n : Downstream(n)' = Downstream(n)
    <2>1. Edges' = Edges /\ \A e : Dst(e)' = Dst(e)
      BY <1>1 DEF Edges, Dst
    <2> QED
      BY <1>2, <2>1 DEF Downstream
  <1> SUFFICES ASSUME result' = "sorted", LoopsReturn,
                      NEW n \in Nodes, NEW e \in In(n) \ Broken(n)
               PROVE  id'[e[1]] < id'[n]
    BY <1>2, <1>3 DEF LoopsEnterFirst, LoopsReturn
  <1>4. Len(vec) = Len(nodes) /\ id' = Numbered(id, vec)
    BY DEF Finish, Return, AllVisited
  <1>5. IsPermutation(vec)
    BY <1>1, <1>4, AllVisitedIsPermutation
  <1>6. PICK k \in 1..Len(vec) : vec[k] = n
    BY <1>1, <1>5, RangeMember DEF IsPermutation, Elements
  <1>7. PICK l \in 1..(k - 1) : vec[l] = e[1]
    BY <1>6 DEF Loops
  <1>8. Len(vec) \in Nat /\ l \in 1..Len(vec) /\ l < k
    BY <1>1, <1>6, <1>7
  <1>9. id'[vec[k]] = k - 1 /\ id'[vec[l]] = l - 1
    BY <1>4, <1>5, <1>6, <1>8, NumberedIsIndex
  <1> QED
    BY <1>6, <1>7, <1>8, <1>9

-----------------------------------------------------------------------------
(* Siblings: two nodes that wait for one edge each, from the same list of    *)
(* peers.  The DFS collects them in the order of the list, puts them on the  *)
(* stack in that order or the other way round, and takes the upper one first.*)

Before(s, x, y) == \E k, l \in 1..Len(s) : k < l /\ s[k] = x /\ s[l] = y

Siblings(e, f) ==
  /\ e[1] = f[1] /\ e[2] = f[2] /\ e[3] < f[3]
  /\ In(Dst(e)) = {e} /\ In(Dst(f)) = {f}
  /\ Broken(Dst(e)) = {} /\ Broken(Dst(f)) = {}

(* x is above y on the stack, or has been taken before y. *)
Placed(x, y) ==
  \/ Before(stack, y, x)
  \/ x \in Range(vec) /\ y \in Range(stack)
  \/ Before(vec, x, y)

SiblingsPlaced(e, f) ==
  /\ LeftIn(Dst(e)) = {} /\ LeftIn(Dst(f)) # {} => Dst(e) \in Range(fresh)
  /\ LeftIn(Dst(f)) = {} =>
       \/ Before(fresh, Dst(e), Dst(f))
       \/ reverse /\ Placed(Dst(e), Dst(f))
       \/ ~reverse /\ Placed(Dst(f), Dst(e))

InTurn ==
  ~IsUseBFS =>
    /\ queue = << >>
    /\ phase = "edges" /\ group \notin Groups => fresh = << >>
    /\ \A e, f \in Edges : Siblings(e, f) => SiblingsPlaced(e, f)

LEMMA BeforeInConcat ==
  ASSUME NEW T, NEW s \in Seq(T), NEW t \in Seq(T), NEW x, NEW y
  PROVE  /\ Before(s, x, y) => Before(s \o t, x, y)
         /\ Before(t, x, y) => Before(s \o t, x, y)
  <1>1. /\ Len(s) \in Nat /\ Len(t) \in Nat /\ Len(s \o t) = Len(s) + Len(t)
        /\ \A k \in 1..Len(s) : (s \o t)[k] = s[k]
        /\ \A k \in 1..Len(t) : (s \o t)[Len(s) + k] = t[k]
    BY ConcatProperties
  <1> DEFINE r == s \o t
  <1> HIDE DEF r
  <1>2. /\ Len(s) \in Nat /\ Len(t) \in Nat /\ Len(r) = Len(s) + Len(t)
        /\ \A k \in 1..Len(s) : r[k] = s[k]
        /\ \A k \in 1..Len(t) : r[Len(s) + k] = t[k]
    BY <1>1 DEF r
  <1>3. ASSUME Before(s, x, y) PROVE Before(r, x, y)
    <2>1. PICK k \in 1..Len(s), l \in 1..Len(s) : k < l /\ s[k] = x /\ s[l] = y
      BY <1>3 DEF Before
    <2>2. k \in 1..Len(r) /\ l \in 1..Len(r) /\ r[k] = x /\ r[l] = y
      BY <1>2, <2>1
    <2> QED
      BY <2>1, <2>2 DEF Before
  <1>4. ASSUME Before(t, x, y) PROVE Before(r, x, y)
    <2>1. PICK k \in 1..Len(t), l \in 1..Len(t) : k < l /\ t[k] = x /\ t[l] = y
      BY <1>4 DEF Before
    <2>2. Len(s) + k \in 1..Len(r) /\ Len(s) + l \in 1..Len(r) /\ Len(s) + k < Len(s) + l
      BY <1>2, <2>1
    <2>3. r[Len(s) + k] = x /\ r[Len(s) + l] = y
      BY <1>2, <2>1
    <2> QED
      BY <2>2, <2>3 DEF Before
  <1> QED
    BY <1>3, <1>4 DEF r

LEMMA BeforeInAppend ==
  ASSUME NEW T, NEW s \in Seq(T), NEW z \in T, NEW x, NEW y
  PROVE  /\ Before(s, x, y) => Before(Append(s, z), x, y)
         /\ x \in Range(s) => Before(Append(s, z), x, z)
  <1> DEFINE r == Append(s, z)
  <1>1. /\ Len(s) \in Nat /\ Len(r) = Len(s) + 1 /\ r[Len(s) + 1] = z
        /\ \A k \in 1..Len(s) : r[k] = s[k]
    OBVIOUS
  <1> HIDE DEF r
  <1>2. ASSUME Before(s, x, y) PROVE Before(r, x, y)
    <2>1. PICK k \in 1..Len(s), l \in 1..Len(s) : k < l /\ s[k] = x /\ s[l] = y
      BY <1>2 DEF Before
    <2>2. k \in 1..Len(r) /\ l \in 1..Len(r) /\ r[k] = x /\ r[l] = y
      BY <1>1, <2>1
    <2> QED
      BY <2>1, <2>2 DEF Before
  <1>3. ASSUME x \in Range(s) PROVE Before(r, x, z)
    <2>1. PICK k \in 1..Len(s) : s[k] = x
      BY <1>3, RangeMember DEF Elements
    <2>2. k \in 1..Len(r) /\ Len(s) + 1 \in 1..Len(r) /\ k < Len(s) + 1 /\ r[k] = x /\ r[Len(s) + 1] = z
      BY <1>1, <2>1
    <2> QED
      BY <2>2 DEF Before
  <1> QED
    BY <1>2, <1>3 DEF r

LEMMA BeforeInReverse ==
  ASSUME NEW T, NEW s \in Seq(T), NEW x, NEW y, Before(s, x, y)
  PROVE  Before(Reverse(s), y, x)
  <1> DEFINE r == Reverse(s)
  <1>1. Len(s) \in Nat /\ \A k \in 1..Len(s) : (Len(s) - k) + 1 \in 1..Len(s)
    OBVIOUS
  <1>2. r \in Seq(T) /\ Len(r) = Len(s) /\ \A k \in 1..Len(s) : r[k] = s[(Len(s) - k) + 1]
    BY <1>1 DEF Reverse
  <1> HIDE DEF r
  <1>3. PICK k \in 1..Len(s), l \in 1..Len(s) : k < l /\ s[k] = x /\ s[l] = y
    BY DEF Before
  <1> DEFINE m == (Len(s) - k) + 1
             n == (Len(s) - l) + 1
  <1>4. m \in 1..Len(s) /\ n \in 1..Len(s) /\ n < m /\ (Len(s) - m) + 1 = k /\ (Len(s) - n) + 1 = l
    BY <1>1, <1>3
  <1> HIDE DEF m, n
  <1>5. r[m] = x /\ r[n] = y
    BY <1>2, <1>3, <1>4
  <1>6. Before(r, y, x)
    BY <1>2, <1>4, <1>5 DEF Before
  <1> QED
    BY <1>6 DEF r

LEMMA BeforeInFront ==
  ASSUME NEW T, NEW s \in Seq(T), IsInjective(s), NEW x, NEW y, Before(s, x, y)
  PROVE  /\ s # << >> /\ Last(s) # x
         /\ Last(s) = y => x \in Range(Front(s))
         /\ Last(s) # y => Before(Front(s), x, y)
  <1>1. PICK k \in 1..Len(s), l \in 1..Len(s) : k < l /\ s[k] = x /\ s[l] = y
    BY DEF Before
  <1>2. Len(s) \in Nat /\ Len(s) > 0 /\ s # << >> /\ Last(s) = s[Len(s)] /\ Len(s) \in 1..Len(s)
    BY <1>1 DEF Last
  <1>3. \A m, n \in 1..Len(s) : s[m] = s[n] => m = n
    BY RangeMember DEF Elements
  <1>4. Front(s) \in Seq(T) /\ Len(Front(s)) = Len(s) - 1 /\ \A m \in 1..(Len(s) - 1) : Front(s)[m] = s[m]
    <2>1. PICK n \in Nat : n = Len(s) - 1
      BY <1>2
    <2>2. Front(s) = SubSeq(s, 1, n) /\ 1..n \subseteq 1..Len(s)
      BY <1>2, <2>1 DEF Front
    <2>3. /\ SubSeq(s, 1, n) \in Seq(T) /\ Len(SubSeq(s, 1, n)) = n
          /\ \A m \in 1..n : SubSeq(s, 1, n)[m] = s[m]
      BY <1>2, <2>1
    <2> QED
      BY <2>1, <2>2, <2>3
  <1>5. Last(s) # x
    BY <1>1, <1>2, <1>3
  <1>6. k \in 1..(Len(s) - 1)
    BY <1>1, <1>2
  <1>7. x \in Range(Front(s))
    BY <1>1, <1>4, <1>6, RangeMember DEF Elements
  <1>8. ASSUME Last(s) # y PROVE Before(Front(s), x, y)
    <2>1. l # Len(s)
      BY <1>1, <1>2, <1>8
    <2>2. l \in 1..(Len(s) - 1)
      BY <1>1, <1>2, <2>1
    <2> QED
      BY <1>1, <1>4, <1>6, <2>2 DEF Before
  <1> QED
    BY <1>2, <1>5, <1>7, <1>8

LEMMA NothingBefore ==
  ASSUME NEW x, NEW y
  PROVE  ~Before(<< >>, x, y)
  BY DEF Before

(* The edges between siblings and their common producer.                     *)
LEMMA SiblingEdges ==
  ASSUME TypeOK, NEW e \in Edges, NEW f \in Edges, Siblings(e, f)
  PROVE  /\ Dst(e) \in Nodes /\ Dst(f) \in Nodes /\ e \in In(Dst(e)) /\ f \in In(Dst(f))
         /\ e[1] \in Nodes /\ e[2] \in Groups /\ e[2] \in Int /\ e[3] \in Int /\ f[3] \in Int
         /\ e[3] \in 1..Len(out[e[1]][e[2]]) /\ f[3] \in 1..Len(out[e[1]][e[2]])
         /\ e = <<e[1], e[2], e[3]>> /\ f = <<e[1], e[2], f[3]>>
         /\ LeftIn(Dst(e)) = {} <=> ~LeftEdge(e)
         /\ LeftIn(Dst(f)) = {} <=> ~LeftEdge(f)
  <1>1. e \in In(Dst(e)) /\ f \in In(Dst(f))
    BY DEF In
  <1>2. /\ e[1] \in Nodes /\ e[2] \in Groups /\ e[3] \in 1..Len(out[e[1]][e[2]])
        /\ e = <<e[1], e[2], e[3]>> /\ out[e[1]][e[2]][e[3]] = Dst(e)
    BY <1>1, EdgeMember
  <1>3. /\ f[1] \in Nodes /\ f[2] \in Groups /\ f[3] \in 1..Len(out[f[1]][f[2]])
        /\ f = <<f[1], f[2], f[3]>> /\ out[f[1]][f[2]][f[3]] = Dst(f)
    BY <1>1, EdgeMember
  <1>4. f[1] = e[1] /\ f[2] = e[2] /\ In(Dst(e)) = {e} /\ In(Dst(f)) = {f}
    BY DEF Siblings
  <1>5. out[e[1]][e[2]] \in Seq(Nodes)
    BY <1>2 DEF TypeOK, DataTypes
  <1>6. Dst(e) \in Nodes /\ Dst(f) \in Nodes
    BY <1>2, <1>3, <1>4, <1>5
  <1>7. LeftIn(Dst(e)) = {} <=> ~LeftEdge(e)
    BY <1>4 DEF LeftIn
  <1>8. LeftIn(Dst(f)) = {} <=> ~LeftEdge(f)
    BY <1>4 DEF LeftIn
  <1>9. e[2] \in Int /\ e[3] \in Int /\ f[3] \in Int
    BY <1>2, <1>3 DEF Groups
  <1> QED
    BY <1>1, <1>2, <1>3, <1>4, <1>6, <1>7, <1>8, <1>9

(* The second of two siblings has been left alone when the first one has,    *)
(* unless the traversal is between them.                                     *)
LEMMA SiblingsLeft ==
  ASSUME TypeOK, Sorting, NEW e \in Edges, NEW f \in Edges, Siblings(e, f)
  PROVE  /\ LeftIn(Dst(e)) # {} => LeftIn(Dst(f)) # {}
         /\ LeftIn(Dst(e)) = {} /\ LeftIn(Dst(f)) # {} =>
              /\ phase = "edges" /\ e[1] = Last(vec) /\ e[2] = group
              /\ e[3] < pos /\ pos <= f[3]
         /\ LeftIn(Dst(f)) = {} => e[1] \in Range(vec)
  <1>1. /\ e[2] \in Int /\ e[3] \in Int /\ f[3] \in Int
        /\ LeftIn(Dst(e)) = {} <=> ~LeftEdge(e)
        /\ LeftIn(Dst(f)) = {} <=> ~LeftEdge(f)
    BY SiblingEdges
  <1>2. f[1] = e[1] /\ f[2] = e[2] /\ e[3] < f[3]
    BY DEF Siblings
  <1>3. pos \in Int /\ group \in Int
    BY DEF TypeOK, DataTypes
  <1>4. LeftEdge(e) => LeftEdge(f)
    BY <1>1, <1>2, <1>3 DEF LeftEdge
  <1>5. ~LeftEdge(e) /\ LeftEdge(f) =>
          /\ phase = "edges" /\ e[1] = Last(vec) /\ e[2] = group
          /\ e[3] < pos /\ pos <= f[3]
    BY <1>1, <1>2, <1>3 DEF LeftEdge
  <1>6. ~LeftEdge(f) => e[1] \in Range(vec)
    BY <1>2 DEF LeftEdge
  <1> QED
    BY <1>1, <1>4, <1>5, <1>6

LEMMA SameSiblings ==
  ASSUME out' = out
  PROVE  /\ Edges' = Edges /\ \A e : Dst(e)' = Dst(e)
         /\ \A e, f : Siblings(e, f)' <=> Siblings(e, f)
  <1>1. Edges' = Edges /\ \A e : Dst(e)' = Dst(e)
    BY DEF Edges, Dst
  <1>2. \A n : In(n)' = In(n) /\ Broken(n)' = Broken(n)
    BY OutUnchanged
  <1>3. \A e, f : Siblings(e, f)' <=> Siblings(e, f)
    BY <1>1, <1>2 DEF Siblings
  <1> QED
    BY <1>1, <1>3

(* Before the traversal no edge has been followed.                           *)
LEMMA InTurnBefore ==
  ASSUME TypeOK', vec' = << >>, queue' = << >>, phase' # "edges"
  PROVE  InTurn'
  <1>2. \A e : LeftEdge(e)'
    BY EmptyIsInjective DEF LeftEdge
  <1>4. ASSUME NEW e \in Edges', NEW f \in Edges', Siblings(e, f)' PROVE SiblingsPlaced(e, f)'
    <2>1. In(Dst(e))' = {e} /\ In(Dst(f))' = {f}
      BY <1>4 DEF Siblings
    <2>2. LeftIn(Dst(e))' # {} /\ LeftIn(Dst(f))' # {}
      BY <1>2, <2>1 DEF LeftIn
    <2> QED
      BY <2>2 DEF SiblingsPlaced
  <1> QED
    BY <1>4 DEF InTurn

LEMMA InTurnVisit ==
  ASSUME Inv, InTurn, Visit
  PROVE  InTurn'
  <1>1. /\ TypeOK /\ Sorting /\ Distinct /\ phase = "loop" /\ fresh = << >> /\ fresh' = << >>
        /\ UNCHANGED <<graph, mode, reverse>> /\ group' = 1
        /\ \A n : LeftIn(n)' = LeftIn(n)
    BY VisitStep DEF Inv, Visit, Sorting
  <1>2. stack \in Seq(Nodes) /\ vec \in Seq(Nodes) /\ IsInjective(stack)
    BY <1>1 DEF TypeOK, DataTypes, Distinct
  <1>3. 1 \in Groups
    BY TopoAssumption DEF Groups
  <1> SUFFICES ASSUME ~IsUseBFS PROVE /\ queue' = << >>
                                      /\ \A e, f \in Edges' : Siblings(e, f)' => SiblingsPlaced(e, f)'
    BY <1>1, <1>3 DEF InTurn, IsUseBFS
  <1>4. queue = << >> /\ stack # << >> /\ vec' = Append(vec, Last(stack)) /\ stack' = Front(stack) /\ queue' = queue
    BY DEF InTurn, Visit
  <1>5. /\ Front(stack) \in Seq(Nodes) /\ Last(stack) \in Nodes
        /\ Range(stack) = Range(Front(stack)) \cup {Last(stack)}
        /\ Range(vec') = Range(vec) \cup {Last(stack)}
    BY <1>2, <1>4, FrontIsInjective, AppendIsInjective
  <1>6. ASSUME NEW x, NEW y, Placed(x, y) PROVE Placed(x, y)'
    <2>1. CASE Before(stack, y, x)
      <3>1. /\ Last(stack) # y
            /\ Last(stack) = x => y \in Range(Front(stack))
            /\ Last(stack) # x => Before(Front(stack), y, x)
        BY <1>2, <2>1, BeforeInFront
      <3> QED
        BY <1>4, <1>5, <3>1 DEF Placed
    <2>2. CASE x \in Range(vec) /\ y \in Range(stack)
      <3>1. CASE y = Last(stack)
        <4>1. Before(Append(vec, Last(stack)), x, Last(stack))
          BY <1>2, <1>5, <2>2, BeforeInAppend
        <4> QED
          BY <1>4, <3>1, <4>1 DEF Placed
      <3>2. CASE y # Last(stack)
        BY <1>4, <1>5, <2>2, <3>2 DEF Placed
      <3> QED
        BY <3>1, <3>2
    <2>3. CASE Before(vec, x, y)
      <3>1. Before(Append(vec, Last(stack)), x, y)
        BY <1>2, <1>5, <2>3, BeforeInAppend
      <3> QED
        BY <1>4, <3>1 DEF Placed
    <2> QED
      BY <1>6, <2>1, <2>2, <2>3 DEF Placed
  <1>7. /\ Edges' = Edges /\ \A e : Dst(e)' = Dst(e)
        /\ \A e, f : Siblings(e, f)' <=> Siblings(e, f)
    BY <1>1, SameSiblings DEF graph
  <1>8. ASSUME NEW e \in Edges, NEW f \in Edges, Siblings(e, f) PROVE SiblingsPlaced(e, f)'
    <2>1. SiblingsPlaced(e, f)
      BY <1>8 DEF InTurn
    <2>2. ~(LeftIn(Dst(e)) = {} /\ LeftIn(Dst(f)) # {})
      BY <1>1, <1>8, SiblingsLeft
    <2>3. /\ LeftIn(Dst(e))' = LeftIn(Dst(e)) /\ LeftIn(Dst(f))' = LeftIn(Dst(f))
          /\ Dst(e)' = Dst(e) /\ Dst(f)' = Dst(f) /\ reverse' = reverse
      <3>1. \A n : LeftIn(n)' = LeftIn(n)
        BY <1>1
      <3>2. Dst(e)' = Dst(e) /\ Dst(f)' = Dst(f)
        BY <1>7
      <3> QED
        BY <1>1, <3>1, <3>2 DEF LeftIn
    <2>4. ~Before(fresh, Dst(e), Dst(f))
      BY <1>1, NothingBefore
    <2>5. /\ Placed(Dst(e), Dst(f)) => Placed(Dst(e), Dst(f))'
          /\ Placed(Dst(f), Dst(e)) => Placed(Dst(f), Dst(e))'
      <3>1. Dst(e)' = Dst(e) /\ Dst(f)' = Dst(f)
        BY <1>7
      <3> QED
        BY <1>6, <3>1 DEF Placed
    <2> QED
      BY <2>1, <2>2, <2>3, <2>4, <2>5 DEF SiblingsPlaced
  <1> QED
    BY <1>4, <1>7, <1>8

LEMMA InTurnFollow ==
  ASSUME Inv, InTurn, FollowEdge
  PROVE  InTurn'
  <1>1. /\ TypeOK /\ Sorting /\ phase = "edges" /\ phase' = "edges" /\ group \in Groups
        /\ UNCHANGED <<graph, mode, reverse, stack, queue, vec, group>>
        /\ fresh \in Seq(Nodes) /\ vec \in Seq(Nodes) /\ vec # << >>
    BY DEF Inv, TypeOK, DataTypes, FollowEdge, Sorting
  <1>2. Sorting'
    BY <1>1, FollowEdgeStep DEF Inv
  <1>3. PICK n0 \in Nodes, e0 \in Edges :
          /\ e0 = <<Last(vec), group, pos>> /\ e0 \in In(n0) /\ e0 \in LeftIn(n0)
          /\ \A n : LeftIn(n)' = LeftIn(n) \ {e0}
          /\ \A n : n # n0 => LeftIn(n)' = LeftIn(n)
          /\ cnt' = [cnt EXCEPT ![n0] = Decrement(@)]
          /\ fresh' = IF cnt'[n0] # 0 THEN fresh
                      ELSE IF IsUseBFS THEN Emplace(fresh, n0) ELSE Append(fresh, n0)
    BY FollowedEdge
  <1>4. /\ Edges' = Edges /\ \A e : Dst(e)' = Dst(e)
        /\ \A e, f : Siblings(e, f)' <=> Siblings(e, f)
        /\ \A n : In(n)' = In(n) /\ Broken(n)' = Broken(n)
    BY <1>1, SameSiblings, OutUnchanged DEF graph
  <1>5. \A x, y : Placed(x, y)' <=> Placed(x, y)
    BY <1>1 DEF Placed
  <1> SUFFICES ASSUME ~IsUseBFS
               PROVE  /\ queue' = << >>
                      /\ \A e, f \in Edges' : Siblings(e, f)' => SiblingsPlaced(e, f)'
    BY <1>1 DEF InTurn, IsUseBFS
  <1>6. queue' = << >>
    BY <1>1 DEF InTurn
  (* The last edge a node waits for makes its counter zero.                  *)
  <1>7. ASSUME In(n0) = {e0}, Broken(n0) = {}
        PROVE  LeftIn(n0)' = {} /\ fresh' = Append(fresh, n0)
    <2>1. LeftIn(n0) \subseteq {e0}
      BY <1>7 DEF LeftIn
    <2>2. LeftIn(n0)' = {}
      BY <1>3, <2>1
    <2>3. Counted(n0)'
      BY <1>2 DEF Sorting
    <2>4. Broken(n0)' = {} /\ Cardinality({}) = 0
      BY <1>4, <1>7, FS_EmptySet
    <2>5. cnt'[n0] = 0
      BY <2>2, <2>3, <2>4 DEF Counted
    <2> QED
      BY <1>3, <2>2, <2>5
  <1>8. /\ Range(fresh) \subseteq Range(fresh')
        /\ \A x, y : Before(fresh, x, y) => Before(fresh', x, y)
    <2>1. CASE cnt'[n0] # 0
      BY <1>3, <2>1
    <2>2. CASE cnt'[n0] = 0
      <3>1. fresh' = Append(fresh, n0)
        BY <1>3, <2>2
      <3>2. Range(Append(fresh, n0)) = Range(fresh) \cup {n0}
        BY <1>1, AppendIsInjective
      <3>3. \A x, y : Before(fresh, x, y) => Before(Append(fresh, n0), x, y)
        BY <1>1, BeforeInAppend
      <3> QED
        BY <3>1, <3>2, <3>3
    <2> QED
      BY <2>1, <2>2
  <1>9. ASSUME NEW e \in Edges, NEW f \in Edges, Siblings(e, f)
        PROVE  SiblingsPlaced(e, f)'
    <2>1. SiblingsPlaced(e, f)
      BY <1>9 DEF InTurn
    <2>2. Dst(e)' = Dst(e) /\ Dst(f)' = Dst(f)
      BY <1>4
    <2>3. /\ In(Dst(e)) = {e} /\ Broken(Dst(e)) = {} /\ In(Dst(f)) = {f} /\ Broken(Dst(f)) = {}
          /\ f[1] = e[1] /\ f[2] = e[2] /\ e[3] < f[3]
      BY <1>9 DEF Siblings
    <2>4. /\ e \in In(Dst(e)) /\ f \in In(Dst(f)) /\ e[3] \in Int /\ f[3] \in Int
          /\ LeftIn(Dst(e)) = {} <=> ~LeftEdge(e)
          /\ LeftIn(Dst(f)) = {} <=> ~LeftEdge(f)
      BY <1>1, <1>9, SiblingEdges
    <2>5. \A g \in Edges : e0 = g => n0 = Dst(g)
      BY <1>3 DEF In
    <2>6. e0[1] = Last(vec) /\ e0[2] = group /\ e0[3] = pos /\ pos \in Int /\ group \in Int
      BY <1>1, <1>3 DEF TypeOK, DataTypes
    <2>7. CASE e0 = f
      <3>1. n0 = Dst(f) /\ LeftIn(n0)' = {} /\ fresh' = Append(fresh, Dst(f))
        BY <1>7, <2>3, <2>5, <2>7
      <3>6. LeftIn(Dst(f))' = {}
        BY <2>2, <3>1 DEF LeftIn
      <3>2. ~LeftEdge(e)
        <4>1. Last(vec) \in Range(vec)
          BY <1>1, LastIsElement
        <4> QED
          BY <2>3, <2>4, <2>6, <2>7, <4>1 DEF LeftEdge
      <3>3. LeftIn(Dst(f)) # {}
        BY <1>3, <3>1
      <3>4. Dst(e) \in Range(fresh)
        BY <2>1, <2>4, <3>2, <3>3 DEF SiblingsPlaced
      <3>5. Before(fresh', Dst(e), Dst(f))
        BY <1>1, <1>3, <3>1, <3>4, BeforeInAppend
      <3> QED
        BY <2>2, <3>6, <3>5 DEF SiblingsPlaced
    <2>8. CASE e0 = e
      <3>1. n0 = Dst(e) /\ fresh' = Append(fresh, Dst(e))
        BY <1>7, <2>3, <2>5, <2>8
      <3>2. Dst(e) \in Range(fresh')
        <4>1. Range(Append(fresh, n0)) = Range(fresh) \cup {n0}
          BY <1>1, AppendIsInjective
        <4> QED
          BY <3>1, <4>1
      <3>3. LeftEdge(f)
        BY <2>3, <2>4, <2>6, <2>8, <1>1 DEF LeftEdge
      <3>4. LeftIn(Dst(f))' # {}
        <4>1. f # e
          BY <2>3, <2>4
        <4>2. f \in LeftIn(Dst(f))
          BY <2>4, <3>3 DEF LeftIn
        <4>3. f \in LeftIn(Dst(f)) \ {e0}
          BY <2>8, <4>1, <4>2
        <4>4. LeftIn(Dst(f))' = LeftIn(Dst(f)) \ {e0}
          BY <1>3, <2>2 DEF LeftIn
        <4> QED
          BY <4>3, <4>4
      <3> QED
        BY <2>2, <3>2, <3>4 DEF SiblingsPlaced
    <2>9. CASE e0 # e /\ e0 # f
      <3>1. e0 \notin In(Dst(e)) /\ e0 \notin In(Dst(f))
        BY <2>3, <2>9
      <3>2. LeftIn(Dst(e))' = LeftIn(Dst(e)) /\ LeftIn(Dst(f))' = LeftIn(Dst(f))
        <4>1. /\ LeftIn(Dst(e))' = LeftIn(Dst(e)) \ {e0}
              /\ LeftIn(Dst(f))' = LeftIn(Dst(f)) \ {e0}
          BY <1>3, <2>2 DEF LeftIn
        <4>2. e0 \notin LeftIn(Dst(e)) /\ e0 \notin LeftIn(Dst(f))
          BY <3>1 DEF LeftIn
        <4> QED
          BY <4>1, <4>2
      <3>3. reverse' = reverse
        BY <1>1
      <3>4. /\ LeftIn(Dst(e)) = {} /\ LeftIn(Dst(f)) # {} => Dst(e) \in Range(fresh')
        BY <1>8, <2>1 DEF SiblingsPlaced
      <3>5. LeftIn(Dst(f)) = {} =>
              \/ Before(fresh', Dst(e), Dst(f))
              \/ reverse /\ Placed(Dst(e), Dst(f))'
              \/ ~reverse /\ Placed(Dst(f), Dst(e))'
        <4>1. LeftIn(Dst(f)) = {} =>
              \/ Before(fresh, Dst(e), Dst(f))
              \/ reverse /\ Placed(Dst(e), Dst(f))
              \/ ~reverse /\ Placed(Dst(f), Dst(e))
          BY <2>1 DEF SiblingsPlaced
        <4>2. /\ Placed(Dst(e), Dst(f))' <=> Placed(Dst(e), Dst(f))
              /\ Placed(Dst(f), Dst(e))' <=> Placed(Dst(f), Dst(e))
          BY <1>1, <2>2 DEF Placed
        <4> QED
          BY <1>8, <4>1, <4>2
      <3> QED
        BY <2>2, <3>2, <3>3, <3>4, <3>5 DEF SiblingsPlaced
    <2> QED
      BY <2>7, <2>8, <2>9
  <1> QED
    BY <1>4, <1>6, <1>9

LEMMA InTurnNextGroup ==
  ASSUME Inv, InTurn, NextGroup
  PROVE  InTurn'
  <1>1. /\ TypeOK /\ Sorting /\ phase = "edges" /\ phase' = "edges"
        /\ group \in Groups /\ pos > Len(out[Last(vec)][group])
        /\ UNCHANGED <<graph, mode, reverse, queue, vec>>
        /\ fresh \in Seq(Nodes) /\ stack \in Seq(Nodes) /\ vec \in Seq(Nodes)
        /\ \A n : LeftIn(n)' = LeftIn(n)
    BY NextGroupStep DEF Inv, TypeOK, DataTypes, NextGroup
  <1>2. /\ Edges' = Edges /\ \A e : Dst(e)' = Dst(e)
        /\ \A e, f : Siblings(e, f)' <=> Siblings(e, f)
    BY <1>1, SameSiblings DEF graph
  <1> SUFFICES ASSUME ~IsUseBFS
               PROVE  /\ queue' = << >> /\ fresh' = << >>
                      /\ \A e, f \in Edges' : Siblings(e, f)' => SiblingsPlaced(e, f)'
    BY <1>1 DEF InTurn, IsUseBFS
  <1>3. /\ queue' = << >> /\ fresh' = << >>
        /\ stack' = stack \o (IF reverse THEN Reverse(fresh) ELSE fresh)
    BY <1>1 DEF InTurn, NextGroup
  <1>4. PICK t \in Seq(Nodes) : t = (IF reverse THEN Reverse(fresh) ELSE fresh)
    BY <1>1, ReverseIsInjective
  <1>5. /\ Range(stack) \subseteq Range(stack')
        /\ \A x, y : Before(stack, x, y) => Before(stack', x, y)
        /\ \A x, y : Before(t, x, y) => Before(stack', x, y)
    <2>1. stack' = stack \o t
      BY <1>3, <1>4
    <2>2. \A x, y : /\ Before(stack, x, y) => Before(stack \o t, x, y)
                    /\ Before(t, x, y) => Before(stack \o t, x, y)
      BY <1>1, <1>4, BeforeInConcat
    <2>3. Range(stack \o t) = Range(stack) \cup Range(t)
      BY <1>1, <1>4, ConcatIsInjective
    <2> QED
      BY <2>1, <2>2, <2>3
  <1>6. ASSUME NEW x, NEW y, Placed(x, y)
        PROVE  Before(stack', y, x) \/ (x \in Range(vec') /\ y \in Range(stack')) \/ Before(vec', x, y)
    BY <1>1, <1>5, <1>6 DEF Placed
  <1>7. ASSUME NEW x, NEW y, Before(fresh, x, y)
        PROVE  /\ reverse => Before(stack', y, x)
               /\ ~reverse => Before(stack', x, y)
    <2>1. CASE reverse
      <3>1. Before(Reverse(fresh), y, x)
        BY <1>1, <1>7, BeforeInReverse
      <3> QED
        BY <1>4, <1>5, <2>1, <3>1
    <2>2. CASE ~reverse
      BY <1>4, <1>5, <1>7, <2>2
    <2> QED
      BY <2>1, <2>2
  <1>8. ASSUME NEW e \in Edges, NEW f \in Edges, Siblings(e, f)
        PROVE  SiblingsPlaced(e, f)'
    <2>1. SiblingsPlaced(e, f)
      BY <1>8 DEF InTurn
    <2>2. Dst(e)' = Dst(e) /\ Dst(f)' = Dst(f) /\ reverse' = reverse
      BY <1>1, <1>2
    <2>3. LeftIn(Dst(e))' = LeftIn(Dst(e)) /\ LeftIn(Dst(f))' = LeftIn(Dst(f))
      BY <1>1, <2>2 DEF LeftIn
    <2>4. ~(LeftIn(Dst(e)) = {} /\ LeftIn(Dst(f)) # {})
      <3>1. SUFFICES ASSUME LeftIn(Dst(e)) = {}, LeftIn(Dst(f)) # {} PROVE FALSE
        OBVIOUS
      <3>2. e[1] = Last(vec) /\ e[2] = group /\ pos <= f[3]
        BY <1>1, <1>8, <3>1, SiblingsLeft
      <3>3. e[1] \in Nodes /\ e[2] \in Groups /\ f[3] \in 1..Len(out[e[1]][e[2]])
        BY <1>1, <1>8, SiblingEdges
      <3>4. Len(out[e[1]][e[2]]) \in Nat /\ pos \in Nat
        BY <1>1, <3>3 DEF TypeOK, DataTypes
      <3> QED
        BY <1>1, <3>2, <3>3, <3>4
    <2>5. LeftIn(Dst(f)) = {} =>
            \/ reverse /\ Placed(Dst(e), Dst(f))'
            \/ ~reverse /\ Placed(Dst(f), Dst(e))'
      <3>1. LeftIn(Dst(f)) = {} =>
            \/ Before(fresh, Dst(e), Dst(f))
            \/ reverse /\ Placed(Dst(e), Dst(f))
            \/ ~reverse /\ Placed(Dst(f), Dst(e))
        BY <2>1 DEF SiblingsPlaced
      <3>2. /\ Placed(Dst(e), Dst(f)) => Placed(Dst(e), Dst(f))'
            /\ Placed(Dst(f), Dst(e)) => Placed(Dst(f), Dst(e))'
        BY <1>6, <2>2 DEF Placed
      <3>3. Before(fresh, Dst(e), Dst(f)) =>
              /\ reverse => Placed(Dst(e), Dst(f))'
              /\ ~reverse => Placed(Dst(f), Dst(e))'
        BY <1>7, <2>2 DEF Placed
      <3> QED
        BY <3>1, <3>2, <3>3
    <2> QED
      BY <2>2, <2>3, <2>4, <2>5 DEF SiblingsPlaced
  <1> QED
    BY <1>2, <1>3, <1>8

LEMMA InTurnEdgesDone ==
  ASSUME Inv, InTurn, EdgesDone
  PROVE  InTurn'
  <1>1. /\ TypeOK /\ Sorting /\ phase = "edges" /\ group \notin Groups /\ phase' = "loop"
        /\ queue' = Reverse(fresh) \o queue /\ fresh' = << >>
        /\ UNCHANGED <<graph, mode, reverse, stack, vec>>
        /\ \A n : LeftIn(n)' = LeftIn(n)
    BY EdgesDoneStep DEF Inv, EdgesDone
  <1>2. /\ Edges' = Edges /\ \A e : Dst(e)' = Dst(e)
        /\ \A e, f : Siblings(e, f)' <=> Siblings(e, f)
    BY <1>1, SameSiblings DEF graph
  <1> SUFFICES ASSUME ~IsUseBFS
               PROVE  /\ queue' = << >>
                      /\ \A e, f \in Edges' : Siblings(e, f)' => SiblingsPlaced(e, f)'
    BY <1>1 DEF InTurn, IsUseBFS
  <1>3. queue = << >> /\ fresh = << >>
    BY <1>1 DEF InTurn
  <1>4. queue' = << >>
    <2>1. Reverse(<< >>) = << >>
      BY DEF Reverse
    <2> QED
      BY <1>1, <1>3, <2>1
  <1>5. ASSUME NEW e \in Edges, NEW f \in Edges, Siblings(e, f)
        PROVE  SiblingsPlaced(e, f)'
    <2>1. SiblingsPlaced(e, f)
      BY <1>5 DEF InTurn
    <2>2. Dst(e)' = Dst(e) /\ Dst(f)' = Dst(f) /\ reverse' = reverse
      BY <1>1, <1>2
    <2>3. LeftIn(Dst(e))' = LeftIn(Dst(e)) /\ LeftIn(Dst(f))' = LeftIn(Dst(f))
      BY <1>1, <2>2 DEF LeftIn
    <2>4. ~(LeftIn(Dst(e)) = {} /\ LeftIn(Dst(f)) # {})
      <3>1. e[2] \in Groups
        BY <1>1, <1>5, SiblingEdges
      <3> QED
        BY <1>1, <1>5, <3>1, SiblingsLeft
    <2>5. /\ Placed(Dst(e), Dst(f))' <=> Placed(Dst(e), Dst(f))
          /\ Placed(Dst(f), Dst(e))' <=> Placed(Dst(f), Dst(e))
      BY <1>1, <2>2 DEF Placed
    <2>6. ~Before(fresh, Dst(e), Dst(f))
      BY <1>3, NothingBefore
    <2> QED
      BY <2>1, <2>2, <2>3, <2>4, <2>5, <2>6 DEF SiblingsPlaced
  <1> QED
    BY <1>2, <1>4, <1>5

(* A sort that succeeded numbers the nodes in the order it took them.        *)
LEMMA SiblingsNumbered ==
  ASSUME Inv, InTurn, Finish, result' = "sorted", ~IsUseBFS,
         NEW e \in Edges, NEW f \in Edges, Siblings(e, f)
  PROVE  reverse <=> id'[Dst(e)] < id'[Dst(f)]
  <1>1. /\ TypeOK /\ NodeListIntact /\ Sorting /\ phase = "loop" /\ stack = << >> /\ fresh = << >>
        /\ vec \in Seq(Nodes) /\ IsInjective(vec) /\ reverse \in BOOLEAN
    BY DEF Inv, Finish, Sorting, Distinct, TypeOK, DataTypes
  <1>2. Len(vec) = Len(nodes) /\ id' = Numbered(id, vec)
    BY DEF Finish, Return, AllVisited
  <1>3. IsPermutation(vec)
    BY <1>1, <1>2, AllVisitedIsPermutation
  <1>4. Dst(e) \in Nodes /\ Dst(f) \in Nodes /\ e[1] \in Nodes
    BY <1>1, SiblingEdges
  <1>5. LeftIn(Dst(f)) = {}
    <2>1. e[1] \in Range(vec) /\ phase # "edges"
      BY <1>1, <1>3, <1>4 DEF IsPermutation
    <2>2. ~LeftEdge(f) /\ In(Dst(f)) = {f}
      BY <2>1 DEF LeftEdge, Siblings
    <2> QED
      BY <2>2 DEF LeftIn
  <1>6. \/ reverse /\ Placed(Dst(e), Dst(f))
        \/ ~reverse /\ Placed(Dst(f), Dst(e))
    <2>1. SiblingsPlaced(e, f) /\ ~Before(fresh, Dst(e), Dst(f))
      BY <1>1, NothingBefore DEF InTurn
    <2> QED
      BY <1>5, <2>1 DEF SiblingsPlaced
  <1>7. ASSUME NEW x, NEW y, Placed(x, y) PROVE id'[x] < id'[y]
    <2>1. Before(vec, x, y)
      <3>1. ~Before(stack, y, x)
        BY <1>1, NothingBefore
      <3>2. y \notin Range(stack)
        BY <1>1, EmptyIsInjective
      <3> QED
        BY <1>7, <3>1, <3>2 DEF Placed
    <2>2. PICK k \in 1..Len(vec), l \in 1..Len(vec) : k < l /\ vec[k] = x /\ vec[l] = y
      BY <2>1 DEF Before
    <2>3. id'[vec[k]] = k - 1 /\ id'[vec[l]] = l - 1
      BY <1>2, <1>3, <2>2, NumberedIsIndex
    <2> QED
      BY <1>1, <2>2, <2>3
  <1>8. id'[Dst(e)] \in Int /\ id'[Dst(f)] \in Int
    BY <1>2, <1>3, <1>4, NumberedIsIndex
  <1>9. CASE reverse
    BY <1>6, <1>7, <1>9
  <1>10. CASE ~reverse
    <2>1. id'[Dst(f)] < id'[Dst(e)]
      BY <1>6, <1>7, <1>10
    <2> QED
      BY <1>8, <1>10, <2>1
  <1> QED
    BY <1>9, <1>10

(* The invariant of the whole: what has been sorted, and what a sort has     *)
(* done so far.                                                              *)
OrderKept ==
  /\ LoopsEnterFirst
  /\ phase \in {"swap", "loop", "edges"} => Loops /\ InTurn

LEMMA EnteredKept ==
  ASSUME LoopsEnterFirst, UNCHANGED graph
  PROVE  LoopsEnterFirst'
  <1>1. /\ Edges' = Edges /\ \A e : Dst(e)' = Dst(e)
        /\ \A n : In(n)' = In(n) /\ Broken(n)' = Broken(n)
    BY SameSiblings, OutUnchanged DEF graph
  <1>2. \A n : Downstream(n)' = Downstream(n)
    BY <1>1 DEF Downstream
  <1> QED
    BY <1>1, <1>2 DEF LoopsEnterFirst, graph

LEMMA OrderStarts ==
  ASSUME Init
  PROVE  OrderKept
  BY DEF Init, Idle, OrderKept, LoopsEnterFirst

LEMMA OrderStep ==
  ASSUME Inv, OrderKept, [Next]_vars
  PROVE  OrderKept'
  <1>1. CASE \E src, dst \in Nodes, g \in Groups : AddEdge(src, g, dst)
    BY <1>1 DEF AddEdge, OrderKept, LoopsEnterFirst
  <1>2. CASE \E m \in RunModes, rev \in BOOLEAN : TopologicalSortingGraph(m, rev)
    <2>1. UNCHANGED graph /\ phase' = "collect"
      BY <1>2 DEF TopologicalSortingGraph
    <2> QED
      BY <2>1, EnteredKept DEF OrderKept
  <1>3. CASE CollectSource
    <2>1. CASE UNCHANGED graph /\ phase' = "collect"
      BY <2>1, EnteredKept DEF OrderKept
    <2>2. CASE result' = "isolated" /\ phase' = "idle"
      BY <2>2 DEF OrderKept, LoopsEnterFirst
    <2> QED
      BY <1>3, <2>1, <2>2 DEF CollectSource, Return
  <1>4. CASE CollectDone
    <2>1. UNCHANGED graph /\ phase' = "swap" /\ UNCHANGED <<vec, queue>> /\ Collecting
      BY <1>4 DEF CollectDone, Inv
    <2>2. TypeOK' /\ vec' = << >> /\ queue' = << >>
      BY <1>4, <2>1, CollectDoneStep DEF Inv, Collecting
    <2> QED
      BY <1>4, <2>1, <2>2, EnteredKept, LoopsStart, InTurnBefore DEF OrderKept
  <1>5. CASE EnterI \/ CompareJ \/ LeaveI \/ SwapDone
    <2>1. /\ UNCHANGED <<graph, vec, queue>> /\ phase = "swap" /\ phase' \in {"swap", "loop"}
      BY <1>5 DEF EnterI, CompareJ, LeaveI, SwapDone
    <2>2. Inv' /\ Taken' = Taken /\ \A n : LeftIn(n)' = LeftIn(n)
      BY <1>5, SwapSteps
    <2>3. TypeOK' /\ vec' = << >> /\ queue' = << >>
      BY <2>1, <2>2 DEF Inv, Sorting
    <2>4. Loops'
      BY <2>1, <2>2, LoopsKept DEF OrderKept
    <2> QED
      BY <2>1, <2>3, <2>4, EnteredKept, InTurnBefore DEF OrderKept
  <1>6. CASE Visit
    <2>1. UNCHANGED graph /\ phase = "loop"
      BY <1>6 DEF Visit
    <2> QED
      BY <1>6, <2>1, EnteredKept, LoopsVisit, InTurnVisit DEF OrderKept
  <1>7. CASE FollowEdge
    <2>1. UNCHANGED graph /\ phase = "edges"
      BY <1>7 DEF FollowEdge
    <2> QED
      BY <1>7, <2>1, EnteredKept, LoopsFollow, InTurnFollow DEF OrderKept
  <1>8. CASE NextGroup
    <2>1. UNCHANGED <<graph, vec>> /\ phase = "edges"
      BY <1>8 DEF NextGroup
    <2>2. Taken' = Taken /\ \A n : LeftIn(n)' = LeftIn(n)
      BY <1>8, NextGroupStep
    <2> QED
      BY <1>8, <2>1, <2>2, EnteredKept, LoopsKept, InTurnNextGroup DEF OrderKept
  <1>9. CASE EdgesDone
    <2>1. UNCHANGED <<graph, vec>> /\ phase = "edges"
      BY <1>9 DEF EdgesDone
    <2>2. Taken' = Taken /\ \A n : LeftIn(n)' = LeftIn(n)
      BY <1>9, EdgesDoneStep
    <2> QED
      BY <1>9, <2>1, <2>2, EnteredKept, LoopsKept, InTurnEdgesDone DEF OrderKept
  <1>10. CASE Finish
    <2>1. phase = "loop" /\ phase' = "idle"
      BY <1>10 DEF Finish, Return
    <2> QED
      BY <1>10, <2>1, LoopsFinish DEF OrderKept
  <1>11. CASE UNCHANGED vars
    <2>1. UNCHANGED <<graph, vec, phase, queue, fresh, stack, mode, reverse, group, pos>>
      BY <1>11 DEF vars, graph
    <2>2. LoopsEnterFirst'
      BY <2>1, EnteredKept DEF OrderKept
    <2>3. /\ Edges' = Edges /\ \A e : Dst(e)' = Dst(e)
          /\ \A e, f : Siblings(e, f)' <=> Siblings(e, f)
      BY <2>1, SameSiblings DEF graph
    <2>4. \A n : In(n)' = In(n) /\ Broken(n)' = Broken(n)
      BY <2>1, OutUnchanged DEF graph
    <2>5. Taken' = Taken
      BY <2>1 DEF Taken
    <2>6. \A e : LeftEdge(e)' <=> LeftEdge(e)
      BY <2>1 DEF LeftEdge
    <2>7. \A n : LeftIn(n)' = LeftIn(n)
      BY <2>4, <2>6 DEF LeftIn
    <2>8. Loops => Loops'
      BY <2>1, <2>5, <2>7, LoopsKept
    <2>9. InTurn => InTurn'
      <3>1. \A x, y : Placed(x, y)' <=> Placed(x, y)
        BY <2>1 DEF Placed
      <3>2. ASSUME NEW e, NEW f PROVE SiblingsPlaced(e, f)' <=> SiblingsPlaced(e, f)
        <4>1. Dst(e)' = Dst(e) /\ Dst(f)' = Dst(f)
          BY <2>3
        <4>2. LeftIn(Dst(e))' = LeftIn(Dst(e)) /\ LeftIn(Dst(f))' = LeftIn(Dst(f))
          BY <2>4, <2>6, <4>1 DEF LeftIn
        <4>3. /\ Placed(Dst(e), Dst(f))' <=> Placed(Dst(e), Dst(f))
              /\ Placed(Dst(f), Dst(e))' <=> Placed(Dst(f), Dst(e))
          BY <2>1, <4>1 DEF Placed
        <4> QED
          BY <2>1, <4>1, <4>2, <4>3 DEF SiblingsPlaced
      <3> QED
        BY <2>1, <2>3, <3>2 DEF InTurn, IsUseBFS
    <2> QED
      BY <2>1, <2>2, <2>8, <2>9 DEF OrderKept
  <1> QED
    BY <1>1, <1>2, <1>3, <1>4, <1>5, <1>6, <1>7, <1>8, <1>9, <1>10, <1>11 DEF Next, SortStep

-----------------------------------------------------------------------------
(* For every graph, list of nodes, run mode and width of the counters the   *)
(* variables of the sort keep their types; in particular the in-edge        *)
(* counters, decremented below zero by the edges of a NextIteration, stay   *)
(* in the range of their type.                                              *)
THEOREM TypeCorrect == Spec => []TypeOK
  <1>1. Inv => TypeOK
    BY DEF Inv
  <1> QED
    BY <1>1, InvAlways, PTL

(* TopologicalSortingGraph never loses or doubles a node of the list,       *)
(* whether it succeeds or fails.                                            *)
THEOREM NodeListIntactAlways == Spec => []NodeListIntact
  <1>1. Inv => NodeListIntact
    BY DEF Inv
  <1> QED
    BY <1>1, InvAlways, PTL

(* After a sort that succeeds, a node which no NextIteration feeds has a    *)
(* larger id than all its producers, in both traversals.                    *)
THEOREM ProducersFirstAlways == Spec => []ProducersFirst
  <1>1. Inv => ProducersFirst
    BY DEF Inv
  <1> QED
    BY <1>1, InvAlways, PTL

(* When the names differ, a sort that reports a closed loop is right: some  *)
(* nodes wait for each other through edges that GetInEdgeSize counts.       *)
THEOREM LoopIsRealAlways == Spec => []LoopIsReal
  <1>1. Inv => LoopIsReal
    BY DEF Inv
  <1> QED
    BY <1>1, InvAlways, PTL

(* The order of a sort beyond what the links ask.  Where every NextIteration *)
(* lies downstream of the node it feeds, a node comes after all its          *)
(* producers but the broken ones; and of two nodes that wait for one         *)
(* producer alone, through one list of peers, the DFS takes the one          *)
(* connected last first, and with dfs_reverse the one connected first.       *)
THEOREM OrderIsAsDocumentedAlways == Spec => OrderIsAsDocumented
  <1>1. Init => Inv /\ OrderKept
    BY InitInv, OrderStarts
  <1>2. Inv /\ OrderKept /\ [Next]_vars => Inv' /\ OrderKept'
    BY NextInv, OrderStep
  <1>3. OrderKept => LoopsEnterFirst
    BY DEF OrderKept
  <1>4. ASSUME Inv, OrderKept, [Next]_vars
        PROVE  Finish /\ result' = "sorted" /\ ~IsUseBFS =>
                 \A e, f \in Edges :
                   /\ e[1] = f[1] /\ e[2] = f[2] /\ e[3] < f[3]
                   /\ In(Dst(e)) = {e} /\ In(Dst(f)) = {f}
                   /\ Broken(Dst(e)) = {} /\ Broken(Dst(f)) = {}
                   => (reverse <=> id'[Dst(e)] < id'[Dst(f)])
    <2> SUFFICES ASSUME Finish, result' = "sorted", ~IsUseBFS,
                        NEW e \in Edges, NEW f \in Edges, Siblings(e, f)
                 PROVE  reverse <=> id'[Dst(e)] < id'[Dst(f)]
      BY DEF Siblings
    <2>1. InTurn
      BY <1>4 DEF OrderKept, Finish
    <2> QED
      BY <1>4, <2>1, SiblingsNumbered
  <1> QED
    BY <1>1, <1>2, <1>3, <1>4, PTL DEF Spec, OrderIsAsDocumented, SiblingOrder
=============================================================================
