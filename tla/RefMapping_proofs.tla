-------------------------- MODULE RefMapping_proofs --------------------------
(***************************************************************************)
(* For every graph: the two maps of GetRefMapping agree at every moment,   *)
(* no lookup in them misses, no class is larger than the references of the *)
(* graph make it, and when the call succeeds, as it does for every sorted  *)
(* graph, none is smaller.                                                 *)
(***************************************************************************)
EXTENDS RefMapping, WellFoundedInduction, TLAPS

MapType == [lists : [Anchor -> Seq(Anchor)], sym : [Anchor -> Anchor \cup {NoAnchor}]]

\* MapsAgree, of any pair of maps.
AgreeAt(m, s) ==
  /\ Members(m, s) = {x \in Anchor : m.sym[x] = s}
  /\ \A j, k \in DOMAIN m.lists[s] : m.lists[s][j] = m.lists[s][k] => j = k
  /\ m.lists[s] # <<>> => m.sym[s] = s
Agree(m) == \A s \in Anchor : AgreeAt(m, s)

Elems(q) == {q[k] : k \in DOMAIN q}
Once(q) == \A j, k \in DOMAIN q : q[j] = q[k] => j = k

(***************************************************************************)
(* The operations on the maps.                                             *)
(***************************************************************************)
\* The members of a list after emplace_back.
LEMMA AppendFacts ==
  ASSUME NEW S, NEW q \in Seq(S), NEW x \in S
  PROVE  /\ Append(q, x) \in Seq(S)
         /\ Append(q, x) # <<>>
         /\ Elems(Append(q, x)) = Elems(q) \cup {x}
         /\ (x \notin Elems(q) /\ Once(q)) => Once(Append(q, x))
<1> DEFINE c == Append(q, x)
<1>1. /\ c \in Seq(S) /\ Len(c) = Len(q) + 1 /\ c[Len(q) + 1] = x
      /\ \A k \in 1 .. Len(q) : c[k] = q[k]
  OBVIOUS
<1>2. DOMAIN q = 1 .. Len(q) /\ DOMAIN c = 1 .. Len(q) + 1 /\ Len(q) \in Nat
  BY <1>1
<1> HIDE DEF c
<1>3. ASSUME NEW k \in DOMAIN c
      PROVE  \/ k \in DOMAIN q /\ c[k] = q[k]
             \/ k = Len(q) + 1 /\ c[k] = x
  BY <1>1, <1>2
<1>4. {c[k] : k \in DOMAIN c} = {q[k] : k \in DOMAIN q} \cup {x}
  <2>1. ASSUME NEW k \in DOMAIN q
        PROVE  k \in DOMAIN c /\ c[k] = q[k]
    BY <1>1, <1>2
  <2>2. Len(q) + 1 \in DOMAIN c /\ c[Len(q) + 1] = x
    BY <1>1, <1>2
  <2>3. {c[k] : k \in DOMAIN c} \subseteq {q[k] : k \in DOMAIN q} \cup {x}
    BY <1>3
  <2> QED BY <2>1, <2>2, <2>3
<1>5. ASSUME x \notin {q[k] : k \in DOMAIN q}, \A j, k \in DOMAIN q : q[j] = q[k] => j = k,
             NEW j \in DOMAIN c, NEW k \in DOMAIN c, c[j] = c[k]
      PROVE  j = k
  BY <1>3, <1>5
<1>6. c # <<>>
  BY <1>1, <1>2
<1> QED BY <1>1, <1>4, <1>5, <1>6 DEF c, Elems, Once

\* The members of two lists that are put together.
LEMMA ConcatFacts ==
  ASSUME NEW S, NEW q \in Seq(S), NEW r \in Seq(S)
  PROVE  /\ q \o r \in Seq(S)
         /\ q # <<>> => q \o r # <<>>
         /\ Elems(q \o r) = Elems(q) \cup Elems(r)
         /\ (Elems(q) \cap Elems(r) = {} /\ Once(q) /\ Once(r)) => Once(q \o r)
<1> DEFINE c == q \o r
<1>1. /\ c \in Seq(S) /\ Len(c) = Len(q) + Len(r)
      /\ \A k \in 1 .. Len(q) : c[k] = q[k]
      /\ \A k \in 1 .. Len(r) : c[Len(q) + k] = r[k]
  OBVIOUS
<1>2. DOMAIN q = 1 .. Len(q) /\ DOMAIN r = 1 .. Len(r) /\ DOMAIN c = 1 .. Len(q) + Len(r)
      /\ Len(q) \in Nat /\ Len(r) \in Nat
  BY <1>1
<1> HIDE DEF c
<1>3. ASSUME NEW k \in DOMAIN c
      PROVE  \/ k \in DOMAIN q /\ c[k] = q[k]
             \/ k - Len(q) \in DOMAIN r /\ c[k] = r[k - Len(q)] /\ k > Len(q)
  <2>1. CASE k <= Len(q)
    BY <1>1, <1>2, <2>1
  <2>2. CASE k > Len(q)
    <3>1. k - Len(q) \in 1 .. Len(r) /\ k = Len(q) + (k - Len(q))
      BY <1>2, <2>2
    <3> QED BY <1>1, <1>2, <2>2, <3>1
  <2> QED BY <1>2, <2>1, <2>2
<1>4. {c[k] : k \in DOMAIN c} = {q[k] : k \in DOMAIN q} \cup {r[k] : k \in DOMAIN r}
  <2>1. ASSUME NEW k \in DOMAIN q
        PROVE  k \in DOMAIN c /\ c[k] = q[k]
    BY <1>1, <1>2
  <2>2. ASSUME NEW k \in DOMAIN r
        PROVE  Len(q) + k \in DOMAIN c /\ c[Len(q) + k] = r[k]
    BY <1>1, <1>2
  <2>3. {c[k] : k \in DOMAIN c} \subseteq {q[k] : k \in DOMAIN q} \cup {r[k] : k \in DOMAIN r}
    BY <1>3
  <2> QED BY <2>1, <2>2, <2>3
<1>5. ASSUME {q[k] : k \in DOMAIN q} \cap {r[k] : k \in DOMAIN r} = {},
             \A j, k \in DOMAIN q : q[j] = q[k] => j = k,
             \A j, k \in DOMAIN r : r[j] = r[k] => j = k,
             NEW j \in DOMAIN c, NEW k \in DOMAIN c, c[j] = c[k]
      PROVE  j = k
  <2>1. CASE j \in DOMAIN q /\ c[j] = q[j] /\ k \in DOMAIN q /\ c[k] = q[k]
    BY <1>5, <2>1
  <2>2. CASE /\ j - Len(q) \in DOMAIN r /\ c[j] = r[j - Len(q)]
             /\ k - Len(q) \in DOMAIN r /\ c[k] = r[k - Len(q)]
    <3>1. j - Len(q) = k - Len(q)
      BY <1>5, <2>2
    <3> QED BY <1>2, <3>1
  <2> QED BY <1>3, <1>5, <2>1, <2>2
<1>6. q # <<>> => c # <<>>
  BY <1>1, <1>2
<1> QED BY <1>1, <1>4, <1>5, <1>6 DEF c, Elems, Once
\* UpdateRefMapping and the like: a new anchor joins a class.
LEMMA AddFacts ==
  ASSUME NEW m \in MapType, Agree(m), NEW x \in Anchor, m.sym[x] = NoAnchor,
         NEW s \in Anchor, m.sym[s] = s
  PROVE  /\ Add(m, x, s) \in MapType
         /\ Agree(Add(m, x, s))
         /\ Add(m, x, s).sym = [m.sym EXCEPT ![x] = s]
         /\ Members(Add(m, x, s), s) = Members(m, s) \cup {x}
         /\ \A t \in Anchor \ {s} : Members(Add(m, x, s), t) = Members(m, t)
<1> DEFINE n == Add(m, x, s)
<1>1. /\ m.lists \in [Anchor -> Seq(Anchor)]
      /\ m.sym \in [Anchor -> Anchor \cup {NoAnchor}]
      /\ m.lists[s] \in Seq(Anchor)
  BY DEF MapType
<1>2. n.lists = [m.lists EXCEPT ![s] = Append(m.lists[s], x)] /\ n.sym = [m.sym EXCEPT ![x] = s]
  BY <1>1 DEF Add
<1>3. n \in MapType
  <2>1. n = [lists |-> n.lists, sym |-> n.sym]
    BY DEF Add
  <2>2. Append(m.lists[s], x) \in Seq(Anchor)
    BY <1>1, AppendFacts
  <2>3. n.lists \in [Anchor -> Seq(Anchor)] /\ n.sym \in [Anchor -> Anchor \cup {NoAnchor}]
    BY <1>1, <1>2, <2>2
  <2> HIDE DEF n
  <2> QED BY <2>1, <2>3 DEF MapType
<1> HIDE DEF n
<1>4. Members(n, s) = Members(m, s) \cup {x}
  <2>1. n.lists[s] = Append(m.lists[s], x)
    BY <1>1, <1>2
  <2>2. Elems(n.lists[s]) = Elems(m.lists[s]) \cup {x}
    BY <1>1, <2>1, AppendFacts
  <2> QED BY <2>2 DEF Members, Elems
<1>5. \A t \in Anchor \ {s} : n.lists[t] = m.lists[t] /\ Members(n, t) = Members(m, t)
  BY <1>1, <1>2 DEF Members
<1>6. \A t \in Anchor : NoAnchor # t
  BY IndexAssumption
<1>7. ASSUME NEW t \in Anchor PROVE AgreeAt(n, t)
  <2>1. AgreeAt(m, t)
    BY DEF Agree
  <2>2. CASE t = s
    <3>1. Members(n, t) = {y \in Anchor : n.sym[y] = t}
      BY <1>1, <1>2, <1>4, <1>6, <2>1, <2>2 DEF AgreeAt
    <3>2. x \notin Members(m, s)
      BY <1>6, <2>1, <2>2 DEF AgreeAt
    <3>3. \A j, k \in DOMAIN n.lists[t] : n.lists[t][j] = n.lists[t][k] => j = k
      <4>1. n.lists[t] = Append(m.lists[s], x)
        BY <1>1, <1>2, <2>2
      <4>2. Once(m.lists[s]) /\ x \notin Elems(m.lists[s])
        BY <2>1, <2>2, <3>2 DEF AgreeAt, Members, Once, Elems
      <4>3. Once(n.lists[t])
        BY <1>1, <4>1, <4>2, AppendFacts
      <4> QED BY <4>3 DEF Once
    <3>4. n.sym[t] = t
      BY <1>1, <1>2, <2>2
    <3> QED BY <3>1, <3>3, <3>4 DEF AgreeAt
  <2>3. CASE t # s
    <3>1. Members(n, t) = {y \in Anchor : n.sym[y] = t}
      BY <1>1, <1>2, <1>5, <1>6, <2>1, <2>3 DEF AgreeAt
    <3>2. n.lists[t] # <<>> => n.sym[t] = t
      BY <1>1, <1>2, <1>5, <1>6, <2>1, <2>3 DEF AgreeAt
    <3>3. \A j, k \in DOMAIN n.lists[t] : n.lists[t][j] = n.lists[t][k] => j = k
      BY <1>5, <2>1, <2>3 DEF AgreeAt
    <3> QED BY <3>1, <3>2, <3>3 DEF AgreeAt
  <2> QED BY <2>2, <2>3
<1> QED BY <1>2, <1>3, <1>4, <1>5, <1>7 DEF n, Agree

\* An anchor without a symbol gets a class of its own; emplace and
\* assignment do the same.
LEMMA AloneFacts ==
  ASSUME NEW m \in MapType, Agree(m), NEW x \in Anchor, m.sym[x] = NoAnchor
  PROVE  /\ EmplaceAlone(m, x) = AddAlone(m, x)
         /\ AddAlone(m, x) \in MapType
         /\ Agree(AddAlone(m, x))
         /\ AddAlone(m, x).sym = [m.sym EXCEPT ![x] = x]
         /\ Members(AddAlone(m, x), x) = {x}
         /\ \A t \in Anchor \ {x} : Members(AddAlone(m, x), t) = Members(m, t)
<1> DEFINE n == AddAlone(m, x)
<1>1. /\ m.lists \in [Anchor -> Seq(Anchor)]
      /\ m.sym \in [Anchor -> Anchor \cup {NoAnchor}]
  BY DEF MapType
<1>2. n.lists = [m.lists EXCEPT ![x] = <<x>>] /\ n.sym = [m.sym EXCEPT ![x] = x]
  BY <1>1 DEF AddAlone
<1>3. \A t \in Anchor : NoAnchor # t
  BY IndexAssumption
<1>4. m.lists[x] = <<>>
  BY <1>3 DEF Agree, AgreeAt
<1>5. EmplaceAlone(m, x) = n
  BY <1>1, <1>4 DEF EmplaceAlone, AddAlone
<1>6. n \in MapType
  <2>1. n = [lists |-> n.lists, sym |-> n.sym]
    BY DEF AddAlone
  <2>2. <<x>> \in Seq(Anchor)
    OBVIOUS
  <2>3. n.lists \in [Anchor -> Seq(Anchor)] /\ n.sym \in [Anchor -> Anchor \cup {NoAnchor}]
    BY <1>1, <1>2, <2>2
  <2> HIDE DEF n
  <2> QED BY <2>1, <2>3 DEF MapType
<1> HIDE DEF n
<1>7. n.lists[x] = <<x>> /\ n.sym[x] = x
  BY <1>1, <1>2
<1>8. DOMAIN n.lists[x] = {1} /\ n.lists[x][1] = x
  BY <1>7
<1>9. Members(n, x) = {x}
  BY <1>8 DEF Members
<1>10. \A t \in Anchor \ {x} : n.lists[t] = m.lists[t] /\ Members(n, t) = Members(m, t)
  BY <1>1, <1>2 DEF Members
<1>11. ASSUME NEW t \in Anchor PROVE AgreeAt(n, t)
  <2>1. AgreeAt(m, t) /\ AgreeAt(m, x)
    BY DEF Agree
  <2>2. CASE t = x
    <3>1. {y \in Anchor : m.sym[y] = x} = {}
      <4>1. Members(m, x) = {}
        BY <1>4 DEF Members
      <4> QED BY <2>1, <4>1 DEF AgreeAt
    <3>2. Members(n, t) = {y \in Anchor : n.sym[y] = t}
      BY <1>1, <1>2, <1>9, <2>2, <3>1
    <3> QED BY <1>7, <1>8, <2>2, <3>2 DEF AgreeAt
  <2>3. CASE t # x
    <3>1. Members(n, t) = {y \in Anchor : n.sym[y] = t}
      BY <1>1, <1>2, <1>3, <1>10, <2>1, <2>3 DEF AgreeAt
    <3>2. n.lists[t] # <<>> => n.sym[t] = t
      BY <1>1, <1>2, <1>10, <2>1, <2>3 DEF AgreeAt
    <3>3. \A j, k \in DOMAIN n.lists[t] : n.lists[t][j] = n.lists[t][k] => j = k
      BY <1>10, <2>1, <2>3 DEF AgreeAt
    <3> QED BY <3>1, <3>2, <3>3 DEF AgreeAt
  <2> QED BY <2>2, <2>3
<1> QED BY <1>2, <1>5, <1>6, <1>9, <1>10, <1>11 DEF n, Agree
\* Two different classes become one.
LEMMA RelabelFacts ==
  ASSUME NEW m \in MapType, Agree(m), NEW s \in Anchor, NEW t \in Anchor, s # t,
         m.sym[s] = s
  PROVE  /\ Relabel(m, s, t) \in MapType
         /\ Agree(Relabel(m, s, t))
         /\ \A x \in Anchor : Relabel(m, s, t).sym[x] = IF m.sym[x] = t THEN s ELSE m.sym[x]
         /\ Members(Relabel(m, s, t), s) = Members(m, s) \cup Members(m, t)
         /\ Members(Relabel(m, s, t), t) = {}
         /\ \A r \in Anchor \ {s, t} : Members(Relabel(m, s, t), r) = Members(m, r)
<1> DEFINE n == Relabel(m, s, t)
<1>1. /\ m.lists \in [Anchor -> Seq(Anchor)]
      /\ m.sym \in [Anchor -> Anchor \cup {NoAnchor}]
      /\ m.lists[s] \in Seq(Anchor) /\ m.lists[t] \in Seq(Anchor)
  BY DEF MapType
<1>2. /\ AgreeAt(m, s) /\ AgreeAt(m, t)
      /\ Members(m, t) = {x \in Anchor : m.sym[x] = t}
      /\ Members(m, s) = {x \in Anchor : m.sym[x] = s}
  BY DEF Agree, AgreeAt
<1>3. /\ n.lists = [m.lists EXCEPT ![s] = m.lists[s] \o m.lists[t], ![t] = <<>>]
      /\ n.sym = [x \in Anchor |-> IF x \in Members(m, t) THEN s ELSE m.sym[x]]
  BY <1>1 DEF Relabel
<1>4. \A x \in Anchor : n.sym[x] = IF m.sym[x] = t THEN s ELSE m.sym[x]
  BY <1>2, <1>3
<1>5. n \in MapType
  <2>1. n = [lists |-> n.lists, sym |-> n.sym]
    BY DEF Relabel
  <2>2. m.lists[s] \o m.lists[t] \in Seq(Anchor) /\ <<>> \in Seq(Anchor)
    BY <1>1, ConcatFacts
  <2>3. n.lists \in [Anchor -> Seq(Anchor)]
    BY <1>1, <1>3, <2>2
  <2>4. n.sym \in [Anchor -> Anchor \cup {NoAnchor}]
    BY <1>1, <1>3
  <2> HIDE DEF n
  <2> QED BY <2>1, <2>3, <2>4 DEF MapType
<1> HIDE DEF n
<1>6. /\ n.lists[s] = m.lists[s] \o m.lists[t] /\ n.lists[t] = <<>>
      /\ \A r \in Anchor \ {s, t} : n.lists[r] = m.lists[r]
  BY <1>1, <1>3
<1>7. Members(n, s) = Members(m, s) \cup Members(m, t)
  <2>1. Elems(n.lists[s]) = Elems(m.lists[s]) \cup Elems(m.lists[t])
    BY <1>1, <1>6, ConcatFacts
  <2> QED BY <2>1 DEF Members, Elems
<1>8. Members(n, t) = {}
  BY <1>6 DEF Members
<1>9. \A r \in Anchor \ {s, t} : Members(n, r) = Members(m, r)
  BY <1>6 DEF Members
<1>10. ASSUME NEW r \in Anchor PROVE AgreeAt(n, r)
  <2>1. AgreeAt(m, r)
    BY DEF Agree
  <2>2. CASE r = s
    <3>1. Members(n, r) = {x \in Anchor : n.sym[x] = r}
      BY <1>2, <1>4, <1>7, <2>2
    <3>2. Members(m, s) \cap Members(m, t) = {}
      BY <1>2
    <3>3. \A j, k \in DOMAIN n.lists[r] : n.lists[r][j] = n.lists[r][k] => j = k
      <4>1. Once(m.lists[s]) /\ Once(m.lists[t])
        BY <1>2 DEF AgreeAt, Once
      <4>2. Elems(m.lists[s]) \cap Elems(m.lists[t]) = {}
        BY <3>2 DEF Members, Elems
      <4>3. Once(m.lists[s] \o m.lists[t])
        BY <1>1, <4>1, <4>2, ConcatFacts
      <4> QED BY <1>6, <2>2, <4>3 DEF Once
    <3>4. n.sym[r] = r
      BY <1>4, <2>2
    <3> QED BY <3>1, <3>3, <3>4 DEF AgreeAt
  <2>3. CASE r = t
    <3>1. {x \in Anchor : n.sym[x] = t} = {}
      BY <1>4
    <3> QED BY <1>6, <1>8, <2>3, <3>1 DEF AgreeAt
  <2>4. CASE r # s /\ r # t
    <3>1. Members(n, r) = {x \in Anchor : n.sym[x] = r}
      BY <1>4, <1>9, <2>1, <2>4 DEF AgreeAt
    <3>2. n.lists[r] # <<>> => n.sym[r] = r
      BY <1>4, <1>6, <2>1, <2>4 DEF AgreeAt
    <3>3. \A j, k \in DOMAIN n.lists[r] : n.lists[r][j] = n.lists[r][k] => j = k
      BY <1>6, <2>1, <2>4 DEF AgreeAt
    <3> QED BY <3>1, <3>2, <3>3 DEF AgreeAt
  <2> QED BY <2>2, <2>3, <2>4
<1> QED BY <1>4, <1>5, <1>7, <1>8, <1>9, <1>10 DEF n, Agree

(***************************************************************************)
(* Classes that references hold together.                                  *)
(***************************************************************************)
\* One anchor cannot be cut.
LEMMA HeldAlone ==
  ASSUME NEW x, NEW R
  PROVE  HeldTogether({x}, R) /\ HeldTogether({}, R)
BY DEF HeldTogether

\* A reference between two sets holds their union together.
LEMMA HeldUnion ==
  ASSUME NEW C, NEW D, NEW R, HeldTogether(C, R), HeldTogether(D, R),
         NEW x \in C, NEW y \in D, <<x, y>> \in R \/ <<y, x>> \in R
  PROVE  HeldTogether(C \cup D, R)
<1> DEFINE U == C \cup D
           W == R \cap (U \X U)
<1> SUFFICES ASSUME NEW S \in (SUBSET U) \ {{}, U}
             PROVE  \E r \in W : (r[1] \in S) # (r[2] \in S)
  BY DEF HeldTogether
<1>1. CASE S \cap C \notin {{}, C}
  <2>1. PICK r \in R \cap (C \X C) : (r[1] \in S \cap C) # (r[2] \in S \cap C)
    BY <1>1 DEF HeldTogether
  <2>2. r[1] \in C /\ r[2] \in C /\ r \in W
    BY <2>1
  <2> QED BY <2>1, <2>2
<1>2. CASE S \cap D \notin {{}, D}
  <2>1. PICK r \in R \cap (D \X D) : (r[1] \in S \cap D) # (r[2] \in S \cap D)
    BY <1>2 DEF HeldTogether
  <2>2. r[1] \in D /\ r[2] \in D /\ r \in W
    BY <2>1
  <2> QED BY <2>1, <2>2
<1>3. CASE S \cap C \in {{}, C} /\ S \cap D \in {{}, D}
  <2>1. (x \in S) # (y \in S)
    <3>1. S \cap C = C => S \cap D # D
      OBVIOUS
    <3>2. S \cap C = {} => S \cap D # {}
      OBVIOUS
    <3>3. (S \cap C = C => x \in S) /\ (S \cap C = {} => x \notin S)
      OBVIOUS
    <3>4. (S \cap D = D => y \in S) /\ (S \cap D = {} => y \notin S)
      OBVIOUS
    <3> QED BY <1>3, <3>1, <3>2, <3>3, <3>4
  <2>2. CASE <<x, y>> \in R
    <3>1. <<x, y>> \in W /\ <<x, y>>[1] = x /\ <<x, y>>[2] = y
      BY <2>2
    <3> QED BY <2>1, <3>1
  <2>3. CASE <<y, x>> \in R
    <3>1. <<y, x>> \in W /\ <<y, x>>[1] = y /\ <<y, x>>[2] = x
      BY <2>3
    <3> QED BY <2>1, <3>1
  <2> QED BY <2>2, <2>3
<1> QED BY <1>1, <1>2, <1>3
(***************************************************************************)
(* Maps that agree and whose classes are held together.                    *)
(***************************************************************************)
Good(m, R) ==
  m \in MapType /\ Agree(m) /\ \A s \in Anchor : HeldTogether(Members(m, s), R)
InUse(m) == {x \in Anchor : m.sym[x] # NoAnchor}

\* The symbol of an anchor is an anchor of the class, and names it.
LEMMA SymbolFacts ==
  ASSUME NEW m \in MapType, Agree(m), NEW x \in Anchor, m.sym[x] # NoAnchor
  PROVE  /\ m.sym[x] \in Anchor
         /\ x \in Members(m, m.sym[x])
         /\ m.lists[m.sym[x]] # <<>>
         /\ m.sym[m.sym[x]] = m.sym[x]
<1> DEFINE s == m.sym[x]
<1>1. s \in Anchor
  BY DEF MapType
<1>2. AgreeAt(m, s)
  BY <1>1 DEF Agree
<1> HIDE DEF s
<1>3. x \in Members(m, s)
  BY <1>2 DEF AgreeAt, s
<1>4. m.lists[s] # <<>>
  BY <1>3 DEF Members
<1>5. m.sym[s] = s
  BY <1>2, <1>4 DEF AgreeAt
<1> QED BY <1>1, <1>3, <1>4, <1>5 DEF s

\* A new anchor joins the class of an anchor that it refers to.
LEMMA GoodAdd ==
  ASSUME NEW m, NEW R, Good(m, R), NEW x \in Anchor, m.sym[x] = NoAnchor,
         NEW e \in Anchor, m.sym[e] # NoAnchor, <<x, e>> \in R
  PROVE  /\ Good(Add(m, x, m.sym[e]), R)
         /\ InUse(Add(m, x, m.sym[e])) = InUse(m) \cup {x}
         /\ \A y \in Anchor \ {x} : Add(m, x, m.sym[e]).sym[y] = m.sym[y]
<1> DEFINE s == m.sym[e]
           n == Add(m, x, s)
<1>1. m \in MapType /\ Agree(m) /\ m.sym \in [Anchor -> Anchor \cup {NoAnchor}]
  BY DEF Good, MapType
<1>2. s \in Anchor /\ e \in Members(m, s) /\ m.sym[s] = s
  BY <1>1, SymbolFacts
<1> HIDE DEF s
<1>3. /\ n \in MapType /\ Agree(n)
      /\ n.sym = [m.sym EXCEPT ![x] = s]
      /\ Members(n, s) = Members(m, s) \cup {x}
      /\ \A t \in Anchor \ {s} : Members(n, t) = Members(m, t)
  BY <1>1, <1>2, AddFacts
<1> HIDE DEF n
<1>4. ASSUME NEW t \in Anchor PROVE HeldTogether(Members(n, t), R)
  <2>1. HeldTogether(Members(m, t), R)
    BY DEF Good
  <2>2. CASE t = s
    <3>1. HeldTogether({x}, R) /\ x \in {x}
      BY HeldAlone
    <3>2. HeldTogether(Members(m, s) \cup {x}, R)
      BY <1>2, <2>1, <2>2, <3>1, HeldUnion
    <3> QED BY <1>3, <2>2, <3>2
  <2>3. CASE t # s
    BY <1>3, <2>1, <2>3
  <2> QED BY <2>2, <2>3
<1>5. s # NoAnchor
  BY <1>2, IndexAssumption
<1>6. InUse(n) = InUse(m) \cup {x} /\ \A y \in Anchor \ {x} : n.sym[y] = m.sym[y]
  BY <1>1, <1>3, <1>5 DEF InUse
<1>7. Good(n, R)
  BY <1>3, <1>4 DEF Good
<1> QED BY <1>6, <1>7 DEF n, s

LEMMA GoodAlone ==
  ASSUME NEW m, NEW R, Good(m, R), NEW x \in Anchor, m.sym[x] = NoAnchor
  PROVE  /\ Good(AddAlone(m, x), R)
         /\ InUse(AddAlone(m, x)) = InUse(m) \cup {x}
         /\ EmplaceAlone(m, x) = AddAlone(m, x)
<1> DEFINE n == AddAlone(m, x)
<1>1. m \in MapType /\ Agree(m) /\ m.sym \in [Anchor -> Anchor \cup {NoAnchor}]
  BY DEF Good, MapType
<1>2. /\ n \in MapType /\ Agree(n) /\ EmplaceAlone(m, x) = n
      /\ n.sym = [m.sym EXCEPT ![x] = x]
      /\ Members(n, x) = {x}
      /\ \A t \in Anchor \ {x} : Members(n, t) = Members(m, t)
  BY <1>1, AloneFacts
<1> HIDE DEF n
<1>3. ASSUME NEW t \in Anchor PROVE HeldTogether(Members(n, t), R)
  <2>1. HeldTogether(Members(m, t), R) /\ HeldTogether({x}, R)
    BY HeldAlone DEF Good
  <2> QED BY <1>2, <2>1
<1>4. InUse(n) = InUse(m) \cup {x}
  BY <1>1, <1>2, IndexAssumption DEF InUse
<1>5. Good(n, R)
  BY <1>2, <1>3 DEF Good
<1> QED BY <1>2, <1>4, <1>5 DEF n

\* The classes of two anchors that are referred to together become one.
LEMMA GoodUnion ==
  ASSUME NEW m, NEW R, Good(m, R), NEW a \in Anchor, NEW b \in Anchor,
         m.sym[a] # NoAnchor, m.sym[b] # NoAnchor, <<a, b>> \in R \/ <<b, a>> \in R
  PROVE  /\ Good(UnionSymbolMapping(m, a, b), R)
         /\ InUse(UnionSymbolMapping(m, a, b)) = InUse(m)
<1> DEFINE s == m.sym[a]
           t == m.sym[b]
           keep == Larger(m, s, t)
           drop == Smaller(m, s, t)
           n == Relabel(m, keep, drop)
<1>1. CASE s = t
  BY <1>1 DEF UnionSymbolMapping
<1>2. CASE s # t
  <2>1. m \in MapType /\ Agree(m) /\ m.sym \in [Anchor -> Anchor \cup {NoAnchor}]
    BY DEF Good, MapType
  <2>2. /\ s \in Anchor /\ a \in Members(m, s) /\ m.sym[s] = s
        /\ t \in Anchor /\ b \in Members(m, t) /\ m.sym[t] = t
    BY <2>1, SymbolFacts
  <2>3. UnionSymbolMapping(m, a, b) = n
    BY <1>2 DEF UnionSymbolMapping
  <2>4. (keep = s /\ drop = t) \/ (keep = t /\ drop = s)
    BY DEF Larger, Smaller
  <2> HIDE DEF s, t, keep, drop
  <2>5. keep \in Anchor /\ drop \in Anchor /\ keep # drop /\ m.sym[keep] = keep
    BY <1>2, <2>2, <2>4
  <2>6. /\ n \in MapType /\ Agree(n)
        /\ \A x \in Anchor : n.sym[x] = IF m.sym[x] = drop THEN keep ELSE m.sym[x]
        /\ Members(n, keep) = Members(m, keep) \cup Members(m, drop)
        /\ Members(n, drop) = {}
        /\ \A r \in Anchor \ {keep, drop} : Members(n, r) = Members(m, r)
    BY <2>1, <2>5, RelabelFacts
  <2> HIDE DEF n
  <2>7. ASSUME NEW r \in Anchor PROVE HeldTogether(Members(n, r), R)
    <3>1. /\ HeldTogether(Members(m, s), R) /\ HeldTogether(Members(m, t), R)
          /\ HeldTogether(Members(m, r), R)
      BY <2>2 DEF Good
    <3>2. HeldTogether(Members(m, s) \cup Members(m, t), R)
      BY <2>2, <3>1, HeldUnion
    <3>3. Members(m, keep) \cup Members(m, drop) = Members(m, s) \cup Members(m, t)
      BY <2>4
    <3>4. HeldTogether({}, R)
      BY HeldAlone
    <3>5. CASE r = keep
      BY <2>6, <3>2, <3>3, <3>5
    <3>6. CASE r = drop
      BY <2>6, <3>4, <3>6
    <3>7. CASE r # keep /\ r # drop
      BY <2>6, <3>1, <3>7
    <3> QED BY <3>5, <3>6, <3>7
  <2>8. InUse(n) = InUse(m)
    BY <2>5, <2>6, IndexAssumption DEF InUse
  <2> QED BY <2>3, <2>6, <2>7, <2>8 DEF Good
<1> QED BY <1>1, <1>2

(***************************************************************************)
(* The inductive invariant.                                                *)
(***************************************************************************)
\* The handlers that are left in a phase are those of the current node.
PhaseFits ==
  /\ phase # "in" => pos <= Len(g.order)
  /\ phase \in {"union", "add"} => IsMerge(Cur)
  /\ (phase = "in" /\ pos <= Len(g.order) /\ InKind(Cur) \in {"merge", "subgraph input"}) => idx = 0

\* An input that the loops have not come to has no symbol.
NotReached(p, i) ==
  \/ p > pos
  \/ p = pos /\ (phase = "union" \/ (phase \in {"in", "add"} /\ i >= idx))
InputsFresh ==
  \A p \in DOMAIN g.order, i \in Index : NotReached(p, i) => ~Seen(In(g.order[p], i))

\* An output that the loops have not come to has a symbol only because a
\* merge has put it there, and the merge at p has done so once it is passed.
CutPassed(p) ==
  /\ IsMerge(g.order[p]) /\ HasNext(g.order[p])
  /\ \/ p < pos
     \/ p = pos /\ phase = "out"
     \/ p = pos /\ phase = "add" /\ \E j \in Unlinked(g.order[p]) : j < idx
OutputsFresh ==
  \A q \in DOMAIN g.order, o \in Index :
    (q > pos /\ Seen(Out(g.order[q], o))) =>
      \E p \in DOMAIN g.order : CutPassed(p) /\ g.next[g.order[p]] = g.order[q]
CutsClosed ==
  \A p \in DOMAIN g.order :
    (CutPassed(p) /\ Linked(g.order[p]) # {} /\ Unlinked(g.order[p]) # {})
      => Seen(Out(g.next[g.order[p]], 0))

\* What HandleMergeInput knows of max_node_index_io.
BaseKnown ==
  /\ base # NoAnchor =>
       /\ phase \in {"union", "add"}
       /\ Seen(base)
       /\ \E j \in Linked(Cur) : base = Peer(Cur, j)
  /\ (phase = "union" /\ base = NoAnchor) => \A j \in Linked(Cur) : j >= idx
  /\ (phase = "add" /\ base = NoAnchor) => Linked(Cur) = {}

GraphFits == Distinct /\ LinksAreOutputs /\ LoopsAreCutOnce

Control == PhaseFits /\ InputsFresh /\ OutputsFresh /\ CutsClosed /\ BaseKnown

IInv ==
  /\ TypeOK /\ GraphFits /\ MapsAgree /\ NothingLost
  /\ Control
  /\ ClassesAreHeldTogether

(***************************************************************************)
(* Facts about the graph, which the call does not change.                  *)
(***************************************************************************)
LEMMA GraphFacts ==
  ASSUME TypeOK
  PROVE  /\ g.order \in Seq(Node) /\ Len(g.order) \in Nat /\ DOMAIN g.order = 1 .. Len(g.order)
         /\ \A p \in DOMAIN g.order : g.order[p] \in Node
         /\ \A n \in Node : /\ g.ins[n] \in 0 .. MaxIndex + 1 /\ g.outs[n] \in 0 .. MaxIndex + 1
                            /\ g.parent[n] \in Node \cup {NoNode}
                            /\ g.next[n] \in Node \cup {NoNode}
                            /\ g.parentIdx[n] \in Index \cup {NoIndex}
         /\ \A n \in Node, i \in Index : /\ Peer(n, i) \in Anchor \cup {NoAnchor}
                                        /\ g.outputIdx[<<n, i>>] \in Index \cup {NoIndex}
                                        /\ g.named[<<n, i>>] \in Index \cup {NoIndex}
                                        /\ g.reuse[<<n, i>>] \in Index \cup {NoIndex}
         /\ pos <= Len(g.order) => pos \in DOMAIN g.order /\ Cur \in Node
         /\ pos \in Nat /\ idx \in Nat /\ MaxIndex \in Nat
<1>1. g \in Shape /\ pos \in 1 .. Len(g.order) + 1 /\ idx \in 0 .. MaxIndex + 1
  BY DEF TypeOK
<1>2. g.order \in Seq(Node) /\ Len(g.order) \in Nat /\ DOMAIN g.order = 1 .. Len(g.order)
  BY <1>1 DEF Shape
<1>3. \A p \in DOMAIN g.order : g.order[p] \in Node
  BY <1>2
<1>4. /\ g.ins \in [Node -> 0 .. MaxIndex + 1] /\ g.outs \in [Node -> 0 .. MaxIndex + 1]
      /\ g.parent \in [Node -> Node \cup {NoNode}] /\ g.next \in [Node -> Node \cup {NoNode}]
      /\ g.parentIdx \in [Node -> Index \cup {NoIndex}]
  BY <1>1 DEF Shape
<1>5. /\ g.peer \in [Node \X Index -> Anchor \cup {NoAnchor}]
      /\ g.outputIdx \in [Node \X Index -> Index \cup {NoIndex}]
      /\ g.named \in [Node \X Index -> Index \cup {NoIndex}]
      /\ g.reuse \in [Node \X Index -> Index \cup {NoIndex}]
  BY <1>1 DEF Shape
<1>6. MaxIndex \in Nat
  BY IndexAssumption
<1>7. ASSUME NEW n \in Node, NEW i \in Index
      PROVE  /\ Peer(n, i) \in Anchor \cup {NoAnchor}
             /\ g.outputIdx[<<n, i>>] \in Index \cup {NoIndex}
             /\ g.named[<<n, i>>] \in Index \cup {NoIndex}
             /\ g.reuse[<<n, i>>] \in Index \cup {NoIndex}
  BY <1>5 DEF Peer
<1>8. pos <= Len(g.order) => pos \in DOMAIN g.order /\ Cur \in Node
  BY <1>1, <1>2, <1>3 DEF Cur
<1> QED BY <1>1, <1>2, <1>3, <1>4, <1>6, <1>7, <1>8

\* What is said of the graph alone stays true.
LEMMA Still ==
  ASSUME g' = g
  PROVE  /\ References' = References
         /\ GraphFits' = GraphFits
         /\ \A n : /\ InKind(n)' = InKind(n) /\ IsMerge(n)' = IsMerge(n)
                   /\ Linked(n)' = Linked(n) /\ Unlinked(n)' = Unlinked(n)
                   /\ HasNext(n)' = HasNext(n)
         /\ \A n, i : Peer(n, i)' = Peer(n, i)
<1>1. \A n, i : Peer(n, i)' = Peer(n, i)
  BY DEF Peer
<1>2. \A n : /\ InKind(n)' = InKind(n) /\ IsMerge(n)' = IsMerge(n)
             /\ Linked(n)' = Linked(n) /\ Unlinked(n)' = Unlinked(n)
             /\ HasNext(n)' = HasNext(n)
  BY DEF Peer, InKind, IsMerge, Linked, Unlinked, HasNext, Inputs, HiddenByParent, IsSubgraphInput, IsSubgraphOutput
<1>3. GraphFits' = GraphFits
  BY DEF GraphFits, Distinct, LinksAreOutputs, LoopsAreCutOnce, Peer, Outputs, IsMerge, InKind, Unlinked, Linked,
         Inputs, HiddenByParent, IsSubgraphInput, IsSubgraphOutput
<1>4. References' = References
  BY DEF References, NodeRefs, InputRefs, OutputRefs, InOrder, ClosesLoop, InputsInClass, IsRefFromInput, HasNext,
         Peer, Outputs, IsMerge, InKind, Unlinked, Linked, Inputs, HiddenByParent, IsSubgraphInput, IsSubgraphOutput
<1> QED BY <1>1, <1>2, <1>3, <1>4
\* In a state of the invariant the maps are good, and vice versa.
LEMMA MapIsGood ==
  ASSUME IInv
  PROVE  Good(map, References) /\ \A x \in Anchor : Seen(x) <=> x \in InUse(map)
BY DEF IInv, TypeOK, MapsAgree, ClassesAreHeldTogether, Good, Agree, AgreeAt, MapType, InUse, Seen

LEMMA GoodIsMap ==
  ASSUME Good(map', References), g' = g
  PROVE  MapsAgree' /\ ClassesAreHeldTogether' /\ map' \in MapType
         /\ \A x \in Anchor : Seen(x)' <=> x \in InUse(map')
<1>1. References' = References
  BY Still
<1>2. MapsAgree' /\ map' \in MapType
  BY DEF MapsAgree, Good, Agree, AgreeAt, Members
<1>3. ClassesAreHeldTogether'
  BY <1>1 DEF ClassesAreHeldTogether, Good, Members
<1> QED BY <1>2, <1>3 DEF Seen, InUse

\* No lookup in the maps misses.
LEMMA NoFault ==
  ASSUME IInv, NEW a \in Anchor, NEW b \in Anchor
  PROVE  /\ UpdateFault(a) # "lost" /\ UnionFault(a, b) # "lost"
         /\ UpdateFault(a) \in {"unseen", "running"} /\ UnionFault(a, b) \in {"unseen", "running"}
         /\ UpdateFault(a) = "running" => Seen(a)
         /\ UnionFault(a, b) = "running" => Seen(a) /\ Seen(b)
<1>1. Good(map, References)
  BY MapIsGood
<1>2. map \in MapType /\ Agree(map)
  BY <1>1 DEF Good
<1>3. ASSUME NEW x \in Anchor, Seen(x)
      PROVE  Found(x) /\ map.sym[x] \in Anchor
  BY <1>2, <1>3, SymbolFacts DEF Seen, Found
<1>4. ASSUME NEW s \in Anchor, NEW x \in Members(map, s)
      PROVE  Seen(x)
  <2>1. AgreeAt(map, s)
    BY <1>2 DEF Agree
  <2>2. x \in Anchor /\ map.sym[x] = s
    BY <1>4, <2>1 DEF AgreeAt
  <2> QED BY <2>2, IndexAssumption DEF Seen
<1>5. UpdateFault(a) \in {"unseen", "running"} /\ (UpdateFault(a) = "running" => Seen(a))
  BY <1>3 DEF UpdateFault
<1>6. UnionFault(a, b) \in {"unseen", "running"} /\ (UnionFault(a, b) = "running" => Seen(a) /\ Seen(b))
  <2>1. CASE ~Seen(a) \/ ~Seen(b)
    BY <2>1 DEF UnionFault
  <2>2. CASE Seen(a) /\ Seen(b)
    <3>1. Smaller(map, map.sym[a], map.sym[b]) \in Anchor
      BY <1>3, <2>2 DEF Smaller
    <3>2. \A x \in Members(map, Smaller(map, map.sym[a], map.sym[b])) : Seen(x)
      BY <1>4, <3>1
    <3> QED BY <1>3, <2>2, <3>2 DEF UnionFault
  <2> QED BY <2>1, <2>2
<1> QED BY <1>5, <1>6

\* An early return changes nothing but the result.
LEMMA FailKeeps ==
  ASSUME IInv, NEW f \in {"invalid", "unseen", "running", "success"}, Fail(f)
  PROVE  IInv'
<1>1. g' = g /\ pos' = pos /\ phase' = phase /\ idx' = idx /\ base' = base /\ map' = map
  BY DEF Fail
<1>2. Good(map, References)
  BY MapIsGood
<1>3. MapsAgree' /\ ClassesAreHeldTogether'
  BY <1>1, <1>2, GoodIsMap
<1>4. TypeOK' /\ NothingLost'
  BY <1>1 DEF IInv, TypeOK, NothingLost, Fail
<1>5. GraphFits'
  BY <1>1, Still DEF IInv
<1>6. Control'
  <2>1. \A n : /\ InKind(n)' = InKind(n) /\ IsMerge(n)' = IsMerge(n)
               /\ Linked(n)' = Linked(n) /\ Unlinked(n)' = Unlinked(n)
               /\ HasNext(n)' = HasNext(n)
    BY <1>1, Still
  <2>2. Control /\ Cur' = Cur /\ (\A x : Seen(x)' = Seen(x)) /\ \A n, i : Peer(n, i)' = Peer(n, i)
    BY <1>1, Still DEF IInv, Cur, Seen
  <2>3. \A p : CutPassed(p)' = CutPassed(p)
    BY <1>1, <2>1 DEF CutPassed
  <2>4. PhaseFits' /\ InputsFresh'
    BY <1>1, <2>1, <2>2 DEF Control, PhaseFits, InputsFresh, NotReached
  <2>5. OutputsFresh' /\ CutsClosed'
    BY <1>1, <2>1, <2>2, <2>3 DEF Control, OutputsFresh, CutsClosed
  <2>6. BaseKnown'
    BY <1>1, <2>1, <2>2 DEF Control, BaseKnown
  <2> QED BY <2>4, <2>5, <2>6 DEF Control
<1> QED BY <1>3, <1>4, <1>5, <1>6 DEF IInv

\* A round of a loop that gives symbols to the anchors in New.
Round(New) ==
  /\ pos <= Len(g.order)
  /\ g' = g /\ pos' = pos /\ phase' = phase /\ base' = base /\ result' = result /\ idx' = idx + 1
  /\ idx \in Index
  /\ Good(map', References)
  /\ InUse(map') = InUse(map) \cup New
  /\ phase = "in" => InKind(Cur) \notin {"merge", "subgraph input"}
  /\ New \subseteq
       {x \in {In(Cur, idx)} : phase \in {"in", "add"}}
       \cup {Out(Cur, o) : o \in {j \in Index : phase = "out"}}
       \cup {x \in {Out(g.next[Cur], 0)} : phase = "add" /\ HasNext(Cur) /\ idx \in Unlinked(Cur)}
  /\ (phase = "add" /\ HasNext(Cur) /\ idx \in Unlinked(Cur) /\ base # NoAnchor)
       => Out(g.next[Cur], 0) \in New
  /\ (phase = "union" /\ base = NoAnchor) => idx \notin Linked(Cur)

LEMMA RoundKeeps ==
  ASSUME IInv, NEW New \in SUBSET Anchor, Round(New)
  PROVE  IInv'
<1>0. TypeOK /\ Control /\ pos <= Len(g.order)
  BY DEF IInv, Round
<1>1. /\ g' = g /\ pos' = pos /\ phase' = phase /\ base' = base /\ idx' = idx + 1 /\ result' = result
      /\ Cur' = Cur /\ pos \in DOMAIN g.order /\ Cur \in Node /\ idx \in Nat /\ pos \in Nat
  BY <1>0, GraphFacts DEF Cur, Round
<1>2. /\ MapsAgree' /\ ClassesAreHeldTogether' /\ map' \in MapType
      /\ \A x \in Anchor : Seen(x)' <=> x \in InUse(map) \cup New
  BY GoodIsMap DEF Round
<1>3. \A x \in Anchor : Seen(x) <=> x \in InUse(map)
  BY MapIsGood
<1>4. TypeOK' /\ NothingLost'
  <2>0. idx \in 0 .. MaxIndex /\ MaxIndex \in Nat
    BY IndexAssumption DEF Index, Round
  <2>1. idx + 1 \in 0 .. MaxIndex + 1
    BY <2>0
  <2> QED BY <1>1, <1>2, <2>1 DEF IInv, TypeOK, NothingLost, MapType
<1>5. GraphFits' /\ Distinct /\ LoopsAreCutOnce
  BY <1>1, Still DEF IInv, GraphFits
<1>6. /\ \A p \in DOMAIN g.order : g.order[p] \in Node /\ p \in Nat /\ g.next[g.order[p]] \in Node \cup {NoNode}
      /\ Cur = g.order[pos]
  <2>1. \A p \in DOMAIN g.order : g.order[p] \in Node /\ p \in Nat
    BY <1>0, GraphFacts
  <2>2. \A n \in Node : g.next[n] \in Node \cup {NoNode}
    BY <1>0, GraphFacts
  <2> QED BY <2>1, <2>2 DEF Cur
<1>7. \A n : /\ InKind(n)' = InKind(n) /\ IsMerge(n)' = IsMerge(n)
             /\ Linked(n)' = Linked(n) /\ Unlinked(n)' = Unlinked(n)
             /\ HasNext(n)' = HasNext(n)
  BY <1>1, Still
<1>8. PhaseFits'
  BY <1>0, <1>1, <1>7 DEF PhaseFits, Control, Round
<1>9. InputsFresh'
  <2> SUFFICES ASSUME NEW p \in DOMAIN g.order, NEW i \in Index, NotReached(p, i)'
               PROVE  ~Seen(In(g.order[p], i))'
    BY <1>1 DEF InputsFresh
  <2>1. NotReached(p, i)
    BY <1>1, IndexAssumption DEF NotReached, Index
  <2>2. In(g.order[p], i) \in Anchor
    BY <1>6 DEF In, Anchor
  <2>3. In(g.order[p], i) \notin InUse(map)
    BY <1>3, <2>1, <2>2 DEF InputsFresh, IInv, Control
  <2>4. In(g.order[p], i) \notin New
    <3>1. In(g.order[p], i) # Out(g.next[Cur], 0) /\ \A o : In(g.order[p], i) # Out(Cur, o)
      BY DEF In, Out
    <3>2. phase \in {"in", "add"} => In(g.order[p], i) # In(Cur, idx)
      <4> SUFFICES ASSUME phase \in {"in", "add"}, g.order[p] = Cur, i = idx
                   PROVE  FALSE
        BY DEF In
      <4>1. p = pos
        BY <1>1, <1>5, <1>6 DEF Distinct
      <4>2. ~(p > pos) /\ ~(i >= idx + 1) /\ phase # "union"
        BY <1>1, <4>1
      <4> QED BY <1>1, <4>2 DEF NotReached
    <3> QED BY <3>1, <3>2 DEF Round
  <2> QED BY <1>1, <1>2, <2>2, <2>3, <2>4 DEF Seen, In
<1>10. ASSUME NEW p \in DOMAIN g.order, CutPassed(p)
       PROVE  CutPassed(p)'
  <2>1. \A j \in Unlinked(g.order[p]) : j \in Nat
    BY IndexAssumption DEF Unlinked, Inputs, Index
  <2>2. \A j \in Nat : j < idx => j < idx + 1
    BY <1>1
  <2> QED BY <1>1, <1>7, <1>10, <2>1, <2>2 DEF CutPassed
<1>11. OutputsFresh'
  <2> SUFFICES ASSUME NEW q \in DOMAIN g.order, NEW o \in Index, q > pos, Seen(Out(g.order[q], o))'
               PROVE  \E p \in DOMAIN g.order : CutPassed(p)' /\ g.next[g.order[p]] = g.order[q]
    BY <1>1 DEF OutputsFresh
  <2>1. Out(g.order[q], o) \in Anchor
    BY <1>6 DEF Out, Anchor
  <2>2. CASE Out(g.order[q], o) \in InUse(map)
    <3>1. PICK p \in DOMAIN g.order : CutPassed(p) /\ g.next[g.order[p]] = g.order[q]
      BY <1>3, <2>1, <2>2 DEF OutputsFresh, IInv, Control
    <3> QED BY <1>10, <3>1
  <2>3. CASE Out(g.order[q], o) \in New
    <3>1. \A j : Out(g.order[q], o) # In(Cur, j)
      BY DEF In, Out
    <3>2. \A j : Out(g.order[q], o) # Out(Cur, j)
      <4> SUFFICES ASSUME g.order[q] = Cur PROVE FALSE
        BY DEF Out
      <4>1. q = pos
        BY <1>1, <1>5, <1>6 DEF Distinct
      <4> QED BY <1>1, <4>1
    <3>3. /\ Out(g.order[q], o) = Out(g.next[Cur], 0) /\ phase = "add"
          /\ HasNext(Cur) /\ idx \in Unlinked(Cur)
      BY <2>3, <3>1, <3>2 DEF Round
    <3>4. g.next[Cur] = g.order[q]
      BY <3>3 DEF Out
    <3>5. CutPassed(pos)'
      <4>1. IsMerge(Cur)
        BY <1>0, <3>3 DEF PhaseFits, Control
      <4>2. idx < idx + 1
        BY <1>1
      <4> QED BY <1>1, <1>6, <1>7, <3>3, <4>1, <4>2 DEF CutPassed
    <3> QED BY <1>1, <1>6, <3>4, <3>5
  <2> QED BY <1>1, <1>2, <2>1, <2>2, <2>3 DEF Seen, Out
<1>12. CutsClosed'
  <2> SUFFICES ASSUME NEW p \in DOMAIN g.order, CutPassed(p)', Linked(g.order[p]) # {}, Unlinked(g.order[p]) # {}
               PROVE  Seen(Out(g.next[g.order[p]], 0))'
    BY <1>1, <1>7 DEF CutsClosed
  <2>1. Out(g.next[g.order[p]], 0) \in Anchor
    <3>1. g.next[g.order[p]] # NoNode
      BY <1>1 DEF CutPassed, HasNext
    <3>2. g.next[g.order[p]] \in Node
      BY <1>6, <3>1
    <3> QED BY <3>2, IndexAssumption DEF Out, Anchor, Index
  <2>2. CASE CutPassed(p)
    <3>1. Seen(Out(g.next[g.order[p]], 0))
      BY <1>0, <2>2 DEF CutsClosed, Control
    <3> QED BY <1>1, <1>2, <1>3, <2>1, <3>1 DEF Seen, Out
  <2>3. CASE ~CutPassed(p)
    <3>1. p = pos /\ phase = "add" /\ idx \in Unlinked(Cur) /\ HasNext(Cur)
      <4>1. \A j \in Unlinked(g.order[p]) : j \in Nat
        BY IndexAssumption DEF Unlinked, Inputs, Index
      <4>2. \A j \in Nat : j < idx + 1 => j < idx \/ j = idx
        BY <1>1
      <4> QED BY <1>1, <1>6, <1>7, <2>3, <4>1, <4>2 DEF CutPassed
    <3>2. base # NoAnchor
      BY <1>0, <1>6, <3>1 DEF BaseKnown, Control
    <3> QED BY <1>2, <1>6, <2>1, <3>1, <3>2 DEF Round
  <2> QED BY <2>2, <2>3
<1>13. BaseKnown'
  <2>1. base # NoAnchor => Seen(base)'
    <3>1. base # NoAnchor => base \in Anchor
      BY DEF IInv, TypeOK
    <3> QED BY <1>2, <1>3, <3>1 DEF BaseKnown, IInv, Control, Round
  <2>2. base # NoAnchor => phase \in {"union", "add"} /\ \E j \in Linked(Cur) : base = Peer(Cur, j)
    BY DEF BaseKnown, IInv, Control, Round
  <2>3. (phase = "union" /\ base = NoAnchor) => \A j \in Linked(Cur) : j >= idx + 1
    <3> SUFFICES ASSUME phase = "union", base = NoAnchor, NEW j \in Linked(Cur) PROVE j >= idx + 1
      OBVIOUS
    <3>1. j >= idx /\ j # idx /\ j \in Index
      BY DEF BaseKnown, IInv, Control, Round, Linked, Inputs
    <3> QED BY <1>1, <3>1, IndexAssumption DEF Index
  <2>4. \A n, i : Peer(n, i)' = Peer(n, i)
    BY <1>1, Still
  <2>5. (phase = "add" /\ base = NoAnchor) => Linked(Cur) = {}
    BY DEF BaseKnown, IInv, Control, Round
  <2> QED BY <1>1, <1>7, <2>1, <2>2, <2>3, <2>4, <2>5 DEF BaseKnown
<1> QED BY <1>2, <1>4, <1>5, <1>8, <1>9, <1>11, <1>12, <1>13 DEF IInv, Control
\* The pairs that a node contributes are references of the graph.
LEMMA RefMember ==
  ASSUME NEW p \in DOMAIN g.order, NEW i \in Index
  PROVE  /\ InputRefs(g.order[p], i) \subseteq References
         /\ i \in Outputs(g.order[p]) => OutputRefs(g.order[p], i) \subseteq References
<1>1. g.order[p] \in InOrder
  BY DEF InOrder
<1>2. NodeRefs(g.order[p]) \subseteq References
  BY <1>1 DEF References
<1>3. InputRefs(g.order[p], i) \subseteq NodeRefs(g.order[p])
  BY DEF NodeRefs
<1>4. ASSUME i \in Outputs(g.order[p])
      PROVE  OutputRefs(g.order[p], i) \subseteq NodeRefs(g.order[p])
  BY <1>4 DEF NodeRefs
<1> QED BY <1>2, <1>3, <1>4

\* What every step of a phase starts from.
LEMMA AtFacts ==
  ASSUME IInv, pos <= Len(g.order)
  PROVE  /\ TypeOK /\ Control /\ pos \in DOMAIN g.order /\ Cur \in Node /\ Cur = g.order[pos]
         /\ idx \in Nat /\ pos \in Nat
         /\ g.ins[Cur] \in 0 .. MaxIndex + 1 /\ g.outs[Cur] \in 0 .. MaxIndex + 1
         /\ (idx < g.ins[Cur] \/ idx < g.outs[Cur]) => idx \in Index
         /\ (idx < g.ins[Cur]) => idx \in Inputs(Cur)
         /\ (idx < g.outs[Cur]) => idx \in Outputs(Cur)
         /\ \A i \in Index : In(Cur, i) \in Anchor /\ Out(Cur, i) \in Anchor
         /\ \A i \in Linked(Cur) : Peer(Cur, i) \in Anchor
<1>1. TypeOK /\ Control
  BY DEF IInv
<1>2. /\ pos \in DOMAIN g.order /\ Cur \in Node /\ idx \in Nat /\ pos \in Nat /\ MaxIndex \in Nat
      /\ g.ins[Cur] \in 0 .. MaxIndex + 1 /\ g.outs[Cur] \in 0 .. MaxIndex + 1
      /\ \A i \in Index : Peer(Cur, i) \in Anchor \cup {NoAnchor}
  BY <1>1, GraphFacts
<1>3. (idx < g.ins[Cur] \/ idx < g.outs[Cur]) => idx \in Index
  BY <1>2 DEF Index
<1>4. ((idx < g.ins[Cur]) => idx \in Inputs(Cur)) /\ ((idx < g.outs[Cur]) => idx \in Outputs(Cur))
  BY <1>3 DEF Inputs, Outputs
<1>5. \A i \in Linked(Cur) : Peer(Cur, i) \in Anchor
  BY <1>2 DEF Linked, Inputs
<1>6. \A i \in Index : In(Cur, i) \in Anchor /\ Out(Cur, i) \in Anchor
  BY <1>2 DEF In, Out, Anchor
<1>7. Cur = g.order[pos]
  BY DEF Cur
<1> QED BY <1>1, <1>2, <1>3, <1>4, <1>5, <1>6, <1>7

\* A round that changes no map.
LEMMA SkipKeeps ==
  ASSUME IInv, pos <= Len(g.order), idx \in Index, Skip,
         phase = "in" => InKind(Cur) \notin {"merge", "subgraph input"},
         (phase = "add" /\ HasNext(Cur) /\ idx \in Unlinked(Cur)) => base = NoAnchor,
         (phase = "union" /\ base = NoAnchor) => idx \notin Linked(Cur)
  PROVE  IInv'
<1>1. Good(map, References)
  BY MapIsGood
<1>2. Round({})
  BY <1>1 DEF Round, Skip, GoOn
<1> QED BY <1>2, RoundKeeps

LEMMA PlainInputKeeps ==
  ASSUME IInv, PlainInput
  PROVE  IInv'
<1>1. /\ pos <= Len(g.order) /\ phase = "in" /\ InKind(Cur) = "plain" /\ idx < g.ins[Cur]
  BY DEF PlainInput, AtInput, At
<1> DEFINE cur == In(Cur, idx)
           exist == Peer(Cur, idx)
<1>2. /\ Control /\ idx \in Index /\ idx \in Inputs(Cur) /\ cur \in Anchor /\ idx \in Nat
      /\ pos \in DOMAIN g.order /\ Cur = g.order[pos]
  BY <1>1, AtFacts
<1>3. Good(map, References) /\ map.sym[cur] = NoAnchor
  <2>1. NotReached(pos, idx)
    BY <1>1, <1>2 DEF NotReached
  <2>2. ~Seen(In(g.order[pos], idx))
    BY <1>2, <2>1 DEF Control, InputsFresh
  <2> QED BY <1>2, <2>2, MapIsGood DEF Seen
<1>4. CASE exist = NoAnchor
  <2>1. GoOn(AddAlone(map, cur))
    BY <1>4 DEF PlainInput
  <2>2. Good(AddAlone(map, cur), References) /\ InUse(AddAlone(map, cur)) = InUse(map) \cup {cur}
    BY <1>2, <1>3, GoodAlone
  <2>3. Round({cur})
    BY <1>1, <1>2, <2>1, <2>2 DEF Round, GoOn
  <2> QED BY <1>2, <2>3, RoundKeeps
<1>5. CASE exist # NoAnchor
  <2>1. idx \in Linked(Cur) /\ exist \in Anchor
    BY <1>1, <1>2, <1>5, AtFacts DEF Linked
  <2>2. UpdateFault(exist) \in {"unseen", "running"} /\ (UpdateFault(exist) = "running" => Seen(exist))
    BY <2>1, NoFault
  <2>3. CASE UpdateFault(exist) # "running"
    <3>1. Fail(UpdateFault(exist))
      BY <1>5, <2>3 DEF PlainInput
    <3> QED BY <2>2, <3>1, FailKeeps
  <2>4. CASE UpdateFault(exist) = "running"
    <3>1. GoOn(Add(map, cur, map.sym[exist]))
      BY <1>5, <2>4 DEF PlainInput
    <3>2. <<cur, exist>> \in References
      <4>1. <<cur, exist>> \in InputRefs(Cur, idx)
        BY <1>1, <1>2, <2>1 DEF InputRefs, InputsInClass
      <4> QED BY <1>2, <4>1, RefMember
    <3>3. map.sym[exist] # NoAnchor
      BY <2>2, <2>4 DEF Seen
    <3>4. /\ Good(Add(map, cur, map.sym[exist]), References)
          /\ InUse(Add(map, cur, map.sym[exist])) = InUse(map) \cup {cur}
      BY <1>2, <1>3, <2>1, <3>2, <3>3, GoodAdd
    <3>5. Round({cur})
      BY <1>1, <1>2, <3>1, <3>4 DEF Round, GoOn
    <3> QED BY <1>2, <3>5, RoundKeeps
  <2> QED BY <2>3, <2>4
<1> QED BY <1>4, <1>5
\* The step from the inputs of a node to its outputs.
LeaveInputs(New) ==
  /\ pos <= Len(g.order)
  /\ g' = g /\ pos' = pos /\ phase' = "out" /\ base' = NoAnchor /\ result' = result /\ idx' = 0
  /\ Good(map', References)
  /\ InUse(map') = InUse(map) \cup New
  /\ New \subseteq {In(Cur, 0)}
  /\ phase \in {"in", "add"}
  /\ IsMerge(Cur) => phase = "add" /\ idx >= g.ins[Cur]

LEMMA LeaveKeeps ==
  ASSUME IInv, NEW New \in SUBSET Anchor, LeaveInputs(New)
  PROVE  IInv'
<1>0. /\ TypeOK /\ Control /\ pos <= Len(g.order)
      /\ g' = g /\ pos' = pos /\ phase' = "out" /\ base' = NoAnchor /\ result' = result /\ idx' = 0
      /\ phase \in {"in", "add"} /\ New \subseteq {In(Cur, 0)}
      /\ InUse(map') = InUse(map) \cup New
  BY DEF IInv, LeaveInputs
<1>1. /\ pos \in DOMAIN g.order /\ Cur \in Node /\ idx \in Nat /\ pos \in Nat /\ Cur = g.order[pos]
      /\ Cur' = Cur /\ g.ins[Cur] \in 0 .. MaxIndex + 1
  BY <1>0, AtFacts DEF Cur
<1>2. /\ MapsAgree' /\ ClassesAreHeldTogether' /\ map' \in MapType
      /\ \A x \in Anchor : Seen(x)' <=> x \in InUse(map) \cup New
  BY GoodIsMap DEF LeaveInputs
<1>3. \A x \in Anchor : Seen(x) <=> x \in InUse(map)
  BY MapIsGood
<1>4. TypeOK' /\ NothingLost'
  <2>1. 0 \in 0 .. MaxIndex + 1
    BY IndexAssumption
  <2> QED BY <1>0, <1>2, <2>1 DEF IInv, TypeOK, NothingLost, MapType
<1>5. GraphFits' /\ Distinct
  BY <1>0, Still DEF IInv, GraphFits
<1>6. \A p \in DOMAIN g.order : g.order[p] \in Node /\ p \in Nat
  BY <1>0, GraphFacts
<1>7. \A n : /\ IsMerge(n)' = IsMerge(n) /\ HasNext(n)' = HasNext(n)
             /\ Linked(n)' = Linked(n) /\ Unlinked(n)' = Unlinked(n)
  BY <1>0, Still
<1>8. PhaseFits' /\ BaseKnown'
  BY <1>0 DEF PhaseFits, BaseKnown
<1>9. InputsFresh'
  <2> SUFFICES ASSUME NEW p \in DOMAIN g.order, NEW i \in Index, NotReached(p, i)'
               PROVE  ~Seen(In(g.order[p], i))'
    BY <1>0 DEF InputsFresh
  <2>1. p > pos
    BY <1>0 DEF NotReached
  <2>2. In(g.order[p], i) \in Anchor
    BY <1>6 DEF In, Anchor
  <2>3. In(g.order[p], i) \notin InUse(map)
    BY <1>0, <1>3, <2>1, <2>2 DEF InputsFresh, NotReached, Control
  <2>4. In(g.order[p], i) # In(Cur, 0)
    <3> SUFFICES ASSUME g.order[p] = g.order[pos] PROVE FALSE
      BY <1>1 DEF In
    <3>1. p = pos
      BY <1>1, <1>5 DEF Distinct
    <3> QED BY <1>1, <2>1, <3>1
  <2> QED BY <1>0, <1>2, <2>2, <2>3, <2>4 DEF Seen, In
<1>10. OutputsFresh'
  <2> SUFFICES ASSUME NEW q \in DOMAIN g.order, NEW o \in Index, q > pos, Seen(Out(g.order[q], o))'
               PROVE  \E p \in DOMAIN g.order : CutPassed(p)' /\ g.next[g.order[p]] = g.order[q]
    BY <1>0 DEF OutputsFresh
  <2>1. Out(g.order[q], o) \in Anchor /\ Out(g.order[q], o) # In(Cur, 0)
    BY <1>6 DEF Out, In, Anchor
  <2>2. Seen(Out(g.order[q], o))
    BY <1>0, <1>2, <1>3, <2>1 DEF Seen, Out
  <2>3. PICK p \in DOMAIN g.order : CutPassed(p) /\ g.next[g.order[p]] = g.order[q]
    BY <1>0, <2>2 DEF OutputsFresh, Control
  <2>4. CutPassed(p)'
    BY <1>0, <1>7, <2>3 DEF CutPassed
  <2> QED BY <2>3, <2>4
<1>11. CutsClosed'
  <2> SUFFICES ASSUME NEW p \in DOMAIN g.order, CutPassed(p)', Linked(g.order[p]) # {}, Unlinked(g.order[p]) # {}
               PROVE  Seen(Out(g.next[g.order[p]], 0))'
    BY <1>0, <1>7 DEF CutsClosed
  <2>1. CutPassed(p)
    <3>1. CASE p < pos
      BY <1>0, <1>7, <3>1 DEF CutPassed
    <3>2. CASE p = pos
      <4>1. IsMerge(Cur) /\ HasNext(Cur)
        BY <1>0, <1>1, <1>7, <3>2 DEF CutPassed
      <4>2. phase = "add" /\ idx >= g.ins[Cur]
        BY <4>1 DEF LeaveInputs
      <4>3. PICK j \in Unlinked(Cur) : TRUE
        BY <1>1, <3>2
      <4>4. j < g.ins[Cur] /\ j \in Nat
        BY <4>3, IndexAssumption DEF Unlinked, Inputs, Index
      <4>5. j < idx
        BY <1>1, <4>2, <4>4
      <4> QED BY <1>1, <3>2, <4>1, <4>2, <4>5 DEF CutPassed
    <3> QED BY <1>0, <1>1, <1>6, <3>1, <3>2 DEF CutPassed
  <2>2. Seen(Out(g.next[g.order[p]], 0))
    BY <1>0, <2>1 DEF CutsClosed, Control
  <2>3. Out(g.next[g.order[p]], 0) \in Anchor
    <3>1. g.next[g.order[p]] \in Node
      BY <1>0, <1>6, <2>1, GraphFacts DEF CutPassed, HasNext
    <3> QED BY <3>1, IndexAssumption DEF Out, Anchor, Index
  <2> QED BY <1>0, <1>2, <1>3, <2>2, <2>3 DEF Seen, Out
<1> QED BY <1>2, <1>4, <1>5, <1>8, <1>9, <1>10, <1>11 DEF IInv, Control

LEMMA SubgraphInputKeeps ==
  ASSUME IInv, SubgraphInput
  PROVE  IInv'
<1>1. /\ pos <= Len(g.order) /\ phase = "in" /\ InKind(Cur) = "subgraph input" /\ result = "running"
  BY DEF SubgraphInput, At
<1> DEFINE cur == In(Cur, 0)
           p == g.parent[Cur]
           i == g.parentIdx[Cur]
           exist == Peer(p, i)
<1>2. /\ TypeOK /\ Control /\ 0 \in Index /\ cur \in Anchor /\ Cur \in Node
      /\ pos \in DOMAIN g.order /\ Cur = g.order[pos]
  <2>1. 0 \in Index
    BY IndexAssumption DEF Index
  <2> QED BY <1>1, <2>1, AtFacts
<1>3. Good(map, References) /\ map.sym[cur] = NoAnchor /\ base = NoAnchor /\ ~IsMerge(Cur)
  <2>1. idx = 0
    BY <1>1, <1>2 DEF Control, PhaseFits
  <2>2. NotReached(pos, 0)
    <3>1. 0 >= idx
      BY <2>1
    <3> QED BY <1>1, <3>1 DEF NotReached
  <2>3. ~Seen(In(g.order[pos], 0))
    BY <1>2, <2>2 DEF Control, InputsFresh
  <2>4. base = NoAnchor
    BY <1>1, <1>2 DEF Control, BaseKnown
  <2> QED BY <1>1, <1>2, <2>3, <2>4, MapIsGood DEF Seen, IsMerge
<1>4. CASE i >= g.ins[p]
  <2>1. Fail("invalid")
    BY <1>4 DEF SubgraphInput
  <2> QED BY <2>1, FailKeeps
<1>5. CASE ~(i >= g.ins[p]) /\ exist = NoAnchor
  <2>1. Enter("out") /\ UNCHANGED base
    BY <1>5 DEF SubgraphInput
  <2>2. LeaveInputs({})
    BY <1>1, <1>3, <2>1 DEF LeaveInputs, Enter
  <2> QED BY <2>2, LeaveKeeps
<1>6. CASE ~(i >= g.ins[p]) /\ exist # NoAnchor
  <2>1. p \in Node /\ i \in Index
    <3>1. p # NoNode /\ i # NoIndex
      BY <1>1 DEF InKind, IsSubgraphInput, HiddenByParent
    <3> QED BY <1>2, <3>1, GraphFacts
  <2>2. exist \in Anchor
    BY <1>2, <1>6, <2>1, GraphFacts
  <2>3. UpdateFault(exist) \in {"unseen", "running"} /\ (UpdateFault(exist) = "running" => Seen(exist))
    BY <2>2, NoFault
  <2>4. CASE UpdateFault(exist) # "running"
    <3>1. Fail(UpdateFault(exist))
      BY <1>6, <2>4 DEF SubgraphInput
    <3> QED BY <2>3, <3>1, FailKeeps
  <2>5. CASE UpdateFault(exist) = "running"
    <3>1. /\ map' = Add(map, cur, map.sym[exist]) /\ phase' = "out" /\ idx' = 0
          /\ UNCHANGED <<g, pos, base, result>>
      BY <1>6, <2>5 DEF SubgraphInput
    <3>2. <<cur, exist>> \in References
      <4>1. <<cur, exist>> \in InputRefs(Cur, 0)
        BY <1>1, <1>2, <1>6 DEF InputRefs, InputsInClass
      <4> QED BY <1>2, <4>1, RefMember
    <3>3. map.sym[exist] # NoAnchor
      BY <2>3, <2>5 DEF Seen
    <3>4. /\ Good(Add(map, cur, map.sym[exist]), References)
          /\ InUse(Add(map, cur, map.sym[exist])) = InUse(map) \cup {cur}
      BY <1>2, <1>3, <2>2, <3>2, <3>3, GoodAdd
    <3>5. LeaveInputs({cur})
      BY <1>1, <1>3, <3>1, <3>4 DEF LeaveInputs
    <3> QED BY <1>2, <3>5, LeaveKeeps
  <2> QED BY <2>4, <2>5
<1> QED BY <1>4, <1>5, <1>6
LEMMA SubgraphOutputKeeps ==
  ASSUME IInv, SubgraphOutput
  PROVE  IInv'
<1>1. /\ pos <= Len(g.order) /\ phase = "in" /\ InKind(Cur) = "subgraph output" /\ idx < g.ins[Cur]
  BY DEF SubgraphOutput, AtInput, At
<1> DEFINE cur == In(Cur, idx)
           exist == Peer(Cur, idx)
           o == g.outputIdx[<<Cur, idx>>]
           out == Out(g.parent[Cur], o)
           m == UnionSymbolMapping(map, exist, out)
<1>2. /\ TypeOK /\ Control /\ idx \in Index /\ idx \in Inputs(Cur) /\ cur \in Anchor /\ idx \in Nat
      /\ pos \in DOMAIN g.order /\ Cur = g.order[pos] /\ Cur \in Node
  BY <1>1, AtFacts
<1>3. Good(map, References) /\ map.sym[cur] = NoAnchor /\ cur \notin InUse(map)
  <2>1. NotReached(pos, idx)
    <3>1. idx >= idx
      BY <1>2
    <3> QED BY <1>1, <3>1 DEF NotReached
  <2>2. ~Seen(In(g.order[pos], idx))
    BY <1>2, <2>1 DEF Control, InputsFresh
  <2> QED BY <1>2, <2>2, MapIsGood DEF Seen
<1>4. CASE exist = NoAnchor \/ (o # NoIndex /\ o >= g.outs[g.parent[Cur]])
  <2>1. Fail("invalid")
    BY <1>4 DEF SubgraphOutput
  <2> QED BY <2>1, FailKeeps
<1>5. CASE exist # NoAnchor /\ o = NoIndex
  <2>1. Skip
    BY <1>5 DEF SubgraphOutput
  <2> QED BY <1>1, <1>2, <2>1, SkipKeeps
<1>6. CASE exist # NoAnchor /\ o # NoIndex /\ ~(o >= g.outs[g.parent[Cur]])
  <2>1. exist \in Anchor /\ out \in Anchor
    <3>1. exist \in Anchor /\ o \in Index
      BY <1>2, <1>6, GraphFacts
    <3>2. g.parent[Cur] # NoNode
      BY <1>1 DEF InKind, IsSubgraphOutput, IsSubgraphInput, HiddenByParent
    <3>3. g.parent[Cur] \in Node
      BY <1>2, <3>2, GraphFacts
    <3> QED BY <3>1, <3>3 DEF Out, Anchor
  <2>2. /\ UnionFault(exist, out) \in {"unseen", "running"}
        /\ UnionFault(exist, out) = "running" => Seen(exist) /\ Seen(out)
    BY <2>1, NoFault
  <2>3. CASE UnionFault(exist, out) # "running"
    <3>1. Fail(UnionFault(exist, out))
      BY <1>6, <2>3 DEF SubgraphOutput
    <3> QED BY <2>2, <3>1, FailKeeps
  <2>4. CASE UnionFault(exist, out) = "running"
    <3>1. GoOn(Add(m, cur, m.sym[exist]))
      BY <1>6, <2>4 DEF SubgraphOutput
    <3>2. <<cur, exist>> \in References /\ <<exist, out>> \in References
      <4>1. <<cur, exist>> \in InputRefs(Cur, idx) /\ <<exist, out>> \in InputRefs(Cur, idx)
        BY <1>1, <1>2, <1>6 DEF InputRefs, InputsInClass
      <4> QED BY <1>2, <4>1, RefMember
    <3>3. map.sym[exist] # NoAnchor /\ map.sym[out] # NoAnchor
      BY <2>2, <2>4 DEF Seen
    <3>4. Good(m, References) /\ InUse(m) = InUse(map)
      BY <1>3, <2>1, <3>2, <3>3, GoodUnion
    <3> HIDE DEF m
    <3>5. m.sym[exist] # NoAnchor /\ m.sym[cur] = NoAnchor
      BY <1>2, <1>3, <2>1, <3>3, <3>4 DEF InUse
    <3>6. /\ Good(Add(m, cur, m.sym[exist]), References)
          /\ InUse(Add(m, cur, m.sym[exist])) = InUse(m) \cup {cur}
      BY <1>2, <2>1, <3>2, <3>4, <3>5, GoodAdd
    <3>7. Round({cur})
      BY <1>1, <1>2, <3>1, <3>4, <3>6 DEF Round, GoOn
    <3> QED BY <1>2, <3>7, RoundKeeps
  <2> QED BY <2>3, <2>4
<1> QED BY <1>4, <1>5, <1>6

\* The references of a merge go from each of its inputs to each producer.
LEMMA MergeRefs ==
  ASSUME IInv, pos <= Len(g.order), IsMerge(Cur), NEW i \in Inputs(Cur), NEW j \in Linked(Cur)
  PROVE  /\ i \in Linked(Cur) => /\ <<In(Cur, i), Peer(Cur, j)>> \in References
                                  /\ <<Peer(Cur, i), Peer(Cur, j)>> \in References
         /\ (i \notin Linked(Cur) /\ HasNext(Cur)) =>
              /\ <<In(Cur, i), Peer(Cur, j)>> \in References
              /\ <<Out(g.next[Cur], 0), Peer(Cur, j)>> \in References
<1>1. InKind(Cur) = "merge" /\ Linked(Cur) # {} /\ i \in Index
  BY DEF IsMerge, Inputs
<1>2. InputRefs(Cur, i) \subseteq References
  BY <1>1, AtFacts, RefMember
<1>3. Peer(Cur, j) \in {Peer(Cur, l) : l \in Linked(Cur)}
  OBVIOUS
<1>4. CASE i \in Linked(Cur)
  <2>1. InputRefs(Cur, i) = {In(Cur, i), Peer(Cur, i)} \X {Peer(Cur, l) : l \in Linked(Cur)}
    BY <1>1, <1>4 DEF InputRefs, InputsInClass
  <2> QED BY <1>2, <1>3, <1>4, <2>1
<1>5. CASE i \notin Linked(Cur) /\ HasNext(Cur)
  <2>1. InputRefs(Cur, i) = {In(Cur, i), Out(g.next[Cur], 0)} \X {Peer(Cur, l) : l \in Linked(Cur)}
    BY <1>1, <1>5 DEF InputRefs, InputsInClass
  <2> QED BY <1>2, <1>3, <1>5, <2>1
<1> QED BY <1>4, <1>5

LEMMA MergeUnionKeeps ==
  ASSUME IInv, MergeUnion
  PROVE  IInv'
<1>1. pos <= Len(g.order) /\ phase = "union" /\ idx < g.ins[Cur]
  BY DEF MergeUnion, At
<1> DEFINE exist == Peer(Cur, idx)
           m == UnionSymbolMapping(map, base, exist)
<1>2. TypeOK /\ Control /\ idx \in Index /\ idx \in Inputs(Cur) /\ IsMerge(Cur)
  BY <1>1, AtFacts DEF Control, PhaseFits
<1>3. CASE exist = NoAnchor
  <2>1. Skip /\ idx \notin Linked(Cur)
    BY <1>3 DEF MergeUnion, Linked
  <2> QED BY <1>1, <1>2, <2>1, SkipKeeps
<1>4. CASE exist # NoAnchor /\ base = NoAnchor
  <2>1. Fail("unseen")
    BY <1>4 DEF MergeUnion
  <2> QED BY <2>1, FailKeeps
<1>5. CASE exist # NoAnchor /\ base # NoAnchor
  <2>1. idx \in Linked(Cur) /\ exist \in Anchor /\ base \in Anchor
    BY <1>1, <1>2, <1>5, AtFacts DEF Linked, TypeOK
  <2>2. /\ UnionFault(base, exist) \in {"unseen", "running"}
        /\ UnionFault(base, exist) = "running" => Seen(base) /\ Seen(exist)
    BY <2>1, NoFault
  <2>3. CASE UnionFault(base, exist) # "running"
    <3>1. Fail(UnionFault(base, exist))
      BY <1>5, <2>3 DEF MergeUnion
    <3> QED BY <2>2, <3>1, FailKeeps
  <2>4. CASE UnionFault(base, exist) = "running"
    <3>1. GoOn(m)
      BY <1>5, <2>4 DEF MergeUnion
    <3>2. PICK j \in Linked(Cur) : base = Peer(Cur, j)
      BY <1>2, <1>5 DEF Control, BaseKnown
    <3>3. <<exist, base>> \in References
      BY <1>1, <1>2, <2>1, <3>2, MergeRefs
    <3>4. map.sym[base] # NoAnchor /\ map.sym[exist] # NoAnchor /\ Good(map, References)
      BY <2>2, <2>4, MapIsGood DEF Seen
    <3>5. Good(m, References) /\ InUse(m) = InUse(map)
      BY <2>1, <3>3, <3>4, GoodUnion
    <3>6. Round({})
      BY <1>1, <1>2, <1>5, <3>1, <3>5 DEF Round, GoOn
    <3> QED BY <3>6, RoundKeeps
  <2> QED BY <2>3, <2>4
<1> QED BY <1>3, <1>4, <1>5
\* The output of a NextIteration has no symbol before its merge gives it one.
LEMMA CutFresh ==
  ASSUME IInv, pos <= Len(g.order), phase = "add", idx < g.ins[Cur], idx \in Unlinked(Cur), HasNext(Cur)
  PROVE  ~Seen(Out(g.next[Cur], 0))
<1> SUFFICES ASSUME Seen(Out(g.next[Cur], 0)) PROVE FALSE
  OBVIOUS
<1>1. /\ TypeOK /\ Control /\ IsMerge(Cur) /\ pos \in DOMAIN g.order /\ Cur = g.order[pos] /\ idx \in Nat
  BY AtFacts DEF Control, PhaseFits
<1>2. /\ \A i, l \in Unlinked(Cur) : i = l
      /\ \E q \in DOMAIN g.order : g.order[q] = g.next[Cur] /\ pos < q
      /\ \A q \in DOMAIN g.order :
           (IsMerge(g.order[q]) /\ g.next[g.order[q]] = g.next[Cur]) => q = pos
  <2>1. LoopsAreCutOnce /\ g.next[Cur] # NoNode
    BY DEF IInv, GraphFits, HasNext
  <2> QED BY <1>1, <2>1 DEF LoopsAreCutOnce
<1>3. PICK q \in DOMAIN g.order : g.order[q] = g.next[Cur] /\ pos < q
  BY <1>2
<1>4. q \in Nat /\ pos \in Nat /\ 0 \in Index
  BY <1>1, GraphFacts, IndexAssumption DEF Index
<1>5. q > pos /\ Seen(Out(g.order[q], 0))
  BY <1>3, <1>4
<1>6. PICK p \in DOMAIN g.order : CutPassed(p) /\ g.next[g.order[p]] = g.order[q]
  BY <1>1, <1>4, <1>5 DEF Control, OutputsFresh
<1>7. p = pos
  BY <1>2, <1>3, <1>6 DEF CutPassed
<1>8. PICK l \in Unlinked(Cur) : l < idx
  BY <1>1, <1>4, <1>6, <1>7 DEF CutPassed
<1>9. l = idx
  BY <1>2, <1>8
<1> QED BY <1>1, <1>8, <1>9

LEMMA MergeAddKeeps ==
  ASSUME IInv, MergeAdd
  PROVE  IInv'
<1>1. pos <= Len(g.order) /\ phase = "add" /\ idx < g.ins[Cur]
  BY DEF MergeAdd, At
<1> DEFINE cur == In(Cur, idx)
           nxt == Out(g.next[Cur], 0)
           s == map.sym[base]
           m == Add(map, cur, s)
<1>2. /\ TypeOK /\ Control /\ idx \in Index /\ idx \in Inputs(Cur) /\ IsMerge(Cur) /\ cur \in Anchor
      /\ pos \in DOMAIN g.order /\ Cur = g.order[pos] /\ idx \in Nat /\ Cur \in Node
  BY <1>1, AtFacts DEF Control, PhaseFits
<1>3. CASE base = NoAnchor
  <2>1. Skip
    BY <1>3 DEF MergeAdd
  <2> QED BY <1>1, <1>2, <1>3, <2>1, SkipKeeps
<1>4. CASE base # NoAnchor /\ idx \notin Linked(Cur) /\ ~HasNext(Cur)
  <2>1. Peer(Cur, idx) = NoAnchor
    BY <1>2, <1>4 DEF Linked
  <2>2. Skip
    BY <1>4, <2>1 DEF MergeAdd
  <2> QED BY <1>1, <1>2, <1>4, <2>2, SkipKeeps
<1>5. CASE base # NoAnchor /\ (idx \in Linked(Cur) \/ HasNext(Cur))
  <2>1. /\ base \in Anchor /\ s # NoAnchor
        /\ \E j \in Linked(Cur) : base = Peer(Cur, j)
    BY <1>2, <1>5 DEF Control, BaseKnown, TypeOK, Seen
  <2>2. PICK j \in Linked(Cur) : base = Peer(Cur, j)
    BY <2>1
  <2>3. Good(map, References) /\ map.sym[cur] = NoAnchor
    <3>1. idx >= idx
      BY <1>2
    <3>2. NotReached(pos, idx)
      BY <1>1, <3>1 DEF NotReached
    <3>3. ~Seen(In(g.order[pos], idx))
      BY <1>2, <3>2 DEF Control, InputsFresh
    <3> QED BY <1>2, <3>3, MapIsGood DEF Seen
  <2>4. <<cur, base>> \in References
    BY <1>1, <1>2, <1>5, <2>2, MergeRefs
  <2>5. /\ Good(m, References) /\ InUse(m) = InUse(map) \cup {cur}
        /\ \A y \in Anchor \ {cur} : m.sym[y] = map.sym[y]
    BY <1>2, <2>1, <2>3, <2>4, GoodAdd
  <2>6. CASE idx \in Linked(Cur)
    <3>1. GoOn(m)
      BY <1>5, <2>6 DEF MergeAdd, Linked
    <3>2. idx \notin Unlinked(Cur)
      BY <2>6 DEF Unlinked
    <3> HIDE DEF m
    <3>3. Round({cur})
      BY <1>1, <1>2, <2>5, <3>1, <3>2 DEF Round, GoOn
    <3> QED BY <1>2, <3>3, RoundKeeps
  <2>7. CASE idx \notin Linked(Cur) /\ HasNext(Cur)
    <3>1. Peer(Cur, idx) = NoAnchor /\ idx \in Unlinked(Cur)
      BY <1>2, <2>7 DEF Linked, Unlinked
    <3>2. GoOn(Add(m, nxt, s))
      BY <1>5, <2>7, <3>1 DEF MergeAdd
    <3>3. nxt \in Anchor /\ nxt # cur /\ base # cur
      <4>1. g.next[Cur] \in Node
        BY <1>2, <2>7, GraphFacts DEF HasNext
      <4>2. nxt \in Anchor
        BY <4>1, IndexAssumption DEF Out, Anchor, Index
      <4>3. nxt # cur
        BY DEF Out, In
      <4> QED BY <2>1, <2>3, <4>2, <4>3
    <3>4. map.sym[nxt] = NoAnchor
      BY <1>1, <2>7, <3>1, CutFresh DEF Seen
    <3>5. <<nxt, base>> \in References
      BY <1>1, <1>2, <2>2, <2>7, MergeRefs
    <3> HIDE DEF m, s
    <3>6. m.sym[base] = s /\ m.sym[nxt] = NoAnchor
      BY <2>1, <2>5, <3>3, <3>4 DEF s
    <3>7. Good(Add(m, nxt, s), References) /\ InUse(Add(m, nxt, s)) = InUse(m) \cup {nxt}
      BY <2>1, <2>5, <3>3, <3>5, <3>6, GoodAdd
    <3>8. Round({cur, nxt})
      <4>1. InUse(Add(m, nxt, s)) = InUse(map) \cup {cur, nxt}
        BY <2>5, <3>7
      <4> QED BY <1>1, <1>2, <2>7, <3>1, <3>2, <3>7, <4>1 DEF Round, GoOn
    <3> QED BY <1>2, <3>3, <3>8, RoundKeeps
  <2> QED BY <1>5, <2>6, <2>7
<1> QED BY <1>3, <1>4, <1>5

\* The output of a NextIteration has the symbol of its merge when its turn comes.
LEMMA ClosedSeen ==
  ASSUME IInv, pos <= Len(g.order), phase = "out", NEW c \in InOrder, ClosesLoop(Cur, c)
  PROVE  Seen(Out(Cur, 0))
<1>1. TypeOK /\ Control /\ pos \in DOMAIN g.order /\ Cur = g.order[pos] /\ Cur \in Node
  BY AtFacts
<1>2. PICK p \in DOMAIN g.order : c = g.order[p]
  BY DEF InOrder
<1>3. IsMerge(c) /\ g.next[c] = Cur /\ HasNext(c) /\ Linked(c) # {} /\ Unlinked(c) # {}
  BY <1>1, IndexAssumption DEF ClosesLoop, HasNext
<1>4. PICK q \in DOMAIN g.order : g.order[q] = Cur /\ p < q
  BY <1>2, <1>3 DEF IInv, GraphFits, LoopsAreCutOnce, HasNext
<1>5. q = pos
  BY <1>1, <1>4 DEF IInv, GraphFits, Distinct
<1>6. CutPassed(p)
  BY <1>2, <1>3, <1>4, <1>5 DEF CutPassed
<1> QED BY <1>1, <1>2, <1>3, <1>6 DEF Control, CutsClosed

LEMMA OutputAnchorKeeps ==
  ASSUME IInv, OutputAnchor
  PROVE  IInv'
<1>1. pos <= Len(g.order) /\ phase = "out" /\ idx < g.outs[Cur]
  BY DEF OutputAnchor, At
<1> DEFINE cur == Out(Cur, idx)
           r == IsRefFromInput(Cur, idx)
           exist == In(Cur, r)
<1>2. /\ TypeOK /\ Control /\ idx \in Index /\ idx \in Outputs(Cur) /\ cur \in Anchor
      /\ pos \in DOMAIN g.order /\ Cur = g.order[pos] /\ Cur \in Node /\ pos \in Nat
  BY <1>1, AtFacts
<1>3. Good(map, References)
  BY MapIsGood
<1>4. CASE Seen(cur)
  <2>1. Skip
    BY <1>4 DEF OutputAnchor
  <2> QED BY <1>1, <1>2, <2>1, SkipKeeps
<1>5. CASE ~Seen(cur) /\ (r = NoIndex \/ r >= g.ins[Cur])
  <2>1. GoOn(EmplaceAlone(map, cur)) /\ map.sym[cur] = NoAnchor
    BY <1>5 DEF OutputAnchor, Seen
  <2>2. /\ Good(EmplaceAlone(map, cur), References)
        /\ InUse(EmplaceAlone(map, cur)) = InUse(map) \cup {cur}
    BY <1>2, <1>3, <2>1, GoodAlone
  <2>3. Round({cur})
    BY <1>1, <1>2, <2>1, <2>2 DEF Round, GoOn
  <2> QED BY <1>2, <2>3, RoundKeeps
<1>6. CASE ~Seen(cur) /\ r # NoIndex /\ ~(r >= g.ins[Cur])
  <2>1. r \in Index /\ r \in Inputs(Cur) /\ exist \in Anchor
    <3>1. r \in Index \cup {NoIndex}
      <4>1. 0 \in Index /\ g.named[<<Cur, idx>>] \in Index \cup {NoIndex} /\ g.reuse[<<Cur, idx>>] \in Index \cup {NoIndex}
        BY <1>2, GraphFacts, IndexAssumption DEF Index
      <4> QED BY <1>2, <4>1 DEF IsRefFromInput
    <3>2. r \in Index
      BY <1>6, <3>1
    <3>3. r < g.ins[Cur]
      BY <1>2, <1>6, <3>2, GraphFacts, IndexAssumption DEF Index
    <3> QED BY <1>1, <3>2, <3>3, AtFacts DEF Inputs
  <2>2. UpdateFault(exist) \in {"unseen", "running"} /\ (UpdateFault(exist) = "running" => Seen(exist))
    BY <2>1, NoFault
  <2>3. CASE UpdateFault(exist) # "running"
    <3>1. Fail(UpdateFault(exist))
      BY <1>6, <2>3 DEF OutputAnchor
    <3> QED BY <2>2, <3>1, FailKeeps
  <2>4. CASE UpdateFault(exist) = "running"
    <3>1. GoOn(Add(map, cur, map.sym[exist])) /\ map.sym[cur] = NoAnchor /\ map.sym[exist] # NoAnchor
      BY <1>6, <2>2, <2>4 DEF OutputAnchor, Seen
    <3>2. ~(idx = 0 /\ \E c \in InOrder : ClosesLoop(Cur, c))
      BY <1>1, <1>6, ClosedSeen
    <3>3. <<cur, exist>> \in References
      <4>1. <<cur, exist>> \in OutputRefs(Cur, idx)
        BY <2>1, <3>2 DEF OutputRefs
      <4> QED BY <1>2, <4>1, RefMember
    <3>4. /\ Good(Add(map, cur, map.sym[exist]), References)
          /\ InUse(Add(map, cur, map.sym[exist])) = InUse(map) \cup {cur}
      BY <1>2, <1>3, <2>1, <3>1, <3>3, GoodAdd
    <3>5. Round({cur})
      BY <1>1, <1>2, <3>1, <3>4 DEF Round, GoOn
    <3> QED BY <1>2, <3>5, RoundKeeps
  <2> QED BY <2>3, <2>4
<1> QED BY <1>4, <1>5, <1>6
\* A step that changes only where the loops are.
Move ==
  /\ g' = g /\ map' = map /\ result' = result
  /\ pos' \in 1 .. Len(g.order) + 1 /\ phase' \in {"in", "union", "add", "out"}
  /\ idx' \in 0 .. MaxIndex + 1 /\ base' \in Anchor \cup {NoAnchor}

LEMMA MoveKeeps ==
  ASSUME IInv, Move, PhaseFits', BaseKnown',
         \A p \in DOMAIN g.order, i \in Index : NotReached(p, i)' => NotReached(p, i),
         \A p \in DOMAIN g.order : CutPassed(p) => CutPassed(p)',
         \A p \in DOMAIN g.order :
           (CutPassed(p)' /\ Unlinked(g.order[p]) # {}) => CutPassed(p),
         pos' >= pos
  PROVE  IInv'
<1>1. g' = g /\ map' = map
  BY DEF Move
<1>2. Good(map, References) /\ TypeOK /\ Control
  BY MapIsGood DEF IInv
<1>3. MapsAgree' /\ ClassesAreHeldTogether'
  BY <1>1, <1>2, GoodIsMap
<1>4. TypeOK' /\ NothingLost'
  BY DEF IInv, TypeOK, NothingLost, Move
<1>5. GraphFits'
  BY <1>1, Still DEF IInv
<1>6. /\ \A n : Linked(n)' = Linked(n) /\ Unlinked(n)' = Unlinked(n)
      /\ \A x : Seen(x)' = Seen(x)
  BY <1>1, Still DEF Seen
<1>7. InputsFresh'
  <2> SUFFICES ASSUME NEW p \in DOMAIN g.order, NEW i \in Index, NotReached(p, i)'
               PROVE  ~Seen(In(g.order[p], i))'
    BY <1>1 DEF InputsFresh
  <2>1. ~Seen(In(g.order[p], i))
    BY <1>2 DEF Control, InputsFresh
  <2> QED BY <1>1, <2>1 DEF Seen, In
<1>8. OutputsFresh'
  <2> SUFFICES ASSUME NEW q \in DOMAIN g.order, NEW o \in Index, q > pos', Seen(Out(g.order[q], o))'
               PROVE  \E p \in DOMAIN g.order : CutPassed(p)' /\ g.next[g.order[p]] = g.order[q]
    BY <1>1 DEF OutputsFresh
  <2>1. Seen(Out(g.order[q], o))
    BY <1>1 DEF Seen, Out
  <2>2. pos \in Nat /\ pos' \in Nat /\ q \in Nat
    BY <1>2, GraphFacts DEF Move
  <2>3. q > pos
    BY <2>2
  <2>4. PICK p \in DOMAIN g.order : CutPassed(p) /\ g.next[g.order[p]] = g.order[q]
    BY <1>2, <2>1, <2>3 DEF Control, OutputsFresh
  <2> QED BY <2>4
<1>9. CutsClosed'
  <2> SUFFICES ASSUME NEW p \in DOMAIN g.order, CutPassed(p)', Linked(g.order[p]) # {}, Unlinked(g.order[p]) # {}
               PROVE  Seen(Out(g.next[g.order[p]], 0))'
    BY <1>1, <1>6 DEF CutsClosed
  <2>1. Seen(Out(g.next[g.order[p]], 0))
    BY <1>2 DEF Control, CutsClosed
  <2> QED BY <1>1, <2>1 DEF Seen, Out
<1> QED BY <1>3, <1>4, <1>5, <1>7, <1>8, <1>9 DEF IInv, Control

LEMMA MergeChooseKeeps ==
  ASSUME IInv, MergeChoose
  PROVE  IInv'
<1>1. pos <= Len(g.order) /\ phase = "in" /\ IsMerge(Cur)
  BY DEF MergeChoose, At
<1>2. TypeOK /\ Control /\ pos \in Nat /\ Cur = g.order[pos] /\ Cur \in Node /\ pos \in DOMAIN g.order
  BY <1>1, AtFacts
<1>3. CASE Fail("invalid")
  BY <1>3, FailKeeps
<1>4. CASE ~Fail("invalid")
  <2>1. /\ g' = g /\ map' = map /\ result' = result /\ pos' = pos /\ phase' = "union" /\ idx' = 0
        /\ \/ \E i \in Linked(Cur) : IsLargest(Cur, i) /\ base' = Peer(Cur, i)
           \/ base' = NoAnchor
    BY <1>4 DEF MergeChoose, Enter
  <2>2. /\ Cur' = Cur /\ \A n : /\ IsMerge(n)' = IsMerge(n) /\ Linked(n)' = Linked(n)
                               /\ Unlinked(n)' = Unlinked(n) /\ HasNext(n)' = HasNext(n)
        /\ \A n, i : Peer(n, i)' = Peer(n, i)
    BY <2>1, Still DEF Cur
  <2>3. base' # NoAnchor =>
          base' \in Anchor /\ map.sym[base'] # NoAnchor /\ \E j \in Linked(Cur) : base' = Peer(Cur, j)
    <3> SUFFICES ASSUME NEW i \in Linked(Cur), IsLargest(Cur, i)
                 PROVE  Peer(Cur, i) \in Anchor /\ map.sym[Peer(Cur, i)] # NoAnchor
      BY <2>1
    <3>1. Found(Peer(Cur, i))
      BY DEF IsLargest, ListLen
    <3> QED BY <1>1, <3>1, AtFacts DEF Found, Seen
  <2>4. Move
    <3>1. 0 \in 0 .. MaxIndex + 1
      BY IndexAssumption
    <3> QED BY <1>2, <2>1, <2>3, <3>1 DEF Move, TypeOK
  <2>5. PhaseFits'
    BY <1>1, <2>1, <2>2 DEF PhaseFits
  <2>6. BaseKnown'
    <3>1. \A j \in Linked(Cur) : j >= 0
      BY IndexAssumption DEF Linked, Inputs, Index
    <3> QED BY <2>1, <2>2, <2>3, <3>1 DEF BaseKnown, Seen
  <2>7. ASSUME NEW p \in DOMAIN g.order, NEW i \in Index, NotReached(p, i)' PROVE NotReached(p, i)
    <3>1. p = pos => i >= idx
      <4>1. idx = 0
        BY <1>1, <1>2 DEF Control, PhaseFits, IsMerge
      <4> QED BY <4>1, IndexAssumption DEF Index
    <3> QED BY <1>1, <2>1, <2>7, <3>1 DEF NotReached
  <2>8. ASSUME NEW p \in DOMAIN g.order PROVE CutPassed(p)' <=> CutPassed(p)
    BY <1>1, <2>1, <2>2 DEF CutPassed
  <2>9. pos' >= pos
    BY <1>2, <2>1
  <2> QED BY <2>4, <2>5, <2>6, <2>7, <2>8, <2>9, MoveKeeps
<1> QED BY <1>3, <1>4

LEMMA InputsDoneKeeps ==
  ASSUME IInv, InputsDone
  PROVE  IInv'
<1>1. /\ pos <= Len(g.order) /\ phase \in {"in", "union", "add"} /\ idx >= g.ins[Cur]
      /\ phase = "in" => InKind(Cur) \in {"plain", "subgraph output"}
      /\ g' = g /\ pos' = pos /\ map' = map /\ result' = result /\ idx' = 0
      /\ phase' = (IF phase = "union" THEN "add" ELSE "out")
      /\ base' = (IF phase = "union" THEN base ELSE NoAnchor)
  BY DEF InputsDone, At, Enter
<1>2. /\ TypeOK /\ Control /\ pos \in Nat /\ Cur = g.order[pos] /\ Cur \in Node /\ pos \in DOMAIN g.order
      /\ idx \in Nat /\ g.ins[Cur] \in 0 .. MaxIndex + 1
  BY <1>1, AtFacts
<1>3. CASE phase # "union"
  <2>1. LeaveInputs({})
    <3>1. Good(map, References)
      BY MapIsGood
    <3>2. IsMerge(Cur) => phase = "add"
      BY <1>1, <1>3 DEF IsMerge
    <3> QED BY <1>1, <1>3, <3>1, <3>2 DEF LeaveInputs
  <2> QED BY <2>1, LeaveKeeps
<1>4. CASE phase = "union"
  <2>1. phase' = "add" /\ base' = base
    BY <1>1, <1>4
  <2>2. /\ Cur' = Cur /\ \A n : /\ IsMerge(n)' = IsMerge(n) /\ Linked(n)' = Linked(n)
                               /\ Unlinked(n)' = Unlinked(n) /\ HasNext(n)' = HasNext(n)
        /\ \A n, i : Peer(n, i)' = Peer(n, i)
    BY <1>1, Still DEF Cur
  <2>3. Move
    <3>1. 0 \in 0 .. MaxIndex + 1
      BY IndexAssumption
    <3> QED BY <1>1, <1>2, <2>1, <3>1 DEF Move, TypeOK
  <2>4. PhaseFits'
    BY <1>1, <1>2, <1>4, <2>1, <2>2 DEF PhaseFits, Control
  <2>5. BaseKnown'
    <3>1. base = NoAnchor => Linked(Cur) = {}
      <4> SUFFICES ASSUME base = NoAnchor, NEW j \in Linked(Cur) PROVE FALSE
        OBVIOUS
      <4>1. j >= idx
        BY <1>2, <1>4 DEF Control, BaseKnown
      <4>2. j < g.ins[Cur] /\ j \in Nat
        BY IndexAssumption DEF Linked, Inputs, Index
      <4>3. g.ins[Cur] \in Nat
        BY <1>2, IndexAssumption
      <4>4. idx >= g.ins[Cur]
        BY <1>1
      <4>5. idx \in Nat
        BY <1>2
      <4> QED BY <4>1, <4>2, <4>3, <4>4, <4>5
    <3>2. base # NoAnchor => Seen(base) /\ \E j \in Linked(Cur) : base = Peer(Cur, j)
      BY <1>2 DEF Control, BaseKnown
    <3> QED BY <1>1, <2>1, <2>2, <3>1, <3>2 DEF BaseKnown, Seen
  <2>6. ASSUME NEW p \in DOMAIN g.order, NEW i \in Index, NotReached(p, i)' PROVE NotReached(p, i)
    BY <1>1, <1>4, <2>6 DEF NotReached
  <2>7. ASSUME NEW p \in DOMAIN g.order PROVE CutPassed(p)' <=> CutPassed(p)
    <3>1. \A j \in Unlinked(g.order[p]) : ~(j < 0)
      BY IndexAssumption DEF Unlinked, Inputs, Index
    <3>2. ~\E j \in Unlinked(g.order[p])' : j < idx'
      BY <1>1, <2>2, <3>1
    <3>3. CutPassed(p)' <=> (IsMerge(g.order[p]) /\ HasNext(g.order[p]) /\ p < pos)
      BY <1>1, <2>1, <2>2, <3>2 DEF CutPassed
    <3>4. CutPassed(p) <=> (IsMerge(g.order[p]) /\ HasNext(g.order[p]) /\ p < pos)
      BY <1>4 DEF CutPassed
    <3> QED BY <3>3, <3>4
  <2>8. pos' >= pos
    <3>1. pos' = pos
      BY <1>1
    <3>2. pos \in Nat
      BY <1>2
    <3> QED BY <3>1, <3>2
  <2> QED BY <2>3, <2>4, <2>5, <2>6, <2>7, <2>8, MoveKeeps
<1> QED BY <1>3, <1>4

LEMMA NodeDoneKeeps ==
  ASSUME IInv, NodeDone
  PROVE  IInv'
<1>1. /\ pos <= Len(g.order) /\ phase = "out"
      /\ g' = g /\ pos' = pos + 1 /\ map' = map /\ result' = result /\ idx' = 0 /\ phase' = "in"
      /\ base' = base
  BY DEF NodeDone, At
<1>2. /\ TypeOK /\ Control /\ pos \in Nat /\ pos \in DOMAIN g.order
  BY <1>1, AtFacts
<1>3. DOMAIN g.order = 1 .. Len(g.order) /\ Len(g.order) \in Nat
  BY <1>2, GraphFacts
<1>4. base = NoAnchor
  BY <1>1, <1>2 DEF Control, BaseKnown
<1>5. \A n : IsMerge(n)' = IsMerge(n) /\ HasNext(n)' = HasNext(n) /\ Unlinked(n)' = Unlinked(n)
  BY <1>1, Still
<1>6. Move
  <2>1. 0 \in 0 .. MaxIndex + 1 /\ pos + 1 \in 1 .. Len(g.order) + 1
    BY <1>2, <1>3, IndexAssumption
  <2> QED BY <1>1, <1>4, <2>1 DEF Move
<1>7. PhaseFits' /\ BaseKnown'
  BY <1>1, <1>4 DEF PhaseFits, BaseKnown
<1>8. ASSUME NEW p \in DOMAIN g.order, NEW i \in Index, NotReached(p, i)' PROVE NotReached(p, i)
  BY <1>1, <1>2, <1>3, <1>8 DEF NotReached
<1>9. ASSUME NEW p \in DOMAIN g.order PROVE CutPassed(p)' <=> CutPassed(p)
  <2>1. p < pos + 1 <=> (p < pos \/ p = pos)
    BY <1>2, <1>3
  <2> QED BY <1>1, <1>5, <2>1 DEF CutPassed
<1>10. pos' >= pos
  BY <1>1, <1>2
<1> QED BY <1>6, <1>7, <1>8, <1>9, <1>10, MoveKeeps

\* The last step, and no step at all.
LEMMA ReturnKeeps ==
  ASSUME IInv, Return \/ UNCHANGED vars
  PROVE  IInv'
<1>1. CASE Return
  <2>1. Fail("success")
    BY <1>1 DEF Return, Fail
  <2> QED BY <2>1, FailKeeps
<1>2. CASE UNCHANGED vars
  <2>1. Fail(result) /\ result' = result
    BY <1>2 DEF vars, Fail
  <2>2. PICK f \in {"invalid", "unseen", "running", "success"} : f = result
    BY DEF IInv, TypeOK, NothingLost
  <2>3. Fail(f)
    BY <2>1, <2>2 DEF Fail
  <2> QED BY <2>3, FailKeeps
<1> QED BY <1>1, <1>2

(***************************************************************************)
(* The theorems.                                                           *)
(***************************************************************************)
LEMMA InitEstablishes == Init => IInv
<1> SUFFICES ASSUME Init PROVE IInv
  OBVIOUS
<1>1. /\ g \in Shape /\ GraphFits /\ pos = 1 /\ phase = "in" /\ idx = 0 /\ base = NoAnchor
      /\ map = [lists |-> [a \in Anchor |-> <<>>], sym |-> [a \in Anchor |-> NoAnchor]]
      /\ result = "running"
  BY GraphsAssumption DEF Init, GraphFits
<1>2. /\ map.lists = [a \in Anchor |-> <<>>] /\ map.sym = [a \in Anchor |-> NoAnchor]
      /\ map \in MapType
  <2>1. <<>> \in Seq(Anchor)
    OBVIOUS
  <2> QED BY <1>1, <2>1 DEF MapType
<1>3. g.order \in Seq(Node) /\ Len(g.order) \in Nat
  BY <1>1 DEF Shape
<1>4. TypeOK /\ NothingLost
  <2>1. 0 \in 0 .. MaxIndex + 1 /\ 1 \in 1 .. Len(g.order) + 1
    BY <1>3, IndexAssumption
  <2> QED BY <1>1, <1>2, <2>1 DEF TypeOK, NothingLost, MapType
<1>5. \A x \in Anchor : ~Seen(x)
  BY <1>2 DEF Seen
<1>6. \A t \in Anchor : Members(map, t) = {} /\ map.lists[t] = <<>>
  BY <1>2 DEF Members
<1>7. MapsAgree
  BY <1>2, <1>6, IndexAssumption DEF MapsAgree
<1>8. ClassesAreHeldTogether
  <2>1. HeldTogether({}, References)
    BY HeldAlone
  <2> QED BY <1>6, <2>1 DEF ClassesAreHeldTogether
<1>9. /\ \A p \in DOMAIN g.order : g.order[p] \in Node /\ p \in Nat /\ p >= 1
      /\ 0 \in Index
  BY <1>3, IndexAssumption DEF Index
<1>10. InputsFresh /\ OutputsFresh
  <2>1. \A p \in DOMAIN g.order, i \in Index : In(g.order[p], i) \in Anchor /\ Out(g.order[p], i) \in Anchor
    BY <1>9 DEF In, Out, Anchor
  <2> QED BY <1>5, <2>1 DEF InputsFresh, OutputsFresh
<1>11. \A p \in DOMAIN g.order : ~CutPassed(p)
  <2>1. \A p \in DOMAIN g.order : ~(p < pos)
    BY <1>1, <1>9
  <2> QED BY <1>1, <2>1 DEF CutPassed
<1>12. PhaseFits /\ BaseKnown /\ CutsClosed
  BY <1>1, <1>11 DEF PhaseFits, BaseKnown, CutsClosed
<1> QED BY <1>1, <1>4, <1>7, <1>8, <1>10, <1>12 DEF IInv, Control

LEMMA StepPreserves == IInv /\ [Next]_vars => IInv'
<1> SUFFICES ASSUME IInv, [Next]_vars PROVE IInv'
  OBVIOUS
<1>1. CASE PlainInput
  BY <1>1, PlainInputKeeps
<1>2. CASE SubgraphInput
  BY <1>2, SubgraphInputKeeps
<1>3. CASE SubgraphOutput
  BY <1>3, SubgraphOutputKeeps
<1>4. CASE MergeChoose
  BY <1>4, MergeChooseKeeps
<1>5. CASE MergeUnion
  BY <1>5, MergeUnionKeeps
<1>6. CASE MergeAdd
  BY <1>6, MergeAddKeeps
<1>7. CASE InputsDone
  BY <1>7, InputsDoneKeeps
<1>8. CASE OutputAnchor
  BY <1>8, OutputAnchorKeeps
<1>9. CASE NodeDone
  BY <1>9, NodeDoneKeeps
<1>10. CASE Return \/ UNCHANGED vars
  BY <1>10, ReturnKeeps
<1> QED BY <1>1, <1>2, <1>3, <1>4, <1>5, <1>6, <1>7, <1>8, <1>9, <1>10 DEF Next

LEMMA InvariantHolds == Spec => []IInv
BY InitEstablishes, StepPreserves, PTL DEF Spec

\* Every state of GetRefMapping is of its type.
THEOREM TypeCorrect == Spec => []TypeOK
<1>1. IInv => TypeOK
  BY DEF IInv
<1> QED BY <1>1, InvariantHolds, PTL

\* For every graph, symbol_to_anchors and anchor_to_symbol agree between any
\* two rounds of the loops: each anchor is in the list of its symbol, once.
THEOREM MapsAgreeAlways == Spec => []MapsAgree
<1>1. IInv => MapsAgree
  BY DEF IInv
<1> QED BY <1>1, InvariantHolds, PTL

\* For every graph, UnionSymbolMapping and UpdateRefMapping never fail
\* because one map names what the other does not have.
THEOREM NothingLostAlways == Spec => []NothingLost
<1>1. IInv => NothingLost
  BY DEF IInv
<1> QED BY <1>1, InvariantHolds, PTL

\* For every graph, two anchors get the same symbol only if references of
\* the graph lead from one to the other.
THEOREM ClassesAreHeldTogetherAlways == Spec => []ClassesAreHeldTogether
<1>1. IInv => ClassesAreHeldTogether
  BY DEF IInv
<1> QED BY <1>1, InvariantHolds, PTL
(***************************************************************************)
(* No class is too small.                                                  *)
(***************************************************************************)
\* Two anchors have one symbol.
OneSymbol(m, x, y) == x \in Anchor /\ y \in Anchor /\ m.sym[x] # NoAnchor /\ m.sym[x] = m.sym[y]

\* An input, or an output, has got its symbol, and shares it with all that
\* its references name.
InputJoined(m, n, i) ==
  /\ i \in InputsInClass(n) => m.sym[In(n, i)] # NoAnchor
  /\ \A r \in InputRefs(n, i) : OneSymbol(m, r[1], r[2])
OutputJoined(m, n, o) ==
  /\ m.sym[Out(n, o)] # NoAnchor
  /\ \A r \in OutputRefs(n, o) : OneSymbol(m, r[1], r[2])

\* What the loops have behind them is joined.
InputPassed(p, i) ==
  \/ p < pos
  \/ p = pos /\ (phase = "out" \/ (phase \in {"in", "add"} /\ i < idx))
OutputPassed(p, o) == p < pos \/ (p = pos /\ phase = "out" /\ o < idx)
JoinedSoFar ==
  \A p \in DOMAIN g.order, i \in Index :
    /\ InputPassed(p, i) => InputJoined(map, g.order[p], i)
    /\ (OutputPassed(p, i) /\ i \in Outputs(g.order[p])) => OutputJoined(map, g.order[p], i)

\* An output that has a symbol before its turn is that of a NextIteration
\* whose loop a merge closes.
OutputsAhead ==
  \A q \in DOMAIN g.order, o \in Index :
    (~OutputPassed(q, o) /\ Seen(Out(g.order[q], o))) =>
      o = 0 /\ \E c \in InOrder : ClosesLoop(g.order[q], c)

\* The producers of a merge are joined one by one with max_node_index_io,
\* which there is when they all have symbols.
MergeJoined ==
  phase \in {"union", "add"} =>
    /\ \A j \in Linked(Cur) : ((phase = "add" \/ j < idx) /\ base # NoAnchor) => OneSymbol(map, base, Peer(Cur, j))
    /\ (Unlinked(Cur) # {} /\ HasNext(Cur)) => g.outs[g.next[Cur]] # 0
    /\ (Sorted /\ Linked(Cur) # {}) => base # NoAnchor

OnlyExpected == \A a \in Anchor : Seen(a) => a \in ToBeMapped
DoneAtEnd == result = "success" => pos > Len(g.order)

Progress == JoinedSoFar /\ OutputsAhead /\ MergeJoined /\ OnlyExpected /\ DoneAtEnd /\ SortedGraphSucceeds

\* A later pair of maps keeps together what was together.
Coarser(m, n) == \A x, y : OneSymbol(m, x, y) => OneSymbol(n, x, y)

LEMMA AddJoins ==
  ASSUME NEW m, NEW R, Good(m, R), NEW x \in Anchor, m.sym[x] = NoAnchor,
         NEW e \in Anchor, m.sym[e] # NoAnchor
  PROVE  /\ Coarser(m, Add(m, x, m.sym[e]))
         /\ OneSymbol(Add(m, x, m.sym[e]), x, e)
<1> DEFINE s == m.sym[e]
           n == Add(m, x, s)
<1>1. m \in MapType /\ Agree(m) /\ m.sym \in [Anchor -> Anchor \cup {NoAnchor}]
  BY DEF Good, MapType
<1>2. s \in Anchor /\ m.sym[s] = s
  BY <1>1, SymbolFacts
<1>3. n.sym = [m.sym EXCEPT ![x] = s]
  BY <1>1, <1>2, AddFacts
<1>4. s # NoAnchor /\ x # e
  OBVIOUS
<1> HIDE DEF n
<1>5. n.sym[x] = s /\ n.sym[e] = s /\ \A y \in Anchor \ {x} : n.sym[y] = m.sym[y]
  BY <1>1, <1>3, <1>4
<1>6. Coarser(m, n)
  BY <1>5 DEF Coarser, OneSymbol
<1>7. OneSymbol(n, x, e)
  BY <1>4, <1>5 DEF OneSymbol
<1> QED BY <1>6, <1>7 DEF n

LEMMA AloneJoins ==
  ASSUME NEW m, NEW R, Good(m, R), NEW x \in Anchor, m.sym[x] = NoAnchor
  PROVE  Coarser(m, AddAlone(m, x)) /\ AddAlone(m, x).sym[x] # NoAnchor
<1> DEFINE n == AddAlone(m, x)
<1>1. m \in MapType /\ Agree(m) /\ m.sym \in [Anchor -> Anchor \cup {NoAnchor}]
  BY DEF Good, MapType
<1>2. n.sym = [m.sym EXCEPT ![x] = x]
  BY <1>1, AloneFacts
<1> HIDE DEF n
<1>3. n.sym[x] = x /\ x # NoAnchor /\ \A y \in Anchor \ {x} : n.sym[y] = m.sym[y]
  BY <1>1, <1>2, IndexAssumption
<1>4. Coarser(m, n)
  BY <1>3 DEF Coarser, OneSymbol
<1> QED BY <1>3, <1>4 DEF n

LEMMA UnionJoins ==
  ASSUME NEW m, NEW R, Good(m, R), NEW a \in Anchor, NEW b \in Anchor,
         m.sym[a] # NoAnchor, m.sym[b] # NoAnchor
  PROVE  /\ Coarser(m, UnionSymbolMapping(m, a, b))
         /\ OneSymbol(UnionSymbolMapping(m, a, b), a, b)
<1> DEFINE s == m.sym[a]
           t == m.sym[b]
           keep == Larger(m, s, t)
           drop == Smaller(m, s, t)
           n == Relabel(m, keep, drop)
<1>1. CASE s = t
  BY <1>1 DEF UnionSymbolMapping, Coarser, OneSymbol
<1>2. CASE s # t
  <2>1. m \in MapType /\ Agree(m) /\ m.sym \in [Anchor -> Anchor \cup {NoAnchor}]
    BY DEF Good, MapType
  <2>2. s \in Anchor /\ m.sym[s] = s /\ t \in Anchor /\ m.sym[t] = t
    BY <2>1, SymbolFacts
  <2>3. UnionSymbolMapping(m, a, b) = n
    BY <1>2 DEF UnionSymbolMapping
  <2>4. (keep = s /\ drop = t) \/ (keep = t /\ drop = s)
    BY DEF Larger, Smaller
  <2>5. m.sym[a] = s /\ m.sym[b] = t
    OBVIOUS
  <2> HIDE DEF s, t, keep, drop
  <2>6. keep \in Anchor /\ drop \in Anchor /\ keep # drop /\ m.sym[keep] = keep /\ keep # NoAnchor /\ drop # NoAnchor
    BY <1>2, <2>2, <2>4, IndexAssumption
  <2>7. \A x \in Anchor : n.sym[x] = IF m.sym[x] = drop THEN keep ELSE m.sym[x]
    BY <2>1, <2>6, RelabelFacts
  <2> HIDE DEF n
  <2>8. Coarser(m, n)
    BY <2>6, <2>7 DEF Coarser, OneSymbol
  <2>9. OneSymbol(n, a, b)
    BY <2>4, <2>5, <2>6, <2>7 DEF OneSymbol
  <2> QED BY <2>3, <2>8, <2>9
<1> QED BY <1>1, <1>2

LEMMA CoarserAgain ==
  ASSUME NEW m, NEW n, NEW k, Coarser(m, n), Coarser(n, k)
  PROVE  Coarser(m, k)
BY DEF Coarser

\* A set of numbers has a least one.
Less == {s \in Nat \X Nat : s[1] < s[2]}
LEMMA LessIsWellFounded == IsWellFoundedOn(Less, Nat)
<1>1. Less = OpToRel(<, Nat)
  BY DEF Less, OpToRel
<1> QED BY <1>1, NatLessThanWellFounded

LEMMA LeastNumber ==
  ASSUME NEW S, S \subseteq Nat, S # {}
  PROVE  \E x \in S : \A y \in S : x <= y
<1>1. \E x \in S : \A y \in S : ~(<<y, x>> \in Less)
  BY LessIsWellFounded, WFMin
<1>2. PICK x \in S : \A y \in S : ~(<<y, x>> \in Less)
  BY <1>1
<1>3. ASSUME NEW y \in S PROVE x <= y
  <2>1. x \in Nat /\ y \in Nat /\ ~(<<y, x>> \in Less)
    BY <1>2
  <2>2. ~(y < x)
    BY <2>1 DEF Less
  <2> QED BY <2>1, <2>2
<1> QED BY <1>3

\* Among the inputs with the longest list there is a first one.
Tops(f, S) == {i \in S : \A j \in S : f[j] <= f[i] /\ (f[j] = f[i] => i <= j)}
LEMMA FirstOfLargest ==
  ASSUME NEW N \in Nat, NEW S \in SUBSET (0 .. N), S # {}, NEW f \in [S -> Nat]
  PROVE  Tops(f, S) # {}
<1> DEFINE Upto(k) == {i \in S : i < k}
           K == {k \in Nat : Upto(k) # {} /\ Tops(f, Upto(k)) = {}}
<1>0. \A i \in S : f[i] \in Nat
  OBVIOUS
<1>8. \A i \in S : i \in Nat /\ i <= N
  OBVIOUS
<1>9. \A k \in Nat : \A i : i \in Upto(k) <=> (i \in S /\ i < k)
  OBVIOUS
<1> HIDE DEF Upto
<1>1. K = {}
  <2> SUFFICES ASSUME K # {} PROVE FALSE
    OBVIOUS
  <2>1. PICK k \in K : \A l \in K : k <= l
    <3>1. K \subseteq Nat
      OBVIOUS
    <3> HIDE DEF K
    <3> QED BY <3>1, LeastNumber
  <2>2. k \in Nat /\ Upto(k) # {} /\ Tops(f, Upto(k)) = {}
    BY <2>1
  <2>3. PICK i0 : i0 \in Upto(k)
    BY <2>2
  <2>4. k # 0 /\ k - 1 \in Nat
    <3>1. i0 \in S /\ i0 < k
      BY <1>9, <2>2, <2>3
    <3> QED BY <1>8, <2>2, <3>1
  <2>5. k - 1 \notin K
    BY <2>1, <2>4
  <2>6. \A i : i \in Upto(k) <=> (i \in Upto(k - 1) \/ (i = k - 1 /\ i \in S))
    <3>1. \A i : i \in Upto(k) <=> (i \in S /\ i < k)
      BY <1>9, <2>2
    <3>2. \A i : i \in Upto(k - 1) <=> (i \in S /\ i < k - 1)
      BY <1>9, <2>4
    <3>3. \A i \in S : i < k <=> (i < k - 1 \/ i = k - 1)
      BY <1>8, <2>2
    <3> QED BY <2>2, <3>1, <3>2, <3>3
  <2> HIDE DEF K
  <2>7. CASE Upto(k - 1) = {}
    <3>1. k - 1 \in S /\ Upto(k) = {k - 1}
      BY <2>2, <2>6, <2>7
    <3>2. k - 1 \in Tops(f, Upto(k))
      <4>1. f[k - 1] <= f[k - 1] /\ k - 1 <= k - 1
        BY <1>0, <2>4, <3>1
      <4> QED BY <3>1, <4>1 DEF Tops
    <3> QED BY <2>2, <3>2
  <2>8. CASE Upto(k - 1) # {}
    <3>1. Tops(f, Upto(k - 1)) # {}
      BY <2>4, <2>5, <2>8 DEF K
    <3>2. PICK m \in Upto(k - 1) : \A j \in Upto(k - 1) : f[j] <= f[m] /\ (f[j] = f[m] => m <= j)
      BY <3>1 DEF Tops
    <3>3. m \in S /\ m < k - 1 /\ m \in Upto(k)
      BY <1>9, <2>4, <2>6, <3>2
    <3>4. CASE k - 1 \in S /\ f[k - 1] > f[m]
      <4>1. \A j \in Upto(k) : f[j] <= f[k - 1] /\ (f[j] = f[k - 1] => k - 1 <= j)
        <5> TAKE j \in Upto(k)
        <5>1. CASE j \in Upto(k - 1)
          <6>1. f[j] <= f[m] /\ j \in S /\ f[j] \in Nat /\ f[m] \in Nat /\ f[k - 1] \in Nat
            BY <1>0, <1>9, <2>4, <3>2, <3>3, <3>4, <5>1
          <6> QED BY <3>4, <6>1
        <5>2. CASE j = k - 1
          BY <1>0, <1>8, <2>4, <3>4, <5>2
        <5> QED BY <2>6, <5>1, <5>2
      <4>2. k - 1 \in Upto(k)
        BY <2>6, <3>4
      <4>3. k - 1 \in Tops(f, Upto(k))
        BY <4>1, <4>2 DEF Tops
      <4> QED BY <2>2, <4>3
    <3>5. CASE ~(k - 1 \in S /\ f[k - 1] > f[m])
      <4>1. \A j \in Upto(k) : f[j] <= f[m] /\ (f[j] = f[m] => m <= j)
        <5> TAKE j \in Upto(k)
        <5>1. CASE j \in Upto(k - 1)
          BY <3>2, <5>1
        <5>2. CASE j = k - 1 /\ j \in S
          BY <1>0, <1>8, <2>4, <3>3, <3>5, <5>2
        <5> QED BY <2>6, <5>1, <5>2
      <4>2. m \in Tops(f, Upto(k))
        BY <3>3, <4>1 DEF Tops
      <4> QED BY <2>2, <4>2
    <3> QED BY <3>4, <3>5
  <2> QED BY <2>7, <2>8
<1>2. Upto(N + 1) = S
  <2>1. N + 1 \in Nat
    OBVIOUS
  <2>2. \A i : i \in Upto(N + 1) <=> (i \in S /\ i < N + 1)
    BY <1>9, <2>1
  <2>3. \A i \in S : i < N + 1
    BY <1>8
  <2> QED BY <2>2, <2>3
<1> QED BY <1>1, <1>2
(***************************************************************************)
(* What every step has to show of the progress.                            *)
(***************************************************************************)
LEMMA StillMore ==
  ASSUME g' = g
  PROVE  /\ Sorted' = Sorted /\ ToBeMapped' = ToBeMapped /\ InOrder' = InOrder
         /\ \A n : Outputs(n)' = Outputs(n) /\ InputsInClass(n)' = InputsInClass(n)
         /\ \A n, i : InputRefs(n, i)' = InputRefs(n, i) /\ OutputRefs(n, i)' = OutputRefs(n, i)
         /\ \A b, n : ClosesLoop(b, n)' = ClosesLoop(b, n)
<1> USE DEF HasNext, Peer, Outputs, IsMerge, InKind, Unlinked, Linked, Inputs, HiddenByParent,
            IsSubgraphInput, IsSubgraphOutput
<1>1. InOrder' = InOrder
  BY DEF InOrder
<1>2. \A n : Outputs(n)' = Outputs(n) /\ InputsInClass(n)' = InputsInClass(n)
  BY DEF InputsInClass
<1>3. \A b, n : ClosesLoop(b, n)' = ClosesLoop(b, n)
  BY DEF ClosesLoop
<1>4. \A n, i : InputRefs(n, i)' = InputRefs(n, i)
  BY DEF InputRefs, InputsInClass
<1>5. \A n, i : OutputRefs(n, i)' = OutputRefs(n, i)
  BY DEF OutputRefs, ClosesLoop, InOrder, IsRefFromInput
<1>6. Sorted' = Sorted
  BY DEF Sorted, Ready, Earlier, InputsInClass, IsRefFromInput
<1>7. ToBeMapped' = ToBeMapped
  BY DEF ToBeMapped, InOrder, InputsInClass
<1> QED BY <1>1, <1>2, <1>3, <1>4, <1>5, <1>6, <1>7

\* What is joined in the maps stays joined in later ones.
LEMMA JoinedLater ==
  ASSUME NEW m, NEW k, Coarser(m, k), InUse(m) \subseteq InUse(k), NEW n \in Node, NEW i \in Index
  PROVE  /\ InputJoined(m, n, i) => InputJoined(k, n, i)
         /\ OutputJoined(m, n, i) => OutputJoined(k, n, i)
<1>1. In(n, i) \in Anchor /\ Out(n, i) \in Anchor
  BY DEF In, Out, Anchor
<1>2. /\ m.sym[In(n, i)] # NoAnchor => k.sym[In(n, i)] # NoAnchor
      /\ m.sym[Out(n, i)] # NoAnchor => k.sym[Out(n, i)] # NoAnchor
  BY <1>1 DEF InUse
<1>3. \A r : OneSymbol(m, r[1], r[2]) => OneSymbol(k, r[1], r[2])
  BY DEF Coarser
<1> QED BY <1>2, <1>3 DEF InputJoined, OutputJoined

LEMMA ProgressKept ==
  ASSUME IInv, Progress, g' = g, NEW New \in SUBSET Anchor, map' \in MapType,
         InUse(map') = InUse(map) \cup New, Coarser(map, map'), New \subseteq ToBeMapped,
         \A p \in DOMAIN g.order, i \in Index :
           InputPassed(p, i)' => InputPassed(p, i) \/ InputJoined(map', g.order[p], i),
         \A p \in DOMAIN g.order, o \in Index :
           (OutputPassed(p, o)' /\ o \in Outputs(g.order[p])) =>
             OutputPassed(p, o) \/ OutputJoined(map', g.order[p], o),
         \A p \in DOMAIN g.order, o \in Index : OutputPassed(p, o) => OutputPassed(p, o)',
         \A q \in DOMAIN g.order, o \in Index :
           Out(g.order[q], o) \in New =>
             OutputPassed(q, o)' \/ (o = 0 /\ \E c \in InOrder : ClosesLoop(g.order[q], c)),
         MergeJoined', DoneAtEnd', Sorted => result' \in {"running", "success"}
  PROVE  Progress'
<1>1. \A p \in DOMAIN g.order : g.order[p] \in Node
  BY GraphFacts DEF IInv
<1>2. \A n : Outputs(n)' = Outputs(n)
  BY StillMore
<1>3. \A n, i : InputJoined(map, n, i)' <=> InputJoined(map', n, i)
  BY StillMore DEF InputJoined, In
<1>4. \A n, i : OutputJoined(map, n, i)' <=> OutputJoined(map', n, i)
  BY StillMore DEF OutputJoined, Out
<1>5. JoinedSoFar'
  <2>1. ASSUME NEW p \in DOMAIN g.order, NEW i \in Index
        PROVE  /\ InputJoined(map, g.order[p], i) => InputJoined(map', g.order[p], i)
               /\ OutputJoined(map, g.order[p], i) => OutputJoined(map', g.order[p], i)
    <3>1. InUse(map) \subseteq InUse(map')
      OBVIOUS
    <3> QED BY <1>1, <3>1, JoinedLater
  <2>2. ASSUME NEW p \in DOMAIN g.order, NEW i \in Index, InputPassed(p, i)'
        PROVE  InputJoined(map', g.order[p], i)
    BY <2>1, <2>2 DEF Progress, JoinedSoFar
  <2>3. ASSUME NEW p \in DOMAIN g.order, NEW i \in Index, OutputPassed(p, i)', i \in Outputs(g.order[p])
        PROVE  OutputJoined(map', g.order[p], i)
    BY <2>1, <2>3 DEF Progress, JoinedSoFar
  <2> QED BY <1>2, <1>3, <1>4, <2>2, <2>3 DEF JoinedSoFar
<1>6. \A a \in Anchor : Seen(a)' => Seen(a) \/ a \in New
  BY DEF InUse, Seen
<1>7. OutputsAhead'
  <2> SUFFICES ASSUME NEW q \in DOMAIN g.order, NEW o \in Index, ~OutputPassed(q, o)', Seen(Out(g.order[q], o))'
               PROVE  o = 0 /\ \E c \in InOrder : ClosesLoop(g.order[q], c)
    BY StillMore DEF OutputsAhead
  <2>1. Out(g.order[q], o) \in Anchor /\ Out(g.order[q], o)' = Out(g.order[q], o)
    BY <1>1 DEF Out, Anchor
  <2>2. ~OutputPassed(q, o)
    OBVIOUS
  <2>3. CASE Seen(Out(g.order[q], o))
    BY <2>2, <2>3 DEF Progress, OutputsAhead
  <2>4. CASE Out(g.order[q], o) \in New
    BY <2>4
  <2>5. Seen(Out(g.order[q], o))' <=> map'.sym[Out(g.order[q], o)] # NoAnchor
    BY <2>1 DEF Seen
  <2> QED BY <1>6, <2>1, <2>3, <2>4, <2>5 DEF Seen
<1>8. OnlyExpected'
  BY <1>6, StillMore DEF Progress, OnlyExpected
<1>9. SortedGraphSucceeds'
  BY StillMore DEF SortedGraphSucceeds
<1> QED BY <1>5, <1>7, <1>8, <1>9 DEF Progress
\* A round that gives symbols to the anchors in New, and what it joins.
LEMMA RoundProgress ==
  ASSUME IInv, Progress, result = "running", NEW New \in SUBSET Anchor, Round(New),
         Coarser(map, map'), New \subseteq ToBeMapped,
         phase \in {"in", "add"} => InputJoined(map', Cur, idx),
         phase = "out" => New \subseteq {Out(Cur, idx)} /\ OutputJoined(map', Cur, idx),
         (phase = "union" /\ idx \in Linked(Cur) /\ base # NoAnchor) => OneSymbol(map', base, Peer(Cur, idx)),
         (phase = "add" /\ New # {}) => base # NoAnchor
  PROVE  Progress'
<1>1. /\ g' = g /\ pos' = pos /\ phase' = phase /\ base' = base /\ idx' = idx + 1 /\ result' = result
      /\ pos <= Len(g.order) /\ Good(map', References) /\ InUse(map') = InUse(map) \cup New
      /\ idx \in Index
  BY DEF Round
<1>2. /\ TypeOK /\ Control /\ Cur = g.order[pos] /\ pos \in DOMAIN g.order /\ idx \in Nat /\ pos \in Nat
      /\ Distinct /\ Cur' = Cur
  BY <1>1, AtFacts DEF IInv, GraphFits, Cur
<1>3. \A i \in Index : i \in Nat /\ (i < idx + 1 <=> i < idx \/ i = idx)
  BY <1>2, IndexAssumption DEF Index
<1>4. ASSUME NEW p \in DOMAIN g.order, NEW i \in Index, InputPassed(p, i)'
      PROVE  InputPassed(p, i) \/ InputJoined(map', g.order[p], i)
  BY <1>1, <1>2, <1>3, <1>4 DEF InputPassed
<1>5. ASSUME NEW p \in DOMAIN g.order, NEW o \in Index, OutputPassed(p, o)'
      PROVE  OutputPassed(p, o) \/ OutputJoined(map', g.order[p], o)
  BY <1>1, <1>2, <1>3, <1>5 DEF OutputPassed
<1>6. ASSUME NEW p \in DOMAIN g.order, NEW o \in Index, OutputPassed(p, o)
      PROVE  OutputPassed(p, o)'
  BY <1>1, <1>3, <1>6 DEF OutputPassed
<1>7. ASSUME NEW q \in DOMAIN g.order, NEW o \in Index, Out(g.order[q], o) \in New
      PROVE  OutputPassed(q, o)' \/ (o = 0 /\ \E c \in InOrder : ClosesLoop(g.order[q], c))
  <2>1. CASE phase = "out"
    <3>1. g.order[q] = Cur /\ o = idx
      BY <1>7, <2>1 DEF Out
    <3>2. q = pos
      BY <1>2, <3>1 DEF Distinct
    <3> QED BY <1>1, <1>3, <2>1, <3>1, <3>2 DEF OutputPassed
  <2>2. CASE phase # "out"
    <3>1. \A i : Out(g.order[q], o) # In(Cur, i)
      BY DEF In, Out
    <3>2. phase = "add" /\ HasNext(Cur) /\ idx \in Unlinked(Cur) /\ Out(g.order[q], o) = Out(g.next[Cur], 0)
      BY <1>7, <2>2, <3>1 DEF Round
    <3>3. o = 0 /\ g.next[Cur] = g.order[q]
      BY <3>2 DEF Out
    <3>4. Linked(Cur) # {} /\ IsMerge(Cur)
      BY <1>2, <1>7, <3>2 DEF Control, BaseKnown, PhaseFits
    <3>5. Cur \in InOrder /\ ClosesLoop(g.order[q], Cur)
      BY <1>2, <3>2, <3>3, <3>4 DEF ClosesLoop, InOrder
    <3> QED BY <3>3, <3>5
  <2> QED BY <2>1, <2>2
<1>8. MergeJoined'
  <2>1. /\ \A n : Linked(n)' = Linked(n) /\ Unlinked(n)' = Unlinked(n) /\ HasNext(n)' = HasNext(n)
        /\ \A n, i : Peer(n, i)' = Peer(n, i)
        /\ Sorted' = Sorted
    BY <1>1, Still, StillMore
  <2>2. MergeJoined /\ Coarser(map, map')
    BY DEF Progress
  <2>3. ASSUME phase \in {"union", "add"}, NEW j \in Linked(Cur), phase = "add" \/ j < idx + 1, base # NoAnchor
        PROVE  OneSymbol(map', base, Peer(Cur, j))
    <3>1. j \in Index
      BY DEF Linked, Inputs
    <3>2. CASE phase = "add" \/ j < idx
      <4>1. OneSymbol(map, base, Peer(Cur, j))
        BY <2>2, <2>3, <3>2 DEF MergeJoined
      <4> QED BY <2>2, <4>1 DEF Coarser
    <3>3. CASE phase = "union" /\ j = idx
      BY <2>3, <3>3
    <3> QED BY <1>3, <2>3, <3>1, <3>2, <3>3
  <2>4. \A j : OneSymbol(map, base, Peer(Cur, j))' <=> OneSymbol(map', base, Peer(Cur, j))
    BY <1>1, <1>2, <2>1 DEF OneSymbol
  <2>5. phase \in {"union", "add"} =>
          /\ (Unlinked(Cur) # {} /\ HasNext(Cur)) => g.outs[g.next[Cur]] # 0
          /\ (Sorted /\ Linked(Cur) # {}) => base # NoAnchor
    BY <2>2 DEF MergeJoined
  <2> QED BY <1>1, <1>2, <2>1, <2>3, <2>4, <2>5 DEF MergeJoined
<1>9. DoneAtEnd' /\ result' = "running"
  BY <1>1 DEF DoneAtEnd
<1>10. map' \in MapType
  BY <1>1 DEF Good
<1> QED BY <1>1, <1>4, <1>5, <1>6, <1>7, <1>8, <1>9, <1>10, ProgressKept

\* A round that changes no map.
LEMMA SkipProgress ==
  ASSUME IInv, Progress, result = "running", pos <= Len(g.order), idx \in Index, Skip,
         phase = "in" => InKind(Cur) \notin {"merge", "subgraph input"},
         (phase = "add" /\ HasNext(Cur) /\ idx \in Unlinked(Cur)) => base = NoAnchor,
         (phase = "union" /\ base = NoAnchor) => idx \notin Linked(Cur),
         phase \in {"in", "add"} => InputJoined(map, Cur, idx),
         phase = "out" => OutputJoined(map, Cur, idx),
         phase = "union" => idx \notin Linked(Cur)
  PROVE  Progress'
<1>1. Good(map, References)
  BY MapIsGood
<1>2. Round({}) /\ map' = map
  BY <1>1 DEF Round, Skip, GoOn
<1>3. Coarser(map, map')
  BY <1>2 DEF Coarser
<1> QED BY <1>2, <1>3, RoundProgress

LEMMA LeaveProgress ==
  ASSUME IInv, Progress, result = "running", NEW New \in SUBSET Anchor, LeaveInputs(New),
         Coarser(map, map'), New \subseteq ToBeMapped,
         \A i \in Index : InputPassed(pos, i) \/ InputJoined(map', Cur, i)
  PROVE  Progress'
<1>1. /\ g' = g /\ pos' = pos /\ phase' = "out" /\ base' = NoAnchor /\ idx' = 0 /\ result' = result
      /\ pos <= Len(g.order) /\ Good(map', References) /\ InUse(map') = InUse(map) \cup New
      /\ New \subseteq {In(Cur, 0)} /\ phase \in {"in", "add"}
  BY DEF LeaveInputs
<1>2. TypeOK /\ Cur = g.order[pos] /\ pos \in DOMAIN g.order /\ pos \in Nat
  BY <1>1, AtFacts
<1>3. ASSUME NEW p \in DOMAIN g.order, NEW i \in Index, InputPassed(p, i)'
      PROVE  InputPassed(p, i) \/ InputJoined(map', g.order[p], i)
  BY <1>1, <1>2, <1>3 DEF InputPassed
<1>4. \A i \in Index : ~(i < 0)
  BY IndexAssumption DEF Index
<1>5. ASSUME NEW p \in DOMAIN g.order, NEW o \in Index
      PROVE  OutputPassed(p, o)' <=> OutputPassed(p, o)
  BY <1>1, <1>4 DEF OutputPassed
<1>6. \A q, o : Out(g.order[q], o) \notin New
  BY <1>1 DEF In, Out
<1>7. MergeJoined' /\ DoneAtEnd' /\ result' = "running"
  BY <1>1 DEF MergeJoined, DoneAtEnd
<1>8. map' \in MapType
  BY <1>1 DEF Good
<1> QED BY <1>1, <1>3, <1>5, <1>6, <1>7, <1>8, ProgressKept

\* A step that changes no map and leaves nothing out.
LEMMA StepProgress ==
  ASSUME IInv, Progress, g' = g, map' = map,
         \A p \in DOMAIN g.order, i \in Index : InputPassed(p, i)' => InputPassed(p, i),
         \A p \in DOMAIN g.order, o \in Index :
           (OutputPassed(p, o)' /\ o \in Outputs(g.order[p])) => OutputPassed(p, o),
         \A p \in DOMAIN g.order, o \in Index : OutputPassed(p, o) => OutputPassed(p, o)',
         MergeJoined', DoneAtEnd', Sorted => result' \in {"running", "success"}
  PROVE  Progress'
<1>1. map' \in MapType
  BY DEF IInv, TypeOK, MapType
<1>2. Coarser(map, map')
  BY DEF Coarser
<1> DEFINE New == {}
<1>3. New \in SUBSET Anchor /\ New \subseteq ToBeMapped /\ InUse(map') = InUse(map) \cup New
      /\ \A x : x \notin New
  OBVIOUS
<1> HIDE DEF New
<1> QED BY <1>1, <1>2, <1>3, ProgressKept

\* An early return, and the last one.
LEMMA ResultProgress ==
  ASSUME IInv, Progress, NEW f, Fail(f),
         f = "success" => pos > Len(g.order),
         Sorted => f \in {"running", "success"}
  PROVE  Progress'
<1>1. g' = g /\ pos' = pos /\ phase' = phase /\ idx' = idx /\ base' = base /\ map' = map /\ result' = f
  BY DEF Fail
<1>2. /\ \A n : Linked(n)' = Linked(n) /\ Unlinked(n)' = Unlinked(n) /\ HasNext(n)' = HasNext(n)
      /\ \A n, i : Peer(n, i)' = Peer(n, i)
      /\ Sorted' = Sorted
  BY <1>1, Still, StillMore
<1>3. MergeJoined'
  <2>1. Cur' = Cur /\ \A x, y : OneSymbol(map, x, y)' <=> OneSymbol(map, x, y)
    BY <1>1 DEF Cur, OneSymbol
  <2>2. MergeJoined
    BY DEF Progress
  <2> QED BY <1>1, <1>2, <2>1, <2>2 DEF MergeJoined, OneSymbol
<1>4. DoneAtEnd'
  BY <1>1 DEF DoneAtEnd
<1>5. \A p, i : (InputPassed(p, i)' <=> InputPassed(p, i)) /\ (OutputPassed(p, i)' <=> OutputPassed(p, i))
  BY <1>1 DEF InputPassed, OutputPassed
<1> QED BY <1>1, <1>3, <1>4, <1>5, StepProgress
(***************************************************************************)
(* In a sorted graph the producers come first.                             *)
(***************************************************************************)
\* The outputs of the nodes before the current one have symbols.
LEMMA OutputSeen ==
  ASSUME IInv, Progress, NEW k \in Node, NEW o \in Outputs(k), NEW x, Earlier(Out(k, x), pos)
  PROVE  Seen(Out(k, o))
<1>1. PICK q \in DOMAIN g.order : q < pos /\ k = g.order[q]
  BY DEF Earlier, Out
<1>2. o \in Index /\ OutputPassed(q, o)
  BY <1>1 DEF Outputs, OutputPassed
<1>3. OutputJoined(map, k, o)
  BY <1>1, <1>2 DEF Progress, JoinedSoFar
<1> QED BY <1>3 DEF OutputJoined, Seen

LEMMA LinkSeen ==
  ASSUME IInv, Progress, NEW n \in Node, NEW i \in Index, Peer(n, i) # NoAnchor, Earlier(Peer(n, i), pos)
  PROVE  Seen(Peer(n, i))
<1>1. PICK k \in Node : \E o \in Outputs(k) : Peer(n, i) = Out(k, o)
  BY DEF IInv, GraphFits, LinksAreOutputs
<1>2. PICK o \in Outputs(k) : Peer(n, i) = Out(k, o)
  BY <1>1
<1> QED BY <1>2, OutputSeen

\* With a symbol on both sides nothing fails.
LEMMA NoFaultSeen ==
  ASSUME IInv, NEW a \in Anchor, NEW b \in Anchor, Seen(a), Seen(b)
  PROVE  UpdateFault(a) = "running" /\ UnionFault(a, b) = "running" /\ Found(a)
<1>1. UpdateFault(a) = "running" /\ Found(a)
  BY NoFault DEF UpdateFault
<1>2. UnionFault(a, b) # "lost"
  BY NoFault
<1>3. UnionFault(a, b) = "running"
  BY <1>2 DEF UnionFault
<1> QED BY <1>1, <1>3

\* What the current node is expected to get.
LEMMA Expected ==
  ASSUME IInv, pos <= Len(g.order), NEW i \in Index
  PROVE  /\ i \in InputsInClass(Cur) => In(Cur, i) \in ToBeMapped
         /\ i \in Outputs(Cur) => Out(Cur, i) \in ToBeMapped
<1>1. Cur \in InOrder
  BY AtFacts DEF InOrder
<1> QED BY <1>1 DEF ToBeMapped

LEMMA PlainInputProgress ==
  ASSUME IInv, Progress, PlainInput
  PROVE  Progress'
<1>1. /\ pos <= Len(g.order) /\ phase = "in" /\ InKind(Cur) = "plain" /\ idx < g.ins[Cur] /\ result = "running"
  BY DEF PlainInput, AtInput, At
<1> DEFINE cur == In(Cur, idx)
           exist == Peer(Cur, idx)
<1>2. /\ Control /\ idx \in Index /\ idx \in Inputs(Cur) /\ cur \in Anchor /\ idx \in Nat
      /\ pos \in DOMAIN g.order /\ Cur = g.order[pos] /\ Cur \in Node
  BY <1>1, AtFacts
<1>3. Good(map, References) /\ map.sym[cur] = NoAnchor
  <2>1. NotReached(pos, idx)
    BY <1>1, <1>2 DEF NotReached
  <2>2. ~Seen(In(g.order[pos], idx))
    BY <1>2, <2>1 DEF Control, InputsFresh
  <2> QED BY <1>2, <2>2, MapIsGood DEF Seen
<1>4. {cur} \subseteq ToBeMapped
  BY <1>1, <1>2, Expected DEF InputsInClass
<1>5. CASE exist = NoAnchor
  <2>1. GoOn(AddAlone(map, cur))
    BY <1>5 DEF PlainInput
  <2>2. Good(AddAlone(map, cur), References) /\ InUse(AddAlone(map, cur)) = InUse(map) \cup {cur}
    BY <1>2, <1>3, GoodAlone
  <2>3. Round({cur})
    BY <1>1, <1>2, <2>1, <2>2 DEF Round, GoOn
  <2>4. Coarser(map, map') /\ map'.sym[cur] # NoAnchor
    BY <1>2, <1>3, <2>1, AloneJoins DEF GoOn
  <2>5. InputRefs(Cur, idx) = {}
    BY <1>1, <1>5 DEF InputRefs, Linked
  <2>6. InputJoined(map', Cur, idx)
    BY <2>4, <2>5 DEF InputJoined
  <2> QED BY <1>1, <1>2, <1>4, <2>3, <2>4, <2>6, RoundProgress
<1>6. CASE exist # NoAnchor
  <2>1. idx \in Linked(Cur) /\ exist \in Anchor
    BY <1>1, <1>2, <1>6, AtFacts DEF Linked
  <2>2. UpdateFault(exist) \in {"unseen", "running"} /\ (UpdateFault(exist) = "running" => Seen(exist))
    BY <2>1, NoFault
  <2>3. CASE UpdateFault(exist) # "running"
    <3>1. Fail(UpdateFault(exist))
      BY <1>6, <2>3 DEF PlainInput
    <3>2. ~Sorted
      <4> SUFFICES ASSUME Sorted PROVE FALSE
        OBVIOUS
      <4>1. Earlier(exist, pos)
        BY <1>2, <2>1 DEF Sorted, Ready
      <4>2. Seen(exist)
        BY <1>2, <1>6, <4>1, LinkSeen
      <4> QED BY <2>1, <2>3, <4>2, NoFaultSeen
    <3> QED BY <2>2, <3>1, <3>2, ResultProgress
  <2>4. CASE UpdateFault(exist) = "running"
    <3>1. GoOn(Add(map, cur, map.sym[exist]))
      BY <1>6, <2>4 DEF PlainInput
    <3>2. InputRefs(Cur, idx) = {<<cur, exist>>} /\ idx \in InputsInClass(Cur)
      BY <1>1, <1>2, <2>1 DEF InputRefs, InputsInClass
    <3>3. map.sym[exist] # NoAnchor /\ <<cur, exist>> \in References
      BY <1>2, <2>2, <2>4, <3>2, RefMember DEF Seen
    <3>4. /\ Good(Add(map, cur, map.sym[exist]), References)
          /\ InUse(Add(map, cur, map.sym[exist])) = InUse(map) \cup {cur}
      BY <1>2, <1>3, <2>1, <3>3, GoodAdd
    <3>5. Round({cur})
      BY <1>1, <1>2, <3>1, <3>4 DEF Round, GoOn
    <3>6. Coarser(map, map') /\ OneSymbol(map', cur, exist)
      BY <1>2, <1>3, <2>1, <3>1, <3>3, AddJoins DEF GoOn
    <3>7. InputJoined(map', Cur, idx)
      BY <3>2, <3>6 DEF InputJoined, OneSymbol
    <3> QED BY <1>1, <1>2, <1>4, <3>5, <3>6, <3>7, RoundProgress
  <2> QED BY <2>3, <2>4
<1> QED BY <1>5, <1>6

LEMMA SubgraphInputProgress ==
  ASSUME IInv, Progress, SubgraphInput
  PROVE  Progress'
<1>1. /\ pos <= Len(g.order) /\ phase = "in" /\ InKind(Cur) = "subgraph input" /\ result = "running"
  BY DEF SubgraphInput, At
<1> DEFINE cur == In(Cur, 0)
           p == g.parent[Cur]
           i == g.parentIdx[Cur]
           exist == Peer(p, i)
<1>2. /\ TypeOK /\ Control /\ 0 \in Index /\ cur \in Anchor /\ Cur \in Node
      /\ pos \in DOMAIN g.order /\ Cur = g.order[pos]
  <2>1. 0 \in Index
    BY IndexAssumption DEF Index
  <2> QED BY <1>1, <2>1, AtFacts
<1>3. Good(map, References) /\ map.sym[cur] = NoAnchor /\ base = NoAnchor /\ ~IsMerge(Cur)
  <2>1. idx = 0
    BY <1>1, <1>2 DEF Control, PhaseFits
  <2>2. NotReached(pos, 0)
    <3>1. 0 >= idx
      BY <2>1
    <3> QED BY <1>1, <3>1 DEF NotReached
  <2>3. ~Seen(In(g.order[pos], 0))
    BY <1>2, <2>2 DEF Control, InputsFresh
  <2>4. base = NoAnchor
    BY <1>1, <1>2 DEF Control, BaseKnown
  <2> QED BY <1>1, <1>2, <2>3, <2>4, MapIsGood DEF Seen, IsMerge
<1>4. Sorted => ~(i >= g.ins[p]) /\ exist # NoAnchor /\ Earlier(exist, pos)
  <2> SUFFICES ASSUME Sorted PROVE ~(i >= g.ins[p]) /\ exist # NoAnchor /\ Earlier(exist, pos)
    OBVIOUS
  <2>1. i < g.ins[p] /\ exist # NoAnchor /\ Earlier(exist, pos)
    BY <1>1, <1>2 DEF Sorted, Ready
  <2>2. i \in Nat /\ g.ins[p] \in Nat
    <3>1. p # NoNode /\ i # NoIndex
      BY <1>1 DEF InKind, IsSubgraphInput, HiddenByParent
    <3> QED BY <1>2, <3>1, GraphFacts, IndexAssumption DEF Index
  <2> QED BY <2>1, <2>2
<1>5. CASE i >= g.ins[p]
  <2>1. Fail("invalid")
    BY <1>5 DEF SubgraphInput
  <2> QED BY <1>4, <1>5, <2>1, ResultProgress
<1>6. CASE ~(i >= g.ins[p]) /\ exist = NoAnchor
  <2>1. Enter("out") /\ UNCHANGED base
    BY <1>6 DEF SubgraphInput
  <2>2. LeaveInputs({}) /\ map' = map
    BY <1>1, <1>3, <2>1 DEF LeaveInputs, Enter
  <2>3. \A l : l \notin InputsInClass(Cur) /\ InputRefs(Cur, l) = {}
    BY <1>1, <1>6 DEF InputsInClass, InputRefs
  <2>4. \A l : InputJoined(map', Cur, l)
    BY <2>3 DEF InputJoined
  <2>5. Coarser(map, map')
    BY <2>2 DEF Coarser
  <2> QED BY <1>1, <2>2, <2>4, <2>5, LeaveProgress
<1>7. CASE ~(i >= g.ins[p]) /\ exist # NoAnchor
  <2>1. p \in Node /\ i \in Index
    <3>1. p # NoNode /\ i # NoIndex
      BY <1>1 DEF InKind, IsSubgraphInput, HiddenByParent
    <3> QED BY <1>2, <3>1, GraphFacts
  <2>2. exist \in Anchor
    BY <1>2, <1>7, <2>1, GraphFacts
  <2>3. UpdateFault(exist) \in {"unseen", "running"} /\ (UpdateFault(exist) = "running" => Seen(exist))
    BY <2>2, NoFault
  <2>4. CASE UpdateFault(exist) # "running"
    <3>1. Fail(UpdateFault(exist))
      BY <1>7, <2>4 DEF SubgraphInput
    <3>2. ~Sorted
      BY <1>4, <1>7, <2>1, <2>2, <2>4, LinkSeen, NoFaultSeen
    <3> QED BY <2>3, <3>1, <3>2, ResultProgress
  <2>5. CASE UpdateFault(exist) = "running"
    <3>1. /\ map' = Add(map, cur, map.sym[exist]) /\ phase' = "out" /\ idx' = 0
          /\ UNCHANGED <<g, pos, base, result>>
      BY <1>7, <2>5 DEF SubgraphInput
    <3>2. /\ InputRefs(Cur, 0) = {<<cur, exist>>} /\ InputsInClass(Cur) = {0}
          /\ \A l : l # 0 => InputRefs(Cur, l) = {}
      BY <1>1, <1>2, <1>7 DEF InputRefs, InputsInClass
    <3>3. map.sym[exist] # NoAnchor /\ <<cur, exist>> \in References
      BY <1>2, <2>3, <2>5, <3>2, RefMember DEF Seen
    <3>4. /\ Good(Add(map, cur, map.sym[exist]), References)
          /\ InUse(Add(map, cur, map.sym[exist])) = InUse(map) \cup {cur}
      BY <1>2, <1>3, <2>2, <3>3, GoodAdd
    <3>5. LeaveInputs({cur})
      BY <1>1, <1>3, <3>1, <3>4 DEF LeaveInputs
    <3>6. Coarser(map, map') /\ OneSymbol(map', cur, exist)
      BY <1>2, <1>3, <2>2, <3>1, <3>3, AddJoins
    <3>7. \A l : InputJoined(map', Cur, l)
      BY <3>2, <3>6 DEF InputJoined, OneSymbol
    <3>8. {cur} \subseteq ToBeMapped
      BY <1>1, <1>2, <3>2, Expected
    <3> QED BY <1>1, <1>2, <3>5, <3>6, <3>7, <3>8, LeaveProgress
  <2> QED BY <2>4, <2>5
<1> QED BY <1>5, <1>6, <1>7
LEMMA SubgraphOutputProgress ==
  ASSUME IInv, Progress, SubgraphOutput
  PROVE  Progress'
<1>1. /\ pos <= Len(g.order) /\ phase = "in" /\ InKind(Cur) = "subgraph output" /\ idx < g.ins[Cur]
      /\ result = "running"
  BY DEF SubgraphOutput, AtInput, At
<1> DEFINE cur == In(Cur, idx)
           exist == Peer(Cur, idx)
           o == g.outputIdx[<<Cur, idx>>]
           out == Out(g.parent[Cur], o)
           m == UnionSymbolMapping(map, exist, out)
<1>2. /\ TypeOK /\ Control /\ idx \in Index /\ idx \in Inputs(Cur) /\ cur \in Anchor /\ idx \in Nat
      /\ pos \in DOMAIN g.order /\ Cur = g.order[pos] /\ Cur \in Node
  BY <1>1, AtFacts
<1>3. Good(map, References) /\ map.sym[cur] = NoAnchor /\ cur \notin InUse(map)
  <2>1. NotReached(pos, idx)
    <3>1. idx >= idx
      BY <1>2
    <3> QED BY <1>1, <3>1 DEF NotReached
  <2>2. ~Seen(In(g.order[pos], idx))
    BY <1>2, <2>1 DEF Control, InputsFresh
  <2> QED BY <1>2, <2>2, MapIsGood DEF Seen
<1>4. g.parent[Cur] \in Node
  <2>1. g.parent[Cur] # NoNode
    BY <1>1 DEF InKind, IsSubgraphOutput, IsSubgraphInput, HiddenByParent
  <2> QED BY <1>2, <2>1, GraphFacts
<1>5. o # NoIndex => o \in Index /\ o \in Nat
  BY <1>2, GraphFacts, IndexAssumption DEF Index
<1>6. g.outs[g.parent[Cur]] \in Nat
  BY <1>2, <1>4, GraphFacts, IndexAssumption
<1>7. Sorted => /\ exist # NoAnchor /\ Earlier(exist, pos)
                /\ o # NoIndex => o < g.outs[g.parent[Cur]] /\ Earlier(Out(g.parent[Cur], 0), pos)
  <2> SUFFICES ASSUME Sorted
               PROVE  /\ exist # NoAnchor /\ Earlier(exist, pos)
                      /\ o # NoIndex => o < g.outs[g.parent[Cur]] /\ Earlier(Out(g.parent[Cur], 0), pos)
    OBVIOUS
  <2>1. Ready(pos)
    BY <1>2 DEF Sorted
  <2>2. /\ idx \in Linked(Cur)
        /\ o # NoIndex => o < g.outs[g.parent[Cur]] /\ Earlier(Out(g.parent[Cur], 0), pos)
    BY <1>1, <1>2, <2>1 DEF Ready
  <2> QED BY <1>2, <2>1, <2>2 DEF Ready, Linked
<1>8. CASE exist = NoAnchor \/ (o # NoIndex /\ o >= g.outs[g.parent[Cur]])
  <2>1. Fail("invalid")
    BY <1>8 DEF SubgraphOutput
  <2>2. ~Sorted
    BY <1>5, <1>6, <1>7, <1>8
  <2> QED BY <2>1, <2>2, ResultProgress
<1>9. CASE exist # NoAnchor /\ o = NoIndex
  <2>1. Skip
    BY <1>9 DEF SubgraphOutput
  <2>2. idx \notin InputsInClass(Cur)
    BY <1>1, <1>9 DEF InputsInClass
  <2>3. InputJoined(map, Cur, idx)
    BY <2>2 DEF InputJoined, InputRefs
  <2> QED BY <1>1, <1>2, <2>1, <2>3, SkipProgress
<1>10. CASE exist # NoAnchor /\ o # NoIndex /\ ~(o >= g.outs[g.parent[Cur]])
  <2>1. exist \in Anchor /\ out \in Anchor
    <3>1. exist \in Anchor /\ o \in Index
      BY <1>2, <1>10, GraphFacts
    <3> QED BY <1>4, <3>1 DEF Out, Anchor
  <2>2. /\ UnionFault(exist, out) \in {"unseen", "running"}
        /\ UnionFault(exist, out) = "running" => Seen(exist) /\ Seen(out)
    BY <2>1, NoFault
  <2>3. CASE UnionFault(exist, out) # "running"
    <3>1. Fail(UnionFault(exist, out))
      BY <1>10, <2>3 DEF SubgraphOutput
    <3>2. ~Sorted
      <4> SUFFICES ASSUME Sorted PROVE FALSE
        OBVIOUS
      <4>1. Seen(exist)
        BY <1>2, <1>7, LinkSeen
      <4>2. o \in Outputs(g.parent[Cur])
        BY <1>5, <1>7, <1>10 DEF Outputs
      <4>3. Seen(out)
        BY <1>4, <1>7, <1>10, <4>2, OutputSeen
      <4> QED BY <2>1, <2>3, <4>1, <4>3, NoFaultSeen
    <3> QED BY <2>2, <3>1, <3>2, ResultProgress
  <2>4. CASE UnionFault(exist, out) = "running"
    <3>1. GoOn(Add(m, cur, m.sym[exist]))
      BY <1>10, <2>4 DEF SubgraphOutput
    <3>2. InputRefs(Cur, idx) = {<<cur, exist>>, <<exist, out>>} /\ idx \in InputsInClass(Cur)
      BY <1>1, <1>2, <1>10 DEF InputRefs, InputsInClass
    <3>3. map.sym[exist] # NoAnchor /\ map.sym[out] # NoAnchor
      BY <2>2, <2>4 DEF Seen
    <3>4. <<cur, exist>> \in References /\ <<exist, out>> \in References
      BY <1>2, <3>2, RefMember
    <3>5. /\ Good(m, References) /\ InUse(m) = InUse(map)
          /\ Coarser(map, m) /\ OneSymbol(m, exist, out)
      BY <1>3, <2>1, <3>3, <3>4, GoodUnion, UnionJoins
    <3> HIDE DEF m
    <3>6. m.sym[exist] # NoAnchor /\ m.sym[cur] = NoAnchor
      BY <1>2, <1>3, <2>1, <3>3, <3>5 DEF InUse
    <3>7. /\ Good(Add(m, cur, m.sym[exist]), References)
          /\ InUse(Add(m, cur, m.sym[exist])) = InUse(m) \cup {cur}
          /\ Coarser(m, Add(m, cur, m.sym[exist]))
          /\ OneSymbol(Add(m, cur, m.sym[exist]), cur, exist)
      BY <1>2, <2>1, <3>4, <3>5, <3>6, GoodAdd, AddJoins
    <3>8. Round({cur})
      BY <1>1, <1>2, <3>1, <3>5, <3>7 DEF Round, GoOn
    <3>9. Coarser(map, map') /\ OneSymbol(map', cur, exist) /\ OneSymbol(map', exist, out)
      <4>1. map' = Add(m, cur, m.sym[exist])
        BY <3>1 DEF GoOn
      <4> QED BY <3>5, <3>7, <4>1, CoarserAgain DEF Coarser
    <3>10. InputJoined(map', Cur, idx)
      BY <3>2, <3>9 DEF InputJoined, OneSymbol
    <3>11. {cur} \subseteq ToBeMapped
      BY <1>1, <1>2, <3>2, Expected
    <3> QED BY <1>1, <1>2, <3>8, <3>9, <3>10, <3>11, RoundProgress
  <2> QED BY <2>3, <2>4
<1> QED BY <1>8, <1>9, <1>10

\* The union and the add loop.
LEMMA MergeUnionProgress ==
  ASSUME IInv, Progress, MergeUnion
  PROVE  Progress'
<1>1. pos <= Len(g.order) /\ phase = "union" /\ idx < g.ins[Cur] /\ result = "running"
  BY DEF MergeUnion, At
<1> DEFINE exist == Peer(Cur, idx)
           m == UnionSymbolMapping(map, base, exist)
<1>2. /\ TypeOK /\ Control /\ idx \in Index /\ idx \in Inputs(Cur) /\ IsMerge(Cur)
      /\ pos \in DOMAIN g.order /\ Cur = g.order[pos] /\ Cur \in Node
  BY <1>1, AtFacts DEF Control, PhaseFits
<1>3. CASE exist = NoAnchor
  <2>1. Skip /\ idx \notin Linked(Cur)
    BY <1>3 DEF MergeUnion, Linked
  <2> QED BY <1>1, <1>2, <2>1, SkipProgress
<1>4. CASE exist # NoAnchor
  <2>1. idx \in Linked(Cur) /\ exist \in Anchor
    BY <1>1, <1>2, <1>4, AtFacts DEF Linked
  <2>2. Sorted => base # NoAnchor
    BY <1>1, <2>1 DEF Progress, MergeJoined
  <2>3. CASE base = NoAnchor
    <3>1. Fail("unseen")
      BY <1>4, <2>3 DEF MergeUnion
    <3> QED BY <2>2, <2>3, <3>1, ResultProgress
  <2>4. CASE base # NoAnchor
    <3>1. base \in Anchor /\ Seen(base)
      BY <1>2, <2>4 DEF TypeOK, Control, BaseKnown
    <3>2. /\ UnionFault(base, exist) \in {"unseen", "running"}
          /\ UnionFault(base, exist) = "running" => Seen(base) /\ Seen(exist)
      BY <2>1, <3>1, NoFault
    <3>3. CASE UnionFault(base, exist) # "running"
      <4>1. Fail(UnionFault(base, exist))
        BY <1>4, <2>4, <3>3 DEF MergeUnion
      <4>2. ~Sorted
        <5> SUFFICES ASSUME Sorted PROVE FALSE
          OBVIOUS
        <5>1. Earlier(exist, pos)
          BY <1>2, <2>1 DEF Sorted, Ready
        <5>2. Seen(exist)
          BY <1>2, <1>4, <5>1, LinkSeen
        <5> QED BY <2>1, <3>1, <3>3, <5>2, NoFaultSeen
      <4> QED BY <3>2, <4>1, <4>2, ResultProgress
    <3>4. CASE UnionFault(base, exist) = "running"
      <4>1. GoOn(m)
        BY <1>4, <2>4, <3>4 DEF MergeUnion
      <4>2. PICK j \in Linked(Cur) : base = Peer(Cur, j)
        BY <1>2, <2>4 DEF Control, BaseKnown
      <4>3. <<exist, base>> \in References
        BY <1>1, <1>2, <2>1, <4>2, MergeRefs
      <4>4. map.sym[base] # NoAnchor /\ map.sym[exist] # NoAnchor /\ Good(map, References)
        BY <3>2, <3>4, MapIsGood DEF Seen
      <4>5. /\ Good(m, References) /\ InUse(m) = InUse(map)
            /\ Coarser(map, m) /\ OneSymbol(m, base, exist)
        BY <2>1, <3>1, <4>3, <4>4, GoodUnion, UnionJoins
      <4> HIDE DEF m
      <4>6. Round({}) /\ map' = m
        BY <1>1, <1>2, <2>4, <4>1, <4>5 DEF Round, GoOn
      <4> QED BY <1>1, <4>5, <4>6, RoundProgress
    <3> QED BY <3>3, <3>4
  <2> QED BY <2>3, <2>4
<1> QED BY <1>3, <1>4

\* All producers of a merge have the symbol of the first argument of the unions.
LEMMA MergeAddProgress ==
  ASSUME IInv, Progress, MergeAdd
  PROVE  Progress'
<1>1. pos <= Len(g.order) /\ phase = "add" /\ idx < g.ins[Cur] /\ result = "running"
  BY DEF MergeAdd, At
<1> DEFINE cur == In(Cur, idx)
           nxt == Out(g.next[Cur], 0)
           s == map.sym[base]
           m == Add(map, cur, s)
           producers == {Peer(Cur, l) : l \in Linked(Cur)}
<1>2. /\ TypeOK /\ Control /\ idx \in Index /\ idx \in Inputs(Cur) /\ IsMerge(Cur) /\ cur \in Anchor
      /\ pos \in DOMAIN g.order /\ Cur = g.order[pos] /\ idx \in Nat /\ Cur \in Node
      /\ InKind(Cur) = "merge"
  BY <1>1, AtFacts DEF Control, PhaseFits, IsMerge
<1>3. CASE base = NoAnchor
  <2>1. Skip
    BY <1>3 DEF MergeAdd
  <2>2. InputsInClass(Cur) = {}
    BY <1>1, <1>2, <1>3 DEF Control, BaseKnown, InputsInClass
  <2>3. InputJoined(map, Cur, idx)
    BY <2>2 DEF InputJoined, InputRefs
  <2> QED BY <1>1, <1>2, <1>3, <2>1, <2>3, SkipProgress
<1>4. CASE base # NoAnchor /\ idx \notin Linked(Cur) /\ ~HasNext(Cur)
  <2>1. Peer(Cur, idx) = NoAnchor
    BY <1>2, <1>4 DEF Linked
  <2>2. Skip
    BY <1>4, <2>1 DEF MergeAdd
  <2>3. idx \notin InputsInClass(Cur)
    BY <1>2, <1>4 DEF InputsInClass
  <2>4. InputJoined(map, Cur, idx)
    BY <2>3 DEF InputJoined, InputRefs
  <2> QED BY <1>1, <1>2, <1>4, <2>2, <2>4, SkipProgress
<1>5. CASE base # NoAnchor /\ (idx \in Linked(Cur) \/ HasNext(Cur))
  <2>1. /\ base \in Anchor /\ s # NoAnchor
        /\ \E j \in Linked(Cur) : base = Peer(Cur, j)
    BY <1>2, <1>5 DEF Control, BaseKnown, TypeOK, Seen
  <2>2. PICK j \in Linked(Cur) : base = Peer(Cur, j)
    BY <2>1
  <2>3. Good(map, References) /\ map.sym[cur] = NoAnchor
    <3>1. idx >= idx
      BY <1>2
    <3>2. NotReached(pos, idx)
      BY <1>1, <3>1 DEF NotReached
    <3>3. ~Seen(In(g.order[pos], idx))
      BY <1>2, <3>2 DEF Control, InputsFresh
    <3> QED BY <1>2, <3>3, MapIsGood DEF Seen
  <2>4. <<cur, base>> \in References
    BY <1>1, <1>2, <1>5, <2>2, MergeRefs
  <2>5. /\ Good(m, References) /\ InUse(m) = InUse(map) \cup {cur}
        /\ \A y \in Anchor \ {cur} : m.sym[y] = map.sym[y]
        /\ Coarser(map, m) /\ OneSymbol(m, cur, base)
    BY <1>2, <2>1, <2>3, <2>4, GoodAdd, AddJoins
  <2>6. /\ \A l \in Linked(Cur) : OneSymbol(map, base, Peer(Cur, l))
        /\ (Unlinked(Cur) # {} /\ HasNext(Cur)) => g.outs[g.next[Cur]] # 0
    BY <1>1, <1>5 DEF Progress, MergeJoined
  <2>7. idx \in InputsInClass(Cur)
    BY <1>2, <1>5, <2>2 DEF InputsInClass
  <2>8. cur \in ToBeMapped
    BY <1>1, <1>2, <2>7, Expected
  <2>9. CASE idx \in Linked(Cur)
    <3>1. GoOn(m)
      BY <1>5, <2>9 DEF MergeAdd, Linked
    <3>2. idx \notin Unlinked(Cur)
      BY <2>9 DEF Unlinked
    <3> HIDE DEF m
    <3>3. Round({cur}) /\ map' = m
      BY <1>1, <1>2, <2>5, <3>1, <3>2 DEF Round, GoOn
    <3>4. \A l \in Linked(Cur) : OneSymbol(m, base, Peer(Cur, l))
      BY <2>5, <2>6 DEF Coarser
    <3>5. InputRefs(Cur, idx) = {cur, Peer(Cur, idx)} \X producers
      BY <1>2, <2>7, <2>9 DEF InputRefs
    <3>6. ASSUME NEW r \in InputRefs(Cur, idx) PROVE OneSymbol(m, r[1], r[2])
      <4>1. (r[1] = cur \/ r[1] = Peer(Cur, idx)) /\ r[2] \in producers
        BY <3>5
      <4>2. OneSymbol(m, base, r[1])
        BY <2>5, <2>9, <3>4, <4>1 DEF OneSymbol
      <4>3. OneSymbol(m, base, r[2])
        BY <3>4, <4>1
      <4> QED BY <4>2, <4>3 DEF OneSymbol
    <3>7. InputJoined(m, Cur, idx)
      BY <2>5, <3>6 DEF InputJoined, OneSymbol
    <3> QED BY <1>1, <1>2, <1>5, <2>5, <2>8, <3>3, <3>7, RoundProgress
  <2>10. CASE idx \notin Linked(Cur) /\ HasNext(Cur)
    <3>1. Peer(Cur, idx) = NoAnchor /\ idx \in Unlinked(Cur)
      BY <1>2, <2>10 DEF Linked, Unlinked
    <3>2. GoOn(Add(m, nxt, s))
      BY <1>5, <2>10, <3>1 DEF MergeAdd
    <3>3. nxt \in Anchor /\ nxt # cur /\ base # cur /\ g.next[Cur] \in Node
      <4>1. g.next[Cur] \in Node
        BY <1>2, <2>10, GraphFacts DEF HasNext
      <4>2. nxt \in Anchor
        BY <4>1, IndexAssumption DEF Out, Anchor, Index
      <4>3. nxt # cur
        BY DEF Out, In
      <4> QED BY <2>1, <2>3, <4>1, <4>2, <4>3
    <3>4. map.sym[nxt] = NoAnchor
      BY <1>1, <2>10, <3>1, CutFresh DEF Seen
    <3>5. <<nxt, base>> \in References
      BY <1>1, <1>2, <2>2, <2>10, MergeRefs
    <3> HIDE DEF m, s
    <3>6. m.sym[base] = s /\ m.sym[nxt] = NoAnchor
      BY <2>1, <2>5, <3>3, <3>4 DEF s
    <3>7. /\ Good(Add(m, nxt, s), References) /\ InUse(Add(m, nxt, s)) = InUse(m) \cup {nxt}
          /\ Coarser(m, Add(m, nxt, s)) /\ OneSymbol(Add(m, nxt, s), nxt, base)
      BY <2>1, <2>5, <3>3, <3>5, <3>6, GoodAdd, AddJoins
    <3>8. map' = Add(m, nxt, s)
      BY <3>2 DEF GoOn
    <3>9. Round({cur, nxt})
      <4>1. InUse(Add(m, nxt, s)) = InUse(map) \cup {cur, nxt}
        BY <2>5, <3>7
      <4> QED BY <1>1, <1>2, <2>10, <3>1, <3>2, <3>7, <4>1 DEF Round, GoOn
    <3>10. Coarser(map, map') /\ OneSymbol(map', nxt, base) /\ OneSymbol(map', cur, base)
      BY <2>5, <3>7, <3>8 DEF Coarser
    <3>11. \A l \in Linked(Cur) : OneSymbol(map', base, Peer(Cur, l))
      BY <2>6, <3>10 DEF Coarser
    <3>12. InputRefs(Cur, idx) = {cur, nxt} \X producers
      BY <1>2, <2>7, <2>10 DEF InputRefs
    <3>13. ASSUME NEW r \in InputRefs(Cur, idx) PROVE OneSymbol(map', r[1], r[2])
      <4>1. (r[1] = cur \/ r[1] = nxt) /\ r[2] \in producers
        BY <3>12
      <4>2. OneSymbol(map', r[1], base)
        BY <3>10, <4>1
      <4>3. OneSymbol(map', base, r[2])
        BY <3>11, <4>1
      <4> QED BY <4>2, <4>3 DEF OneSymbol
    <3>14. InputJoined(map', Cur, idx)
      BY <3>10, <3>13 DEF InputJoined, OneSymbol
    <3>15. nxt \in ToBeMapped
      <4>1. LoopsAreCutOnce /\ g.next[Cur] # NoNode
        BY <2>10 DEF IInv, GraphFits, HasNext
      <4>2. PICK q \in DOMAIN g.order : g.order[q] = g.next[Cur]
        BY <1>2, <4>1 DEF LoopsAreCutOnce
      <4>3. g.next[Cur] \in InOrder
        BY <4>2 DEF InOrder
      <4>4. 0 \in Outputs(g.next[Cur])
        <5>1. g.outs[g.next[Cur]] # 0
          BY <2>6, <2>10, <3>1
        <5>2. g.outs[g.next[Cur]] \in Nat
          BY <1>2, <3>3, GraphFacts, IndexAssumption
        <5> QED BY <5>1, <5>2, IndexAssumption DEF Outputs, Index
      <4> QED BY <4>3, <4>4 DEF ToBeMapped
    <3>16. {cur, nxt} \in SUBSET Anchor /\ {cur, nxt} \subseteq ToBeMapped
      BY <1>2, <2>8, <3>3, <3>15
    <3> QED BY <1>1, <1>5, <3>9, <3>10, <3>14, <3>16, RoundProgress
  <2> QED BY <1>5, <2>9, <2>10
<1> QED BY <1>3, <1>4, <1>5
\* In a sorted graph every producer of a merge has a list, and one of the
\* lists is the first of the longest.
LEMMA LargestThere ==
  ASSUME IInv, Progress, Sorted, pos <= Len(g.order), Linked(Cur) # {}
  PROVE  \E i \in Linked(Cur) : IsLargest(Cur, i)
<1>1. /\ pos \in DOMAIN g.order /\ Cur = g.order[pos] /\ Cur \in Node
      /\ \A i \in Linked(Cur) : Peer(Cur, i) \in Anchor
  BY AtFacts
<1>2. Linked(Cur) \in SUBSET (0 .. MaxIndex) /\ MaxIndex \in Nat
  BY IndexAssumption DEF Linked, Inputs, Index
<1>3. ASSUME NEW i \in Linked(Cur)
      PROVE  ListLen(Peer(Cur, i)) \in Nat /\ ListLen(Peer(Cur, i)) > 0
  <2>1. Earlier(Peer(Cur, i), pos) /\ Peer(Cur, i) # NoAnchor /\ i \in Index
    BY <1>1 DEF Sorted, Ready, Linked, Inputs
  <2>2. Seen(Peer(Cur, i))
    BY <1>1, <2>1, LinkSeen
  <2>3. Found(Peer(Cur, i))
    BY <1>1, <2>2, NoFaultSeen
  <2>4. map.sym[Peer(Cur, i)] \in Anchor
    BY <1>1, <2>2, MapIsGood, SymbolFacts DEF Good, Seen
  <2>5. map.lists[map.sym[Peer(Cur, i)]] \in Seq(Anchor)
    BY <2>4 DEF IInv, TypeOK
  <2>6. map.lists[map.sym[Peer(Cur, i)]] # <<>>
    BY <2>3 DEF Found
  <2>7. Len(map.lists[map.sym[Peer(Cur, i)]]) \in Nat /\ Len(map.lists[map.sym[Peer(Cur, i)]]) > 0
    BY <2>5, <2>6
  <2> QED BY <2>3, <2>7 DEF ListLen
<1> DEFINE f == [i \in Linked(Cur) |-> ListLen(Peer(Cur, i))]
<1>4. f \in [Linked(Cur) -> Nat] /\ \A i \in Linked(Cur) : f[i] = ListLen(Peer(Cur, i))
  BY <1>3
<1> HIDE DEF f
<1>5. Tops(f, Linked(Cur)) # {}
  BY <1>2, <1>4, FirstOfLargest
<1>6. PICK i \in Linked(Cur) : \A j \in Linked(Cur) : f[j] <= f[i] /\ (f[j] = f[i] => i <= j)
  BY <1>5 DEF Tops
<1>7. IsLargest(Cur, i)
  BY <1>3, <1>4, <1>6 DEF IsLargest
<1> QED BY <1>7

LEMMA MergeChooseProgress ==
  ASSUME IInv, Progress, MergeChoose
  PROVE  Progress'
<1>1. pos <= Len(g.order) /\ phase = "in" /\ IsMerge(Cur) /\ result = "running"
  BY DEF MergeChoose, At
<1>2. /\ TypeOK /\ Control /\ pos \in Nat /\ Cur = g.order[pos] /\ Cur \in Node /\ pos \in DOMAIN g.order
      /\ \A i \in Linked(Cur) : Peer(Cur, i) \in Anchor
  BY <1>1, AtFacts
<1> DEFINE Empty == Unlinked(Cur) # {} /\ HasNext(Cur) /\ g.outs[g.next[Cur]] = 0
<1>3. CASE Empty
  <2>1. Fail("invalid")
    BY <1>3 DEF MergeChoose
  <2>2. Sorted => Ready(pos)
    BY <1>2 DEF Sorted
  <2>3. Ready(pos) => g.outs[g.next[Cur]] > 0
    BY <1>1, <1>2, <1>3 DEF Ready, IsMerge
  <2>4. ~Sorted
    BY <1>3, <2>2, <2>3
  <2> QED BY <2>1, <2>4, ResultProgress
<1>4. CASE ~Empty
  <2>1. /\ g' = g /\ map' = map /\ result' = result /\ pos' = pos /\ phase' = "union" /\ idx' = 0
        /\ \/ \E i \in Linked(Cur) : IsLargest(Cur, i) /\ base' = Peer(Cur, i)
           \/ (\A i \in Linked(Cur) : ~IsLargest(Cur, i)) /\ base' = NoAnchor
    BY <1>4 DEF MergeChoose, Enter
  <2>2. /\ Cur' = Cur /\ Sorted' = Sorted
        /\ \A n : /\ Linked(n)' = Linked(n) /\ Unlinked(n)' = Unlinked(n) /\ HasNext(n)' = HasNext(n)
        /\ \A n, i : Peer(n, i)' = Peer(n, i)
    BY <2>1, Still, StillMore DEF Cur
  <2>3. (Sorted /\ Linked(Cur) # {}) => base' # NoAnchor
    <3> SUFFICES ASSUME Sorted, Linked(Cur) # {} PROVE base' # NoAnchor
      OBVIOUS
    <3>1. PICK i \in Linked(Cur) : base' = Peer(Cur, i)
      BY <1>1, <2>1, LargestThere
    <3> QED BY <3>1 DEF Linked
  <2>4. MergeJoined'
    <3>1. \A j \in Linked(Cur) : ~(j < 0)
      BY IndexAssumption DEF Linked, Inputs, Index
    <3> QED BY <1>4, <2>1, <2>2, <2>3, <3>1 DEF MergeJoined
  <2>5. DoneAtEnd' /\ result' = "running" /\ Coarser(map, map')
    BY <1>1, <2>1 DEF DoneAtEnd, Coarser
  <2>6. ASSUME NEW p \in DOMAIN g.order, NEW i \in Index
        PROVE  /\ InputPassed(p, i)' => InputPassed(p, i)
               /\ OutputPassed(p, i)' <=> OutputPassed(p, i)
    BY <1>1, <2>1 DEF InputPassed, OutputPassed
  <2> QED BY <2>1, <2>4, <2>5, <2>6, StepProgress
<1> QED BY <1>3, <1>4

LEMMA InputsDoneProgress ==
  ASSUME IInv, Progress, InputsDone
  PROVE  Progress'
<1>1. /\ pos <= Len(g.order) /\ phase \in {"in", "union", "add"} /\ idx >= g.ins[Cur]
      /\ phase = "in" => InKind(Cur) \in {"plain", "subgraph output"}
      /\ g' = g /\ pos' = pos /\ map' = map /\ result' = result /\ idx' = 0
      /\ phase' = (IF phase = "union" THEN "add" ELSE "out")
      /\ base' = (IF phase = "union" THEN base ELSE NoAnchor)
      /\ result = "running"
  BY DEF InputsDone, At, Enter
<1>2. /\ TypeOK /\ Control /\ pos \in Nat /\ Cur = g.order[pos] /\ Cur \in Node /\ pos \in DOMAIN g.order
      /\ idx \in Nat /\ g.ins[Cur] \in 0 .. MaxIndex + 1
  BY <1>1, AtFacts
<1>3. ASSUME NEW i \in Inputs(Cur) PROVE i \in Index /\ i < idx
  <2>1. i \in Index /\ i \in Nat /\ i < g.ins[Cur] /\ g.ins[Cur] \in Nat
    BY <1>2, IndexAssumption DEF Inputs, Index
  <2>2. idx >= g.ins[Cur] /\ idx \in Nat
    BY <1>1, <1>2
  <2> QED BY <2>1, <2>2
<1>4. Coarser(map, map')
  BY <1>1 DEF Coarser
<1>5. CASE phase # "union"
  <2>1. LeaveInputs({})
    <3>1. Good(map, References)
      BY MapIsGood
    <3>2. IsMerge(Cur) => phase = "add"
      BY <1>1, <1>5 DEF IsMerge
    <3> QED BY <1>1, <1>5, <3>1, <3>2 DEF LeaveInputs
  <2>2. ASSUME NEW i \in Index PROVE InputPassed(pos, i) \/ InputJoined(map', Cur, i)
    <3>1. CASE i \in Inputs(Cur)
      BY <1>1, <1>3, <1>5, <3>1 DEF InputPassed
    <3>2. CASE i \notin Inputs(Cur)
      <4>1. InKind(Cur) # "subgraph input"
        BY <1>1, <1>2, <1>5 DEF Control, PhaseFits, IsMerge
      <4>2. i \notin InputsInClass(Cur)
        BY <3>2, <4>1 DEF InputsInClass, Linked
      <4> QED BY <4>2 DEF InputJoined, InputRefs
    <3> QED BY <3>1, <3>2
  <2> QED BY <1>1, <1>4, <2>1, <2>2, LeaveProgress
<1>6. CASE phase = "union"
  <2>1. phase' = "add" /\ base' = base
    BY <1>1, <1>6
  <2>2. /\ Cur' = Cur /\ Sorted' = Sorted
        /\ \A n : /\ Linked(n)' = Linked(n) /\ Unlinked(n)' = Unlinked(n) /\ HasNext(n)' = HasNext(n)
        /\ \A n, i : Peer(n, i)' = Peer(n, i)
        /\ \A x, y : OneSymbol(map, x, y)' <=> OneSymbol(map, x', y')
    BY <1>1, Still, StillMore DEF Cur, OneSymbol
  <2>3. MergeJoined'
    <3>1. \A j \in Linked(Cur) : j < idx
      BY <1>3 DEF Linked
    <3>2. /\ \A j \in Linked(Cur) : base # NoAnchor => OneSymbol(map, base, Peer(Cur, j))
          /\ (Unlinked(Cur) # {} /\ HasNext(Cur)) => g.outs[g.next[Cur]] # 0
          /\ (Sorted /\ Linked(Cur) # {}) => base # NoAnchor
      BY <1>6, <3>1 DEF Progress, MergeJoined
    <3> QED BY <1>1, <2>1, <2>2, <3>2 DEF MergeJoined, OneSymbol
  <2>4. DoneAtEnd' /\ result' = "running"
    BY <1>1 DEF DoneAtEnd
  <2>5. \A i \in Index : ~(i < 0)
    BY IndexAssumption DEF Index
  <2>6. ASSUME NEW p \in DOMAIN g.order, NEW i \in Index
        PROVE  /\ InputPassed(p, i)' => InputPassed(p, i)
               /\ OutputPassed(p, i)' <=> OutputPassed(p, i)
    BY <1>1, <1>6, <2>1, <2>5 DEF InputPassed, OutputPassed
  <2> QED BY <1>1, <2>3, <2>4, <2>6, StepProgress
<1> QED BY <1>5, <1>6

LEMMA OutputAnchorProgress ==
  ASSUME IInv, Progress, OutputAnchor
  PROVE  Progress'
<1>1. pos <= Len(g.order) /\ phase = "out" /\ idx < g.outs[Cur] /\ result = "running"
  BY DEF OutputAnchor, At
<1> DEFINE cur == Out(Cur, idx)
           r == IsRefFromInput(Cur, idx)
           exist == In(Cur, r)
<1>2. /\ TypeOK /\ Control /\ idx \in Index /\ idx \in Outputs(Cur) /\ cur \in Anchor
      /\ pos \in DOMAIN g.order /\ Cur = g.order[pos] /\ Cur \in Node /\ pos \in Nat /\ idx \in Nat
  BY <1>1, AtFacts
<1>3. Good(map, References) /\ cur \in ToBeMapped
  BY <1>1, <1>2, MapIsGood, Expected
<1>4. CASE Seen(cur)
  <2>1. Skip
    BY <1>4 DEF OutputAnchor
  <2>2. ~OutputPassed(pos, idx)
    BY <1>2 DEF OutputPassed
  <2>3. idx = 0 /\ \E c \in InOrder : ClosesLoop(Cur, c)
    BY <1>2, <1>4, <2>2 DEF Progress, OutputsAhead
  <2>4. OutputRefs(Cur, idx) = {}
    BY <2>3 DEF OutputRefs
  <2>5. OutputJoined(map, Cur, idx)
    BY <1>4, <2>4 DEF OutputJoined, Seen
  <2> QED BY <1>1, <1>2, <2>1, <2>5, SkipProgress
<1>5. CASE ~Seen(cur) /\ (r = NoIndex \/ r >= g.ins[Cur])
  <2>1. GoOn(EmplaceAlone(map, cur)) /\ map.sym[cur] = NoAnchor
    BY <1>5 DEF OutputAnchor, Seen
  <2>2. /\ Good(EmplaceAlone(map, cur), References)
        /\ InUse(EmplaceAlone(map, cur)) = InUse(map) \cup {cur}
        /\ EmplaceAlone(map, cur) = AddAlone(map, cur)
    BY <1>2, <1>3, <2>1, GoodAlone
  <2>3. Round({cur})
    BY <1>1, <1>2, <2>1, <2>2 DEF Round, GoOn
  <2>4. Coarser(map, map') /\ map'.sym[cur] # NoAnchor
    BY <1>2, <1>3, <2>1, <2>2, AloneJoins DEF GoOn
  <2>5. r \notin Inputs(Cur)
    <3>1. r \in Inputs(Cur) => r \in Nat /\ r < g.ins[Cur]
      BY IndexAssumption DEF Inputs, Index
    <3>2. g.ins[Cur] \in Nat /\ NoIndex \notin Nat
      BY <1>2, GraphFacts, IndexAssumption
    <3> HIDE DEF r
    <3> QED BY <1>5, <3>1, <3>2
  <2>6. OutputRefs(Cur, idx) = {}
    BY <2>5 DEF OutputRefs
  <2>7. OutputJoined(map', Cur, idx)
    BY <2>4, <2>6 DEF OutputJoined
  <2> QED BY <1>1, <1>2, <1>3, <2>3, <2>4, <2>7, RoundProgress
<1>6. CASE ~Seen(cur) /\ r # NoIndex /\ ~(r >= g.ins[Cur])
  <2>1. r \in Index /\ r \in Inputs(Cur) /\ exist \in Anchor
    <3>1. r \in Index \cup {NoIndex}
      <4>1. 0 \in Index /\ g.named[<<Cur, idx>>] \in Index \cup {NoIndex} /\ g.reuse[<<Cur, idx>>] \in Index \cup {NoIndex}
        BY <1>2, GraphFacts, IndexAssumption DEF Index
      <4> QED BY <1>2, <4>1 DEF IsRefFromInput
    <3>2. r \in Index
      BY <1>6, <3>1
    <3>3. r < g.ins[Cur]
      BY <1>2, <1>6, <3>2, GraphFacts, IndexAssumption DEF Index
    <3> QED BY <1>1, <3>2, <3>3, AtFacts DEF Inputs
  <2>2. UpdateFault(exist) \in {"unseen", "running"} /\ (UpdateFault(exist) = "running" => Seen(exist))
    BY <2>1, NoFault
  <2>3. CASE UpdateFault(exist) # "running"
    <3>1. Fail(UpdateFault(exist))
      BY <1>6, <2>3 DEF OutputAnchor
    <3>2. ~Sorted
      <4> SUFFICES ASSUME Sorted PROVE FALSE
        OBVIOUS
      <4>1. r \in InputsInClass(Cur)
        BY <1>2, <2>1 DEF Sorted, Ready
      <4>2. InputPassed(pos, r)
        BY <1>1 DEF InputPassed
      <4>3. InputJoined(map, Cur, r)
        BY <1>2, <2>1, <4>2 DEF Progress, JoinedSoFar
      <4>4. Seen(exist)
        BY <4>1, <4>3 DEF InputJoined, Seen
      <4> QED BY <2>1, <2>3, <4>4, NoFaultSeen
    <3> QED BY <2>2, <3>1, <3>2, ResultProgress
  <2>4. CASE UpdateFault(exist) = "running"
    <3>1. GoOn(Add(map, cur, map.sym[exist])) /\ map.sym[cur] = NoAnchor /\ map.sym[exist] # NoAnchor
      BY <1>6, <2>2, <2>4 DEF OutputAnchor, Seen
    <3>2. ~(idx = 0 /\ \E c \in InOrder : ClosesLoop(Cur, c))
      BY <1>1, <1>6, ClosedSeen
    <3>3. OutputRefs(Cur, idx) = {<<cur, exist>>}
      BY <2>1, <3>2 DEF OutputRefs
    <3>4. <<cur, exist>> \in References
      BY <1>2, <3>3, RefMember
    <3>5. /\ Good(Add(map, cur, map.sym[exist]), References)
          /\ InUse(Add(map, cur, map.sym[exist])) = InUse(map) \cup {cur}
      BY <1>2, <1>3, <2>1, <3>1, <3>4, GoodAdd
    <3>6. Round({cur})
      BY <1>1, <1>2, <3>1, <3>5 DEF Round, GoOn
    <3>7. Coarser(map, map') /\ OneSymbol(map', cur, exist)
      BY <1>2, <1>3, <2>1, <3>1, AddJoins DEF GoOn
    <3>8. OutputJoined(map', Cur, idx)
      BY <3>3, <3>7 DEF OutputJoined, OneSymbol
    <3> QED BY <1>1, <1>2, <1>3, <3>6, <3>7, <3>8, RoundProgress
  <2> QED BY <2>3, <2>4
<1> QED BY <1>4, <1>5, <1>6

LEMMA NodeDoneProgress ==
  ASSUME IInv, Progress, NodeDone
  PROVE  Progress'
<1>1. /\ pos <= Len(g.order) /\ phase = "out" /\ idx >= g.outs[Cur] /\ result = "running"
      /\ g' = g /\ pos' = pos + 1 /\ map' = map /\ result' = result /\ idx' = 0 /\ phase' = "in"
      /\ base' = base
  BY DEF NodeDone, At
<1>2. /\ TypeOK /\ pos \in Nat /\ pos \in DOMAIN g.order /\ Cur = g.order[pos] /\ Cur \in Node
      /\ idx \in Nat /\ g.outs[Cur] \in 0 .. MaxIndex + 1
  BY <1>1, AtFacts
<1>3. DOMAIN g.order = 1 .. Len(g.order) /\ Len(g.order) \in Nat
  BY <1>2, GraphFacts
<1>4. \A p \in DOMAIN g.order : p < pos + 1 <=> (p < pos \/ p = pos)
  BY <1>2, <1>3
<1>5. \A i \in Index : ~(i < 0)
  BY IndexAssumption DEF Index
<1>6. ASSUME NEW p \in DOMAIN g.order, NEW i \in Index, InputPassed(p, i)' PROVE InputPassed(p, i)
  BY <1>1, <1>4, <1>5, <1>6 DEF InputPassed
<1>7. ASSUME NEW p \in DOMAIN g.order, NEW o \in Index, OutputPassed(p, o)', o \in Outputs(g.order[p])
      PROVE  OutputPassed(p, o)
  <2>1. p < pos \/ p = pos
    BY <1>1, <1>4, <1>7 DEF OutputPassed
  <2>2. p = pos => o < idx
    BY <1>1, <1>2, <1>7, IndexAssumption DEF Outputs, Index
  <2> QED BY <1>1, <2>1, <2>2 DEF OutputPassed
<1>8. ASSUME NEW p \in DOMAIN g.order, NEW o \in Index, OutputPassed(p, o) PROVE OutputPassed(p, o)'
  BY <1>1, <1>4, <1>8 DEF OutputPassed
<1>9. MergeJoined' /\ DoneAtEnd' /\ result' = "running" /\ Coarser(map, map')
  BY <1>1 DEF MergeJoined, DoneAtEnd, Coarser
<1> QED BY <1>1, <1>6, <1>7, <1>8, <1>9, StepProgress

LEMMA ReturnProgress ==
  ASSUME IInv, Progress, Return \/ UNCHANGED vars
  PROVE  Progress'
<1>1. CASE Return
  <2>1. Fail("success") /\ pos > Len(g.order)
    BY <1>1 DEF Return, Fail
  <2> QED BY <2>1, ResultProgress
<1>2. CASE UNCHANGED vars
  <2>1. Fail(result)
    BY <1>2 DEF vars, Fail
  <2> QED BY <2>1, ResultProgress DEF Progress, DoneAtEnd, SortedGraphSucceeds
<1> QED BY <1>1, <1>2
(***************************************************************************)
(* The mapping is complete.                                                *)
(***************************************************************************)
LEMMA ProgressStarts == Init => Progress
<1> SUFFICES ASSUME Init PROVE Progress
  OBVIOUS
<1>1. /\ g \in Shape /\ pos = 1 /\ phase = "in" /\ idx = 0 /\ result = "running"
      /\ map.sym = [a \in Anchor |-> NoAnchor]
  BY GraphsAssumption DEF Init
<1>2. \A p \in DOMAIN g.order : g.order[p] \in Node /\ p \in Nat /\ ~(p < 1)
  BY <1>1 DEF Shape
<1>3. \A i \in Index : ~(i < 0)
  BY IndexAssumption DEF Index
<1>4. JoinedSoFar
  BY <1>1, <1>2, <1>3 DEF JoinedSoFar, InputPassed, OutputPassed
<1>5. \A a \in Anchor : ~Seen(a)
  BY <1>1 DEF Seen
<1>6. OutputsAhead
  <2>1. \A q \in DOMAIN g.order, o \in Index : Out(g.order[q], o) \in Anchor
    BY <1>2 DEF Out, Anchor
  <2> QED BY <1>5, <2>1 DEF OutputsAhead
<1>7. MergeJoined /\ OnlyExpected /\ DoneAtEnd /\ SortedGraphSucceeds
  BY <1>1, <1>5 DEF MergeJoined, OnlyExpected, DoneAtEnd, SortedGraphSucceeds
<1> QED BY <1>4, <1>6, <1>7 DEF Progress

LEMMA ProgressPreserved == IInv /\ Progress /\ [Next]_vars => Progress'
<1> SUFFICES ASSUME IInv, Progress, [Next]_vars PROVE Progress'
  OBVIOUS
<1>1. CASE PlainInput
  BY <1>1, PlainInputProgress
<1>2. CASE SubgraphInput
  BY <1>2, SubgraphInputProgress
<1>3. CASE SubgraphOutput
  BY <1>3, SubgraphOutputProgress
<1>4. CASE MergeChoose
  BY <1>4, MergeChooseProgress
<1>5. CASE MergeUnion
  BY <1>5, MergeUnionProgress
<1>6. CASE MergeAdd
  BY <1>6, MergeAddProgress
<1>7. CASE InputsDone
  BY <1>7, InputsDoneProgress
<1>8. CASE OutputAnchor
  BY <1>8, OutputAnchorProgress
<1>9. CASE NodeDone
  BY <1>9, NodeDoneProgress
<1>10. CASE Return \/ UNCHANGED vars
  BY <1>10, ReturnProgress
<1> QED BY <1>1, <1>2, <1>3, <1>4, <1>5, <1>6, <1>7, <1>8, <1>9, <1>10 DEF Next

\* When all nodes are behind the loops, all that they refer to is joined.
LEMMA JoinedAtEnd ==
  ASSUME IInv, Progress
  PROVE  SymbolsAreComplete
<1>1. ASSUME result = "success"
      PROVE  /\ \A r \in References : Seen(r[1]) /\ map.sym[r[1]] = map.sym[r[2]]
             /\ Mapped = ToBeMapped
  <2>1. pos > Len(g.order) /\ pos \in Nat /\ Len(g.order) \in Nat /\ DOMAIN g.order = 1 .. Len(g.order)
    BY <1>1, GraphFacts DEF Progress, DoneAtEnd, IInv
  <2>2. ASSUME NEW n \in InOrder
        PROVE  /\ n \in Node
               /\ \A i \in Index : InputJoined(map, n, i)
               /\ \A o \in Outputs(n) : o \in Index /\ OutputJoined(map, n, o)
    <3>1. PICK p \in DOMAIN g.order : n = g.order[p]
      BY DEF InOrder
    <3>2. p < pos
      BY <2>1
    <3>3. \A i \in Index : InputPassed(p, i) /\ OutputPassed(p, i)
      BY <3>2 DEF InputPassed, OutputPassed
    <3>4. n \in Node
      BY <3>1, GraphFacts DEF IInv
    <3>5. \A o \in Outputs(n) : o \in Index
      BY DEF Outputs
    <3> QED BY <3>1, <3>3, <3>4, <3>5 DEF Progress, JoinedSoFar
  <2>3. ASSUME NEW r \in References
        PROVE  Seen(r[1]) /\ map.sym[r[1]] = map.sym[r[2]]
    <3>1. PICK n \in InOrder : r \in NodeRefs(n)
      BY DEF References
    <3>2. (\E i \in Index : r \in InputRefs(n, i)) \/ (\E o \in Outputs(n) : r \in OutputRefs(n, o))
      BY <3>1 DEF NodeRefs
    <3>3. OneSymbol(map, r[1], r[2])
      BY <2>2, <3>2 DEF InputJoined, OutputJoined
    <3> QED BY <3>3 DEF OneSymbol, Seen
  <2>4. ASSUME NEW a \in ToBeMapped
        PROVE  a \in Mapped
    <3>1. PICK n \in InOrder :
            a \in {In(n, i) : i \in InputsInClass(n)} \cup {Out(n, o) : o \in Outputs(n)}
      BY DEF ToBeMapped
    <3>2. CASE a \in {In(n, i) : i \in InputsInClass(n)}
      <4>1. PICK i \in InputsInClass(n) : a = In(n, i)
        BY <3>2
      <4>2. i \in Index
        <5>1. 0 \in Index
          BY IndexAssumption DEF Index
        <5>2. Inputs(n) \subseteq Index /\ Linked(n) \subseteq Inputs(n)
          BY DEF Inputs, Linked
        <5>3. InputsInClass(n) \subseteq Inputs(n) \cup {0}
          BY <5>2 DEF InputsInClass
        <5> QED BY <4>1, <5>1, <5>2, <5>3
      <4>3. map.sym[In(n, i)] # NoAnchor
        BY <2>2, <4>1, <4>2 DEF InputJoined
      <4>4. a \in Anchor
        BY <2>2, <4>1, <4>2 DEF In, Anchor
      <4> QED BY <4>1, <4>3, <4>4 DEF Mapped, Seen
    <3>3. CASE a \in {Out(n, o) : o \in Outputs(n)}
      <4>1. PICK o \in Outputs(n) : a = Out(n, o)
        BY <3>3
      <4>2. map.sym[Out(n, o)] # NoAnchor /\ o \in Index /\ n \in Node
        BY <2>2, <4>1 DEF OutputJoined
      <4>3. a \in Anchor
        BY <4>1, <4>2 DEF Out, Anchor
      <4> QED BY <4>1, <4>2, <4>3 DEF Mapped, Seen
    <3> QED BY <3>1, <3>2, <3>3
  <2>5. Mapped \subseteq ToBeMapped
    BY DEF Mapped, Progress, OnlyExpected
  <2>6. Mapped = ToBeMapped
    BY <2>4, <2>5
  <2> QED BY <2>3, <2>6
<1>2. ReferencesShareSymbol
  BY <1>1 DEF ReferencesShareSymbol
<1> QED BY <1>2 DEF SymbolsAreComplete, Progress

\* For every graph, when GetRefMapping returns SUCCESS the two ends of every
\* reference have one symbol and exactly the anchors one expects have one;
\* and for a sorted graph it returns nothing else.
THEOREM SymbolsAreCompleteAlways == Spec => []SymbolsAreComplete
<1> DEFINE Both == IInv /\ Progress
<1>1. Init => Both
  BY InitEstablishes, ProgressStarts
<1>2. Both /\ [Next]_vars => Both'
  BY StepPreserves, ProgressPreserved
<1>3. Both => SymbolsAreComplete
  BY JoinedAtEnd
<1> QED BY <1>1, <1>2, <1>3, PTL DEF Spec
=============================================================================
