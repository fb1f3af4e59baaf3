---------------------------- MODULE Fusion_proofs ----------------------------
(* What the searches of the fusion passes find, for every graph and all passes *)
(* and patterns: a scope pattern types the outermost scopes that match, a pass *)
(* that gives up takes its types back, and the nodes a fusion result swallows  *)
(* are the ones of its scopes in the tree; a search for a fusion pattern ends  *)
(* in nodes of the graph that are linked as the pattern is; and a buffer       *)
(* pattern that counted no error is what its calls asked for.                  *)
EXTENDS ScopeFusion, PatternFusion, BufferFusion, FiniteSetTheorems, NaturalsInduction, WellFoundedInduction, TLAPS

-----------------------------------------------------------------------------
(* The beginnings of a name.                                                  *)

LEMMA PrefixByPlaces ==
  ASSUME NEW W, NEW s \in Seq(W), NEW t \in Seq(W)
  PROVE  IsPrefix(s, t) <=> Len(s) <= Len(t) /\ \A i \in 1..Len(s) : s[i] = t[i]
  <1>1. Len(s) \in Nat /\ Len(t) \in Nat
    OBVIOUS
  <1>2. SubSeq(s, 1, Len(s)) = [i \in 1..Len(s) |-> s[i]]
    OBVIOUS
  <1>3. CASE Len(s) <= Len(t)
    <2>1. SubSeq(t, 1, Len(s)) = [i \in 1..Len(s) |-> t[i]]
      BY <1>3
    <2> QED
      BY <1>2, <1>3, <2>1 DEF IsPrefix
  <1>4. CASE ~(Len(s) <= Len(t))
    BY <1>4 DEF IsPrefix
  <1> QED
    BY <1>3, <1>4

LEMMA PrefixOfItself ==
  ASSUME NEW W, NEW s \in Seq(W)
  PROVE  IsPrefix(s, s)
  BY PrefixByPlaces

LEMMA PrefixOfPrefix ==
  ASSUME NEW W, NEW r \in Seq(W), NEW s \in Seq(W), NEW t \in Seq(W), IsPrefix(r, s), IsPrefix(s, t)
  PROVE  IsPrefix(r, t)
  <1>1. Len(r) <= Len(s) /\ Len(s) <= Len(t) /\ Len(r) \in Nat /\ Len(s) \in Nat /\ Len(t) \in Nat
    BY PrefixByPlaces
  <1>2. \A i \in 1..Len(r) : r[i] = s[i] /\ i \in 1..Len(s)
    BY <1>1, PrefixByPlaces
  <1>3. \A i \in 1..Len(s) : s[i] = t[i]
    BY PrefixByPlaces
  <1> QED
    BY <1>1, <1>2, <1>3, PrefixByPlaces

(* Two beginnings of one name are beginnings of each other.                   *)
LEMMA PrefixesInLine ==
  ASSUME NEW W, NEW r \in Seq(W), NEW s \in Seq(W), NEW t \in Seq(W), IsPrefix(r, t), IsPrefix(s, t),
         Len(r) <= Len(s)
  PROVE  IsPrefix(r, s)
  <1>1. Len(r) \in Nat /\ Len(s) \in Nat /\ Len(t) \in Nat
    OBVIOUS
  <1>2. \A i \in 1..Len(r) : r[i] = t[i] /\ i \in 1..Len(s)
    BY <1>1, PrefixByPlaces
  <1>3. \A i \in 1..Len(s) : s[i] = t[i]
    BY PrefixByPlaces
  <1> QED
    BY <1>2, <1>3, PrefixByPlaces

LEMMA PrefixOfEqualLength ==
  ASSUME NEW W, NEW s \in Seq(W), NEW t \in Seq(W), IsPrefix(s, t), Len(t) <= Len(s)
  PROVE  s = t
  <1>1. Len(s) \in Nat /\ Len(t) \in Nat /\ Len(s) <= Len(t)
    BY PrefixByPlaces
  <1>2. Len(s) = Len(t) /\ \A i \in 1..Len(s) : s[i] = t[i]
    BY <1>1, PrefixByPlaces
  <1> QED
    BY <1>2

LEMMA RootIsPrefix ==
  ASSUME NEW W, NEW s \in Seq(W)
  PROVE  IsPrefix(Root, s) /\ Root \in Seq(W) /\ Len(Root) = 0
  <1>1. Root \in Seq(W) /\ Len(Root) = 0
    BY DEF Root
  <1>2. Len(Root) <= Len(s) /\ \A i \in 1..Len(Root) : Root[i] = s[i]
    BY <1>1
  <1> QED
    BY <1>1, <1>2, PrefixByPlaces

(* The beginnings of a name are its cuts.                                     *)
LEMMA CutIsPrefix ==
  ASSUME NEW W, NEW s \in Seq(W), NEW k \in 0..Len(s)
  PROVE  SubSeq(s, 1, k) \in Seq(W) /\ Len(SubSeq(s, 1, k)) = k /\ IsPrefix(SubSeq(s, 1, k), s)
  <1> DEFINE c == SubSeq(s, 1, k)
  <1>1. c \in Seq(W) /\ Len(c) = k
    OBVIOUS
  <1>2. \A i \in 1..k : c[i] = s[i]
    OBVIOUS
  <1>3. k <= Len(s)
    OBVIOUS
  <1> HIDE DEF c
  <1>4. IsPrefix(c, s)
    BY <1>1, <1>2, <1>3, PrefixByPlaces
  <1> QED
    BY <1>1, <1>4 DEF c

LEMMA PrefixIsCut ==
  ASSUME NEW W, NEW s \in Seq(W), NEW t \in Seq(W), IsPrefix(s, t)
  PROVE  Len(s) \in 0..Len(t) /\ s = SubSeq(t, 1, Len(s))
  <1>1. Len(s) \in 0..Len(t)
    BY PrefixByPlaces
  <1> DEFINE c == SubSeq(t, 1, Len(s))
  <1>2. c \in Seq(W) /\ Len(c) = Len(s) /\ IsPrefix(c, t)
    BY <1>1, CutIsPrefix
  <1> HIDE DEF c
  <1>3. IsPrefix(s, c) 
    BY <1>2, PrefixesInLine
  <1>4. s = c
    BY <1>2, <1>3, PrefixOfEqualLength
  <1> QED
    BY <1>1, <1>4 DEF c

(* A beginning of a scope one step below s, and still below s, is s.          *)
LEMMA PrefixOfChild ==
  ASSUME NEW W, NEW p \in Seq(W), NEW s \in Seq(W), NEW c \in Seq(W),
         IsPrefix(s, c), Len(c) = Len(s) + 1, IsPrefix(p, c)
  PROVE  p = c \/ IsPrefix(p, s)
  <1>1. Len(p) <= Len(c) /\ Len(p) \in Nat /\ Len(s) \in Nat
    BY PrefixByPlaces
  <1>2. CASE Len(p) <= Len(s)
    BY <1>2, PrefixesInLine
  <1>3. CASE Len(p) > Len(s)
    <2>1. Len(c) <= Len(p)
      BY <1>1, <1>3
    <2> QED
      BY <2>1, PrefixOfEqualLength
  <1> QED
    BY <1>1, <1>2, <1>3

-----------------------------------------------------------------------------
(* The tree: the scopes on the way to the nodes read so far, with the nodes   *)
(* that hang in each and the numbers of those below it.                       *)

CountedUnder(s, type) == {k \in 1..next-1 : Under(s, def[k].name) /\ def[k].op = type}

TreeTypes == /\ def \in GraphDefs /\ next \in 1..Len(def) + 1
             /\ nodesMap = {def[k].name : k \in 1..next-1}
             /\ tree \subseteq Seq(Words) /\ Root \in tree
             /\ DOMAIN types = tree /\ DOMAIN held = tree /\ DOMAIN opNums = tree
             /\ \A s \in tree : held[s] \in Seq(nodesMap) /\ DOMAIN opNums[s] = OpTypes
TreeIsClosed == /\ \A s \in tree : \A k \in 0..Len(s) : SubSeq(s, 1, k) \in tree
                /\ \A name \in nodesMap : Front(name) \in tree
NodesHang  == \A name \in nodesMap : \A s \in tree : name \in ToSet(held[s]) <=> s = Front(name)
NumsAreRight == \A s \in tree : \A type \in OpTypes : opNums[s][type] = RealNum(s, type)
TreeInv == TreeTypes /\ TreeIsClosed /\ NodesHang /\ NumsAreRight

-----------------------------------------------------------------------------
(* The search for a pattern.  What is undecided has its types of the start;   *)
(* what matches and has nothing that matches above it is found or undecided.  *)

Hits(s) == Match(Pattern, start, s)
Inner == tree \ {Root}
Undecided(s) == (\E t \in tops : IsPrefix(t, s)) \/ (\E p \in pending : IsPrefix(p, s) /\ p # s)
HitAbove(s) == \E q \in Inner : IsPrefix(q, s) /\ q # s /\ Hits(q)

Frontier == /\ tops \subseteq SubScopes(Root) /\ pending \subseteq Inner
            /\ \A p, q \in pending : IsPrefix(p, q) => p = q
            /\ \A t \in tops : \A p \in pending : ~IsPrefix(t, p)
Untouched == \A s \in tree : Undecided(s) => types[s] = start[s]
NoneMissed == \A s \in Inner : Hits(s) /\ ~HitAbove(s) => s \in one \/ Undecided(s)
NoHitYet == \A p \in pending : ~Hits(p) /\ ~HitAbove(p)
OnlyOutermost == at.pattern = 1 => \A s \in one : s \in Inner /\ Hits(s) /\ ~HitAbove(s)
SearchInv == at.pattern \in Nat \ {0} /\ Frontier /\ Untouched /\ NoneMissed /\ NoHitYet /\ OnlyOutermost

(* What a pass has typed.                                                     *)
Kept(s) == types[s] \in {before[s], ""}
Fused(s) == \E r \in results : IsPrefix(r, s)
RollInv == /\ phase = "match" => \A s \in tree : Kept(s) \/ s \in one \/ s \in tmp \/ Fused(s)
           /\ phase \in {"last", "generate"} => \A s \in tree : Kept(s) \/ Fused(s)
           /\ phase = "pass" /\ at.pass > 0 => \A s \in tree : Kept(s) \/ Fused(s)

FoundInTree == /\ one \subseteq tree /\ tmp \subseteq tree /\ results \subseteq tree /\ todo \subseteq tree
               /\ \A k \in DOMAIN fusion : fusion[k].scopes \subseteq tree

Places == [pass : Nat, group : Nat, batch : Nat, pattern : Nat]
ScopeInv == /\ TreeInv /\ FoundInTree /\ RollInv
            /\ at \in Places /\ (phase = "build" => at.pass = 0)
            /\ (phase = "match" => SearchInv)

LEMMA NodeFacts ==
  ASSUME def \in GraphDefs
  PROVE  /\ Len(def) \in Nat /\ DOMAIN def = 1..Len(def)
         /\ \A k \in 1..Len(def) : def[k].name \in Seq(Words) /\ def[k].name # << >> /\ def[k].op \in OpTypes
  <1>1. def \in Seq(ToSet(def)) /\ \A k \in DOMAIN def : def[k].name \in Seq(Words) /\ def[k].name # << >>
    BY ScopeAssumption
  <1>2. Len(def) \in Nat /\ DOMAIN def = 1..Len(def)
    BY <1>1
  <1>3. ASSUME NEW k \in DOMAIN def PROVE def[k].op \in OpTypes
    <2> DEFINE ops == {def[j].op : j \in DOMAIN def}
    <2>1. def[k].op \in ops /\ ops \in {{d[j].op : j \in DOMAIN d} : d \in GraphDefs}
      OBVIOUS
    <2> QED
      BY <2>1 DEF OpTypes
  <1> QED
    BY <1>1, <1>2, <1>3

(* The scopes on the way to a node are the ones it is under.                  *)
LEMMA WayIsAbove ==
  ASSUME NEW name \in Seq(Words), name # << >>
  PROVE  /\ SplitNodeName(name) \subseteq Seq(Words) /\ Root \in SplitNodeName(name)
         /\ Front(name) \in SplitNodeName(name)
         /\ \A s \in Seq(Words) : s \in SplitNodeName(name) <=> Under(s, name)
         /\ \A s \in SplitNodeName(name) : \A k \in 0..Len(s) : SubSeq(s, 1, k) \in SplitNodeName(name)
  <1>1. Len(name) \in Nat /\ Len(name) > 0
    OBVIOUS
  <1>2. \A k \in 0..Len(name)-1 : /\ SubSeq(name, 1, k) \in Seq(Words) /\ Len(SubSeq(name, 1, k)) = k
                                  /\ IsPrefix(SubSeq(name, 1, k), name)
    <2> SUFFICES ASSUME NEW k \in 0..Len(name)-1
                 PROVE  /\ SubSeq(name, 1, k) \in Seq(Words) /\ Len(SubSeq(name, 1, k)) = k
                        /\ IsPrefix(SubSeq(name, 1, k), name)
      OBVIOUS
    <2>1. k \in 0..Len(name)
      BY <1>1
    <2> QED
      BY <2>1, CutIsPrefix
  <1>3. SplitNodeName(name) \subseteq Seq(Words)
    BY <1>2 DEF SplitNodeName
  <1>4. Root \in SplitNodeName(name)
    <2>1. 0 \in 0..Len(name)-1 /\ SubSeq(name, 1, 0) = << >>
      BY <1>1
    <2> QED
      BY <2>1 DEF SplitNodeName, Root
  <1>5. Front(name) \in SplitNodeName(name)
    <2>1. Len(name)-1 \in 0..Len(name)-1
      BY <1>1
    <2> QED
      BY <2>1 DEF SplitNodeName, Front
  <1>6. ASSUME NEW s \in Seq(Words)
        PROVE  s \in SplitNodeName(name) <=> Under(s, name)
    <2>1. ASSUME s \in SplitNodeName(name) PROVE Under(s, name)
      <3>1. PICK k \in 0..Len(name)-1 : s = SubSeq(name, 1, k)
        BY <2>1 DEF SplitNodeName
      <3>2. Len(s) = k /\ IsPrefix(s, name) /\ k < Len(name)
        BY <1>1, <1>2, <3>1
      <3> QED
        BY <3>2 DEF Under
    <2>2. ASSUME Under(s, name) PROVE s \in SplitNodeName(name)
      <3>1. Len(s) < Len(name) /\ IsPrefix(s, name)
        BY <2>2 DEF Under
      <3>2. Len(s) \in 0..Len(name) /\ s = SubSeq(name, 1, Len(s))
        BY <3>1, PrefixIsCut
      <3>3. Len(s) \in 0..Len(name)-1
        BY <1>1, <3>1, <3>2
      <3> QED
        BY <3>2, <3>3 DEF SplitNodeName
    <2> QED
      BY <2>1, <2>2
  <1>7. ASSUME NEW s \in SplitNodeName(name), NEW k \in 0..Len(s)
        PROVE  SubSeq(s, 1, k) \in SplitNodeName(name)
    <2>1. s \in Seq(Words) /\ Len(s) < Len(name) /\ IsPrefix(s, name)
      BY <1>3, <1>6 DEF Under
    <2> DEFINE c == SubSeq(s, 1, k)
    <2>2. c \in Seq(Words) /\ Len(c) = k /\ IsPrefix(c, s)
      BY <2>1, CutIsPrefix
    <2> HIDE DEF c
    <2>3. IsPrefix(c, name) /\ Len(c) < Len(name)
      <3>1. IsPrefix(c, name)
        BY <2>1, <2>2, PrefixOfPrefix
      <3>2. Len(c) < Len(name)
        BY <1>1, <2>1, <2>2
      <3> QED
        BY <3>1, <3>2
    <2>4. c \in SplitNodeName(name)
      BY <1>6, <2>2, <2>3 DEF Under
    <2> QED
      BY <2>4 DEF c
  <1> QED
    BY <1>3, <1>4, <1>5, <1>6, <1>7

(* Everything above a node that was read is in the tree.                      *)
LEMMA AboveIsInTree ==
  ASSUME TreeTypes, TreeIsClosed, NEW name \in nodesMap, NEW s \in Seq(Words), Under(s, name)
  PROVE  s \in tree
  <1>1. name \in Seq(Words) /\ name # << >>
    BY NodeFacts DEF TreeTypes
  <1>2. Len(name) \in Nat /\ Len(name) > 0 /\ Len(s) < Len(name) /\ IsPrefix(s, name)
    BY <1>1 DEF Under
  <1>3. Front(name) \in tree /\ Front(name) \in Seq(Words)
    BY DEF TreeTypes, TreeIsClosed
  <1>4. Len(Front(name)) = Len(name)-1 /\ IsPrefix(Front(name), name)
    <2>1. Len(name)-1 \in 0..Len(name)
      BY <1>2
    <2> QED
      BY <1>1, <2>1, CutIsPrefix DEF Front
  <1>5. IsPrefix(s, Front(name))
    <2>1. Len(s) <= Len(Front(name))
      BY <1>2, <1>4
    <2> QED
      BY <1>1, <1>2, <1>3, <1>4, <2>1, PrefixesInLine
  <1>6. Len(s) \in 0..Len(Front(name)) /\ s = SubSeq(Front(name), 1, Len(s))
    BY <1>3, <1>5, PrefixIsCut
  <1> QED
    BY <1>3, <1>6 DEF TreeIsClosed

LEMMA CountedIsFinite ==
  ASSUME TreeTypes, NEW s, NEW type
  PROVE  /\ IsFiniteSet(CountedUnder(s, type)) /\ Cardinality(CountedUnder(s, type)) \in Nat
         /\ Cardinality(CountedUnder(s, type)) = 0 <=> CountedUnder(s, type) = {}
         /\ next \notin CountedUnder(s, type)
         /\ RealNum(s, type) = IF Cardinality(CountedUnder(s, type)) = 0 THEN None
                               ELSE Cardinality(CountedUnder(s, type))
  <1>1. next \in Nat /\ CountedUnder(s, type) \subseteq 1..next-1
    BY NodeFacts DEF TreeTypes, CountedUnder
  <1>2. IsFiniteSet(1..next-1)
    BY <1>1, FS_Interval
  <1>3. IsFiniteSet(CountedUnder(s, type))
    BY <1>1, <1>2, FS_Subset
  <1>4. Cardinality(CountedUnder(s, type)) \in Nat
        /\ (Cardinality(CountedUnder(s, type)) = 0 <=> CountedUnder(s, type) = {})
    BY <1>3, FS_CardinalityType, FS_EmptySet
  <1>5. next \notin CountedUnder(s, type)
    BY <1>1
  <1> QED
    BY <1>3, <1>4, <1>5 DEF RealNum, CountedUnder

(* The number of a type after one more node of it, or of another.             *)
LEMMA OneMoreCounted ==
  ASSUME TreeTypes, next' = next + 1, def' = def, NEW s, NEW type
  PROVE  RealNum(s, type)' = IF Under(s, def[next].name) /\ def[next].op = type
                             THEN IF RealNum(s, type) = None THEN 1 ELSE RealNum(s, type) + 1
                             ELSE RealNum(s, type)
  <1> DEFINE C == CountedUnder(s, type)
             D == {k \in 1..next : Under(s, def[k].name) /\ def[k].op = type}
             new == Under(s, def[next].name) /\ def[next].op = type
  <1>1. next \in Nat /\ next >= 1
    BY NodeFacts DEF TreeTypes
  <1>2. next' - 1 = next
    BY <1>1
  <1>3. RealNum(s, type)' = IF Cardinality(D) = 0 THEN None ELSE Cardinality(D)
    BY <1>2 DEF RealNum, Under
  <1>4. D = IF new THEN C \cup {next} ELSE C
    BY <1>1 DEF CountedUnder
  <1>5. /\ IsFiniteSet(C) /\ Cardinality(C) \in Nat /\ next \notin C
        /\ RealNum(s, type) = IF Cardinality(C) = 0 THEN None ELSE Cardinality(C)
    BY CountedIsFinite
  <1> HIDE DEF C, D
  <1>6. Cardinality(C \cup {next}) = Cardinality(C) + 1
    BY <1>5, FS_AddElement
  <1>7. CASE new
    <2>1. Cardinality(D) = Cardinality(C) + 1
      BY <1>4, <1>6, <1>7
    <2> QED
      BY <1>3, <1>5, <1>7, <2>1 DEF None
  <1>8. CASE ~new
    BY <1>3, <1>4, <1>5, <1>8
  <1> QED
    BY <1>7, <1>8

LEMMA NodeAddedToTree ==
  ASSUME TreeInv, BuildScopeGraph(TRUE)
  PROVE  TreeInv'
  <1> DEFINE name == def[next].name
             way == SplitNodeName(name)
  <1>1. /\ next <= Len(def) /\ nodesMap' = nodesMap \cup {name} /\ AddNodeToScope(def[next])
        /\ next' = next + 1 /\ def' = def
    BY DEF BuildScopeGraph
  <1>2. next \in 1..Len(def) /\ Len(def) \in Nat
    BY <1>1, NodeFacts DEF TreeInv, TreeTypes
  <1>3. name \in Seq(Words) /\ name # << >> /\ def[next].op \in OpTypes
    BY <1>2, NodeFacts DEF TreeInv, TreeTypes
  <1>4. tree' = tree \cup way
    BY <1>1 DEF AddNodeToScope
  <1>5. opNums' = [s \in tree' |-> LET nums == IF s \in tree THEN opNums[s] ELSE NoOps
                                   IN  IF s \in way THEN OpsNumInc(nums, def[next].op) ELSE nums]
    BY <1>1, <1>4 DEF AddNodeToScope
  <1>6. held' = [s \in tree' |-> LET own == IF s \in tree THEN held[s] ELSE << >>
                                 IN  IF s = Front(name) THEN Append(own, name) ELSE own]
    BY <1>1, <1>4 DEF AddNodeToScope
  <1>7. DOMAIN types' = tree'
    BY <1>1, <1>4 DEF AddNodeToScope
  <1>8. /\ way \subseteq Seq(Words) /\ Front(name) \in way
        /\ \A s \in Seq(Words) : s \in way <=> Under(s, name)
        /\ \A s \in way : \A k \in 0..Len(s) : SubSeq(s, 1, k) \in way
    BY <1>3, WayIsAbove
  <1>9. tree \subseteq Seq(Words) /\ DOMAIN held = tree /\ DOMAIN opNums = tree /\ Root \in tree
    BY DEF TreeInv, TreeTypes
  <1>10. tree' \subseteq Seq(Words)
    BY <1>4, <1>8, <1>9
  <1>11. NumsAreRight'
    <2> SUFFICES ASSUME NEW s \in tree', NEW type \in OpTypes
                 PROVE  opNums'[s][type] = RealNum(s, type)'
      BY DEF NumsAreRight
    <2> DEFINE nums == IF s \in tree THEN opNums[s] ELSE NoOps
    <2>1. RealNum(s, type)' = IF Under(s, name) /\ def[next].op = type
                              THEN IF RealNum(s, type) = None THEN 1 ELSE RealNum(s, type) + 1
                              ELSE RealNum(s, type)
      BY <1>1, OneMoreCounted DEF TreeInv
    <2>2. nums[type] = RealNum(s, type) /\ DOMAIN nums = OpTypes
      <3>1. CASE s \in tree
        BY <3>1 DEF TreeInv, NumsAreRight, TreeTypes
      <3>2. CASE s \notin tree
        <4>1. \A n \in nodesMap : ~Under(s, n)
          BY <1>10, <3>2, AboveIsInTree DEF TreeInv
        <4>2. CountedUnder(s, type) = {}
          BY <4>1 DEF CountedUnder, TreeInv, TreeTypes
        <4>3. RealNum(s, type) = None
          BY <4>2, CountedIsFinite DEF TreeInv
        <4> QED
          BY <3>2, <4>3 DEF NoOps
      <3> QED
        BY <3>1, <3>2
    <2>3. opNums'[s] = IF s \in way THEN OpsNumInc(nums, def[next].op) ELSE nums
      BY <1>5
    <2>4. s \in way <=> Under(s, name)
      BY <1>8, <1>10
    <2> HIDE DEF nums, way, name
    <2>5. CASE s \in way
      <3>1. opNums'[s][type] = IF def[next].op = type THEN (IF nums[type] = None THEN 1 ELSE nums[type] + 1)
                               ELSE nums[type]
        BY <2>2, <2>3, <2>5, <1>3 DEF OpsNumInc
      <3> QED
        BY <2>1, <2>2, <2>4, <2>5, <3>1
    <2>6. CASE s \notin way
      BY <2>1, <2>2, <2>3, <2>4, <2>6
    <2> QED
      BY <2>5, <2>6
  <1>12. \A s \in tree' : held'[s] \in Seq(nodesMap') /\ DOMAIN opNums'[s] = OpTypes
    <2> SUFFICES ASSUME NEW s \in tree' PROVE held'[s] \in Seq(nodesMap') /\ DOMAIN opNums'[s] = OpTypes
      OBVIOUS
    <2> DEFINE own == IF s \in tree THEN held[s] ELSE << >>
               nums == IF s \in tree THEN opNums[s] ELSE NoOps
    <2>1. own \in Seq(nodesMap) /\ DOMAIN nums = OpTypes
      <3>1. \A r \in tree : held[r] \in Seq(nodesMap) /\ DOMAIN opNums[r] = OpTypes
        BY DEF TreeInv, TreeTypes
      <3>2. DOMAIN NoOps = OpTypes
        BY DEF NoOps
      <3>3. own \in Seq(nodesMap)
        BY <3>1
      <3>4. DOMAIN nums = OpTypes
        BY <3>1, <3>2
      <3> QED
        BY <3>3, <3>4
    <2>2. held'[s] = IF s = Front(name) THEN Append(own, name) ELSE own
      BY <1>6
    <2>3. opNums'[s] = IF s \in way THEN OpsNumInc(nums, def[next].op) ELSE nums
      BY <1>5
    <2> HIDE DEF own, nums, way, name
    <2>4. own \in Seq(nodesMap') /\ name \in nodesMap'
      <3>1. nodesMap \subseteq nodesMap' /\ name \in nodesMap'
        BY <1>1
      <3> QED
        BY <2>1, <3>1
    <2>5. held'[s] \in Seq(nodesMap')
      BY <2>2, <2>4
    <2> QED
      BY <2>1, <2>3, <2>5 DEF OpsNumInc
  <1>13. TreeTypes'
    <2>1. next' \in 1..Len(def') + 1
      BY <1>1, <1>2
    <2>2. nodesMap' = {def'[k].name : k \in 1..next'-1}
      <3>1. nodesMap = {def[k].name : k \in 1..next-1}
        BY DEF TreeInv, TreeTypes
      <3>2. 1..next'-1 = (1..next-1) \cup {next}
        BY <1>1, <1>2
      <3> QED
        BY <1>1, <3>1, <3>2
    <2>3. DOMAIN held' = tree' /\ DOMAIN opNums' = tree'
      BY <1>5, <1>6
    <2>4. Root \in tree' /\ def' \in GraphDefs
      BY <1>1, <1>4 DEF TreeInv, TreeTypes
    <2> QED
      BY <1>7, <1>10, <1>12, <2>1, <2>2, <2>3, <2>4 DEF TreeTypes
  <1>14. TreeIsClosed'
    <2>1. \A s \in tree' : \A k \in 0..Len(s) : SubSeq(s, 1, k) \in tree'
      BY <1>4, <1>8 DEF TreeInv, TreeIsClosed
    <2>2. \A n \in nodesMap' : Front(n) \in tree'
      BY <1>1, <1>4, <1>8 DEF TreeInv, TreeIsClosed
    <2> QED
      BY <2>1, <2>2 DEF TreeIsClosed
  <1>15. NodesHang'
    <2> SUFFICES ASSUME NEW n \in nodesMap', NEW s \in tree'
                 PROVE  n \in ToSet(held'[s]) <=> s = Front(n)
      BY DEF NodesHang
    <2> DEFINE own == IF s \in tree THEN held[s] ELSE << >>
    <2>1. held'[s] = IF s = Front(name) THEN Append(own, name) ELSE own
      BY <1>6
    <2>2. own \in Seq(nodesMap)
      BY DEF TreeInv, TreeTypes
    <2>3. \A m \in nodesMap : m \in ToSet(own) <=> s = Front(m)
      <3>1. CASE s \in tree
        BY <3>1 DEF TreeInv, NodesHang
      <3>2. CASE s \notin tree
        <4>1. ToSet(own) = {}
          BY <3>2 DEF ToSet
        <4>2. \A m \in nodesMap : Front(m) \in tree
          BY DEF TreeInv, TreeIsClosed
        <4> QED
          BY <3>2, <4>1, <4>2
      <3> QED
        BY <3>1, <3>2
    <2>4. ToSet(own) \subseteq nodesMap
      BY <2>2 DEF ToSet
    <2>5. ToSet(Append(own, name)) = ToSet(own) \cup {name}
      <3> HIDE DEF own, name
      <3>1. \A i \in 1..Len(own) : Append(own, name)[i] = own[i]
        BY <2>2
      <3>2. Append(own, name)[Len(own) + 1] = name /\ DOMAIN Append(own, name) = 1..Len(own) + 1 /\ Len(own) \in Nat
            /\ DOMAIN own = 1..Len(own)
        BY <2>2
      <3>3. \A i \in 1..Len(own) + 1 : i \in 1..Len(own) \/ i = Len(own) + 1
        BY <3>2
      <3>4. ToSet(Append(own, name)) \subseteq ToSet(own) \cup {name}
        BY <3>1, <3>2, <3>3 DEF ToSet
      <3>5. ToSet(own) \subseteq ToSet(Append(own, name))
        <4>1. \A i \in 1..Len(own) : i \in 1..Len(own) + 1
          BY <3>2
        <4> QED
          BY <3>1, <3>2, <4>1 DEF ToSet
      <3>6. name \in ToSet(Append(own, name))
        <4>1. Len(own) + 1 \in 1..Len(own) + 1
          BY <3>2
        <4> QED
          BY <3>2, <4>1 DEF ToSet
      <3> QED
        BY <3>4, <3>5, <3>6
    <2> HIDE DEF own, name
    <2>6. CASE n = name
      <3>1. CASE s = Front(name)
        BY <2>1, <2>5, <2>6, <3>1
      <3>2. CASE s # Front(name)
        BY <2>1, <2>3, <2>4, <2>6, <3>2
      <3> QED
        BY <3>1, <3>2
    <2>7. CASE n # name
      <3>1. n \in nodesMap
        BY <1>1, <2>7
      <3> QED
        BY <2>1, <2>3, <2>5, <2>7, <3>1
    <2> QED
      BY <2>6, <2>7
  <1> QED
    BY <1>11, <1>13, <1>14, <1>15 DEF TreeInv

(* Only reading a node changes the tree.                                      *)
LEMMA TreeStays ==
  ASSUME TreeInv, UNCHANGED <<def, next, treeVars>>, DOMAIN types' = tree
  PROVE  TreeInv'
  <1>1. /\ def' = def /\ next' = next /\ nodesMap' = nodesMap /\ tree' = tree /\ opNums' = opNums
        /\ held' = held /\ DOMAIN types' = tree
    BY DEF treeVars
  <1>2. TreeTypes'
    <2>1. {def'[k].name : k \in 1..next'-1} = {def[k].name : k \in 1..next-1}
      BY <1>1
    <2> QED
      BY <1>1, <2>1 DEF TreeInv, TreeTypes
  <1>3. TreeIsClosed'
    BY <1>1 DEF TreeInv, TreeIsClosed
  <1>4. NodesHang'
    BY <1>1 DEF TreeInv, NodesHang
  <1>5. NumsAreRight'
    <2>1. ASSUME NEW s, NEW type PROVE RealNum(s, type)' = RealNum(s, type)
      <3>1. CountedUnder(s, type)' = CountedUnder(s, type)
        BY <1>1 DEF CountedUnder, Under
      <3>2. Cardinality(CountedUnder(s, type)') = Cardinality(CountedUnder(s, type))
        BY <3>1
      <3> QED
        BY <3>2 DEF RealNum, CountedUnder, Under
    <2>2. \A s \in tree : \A type \in OpTypes : opNums'[s][type] = RealNum(s, type)'
      BY <1>1, <2>1 DEF TreeInv, NumsAreRight
    <2> QED
      BY <1>1, <2>2 DEF NumsAreRight
  <1> QED
    BY <1>2, <1>3, <1>4, <1>5 DEF TreeInv

LEMMA TreeBegins ==
  ASSUME ScopeFusionInit
  PROVE  TreeInv
  <1>1. /\ def \in GraphDefs /\ next = 1 /\ nodesMap = {} /\ tree = {Root}
        /\ opNums = [s \in tree |-> NoOps] /\ held = [s \in tree |-> << >>] /\ types = [s \in tree |-> ""]
    BY DEF ScopeFusionInit
  <1>2. Len(def) \in Nat
    BY <1>1, NodeFacts
  <1>3. Root \in Seq(Words) /\ Len(Root) = 0
    BY DEF Root
  <1>4. /\ DOMAIN opNums = {Root} /\ opNums[Root] = NoOps /\ DOMAIN held = {Root} /\ held[Root] = << >>
        /\ DOMAIN types = {Root}
    BY <1>1
  <1>9. 1..next-1 = {}
    <2>1. next = 1
      BY <1>1
    <2>2. next - 1 = 0
      BY <2>1
    <2>3. 1..0 = {}
      OBVIOUS
    <2> QED
      BY <2>2, <2>3
  <1>5. TreeTypes
    <2>1. DOMAIN NoOps = OpTypes /\ << >> \in Seq(nodesMap)
      BY DEF NoOps
    <2>2. {def[k].name : k \in 1..next-1} = {}
      BY <1>9
    <2>3. next \in 1..Len(def) + 1
      <3>1. next = 1
        BY <1>1
      <3> QED
        BY <1>2, <3>1
    <2> QED
      BY <1>1, <1>3, <1>4, <2>1, <2>2, <2>3 DEF TreeTypes
  <1>6. TreeIsClosed
    <2>1. \A k \in 0..Len(Root) : SubSeq(Root, 1, k) = Root
      BY <1>3 DEF Root
    <2> QED
      BY <1>1, <2>1 DEF TreeIsClosed
  <1>7. NodesHang
    BY <1>1 DEF NodesHang
  <1>8. NumsAreRight
    <2> SUFFICES ASSUME NEW type \in OpTypes PROVE opNums[Root][type] = RealNum(Root, type)
      BY <1>1 DEF NumsAreRight
    <2>1. CountedUnder(Root, type) = {}
      BY <1>9 DEF CountedUnder
    <2>2. RealNum(Root, type) = None
      BY <1>5, <2>1, CountedIsFinite
    <2> QED
      BY <1>4, <2>2 DEF NoOps
  <1> QED
    BY <1>5, <1>6, <1>7, <1>8 DEF TreeInv

-----------------------------------------------------------------------------
(* Matching.  What decides whether a scope matches is kept apart from the     *)
(* variables, so that it can be compared between two states.                  *)

NumIn(nums, s, type) == IF type \in OpTypes THEN nums[s][type] ELSE None
TypeMatchIn(nums, x, s) ==
    IF x.step = 0 THEN NumIn(nums, s, x.type) = x.num
    ELSE NumIn(nums, s, x.type) # None /\ NumIn(nums, s, x.type) % x.step = x.num
AttrMatchIn(d, h, x, s) ==
    LET node(k) == d[CHOOSE j \in DOMAIN d : d[j].name = h[s][k]]
        same == {k \in DOMAIN h[s] : node(k).op = x.type}
    IN  \E k \in same : node(k).attr = x.value /\ \A j \in same : j <= k => node(j).attr # NoAttr
BelowIn(t, s) == {c \in t : Len(c) > Len(s) /\ IsPrefix(s, c)}
ScopeMatchIn(below, x, T, s) ==
    /\ x.suffix # "" => LastName(s) = <<x.suffix, None>>
    /\ SubScopesMatch(x, T, below)
MatchIn(d, h, nums, t, P, T, s) ==
    /\ \A x \in P.ops : TypeMatchIn(nums, x, s)
    /\ \A x \in P.attrs : AttrMatchIn(d, h, x, s)
    /\ \A x \in P.scopes : ScopeMatchIn(BelowIn(t, s), x, T, s)
    /\ TypeMatchIn(nums, NoRetval, s)

LEMMA MatchIsIn ==
  ASSUME NEW P, NEW T, NEW s
  PROVE  /\ Match(P, T, s) <=> MatchIn(def, held, opNums, tree, P, T, s)
         /\ Match(P, T, s)' <=> MatchIn(def', held', opNums', tree', P, T, s)
  <1>1. Match(P, T, s) <=> MatchIn(def, held, opNums, tree, P, T, s)
    BY DEF Match, MatchIn, NodeOpTypeMatch, TypeMatchIn, NodeAttrMatch, AttrMatchIn, ScopeFeatureMatch, ScopeMatchIn,
           GetAllSubScopes, BelowIn, GetOpTypeNum, NumIn
  <1>2. Match(P, T, s)' <=> MatchIn(def', held', opNums', tree', P, T, s)
    BY DEF Match, MatchIn, NodeOpTypeMatch, TypeMatchIn, NodeAttrMatch, AttrMatchIn, ScopeFeatureMatch, ScopeMatchIn,
           GetAllSubScopes, BelowIn, GetOpTypeNum, NumIn
  <1> QED
    BY <1>1, <1>2

LEMMA SameTreeSameMatch ==
  ASSUME UNCHANGED <<def, treeVars>>, NEW P, NEW T, NEW s
  PROVE  Match(P, T, s)' <=> Match(P, T, s)
  <1>1. def' = def /\ held' = held /\ opNums' = opNums /\ tree' = tree
    BY DEF treeVars
  <1> QED
    BY <1>1, MatchIsIn

(* Whether a scope matches depends on the types of the scopes below it only.  *)
LEMMA MatchLooksBelow ==
  ASSUME NEW P, NEW T, NEW U, NEW s, \A c \in GetAllSubScopes(s) : T[c] = U[c]
  PROVE  Match(P, T, s) <=> Match(P, U, s)
  <1>1. ASSUME NEW x PROVE SubScopesMatch(x, T, GetAllSubScopes(s)) <=> SubScopesMatch(x, U, GetAllSubScopes(s))
    <2> DEFINE below == GetAllSubScopes(s)
               A == {c \in below : T[c] = x.subType}
               B == {c \in below : U[c] = x.subType}
    <2>1. A = B
      OBVIOUS
    <2>2. Cardinality(A) = Cardinality(B)
      BY <2>1
    <2> QED
      BY <2>2 DEF SubScopesMatch
  <1>2. ASSUME NEW x PROVE ScopeFeatureMatch(x, T, s) <=> ScopeFeatureMatch(x, U, s)
    BY <1>1 DEF ScopeFeatureMatch
  <1> QED
    BY <1>2 DEF Match

-----------------------------------------------------------------------------
(* The tree is ordered by the beginnings of its names: what a search needs to *)
(* know of it.                                                                *)

TreeOrder == /\ \A s \in tree : IsPrefix(s, s) /\ IsPrefix(Root, s) /\ (IsPrefix(s, Root) => s = Root)
             /\ \A r, s, t \in tree : IsPrefix(r, s) /\ IsPrefix(s, t) => IsPrefix(r, t)
             /\ \A s, t \in tree : IsPrefix(s, t) /\ IsPrefix(t, s) => s = t
ChildOrder == \A s \in tree : \A c \in SubScopes(s) :
    /\ c \in Inner /\ IsPrefix(s, c) /\ c # s
    /\ \A p \in tree : IsPrefix(p, c) => p = c \/ IsPrefix(p, s)
    /\ \A d \in SubScopes(s) : IsPrefix(c, d) => c = d
ChildOnWay == \A s, t \in tree : IsPrefix(s, t) /\ s # t => \E c \in SubScopes(s) : IsPrefix(c, t)
AllBelow == \A s \in tree : \A c : c \in GetAllSubScopes(s) <=> c \in tree /\ IsPrefix(s, c) /\ c # s
TreeShape == TreeOrder /\ ChildOrder /\ ChildOnWay /\ AllBelow

LEMMA TreeHasShape ==
  ASSUME TreeInv
  PROVE  TreeShape
  <1>1. tree \subseteq Seq(Words) /\ Root \in tree /\ \A s \in tree : \A k \in 0..Len(s) : SubSeq(s, 1, k) \in tree
    BY DEF TreeInv, TreeTypes, TreeIsClosed
  <1>2. TreeOrder
    <2>1. ASSUME NEW s \in tree
          PROVE  IsPrefix(s, s) /\ IsPrefix(Root, s) /\ (IsPrefix(s, Root) => s = Root)
      <3>1. s \in Seq(Words)
        BY <1>1
      <3>2. IsPrefix(s, s)
        BY <3>1, PrefixOfItself
      <3>3. IsPrefix(Root, s) /\ Root \in Seq(Words) /\ Len(Root) = 0
        BY <3>1, RootIsPrefix
      <3>4. ASSUME IsPrefix(s, Root) PROVE s = Root
        <4>1. Len(Root) <= Len(s)
          BY <3>1, <3>3
        <4> QED
          BY <3>1, <3>3, <3>4, <4>1, PrefixOfEqualLength
      <3> QED
        BY <3>2, <3>3, <3>4
    <2>2. ASSUME NEW r \in tree, NEW s \in tree, NEW t \in tree, IsPrefix(r, s), IsPrefix(s, t)
          PROVE  IsPrefix(r, t)
      <3>1. r \in Seq(Words) /\ s \in Seq(Words) /\ t \in Seq(Words)
        BY <1>1
      <3> QED
        BY <2>2, <3>1, PrefixOfPrefix
    <2>3. ASSUME NEW s \in tree, NEW t \in tree, IsPrefix(s, t), IsPrefix(t, s)
          PROVE  s = t
      <3>1. s \in Seq(Words) /\ t \in Seq(Words)
        BY <1>1
      <3>2. Len(t) <= Len(s)
        BY <2>3, <3>1, PrefixByPlaces
      <3> QED
        BY <2>3, <3>1, <3>2, PrefixOfEqualLength
    <2> QED
      BY <2>1, <2>2, <2>3 DEF TreeOrder
  <1>3. ChildOrder
    <2> SUFFICES ASSUME NEW s \in tree, NEW c \in SubScopes(s)
                 PROVE  /\ c \in Inner /\ IsPrefix(s, c) /\ c # s
                        /\ \A p \in tree : IsPrefix(p, c) => p = c \/ IsPrefix(p, s)
                        /\ \A d \in SubScopes(s) : IsPrefix(c, d) => c = d
      BY DEF ChildOrder
    <2>1. c \in tree /\ Len(c) = Len(s) + 1 /\ IsPrefix(s, c) /\ s \in Seq(Words) /\ c \in Seq(Words)
      BY <1>1 DEF SubScopes
    <2>2. Len(s) \in Nat /\ Len(Root) = 0
      BY <2>1, RootIsPrefix
    <2>3. c # s /\ c # Root
      BY <2>1, <2>2
    <2>4. ASSUME NEW p \in tree, IsPrefix(p, c) PROVE p = c \/ IsPrefix(p, s)
      <3>1. p \in Seq(Words)
        BY <1>1
      <3> QED
        BY <2>1, <2>4, <3>1, PrefixOfChild
    <2>5. ASSUME NEW d \in SubScopes(s), IsPrefix(c, d) PROVE c = d
      <3>1. d \in Seq(Words) /\ Len(d) = Len(s) + 1
        BY <1>1 DEF SubScopes
      <3>2. Len(d) <= Len(c)
        BY <2>1, <2>2, <3>1
      <3> QED
        BY <2>1, <2>5, <3>1, <3>2, PrefixOfEqualLength
    <2> QED
      BY <2>1, <2>3, <2>4, <2>5 DEF Inner
  <1>4. ChildOnWay
    <2> SUFFICES ASSUME NEW s \in tree, NEW t \in tree, IsPrefix(s, t), s # t
                 PROVE  \E c \in SubScopes(s) : IsPrefix(c, t)
      BY DEF ChildOnWay
    <2>1. s \in Seq(Words) /\ t \in Seq(Words)
      BY <1>1
    <2>2. Len(s) \in Nat /\ Len(t) \in Nat /\ Len(s) < Len(t)
      <3>1. ~(Len(t) <= Len(s))
        BY <2>1, PrefixOfEqualLength
      <3> QED
        BY <2>1, <3>1
    <2> DEFINE k == Len(s) + 1
               c == SubSeq(t, 1, k)
    <2>3. k \in 0..Len(t) /\ Len(s) <= k
      BY <2>2
    <2>4. c \in tree /\ c \in Seq(Words) /\ Len(c) = k /\ IsPrefix(c, t)
      BY <1>1, <2>1, <2>3, CutIsPrefix
    <2> HIDE DEF c
    <2>5. IsPrefix(s, c)
      BY <2>1, <2>3, <2>4, PrefixesInLine
    <2> QED
      BY <2>4, <2>5 DEF SubScopes
  <1>5. AllBelow
    <2> SUFFICES ASSUME NEW s \in tree, NEW c \in tree
                 PROVE  Len(c) > Len(s) /\ IsPrefix(s, c) <=> IsPrefix(s, c) /\ c # s
      BY DEF AllBelow, GetAllSubScopes
    <2>1. s \in Seq(Words) /\ c \in Seq(Words)
      BY <1>1
    <2>2. Len(s) \in Nat /\ Len(c) \in Nat
      BY <2>1
    <2>3. IsPrefix(s, c) /\ c # s => Len(c) > Len(s)
      BY <2>1, <2>2, PrefixOfEqualLength
    <2> QED
      BY <2>2, <2>3
  <1> QED
    BY <1>2, <1>3, <1>4, <1>5 DEF TreeShape

-----------------------------------------------------------------------------
(* The search.                                                                *)

SearchStart == /\ tops = SubScopes(Root) /\ pending = {} /\ start = types
               /\ at.pattern \in Nat \ {0} /\ (at.pattern = 1 => one = {})

LEMMA SearchBegins == TreeInv /\ SearchStart => SearchInv
  <1> SUFFICES ASSUME TreeInv, SearchStart PROVE SearchInv
    OBVIOUS
  <1>1. TreeShape /\ Root \in tree
    BY TreeHasShape DEF TreeInv, TreeTypes
  <1>2. Frontier
    BY DEF Frontier, SearchStart
  <1>3. Untouched
    BY DEF Untouched, SearchStart
  <1>4. NoneMissed
    <2> SUFFICES ASSUME NEW s \in Inner PROVE Undecided(s)
      BY DEF NoneMissed
    <2>1. s \in tree /\ s # Root /\ IsPrefix(Root, s)
      BY <1>1 DEF Inner, TreeShape, TreeOrder
    <2>2. \E c \in SubScopes(Root) : IsPrefix(c, s)
      BY <1>1, <2>1 DEF TreeShape, ChildOnWay
    <2> QED
      BY <2>2 DEF Undecided, SearchStart
  <1>5. NoHitYet
    BY DEF NoHitYet, SearchStart
  <1>6. OnlyOutermost
    BY DEF OnlyOutermost, SearchStart
  <1> QED
    BY <1>2, <1>3, <1>4, <1>5, <1>6 DEF SearchInv, SearchStart

LEMMA HitsStay ==
  ASSUME UNCHANGED <<def, treeVars, passes, at, start>>, NEW s
  PROVE  /\ Hits(s)' <=> Hits(s)
         /\ HitAbove(s)' <=> HitAbove(s)
  <1>1. tree' = tree /\ Pattern' = Pattern /\ start' = start /\ UNCHANGED <<def, treeVars>>
    BY DEF treeVars, Pattern, Patterns, Batches, Groups
  <1>2. ASSUME NEW q PROVE Hits(q)' <=> Hits(q)
    <2>1. Match(Pattern, start, q)' <=> MatchIn(def', held', opNums', tree', Pattern', start', q)
      BY DEF Match, MatchIn, NodeOpTypeMatch, TypeMatchIn, NodeAttrMatch, AttrMatchIn, ScopeFeatureMatch, ScopeMatchIn,
             GetAllSubScopes, BelowIn, GetOpTypeNum, NumIn
    <2>2. MatchIn(def', held', opNums', tree', Pattern', start', q) <=> MatchIn(def, held, opNums, tree, Pattern, start, q)
      BY <1>1 DEF treeVars
    <2> QED
      BY <2>1, <2>2, MatchIsIn DEF Hits
  <1>3. HitAbove(s)' <=> HitAbove(s)
    BY <1>1, <1>2 DEF HitAbove, Inner
  <1> QED
    BY <1>2, <1>3

(* While nothing below a scope is decided, it matches as it did at the start. *)
LEMMA UndecidedMatch ==
  ASSUME TreeInv, Untouched, NEW s \in tree,
         \A c \in tree : IsPrefix(s, c) /\ c # s => Undecided(c)
  PROVE  Match(Pattern, types, s) <=> Hits(s)
  <1>1. \A c \in GetAllSubScopes(s) : types[c] = start[c]
    BY TreeHasShape DEF TreeShape, AllBelow, Untouched
  <1> QED
    BY <1>1, MatchLooksBelow DEF Hits

LEMMA OneScopeSearched ==
  ASSUME TreeInv, SearchInv, NEW s \in tree, MatchOneScope(s)
  PROVE  SearchInv'
  <1>1. /\ pending = {} /\ s \in tops /\ tops' = tops \ {s}
        /\ UNCHANGED <<def, treeVars, passes, at, start>> /\ tree' = tree /\ start' = start /\ at' = at
    BY DEF MatchOneScope, treeVars
  <1>2. TreeShape
    BY TreeHasShape
  <1>3. /\ s \in SubScopes(Root) /\ s \in Inner /\ tops \subseteq SubScopes(Root) /\ Root \in tree
        /\ Inner \subseteq tree
    BY <1>1, <1>2 DEF SearchInv, Frontier, TreeShape, ChildOrder, TreeInv, TreeTypes, Inner
  <1>4. SubScopes(Root)' = SubScopes(Root) /\ Inner' = Inner
    BY <1>1 DEF SubScopes, Inner
  <1>5. \A q \in tree : (Hits(q)' <=> Hits(q)) /\ (HitAbove(q)' <=> HitAbove(q))
    BY <1>1, HitsStay
  <1>6. \A t \in tops : IsPrefix(t, s) => t = s
    BY <1>2, <1>3 DEF TreeShape, ChildOrder
  <1>7. Match(Pattern, types, s) <=> Hits(s)
    <2>1. \A c \in tree : IsPrefix(s, c) => Undecided(c)
      BY <1>1 DEF Undecided
    <2> QED
      BY <2>1, UndecidedMatch DEF SearchInv
  <1>8. ~HitAbove(s)
    <2> SUFFICES ASSUME NEW q \in Inner, IsPrefix(q, s), q # s PROVE FALSE
      BY DEF HitAbove
    <2>1. q \in tree /\ q # Root
      BY DEF Inner
    <2>2. IsPrefix(q, Root)
      BY <1>2, <1>3, <2>1 DEF TreeShape, ChildOrder
    <2> QED
      BY <1>2, <2>1, <2>2 DEF TreeShape, TreeOrder
  <1>9. \A c \in tree : Undecided(c) <=> \E t \in tops : IsPrefix(t, c)
    BY <1>1 DEF Undecided
  <1>10. CASE Match(Pattern, types, s)
    <2>1. one' = one \cup {s} /\ types' = Typed({s}) /\ pending' = {} /\ Hits(s)
      BY <1>1, <1>7, <1>10 DEF MatchOneScope
    <2>2. \A c \in tree : Undecided(c)' <=> \E t \in tops \ {s} : IsPrefix(t, c)
      BY <1>1, <2>1 DEF Undecided
    <2>3. Frontier'
      BY <1>1, <1>3, <1>4, <2>1 DEF Frontier
    <2>4. Untouched'
      <3> SUFFICES ASSUME NEW c \in tree, NEW t \in tops, t # s, IsPrefix(t, c)
                   PROVE  types'[c] = start[c]
        BY <1>1, <2>2 DEF Untouched
      <3>1. c # s /\ Undecided(c)
        BY <1>6, <1>9
      <3>2. types'[c] = types[c]
        BY <2>1, <3>1 DEF Typed
      <3> QED
        BY <3>1, <3>2 DEF SearchInv, Untouched
    <2>5. NoneMissed'
      <3> SUFFICES ASSUME NEW c \in Inner, Hits(c), ~HitAbove(c)
                   PROVE  c \in one' \/ Undecided(c)'
        BY <1>3, <1>4, <1>5 DEF NoneMissed
      <3>1. c \in one \/ Undecided(c)
        BY DEF SearchInv, NoneMissed
      <3>2. CASE c \in one
        BY <2>1, <3>2
      <3>3. CASE Undecided(c)
        <4>1. PICK t \in tops : IsPrefix(t, c)
          BY <1>3, <1>9, <3>3
        <4>2. t = s /\ c # s => HitAbove(c)
          BY <1>3, <2>1, <4>1 DEF HitAbove
        <4> QED
          BY <1>3, <2>1, <2>2, <4>1, <4>2
      <3> QED
        BY <3>1, <3>2, <3>3
    <2>6. NoHitYet'
      BY <2>1 DEF NoHitYet
    <2>7. OnlyOutermost'
      BY <1>1, <1>3, <1>4, <1>5, <1>8, <2>1 DEF SearchInv, OnlyOutermost
    <2> QED
      BY <1>1, <2>3, <2>4, <2>5, <2>6, <2>7 DEF SearchInv
  <1>11. CASE ~Match(Pattern, types, s)
    <2>1. one' = one /\ types' = types /\ pending' = {s} /\ ~Hits(s)
      BY <1>7, <1>11 DEF MatchOneScope
    <2>2. \A c \in tree : Undecided(c)' <=> (\E t \in tops \ {s} : IsPrefix(t, c)) \/ (IsPrefix(s, c) /\ s # c)
      BY <1>1, <2>1 DEF Undecided
    <2>3. Frontier'
      BY <1>1, <1>3, <1>4, <1>6, <2>1 DEF Frontier
    <2>4. Untouched'
      BY <1>1, <1>9, <2>1, <2>2 DEF SearchInv, Untouched
    <2>5. NoneMissed'
      <3> SUFFICES ASSUME NEW c \in Inner, Hits(c), ~HitAbove(c)
                   PROVE  c \in one \/ Undecided(c)'
        BY <1>3, <1>4, <1>5, <2>1 DEF NoneMissed
      <3>1. c \in one \/ Undecided(c)
        BY DEF SearchInv, NoneMissed
      <3>2. c # s
        BY <2>1
      <3> QED
        BY <1>3, <1>9, <2>2, <3>1, <3>2
    <2>6. NoHitYet'
      BY <1>3, <1>5, <1>8, <2>1 DEF NoHitYet
    <2>7. OnlyOutermost'
      BY <1>1, <1>3, <1>4, <1>5, <2>1 DEF SearchInv, OnlyOutermost
    <2> QED
      BY <1>1, <2>3, <2>4, <2>5, <2>6, <2>7 DEF SearchInv
  <1> QED
    BY <1>10, <1>11

LEMMA SubScopesSearched ==
  ASSUME TreeInv, SearchInv, NEW s \in tree, MatchSubScopes(s)
  PROVE  SearchInv'
  <1> DEFINE C == SubScopes(s)
             F == {c \in C : Hits(c)}
  <1>1. /\ s \in pending /\ tops' = tops
        /\ UNCHANGED <<def, treeVars, passes, at, start>> /\ tree' = tree /\ start' = start /\ at' = at
    BY DEF MatchSubScopes, treeVars
  <1>2. TreeShape
    BY TreeHasShape
  <1>3. /\ s \in Inner /\ pending \subseteq Inner /\ C \subseteq Inner /\ Inner \subseteq tree /\ Root \in tree
        /\ tops \subseteq SubScopes(Root) /\ tops \subseteq tree
    BY <1>1, <1>2 DEF SearchInv, Frontier, TreeShape, ChildOrder, TreeInv, TreeTypes, Inner
  <1>4. SubScopes(Root)' = SubScopes(Root) /\ Inner' = Inner
    BY <1>1 DEF SubScopes, Inner
  <1>5. \A q \in tree : (Hits(q)' <=> Hits(q)) /\ (HitAbove(q)' <=> HitAbove(q))
    BY <1>1, HitsStay
  <1>6. ASSUME NEW c \in C
        PROVE  /\ IsPrefix(s, c) /\ c # s /\ \A d \in C : IsPrefix(c, d) => c = d
               /\ \A p \in tree : IsPrefix(p, c) => p = c \/ IsPrefix(p, s)
    BY <1>2, <1>3 DEF TreeShape, ChildOrder
  <1>7. \A c \in C : Match(Pattern, types, c) <=> Hits(c)
    <2> SUFFICES ASSUME NEW c \in C PROVE Match(Pattern, types, c) <=> Hits(c)
      OBVIOUS
    <2>1. ASSUME NEW b \in tree, IsPrefix(c, b), b # c PROVE Undecided(b)
      <3>1. IsPrefix(s, b) /\ s # b
        BY <1>2, <1>3, <1>6, <2>1 DEF TreeShape, TreeOrder
      <3> QED
        BY <1>1, <3>1 DEF Undecided
    <2>2. c \in tree /\ Untouched
      BY <1>3 DEF SearchInv
    <2> QED
      BY <2>1, <2>2, UndecidedMatch
  <1>8. /\ one' = one \cup F /\ types' = Typed(F) /\ pending' = (pending \ {s}) \cup (C \ F)
    <2>1. {c \in SubScopes(s) : Match(Pattern, types, c)} = F
      BY <1>7
    <2> QED
      BY <2>1 DEF MatchSubScopes, Searched
  <1>9. /\ ~Hits(s) /\ ~HitAbove(s) /\ \A p \in pending : ~Hits(p) /\ ~HitAbove(p)
        /\ \A p, q \in pending : IsPrefix(p, q) => p = q
        /\ \A t \in tops : \A p \in pending : ~IsPrefix(t, p)
    BY <1>1 DEF SearchInv, NoHitYet, Frontier
  <1> HIDE DEF C
  <1>10. \A t \in tops : \A c \in C : ~IsPrefix(t, c)
    <2> SUFFICES ASSUME NEW t \in tops, NEW c \in C, IsPrefix(t, c) PROVE FALSE
      OBVIOUS
    <2>1. t = c
      BY <1>1, <1>3, <1>6, <1>9
    <2>2. IsPrefix(s, t) /\ s # t
      BY <1>6, <2>1
    <2>3. s = t \/ IsPrefix(s, Root)
      BY <1>2, <1>3, <2>2 DEF TreeShape, ChildOrder
    <2> QED
      BY <1>2, <1>3, <2>2, <2>3 DEF TreeShape, TreeOrder, Inner
  <1>11. \A p \in pending \ {s} : \A c \in C : ~IsPrefix(p, c) /\ ~IsPrefix(c, p)
    <2> SUFFICES ASSUME NEW p \in pending, p # s, NEW c \in C PROVE ~IsPrefix(p, c) /\ ~IsPrefix(c, p)
      OBVIOUS
    <2>1. c \in tree /\ p \in tree /\ IsPrefix(s, c)
      BY <1>3, <1>6
    <2>2. ~IsPrefix(p, s) /\ ~IsPrefix(s, p)
      BY <1>1, <1>9
    <2>3. ~IsPrefix(c, p)
      BY <1>2, <1>3, <2>1, <2>2 DEF TreeShape, TreeOrder
    <2>4. IsPrefix(p, c) => p = c
      BY <1>6, <2>1, <2>2
    <2> QED
      BY <2>1, <2>2, <2>3, <2>4
  <1>12. \A c \in C : ~HitAbove(c)
    <2> SUFFICES ASSUME NEW c \in C, NEW q \in Inner, IsPrefix(q, c), q # c, Hits(q) PROVE FALSE
      BY DEF HitAbove
    <2>1. IsPrefix(q, s)
      BY <1>3, <1>6
    <2>2. q = s \/ HitAbove(s)
      BY <2>1 DEF HitAbove
    <2> QED
      BY <1>9, <2>2
  <1>13. Frontier'
    <2>1. tops' \subseteq SubScopes(Root)' /\ pending' \subseteq Inner'
      BY <1>1, <1>3, <1>4, <1>8
    <2>2. ASSUME NEW p \in pending', NEW q \in pending', IsPrefix(p, q) PROVE p = q
      <3>1. (p \in pending \ {s} \/ p \in C) /\ (q \in pending \ {s} \/ q \in C)
        BY <1>8
      <3>2. p \in C /\ q \in C => p = q
        BY <1>6, <2>2
      <3> QED
        BY <1>9, <1>11, <2>2, <3>1, <3>2
    <2>3. \A t \in tops' : \A p \in pending' : ~IsPrefix(t, p)
      BY <1>1, <1>8, <1>9, <1>10
    <2> QED
      BY <2>1, <2>2, <2>3 DEF Frontier
  <1>14. \A b \in tree : Undecided(b)' <=> \/ \E t \in tops : IsPrefix(t, b)
                                           \/ \E p \in (pending \ {s}) \cup (C \ F) : IsPrefix(p, b) /\ p # b
    BY <1>1, <1>8 DEF Undecided
  <1>15. Untouched'
    <2> SUFFICES ASSUME NEW b \in tree, Undecided(b)' PROVE types'[b] = start[b]
      BY <1>1 DEF Untouched
    <2>1. Undecided(b) /\ b \notin F
      <3>1. CASE \E t \in tops : IsPrefix(t, b)
        BY <1>10, <3>1 DEF Undecided
      <3>2. CASE \E p \in pending \ {s} : IsPrefix(p, b) /\ p # b
        BY <1>11, <3>2 DEF Undecided
      <3>3. CASE \E c \in C \ F : IsPrefix(c, b) /\ c # b
        <4>1. PICK c \in C \ F : IsPrefix(c, b) /\ c # b
          BY <3>3
        <4>2. b \notin C
          BY <1>6, <4>1
        <4>3. IsPrefix(s, b) /\ s # b
          <5>1. IsPrefix(s, c) /\ c # s /\ c \in tree
            BY <1>3, <1>6, <4>1
          <5> QED
            BY <1>2, <4>1, <5>1 DEF TreeShape, TreeOrder
        <4> QED
          BY <1>1, <4>2, <4>3 DEF Undecided
      <3> QED
        BY <1>14, <3>1, <3>2, <3>3
    <2>2. types'[b] = types[b]
      BY <1>8, <2>1 DEF Typed
    <2> QED
      BY <2>1, <2>2 DEF SearchInv, Untouched
  <1>16. NoneMissed'
    <2> SUFFICES ASSUME NEW b \in Inner, Hits(b), ~HitAbove(b)
                 PROVE  b \in one' \/ Undecided(b)'
      BY <1>3, <1>4, <1>5 DEF NoneMissed
    <2>1. b \in one \/ Undecided(b)
      BY DEF SearchInv, NoneMissed
    <2>2. CASE b \in one
      BY <1>8, <2>2
    <2>3. CASE \E t \in tops : IsPrefix(t, b)
      BY <1>3, <1>14, <2>3
    <2>4. CASE \E p \in pending \ {s} : IsPrefix(p, b) /\ p # b
      BY <1>3, <1>14, <2>4
    <2>5. CASE IsPrefix(s, b) /\ s # b
      <3>1. PICK c \in C : IsPrefix(c, b)
        BY <1>2, <1>3, <2>5 DEF TreeShape, ChildOnWay, C
      <3>2. CASE c \in F /\ c = b
        BY <1>8, <3>2
      <3>3. CASE c \in F /\ c # b
        BY <1>3, <3>1, <3>3 DEF HitAbove
      <3>4. CASE c \notin F /\ c = b
        BY <3>4
      <3>5. CASE c \notin F /\ c # b
        BY <1>3, <1>14, <3>1, <3>5
      <3> QED
        BY <3>2, <3>3, <3>4, <3>5
    <2> QED
      BY <2>1, <2>2, <2>3, <2>4, <2>5 DEF Undecided
  <1>17. NoHitYet'
    <2> SUFFICES ASSUME NEW p \in pending' PROVE ~Hits(p)' /\ ~HitAbove(p)'
      BY DEF NoHitYet
    <2>1. CASE p \in pending
      BY <1>3, <1>5, <1>9, <2>1
    <2>2. CASE p \in C \ F
      BY <1>3, <1>5, <1>12, <2>2
    <2> QED
      BY <1>8, <2>1, <2>2
  <1>18. OnlyOutermost'
    <2> SUFFICES ASSUME at.pattern = 1, NEW b \in one' PROVE b \in Inner /\ Hits(b) /\ ~HitAbove(b)
      BY <1>1, <1>3, <1>4, <1>5 DEF OnlyOutermost
    <2>1. CASE b \in one
      BY <2>1 DEF SearchInv, OnlyOutermost
    <2>2. CASE b \in F
      BY <1>3, <1>12, <2>2
    <2> QED
      BY <1>8, <2>1, <2>2
  <1> QED
    BY <1>1, <1>13, <1>15, <1>16, <1>17, <1>18 DEF SearchInv

(* The numbers kept in a scope are those of the nodes below it.               *)
LEMMA NumsAreReal ==
  ASSUME TreeInv, NEW s \in tree, NEW type
  PROVE  GetOpTypeNum(s, type) = RealNum(s, type)
  <1>1. CASE type \in OpTypes
    BY <1>1 DEF TreeInv, NumsAreRight, GetOpTypeNum
  <1>2. CASE type \notin OpTypes
    <2>1. \A k \in 1..next-1 : def[k].op \in OpTypes
      <3>1. \A k \in 1..next-1 : k \in 1..Len(def)
        BY NodeFacts DEF TreeInv, TreeTypes
      <3> QED
        BY <3>1, NodeFacts DEF TreeInv, TreeTypes
    <2>2. CountedUnder(s, type) = {}
      BY <1>2, <2>1 DEF CountedUnder
    <2>3. RealNum(s, type) = None
      BY <2>2, CountedIsFinite DEF TreeInv
    <2> QED
      BY <1>2, <2>3 DEF GetOpTypeNum
  <1> QED
    BY <1>1, <1>2

LEMMA MatchingIsMatch ==
  ASSUME TreeInv, NEW T, NEW s \in tree
  PROVE  Matching(T, s) <=> Match(Pattern, T, s)
  <1> SUFFICES ASSUME Match(Pattern, T, s), NEW x \in Pattern.ops \cup {NoRetval}
               PROVE  IF x.step = 0 THEN RealNum(s, x.type) = x.num ELSE RealNum(s, x.type) % x.step = x.num
    BY DEF Matching
  <1>1. NodeOpTypeMatch(x, s)
    BY DEF Match
  <1>2. GetOpTypeNum(s, x.type) = RealNum(s, x.type)
    BY NumsAreReal
  <1> QED
    BY <1>1, <1>2 DEF NodeOpTypeMatch

LEMMA SearchEnds ==
  ASSUME TreeInv, phase = "match" => SearchInv
  PROVE  MatchesAreOutermost
  <1> SUFFICES ASSUME phase = "match", tops = {}, pending = {}
               PROVE  Outermost(start) \subseteq one /\ (at.pattern = 1 => one = Outermost(start))
    BY DEF MatchesAreOutermost
  <1>1. SearchInv
    OBVIOUS
  <1>2. \A s \in Inner : Matching(start, s) <=> Hits(s)
    <2>1. Inner \subseteq tree
      BY DEF Inner
    <2> QED
      BY <2>1, MatchingIsMatch DEF Hits
  <1>3. \A s \in Inner : s \in Outermost(start) <=> Hits(s) /\ ~HitAbove(s)
    <2> SUFFICES ASSUME NEW s \in Inner
                 PROVE  (~\E p \in tree \ {Root, s} : IsPrefix(p, s) /\ Matching(start, p)) <=> ~HitAbove(s)
      BY <1>2 DEF Outermost, Inner
    <2>1. \A p : p \in tree \ {Root, s} <=> p \in Inner /\ p # s
      BY DEF Inner
    <2> QED
      BY <1>2, <2>1 DEF HitAbove
  <1>4. Outermost(start) \subseteq Inner
    BY DEF Outermost, Inner
  <1>5. \A s : ~Undecided(s)
    BY DEF Undecided
  <1>6. Outermost(start) \subseteq one
    BY <1>1, <1>3, <1>4, <1>5 DEF SearchInv, NoneMissed
  <1>7. at.pattern = 1 => one \subseteq Outermost(start)
    BY <1>1, <1>3 DEF SearchInv, OnlyOutermost
  <1> QED
    BY <1>6, <1>7

-----------------------------------------------------------------------------
(* What a pass generates keeps the scopes it was made of.                     *)

Fields == {"name", "type", "scopes", "nodes", "inputs", "outputs", "inner"}
ResultOf(r, scopes) == r = [f \in Fields |-> r[f]] /\ r.scopes = scopes

LEMMA ApplyKeepsScopes ==
  ASSUME NEW r, NEW scopes, ResultOf(r, scopes), NEW call, call[1] \in Calls
  PROVE  ResultOf(Apply(r, call), scopes)
  <1>1. DOMAIN r = Fields /\ r.scopes = scopes
    BY DEF ResultOf
  <1>2. ASSUME NEW f \in Fields \ {"scopes"}, NEW v
        PROVE  ResultOf([r EXCEPT ![f] = v], scopes)
    BY <1>1 DEF ResultOf, Fields
  <1>3. CASE call[1] = "name"
    BY <1>2, <1>3 DEF Apply, Fields
  <1>4. CASE call[1] = "type"
    BY <1>2, <1>4 DEF Apply, Fields
  <1>5. CASE call[1] = "inputs"
    BY <1>2, <1>5 DEF Apply, Fields, InsertInputs
  <1>6. CASE call[1] = "outputs"
    BY <1>2, <1>6 DEF Apply, Fields, InsertOutputs
  <1>7. CASE call[1] = "inner"
    BY <1>2, <1>7 DEF Apply, Fields, AddInnerNode
  <1>8. CASE call[1] = "from"
    BY <1>2, <1>8 DEF Apply, Fields, InsertInput
  <1>9. CASE call[1] = "to"
    BY <1>2, <1>9 DEF Apply, Fields, InsertOutput
  <1>10. CASE call[1] = "build"
    BY <1>2, <1>10 DEF Apply, Fields
  <1>11. CASE call[1] = "check"
    BY <1>2, <1>11 DEF Apply, Fields
  <1> QED
    BY <1>3, <1>4, <1>5, <1>6, <1>7, <1>8, <1>9, <1>10, <1>11 DEF Calls

LEMMA LeastNumber ==
  ASSUME NEW S, S \subseteq Nat, S # {}
  PROVE  \E x \in S : \A y \in S : x <= y
  <1> DEFINE Less == OpToRel(<, Nat)
  <1>1. IsWellFoundedOn(Less, Nat)
    BY NatLessThanWellFounded
  <1>2. \A x, y \in Nat : x < y => <<x, y>> \in Less
    BY DEF OpToRel
  <1> HIDE DEF Less
  <1>3. PICK x \in S : \A y \in S : ~(<<y, x>> \in Less)
    BY <1>1, WFMin
  <1>4. \A y \in S : ~(y < x) /\ x \in Nat /\ y \in Nat
    BY <1>2, <1>3
  <1> QED
    BY <1>4

IsOn(f, n) == f = [k \in 0..n |-> f[k]]

(* after[k] is the result after the first k calls.                            *)
Generates(after, scopes, swallowed, script, n) ==
    /\ IsOn(after, n) /\ after[0] = NewResult(scopes, swallowed)
    /\ \A k \in 1..n : after[k] = Apply(after[k-1], script[k])

LEMMA GenerationExists ==
  ASSUME NEW scopes, NEW swallowed, NEW script, NEW m \in Nat
  PROVE  \E after : Generates(after, scopes, swallowed, script, m)
  <1> DEFINE K == {n \in Nat : ~ \E after : Generates(after, scopes, swallowed, script, n)}
  <1> SUFFICES ASSUME K # {} PROVE FALSE
    OBVIOUS
  <1>1. PICK n \in K : \A l \in K : n <= l
    <2>1. K \subseteq Nat
      OBVIOUS
    <2> HIDE DEF K
    <2> QED
      BY <2>1, LeastNumber
  <1>2. n \in Nat /\ ~ \E after : Generates(after, scopes, swallowed, script, n)
    OBVIOUS
  <1>3. n # 0
    <2> DEFINE a == [k \in 0..0 |-> NewResult(scopes, swallowed)]
    <2>1. IsOn(a, 0) /\ a[0] = NewResult(scopes, swallowed) /\ 1..0 = {}
      BY DEF IsOn
    <2> HIDE DEF a
    <2>2. Generates(a, scopes, swallowed, script, 0)
      BY <2>1 DEF Generates
    <2> QED
      BY <1>2, <2>2
  <1>4. n - 1 \in Nat /\ n - 1 < n
    BY <1>2, <1>3
  <1>5. PICK prior : Generates(prior, scopes, swallowed, script, n - 1)
    BY <1>1, <1>4
  <1> HIDE DEF K
  <1> DEFINE a == [k \in 0..n |-> IF k = n THEN Apply(prior[n-1], script[n]) ELSE prior[k]]
  <1>6. IsOn(a, n) /\ a[n] = Apply(prior[n-1], script[n]) /\ \A k \in 0..n-1 : a[k] = prior[k]
    BY <1>2, <1>4 DEF IsOn
  <1> HIDE DEF a
  <1>7. a[0] = NewResult(scopes, swallowed)
    <2>1. 0 \in 0..n-1
      BY <1>4
    <2> QED
      BY <1>5, <1>6, <2>1 DEF Generates
  <1>8. ASSUME NEW k \in 1..n PROVE a[k] = Apply(a[k-1], script[k])
    <2>1. CASE k = n
      BY <1>4, <1>6, <2>1
    <2>2. CASE k # n
      <3>1. k \in 1..n-1 /\ k \in 0..n-1 /\ k-1 \in 0..n-1
        BY <1>2, <2>2
      <3>2. prior[k] = Apply(prior[k-1], script[k])
        BY <1>5, <3>1 DEF Generates
      <3> QED
        BY <1>6, <3>1, <3>2
    <2> QED
      BY <2>1, <2>2
  <1>9. Generates(a, scopes, swallowed, script, n)
    BY <1>6, <1>7, <1>8 DEF Generates
  <1> QED
    BY <1>2, <1>9

LEMMA GeneratedScopes ==
  ASSUME NEW scopes, NEW swallowed, NEW script \in Scripts
  PROVE  GenerateFusionResult(scopes, swallowed, script).scopes = scopes
  <1> DEFINE n == Len(script)
             step(g) == [k \in 0..n |-> IF k = 0 THEN NewResult(scopes, swallowed) ELSE Apply(g[k-1], script[k])]
             c == CHOOSE g : g = step(g)
  <1>1. script \in Seq(ToSet(script)) /\ \A k \in DOMAIN script : script[k][1] \in Calls
    BY ScopeAssumption
  <1>2. n \in Nat /\ \A k \in 1..n : script[k][1] \in Calls
    BY <1>1
  <1>3. GenerateFusionResult(scopes, swallowed, script) = c[n]
    BY DEF GenerateFusionResult
  <1> HIDE DEF n
  <1>4. c = step(c)
    <2>1. PICK f : Generates(f, scopes, swallowed, script, n)
      BY <1>2, GenerationExists
    <2>2. IsOn(f, n)
      BY <2>1 DEF Generates
    <2>3. \A k \in 0..n : f[k] = IF k = 0 THEN NewResult(scopes, swallowed) ELSE Apply(f[k-1], script[k])
      BY <1>2, <2>1 DEF Generates
    <2>4. f = step(f)
      BY <2>2, <2>3 DEF IsOn
    <2> QED
      BY <2>4
  <1> HIDE DEF c
  <1>5. c[0] = NewResult(scopes, swallowed) /\ \A k \in 1..n : c[k] = Apply(c[k-1], script[k])
    <2>1. 0 \in 0..n /\ \A k \in 1..n : k \in 0..n /\ k # 0
      BY <1>2
    <2>2. \A k \in 0..n : c[k] = IF k = 0 THEN NewResult(scopes, swallowed) ELSE Apply(c[k-1], script[k])
      BY <1>4
    <2> QED
      BY <2>1, <2>2
  <1> DEFINE K == {k \in 0..n : ~ResultOf(c[k], scopes)}
  <1>6. K = {}
    <2> SUFFICES ASSUME K # {} PROVE FALSE
      OBVIOUS
    <2>1. PICK k \in K : \A l \in K : k <= l
      <3>1. K \subseteq Nat
        BY <1>2
      <3> HIDE DEF K
      <3> QED
        BY <3>1, LeastNumber
    <2>2. k \in 0..n /\ ~ResultOf(c[k], scopes)
      OBVIOUS
    <2>3. ResultOf(NewResult(scopes, swallowed), scopes)
      BY DEF ResultOf, NewResult, Fields
    <2>4. k # 0
      BY <1>5, <2>2, <2>3
    <2>5. k \in 1..n /\ k-1 \in 0..n /\ k-1 < k
      BY <1>2, <2>2, <2>4
    <2>6. ResultOf(c[k-1], scopes)
      BY <2>1, <2>5
    <2>7. ResultOf(Apply(c[k-1], script[k]), scopes)
      BY <1>2, <2>5, <2>6, ApplyKeepsScopes
    <2> QED
      BY <1>5, <2>2, <2>5, <2>7
  <1>7. n \in 0..n
    BY <1>2
  <1>8. ResultOf(c[n], scopes)
    BY <1>6, <1>7
  <1> QED
    BY <1>3, <1>8 DEF ResultOf

-----------------------------------------------------------------------------
(* The parser's questions.                                                    *)

LEMMA ChildrenByNames ==
  ASSUME TreeInv, FoundInTree
  PROVE  ChildrenFollowTheTree
  <1> SUFFICES ASSUME NEW name \in nodesMap
               PROVE  /\ IsFusionOpChild(name) =
                           {k \in DOMAIN fusion : name \in fusion[k].nodes
                                                  \/ \E s \in fusion[k].scopes : name \in AllNodesMap(s)}
                      /\ \A k \in IsFusionOpChild(name) :
                           /\ IsFusionOp(k, fusion[k].type)
                           /\ FusionOpChildIgnore(k, name) =>
                                 \A old \in 0..1, input \in BOOLEAN : GetInputOrOutputIndex(k, name, old, input) = Disabled
    BY DEF ChildrenFollowTheTree
  <1>1. TreeShape
    BY TreeHasShape
  <1>2. name \in Seq(Words) /\ name # << >> /\ Len(name) \in Nat
    BY NodeFacts DEF TreeInv, TreeTypes
  <1>3. /\ Front(name) \in tree /\ Front(name) \in Seq(Words)
        /\ Len(Front(name)) = Len(name)-1 /\ IsPrefix(Front(name), name)
    <2>1. Len(name)-1 \in 0..Len(name)
      BY <1>2
    <2> QED
      BY <1>2, <2>1, CutIsPrefix DEF Front, TreeInv, TreeTypes, TreeIsClosed
  <1>4. ASSUME NEW s \in tree
        PROVE  Len(s) < Len(name) /\ IsPrefix(s, name) <=> name \in AllNodesMap(s)
    <2>1. s \in Seq(Words) /\ Len(s) \in Nat
      BY DEF TreeInv, TreeTypes
    <2>2. Len(s) < Len(name) /\ IsPrefix(s, name) <=> IsPrefix(s, Front(name))
      <3>1. ASSUME Len(s) < Len(name), IsPrefix(s, name) PROVE IsPrefix(s, Front(name))
        <4>1. Len(s) <= Len(Front(name))
          BY <1>2, <1>3, <2>1, <3>1
        <4> QED
          BY <1>2, <1>3, <2>1, <3>1, <4>1, PrefixesInLine
      <3>2. ASSUME IsPrefix(s, Front(name)) PROVE Len(s) < Len(name) /\ IsPrefix(s, name)
        <4>1. Len(s) <= Len(Front(name))
          BY <1>3, <2>1, <3>2, PrefixByPlaces
        <4>2. IsPrefix(s, name)
          BY <1>2, <1>3, <2>1, <3>2, PrefixOfPrefix
        <4> QED
          BY <1>2, <1>3, <2>1, <4>1, <4>2
      <3> QED
        BY <3>1, <3>2
    <2>3. \A c \in tree : name \in ToSet(held[c]) <=> c = Front(name)
      BY DEF TreeInv, NodesHang
    <2>4. \A c : c \in {s} \cup GetAllSubScopes(s) <=> c \in tree /\ IsPrefix(s, c)
      BY <1>1 DEF TreeShape, TreeOrder, AllBelow
    <2>5. name \in AllNodesMap(s) <=> \E c \in {s} \cup GetAllSubScopes(s) : name \in ToSet(held[c])
      BY DEF AllNodesMap
    <2> QED
      BY <1>3, <2>2, <2>3, <2>4, <2>5
  <1>5. ASSUME NEW k \in DOMAIN fusion
        PROVE  FindScopes(fusion[k], name) <=> \E s \in fusion[k].scopes : name \in AllNodesMap(s)
    <2>1. fusion[k].scopes \subseteq tree
      BY DEF FoundInTree
    <2> QED
      BY <1>4, <2>1 DEF FindScopes
  <1>6. IsFusionOpChild(name) = {k \in DOMAIN fusion : name \in fusion[k].nodes
                                                  \/ \E s \in fusion[k].scopes : name \in AllNodesMap(s)}
    BY <1>5 DEF IsFusionOpChild, FindNodes
  <1>7. ASSUME NEW k \in IsFusionOpChild(name), FusionOpChildIgnore(k, name), NEW old \in 0..1, NEW input \in BOOLEAN
        PROVE  GetInputOrOutputIndex(k, name, old, input) = Disabled
    <2>1. GetFusionResultInputOrOutput(k, name, input) = << >>
      BY <1>7 DEF FusionOpChildIgnore
    <2>2. old # -1 /\ 0 < old + 1
      OBVIOUS
    <2>3. Len(<< >>) = 0
      OBVIOUS
    <2> QED
      BY <2>1, <2>2, <2>3 DEF GetInputOrOutputIndex
  <1>8. \A k \in IsFusionOpChild(name) : IsFusionOp(k, fusion[k].type)
    BY DEF IsFusionOpChild, IsFusionOp
  <1> QED
    BY <1>6, <1>7, <1>8

-----------------------------------------------------------------------------
(* The steps.                                                                 *)

LEMMA BuildKeeps ==
  ASSUME ScopeInv, NEW mapped \in BOOLEAN, BuildScopeGraph(mapped)
  PROVE  ScopeInv'
  <1>1. /\ phase = "build" /\ phase' \in {"build", "pass"} /\ at.pass = 0 /\ at \in Places
        /\ UNCHANGED <<def, at, one, tmp, results, todo, fusion, before, start>>
    BY DEF BuildScopeGraph, matchVars, ScopeInv
  <1>2. TreeInv' /\ tree \subseteq tree'
    <2>1. CASE mapped
      <3>1. TreeInv'
        BY <2>1, NodeAddedToTree DEF ScopeInv
      <3>2. tree \subseteq tree'
        BY <2>1 DEF BuildScopeGraph, AddNodeToScope
      <3> QED
        BY <3>1, <3>2
    <2>2. CASE ~mapped
      <3>1. UNCHANGED <<def, next, treeVars>> /\ types' = types
        BY <2>2 DEF BuildScopeGraph
      <3>2. DOMAIN types = tree /\ TreeInv
        BY DEF ScopeInv, TreeInv, TreeTypes
      <3> QED
        BY <3>1, <3>2, TreeStays DEF treeVars
    <2> QED
      BY <2>1, <2>2
  <1>3. FoundInTree'
    BY <1>1, <1>2 DEF ScopeInv, FoundInTree
  <1>4. RollInv'
    BY <1>1 DEF RollInv
  <1> QED
    BY <1>1, <1>2, <1>3, <1>4 DEF ScopeInv

LEMMA NothingBuilt ==
  ASSUME ScopeInv, UNCHANGED <<def, next, treeVars>>, DOMAIN types' = tree
  PROVE  TreeInv' /\ tree' = tree
  BY TreeStays DEF ScopeInv, treeVars

LEMMA PlacesGoOn ==
  ASSUME at \in Places
  PROVE  /\ at.pattern \in Nat
         /\ at' = [at EXCEPT !.pattern = @ + 1] => at' \in Places /\ at'.pattern = at.pattern + 1
         /\ at' = [at EXCEPT !.batch = @ + 1, !.pattern = 1] => at' \in Places /\ at'.pattern = 1
         /\ at' = [at EXCEPT !.group = @ + 1, !.batch = 1, !.pattern = 1] => at' \in Places /\ at'.pattern = 1
  <1>1. /\ at = [pass |-> at.pass, group |-> at.group, batch |-> at.batch, pattern |-> at.pattern]
        /\ at.pass \in Nat /\ at.group \in Nat /\ at.batch \in Nat /\ at.pattern \in Nat
    BY DEF Places
  <1>2. ASSUME at' = [at EXCEPT !.pattern = @ + 1] PROVE at' \in Places /\ at'.pattern = at.pattern + 1
    <2>1. at' = [pass |-> at.pass, group |-> at.group, batch |-> at.batch, pattern |-> at.pattern + 1]
      BY <1>1, <1>2
    <2> QED
      BY <1>1, <2>1 DEF Places
  <1>3. ASSUME at' = [at EXCEPT !.batch = @ + 1, !.pattern = 1] PROVE at' \in Places /\ at'.pattern = 1
    <2>1. at' = [pass |-> at.pass, group |-> at.group, batch |-> at.batch + 1, pattern |-> 1]
      BY <1>1, <1>3
    <2> QED
      BY <1>1, <2>1 DEF Places
  <1>4. ASSUME at' = [at EXCEPT !.group = @ + 1, !.batch = 1, !.pattern = 1] PROVE at' \in Places /\ at'.pattern = 1
    <2>1. at' = [pass |-> at.pass, group |-> at.group + 1, batch |-> 1, pattern |-> 1]
      BY <1>1, <1>4
    <2> QED
      BY <1>1, <2>1 DEF Places
  <1> QED
    BY <1>1, <1>2, <1>3, <1>4

LEMMA RunKeeps ==
  ASSUME ScopeInv, Run
  PROVE  ScopeInv'
  <1>1. /\ UNCHANGED <<def, next, treeVars, types, todo, fusion>>
        /\ at' = [pass |-> at.pass + 1, group |-> 1, batch |-> 1, pattern |-> 1]
        /\ tops' = SubScopes(Root) /\ pending' = {} /\ one' = {} /\ tmp' = {}
        /\ results' = {} /\ before' = types /\ start' = types /\ phase' = "match"
    BY DEF Run
  <1>2. TreeInv' /\ tree' = tree /\ types' = types
    BY <1>1, NothingBuilt DEF ScopeInv, TreeInv, TreeTypes
  <1>3. at' \in Places /\ at'.pattern = 1
    BY <1>1 DEF ScopeInv, Places
  <1>4. SearchStart'
    BY <1>1, <1>2, <1>3 DEF SearchStart, SubScopes
  <1>5. SearchInv'
    <2>1. (TreeInv /\ SearchStart)' => SearchInv'
      BY SearchBegins, PTL
    <2> QED
      BY <1>2, <1>4, <2>1
  <1>6. RollInv'
    BY <1>1, <1>2 DEF RollInv, Kept
  <1>7. FoundInTree'
    BY <1>1, <1>2 DEF ScopeInv, FoundInTree
  <1> QED
    BY <1>1, <1>2, <1>3, <1>5, <1>6, <1>7 DEF ScopeInv

LEMMA SearchKeeps ==
  ASSUME ScopeInv, NEW s \in tree, MatchOneScope(s) \/ MatchSubScopes(s)
  PROVE  ScopeInv'
  <1>1. /\ phase = "match" /\ phase' = "match" /\ UNCHANGED <<def, next, treeVars, tmp, results, todo, fusion, at, before>>
        /\ at \in Places /\ TreeInv /\ SearchInv /\ FoundInTree
    BY DEF MatchOneScope, MatchSubScopes, ScopeInv
  <1>2. PICK F \in SUBSET tree : one' = one \cup F /\ (types' = Typed(F) \/ (F = {} /\ types' = types))
    <2>1. CASE MatchOneScope(s)
      <3>1. \/ one' = one \cup {s} /\ types' = Typed({s})
            \/ one' = one \cup {} /\ types' = types
        BY <2>1 DEF MatchOneScope
      <3>2. {s} \in SUBSET tree /\ {} \in SUBSET tree
        OBVIOUS
      <3> QED
        BY <3>1, <3>2
    <2>2. CASE MatchSubScopes(s)
      <3> DEFINE found == {c \in SubScopes(s) : Match(Pattern, types, c)}
      <3>1. found \in SUBSET tree /\ one' = one \cup found /\ types' = Typed(found)
        BY <2>2 DEF MatchSubScopes, SubScopes
      <3> HIDE DEF found
      <3> QED
        BY <3>1
    <2> QED
      BY <2>1, <2>2
  <1>3. DOMAIN types' = tree /\ \A c \in tree : c \in F \/ types'[c] = types[c]
    BY <1>1, <1>2 DEF Typed, TreeInv, TreeTypes
  <1>4. TreeInv' /\ tree' = tree
    BY <1>1, <1>3, NothingBuilt
  <1>5. SearchInv'
    BY <1>1, OneScopeSearched, SubScopesSearched
  <1>6. RollInv'
    <2> SUFFICES ASSUME NEW c \in tree
                 PROVE  Kept(c)' \/ c \in one' \/ c \in tmp \/ Fused(c)'
      BY <1>1, <1>4 DEF RollInv
    <2>1. Kept(c) \/ c \in one \/ c \in tmp \/ Fused(c)
      BY <1>1 DEF ScopeInv, RollInv
    <2>2. Fused(c)' <=> Fused(c)
      BY <1>1 DEF Fused
    <2>3. c \notin F => (Kept(c)' <=> Kept(c))
      BY <1>1, <1>3 DEF Kept
    <2> QED
      BY <1>2, <2>1, <2>2, <2>3
  <1>7. FoundInTree'
    BY <1>1, <1>2, <1>4 DEF FoundInTree
  <1> QED
    BY <1>1, <1>4, <1>5, <1>6, <1>7 DEF ScopeInv

LEMMA BatchKeeps ==
  ASSUME ScopeInv, MatchOneBatch \/ NextBatch
  PROVE  ScopeInv'
  <1>1. /\ phase = "match" /\ phase' = "match" /\ UNCHANGED <<def, next, treeVars, types, results, todo, fusion, before>>
        /\ at \in Places /\ at.pattern # 0 /\ FoundInTree /\ pending = {} /\ pending' = {}
        /\ tops' = SubScopes(Root) /\ start' = types
        /\ \/ at' = [at EXCEPT !.pattern = @ + 1] /\ one' = one /\ tmp' = tmp
           \/ at' = [at EXCEPT !.batch = @ + 1, !.pattern = 1] /\ one' = {} /\ tmp' = tmp \cup one
    BY DEF MatchOneBatch, NextBatch, Begin, ScopeInv, SearchInv
  <1>2. TreeInv' /\ tree' = tree
    BY <1>1, NothingBuilt DEF ScopeInv, TreeInv, TreeTypes
  <1>3. at' \in Places /\ at'.pattern \in Nat \ {0} /\ (at'.pattern = 1 => one' = {})
    BY <1>1, PlacesGoOn
  <1>4. SearchStart'
    BY <1>1, <1>2, <1>3 DEF SearchStart, SubScopes
  <1>5. SearchInv'
    <2>1. (TreeInv /\ SearchStart)' => SearchInv'
      BY SearchBegins, PTL
    <2> QED
      BY <1>2, <1>4, <2>1
  <1>6. RollInv'
    <2>1. \A s \in tree : Kept(s) \/ s \in one \/ s \in tmp \/ Fused(s)
      BY <1>1 DEF ScopeInv, RollInv
    <2> QED
      BY <1>1, <1>2, <2>1 DEF RollInv, Kept, Fused
  <1>7. FoundInTree'
    BY <1>1, <1>2 DEF FoundInTree
  <1> QED
    BY <1>1, <1>2, <1>3, <1>5, <1>6, <1>7 DEF ScopeInv

LEMMA EndGroupKeeps ==
  ASSUME ScopeInv, EndGroup
  PROVE  ScopeInv'
  <1>1. /\ phase = "match" /\ UNCHANGED <<def, next, treeVars, todo, fusion, before>>
        /\ at \in Places /\ FoundInTree /\ pending = {}
        /\ types' = [s \in tree |-> IF s \in Rollback(one) THEN "" ELSE types[s]]
        /\ results' = results \cup one /\ one' = {} /\ tmp' = {}
    BY DEF EndGroup, ScopeInv
  <1>2. \/ /\ phase' = "match" /\ at' = [at EXCEPT !.group = @ + 1, !.batch = 1, !.pattern = 1]
           /\ tops' = SubScopes(Root) /\ start' = types' /\ pending' = {}
        \/ phase' \in {"pass", "last"} /\ at' = at
    BY DEF EndGroup, Begin
  <1>3. DOMAIN types' = tree
    BY <1>1
  <1>4. TreeInv' /\ tree' = tree
    BY <1>1, <1>3, NothingBuilt
  <1>5. at' \in Places
    BY <1>1, <1>2, PlacesGoOn
  <1>6. phase' = "match" => SearchInv'
    <2> SUFFICES ASSUME phase' = "match" PROVE SearchInv'
      OBVIOUS
    <2>1. at'.pattern = 1
      <3>1. at' = [at EXCEPT !.group = @ + 1, !.batch = 1, !.pattern = 1] /\ at \in Places
        BY <1>1, <1>2
      <3> QED
        BY <3>1, PlacesGoOn
    <2>2. SearchStart'
      <3>1. tops' = SubScopes(Root) /\ start' = types' /\ pending' = {} /\ one' = {}
        BY <1>1, <1>2
      <3>2. SubScopes(Root)' = SubScopes(Root)
        BY <1>4 DEF SubScopes
      <3> QED
        BY <2>1, <3>1, <3>2 DEF SearchStart
    <2>3. (TreeInv /\ SearchStart)' => SearchInv'
      BY SearchBegins, PTL
    <2> QED
      BY <1>4, <2>2, <2>3
  <1>7. \A s \in tree : Kept(s)' \/ Fused(s)'
    <2> SUFFICES ASSUME NEW s \in tree PROVE Kept(s)' \/ Fused(s)'
      OBVIOUS
    <2>1. Kept(s) \/ s \in one \/ s \in tmp \/ Fused(s)
      BY <1>1 DEF ScopeInv, RollInv
    <2>2. Fused(s) => Fused(s)'
      BY <1>1 DEF Fused
    <2>3. IsPrefix(s, s)
      BY TreeHasShape DEF ScopeInv, TreeShape, TreeOrder
    <2>4. s \in one => Fused(s)'
      BY <1>1, <2>3 DEF Fused
    <2>5. s \in tmp => s \in Rollback(one) \/ Fused(s)'
      BY <1>1 DEF Fused, Rollback
    <2>6. s \in Rollback(one) \/ types'[s] = types[s]
      BY <1>1
    <2>7. s \in Rollback(one) => types'[s] = ""
      BY <1>1
    <2> QED
      BY <1>1, <2>1, <2>2, <2>4, <2>5, <2>6, <2>7 DEF Kept
  <1>8. RollInv'
    BY <1>4, <1>7 DEF RollInv
  <1>9. FoundInTree'
    BY <1>1, <1>4 DEF FoundInTree
  <1>10. phase' # "build"
    BY <1>2
  <1> QED
    BY <1>4, <1>5, <1>6, <1>8, <1>9, <1>10 DEF ScopeInv

LEMMA LastMatchKeeps ==
  ASSUME ScopeInv, NEW accepted \in BOOLEAN, LastMatch(accepted)
  PROVE  ScopeInv'
  <1>1. /\ phase = "last" /\ UNCHANGED <<def, next, treeVars, at, one, tmp, fusion, before>>
        /\ at \in Places /\ FoundInTree /\ phase' \in {"generate", "pass"}
        /\ \/ todo' = results /\ UNCHANGED <<types, results>>
           \/ types' = ClearTypeAndSubType(types, results) /\ results' = {} /\ todo' = todo
    BY DEF LastMatch, ScopeInv, matchVars
  <1>2. DOMAIN types' = tree
    BY <1>1 DEF ClearTypeAndSubType, ScopeInv, TreeInv, TreeTypes
  <1>3. TreeInv' /\ tree' = tree
    BY <1>1, <1>2, NothingBuilt
  <1>4. \A s \in tree : Kept(s)' \/ Fused(s)'
    <2> SUFFICES ASSUME NEW s \in tree PROVE Kept(s)' \/ Fused(s)'
      OBVIOUS
    <2>1. Kept(s) \/ Fused(s)
      BY <1>1 DEF ScopeInv, RollInv
    <2>2. CASE UNCHANGED <<types, results>>
      BY <1>1, <2>1, <2>2 DEF Kept, Fused
    <2>3. CASE types' = ClearTypeAndSubType(types, results)
      <3>1. types'[s] = IF Fused(s) THEN "" ELSE types[s]
        BY <2>3 DEF ClearTypeAndSubType, Fused
      <3> QED
        BY <1>1, <2>1, <3>1 DEF Kept
    <2> QED
      BY <1>1, <2>2, <2>3
  <1>5. RollInv'
    BY <1>1, <1>3, <1>4 DEF RollInv
  <1>6. FoundInTree'
    BY <1>1, <1>3 DEF FoundInTree
  <1> QED
    BY <1>1, <1>3, <1>5, <1>6 DEF ScopeInv

LEMMA GenerateKeeps ==
  ASSUME ScopeInv, NEW scopes, NEW swallowed, NEW script \in Scripts,
         AddFusionScopesResultToScopeGraph(scopes, swallowed, script)
  PROVE  ScopeInv'
  <1> DEFINE r == GenerateFusionResult(scopes, swallowed, script)
  <1>1. /\ phase = "generate" /\ scopes \subseteq todo
        /\ UNCHANGED <<def, next, treeVars, types, at, one, tmp, results, before>>
        /\ at \in Places /\ FoundInTree /\ phase' \in {"generate", "pass", "failed"}
        /\ \/ fusion' = fusion /\ todo' = todo
           \/ fusion' = Entered(fusion, r.name, r) /\ todo' = todo \ scopes
    BY DEF AddFusionScopesResultToScopeGraph, AddFusionScopesResult, ScopeInv, matchVars
  <1>2. TreeInv' /\ tree' = tree
    BY <1>1, NothingBuilt DEF ScopeInv, TreeInv, TreeTypes
  <1>3. RollInv'
    <2>1. \A s \in tree : Kept(s) \/ Fused(s)
      BY <1>1 DEF ScopeInv, RollInv
    <2> QED
      BY <1>1, <1>2, <2>1 DEF RollInv, Kept, Fused
  <1>4. r.scopes \subseteq tree
    BY <1>1, GeneratedScopes DEF FoundInTree
  <1> HIDE DEF r
  <1>5. \A k \in DOMAIN fusion' : fusion'[k].scopes \subseteq tree
    BY <1>1, <1>4 DEF FoundInTree, Entered
  <1>6. FoundInTree'
    BY <1>1, <1>2, <1>5 DEF FoundInTree
  <1> QED
    BY <1>1, <1>2, <1>3, <1>6 DEF ScopeInv

LEMMA ScopeInvBegins ==
  ASSUME ScopeFusionInit
  PROVE  ScopeInv
  <1>1. TreeInv
    BY TreeBegins
  <1>2. FoundInTree
    <2>1. one = {} /\ tmp = {} /\ results = {} /\ todo = {} /\ fusion = << >>
      BY DEF ScopeFusionInit
    <2>2. DOMAIN fusion = {}
      BY <2>1
    <2> QED
      BY <2>1, <2>2 DEF FoundInTree
  <1>3. RollInv
    BY DEF ScopeFusionInit, RollInv
  <1>4. at \in Places /\ at.pass = 0 /\ phase = "build"
    BY DEF ScopeFusionInit, Places
  <1> QED
    BY <1>1, <1>2, <1>3, <1>4 DEF ScopeInv

LEMMA ScopeInvStays ==
  ASSUME ScopeInv, [ScopeFusionNext]_scopeVars
  PROVE  ScopeInv'
  <1>1. CASE \E mapped \in BOOLEAN : BuildScopeGraph(mapped)
    BY <1>1, BuildKeeps
  <1>2. CASE Run
    BY <1>2, RunKeeps
  <1>3. CASE \E s \in tree : MatchOneScope(s) \/ MatchSubScopes(s)
    BY <1>3, SearchKeeps
  <1>4. CASE MatchOneBatch \/ NextBatch
    BY <1>4, BatchKeeps
  <1>5. CASE EndGroup
    BY <1>5, EndGroupKeeps
  <1>6. CASE \E accepted \in BOOLEAN : LastMatch(accepted)
    BY <1>6, LastMatchKeeps
  <1>7. CASE \E scopes \in {todo} \cup {{s} : s \in todo}, swallowed \in {{}, {def[1].name}}, script \in Scripts :
                 AddFusionScopesResultToScopeGraph(scopes, swallowed, script)
    BY <1>7, GenerateKeeps
  <1>8. CASE UNCHANGED scopeVars
    <2>1. UNCHANGED <<def, next, treeVars>> /\ DOMAIN types' = tree
      BY <1>8 DEF scopeVars, treeVars, ScopeInv, TreeInv, TreeTypes
    <2>2. TreeInv' /\ tree' = tree
      BY <2>1, NothingBuilt
    <2>3. UNCHANGED <<types, at, tops, pending, one, tmp, results, todo, fusion, phase, before, start, passes>>
      BY <1>8 DEF scopeVars
    <2>4. FoundInTree' /\ RollInv' /\ at' \in Places /\ (phase' = "build" => at'.pass = 0)
      BY <2>2, <2>3 DEF ScopeInv, FoundInTree, RollInv, Kept, Fused
    <2>5. phase' = "match" => SearchInv'
      <3> SUFFICES ASSUME phase' = "match" PROVE SearchInv'
        OBVIOUS
      <3>1. SearchInv /\ Inner' = Inner /\ SubScopes(Root)' = SubScopes(Root)
        BY <2>2, <2>3 DEF ScopeInv, Inner, SubScopes
      <3>2. \A q : (Hits(q)' <=> Hits(q)) /\ (HitAbove(q)' <=> HitAbove(q))
        BY <2>1, <2>3, HitsStay
      <3>3. \A s : Undecided(s)' <=> Undecided(s)
        BY <2>3 DEF Undecided
      <3> QED
        BY <2>2, <2>3, <3>1, <3>2, <3>3 DEF SearchInv, Frontier, Untouched, NoneMissed, NoHitYet, OnlyOutermost
    <2> QED
      BY <2>2, <2>4, <2>5 DEF ScopeInv
  <1> QED
    BY <1>1, <1>2, <1>3, <1>4, <1>5, <1>6, <1>7, <1>8 DEF ScopeFusionNext

(* What the passes of the scope fusion find, leave behind and tell: the      *)
(* invariant, from the first node read to the last result generated.         *)
THEOREM ScopeInvAlways == ScopeFusionSpec => []ScopeInv
  <1>1. ScopeFusionInit => ScopeInv
    BY ScopeInvBegins
  <1>2. ScopeInv /\ [ScopeFusionNext]_scopeVars => ScopeInv'
    BY ScopeInvStays
  <1> QED
    BY <1>1, <1>2, PTL DEF ScopeFusionSpec

(* A pattern of a pass types the outermost scopes that match it            *)
(* (MatchOneScope), a pass that gives up takes its types back              *)
(* (MatchAllBatches, ClearTypeAndSubType), and the nodes a result swallows *)
(* are those below its scopes in the tree (IsFusionOpChild).               *)
THEOREM ScopesAreTypedRightAlways == ScopeFusionSpec => []ScopesAreTypedRight
  <1>1. ScopeInv => ScopesAreTypedRight
    <2> SUFFICES ASSUME ScopeInv PROVE ScopesAreTypedRight
      OBVIOUS
    <2>1. MatchesAreOutermost
      BY SearchEnds DEF ScopeInv
    <2>2. RollbackIsComplete
      BY DEF ScopeInv, RollInv, RollbackIsComplete, Kept, Fused
    <2>3. ChildrenFollowTheTree
      BY ChildrenByNames DEF ScopeInv
    <2> QED
      BY <2>1, <2>2, <2>3 DEF ScopesAreTypedRight
  <1> QED
    BY <1>1, ScopeInvAlways, PTL

-----------------------------------------------------------------------------

(* Fusion by patterns.  The graph under the passes: nodes outside the order   *)
(* have no links, and the index knows every node by its type.                 *)

Held == ToSet(order)
NodeFields == {"type", "ins", "label", "origins", "dump", "keep"}
NodesOK == /\ Len(nodes) \in Nat /\ DOMAIN nodes = 1..Len(nodes)
           /\ \A n \in DOMAIN nodes : DOMAIN nodes[n] = NodeFields /\ nodes[n].ins \in Seq(0..Len(nodes))
OrderOK == order \in Seq(1..Len(nodes))
Alone == \A n \in DOMAIN nodes \ Held : Linked(n) = {} /\ Consumers(n) = {}
IndexOK == index # Absent => /\ \A type \in DOMAIN index : index[type] \subseteq DOMAIN nodes
                             /\ \A n \in Held : nodes[n].type \in DOMAIN index /\ n \in index[nodes[n].type]
FusedGraph == NodesOK /\ OrderOK /\ Alone /\ IndexOK

(* What a pattern is made of is described in it.                              *)
GoodPattern(p) == /\ IsFiniteSet(DOMAIN p.descs) /\ DOMAIN p.inputs = DOMAIN p.descs
                  /\ \A d \in DOMAIN p.descs : p.inputs[d] \in Seq(DOMAIN p.descs)
                  /\ p.output \in DOMAIN p.descs \cup {Absent}
PatternsOK == /\ defs \in PatternDefs
              /\ DOMAIN patterns = 1..Len(patterns) /\ \A i \in DOMAIN patterns : GoodPattern(patterns[i])
              /\ stage # "idle" => current \in Nat \ {0}
(* IsPlace of a graph.                                                        *)
LabelsIn(m, ns) == {ns[n].label : n \in NodesOf(m)}
PlaceIn(p, m, ns, ord, kd) ==
    /\ \A pair \in ToSet(m) : Contains(ord, pair[2]) /\ (p.descs[pair[1]] = {} \/ ns[pair[2]].type \in p.descs[pair[1]])
    /\ \A pair \in ToSet(m) \ {m[1]} : \E user \in ToSet(m) :
           Contains(p.inputs[user[1]], pair[1]) /\ Contains(ns[user[2]].ins, pair[2])
    /\ \A pair \in ToSet(m) : \E edge \in [1..Len(p.inputs[pair[1]]) -> 1..Len(ns[pair[2]].ins)] :
           /\ IsInjective(edge)
           /\ \A j \in DOMAIN edge : <<p.inputs[pair[1]][j], ns[pair[2]].ins[edge[j]]>> \in ToSet(m)
    /\ kd = "pattern" => Cardinality(LabelsIn(m, ns) \ {NoWord}) <= 1
WaitingOK == stage = "fuse" =>
    /\ current <= Len(patterns)
    /\ \A m \in waiting : /\ m[2] \in Seq((DOMAIN patterns[current].descs) \X DOMAIN nodes) /\ m[2] # << >>
                          /\ NodesOf(m[2]) \cap touched = {} => PlaceIn(patterns[current], m[2], nodes, order, kind)
PatternInv == FusedGraph /\ PatternsOK /\ WaitingOK

LEMMA CountedUp ==
  ASSUME NEW n \in Nat, NEW A, 0 \in A, \A k \in 1..n : k - 1 \in A => k \in A
  PROVE  \A k \in 0..n : k \in A
  <1> DEFINE Out == {k \in 0..n : k \notin A}
  <1> SUFFICES ASSUME Out # {} PROVE FALSE
    OBVIOUS
  <1>1. Out \subseteq Nat
    OBVIOUS
  <1>2. PICK k \in Out : \A l \in Out : k <= l
    <2> HIDE DEF Out
    <2> QED
      BY <1>1, LeastNumber
  <1>3. k \in 1..n /\ k - 1 \in 0..n /\ k - 1 \notin Out
    BY <1>2
  <1> QED
    BY <1>3

LEMMA SeqOfLength ==
  ASSUME NEW S, NEW n \in Nat, NEW f, f = [k \in 1..n |-> f[k]], \A k \in 1..n : f[k] \in S
  PROVE  f \in Seq(S) /\ Len(f) = n
  OBVIOUS

LEMMA InSequence ==
  ASSUME NEW S, NEW s \in Seq(S), NEW x
  PROVE  Contains(s, x) <=> x \in ToSet(s)
  BY DEF Contains, ToSet

(* rest[k] is what is left of the first k elements.                           *)
Drops(rest, s, R, n) ==
    /\ IsOn(rest, n) /\ rest[0] = << >>
    /\ \A k \in 1..n : rest[k] = IF s[k] \in R THEN rest[k-1] ELSE Append(rest[k-1], s[k])

LEMMA DropExists ==
  ASSUME NEW s, NEW R, NEW m \in Nat
  PROVE  \E rest : Drops(rest, s, R, m)
  <1> DEFINE A == {k \in Nat : \E rest : Drops(rest, s, R, k)}
  <1>1. 0 \in A
    <2> DEFINE a == [k \in 0..0 |-> << >>]
    <2>1. IsOn(a, 0) /\ a[0] = << >> /\ 1..0 = {}
      BY DEF IsOn
    <2> HIDE DEF a
    <2>2. Drops(a, s, R, 0)
      BY <2>1 DEF Drops
    <2> QED
      BY <2>2
  <1>2. ASSUME NEW n \in 1..m, n - 1 \in A PROVE n \in A
    <2>1. PICK prior : Drops(prior, s, R, n - 1)
      BY <1>2
    <2> DEFINE v == IF s[n] \in R THEN prior[n-1] ELSE Append(prior[n-1], s[n])
               a == [k \in 0..n |-> IF k = n THEN v ELSE prior[k]]
    <2> HIDE DEF v
    <2>2. IsOn(a, n) /\ a[n] = v /\ \A k \in 0..n-1 : a[k] = prior[k]
      BY DEF IsOn
    <2> HIDE DEF a
    <2>3. a[0] = << >>
      <3>1. 0 \in 0..n-1
        OBVIOUS
      <3> QED
        BY <2>1, <2>2, <3>1 DEF Drops
    <2>4. ASSUME NEW k \in 1..n PROVE a[k] = IF s[k] \in R THEN a[k-1] ELSE Append(a[k-1], s[k])
      <3>1. CASE k = n
        <4>1. n - 1 \in 0..n-1
          OBVIOUS
        <4> QED
          BY <2>2, <3>1, <4>1 DEF v
      <3>2. CASE k # n
        <4>1. k \in 1..n-1 /\ k \in 0..n-1 /\ k-1 \in 0..n-1
          BY <3>2
        <4>2. prior[k] = IF s[k] \in R THEN prior[k-1] ELSE Append(prior[k-1], s[k])
          BY <2>1, <4>1 DEF Drops
        <4> QED
          BY <2>2, <4>1, <4>2
      <3> QED
        BY <3>1, <3>2
    <2>5. Drops(a, s, R, n)
      BY <2>2, <2>3, <2>4 DEF Drops
    <2> QED
      BY <2>5
  <1>3. \A k \in 0..m : k \in A
    <2> HIDE DEF A
    <2> QED
      BY <1>1, <1>2, CountedUp
  <1> QED
    BY <1>3

LEMMA DroppedIs ==
  ASSUME NEW S, NEW s \in Seq(S), NEW R
  PROVE  Dropped(s, R) \in Seq(S) /\ ToSet(Dropped(s, R)) = ToSet(s) \ R
  <1> DEFINE n == Len(s)
             step(g) == [k \in 0..n |-> IF k = 0 THEN << >> ELSE IF s[k] \in R THEN g[k-1] ELSE Append(g[k-1], s[k])]
             c == CHOOSE g : g = step(g)
  <1>1. n \in Nat /\ \A k \in 1..n : s[k] \in S
    OBVIOUS
  <1>2. Dropped(s, R) = c[n] /\ ToSet(s) = {s[k] : k \in 1..n}
    BY DEF Dropped, ToSet
  <1> HIDE DEF n
  <1>3. c = step(c)
    <2>1. PICK f : Drops(f, s, R, n)
      BY <1>1, DropExists
    <2>2. IsOn(f, n)
      BY <2>1 DEF Drops
    <2>3. \A k \in 0..n : f[k] = IF k = 0 THEN << >> ELSE IF s[k] \in R THEN f[k-1] ELSE Append(f[k-1], s[k])
      BY <1>1, <2>1 DEF Drops
    <2>4. f = step(f)
      BY <2>2, <2>3 DEF IsOn
    <2> HIDE DEF step
    <2> QED
      BY <2>4
  <1> HIDE DEF c
  <1> DEFINE Left(k) == {s[i] : i \in 1..k} \ R
             A == {k \in 0..n : c[k] \in Seq(S) /\ ToSet(c[k]) = Left(k)}
  <1>4. 0 \in A
    <2>1. 0 \in 0..n /\ c[0] = << >>
      BY <1>1, <1>3
    <2>2. Left(0) = {} /\ ToSet(<< >>) = {} /\ << >> \in Seq(S)
      BY DEF ToSet
    <2> QED
      BY <2>1, <2>2
  <1>5. ASSUME NEW k \in 1..n, k - 1 \in A PROVE k \in A
    <2>1. k \in 0..n /\ k # 0
      BY <1>1
    <2>2. c[k] = IF s[k] \in R THEN c[k-1] ELSE Append(c[k-1], s[k])
      BY <1>3, <2>1
    <2>3. c[k-1] \in Seq(S) /\ ToSet(c[k-1]) = Left(k-1) /\ s[k] \in S
      BY <1>1, <1>5
    <2>4. 1..k = 1..k-1 \cup {k}
      BY <1>1
    <2>5. {s[i] : i \in 1..k} = {s[i] : i \in 1..k-1} \cup {s[k]}
      BY <2>4
    <2>6. CASE s[k] \in R
      BY <2>1, <2>2, <2>3, <2>5, <2>6
    <2>7. CASE s[k] \notin R
      <3>1. c[k] = Append(c[k-1], s[k]) /\ c[k] \in Seq(S)
        BY <2>2, <2>3, <2>7
      <3>2. ToSet(c[k]) = ToSet(c[k-1]) \cup {s[k]}
        <4> DEFINE t == c[k-1]
        <4>1. t \in Seq(S) /\ c[k] = Append(t, s[k])
          BY <2>3, <3>1
        <4> HIDE DEF t
        <4>2. DOMAIN t = 1..Len(t) /\ Len(t) \in Nat /\ DOMAIN Append(t, s[k]) = 1..Len(t)+1
          BY <2>3, <4>1
        <4>3. \A i \in 1..Len(t) : Append(t, s[k])[i] = t[i]
          BY <2>3, <4>1
        <4>4. Append(t, s[k])[Len(t)+1] = s[k]
          BY <2>3, <4>1
        <4>5. ToSet(Append(t, s[k])) = ToSet(t) \cup {s[k]}
          BY <4>2, <4>3, <4>4 DEF ToSet
        <4> QED
          BY <4>1, <4>5 DEF t
      <3> QED
        BY <2>1, <2>3, <2>5, <2>7, <3>1, <3>2
    <2> QED
      BY <2>6, <2>7
  <1>6. \A k \in 0..n : k \in A
    <2> HIDE DEF A
    <2> QED
      BY <1>1, <1>4, <1>5, CountedUp
  <1>7. n \in A
    <2> HIDE DEF A
    <2> QED
      BY <1>1, <1>6
  <1> QED
    BY <1>2, <1>7

LEMMA ListedSet ==
  ASSUME NEW S, IsFiniteSet(S)
  PROVE  SetToSeq(S) \in Seq(S)
  <1>1. Cardinality(S) \in Nat /\ ExistsBijection(1..Cardinality(S), S)
    BY FS_CardinalityType
  <1>2. PICK f \in [1..Cardinality(S) -> S] : IsInjective(f)
    BY <1>1 DEF ExistsBijection, Bijection, Injection
  <1>3. SetToSeq(S) \in [1..Cardinality(S) -> S]
    BY <1>2 DEF SetToSeq
  <1> QED
    BY <1>1, <1>3

Distinct(q) == \A i, j \in 1..Len(q) : q[i] = q[j] => i = j
Extends(q, r) == Len(q) <= Len(r) /\ \A k \in 1..Len(q) : r[k] = q[k]

LEMMA ExtendsKeeps ==
  ASSUME NEW P, NEW q \in Seq(P), NEW r \in Seq(P), Extends(q, r)
  PROVE  ToSet(q) \subseteq ToSet(r)
  BY DEF Extends, ToSet

LEMMA PairAdded ==
  ASSUME NEW P, NEW q \in Seq(P), NEW x \in P, Distinct(q)
  PROVE  LET r == IF Contains(q, x) THEN q ELSE Append(q, x)
         IN  /\ r \in Seq(P) /\ Distinct(r) /\ Extends(q, r) /\ x \in ToSet(r)
             /\ \A k \in Len(q)+1..Len(r) : r[k] = x
  <1>1. Len(q) \in Nat /\ DOMAIN q = 1..Len(q)
    OBVIOUS
  <1>2. CASE Contains(q, x)
    BY <1>1, <1>2 DEF Contains, Extends, ToSet
  <1>3. CASE ~Contains(q, x)
    <2> DEFINE r == Append(q, x)
    <2>1. r \in Seq(P) /\ Len(r) = Len(q) + 1 /\ r[Len(q)+1] = x /\ \A k \in 1..Len(q) : r[k] = q[k]
      OBVIOUS
    <2>2. DOMAIN r = 1..Len(q)+1
      OBVIOUS
    <2> HIDE DEF r
    <2>3. Extends(q, r) /\ x \in ToSet(r) /\ \A k \in Len(q)+1..Len(r) : r[k] = x
      BY <1>1, <2>1, <2>2 DEF Extends, ToSet
    <2>4. \A k \in 1..Len(q) : q[k] # x
      BY <1>3 DEF Contains
    <2>5. Distinct(r)
      <3> SUFFICES ASSUME NEW i \in 1..Len(q)+1, NEW j \in 1..Len(q)+1, r[i] = r[j] PROVE i = j
        BY <2>1 DEF Distinct
      <3>1. CASE i \in 1..Len(q) /\ j \in 1..Len(q)
        BY <2>1, <3>1 DEF Distinct
      <3>2. CASE i = Len(q)+1 /\ j \in 1..Len(q)
        BY <2>1, <2>4, <3>2
      <3>3. CASE j = Len(q)+1 /\ i \in 1..Len(q)
        BY <2>1, <2>4, <3>3
      <3> QED
        BY <1>1, <3>1, <3>2, <3>3
    <2> QED
      BY <1>3, <2>1, <2>3, <2>5 DEF r
  <1> QED
    BY <1>2, <1>3

(* What the inputs of one node add to the pairs: each is a link that fits, and *)
(* the descriptions used so far are met by different links.                   *)
Met(used, wanted, ins, i, pairs) ==
    \E edge \in [used -> 1..i] : /\ IsInjective(edge)
                                 /\ \A j \in used : <<wanted[j], ins[edge[j]]>> \in ToSet(pairs)
Added(p, wanted, ins, x) == \E j \in 1..Len(wanted), h \in 1..Len(ins) :
    x = <<wanted[j], ins[h]>> /\ ins[h] # 0 /\ Fits(p, wanted[j], ins[h])
AccOK(p, wanted, ins, P, pairs, i, acc) ==
    /\ acc = [used |-> acc.used, pairs |-> acc.pairs]
    /\ acc.used \subseteq 1..Len(wanted)
    /\ acc.pairs \in Seq(P) /\ Distinct(acc.pairs) /\ Extends(pairs, acc.pairs)
    /\ \A k \in Len(pairs)+1..Len(acc.pairs) : Added(p, wanted, ins, acc.pairs[k])
    /\ Met(acc.used, wanted, ins, i, acc.pairs)

LEMMA MetStays ==
  ASSUME NEW used, NEW wanted, NEW ins, NEW i \in Nat, NEW j \in Nat, i <= j, NEW P, NEW q \in Seq(P), NEW r \in Seq(P),
         Extends(q, r), Met(used, wanted, ins, i, q)
  PROVE  Met(used, wanted, ins, j, r)
  <1>1. PICK edge \in [used -> 1..i] : /\ IsInjective(edge)
                                       /\ \A k \in used : <<wanted[k], ins[edge[k]]>> \in ToSet(q)
    BY DEF Met
  <1>2. ToSet(q) \subseteq ToSet(r)
    BY ExtendsKeeps
  <1>3. edge \in [used -> 1..j]
    <2>1. 1..i \subseteq 1..j
      OBVIOUS
    <2> QED
      BY <2>1
  <1> QED
    BY <1>1, <1>2, <1>3 DEF Met

LEMMA MatchInputKeeps ==
  ASSUME NEW p, NEW D, NEW wanted \in Seq(D), NEW M, NEW ins \in Seq(M), NEW pairs \in Seq(D \X M),
         NEW i \in 1..Len(ins), ins[i] # 0, NEW acc, AccOK(p, wanted, ins, D \X M, pairs, i - 1, acc)
  PROVE  AccOK(p, wanted, ins, D \X M, pairs, i, MatchInput(p, wanted, acc, ins[i]))
  <1> DEFINE P == D \X M
             js == {j \in 1..Len(wanted) \ acc.used : Fits(p, wanted[j], ins[i])}
             j  == CHOOSE k \in js : \A l \in js : k <= l
             pair == <<wanted[j], ins[i]>>
             q == acc.pairs
             r == IF Contains(q, pair) THEN q ELSE Append(q, pair)
  <1>1. /\ q \in Seq(P) /\ Distinct(q) /\ Extends(pairs, q) /\ acc = [used |-> acc.used, pairs |-> q]
        /\ acc.used \subseteq 1..Len(wanted) /\ Met(acc.used, wanted, ins, i - 1, q)
        /\ \A k \in Len(pairs)+1..Len(q) : Added(p, wanted, ins, q[k])
    BY DEF AccOK
  <1>2. i - 1 \in Nat /\ i \in Nat /\ Len(wanted) \in Nat /\ Len(ins) \in Nat /\ Len(pairs) \in Nat /\ Len(q) \in Nat
    BY <1>1
  <1>3. CASE js = {}
    <2>1. MatchInput(p, wanted, acc, ins[i]) = acc
      BY <1>3 DEF MatchInput
    <2>2. Extends(q, q)
      BY <1>2 DEF Extends
    <2>3. Met(acc.used, wanted, ins, i, q)
      <3> HIDE DEF P, q
      <3> QED
        BY <1>1, <1>2, <2>2, MetStays
    <2> QED
      BY <1>1, <2>1, <2>3 DEF AccOK
  <1>4. CASE js # {}
    <2>1. j \in js
      <3>1. js \subseteq Nat
        BY <1>2
      <3>2. \E k \in js : \A l \in js : k <= l
        <4> HIDE DEF js
        <4> QED
          BY <1>4, <3>1, LeastNumber
      <3> QED
        BY <3>2
    <2>2. MatchInput(p, wanted, acc, ins[i]) = [acc EXCEPT !.used = @ \cup {j}, !.pairs = r]
      BY <1>4 DEF MatchInput
    <2>3. MatchInput(p, wanted, acc, ins[i]) = [used |-> acc.used \cup {j}, pairs |-> r]
      <3> HIDE DEF j, r, q
      <3> QED
        BY <1>1, <2>2
    <2>4. j \in 1..Len(wanted) \ acc.used /\ Fits(p, wanted[j], ins[i]) /\ wanted[j] \in D /\ ins[i] \in M
      BY <2>1
    <2> HIDE DEF js, j
    <2>5. pair \in P
      BY <2>4
    <2>6. r \in Seq(P) /\ Distinct(r) /\ Extends(q, r) /\ pair \in ToSet(r) /\ \A k \in Len(q)+1..Len(r) : r[k] = pair
      <3> HIDE DEF pair, P, q
      <3> QED
        BY <1>1, <2>5, PairAdded
    <2> HIDE DEF r
    <2>7. Len(r) \in Nat
      BY <2>6
    <2>8. Extends(pairs, r)
      BY <1>1, <1>2, <2>6, <2>7 DEF Extends
    <2>9. \A k \in Len(pairs)+1..Len(r) : Added(p, wanted, ins, r[k])
      <3> SUFFICES ASSUME NEW k \in Len(pairs)+1..Len(r) PROVE Added(p, wanted, ins, r[k])
        OBVIOUS
      <3>0. k \in Nat /\ Len(pairs) < k /\ k <= Len(r)
        BY <1>2, <2>7
      <3>1. CASE k <= Len(q)
        <4>1. k \in 1..Len(q) /\ k \in Len(pairs)+1..Len(q)
          BY <1>2, <3>0, <3>1
        <4>2. r[k] = q[k]
          BY <2>6, <4>1 DEF Extends
        <4>3. Added(p, wanted, ins, q[k])
          BY <1>1, <4>1
        <4> QED
          BY <4>2, <4>3
      <3>2. CASE k > Len(q)
        <4>0. k \in Len(q)+1..Len(r)
          BY <1>2, <2>7, <3>0, <3>2
        <4>1. r[k] = pair
          BY <2>6, <4>0
        <4> QED
          BY <2>4, <4>1 DEF Added
      <3> QED
        BY <1>2, <3>0, <3>1, <3>2
    <2>10. Met(acc.used \cup {j}, wanted, ins, i, r)
      <3>1. PICK edge \in [acc.used -> 1..i-1] : /\ IsInjective(edge)
                                       /\ \A k \in acc.used : <<wanted[k], ins[edge[k]]>> \in ToSet(q)
        BY <1>1 DEF Met
      <3> DEFINE e == [k \in acc.used \cup {j} |-> IF k = j THEN i ELSE edge[k]]
      <3>2. \A k \in acc.used : k # j /\ edge[k] \in 1..i-1 /\ edge[k] # i
        BY <2>4, <3>1
      <3>3. e \in [acc.used \cup {j} -> 1..i]
        BY <1>2, <3>2
      <3>4. IsInjective(e)
        <4> SUFFICES ASSUME NEW a \in acc.used \cup {j}, NEW b \in acc.used \cup {j}, e[a] = e[b] PROVE a = b
          BY DEF IsInjective
        <4>1. CASE a # j /\ b # j
          BY <3>1, <4>1 DEF IsInjective
        <4> QED
          BY <3>2, <4>1
      <3>5. ToSet(q) \subseteq ToSet(r)
        BY <1>1, <2>6, ExtendsKeeps
      <3>6. \A k \in acc.used \cup {j} : <<wanted[k], ins[e[k]]>> \in ToSet(r)
        <4>1. e[j] = i /\ \A k \in acc.used : e[k] = edge[k]
          BY <3>2
        <4> HIDE DEF e
        <4> QED
          BY <2>6, <3>1, <3>5, <4>1
      <3> HIDE DEF e
      <3> QED
        BY <3>3, <3>4, <3>6 DEF Met
    <2> HIDE DEF q, pair
    <2>11. AccOK(p, wanted, ins, P, pairs, i, [used |-> acc.used \cup {j}, pairs |-> r])
      <3>1. acc.used \cup {j} \subseteq 1..Len(wanted)
        BY <1>1, <2>4
      <3> QED
        BY <2>6, <2>8, <2>9, <2>10, <3>1 DEF AccOK
    <2> QED
      BY <2>3, <2>11
  <1> QED
    BY <1>3, <1>4

(* f[k] is what the first k links of a node are matched with.                 *)
Tries(f, p, wanted, ins, pairs, n) ==
    /\ IsOn(f, n) /\ f[0] = [used |-> {}, pairs |-> pairs]
    /\ \A k \in 1..n : f[k] = IF ins[k] = 0 THEN f[k-1] ELSE MatchInput(p, wanted, f[k-1], ins[k])

LEMMA TryExists ==
  ASSUME NEW p, NEW wanted, NEW ins, NEW pairs, NEW m \in Nat
  PROVE  \E f : Tries(f, p, wanted, ins, pairs, m)
  <1> DEFINE A == {k \in Nat : \E f : Tries(f, p, wanted, ins, pairs, k)}
  <1>1. 0 \in A
    <2> DEFINE a == [k \in 0..0 |-> [used |-> {}, pairs |-> pairs]]
    <2>1. IsOn(a, 0) /\ a[0] = [used |-> {}, pairs |-> pairs] /\ 1..0 = {}
      BY DEF IsOn
    <2> HIDE DEF a
    <2>2. Tries(a, p, wanted, ins, pairs, 0)
      BY <2>1 DEF Tries
    <2> QED
      BY <2>2
  <1>2. ASSUME NEW n \in 1..m, n - 1 \in A PROVE n \in A
    <2>1. PICK prior : Tries(prior, p, wanted, ins, pairs, n - 1)
      BY <1>2
    <2> DEFINE v == IF ins[n] = 0 THEN prior[n-1] ELSE MatchInput(p, wanted, prior[n-1], ins[n])
               a == [k \in 0..n |-> IF k = n THEN v ELSE prior[k]]
    <2> HIDE DEF v
    <2>2. IsOn(a, n) /\ a[n] = v /\ \A k \in 0..n-1 : a[k] = prior[k]
      BY DEF IsOn
    <2> HIDE DEF a
    <2>3. a[0] = [used |-> {}, pairs |-> pairs]
      <3>1. 0 \in 0..n-1
        OBVIOUS
      <3> QED
        BY <2>1, <2>2, <3>1 DEF Tries
    <2>4. ASSUME NEW k \in 1..n PROVE a[k] = IF ins[k] = 0 THEN a[k-1] ELSE MatchInput(p, wanted, a[k-1], ins[k])
      <3>1. CASE k = n
        <4>1. n - 1 \in 0..n-1
          OBVIOUS
        <4> QED
          BY <2>2, <3>1, <4>1 DEF v
      <3>2. CASE k # n
        <4>1. k \in 1..n-1 /\ k \in 0..n-1 /\ k-1 \in 0..n-1
          BY <3>2
        <4>2. prior[k] = IF ins[k] = 0 THEN prior[k-1] ELSE MatchInput(p, wanted, prior[k-1], ins[k])
          BY <2>1, <4>1 DEF Tries
        <4> QED
          BY <2>2, <4>1, <4>2
      <3> QED
        BY <3>1, <3>2
    <2>5. Tries(a, p, wanted, ins, pairs, n)
      BY <2>2, <2>3, <2>4 DEF Tries
    <2> QED
      BY <2>5
  <1>3. \A k \in 0..m : k \in A
    <2> HIDE DEF A
    <2> QED
      BY <1>1, <1>2, CountedUp
  <1> QED
    BY <1>3


LEMMA MatchInputsFind ==
  ASSUME NEW p, NEW D, NEW wanted \in Seq(D), NEW M, NEW n, nodes[n].ins \in Seq(M), NEW pairs \in Seq(D \X M), Distinct(pairs)
  PROVE  AccOK(p, wanted, nodes[n].ins, D \X M, pairs, Len(nodes[n].ins), MatchInputs(p, wanted, n, pairs))
  <1> DEFINE ins == nodes[n].ins
             m == Len(ins)
             first == [used |-> {}, pairs |-> pairs]
             step(g) == [i \in 0..m |-> IF i = 0 THEN first
                                        ELSE IF ins[i] = 0 THEN g[i-1] ELSE MatchInput(p, wanted, g[i-1], ins[i])]
             c == CHOOSE g : g = step(g)
  <1>1. m \in Nat /\ ins \in Seq(M)
    OBVIOUS
  <1>2. MatchInputs(p, wanted, n, pairs) = c[m]
    BY DEF MatchInputs
  <1> HIDE DEF m
  <1>3. c = step(c)
    <2>1. PICK f : Tries(f, p, wanted, ins, pairs, m)
      BY <1>1, TryExists
    <2>2. IsOn(f, m)
      BY <2>1 DEF Tries
    <2>3. \A i \in 0..m : f[i] = IF i = 0 THEN first ELSE IF ins[i] = 0 THEN f[i-1] ELSE MatchInput(p, wanted, f[i-1], ins[i])
      BY <1>1, <2>1 DEF Tries
    <2>4. f = step(f)
      BY <2>2, <2>3 DEF IsOn
    <2> HIDE DEF step
    <2> QED
      BY <2>4
  <1>4. \A i \in 0..m : c[i] = IF i = 0 THEN first ELSE IF ins[i] = 0 THEN c[i-1] ELSE MatchInput(p, wanted, c[i-1], ins[i])
    <2> HIDE DEF c
    <2> QED
      BY <1>3
  <1> HIDE DEF c, step
  <1> DEFINE Good(i, acc) == AccOK(p, wanted, ins, D \X M, pairs, i, acc)
             A == {i \in 0..m : Good(i, c[i])}
  <1>5. 0 \in A
    <2>0. 0 \in 0..m
      BY <1>1
    <2>1. 0 \in 0..m /\ c[0] = first
      <3> HIDE DEF first
      <3> QED
        BY <1>4, <2>0
    <2>2. Extends(pairs, pairs) /\ \A k \in Len(pairs)+1..Len(pairs) : FALSE
      BY DEF Extends
    <2>3. Met({}, wanted, ins, 0, pairs)
      <3> DEFINE e == [k \in {} |-> 0]
      <3>1. e \in [{} -> 1..0] /\ IsInjective(e)
        BY DEF IsInjective
      <3> QED
        BY <3>1 DEF Met
    <2>4. Good(0, first)
      BY <2>2, <2>3 DEF AccOK
    <2> QED
      BY <2>1, <2>4
  <1>6. ASSUME NEW i \in 1..m, i - 1 \in A PROVE i \in A
    <2>1. i \in 0..m /\ i # 0 /\ i - 1 \in Nat /\ i \in Nat /\ Good(i - 1, c[i-1])
      BY <1>1, <1>6
    <2>2. c[i] = IF ins[i] = 0 THEN c[i-1] ELSE MatchInput(p, wanted, c[i-1], ins[i])
      BY <1>4, <2>1
    <2>3. CASE ins[i] = 0
      <3> DEFINE acc == c[i-1]
      <3>1. acc.pairs \in Seq(D \X M) /\ Met(acc.used, wanted, ins, i - 1, acc.pairs) /\ Len(acc.pairs) \in Nat
        BY <2>1 DEF AccOK
      <3>2. Extends(acc.pairs, acc.pairs)
        BY <3>1 DEF Extends
      <3>3. Met(acc.used, wanted, ins, i, acc.pairs)
        <4> HIDE DEF acc, ins
        <4> QED
          BY <2>1, <3>1, <3>2, MetStays
      <3>4. Good(i, acc)
        BY <2>1, <3>3 DEF AccOK
      <3> QED
        BY <2>1, <2>2, <2>3, <3>4
    <2>4. CASE ins[i] # 0
      <3>1. Good(i, MatchInput(p, wanted, c[i-1], ins[i]))
        <4> HIDE DEF ins
        <4> QED
          BY <1>1, <2>1, <2>4, MatchInputKeeps DEF m
      <3> QED
        BY <2>1, <2>2, <2>4, <3>1
    <2> QED
      BY <2>3, <2>4
  <1>7. \A i \in 0..m : i \in A
    <2> HIDE DEF A
    <2> QED
      BY <1>1, <1>5, <1>6, CountedUp
  <1>8. Good(m, c[m])
    <2>1. m \in A
      <3> HIDE DEF A
      <3> QED
        BY <1>1, <1>7
    <2> QED
      BY <2>1
  <1> QED
    BY <1>2, <1>8 DEF m

(* The search from an output: what it has matched so far, and the pairs before *)
(* `at` whose inputs are met.                                                  *)
WellMet(p, pair, pairs) ==
    Met(1..Len(p.inputs[pair[1]]), p.inputs[pair[1]], nodes[pair[2]].ins, Len(nodes[pair[2]].ins), pairs)
UsedBy(p, pair, pairs) == \E user \in ToSet(pairs) :
    Contains(p.inputs[user[1]], pair[1]) /\ Contains(nodes[user[2]].ins, pair[2])
Numbers == 0..Len(nodes)
SearchOK(p, n, s) ==
    /\ "ok" \in DOMAIN s
    /\ s.pairs \in Seq((DOMAIN p.descs) \X Numbers) /\ Distinct(s.pairs)
    /\ Len(s.pairs) >= 1 /\ s.pairs[1] = <<p.output, n>>
    /\ \A k \in 1..Len(s.pairs) : s.pairs[k][2] # 0 /\ Fits(p, s.pairs[k][1], s.pairs[k][2])
    /\ \A k \in 2..Len(s.pairs) : UsedBy(p, s.pairs[k], s.pairs)
    /\ s.at \in 1..Len(s.pairs)+1
    /\ \A k \in 1..s.at-1 : WellMet(p, s.pairs[k], s.pairs)

LEMMA LinkSeen ==
  ASSUME NEW x, NEW wanted, NEW ins, NEW j \in 1..Len(wanted), NEW h \in 1..Len(ins), x = <<wanted[j], ins[h]>>
  PROVE  Contains(wanted, x[1]) /\ Contains(ins, x[2])
  BY DEF Contains

LEMMA CandidateKeeps ==
  ASSUME NodesOK, NEW p, GoodPattern(p), NEW n, NEW s, SearchOK(p, n, s), s.at <= Len(s.pairs), MatchCandidate(p, s).ok
  PROVE  SearchOK(p, n, MatchCandidate(p, s)) /\ MatchCandidate(p, s).at = s.at + 1
  <1> DEFINE q == s.pairs
             a == s.at
             d == q[a][1]
             k0 == q[a][2]
             wanted == p.inputs[d]
             ins == nodes[k0].ins
             r == MatchInputs(p, wanted, k0, q)
             D == DOMAIN p.descs
  <1>1. /\ q \in Seq(D \X Numbers) /\ Distinct(q) /\ Len(q) >= 1 /\ q[1] = <<p.output, n>> /\ a \in 1..Len(q)
        /\ "ok" \in DOMAIN s /\ Len(q) \in Nat
    BY DEF SearchOK
  <1>2. /\ \A k \in 1..Len(q) : q[k][2] # 0 /\ Fits(p, q[k][1], q[k][2])
        /\ \A k \in 2..Len(q) : UsedBy(p, q[k], q)
        /\ \A k \in 1..a-1 : WellMet(p, q[k], q)
    BY DEF SearchOK
  <1>3. d \in D /\ k0 \in Numbers \ {0} /\ q[a] \in ToSet(q) /\ q[a] = <<d, k0>>
    BY <1>1, <1>2 DEF ToSet
  <1>4. wanted \in Seq(D) /\ k0 \in DOMAIN nodes /\ ins \in Seq(Numbers)
    BY <1>3 DEF GoodPattern, NodesOK, Numbers
  <1>5. a \in Nat /\ Len(wanted) \in Nat /\ Len(ins) \in Nat
    <2>1. a \in Nat
      BY <1>1
    <2> HIDE DEF wanted, ins, D
    <2> QED
      BY <1>4, <2>1
  <1>8. MatchCandidate(p, s) = IF wanted = << >> \/ (Linked(k0) # {} /\ MatchAllEdges(r.used, wanted))
                               THEN [pairs |-> r.pairs, at |-> a + 1, ok |-> TRUE] ELSE [s EXCEPT !.ok = FALSE]
    BY DEF MatchCandidate
  <1>11. [s EXCEPT !.ok = FALSE].ok = FALSE
    BY <1>1
  <1>9. q = s.pairs /\ a = s.at
    OBVIOUS
  <1> HIDE DEF q, a, d, k0
  <1>6. wanted = << >> \/ MatchAllEdges(r.used, wanted)
    <2> HIDE DEF r, wanted
    <2> QED
      BY <1>8, <1>11
  <1>7. AccOK(p, wanted, ins, D \X Numbers, q, Len(ins), r)
    <2> HIDE DEF wanted, D
    <2> QED
      BY <1>1, <1>4, MatchInputsFind
  <1>12. r.used = 1..Len(wanted) /\ MatchCandidate(p, s) = [pairs |-> r.pairs, at |-> a + 1, ok |-> TRUE]
    <2> HIDE DEF r, wanted, ins
    <2>1. r.used \subseteq 1..Len(wanted)
      BY <1>7 DEF AccOK
    <2>2. wanted = << >> => Len(wanted) = 0
      OBVIOUS
    <2>3. r.used = 1..Len(wanted)
      <3>1. CASE wanted = << >>
        <4>1. 1..Len(wanted) = {}
          BY <2>2, <3>1
        <4> QED
          BY <2>1, <4>1
      <3> QED
        BY <1>6, <3>1 DEF MatchAllEdges
    <2> QED
      BY <1>6, <1>8, <1>11, <2>3
  <1> QED
    <2> DEFINE t == r.pairs
    <2>2. MatchCandidate(p, s) = [pairs |-> t, at |-> a + 1, ok |-> TRUE]
      BY <1>12
    <2>4. /\ t \in Seq(D \X Numbers) /\ Distinct(t) /\ Extends(q, t)
          /\ \A k \in Len(q)+1..Len(t) : Added(p, wanted, ins, t[k])
          /\ Met(1..Len(wanted), wanted, ins, Len(ins), t)
      <3> HIDE DEF r, wanted, ins
      <3> QED
        BY <1>7, <1>12 DEF AccOK
    <2> HIDE DEF r, t
    <2>5. Len(t) \in Nat /\ Len(q) <= Len(t) /\ \A k \in 1..Len(q) : t[k] = q[k]
      BY <2>4 DEF Extends
    <2>6. ToSet(q) \subseteq ToSet(t)
      BY <1>1, <2>4, ExtendsKeeps
    <2>7. ASSUME NEW k \in Len(q)+1..Len(t)
          PROVE  t[k][2] # 0 /\ Fits(p, t[k][1], t[k][2]) /\ UsedBy(p, t[k], t)
      <3>1. PICK j \in 1..Len(wanted), h \in 1..Len(ins) : t[k] = <<wanted[j], ins[h]>> /\ ins[h] # 0 /\ Fits(p, wanted[j], ins[h])
        BY <2>4 DEF Added
      <3>2. Contains(wanted, t[k][1]) /\ Contains(ins, t[k][2])
        <4> HIDE DEF wanted, ins
        <4> QED
          BY <3>1, LinkSeen
      <3>3. q[a] \in ToSet(t) /\ q[a][1] = d /\ q[a][2] = k0
        BY <1>3, <2>6
      <3> QED
        <4>1. t[k][2] # 0 /\ Fits(p, t[k][1], t[k][2])
          BY <3>1
        <4> QED
          BY <3>2, <3>3, <4>1 DEF UsedBy
    <2>8. \A k \in 1..Len(t) : k \in 1..Len(q) \/ k \in Len(q)+1..Len(t)
      BY <1>1, <2>5
    <2>9. \A k \in 1..Len(t) : t[k][2] # 0 /\ Fits(p, t[k][1], t[k][2])
      <3> QED
        BY <1>2, <2>5, <2>7, <2>8
    <2>10. \A k \in 2..Len(t) : UsedBy(p, t[k], t)
      <3> SUFFICES ASSUME NEW k \in 2..Len(t), k \in 2..Len(q) PROVE UsedBy(p, t[k], t)
        <4>1. \A k \in 2..Len(t) : k \in 2..Len(q) \/ k \in Len(q)+1..Len(t)
          BY <1>1, <2>5
        <4> QED
          BY <2>7, <4>1
      <3>1. k \in 1..Len(q) /\ t[k] = q[k] /\ UsedBy(p, q[k], q)
        <4>1. k \in 1..Len(q)
          BY <1>1
        <4> QED
          BY <1>2, <2>5, <4>1
      <3> QED
        BY <2>6, <3>1 DEF UsedBy
    <2>11. ASSUME NEW k \in 1..a PROVE WellMet(p, t[k], t)
      <3>1. k \in 1..Len(q) /\ t[k] = q[k]
        <4>1. k \in 1..Len(q)
          BY <1>1
        <4> QED
          BY <2>5, <4>1
      <3>2. CASE k = a
        <4>1. t[k][1] = d /\ t[k][2] = k0
          BY <1>3, <3>1, <3>2
        <4> QED
          BY <2>4, <4>1 DEF WellMet
      <3>3. CASE k # a
        <4>1. WellMet(p, q[k], q)
          <5>1. k \in 1..a-1
            BY <1>5, <3>3
          <5> QED
            BY <1>2, <5>1
        <4> DEFINE mine == p.inputs[q[k][1]]
                   links == nodes[q[k][2]].ins
        <4>2. Len(links) \in Nat
          <5>1. q[k][2] \in Numbers \ {0}
            BY <1>1, <1>2, <3>1
          <5> QED
            BY <5>1 DEF NodesOK, Numbers
        <4>3. Met(1..Len(mine), mine, links, Len(links), q)
          BY <4>1 DEF WellMet
        <4>4. Len(links) <= Len(links)
          BY <4>2
        <4>5. Met(1..Len(mine), mine, links, Len(links), t)
          <5> HIDE DEF mine, links
          <5> QED
            BY <1>1, <2>4, <4>2, <4>3, <4>4, MetStays
        <4> QED
          BY <3>1, <4>5 DEF WellMet
      <3> QED
        BY <3>2, <3>3
    <2>12. t[1] = <<p.output, n>> /\ Len(t) >= 1 /\ a + 1 \in 1..Len(t)+1 /\ a + 1 - 1 = a
      <3>1. 1 \in 1..Len(q)
        BY <1>1
      <3>2. t[1] = <<p.output, n>>
        BY <1>1, <2>5, <3>1
      <3>3. Len(t) >= 1 /\ a + 1 \in 1..Len(t)+1 /\ a + 1 - 1 = a
        BY <1>1, <1>5, <2>5
      <3> QED
        BY <3>2, <3>3
    <2> DEFINE after == [pairs |-> t, at |-> a + 1, ok |-> TRUE]
    <2>13. "ok" \in DOMAIN after /\ after.pairs = t /\ after.at = a + 1
      OBVIOUS
    <2> HIDE DEF after
    <2>14. SearchOK(p, n, after)
      <3>1. after.pairs \in Seq((DOMAIN p.descs) \X Numbers) /\ Distinct(after.pairs)
        BY <2>4, <2>13
      <3>2. \A k \in 1..Len(after.pairs) : after.pairs[k][2] # 0 /\ Fits(p, after.pairs[k][1], after.pairs[k][2])
        BY <2>9, <2>13
      <3>3. \A k \in 2..Len(after.pairs) : UsedBy(p, after.pairs[k], after.pairs)
        BY <2>10, <2>13
      <3>4. \A k \in 1..after.at-1 : WellMet(p, after.pairs[k], after.pairs)
        <4>1. after.at - 1 = a
          BY <1>5, <2>13
        <4>2. \A k \in 1..a : WellMet(p, t[k], t)
          BY <2>11
        <4> QED
          BY <2>13, <4>1, <4>2
      <3>5. Len(after.pairs) >= 1 /\ after.pairs[1] = <<p.output, n>> /\ after.at \in 1..Len(after.pairs)+1
        BY <2>12, <2>13
      <3> QED
        BY <2>13, <3>1, <3>2, <3>3, <3>4, <3>5 DEF SearchOK
    <2> QED
      BY <1>9, <2>2, <2>13, <2>14 DEF after

LEMMA PairsAreFew ==
  ASSUME NEW D, IsFiniteSet(D), NEW n \in Nat, NEW q \in Seq(D \X (0..n)), Distinct(q), \A k \in 1..Len(q) : q[k][2] # 0
  PROVE  Len(q) <= Cardinality(D) * n
  <1> DEFINE N == 1..n
  <1>1. IsFiniteSet(N) /\ Cardinality(N) = n
    BY FS_Interval
  <1>2. IsFiniteSet(D \X N) /\ Cardinality(D \X N) = Cardinality(D) * n
    <2> HIDE DEF N
    <2>1. IsFiniteSet(D \X N) /\ Cardinality(D \X N) = Cardinality(D) * Cardinality(N)
      BY <1>1, FS_Product
    <2> QED
      BY <1>1, <2>1
  <1>3. Len(q) \in Nat /\ \A k \in 1..Len(q) : q[k] \in D \X N
    <2>1. Len(q) \in Nat
      OBVIOUS
    <2>2. ASSUME NEW k \in 1..Len(q) PROVE q[k] \in D \X N
      <3>0. q[k][2] # 0
        OBVIOUS
      <3> DEFINE F == 0..n
                 P == D \X F
                 x == q[k]
      <3>0a. N \subseteq F
        OBVIOUS
      <3>1. q \in Seq(P) /\ k \in 1..Len(q) /\ N \subseteq F
        <4>1. q \in Seq(P)
          OBVIOUS
        <4>2. k \in 1..Len(q)
          OBVIOUS
        <4> QED
          BY <3>0a, <4>1, <4>2
      <3>2. \A y \in F : y # 0 => y \in N
        OBVIOUS
      <3> HIDE DEF P
      <3>3. q[k] \in P
        BY <3>1
      <3> HIDE DEF F, N, x
      <3>4. x \in D \X F /\ x[2] # 0
        BY <3>0, <3>3 DEF P, x
      <3>5. x[2] \in F
        BY <3>4
      <3>6. x[2] \in N
        BY <3>2, <3>4, <3>5
      <3> QED
        BY <3>1, <3>4, <3>6 DEF x
    <2> QED
      BY <2>1, <2>2
  <1>4. q \in Injection(1..Len(q), D \X N)
    <2>1. q \in [1..Len(q) -> D \X N]
      BY <1>3
    <2> QED
      BY <2>1 DEF Injection, IsInjective, Distinct
  <1>5. Cardinality(1..Len(q)) = Len(q)
    <2> DEFINE l == Len(q)
    <2>1. l \in Nat
      OBVIOUS
    <2> HIDE DEF l
    <2>2. Cardinality(1..l) = l
      BY <2>1, FS_Interval
    <2> QED
      BY <2>2 DEF l
  <1>6. Cardinality(1..Len(q)) <= Cardinality(D \X N)
    <2> HIDE DEF N
    <2> QED
      BY <1>2, <1>4, FS_Injection
  <1> QED
    BY <1>2, <1>5, <1>6

(* f[k] is the search after k candidates.                                     *)
Searches(f, p, first, n) ==
    /\ IsOn(f, n) /\ f[0] = first
    /\ \A k \in 1..n : f[k] = IF ~f[k-1].ok \/ f[k-1].at > Len(f[k-1].pairs) THEN f[k-1] ELSE MatchCandidate(p, f[k-1])

LEMMA SearchExists ==
  ASSUME NEW p, NEW first, NEW m \in Nat
  PROVE  \E f : Searches(f, p, first, m)
  <1> DEFINE A == {k \in Nat : \E f : Searches(f, p, first, k)}
  <1>1. 0 \in A
    <2> DEFINE a == [k \in 0..0 |-> first]
    <2>1. IsOn(a, 0) /\ a[0] = first /\ 1..0 = {}
      BY DEF IsOn
    <2> HIDE DEF a
    <2>2. Searches(a, p, first, 0)
      BY <2>1 DEF Searches
    <2> QED
      BY <2>2
  <1>2. ASSUME NEW n \in 1..m, n - 1 \in A PROVE n \in A
    <2>1. PICK prior : Searches(prior, p, first, n - 1)
      BY <1>2
    <2> DEFINE v == IF ~prior[n-1].ok \/ prior[n-1].at > Len(prior[n-1].pairs) THEN prior[n-1] ELSE MatchCandidate(p, prior[n-1])
               a == [k \in 0..n |-> IF k = n THEN v ELSE prior[k]]
    <2> HIDE DEF v
    <2>2. IsOn(a, n) /\ a[n] = v /\ \A k \in 0..n-1 : a[k] = prior[k]
      BY DEF IsOn
    <2> HIDE DEF a
    <2>3. a[0] = first
      <3>1. 0 \in 0..n-1
        OBVIOUS
      <3> QED
        BY <2>1, <2>2, <3>1 DEF Searches
    <2>4. ASSUME NEW k \in 1..n PROVE a[k] = IF ~a[k-1].ok \/ a[k-1].at > Len(a[k-1].pairs) THEN a[k-1] ELSE MatchCandidate(p, a[k-1])
      <3>1. CASE k = n
        <4>1. n - 1 \in 0..n-1
          OBVIOUS
        <4> QED
          BY <2>2, <3>1, <4>1 DEF v
      <3>2. CASE k # n
        <4>1. k \in 1..n-1 /\ k \in 0..n-1 /\ k-1 \in 0..n-1
          BY <3>2
        <4>2. prior[k] = IF ~prior[k-1].ok \/ prior[k-1].at > Len(prior[k-1].pairs) THEN prior[k-1] ELSE MatchCandidate(p, prior[k-1])
          BY <2>1, <4>1 DEF Searches
        <4> QED
          BY <2>2, <4>1, <4>2
      <3> QED
        BY <3>1, <3>2
    <2>5. Searches(a, p, first, n)
      BY <2>2, <2>3, <2>4 DEF Searches
    <2> QED
      BY <2>5
  <1>3. \A k \in 0..m : k \in A
    <2> HIDE DEF A
    <2> QED
      BY <1>1, <1>2, CountedUp
  <1> QED
    BY <1>3

MatchOK(p, n, q) ==
    /\ q \in Seq((DOMAIN p.descs) \X Numbers) /\ Len(q) >= 1 /\ q[1] = <<p.output, n>>
    /\ \A k \in 1..Len(q) : q[k][2] # 0 /\ Fits(p, q[k][1], q[k][2]) /\ WellMet(p, q[k], q)
    /\ \A k \in 2..Len(q) : UsedBy(p, q[k], q)

LEMMA MatchFromOutputFinds ==
  ASSUME NodesOK, NEW p, GoodPattern(p), p.output \in DOMAIN p.descs, NEW n \in DOMAIN nodes, Fits(p, p.output, n),
         MatchFromOutput(p, n) # << >>
  PROVE  MatchOK(p, n, MatchFromOutput(p, n))
  <1> DEFINE D == DOMAIN p.descs
             bound == Cardinality(D) * Len(nodes)
             first == [pairs |-> <<<<p.output, n>>>>, at |-> 1, ok |-> TRUE]
             step(g) == [i \in 0..bound |-> IF i = 0 THEN first
                         ELSE LET s == g[i-1] IN IF ~s.ok \/ s.at > Len(s.pairs) THEN s ELSE MatchCandidate(p, s)]
             c == CHOOSE g : g = step(g)
  <1>1. bound \in Nat /\ Len(nodes) \in Nat /\ DOMAIN nodes = 1..Len(nodes)
    <2>1. Cardinality(D) \in Nat /\ Len(nodes) \in Nat
      BY FS_CardinalityType DEF GoodPattern, NodesOK
    <2> QED
      BY <2>1 DEF NodesOK
  <1>2. MatchFromOutput(p, n) = IF c[bound].ok THEN c[bound].pairs ELSE << >>
    BY DEF MatchFromOutput
  <1>2a. \A q \in Seq(D \X Numbers) : Distinct(q) /\ (\A k \in 1..Len(q) : q[k][2] # 0) => Len(q) <= bound
    <2> SUFFICES ASSUME NEW q \in Seq(D \X Numbers), Distinct(q), \A k \in 1..Len(q) : q[k][2] # 0 PROVE Len(q) <= bound
      OBVIOUS
    <2>1. IsFiniteSet(D) /\ q \in Seq(D \X (0..Len(nodes)))
      BY DEF GoodPattern, Numbers
    <2> HIDE DEF D
    <2> QED
      BY <1>1, <2>1, PairsAreFew
  <1> HIDE DEF bound
  <1>3. c = step(c)
    <2>1. PICK f : Searches(f, p, first, bound)
      <3> HIDE DEF first
      <3> QED
        BY <1>1, SearchExists
    <2> HIDE DEF first
    <2>2. IsOn(f, bound)
      BY <2>1 DEF Searches
    <2>3. \A i \in 0..bound : f[i] = IF i = 0 THEN first
                         ELSE LET s == f[i-1] IN IF ~s.ok \/ s.at > Len(s.pairs) THEN s ELSE MatchCandidate(p, s)
      BY <1>1, <2>1 DEF Searches
    <2>4. f = step(f)
      BY <2>2, <2>3 DEF IsOn
    <2> HIDE DEF step
    <2> QED
      BY <2>4
  <1>4. \A i \in 0..bound : c[i] = IF i = 0 THEN first
                         ELSE LET s == c[i-1] IN IF ~s.ok \/ s.at > Len(s.pairs) THEN s ELSE MatchCandidate(p, s)
    <2> HIDE DEF c, first
    <2> QED
      BY <1>3
  <1> HIDE DEF c, step
  <1> DEFINE Going(i, s) == s.ok => SearchOK(p, n, s) /\ (s.at = i + 1 \/ s.at > Len(s.pairs))
             A == {i \in 0..bound : Going(i, c[i])}
  <1>5. 0 \in A
    <2>0. 0 \in 0..bound
      BY <1>1
    <2>1. c[0] = first
      <3> HIDE DEF first
      <3> QED
        BY <1>4, <2>0
    <2> DEFINE q == <<<<p.output, n>>>>
    <2>2. Len(q) = 1 /\ q[1] = <<p.output, n>> /\ <<p.output, n>> \in D \X Numbers /\ n # 0
      BY <1>1 DEF Numbers
    <2>3. q \in Seq(D \X Numbers)
      <3> DEFINE x == <<p.output, n>>
      <3>1. x \in D \X Numbers
        BY <2>2
      <3> HIDE DEF x
      <3>2. <<x>> \in Seq(D \X Numbers)
        BY <3>1
      <3> QED
        BY <3>2 DEF x
    <2>4. q[1][1] = p.output /\ q[1][2] = n
      BY <2>2
    <2>4a. first.pairs = q /\ first.at = 1 /\ "ok" \in DOMAIN first
      OBVIOUS
    <2> HIDE DEF q, first
    <2>5. Distinct(q) /\ \A k \in 1..Len(q) : q[k][2] # 0 /\ Fits(p, q[k][1], q[k][2])
      BY <2>2, <2>4 DEF Distinct
    <2>6. SearchOK(p, n, first)
      <3>1. 1 \in 1..Len(q)+1 /\ 1..1-1 = {} /\ 2..Len(q) = {}
        BY <2>2
      <3>2. 1..first.at-1 = {} /\ first.at \in 1..Len(first.pairs)+1 /\ 2..Len(first.pairs) = {} /\ Len(first.pairs) >= 1
        <4>1. Len(first.pairs) = 1 /\ first.at = 1
          BY <2>2, <2>4a
        <4> HIDE DEF q
        <4> QED
          BY <4>1
      <3>3. first.pairs \in Seq(D \X Numbers) /\ Distinct(first.pairs) /\ first.pairs[1] = <<p.output, n>>
        BY <2>2, <2>3, <2>4a, <2>5
      <3>4. \A k \in 1..Len(first.pairs) : first.pairs[k][2] # 0 /\ Fits(p, first.pairs[k][1], first.pairs[k][2])
        BY <2>4a, <2>5
      <3>5. \A k \in 2..Len(first.pairs) : UsedBy(p, first.pairs[k], first.pairs)
        BY <3>2
      <3>6. \A k \in 1..first.at-1 : WellMet(p, first.pairs[k], first.pairs)
        BY <3>2
      <3> QED
        BY <2>4a, <3>2, <3>3, <3>4, <3>5, <3>6 DEF SearchOK
    <2> QED
      BY <2>0, <2>1, <2>4a, <2>6
  <1> HIDE DEF first
  <1>6. ASSUME NEW i \in 1..bound, i - 1 \in A PROVE i \in A
    <2> DEFINE s == c[i-1]
    <2>1. i \in 0..bound /\ i # 0 /\ i - 1 \in 0..bound /\ i - 1 + 1 = i /\ Going(i - 1, s)
      BY <1>1, <1>6
    <2>2. c[i] = IF ~s.ok \/ s.at > Len(s.pairs) THEN s ELSE MatchCandidate(p, s)
      BY <1>4, <2>1
    <2> HIDE DEF s
    <2>3. CASE ~s.ok
      BY <2>1, <2>2, <2>3
    <2>4. CASE s.ok /\ s.at > Len(s.pairs)
      BY <2>1, <2>2, <2>4
    <2>5. CASE s.ok /\ ~(s.at > Len(s.pairs))
      <3>1. SearchOK(p, n, s) /\ s.at = i /\ c[i] = MatchCandidate(p, s)
        BY <2>1, <2>2, <2>5
      <3>2. s.at <= Len(s.pairs)
        BY <2>5, <3>1 DEF SearchOK
      <3>3. MatchCandidate(p, s).ok => SearchOK(p, n, MatchCandidate(p, s)) /\ MatchCandidate(p, s).at = i + 1
        BY <3>1, <3>2, CandidateKeeps
      <3> QED
        BY <2>1, <3>1, <3>3
    <2> QED
      BY <2>3, <2>4, <2>5
  <1>7. bound \in A
    <2> HIDE DEF A
    <2>1. \A i \in 0..bound : i \in A
      BY <1>1, <1>5, <1>6, CountedUp
    <2> QED
      BY <1>1, <2>1
  <1> DEFINE s == c[bound]
             q == s.pairs
  <1>8. s.ok /\ MatchFromOutput(p, n) = q
    BY <1>2
  <1>9. SearchOK(p, n, s) /\ (s.at = bound + 1 \/ s.at > Len(q))
    BY <1>7, <1>8
  <1> HIDE DEF s
  <1>10. q \in Seq(D \X Numbers) /\ Len(q) <= bound /\ Len(q) \in Nat /\ s.at \in 1..Len(q)+1
    <2>1. q \in Seq(D \X Numbers) /\ Distinct(q) /\ s.at \in 1..Len(q)+1
      BY <1>9 DEF SearchOK
    <2>2. \A k \in 1..Len(q) : q[k][2] # 0
      BY <1>9 DEF SearchOK
    <2>3. Len(q) \in Nat
      BY <2>1
    <2> HIDE DEF q, D
    <2> QED
      BY <1>2a, <2>1, <2>2, <2>3
  <1>11. s.at - 1 = Len(q)
    <2> DEFINE l == Len(q)
               at1 == s.at
    <2>1. l \in Nat /\ l <= bound /\ at1 \in 1..l+1 /\ bound \in Nat /\ (at1 = bound + 1 \/ at1 > l)
      BY <1>1, <1>9, <1>10
    <2> HIDE DEF l, at1
    <2>2. at1 - 1 = l
      BY <2>1
    <2> QED
      BY <2>2 DEF l, at1
  <1>12. \A k \in 1..Len(q) : WellMet(p, q[k], q)
    BY <1>9, <1>11 DEF SearchOK
  <1>13. MatchOK(p, n, q)
    BY <1>9, <1>12 DEF SearchOK, MatchOK
  <1> QED
    BY <1>8, <1>13

LEMMA LinkedIsHeld ==
  ASSUME NodesOK, OrderOK, Alone, NEW c \in DOMAIN nodes, NEW n, n # 0, Contains(nodes[c].ins, n)
  PROVE  n \in DOMAIN nodes /\ n \in Held /\ IsIn(n)
  <1>1. nodes[c].ins \in Seq(0..Len(nodes)) /\ DOMAIN nodes = 1..Len(nodes) /\ Len(nodes) \in Nat
    BY DEF NodesOK
  <1>2. PICK i \in 1..Len(nodes[c].ins) : nodes[c].ins[i] = n
    BY DEF Contains
  <1>3. n \in DOMAIN nodes
    <2> DEFINE s == nodes[c].ins
               N == 0..Len(nodes)
    <2>1. s \in Seq(N) /\ i \in 1..Len(s)
      BY <1>1, <1>2
    <2> HIDE DEF s, N
    <2>2. s[i] \in N
      BY <2>1
    <2>3. n \in N
      BY <1>2, <2>2 DEF s
    <2> QED
      BY <1>1, <2>3 DEF N
  <1>4. c \in Consumers(n)
    BY <1>1 DEF Consumers
  <1>5. n \in Held
    BY <1>3, <1>4 DEF Alone
  <1>6. IsIn(n)
    BY <1>5, InSequence DEF OrderOK, Held, IsIn
  <1> QED
    BY <1>3, <1>5, <1>6

LEMMA MatchIsPlace ==
  ASSUME NodesOK, OrderOK, Alone, NEW p, NEW n, IsIn(n), NEW q, MatchOK(p, n, q),
         kind = "pattern" => Cardinality(LabelsOf(q) \ {NoWord}) <= 1
  PROVE  IsPlace(p, q)
  <1>1. Len(q) \in Nat /\ Len(q) >= 1 /\ DOMAIN q = 1..Len(q) /\ q[1] = <<p.output, n>>
    BY DEF MatchOK
  <1>2. \A pair \in ToSet(q) : \E k \in 1..Len(q) : pair = q[k]
    BY <1>1 DEF ToSet
  <1>3. \A k \in 1..Len(q) : q[k][2] \in Numbers
    BY DEF MatchOK
  <1>4. ASSUME NEW pair \in ToSet(q) \ {q[1]} PROVE UsedBy(p, pair, q)
    <2>1. PICK k \in 1..Len(q) : pair = q[k]
      BY <1>2
    <2>2. k \in 2..Len(q)
      <3>1. k # 1 /\ k \in 1..Len(q)
        BY <1>4, <2>1
      <3> QED
        BY <1>1, <3>1
    <2> QED
      BY <2>1, <2>2 DEF MatchOK
  <1>5. ASSUME NEW pair \in ToSet(q) PROVE IsIn(pair[2]) /\ (p.descs[pair[1]] = {} \/ nodes[pair[2]].type \in p.descs[pair[1]])
    <2>1. PICK k \in 1..Len(q) : pair = q[k]
      BY <1>2
    <2>2. pair[2] # 0 /\ Fits(p, pair[1], pair[2])
      BY <2>1 DEF MatchOK
    <2>3. IsIn(pair[2])
      <3>1. CASE pair = q[1]
        BY <1>1, <3>1
      <3>2. CASE pair # q[1]
        <4>1. PICK user \in ToSet(q) : Contains(nodes[user[2]].ins, pair[2])
          BY <1>4, <3>2 DEF UsedBy
        <4>2. PICK h \in 1..Len(q) : user = q[h]
          BY <1>2
        <4>3. user[2] \in Numbers /\ user[2] # 0
          BY <1>3, <4>2 DEF MatchOK
        <4>4. user[2] \in DOMAIN nodes
          BY <4>3 DEF Numbers, NodesOK
        <4> QED
          BY <2>2, <4>1, <4>4, LinkedIsHeld
      <3> QED
        BY <3>1, <3>2
    <2> QED
      BY <2>2, <2>3 DEF Fits, IsOpTypeExist
  <1>6. ASSUME NEW pair \in ToSet(q) PROVE WellMet(p, pair, q)
    <2>1. PICK k \in 1..Len(q) : pair = q[k]
      BY <1>2
    <2> QED
      BY <2>1 DEF MatchOK
  <1>7. ASSUME NEW pair \in ToSet(q)
        PROVE  \E edge \in [1..Len(p.inputs[pair[1]]) -> 1..Len(nodes[pair[2]].ins)] :
                   /\ IsInjective(edge)
                   /\ \A j \in DOMAIN edge : <<p.inputs[pair[1]][j], nodes[pair[2]].ins[edge[j]]>> \in ToSet(q)
    <2>1. WellMet(p, pair, q)
      BY <1>6
    <2> QED
      BY <2>1 DEF WellMet, Met
  <1>8. \A pair \in ToSet(q) \ {q[1]} : \E user \in ToSet(q) :
            Contains(p.inputs[user[1]], pair[1]) /\ Contains(nodes[user[2]].ins, pair[2])
    BY <1>4 DEF UsedBy
  <1> QED
    BY <1>5, <1>7, <1>8 DEF IsPlace

LEMMA PlaceByState == \A p, m : IsPlace(p, m) <=> PlaceIn(p, m, nodes, order, kind)
  <1>1. \A m : LabelsOf(m) = LabelsIn(m, nodes)
    BY DEF LabelsOf, LabelsIn
  <1> QED
    BY <1>1 DEF IsPlace, PlaceIn, IsIn

(* A place stays real while its nodes are held, have their types and labels,  *)
(* and keep their links among each other.                                     *)
LEMMA PlaceStays ==
  ASSUME NEW p, NEW q, NEW ns, NEW ms, NEW o1, NEW o2, NEW kd, PlaceIn(p, q, ns, o1, kd),
         \A n \in NodesOf(q) : /\ Contains(o2, n) /\ ms[n].type = ns[n].type /\ ms[n].label = ns[n].label
                               /\ Len(ms[n].ins) = Len(ns[n].ins)
                               /\ \A i \in 1..Len(ns[n].ins) :
                                      ns[n].ins[i] \in NodesOf(q) => ms[n].ins[i] = ns[n].ins[i]
  PROVE  PlaceIn(p, q, ms, o2, kd)
  <1>1. \A pair \in ToSet(q) : pair[2] \in NodesOf(q)
    BY DEF ToSet, NodesOf
  <1>2. \A pair \in ToSet(q) : Contains(o2, pair[2]) /\ (p.descs[pair[1]] = {} \/ ms[pair[2]].type \in p.descs[pair[1]])
    BY <1>1 DEF PlaceIn
  <1>3. ASSUME NEW pair \in ToSet(q) \ {q[1]}
        PROVE  \E user \in ToSet(q) : Contains(p.inputs[user[1]], pair[1]) /\ Contains(ms[user[2]].ins, pair[2])
    <2>1. PICK user \in ToSet(q) : Contains(p.inputs[user[1]], pair[1]) /\ Contains(ns[user[2]].ins, pair[2])
      BY DEF PlaceIn
    <2>2. PICK i \in 1..Len(ns[user[2]].ins) : ns[user[2]].ins[i] = pair[2]
      BY <2>1 DEF Contains
    <2>3. user[2] \in NodesOf(q) /\ pair[2] \in NodesOf(q)
      BY <1>1
    <2>4. ms[user[2]].ins[i] = pair[2] /\ i \in 1..Len(ms[user[2]].ins)
      BY <2>2, <2>3
    <2>5. Contains(ms[user[2]].ins, pair[2])
      BY <2>4 DEF Contains
    <2> QED
      BY <2>1, <2>5
  <1>4. ASSUME NEW pair \in ToSet(q)
        PROVE  \E edge \in [1..Len(p.inputs[pair[1]]) -> 1..Len(ms[pair[2]].ins)] :
                   /\ IsInjective(edge)
                   /\ \A j \in DOMAIN edge : <<p.inputs[pair[1]][j], ms[pair[2]].ins[edge[j]]>> \in ToSet(q)
    <2>1. PICK edge \in [1..Len(p.inputs[pair[1]]) -> 1..Len(ns[pair[2]].ins)] :
                   /\ IsInjective(edge)
                   /\ \A j \in DOMAIN edge : <<p.inputs[pair[1]][j], ns[pair[2]].ins[edge[j]]>> \in ToSet(q)
      BY DEF PlaceIn
    <2>2. edge \in [1..Len(p.inputs[pair[1]]) -> 1..Len(ms[pair[2]].ins)]
      BY <1>1, <2>1
    <2>3. ASSUME NEW j \in DOMAIN edge PROVE ms[pair[2]].ins[edge[j]] = ns[pair[2]].ins[edge[j]]
      <3>1. edge[j] \in 1..Len(ns[pair[2]].ins)
        BY <2>1
      <3>2. <<p.inputs[pair[1]][j], ns[pair[2]].ins[edge[j]]>> \in ToSet(q)
        BY <2>1
      <3>3. ns[pair[2]].ins[edge[j]] \in NodesOf(q)
        BY <1>1, <3>2
      <3> QED
        BY <1>1, <3>1, <3>3
    <2>4. \A j \in DOMAIN edge : <<p.inputs[pair[1]][j], ms[pair[2]].ins[edge[j]]>> \in ToSet(q)
      BY <2>1, <2>3
    <2> QED
      BY <2>1, <2>2, <2>4
  <1>5. LabelsIn(q, ms) = LabelsIn(q, ns)
    BY DEF LabelsIn
  <1>6. kd = "pattern" => Cardinality(LabelsIn(q, ms) \ {NoWord}) <= 1
    BY <1>5 DEF PlaceIn
  <1> QED
    BY <1>2, <1>3, <1>4, <1>6 DEF PlaceIn

PatternFields == {"ops", "descs", "inputs", "outputs", "output", "error"}
InputsOK(descs, wanted) == DOMAIN wanted = DOMAIN descs /\ \A d \in DOMAIN descs : wanted[d] \in Seq(DOMAIN descs)
PartPattern(p) == /\ DOMAIN p = PatternFields /\ IsFiniteSet(DOMAIN p.descs) /\ InputsOK(p.descs, p.inputs)
                  /\ p.ops \in Seq(DOMAIN p.descs) /\ p.output = Absent
GoodCall(call) == /\ call[1] \in {"op", "inputs", "output"}
                  /\ call[1] = "inputs" => call[3] \in Seq(ToSet(call[3]))

LEMMA CallKeeps ==
  ASSUME NEW p, PartPattern(p), NEW call, GoodCall(call)
  PROVE  PartPattern(CallPattern(p, call))
  <1> DEFINE D == DOMAIN p.descs
  <1>1. DOMAIN p = PatternFields /\ IsFiniteSet(D) /\ InputsOK(p.descs, p.inputs) /\ p.ops \in Seq(D) /\ p.output = Absent
    BY DEF PartPattern
  <1>2. ASSUME NEW r, NEW v, PartPattern(r) PROVE PartPattern([r EXCEPT !.error = v])
    <2> DEFINE s == [r EXCEPT !.error = v]
    <2>1. DOMAIN r = PatternFields
      BY <1>2 DEF PartPattern
    <2>2. DOMAIN s = PatternFields /\ s.descs = r.descs /\ s.inputs = r.inputs /\ s.ops = r.ops /\ s.output = r.output
      BY <2>1 DEF PatternFields
    <2> HIDE DEF s
    <2>3. PartPattern(s)
      BY <1>2, <2>2 DEF PartPattern
    <2> QED
      BY <2>3 DEF s
  <1>3. PartPattern(SetError(p))
    BY <1>2 DEF SetError
  <1>4. CASE call[1] = "op"
    <2> DEFINE id == call[2]
               descs == Keyed(p.descs, id, call[3])
               wanted == Keyed(p.inputs, id, << >>)
               added == Append(p.ops, id)
               s == [p EXCEPT !.ops = added, !.descs = descs, !.inputs = wanted]
    <2>1. CallPattern(p, call) = AddOpDescTypes(p, id, call[3])
      BY <1>4 DEF CallPattern
    <2>2. CASE id = NoWord \/ id \in DOMAIN p.descs
      BY <1>3, <2>1, <2>2 DEF AddOpDescTypes
    <2>3. CASE ~(id = NoWord \/ id \in DOMAIN p.descs)
      <3>1. CallPattern(p, call) = s
        BY <2>1, <2>3 DEF AddOpDescTypes
      <3>2. DOMAIN s = PatternFields /\ s.descs = descs /\ s.inputs = wanted /\ s.ops = added /\ s.output = p.output
        <4> HIDE DEF descs, wanted, added
        <4> QED
          BY <1>1 DEF PatternFields
      <3>3. DOMAIN descs = D \cup {id} /\ DOMAIN wanted = D \cup {id} /\ wanted[id] = << >>
            /\ \A d \in D : d # id => wanted[d] = p.inputs[d]
        BY <1>1 DEF Keyed, InputsOK
      <3> HIDE DEF s, descs, wanted
      <3>4. IsFiniteSet(D \cup {id})
        <4> HIDE DEF D
        <4> QED
          BY <1>1, FS_AddElement
      <3>5. Seq(D) \subseteq Seq(D \cup {id})
        OBVIOUS
      <3>7. added \in Seq(D \cup {id})
        <4> DEFINE o == p.ops
        <4>1. o \in Seq(D \cup {id}) /\ id \in D \cup {id}
          BY <1>1, <3>5
        <4> HIDE DEF o, D
        <4>2. Append(o, id) \in Seq(D \cup {id})
          BY <4>1
        <4> QED
          BY <4>2 DEF o, added
      <3> HIDE DEF added
      <3>6. \A d \in D \cup {id} : wanted[d] \in Seq(D \cup {id})
        <4>1. << >> \in Seq(D \cup {id})
          OBVIOUS
        <4>2. ASSUME NEW d \in D, d # id PROVE wanted[d] \in Seq(D \cup {id})
          <5>1. wanted[d] \in Seq(D)
            BY <1>1, <3>3, <4>2 DEF InputsOK
          <5> QED
            BY <3>5, <5>1
        <4> HIDE DEF D
        <4> QED
          BY <3>3, <4>1, <4>2
      <3> QED
        BY <1>1, <3>1, <3>2, <3>3, <3>4, <3>5, <3>6, <3>7 DEF PartPattern, InputsOK
    <2> QED
      BY <2>2, <2>3
  <1>5. CASE call[1] = "inputs"
    <2> DEFINE id == call[2]
               ids == call[3]
               Unknown == {i \in 1..Len(ids) : ids[i] \notin D}
               unknown == SelectInSeq(ids, LAMBDA i : i \notin DOMAIN p.descs)
               known == IF unknown = 0 THEN ids ELSE SubSeq(ids, 1, unknown - 1)
               wrong == p.error \/ unknown > 0
               s == [p EXCEPT !.inputs[id] = known, !.error = wrong]
    <2>1. CallPattern(p, call) = SetInputs(p, id, ids) /\ ids \in Seq(ToSet(ids))
      BY <1>5 DEF CallPattern, GoodCall
    <2>2. CASE id \notin DOMAIN p.descs
      BY <1>3, <2>1, <2>2 DEF SetInputs
    <2>3. CASE id \in DOMAIN p.descs
      <3>1. CallPattern(p, call) = s
        BY <2>1, <2>3 DEF SetInputs
      <3>2. known \in Seq(D)
        <4>0. Len(ids) \in Nat /\ ids = [i \in 1..Len(ids) |-> ids[i]]
          BY <2>1
        <4>1. unknown = IF Unknown # {} THEN CHOOSE x \in Unknown : \A y \in Unknown : x <= y ELSE 0
          BY DEF SelectInSeq, Min
        <4>2. CASE Unknown = {}
          <5>1. \A i \in 1..Len(ids) : ids[i] \in D
            BY <4>2
          <5>2. ids \in Seq(D)
            <6> HIDE DEF D, ids
            <6> QED
              BY <4>0, <5>1, SeqOfLength
          <5> QED
            BY <4>1, <4>2, <5>2
        <4>3. CASE Unknown # {}
          <5>1. Unknown \subseteq Nat
            OBVIOUS
          <5>2. \E x \in Unknown : \A y \in Unknown : x <= y
            <6> HIDE DEF Unknown
            <6> QED
              BY <4>3, <5>1, LeastNumber
          <5>3. unknown \in Unknown /\ \A y \in Unknown : unknown <= y
            <6> HIDE DEF Unknown, unknown
            <6> QED
              BY <4>1, <4>3, <5>2
          <5>4. unknown \in 1..Len(ids) /\ unknown - 1 \in Nat /\ unknown - 1 <= Len(ids)
            BY <4>0, <5>3
          <5> HIDE DEF unknown
          <5>5. \A i \in 1..unknown - 1 : ids[i] \in D
            <6> SUFFICES ASSUME NEW i \in 1..unknown - 1, ids[i] \notin D PROVE FALSE
              OBVIOUS
            <6>1. i \in Unknown
              BY <4>0, <5>4
            <6> QED
              BY <5>3, <5>4, <6>1
          <5>6. SubSeq(ids, 1, unknown - 1) = [i \in 1..unknown - 1 |-> ids[i]]
            BY <2>1, <4>0, <5>4
          <5>7. SubSeq(ids, 1, unknown - 1) \in Seq(D)
            <6> DEFINE cut == [i \in 1..unknown - 1 |-> ids[i]]
            <6>1. cut = [i \in 1..unknown - 1 |-> cut[i]] /\ \A i \in 1..unknown - 1 : cut[i] \in D
              BY <5>5
            <6> HIDE DEF cut, D
            <6>2. cut \in Seq(D)
              BY <5>4, <6>1, SeqOfLength
            <6> QED
              BY <5>6, <6>2 DEF cut
          <5> QED
            BY <5>4, <5>7
        <4> QED
          BY <4>2, <4>3
      <3> HIDE DEF known, wrong
      <3>3. /\ DOMAIN s = PatternFields /\ s.descs = p.descs /\ s.ops = p.ops /\ s.output = p.output
            /\ s.inputs = [p.inputs EXCEPT ![id] = known]
        <4> DEFINE t == [p EXCEPT !.inputs = [p.inputs EXCEPT ![id] = known]]
        <4>1. /\ DOMAIN t = PatternFields /\ t.descs = p.descs /\ t.ops = p.ops /\ t.output = p.output
              /\ t.inputs = [p.inputs EXCEPT ![id] = known]
          BY <1>1 DEF PatternFields
        <4>2. s = [t EXCEPT !.error = wrong]
          OBVIOUS
        <4> HIDE DEF t
        <4> QED
          BY <4>1, <4>2 DEF PatternFields
      <3> HIDE DEF s
      <3>4. InputsOK(s.descs, s.inputs)
        BY <1>1, <3>2, <3>3 DEF InputsOK
      <3> QED
        BY <1>1, <3>1, <3>3, <3>4 DEF PartPattern
    <2> QED
      BY <2>2, <2>3
  <1>6. CASE call[1] = "output"
    <2> DEFINE id == call[2]
               marked == p.outputs \cup {id}
               s == [p EXCEPT !.outputs = marked]
    <2>1. CallPattern(p, call) = SetPatternOutput(p, id)
      BY <1>6 DEF CallPattern
    <2>2. CASE id \notin DOMAIN p.descs
      BY <1>3, <2>1, <2>2 DEF SetPatternOutput
    <2>3. CASE id \in DOMAIN p.descs
      <3>1. CallPattern(p, call) = s
        BY <2>1, <2>3 DEF SetPatternOutput
      <3> HIDE DEF marked
      <3>2. DOMAIN s = PatternFields /\ s.descs = p.descs /\ s.inputs = p.inputs /\ s.ops = p.ops /\ s.output = p.output
        BY <1>1 DEF PatternFields
      <3> HIDE DEF s
      <3>3. PartPattern(s)
        BY <1>1, <3>2 DEF PartPattern
      <3> QED
        BY <3>1, <3>3
    <2> QED
      BY <2>2, <2>3
  <1> QED
    BY <1>4, <1>5, <1>6 DEF GoodCall

(* f[k] is the pattern after its first k calls.                               *)
CallsOf(f, script, n) ==
    /\ IsOn(f, n) /\ f[0] = NewPattern
    /\ \A k \in 1..n : f[k] = CallPattern(f[k-1], script[k])

LEMMA CallsExist ==
  ASSUME NEW script, NEW m \in Nat
  PROVE  \E f : CallsOf(f, script, m)
  <1> DEFINE A == {k \in Nat : \E f : CallsOf(f, script, k)}
  <1>1. 0 \in A
    <2> DEFINE a == [k \in 0..0 |-> NewPattern]
    <2>1. IsOn(a, 0) /\ a[0] = NewPattern /\ 1..0 = {}
      BY DEF IsOn
    <2> HIDE DEF a
    <2>2. CallsOf(a, script, 0)
      BY <2>1 DEF CallsOf
    <2> QED
      BY <2>2
  <1>2. ASSUME NEW n \in 1..m, n - 1 \in A PROVE n \in A
    <2>1. PICK prior : CallsOf(prior, script, n - 1)
      BY <1>2
    <2> DEFINE v == CallPattern(prior[n-1], script[n])
               a == [k \in 0..n |-> IF k = n THEN v ELSE prior[k]]
    <2> HIDE DEF v
    <2>2. IsOn(a, n) /\ a[n] = v /\ \A k \in 0..n-1 : a[k] = prior[k]
      BY DEF IsOn
    <2> HIDE DEF a
    <2>3. a[0] = NewPattern
      <3>1. 0 \in 0..n-1
        OBVIOUS
      <3> QED
        BY <2>1, <2>2, <3>1 DEF CallsOf
    <2>4. ASSUME NEW k \in 1..n PROVE a[k] = CallPattern(a[k-1], script[k])
      <3>1. CASE k = n
        <4>1. n - 1 \in 0..n-1
          OBVIOUS
        <4> QED
          BY <2>2, <3>1, <4>1 DEF v
      <3>2. CASE k # n
        <4>1. k \in 1..n-1 /\ k \in 0..n-1 /\ k-1 \in 0..n-1
          BY <3>2
        <4>2. prior[k] = CallPattern(prior[k-1], script[k])
          BY <2>1, <4>1 DEF CallsOf
        <4> QED
          BY <2>2, <4>1, <4>2
      <3> QED
        BY <3>1, <3>2
    <2>5. CallsOf(a, script, n)
      BY <2>2, <2>3, <2>4 DEF CallsOf
    <2> QED
      BY <2>5
  <1>3. \A k \in 0..m : k \in A
    <2> HIDE DEF A
    <2> QED
      BY <1>1, <1>2, CountedUp
  <1> QED
    BY <1>3


LEMMA PatternIsGood ==
  ASSUME NEW script, script \in Seq(ToSet(script)), \A k \in DOMAIN script : GoodCall(script[k])
  PROVE  GoodPattern(DefinePatterns(script))
  <1> DEFINE n == Len(script)
             step(g) == [k \in 0..n |-> IF k = 0 THEN NewPattern ELSE CallPattern(g[k-1], script[k])]
             c == CHOOSE g : g = step(g)
  <1>1. n \in Nat /\ \A k \in 1..n : GoodCall(script[k])
    OBVIOUS
  <1>2. DefinePatterns(script) = Build(c[n])
    BY DEF DefinePatterns
  <1> HIDE DEF n
  <1>3. c = step(c)
    <2>1. PICK f : CallsOf(f, script, n)
      BY <1>1, CallsExist
    <2>2. IsOn(f, n)
      BY <2>1 DEF CallsOf
    <2>3. \A k \in 0..n : f[k] = IF k = 0 THEN NewPattern ELSE CallPattern(f[k-1], script[k])
      BY <1>1, <2>1 DEF CallsOf
    <2>4. f = step(f)
      BY <2>2, <2>3 DEF IsOn
    <2> HIDE DEF step
    <2> QED
      BY <2>4
  <1>4. \A k \in 0..n : c[k] = IF k = 0 THEN NewPattern ELSE CallPattern(c[k-1], script[k])
    <2> HIDE DEF c
    <2> QED
      BY <1>3
  <1> HIDE DEF c, step
  <1> DEFINE A == {k \in 0..n : PartPattern(c[k])}
  <1>5. 0 \in A
    <2>0. 0 \in 0..n
      BY <1>1
    <2>1. c[0] = NewPattern
      BY <1>4, <2>0
    <2>2. PartPattern(NewPattern)
      <3> DEFINE e == << >>
      <3>1. DOMAIN e = {} /\ e \in Seq({})
        OBVIOUS
      <3>2. /\ DOMAIN NewPattern = PatternFields /\ NewPattern.descs = e /\ NewPattern.inputs = e
            /\ NewPattern.ops = e /\ NewPattern.output = Absent
        BY DEF NewPattern, PatternFields
      <3> HIDE DEF e
      <3>3. IsFiniteSet({})
        BY FS_EmptySet
      <3> QED
        BY <3>1, <3>2, <3>3 DEF PartPattern, InputsOK
    <2> QED
      BY <2>0, <2>1, <2>2
  <1>6. ASSUME NEW k \in 1..n, k - 1 \in A PROVE k \in A
    <2>1. k \in 0..n /\ k # 0 /\ PartPattern(c[k-1]) /\ GoodCall(script[k])
      BY <1>1, <1>6
    <2>2. c[k] = CallPattern(c[k-1], script[k])
      BY <1>4, <2>1
    <2> QED
      BY <2>1, <2>2, CallKeeps
  <1>7. PartPattern(c[n])
    <2>1. n \in A
      <3> HIDE DEF A
      <3>1. \A k \in 0..n : k \in A
        BY <1>1, <1>5, <1>6, CountedUp
      <3> QED
        BY <1>1, <3>1
    <2> QED
      BY <2>1
  <1> DEFINE p == c[n]
             Marked == {i \in 1..Len(p.ops) : p.ops[i] \in p.outputs}
             first == SelectInSeq(p.ops, LAMBDA id : id \in p.outputs)
             several == p.outputs # {p.ops[first]}
             s == [p EXCEPT !.output = p.ops[first], !.error = several]
             e == [p EXCEPT !.error = TRUE]
  <1> HIDE DEF p
  <1>8. PartPattern(p) /\ DefinePatterns(script) = Build(p)
    BY <1>2, <1>7 DEF p
  <1>9. Build(p) = p \/ Build(p) = e \/ (first # 0 /\ Build(p) = s)
    <2>1. Build(p) = IF p.error THEN p ELSE IF first = 0 THEN e ELSE s
      BY DEF Build, SetError
    <2> HIDE DEF s, e, first
    <2> QED
      BY <2>1
  <1>10. DOMAIN p = PatternFields
    BY <1>8 DEF PartPattern
  <1>11. e.descs = p.descs /\ e.inputs = p.inputs /\ e.output = p.output
    BY <1>10 DEF PatternFields
  <1>12. s.descs = p.descs /\ s.inputs = p.inputs /\ s.output = p.ops[first]
    <2> HIDE DEF several, first
    <2> QED
      BY <1>10 DEF PatternFields
  <1> HIDE DEF s, e
  <1>13. GoodPattern(p) /\ GoodPattern(e)
    BY <1>8, <1>11 DEF PartPattern, GoodPattern, InputsOK
  <1>14. ASSUME first # 0 PROVE GoodPattern(s)
    <2>1. p.ops \in Seq(DOMAIN p.descs) /\ Len(p.ops) \in Nat
      BY <1>8 DEF PartPattern
    <2>3. first = IF Marked # {} THEN CHOOSE x \in Marked : \A y \in Marked : x <= y ELSE 0
      BY DEF SelectInSeq, Min
    <2>4. \E x \in Marked : \A y \in Marked : x <= y
      <3>1. Marked \subseteq Nat
        OBVIOUS
      <3>2. Marked # {}
        BY <1>14, <2>3
      <3> HIDE DEF Marked
      <3> QED
        BY <3>1, <3>2, LeastNumber
    <2>5. first \in Marked
      <3> HIDE DEF Marked, first
      <3> QED
        BY <1>14, <2>3, <2>4
    <2> HIDE DEF first
    <2>2. p.ops[first] \in DOMAIN p.descs
      BY <2>1, <2>5
    <2> QED
      BY <1>8, <1>12, <2>2 DEF PartPattern, GoodPattern, InputsOK
  <1> QED
    BY <1>8, <1>9, <1>13, <1>14

LEMMA LengthOf ==
  ASSUME NEW n \in Nat, NEW f, f = [k \in 1..n |-> f[k]]
  PROVE  Len(f) = n
  <1>1. \A k \in 1..n : f[k] \in {f[i] : i \in 1..n}
    OBVIOUS
  <1> QED
    BY <1>1, SeqOfLength

(* What a fused node is told changes no link, no type and no other node.      *)
AreNodes(ns) == ns = [k \in DOMAIN ns |-> ns[k]] /\ \A k \in DOMAIN ns : DOMAIN ns[k] = NodeFields
OnlyMarked(ns, ms, f) ==
    /\ AreNodes(ms) /\ DOMAIN ms = DOMAIN ns
    /\ \A k \in DOMAIN ns : ms[k].type = ns[k].type /\ ms[k].ins = ns[k].ins /\ (k # f => ms[k] = ns[k])

LEMMA NotMarked == ASSUME NEW ns, AreNodes(ns), NEW f PROVE OnlyMarked(ns, ns, f)
  BY DEF OnlyMarked

LEMMA MarkedTwice ==
  ASSUME NEW ns, NEW ms, NEW os, NEW f, OnlyMarked(ns, ms, f), OnlyMarked(ms, os, f)
  PROVE  OnlyMarked(ns, os, f)
  BY DEF OnlyMarked

LEMMA OneMark ==
  ASSUME NEW ns, AreNodes(ns), NEW f \in DOMAIN ns, NEW v
  PROVE  /\ OnlyMarked(ns, [ns EXCEPT ![f].label = v], f)
         /\ OnlyMarked(ns, [ns EXCEPT ![f].origins = v], f)
         /\ OnlyMarked(ns, [ns EXCEPT ![f].dump = v], f)
         /\ OnlyMarked(ns, [ns EXCEPT ![f].keep = v], f)
  <1>1. ASSUME NEW r, DOMAIN r = NodeFields, r.type = ns[f].type, r.ins = ns[f].ins
        PROVE  OnlyMarked(ns, [ns EXCEPT ![f] = r], f)
    <2> DEFINE ms == [ns EXCEPT ![f] = r]
    <2>1. ms = [k \in DOMAIN ms |-> ms[k]] /\ DOMAIN ms = DOMAIN ns /\ ms[f] = r /\ \A k \in DOMAIN ns : k # f => ms[k] = ns[k]
      OBVIOUS
    <2> HIDE DEF ms
    <2>2. AreNodes(ms)
      BY <1>1, <2>1 DEF AreNodes
    <2>3. OnlyMarked(ns, ms, f)
      BY <1>1, <2>1, <2>2 DEF OnlyMarked
    <2> QED
      BY <2>3 DEF ms
  <1>2. DOMAIN ns[f] = NodeFields
    BY DEF AreNodes
  <1>3. OnlyMarked(ns, [ns EXCEPT ![f] = [ns[f] EXCEPT !.label = v]], f)
    BY <1>1, <1>2 DEF NodeFields
  <1>4. OnlyMarked(ns, [ns EXCEPT ![f] = [ns[f] EXCEPT !.origins = v]], f)
    BY <1>1, <1>2 DEF NodeFields
  <1>5. OnlyMarked(ns, [ns EXCEPT ![f] = [ns[f] EXCEPT !.dump = v]], f)
    BY <1>1, <1>2 DEF NodeFields
  <1>6. OnlyMarked(ns, [ns EXCEPT ![f] = [ns[f] EXCEPT !.keep = v]], f)
    BY <1>1, <1>2 DEF NodeFields
  <1> QED
    BY <1>3, <1>4, <1>5, <1>6

LEMMA FusedIsMarked ==
  ASSUME NEW ns, AreNodes(ns), NEW fused \in DOMAIN ns, NEW first, NEW olds
  PROVE  /\ OnlyMarked(ns, SetStreamLabelToFusedNodes(ns, first, fused), fused)
         /\ OnlyMarked(ns, InheritAttrFromOriNode(ns, olds, fused), fused)
         /\ OnlyMarked(ns, SetDataDumpAttr(ns, olds, fused), fused)
  <1>1. OnlyMarked(ns, ns, fused)
    BY NotMarked
  <1>2. OnlyMarked(ns, SetStreamLabelToFusedNodes(ns, first, fused), fused)
    <2> DEFINE v == ns[first].label
    <2>1. OnlyMarked(ns, [ns EXCEPT ![fused].label = v], fused)
      <3> HIDE DEF v
      <3> QED
        BY OneMark
    <2> QED
      BY <1>1, <2>1 DEF SetStreamLabelToFusedNodes
  <1>3. OnlyMarked(ns, InheritAttrFromOriNode(ns, olds, fused), fused)
    <2>1. OnlyMarked(ns, [ns EXCEPT ![fused].keep = TRUE], fused)
      BY OneMark
    <2> QED
      BY <1>1, <2>1 DEF InheritAttrFromOriNode
  <1>4. ASSUME NEW old PROVE OnlyMarked(ns, SetOutputDescAttr(ns, old, fused), fused)
    <2> DEFINE v == ns[old].dump
    <2>1. OnlyMarked(ns, [ns EXCEPT ![fused].dump = v], fused)
      <3> HIDE DEF v
      <3> QED
        BY OneMark
    <2>2. OnlyMarked(ns, [ns EXCEPT ![fused].dump = old], fused)
      BY OneMark
    <2> QED
      BY <1>1, <2>1, <2>2 DEF SetOutputDescAttr
  <1>5. ASSUME NEW ms, OnlyMarked(ns, ms, fused) PROVE OnlyMarked(ns, RecordOriginalNames(ms, olds, fused), fused)
    <2> DEFINE v == UNION {IF ms[o].origins = Absent THEN {o} ELSE ms[o].origins : o \in olds}
    <2>1. AreNodes(ms) /\ fused \in DOMAIN ms
      BY <1>5 DEF OnlyMarked
    <2>2. RecordOriginalNames(ms, olds, fused) = [ms EXCEPT ![fused].origins = v]
      BY DEF RecordOriginalNames
    <2> HIDE DEF v
    <2>3. OnlyMarked(ms, [ms EXCEPT ![fused].origins = v], fused)
      BY <2>1, OneMark
    <2> QED
      BY <1>5, <2>2, <2>3, MarkedTwice
  <1>6. OnlyMarked(ns, SetDataDumpAttr(ns, olds, fused), fused)
    <2> DEFINE ends == UNION {anchorsMap[o] : o \in olds \cap DOMAIN anchorsMap}
               outs == {o \in olds \cap DOMAIN anchorsMap : \E e \in anchorsMap[o] : ns[e[1]].ins[e[2]] = fused}
               one1 == CHOOSE o \in outs : TRUE
               dumped == IF outs = {} THEN ns ELSE SetOutputDescAttr(ns, one1, fused)
    <2>1. SetDataDumpAttr(ns, olds, fused) \in {ns, RecordOriginalNames(dumped, olds, fused)}
      BY DEF SetDataDumpAttr
    <2>2. OnlyMarked(ns, dumped, fused)
      <3> HIDE DEF outs, one1
      <3> QED
        BY <1>1, <1>4
    <2> HIDE DEF dumped
    <2>3. OnlyMarked(ns, RecordOriginalNames(dumped, olds, fused), fused)
      BY <1>5, <2>2
    <2> QED
      BY <1>1, <2>1, <2>3
  <1> QED
    BY <1>2, <1>3, <1>6

LEMMA InsChanged ==
  ASSUME NEW r, DOMAIN r = NodeFields, NEW v
  PROVE  LET s == [r EXCEPT !.ins = v]
         IN  DOMAIN s = NodeFields /\ s.ins = v /\ s.type = r.type /\ s.label = r.label
  BY DEF NodeFields

LEMMA AppendedTo ==
  ASSUME NEW n \in Nat, NEW f, f = [k \in 1..n |-> f[k]], NEW x
  PROVE  LET g == Append(f, x)
         IN  DOMAIN g = 1..n+1 /\ g = [k \in 1..n+1 |-> g[k]] /\ g[n+1] = x /\ \A k \in 1..n : g[k] = f[k]
  <1> DEFINE S == {f[k] : k \in 1..n} \cup {x}
             g == Append(f, x)
  <1>1. \A k \in 1..n : f[k] \in S
    OBVIOUS
  <1> HIDE DEF S
  <1>2. f \in Seq(S) /\ Len(f) = n
    BY <1>1, SeqOfLength
  <1>3. x \in S
    BY DEF S
  <1>4. g \in Seq(S) /\ Len(g) = n + 1 /\ g[n+1] = x /\ \A k \in 1..n : g[k] = f[k]
    BY <1>2, <1>3
  <1> HIDE DEF g
  <1>5. DOMAIN g = 1..n+1 /\ g = [k \in 1..n+1 |-> g[k]]
    BY <1>4
  <1> QED
    BY <1>4, <1>5 DEF g

Outer(q, out) == {k \in NodesOf(q) : k \notin Taken(q, out)} \cup UNION {Linked(n) \ NodesOf(q) : n \in Taken(q, out)}
(* The graph after Fusion put a node in the place of the taken ones.          *)
Replaces(ns, ord, q, out, fused) ==
    /\ AreNodes(ns) /\ DOMAIN ns = 1..fused /\ ns[fused].type = FusedType /\ ns[fused].ins \in Seq(Outer(q, out))
    /\ \A n \in DOMAIN nodes :
           /\ ns[n].type = nodes[n].type /\ ns[n].label = nodes[n].label /\ Len(ns[n].ins) = Len(nodes[n].ins)
           /\ ns[n].ins \in Seq(0..fused)
           /\ \A i \in 1..Len(nodes[n].ins) :
                  ns[n].ins[i] = IF n \in Taken(q, out) THEN 0 ELSE IF nodes[n].ins[i] = out THEN fused ELSE nodes[n].ins[i]
    /\ ord \in Seq(1..fused) /\ ToSet(ord) = (Held \ Taken(q, out)) \cup {fused}

LEMMA TakenIsClosed ==
  ASSUME NEW q, NEW out
  PROVE  Taken(q, out) \subseteq NodesOf(q) /\ \A n \in Taken(q, out) \ {out} : Consumers(n) \subseteq Taken(q, out)
  BY DEF Taken

LEMMA OuterIsHeld ==
  ASSUME FusedGraph, NEW q, NEW out, NodesOf(q) \subseteq Held
  PROVE  /\ Outer(q, out) \subseteq Held \ Taken(q, out) /\ Held \subseteq DOMAIN nodes
         /\ IsFiniteSet(Outer(q, out))
  <1>1. Held \subseteq DOMAIN nodes /\ IsFiniteSet(DOMAIN nodes) /\ DOMAIN nodes = 1..Len(nodes) /\ Len(nodes) \in Nat
    <2>1. Held \subseteq 1..Len(nodes) /\ DOMAIN nodes = 1..Len(nodes) /\ Len(nodes) \in Nat
      BY DEF FusedGraph, OrderOK, NodesOK, Held, ToSet
    <2> QED
      BY <2>1, FS_Interval
  <1>2. Taken(q, out) \subseteq NodesOf(q)
    BY TakenIsClosed
  <1>3. ASSUME NEW n \in Taken(q, out), NEW k \in Linked(n) \ NodesOf(q) PROVE k \in Held /\ k \notin Taken(q, out)
    <2>1. n \in DOMAIN nodes /\ nodes[n].ins \in Seq(0..Len(nodes))
      BY <1>1, <1>2 DEF FusedGraph, NodesOK
    <2>2. k # 0 /\ k \in ToSet(nodes[n].ins)
      BY <1>3 DEF Linked
    <2>3. Contains(nodes[n].ins, k)
      BY <2>1, <2>2, InSequence
    <2>4. k \in Held
      BY <2>1, <2>2, <2>3, LinkedIsHeld DEF FusedGraph
    <2> QED
      BY <1>2, <1>3, <2>4
  <1>4. Outer(q, out) \subseteq Held \ Taken(q, out)
    BY <1>3 DEF Outer
  <1>5. IsFiniteSet(Outer(q, out))
    BY <1>1, <1>4, FS_Subset
  <1> QED
    BY <1>1, <1>4, <1>5

LEMMA ReplacedReplaces ==
  ASSUME FusedGraph, NEW q, NEW out \in DOMAIN nodes, NodesOf(q) \subseteq Held
  PROVE  LET R == Replaced(q, out)
         IN  R[3] = Len(nodes) + 1 /\ Replaces(R[1], R[2], q, out, Len(nodes) + 1)
  <1> DEFINE taken == Taken(q, out)
             fused == Len(nodes) + 1
             outer == Outer(q, out)
             node  == [type |-> FusedType, ins |-> SetToSeq(outer), label |-> Absent,
                       origins |-> Absent, dump |-> Absent, keep |-> FALSE]
             zeros(n) == [i \in DOMAIN nodes[n].ins |-> 0]
             moves(n) == [i \in DOMAIN nodes[n].ins |-> IF nodes[n].ins[i] = out THEN fused ELSE nodes[n].ins[i]]
             old == [n \in 1..Len(nodes) |-> IF n \in taken THEN [nodes[n] EXCEPT !.ins = zeros(n)] ELSE [nodes[n] EXCEPT !.ins = moves(n)]]
             ns == Append(old, node)
             ord == Append(Dropped(order, taken), fused)
  <1>1. Replaced(q, out)[1] = ns /\ Replaced(q, out)[2] = ord /\ Replaced(q, out)[3] = fused
    BY DEF Replaced, Outer
  <1>2. /\ Len(nodes) \in Nat /\ DOMAIN nodes = 1..Len(nodes)
        /\ \A n \in DOMAIN nodes : DOMAIN nodes[n] = NodeFields /\ nodes[n].ins \in Seq(0..Len(nodes))
        /\ order \in Seq(1..Len(nodes))
    BY DEF FusedGraph, NodesOK, OrderOK
  <1>3. outer \subseteq Held \ taken /\ Held \subseteq DOMAIN nodes /\ IsFiniteSet(outer)
    BY OuterIsHeld
  <1>4. node.type = FusedType /\ node.ins = SetToSeq(outer) /\ DOMAIN node = NodeFields
    <2> HIDE DEF outer
    <2> QED
      BY DEF NodeFields
  <1>5. SetToSeq(outer) \in Seq(outer)
    BY <1>3, ListedSet
  <1>6. ASSUME NEW n \in DOMAIN nodes
        PROVE  /\ DOMAIN old[n] = NodeFields /\ old[n].type = nodes[n].type /\ old[n].label = nodes[n].label
               /\ Len(old[n].ins) = Len(nodes[n].ins) /\ old[n].ins \in Seq(0..fused)
               /\ \A i \in 1..Len(nodes[n].ins) :
                    old[n].ins[i] = IF n \in taken THEN 0 ELSE IF nodes[n].ins[i] = out THEN fused ELSE nodes[n].ins[i]
    <2> DEFINE l == Len(nodes[n].ins)
               v == IF n \in taken THEN zeros(n) ELSE moves(n)
    <2>1. l \in Nat /\ DOMAIN nodes[n].ins = 1..l /\ \A i \in 1..l : nodes[n].ins[i] \in 0..Len(nodes)
      <3> DEFINE s == nodes[n].ins
                 N == 0..Len(nodes)
      <3>1. s \in Seq(N)
        BY <1>2
      <3> HIDE DEF s, N
      <3>2. Len(s) \in Nat /\ DOMAIN s = 1..Len(s) /\ \A i \in 1..Len(s) : s[i] \in N
        BY <3>1
      <3> QED
        BY <3>2 DEF s, N
    <2>2. old[n] = [nodes[n] EXCEPT !.ins = v]
      BY <1>2
    <2>3. DOMAIN old[n] = NodeFields /\ old[n].type = nodes[n].type /\ old[n].label = nodes[n].label /\ old[n].ins = v
      <3> HIDE DEF v, old
      <3> QED
        BY <1>2, <2>2, InsChanged
    <2>4. \A i \in 1..l : v[i] = IF n \in taken THEN 0 ELSE IF nodes[n].ins[i] = out THEN fused ELSE nodes[n].ins[i]
      BY <2>1
    <2>5. v = [i \in 1..l |-> v[i]]
      BY <2>1
    <2> HIDE DEF v, old, l
    <2>6. \A i \in 1..l : v[i] \in 0..fused
      <3> SUFFICES ASSUME NEW i \in 1..l PROVE v[i] \in 0..fused
        OBVIOUS
      <3> DEFINE x == nodes[n].ins[i]
      <3>1. x \in 0..Len(nodes) /\ v[i] \in {0, fused, x}
        BY <2>1, <2>4
      <3> HIDE DEF x
      <3> QED
        BY <1>2, <3>1
    <2>7. v \in Seq(0..fused) /\ Len(v) = l
      <3> DEFINE N == 0..fused
      <3>1. \A i \in 1..l : v[i] \in N
        BY <2>6
      <3> HIDE DEF N
      <3>2. v \in Seq(N) /\ Len(v) = l
        BY <2>1, <2>5, <3>1, SeqOfLength
      <3> QED
        BY <3>2 DEF N
    <2> QED
      BY <2>3, <2>4, <2>7 DEF l
  <1>7. old = [k \in 1..Len(nodes) |-> old[k]]
    OBVIOUS
  <1>8. DOMAIN ns = 1..fused /\ ns = [k \in 1..fused |-> ns[k]] /\ ns[fused] = node /\ \A k \in 1..Len(nodes) : ns[k] = old[k]
    <2> DEFINE m == Len(nodes)
    <2>1. m \in Nat /\ old = [k \in 1..m |-> old[k]]
      BY <1>2, <1>7
    <2> HIDE DEF old, node, m
    <2>2. DOMAIN ns = 1..m+1 /\ ns = [k \in 1..m+1 |-> ns[k]] /\ ns[m+1] = node /\ \A k \in 1..m : ns[k] = old[k]
      BY <2>1, AppendedTo
    <2> QED
      BY <2>2 DEF m
  <1> HIDE DEF node, old, ns
  <1>9. AreNodes(ns)
    <2>1. \A k \in 1..fused : k \in 1..Len(nodes) \/ k = fused
      BY <1>2
    <2> QED
      BY <1>2, <1>4, <1>6, <1>8, <2>1 DEF AreNodes
  <1>10. ord \in Seq(1..fused) /\ ToSet(ord) = (Held \ taken) \cup {fused}
    <2> DEFINE d == Dropped(order, taken)
               N == 1..Len(nodes)
               M == 1..fused
    <2>1. d \in Seq(N) /\ ToSet(d) = Held \ taken
      <3> HIDE DEF taken
      <3> QED
        BY <1>2, DroppedIs DEF Held
    <2>2. N \subseteq M /\ fused \in M
      BY <1>2
    <2> HIDE DEF d, N, M, fused
    <2>3. d \in Seq(M) /\ Len(d) \in Nat
      BY <2>1, <2>2
    <2>4. Append(d, fused) \in Seq(M)
      BY <2>2, <2>3
    <2>5. d = [k \in 1..Len(d) |-> d[k]] /\ DOMAIN d = 1..Len(d)
      BY <2>3
    <2>6. DOMAIN Append(d, fused) = 1..Len(d)+1 /\ Append(d, fused)[Len(d)+1] = fused /\ \A k \in 1..Len(d) : Append(d, fused)[k] = d[k]
      BY <2>3, <2>5, AppendedTo
    <2>7. ToSet(Append(d, fused)) = ToSet(d) \cup {fused}
      <3> DEFINE g == Append(d, fused)
      <3>1. DOMAIN g = 1..Len(d)+1 /\ g[Len(d)+1] = fused /\ \A k \in 1..Len(d) : g[k] = d[k]
        BY <2>6
      <3> HIDE DEF g
      <3>2. ToSet(g) = ToSet(d) \cup {fused}
        BY <2>3, <2>5, <3>1 DEF ToSet
      <3> QED
        BY <3>2 DEF g
    <2> QED
      BY <2>1, <2>4, <2>7 DEF d, M
  <1> HIDE DEF ord
  <1>11. Replaces(ns, ord, q, out, fused)
    <2>1. \A n \in DOMAIN nodes : ns[n] = old[n]
      BY <1>2, <1>8
    <2> HIDE DEF fused, outer, taken
    <2>2. ns[fused].type = FusedType /\ ns[fused].ins \in Seq(outer)
      BY <1>4, <1>5, <1>8
    <2>3. ASSUME NEW n \in DOMAIN nodes
          PROVE  /\ ns[n].type = nodes[n].type /\ ns[n].label = nodes[n].label
                 /\ Len(ns[n].ins) = Len(nodes[n].ins) /\ ns[n].ins \in Seq(0..fused)
                 /\ \A i \in 1..Len(nodes[n].ins) :
                    ns[n].ins[i] = IF n \in taken THEN 0 ELSE IF nodes[n].ins[i] = out THEN fused ELSE nodes[n].ins[i]
      BY <1>6, <2>1
    <2>4. AreNodes(ns) /\ DOMAIN ns = 1..fused
      BY <1>8, <1>9
    <2> QED
      BY <1>10, <2>2, <2>3, <2>4 DEF Replaces, outer, taken
  <1> QED
    BY <1>1, <1>11

IndexFor(ix, D, H, T) ==
    ix # Absent => /\ \A t \in DOMAIN ix : ix[t] \subseteq D
                   /\ \A k \in H : T[k] \in DOMAIN ix /\ k \in ix[T[k]]

LEMMA IndexGrows ==
  ASSUME NEW ix, NEW n, NEW type, NEW D, NEW H, NEW T, IndexFor(ix, D, H, T)
  PROVE  LET jx == AddNodeFromOpTypeMap(ix, n, type)
         IN  IndexFor(jx, D \cup {n}, H, T) /\ (jx # Absent => type \in DOMAIN jx /\ n \in jx[type])
  <1> USE DEF IndexFor
  <1> DEFINE jx == AddNodeFromOpTypeMap(ix, n, type)
  <1>1. CASE ix = Absent
    BY <1>1 DEF AddNodeFromOpTypeMap
  <1>2. CASE ix # Absent /\ type \in DOMAIN ix
    <2>1. jx = [ix EXCEPT ![type] = @ \cup {n}]
      BY <1>2 DEF AddNodeFromOpTypeMap
    <2>2. DOMAIN jx = DOMAIN ix /\ jx[type] = ix[type] \cup {n} /\ \A t \in DOMAIN ix : t # type => jx[t] = ix[t]
      BY <1>2, <2>1
    <2> HIDE DEF jx
    <2>3. \A t \in DOMAIN jx : jx[t] \subseteq D \cup {n}
      BY <1>2, <2>2
    <2>4. \A k \in H : T[k] \in DOMAIN jx /\ k \in jx[T[k]]
      BY <1>2, <2>2
    <2> QED
      BY <1>2, <2>2, <2>3, <2>4 DEF jx
  <1>3. CASE ix # Absent /\ type \notin DOMAIN ix
    <2>1. jx = Keyed(ix, type, {n})
      BY <1>3 DEF AddNodeFromOpTypeMap
    <2>2. DOMAIN jx = DOMAIN ix \cup {type} /\ jx[type] = {n} /\ \A t \in DOMAIN ix : jx[t] = ix[t]
      BY <1>3, <2>1 DEF Keyed
    <2> HIDE DEF jx
    <2>3. \A t \in DOMAIN jx : jx[t] \subseteq D \cup {n}
      BY <1>3, <2>2
    <2>4. \A k \in H : T[k] \in DOMAIN jx /\ k \in jx[T[k]]
      BY <1>3, <2>2
    <2> QED
      BY <1>3, <2>2, <2>3, <2>4 DEF jx
  <1> QED
    BY <1>1, <1>2, <1>3

LEMMA NoLinks ==
  ASSUME NEW S, NEW s \in Seq(S)
  PROVE  ToSet(s) \ {0} = {} <=> \A i \in 1..Len(s) : s[i] = 0
  <1>1. DOMAIN s = 1..Len(s)
    OBVIOUS
  <1> QED
    BY <1>1 DEF ToSet

LEMMA HeldAreNodes == ASSUME OrderOK, NodesOK PROVE Held \subseteq DOMAIN nodes
  BY DEF OrderOK, NodesOK, Held, ToSet

LEMMA GraphReplaced ==
  ASSUME FusedGraph, NEW q, NEW out \in DOMAIN nodes, out \in NodesOf(q), NodesOf(q) \subseteq Held, NEW fused, fused = Len(nodes) + 1,
         NEW ns, Replaces(ns, order', q, out, fused), OnlyMarked(ns, nodes', fused),
         index' = AddNodeFromOpTypeMap(index, fused, FusedType)
  PROVE  FusedGraph'
  <1> DEFINE taken == Taken(q, out)
             outer == Outer(q, out)
  <1>1. NodesOK /\ OrderOK /\ Alone /\ IndexOK /\ Len(nodes) \in Nat /\ DOMAIN nodes = 1..Len(nodes) /\ fused \in Nat
    BY DEF FusedGraph, NodesOK
  <1>2. /\ AreNodes(nodes') /\ DOMAIN nodes' = 1..fused
        /\ \A k \in 1..fused : nodes'[k].type = ns[k].type /\ nodes'[k].ins = ns[k].ins
    BY DEF Replaces, OnlyMarked
  <1>3. Len(nodes') = fused
    BY <1>1, <1>2, LengthOf DEF AreNodes
  <1>4. outer \subseteq Held \ taken /\ Held \subseteq 1..Len(nodes) /\ taken \subseteq Held
    BY <1>1, OuterIsHeld, TakenIsClosed
  <1>5. /\ nodes'[fused].type = FusedType /\ nodes'[fused].ins \in Seq(outer)
        /\ \A n \in DOMAIN nodes :
              /\ nodes'[n].type = nodes[n].type /\ Len(nodes'[n].ins) = Len(nodes[n].ins) /\ nodes'[n].ins \in Seq(0..fused)
              /\ \A i \in 1..Len(nodes[n].ins) : nodes'[n].ins[i] =
                    IF n \in taken THEN 0 ELSE IF nodes[n].ins[i] = out THEN fused ELSE nodes[n].ins[i]
    <2>1. fused \in 1..fused /\ DOMAIN nodes \subseteq 1..fused
      BY <1>1
    <2>2. nodes'[fused].type = FusedType /\ nodes'[fused].ins \in Seq(outer)
      BY <1>2, <2>1 DEF Replaces
    <2>3. ASSUME NEW n \in DOMAIN nodes
          PROVE  /\ nodes'[n].type = nodes[n].type /\ Len(nodes'[n].ins) = Len(nodes[n].ins) /\ nodes'[n].ins \in Seq(0..fused)
                 /\ \A i \in 1..Len(nodes[n].ins) : nodes'[n].ins[i] =
                       IF n \in taken THEN 0 ELSE IF nodes[n].ins[i] = out THEN fused ELSE nodes[n].ins[i]
      <3>1. nodes'[n].type = ns[n].type /\ nodes'[n].ins = ns[n].ins
        BY <1>2, <2>1
      <3> QED
        BY <3>1 DEF Replaces
    <2> QED
      BY <2>2, <2>3
  <1>6. Held' = (Held \ taken) \cup {fused} /\ order' \in Seq(1..fused)
    BY DEF Replaces, Held
  <1> HIDE DEF taken, outer
  <1>7. NodesOK'
    <2>1. ASSUME NEW k \in 1..fused PROVE DOMAIN nodes'[k] = NodeFields /\ nodes'[k].ins \in Seq(0..fused)
      <3>1. DOMAIN nodes'[k] = NodeFields
        BY <1>2 DEF AreNodes
      <3>2. CASE k \in DOMAIN nodes
        BY <1>5, <3>1, <3>2
      <3>3. CASE k = fused
        <4>1. outer \subseteq 0..fused
          BY <1>1, <1>4
        <4> DEFINE N == 0..fused
        <4>2. Seq(outer) \subseteq Seq(N)
          <5>1. outer \subseteq N
            BY <4>1
          <5> HIDE DEF N
          <5> QED
            BY <5>1
        <4> HIDE DEF N
        <4> QED
          BY <1>5, <3>1, <3>3, <4>2 DEF N
      <3>4. k \in DOMAIN nodes \/ k = fused
        BY <1>1
      <3> QED
        BY <3>2, <3>3, <3>4
    <2> QED
      BY <1>1, <1>2, <1>3, <2>1 DEF NodesOK
  <1>8. OrderOK'
    BY <1>3, <1>6 DEF OrderOK
  <1>9. Alone'
    <2> SUFFICES ASSUME NEW n \in 1..fused, n \notin Held' PROVE Linked(n)' = {} /\ Consumers(n)' = {}
      BY <1>2 DEF Alone
    <2>1. n # fused /\ n \in DOMAIN nodes /\ n # 0 /\ (n \in taken \/ n \notin Held)
      BY <1>1, <1>6
    <2>2. nodes[n].ins \in Seq(0..Len(nodes)) /\ nodes'[n].ins \in Seq(0..fused) /\ Len(nodes'[n].ins) = Len(nodes[n].ins)
      BY <1>1, <1>5, <2>1 DEF NodesOK
    <2>3. \A i \in 1..Len(nodes[n].ins) : nodes'[n].ins[i] = 0
      <3>1. CASE n \in taken
        BY <1>5, <2>1, <3>1
      <3>2. CASE n \notin taken
        <4>1. Linked(n) = {}
          BY <1>1, <2>1, <3>2 DEF Alone
        <4>2. \A i \in 1..Len(nodes[n].ins) : nodes[n].ins[i] = 0
          BY <2>2, <4>1, NoLinks DEF Linked
        <4>3. out # 0
          BY <1>1
        <4> QED
          BY <1>5, <2>1, <3>2, <4>2, <4>3
      <3> QED
        BY <3>1, <3>2
    <2>4. Linked(n)' = {}
      BY <2>2, <2>3, NoLinks DEF Linked
    <2>5. ASSUME NEW c \in 1..fused, Contains(nodes'[c].ins, n) PROVE FALSE
      <3>1. PICK i \in 1..Len(nodes'[c].ins) : nodes'[c].ins[i] = n
        BY <2>5 DEF Contains
      <3>2. CASE c = fused
        <4>1. nodes'[c].ins \in Seq(outer)
          BY <1>5, <3>2
        <4>2. n \in outer
          BY <3>1, <4>1
        <4> QED
          BY <1>4, <2>1, <4>2
      <3>3. CASE c # fused
        <4>1. c \in DOMAIN nodes
          BY <1>1, <3>3
        <4>2. i \in 1..Len(nodes[c].ins)
          BY <1>5, <3>1, <4>1
        <4>3. n = IF c \in taken THEN 0 ELSE IF nodes[c].ins[i] = out THEN fused ELSE nodes[c].ins[i]
          BY <1>5, <3>1, <4>1, <4>2
        <4>4. c \notin taken /\ nodes[c].ins[i] = n /\ n # out
          BY <2>1, <4>3
        <4>5. Contains(nodes[c].ins, n)
          BY <4>2, <4>4 DEF Contains
        <4>6. c \in Consumers(n)
          BY <1>1, <4>1, <4>5 DEF Consumers
        <4>7. CASE n \in taken
          <5>1. Consumers(n) \subseteq taken
            BY <4>4, <4>7, TakenIsClosed DEF taken
          <5> QED
            BY <4>4, <4>6, <5>1
        <4>8. CASE n \notin taken
          <5>1. Consumers(n) = {}
            BY <1>1, <2>1, <4>8 DEF Alone
          <5> QED
            BY <4>6, <5>1
        <4> QED
          BY <4>7, <4>8
      <3> QED
        BY <3>2, <3>3
    <2>6. Consumers(n)' = {}
      BY <1>3, <2>5 DEF Consumers
    <2> QED
      BY <2>4, <2>6
  <1>10. IndexOK'
    <2> DEFINE T == [k \in DOMAIN nodes |-> nodes[k].type]
               jx == AddNodeFromOpTypeMap(index, fused, FusedType)
    <2>1. Held \subseteq DOMAIN nodes /\ \A k \in Held : T[k] = nodes[k].type
      BY <1>1, HeldAreNodes
    <2>2. IndexFor(index, DOMAIN nodes, Held, T)
      BY <1>1, <2>1 DEF IndexOK, IndexFor
    <2> HIDE DEF T
    <2>3. IndexFor(jx, DOMAIN nodes \cup {fused}, Held, T) /\ (jx # Absent => FusedType \in DOMAIN jx /\ fused \in jx[FusedType])
      BY <2>2, IndexGrows
    <2>4. index' = jx
      OBVIOUS
    <2> HIDE DEF jx
    <2>5. DOMAIN nodes \cup {fused} \subseteq DOMAIN nodes'
      BY <1>1, <1>2
    <2>6. \A k \in Held : nodes'[k].type = T[k]
      BY <1>5, <2>1
    <2>7. \A k \in Held' : (k = fused /\ nodes'[k].type = FusedType) \/ (k \in Held /\ nodes'[k].type = T[k])
      BY <1>5, <1>6, <2>6
    <2> QED
      BY <2>3, <2>4, <2>5, <2>7 DEF IndexOK, IndexFor
  <1> QED
    BY <1>7, <1>8, <1>9, <1>10 DEF FusedGraph

LEMMA GraphSame == FusedGraph /\ UNCHANGED <<nodes, order, index>> => FusedGraph'
  BY DEF FusedGraph, NodesOK, OrderOK, Alone, IndexOK, Held, Linked, Consumers

LEMMA GraphMarked ==
  ASSUME FusedGraph, NEW out \in DOMAIN nodes, NEW ns, AreNodes(ns), DOMAIN ns = DOMAIN nodes,
         \A k \in DOMAIN nodes : ns[k].ins = nodes[k].ins /\ (k # out => ns[k].type = nodes[k].type),
         OnlyMarked(ns, nodes', out), order' = order, index' = AddNodeFromOpTypeMap(index, out, ns[out].type)
  PROVE  FusedGraph'
  <1>1. NodesOK /\ OrderOK /\ Alone /\ IndexOK /\ Len(nodes) \in Nat /\ DOMAIN nodes = 1..Len(nodes)
    BY DEF FusedGraph, NodesOK
  <1>2. /\ AreNodes(nodes') /\ DOMAIN nodes' = 1..Len(nodes) /\ nodes'[out].type = ns[out].type
        /\ \A k \in DOMAIN nodes : nodes'[k].ins = nodes[k].ins /\ (k # out => nodes'[k].type = nodes[k].type)
    BY <1>1 DEF OnlyMarked
  <1>3. Len(nodes') = Len(nodes)
    BY <1>1, <1>2, LengthOf DEF AreNodes
  <1>4. NodesOK' /\ OrderOK' /\ Held' = Held
    BY <1>1, <1>2, <1>3 DEF NodesOK, OrderOK, AreNodes, Held
  <1>5. Alone'
    <2>1. \A n \in DOMAIN nodes : Linked(n)' = Linked(n)
      BY <1>2 DEF Linked
    <2>2. \A n \in DOMAIN nodes : Consumers(n)' = Consumers(n)
      BY <1>1, <1>2, <1>3 DEF Consumers
    <2> QED
      BY <1>1, <1>2, <1>4, <2>1, <2>2 DEF Alone
  <1>6. IndexOK'
    <2> DEFINE T == [k \in DOMAIN nodes |-> nodes[k].type]
               type == ns[out].type
               jx == AddNodeFromOpTypeMap(index, out, type)
    <2>1. Held \subseteq DOMAIN nodes /\ \A k \in DOMAIN nodes : T[k] = nodes[k].type
      BY <1>1, HeldAreNodes
    <2>2. IndexFor(index, DOMAIN nodes, Held, T)
      BY <1>1, <2>1 DEF IndexOK, IndexFor
    <2> HIDE DEF T
    <2>3. IndexFor(jx, DOMAIN nodes \cup {out}, Held, T) /\ (jx # Absent => type \in DOMAIN jx /\ out \in jx[type])
      <3> HIDE DEF type
      <3> QED
        BY <2>2, IndexGrows
    <2>4. index' = jx
      OBVIOUS
    <2> HIDE DEF jx
    <2>5. DOMAIN nodes \cup {out} \subseteq DOMAIN nodes'
      BY <1>1, <1>2
    <2>6. \A k \in Held' : (k = out /\ nodes'[k].type = type) \/ (k \in Held /\ nodes'[k].type = T[k])
      BY <1>2, <1>4, <2>1
    <2> QED
      BY <2>3, <2>4, <2>5, <2>6 DEF IndexOK, IndexFor
  <1> QED
    BY <1>4, <1>5, <1>6 DEF FusedGraph

LEMMA GraphRemoved ==
  ASSUME FusedGraph, NEW n \in ToSet(order), NEW told, RemoveNodeFromNodeTypeMap(n, told)
  PROVE  FusedGraph'
  <1>1. NodesOK /\ OrderOK /\ Alone /\ IndexOK /\ Len(nodes) \in Nat /\ DOMAIN nodes = 1..Len(nodes)
    BY DEF FusedGraph, NodesOK
  <1>2. n \in DOMAIN nodes /\ Held \subseteq DOMAIN nodes
    BY <1>1, HeldAreNodes DEF Held
  <1> DEFINE cut(k) == [i \in DOMAIN nodes[k].ins |-> IF k = n \/ nodes[k].ins[i] = n THEN 0 ELSE nodes[k].ins[i]]
  <1>3. /\ nodes' = [k \in DOMAIN nodes |-> [nodes[k] EXCEPT !.ins = cut(k)]]
        /\ order' = Dropped(order, {n})
        /\ index' = IF told /\ index # Absent /\ nodes[n].type \in DOMAIN index
                    THEN [index EXCEPT ![nodes[n].type] = @ \ {n}] ELSE index
    BY DEF RemoveNodeFromNodeTypeMap
  <1>4. ASSUME NEW k \in DOMAIN nodes
        PROVE  /\ DOMAIN nodes'[k] = NodeFields /\ nodes'[k].type = nodes[k].type
               /\ Len(nodes'[k].ins) = Len(nodes[k].ins) /\ nodes'[k].ins \in Seq(0..Len(nodes))
               /\ \A i \in 1..Len(nodes[k].ins) :
                    nodes'[k].ins[i] = IF k = n \/ nodes[k].ins[i] = n THEN 0 ELSE nodes[k].ins[i]
    <2> DEFINE l == Len(nodes[k].ins)
               v == cut(k)
               N == 0..Len(nodes)
    <2>1. l \in Nat /\ DOMAIN nodes[k].ins = 1..l /\ \A i \in 1..l : nodes[k].ins[i] \in N
      <3> DEFINE s == nodes[k].ins
      <3>1. s \in Seq(N)
        BY <1>1 DEF NodesOK
      <3> HIDE DEF s, N
      <3>2. Len(s) \in Nat /\ DOMAIN s = 1..Len(s) /\ \A i \in 1..Len(s) : s[i] \in N
        BY <3>1
      <3> QED
        BY <3>2 DEF s
    <2>2. nodes'[k] = [nodes[k] EXCEPT !.ins = v] /\ DOMAIN nodes[k] = NodeFields
      BY <1>1, <1>3 DEF NodesOK
    <2>3. DOMAIN nodes'[k] = NodeFields /\ nodes'[k].type = nodes[k].type /\ nodes'[k].ins = v
      <3> HIDE DEF v
      <3> QED
        BY <2>2, InsChanged
    <2>4. \A i \in 1..l : v[i] = IF k = n \/ nodes[k].ins[i] = n THEN 0 ELSE nodes[k].ins[i]
      BY <2>1
    <2>5. v = [i \in 1..l |-> v[i]] /\ 0 \in N
      BY <1>1, <2>1
    <2> HIDE DEF v, l, N
    <2>6. \A i \in 1..l : v[i] \in N
      BY <2>1, <2>4, <2>5
    <2>7. v \in Seq(N) /\ Len(v) = l
      BY <2>1, <2>5, <2>6, SeqOfLength
    <2> QED
      BY <2>3, <2>4, <2>7 DEF l, N
  <1>5. DOMAIN nodes' = 1..Len(nodes) /\ Len(nodes') = Len(nodes)
    <2>1. nodes' = [k \in 1..Len(nodes) |-> nodes'[k]] /\ DOMAIN nodes' = 1..Len(nodes)
      BY <1>1, <1>3
    <2> QED
      BY <1>1, <2>1, LengthOf
  <1>6. order' \in Seq(1..Len(nodes)) /\ Held' = Held \ {n}
    <2> DEFINE N == 1..Len(nodes)
    <2>1. order \in Seq(N)
      BY <1>1 DEF OrderOK
    <2> HIDE DEF N
    <2>2. Dropped(order, {n}) \in Seq(N) /\ ToSet(Dropped(order, {n})) = ToSet(order) \ {n}
      BY <2>1, DroppedIs
    <2> QED
      BY <1>3, <2>2 DEF Held, N
  <1>7. NodesOK' /\ OrderOK'
    BY <1>1, <1>4, <1>5, <1>6 DEF NodesOK, OrderOK
  <1>8. Alone'
    <2> SUFFICES ASSUME NEW k \in 1..Len(nodes), k \notin Held' PROVE Linked(k)' = {} /\ Consumers(k)' = {}
      BY <1>5 DEF Alone
    <2>1. k \in DOMAIN nodes /\ k # 0 /\ (k = n \/ k \notin Held)
      BY <1>1, <1>6
    <2>2. nodes[k].ins \in Seq(0..Len(nodes)) /\ nodes'[k].ins \in Seq(0..Len(nodes)) /\ Len(nodes'[k].ins) = Len(nodes[k].ins)
      BY <1>1, <1>4, <2>1 DEF NodesOK
    <2>3. \A i \in 1..Len(nodes[k].ins) : nodes'[k].ins[i] = 0
      <3>1. CASE k = n
        BY <1>4, <2>1, <3>1
      <3>2. CASE k # n
        <4>1. Linked(k) = {}
          BY <1>1, <2>1, <3>2 DEF Alone
        <4>2. \A i \in 1..Len(nodes[k].ins) : nodes[k].ins[i] = 0
          BY <2>2, <4>1, NoLinks DEF Linked
        <4> QED
          BY <1>4, <2>1, <4>2
      <3> QED
        BY <3>1, <3>2
    <2>4. Linked(k)' = {}
      BY <2>2, <2>3, NoLinks DEF Linked
    <2>5. ASSUME NEW c \in DOMAIN nodes, Contains(nodes'[c].ins, k) PROVE FALSE
      <3>1. PICK i \in 1..Len(nodes'[c].ins) : nodes'[c].ins[i] = k
        BY <2>5 DEF Contains
      <3>2. i \in 1..Len(nodes[c].ins)
        BY <1>4, <3>1
      <3>3. k = IF c = n \/ nodes[c].ins[i] = n THEN 0 ELSE nodes[c].ins[i]
        BY <1>4, <3>1, <3>2
      <3>4. nodes[c].ins[i] = k /\ k # n
        BY <2>1, <3>3
      <3>5. Contains(nodes[c].ins, k)
        BY <3>2, <3>4 DEF Contains
      <3>6. c \in Consumers(k)
        BY <1>1, <3>5 DEF Consumers
      <3>7. Consumers(k) = {}
        BY <1>1, <2>1, <3>4 DEF Alone
      <3> QED
        BY <3>6, <3>7
    <2>6. Consumers(k)' = {}
      BY <1>1, <1>5, <2>5 DEF Consumers
    <2> QED
      BY <2>4, <2>6
  <1>9. IndexOK'
    <2> DEFINE type == nodes[n].type
    <2>1. \A t \in DOMAIN index' : index' # Absent /\ index # Absent => t \in DOMAIN index /\ index'[t] \subseteq index[t]
                                   /\ index[t] \ {n} \subseteq index'[t]
      BY <1>3
    <2>2. index # Absent => DOMAIN index' = DOMAIN index
      BY <1>3
    <2>3. index' # Absent => index # Absent
      BY <1>3
    <2>4. \A k \in Held' : k \in Held /\ k # n /\ nodes'[k].type = nodes[k].type
      BY <1>2, <1>4, <1>6
    <2>5. DOMAIN nodes' = DOMAIN nodes
      BY <1>1, <1>5
    <2> QED
      BY <1>1, <2>1, <2>2, <2>3, <2>4, <2>5 DEF IndexOK
  <1> QED
    BY <1>7, <1>8, <1>9 DEF FusedGraph

(* What one fusion leaves alone: the nodes outside its place, and the links   *)
(* among them.                                                                *)
SpareOthers(olds) ==
    \A n \in Held \ olds :
        /\ Contains(order', n) /\ nodes'[n].type = nodes[n].type /\ nodes'[n].label = nodes[n].label
        /\ Len(nodes'[n].ins) = Len(nodes[n].ins)
        /\ \A i \in 1..Len(nodes[n].ins) : nodes[n].ins[i] \notin olds => nodes'[n].ins[i] = nodes[n].ins[i]

LEMMA FusedNodes ==
  ASSUME NEW ns, AreNodes(ns), NEW fused \in DOMAIN ns, NEW first, NEW olds,
         nodes' = LET labelled == IF kind = "pattern" THEN SetStreamLabelToFusedNodes(ns, first, fused) ELSE ns
                  IN  IF kind = "graph" THEN labelled
                      ELSE InheritAttrFromOriNode(SetDataDumpAttr(labelled, olds, fused), olds, fused)
  PROVE  OnlyMarked(ns, nodes', fused)
  <1> DEFINE labelled == IF kind = "pattern" THEN SetStreamLabelToFusedNodes(ns, first, fused) ELSE ns
             dumped == SetDataDumpAttr(labelled, olds, fused)
             kept == InheritAttrFromOriNode(dumped, olds, fused)
  <1>1. nodes' = IF kind = "graph" THEN labelled ELSE kept
    OBVIOUS
  <1>2. OnlyMarked(ns, labelled, fused)
    BY NotMarked, FusedIsMarked
  <1> HIDE DEF labelled
  <1>3. AreNodes(labelled) /\ fused \in DOMAIN labelled
    BY <1>2 DEF OnlyMarked
  <1>4. OnlyMarked(labelled, dumped, fused)
    BY <1>3, FusedIsMarked
  <1> HIDE DEF dumped
  <1>5. AreNodes(dumped) /\ fused \in DOMAIN dumped
    BY <1>3, <1>4 DEF OnlyMarked
  <1>6. OnlyMarked(dumped, kept, fused)
    BY <1>5, FusedIsMarked
  <1> HIDE DEF kept
  <1>7. OnlyMarked(ns, kept, fused)
    BY <1>2, <1>4, <1>6, MarkedTwice
  <1> QED
    BY <1>1, <1>2, <1>7

LEMMA FusionOnGraph ==
  ASSUME FusedGraph, NEW m, NEW how \in {"unchanged", "fails", "replace", "retype"}, NEW first,
         RunOnePattern(m, how, first), NEW D, m[2] \in Seq(D \X DOMAIN nodes), m[2] # << >>
  PROVE  /\ FusedGraph' /\ DOMAIN nodes \subseteq DOMAIN nodes'
         /\ \/ touched' = touched /\ UNCHANGED <<nodes, order>>
            \/ touched' = touched \cup NodesOf(m[2]) /\ SpareOthers(NodesOf(m[2]))
  <1> DEFINE q == m[2]
             out == q[1][2]
             olds == NodesOf(q)
             fusedAs == Fusion(q, how)
             ns == fusedAs[1]
             fused == fusedAs[3]
  <1>2. NodesOK /\ OrderOK /\ Len(nodes) \in Nat /\ DOMAIN nodes = 1..Len(nodes) /\ Held \subseteq DOMAIN nodes
    BY HeldAreNodes DEF FusedGraph, NodesOK
  <1>3. olds \subseteq DOMAIN nodes /\ out \in olds /\ out \in DOMAIN nodes
    <2> DEFINE N == DOMAIN nodes
               P == D \X N
    <2>1. q \in Seq(P) /\ q # << >>
      OBVIOUS
    <2> HIDE DEF q, P
    <2>2. Len(q) \in Nat /\ Len(q) >= 1 /\ \A i \in 1..Len(q) : q[i] \in P
      BY <2>1
    <2> HIDE DEF N
    <2>3. \A i \in 1..Len(q) : q[i][2] \in N
      BY <2>2 DEF P
    <2> QED
      BY <2>2, <2>3 DEF NodesOf, N
  <1>4. /\ how \in {"replace", "retype"} => \A n \in olds : IsIn(n)
        /\ order' = fusedAs[2]
        /\ touched' = IF fused = 0 THEN touched ELSE touched \cup olds
        /\ index' = IF fused = 0 THEN index ELSE AddNodeFromOpTypeMap(index, fused, ns[fused].type)
        /\ nodes' = LET labelled == IF kind = "pattern" THEN SetStreamLabelToFusedNodes(ns, first, fused) ELSE ns
                    IN  IF fused = 0 \/ kind = "graph" THEN labelled
                        ELSE InheritAttrFromOriNode(SetDataDumpAttr(labelled, olds, fused), olds, fused)
    BY DEF RunOnePattern
  <1>5. CASE how \in {"unchanged", "fails"}
    <2>1. fusedAs = <<nodes, order, 0>>
      BY <1>5 DEF Fusion
    <2>2. ns = nodes /\ fused = 0 /\ fusedAs[2] = order
      BY <2>1
    <2> HIDE DEF fusedAs
    <2>3. SetStreamLabelToFusedNodes(ns, first, fused) = ns
      BY <2>2 DEF SetStreamLabelToFusedNodes
    <2>4. UNCHANGED <<nodes, order, index, touched>>
      BY <1>4, <2>2, <2>3
    <2> QED
      BY <2>4, GraphSame
  <1> DEFINE marked == OnlyMarked(ns, nodes', fused)
  <1>6. AreNodes(ns) /\ fused \in DOMAIN ns /\ fused # 0 => marked
    <2> SUFFICES ASSUME AreNodes(ns), fused \in DOMAIN ns, fused # 0 PROVE marked
      OBVIOUS
    <2> HIDE DEF fusedAs, olds
    <2> QED
      BY <1>4, FusedNodes
  <1>7. ASSUME how \in {"replace", "retype"} PROVE olds \subseteq Held
    BY <1>2, <1>3, <1>4, <1>7, InSequence DEF IsIn, Held, OrderOK
  <1>8. CASE how = "retype"
    <2>1. fusedAs = <<[nodes EXCEPT ![out].type = FusedType], order, out>>
      BY <1>8 DEF Fusion
    <2>2. ns = [nodes EXCEPT ![out] = [nodes[out] EXCEPT !.type = FusedType]] /\ fused = out /\ fusedAs[2] = order
      BY <2>1
    <2> HIDE DEF fusedAs
    <2>3. DOMAIN nodes[out] = NodeFields /\ out # 0
      <3> HIDE DEF out
      <3> QED
        BY <1>2, <1>3 DEF NodesOK
    <2>4. /\ ns = [k \in DOMAIN ns |-> ns[k]] /\ DOMAIN ns = DOMAIN nodes /\ \A k \in DOMAIN nodes : k # out => ns[k] = nodes[k]
          /\ DOMAIN ns[out] = NodeFields /\ ns[out].ins = nodes[out].ins
      BY <1>3, <2>2, <2>3 DEF NodeFields
    <2>5. AreNodes(ns) /\ \A k \in DOMAIN nodes : ns[k].ins = nodes[k].ins /\ (k # out => ns[k].type = nodes[k].type)
      BY <1>2, <2>4 DEF AreNodes, NodesOK
    <2>6. marked /\ order' = order /\ index' = AddNodeFromOpTypeMap(index, out, ns[out].type) /\ touched' = touched \cup olds
      BY <1>3, <1>4, <1>6, <2>2, <2>3, <2>4, <2>5
    <2>7. FusedGraph'
      <3> HIDE DEF ns, out
      <3> QED
        BY <1>3, <2>2, <2>4, <2>5, <2>6, GraphMarked
    <2>8. DOMAIN nodes' = DOMAIN nodes /\ \A k \in DOMAIN nodes : k # out => nodes'[k] = nodes[k]
      BY <2>2, <2>4, <2>6 DEF OnlyMarked
    <2>9. SpareOthers(olds)
      <3>1. \A n \in Held : Contains(order', n)
        BY <1>2, <2>6, InSequence DEF Held, OrderOK
      <3> QED
        BY <1>2, <1>3, <2>8, <3>1 DEF SpareOthers
    <2> QED
      BY <2>6, <2>7, <2>8, <2>9
  <1>9. CASE how = "replace"
    <2>1. fusedAs = Replaced(q, out)
      BY <1>9 DEF Fusion
    <2>2. fused = Len(nodes) + 1 /\ Replaces(ns, fusedAs[2], q, out, fused)
      BY <1>3, <1>7, <1>9, <2>1, ReplacedReplaces
    <2> HIDE DEF fusedAs
    <2>3. AreNodes(ns) /\ fused \in DOMAIN ns /\ fused # 0 /\ ns[fused].type = FusedType /\ DOMAIN ns = 1..fused
      BY <1>2, <2>2 DEF Replaces
    <2>4. marked /\ Replaces(ns, order', q, out, fused) /\ index' = AddNodeFromOpTypeMap(index, fused, FusedType) /\ touched' = touched \cup olds
      BY <1>4, <1>6, <2>2, <2>3
    <2> HIDE DEF ns, fused
    <2>5. FusedGraph'
      <3> HIDE DEF q, out
      <3> QED
        BY <1>3, <1>7, <1>9, <2>2, <2>4, GraphReplaced DEF olds
    <2>6. DOMAIN nodes' = 1..fused /\ \A k \in DOMAIN nodes : nodes'[k] = ns[k]
      <3>1. DOMAIN nodes \subseteq DOMAIN ns /\ fused \notin DOMAIN nodes
        BY <1>2, <2>2, <2>3
      <3> QED
        BY <2>3, <2>4, <3>1 DEF OnlyMarked
    <2>7. DOMAIN nodes \subseteq DOMAIN nodes'
      BY <1>2, <2>2, <2>6
    <2>8. Taken(q, out) \subseteq olds
      BY TakenIsClosed
    <2>9. ASSUME NEW n \in Held \ olds
          PROVE  /\ Contains(order', n) /\ nodes'[n].type = nodes[n].type /\ nodes'[n].label = nodes[n].label
                 /\ Len(nodes'[n].ins) = Len(nodes[n].ins)
                 /\ \A i \in 1..Len(nodes[n].ins) : nodes[n].ins[i] \notin olds => nodes'[n].ins[i] = nodes[n].ins[i]
      <3>1. n \in DOMAIN nodes /\ n \notin Taken(q, out) /\ nodes'[n] = ns[n]
        BY <1>2, <2>6, <2>8
      <3>2. n \in ToSet(order') /\ order' \in Seq(1..fused)
        BY <2>4, <3>1 DEF Replaces
      <3>3. Contains(order', n)
        BY <3>2, InSequence
      <3> HIDE DEF q, out, olds
      <3>4. /\ ns[n].type = nodes[n].type /\ ns[n].label = nodes[n].label /\ Len(ns[n].ins) = Len(nodes[n].ins)
            /\ \A i \in 1..Len(nodes[n].ins) : ns[n].ins[i] = IF nodes[n].ins[i] = out THEN fused ELSE nodes[n].ins[i]
        BY <2>2, <3>1 DEF Replaces
      <3> QED
        BY <1>3, <3>1, <3>3, <3>4
    <2>10. SpareOthers(olds)
      BY <2>9 DEF SpareOthers
    <2> QED
      BY <2>4, <2>5, <2>7, <2>10
  <1> QED
    BY <1>5, <1>8, <1>9

(* The steps of the passes.                                                   *)

LEMMA PatternStarts == PatternInit => PatternInv
  <1> SUFFICES ASSUME PatternInit PROVE PatternInv
    OBVIOUS
  <1>1. PICK g \in Graphs : nodes = [n \in 1..Len(g) |->
            [type |-> g[n].type, ins |-> g[n].ins, label |-> g[n].label,
             origins |-> Absent, dump |-> Absent, keep |-> g[n].type = "keep"]]
    BY DEF PatternInit
  <1> DEFINE N == Len(g)
  <1>2. N \in Nat /\ \A n \in 1..N : g[n].ins \in Seq(0..N)
    <2>1. g \in Seq(ToSet(g)) /\ \A n \in DOMAIN g : g[n].ins \in Seq(0..Len(g))
      BY PatternAssumption
    <2> QED
      BY <2>1
  <1>3. nodes = [n \in 1..N |-> nodes[n]] /\ \A n \in 1..N : DOMAIN nodes[n] = NodeFields /\ nodes[n].ins = g[n].ins
    BY <1>1 DEF NodeFields
  <1> HIDE DEF N
  <1>4. Len(nodes) = N /\ DOMAIN nodes = 1..N
    BY <1>2, <1>3, LengthOf
  <1>5. NodesOK
    BY <1>2, <1>3, <1>4 DEF NodesOK
  <1>6. order = [n \in 1..N |-> n] /\ order \in Seq(1..N) /\ Len(order) = N
    <2> DEFINE S == 1..N
    <2>1. order = [n \in 1..N |-> n]
      BY <1>4 DEF PatternInit
    <2>2. order = [n \in 1..N |-> order[n]] /\ \A n \in 1..N : order[n] \in S
      BY <2>1
    <2> HIDE DEF S
    <2>3. order \in Seq(S) /\ Len(order) = N
      BY <1>2, <2>2, SeqOfLength
    <2> QED
      BY <2>1, <2>3 DEF S
  <1>7. Held = DOMAIN nodes
    BY <1>4, <1>6 DEF Held, ToSet
  <1>8. IndexOK
    <2>1. CASE index = Absent
      BY <2>1 DEF IndexOK
    <2>2. CASE index = [type \in {nodes[n].type : n \in 1..Len(nodes)} |-> {n \in 1..Len(nodes) : nodes[n].type = type}]
      BY <1>4, <1>7, <2>2 DEF IndexOK
    <2> QED
      BY <2>1, <2>2 DEF PatternInit
  <1>9. FusedGraph
    BY <1>4, <1>5, <1>6, <1>7, <1>8 DEF FusedGraph, OrderOK, Alone
  <1>10. PatternsOK /\ WaitingOK
    <2>1. patterns = << >> /\ stage = "idle" /\ defs \in PatternDefs
      BY DEF PatternInit
    <2>2. DOMAIN patterns = 1..Len(patterns) /\ DOMAIN patterns = {}
      BY <2>1
    <2> QED
      BY <2>1, <2>2 DEF PatternsOK, WaitingOK
  <1> QED
    BY <1>9, <1>10 DEF PatternInv

LEMMA PatternsBuilt ==
  ASSUME PatternInv, PatternRun
  PROVE  PatternInv'
  <1>1. /\ stage' \in {"idle", "match"} /\ current' = 1 /\ UNCHANGED <<nodes, order, index, defs>>
        /\ patterns' = IF patterns = << >> THEN [i \in 1..Len(defs) |-> DefinePatterns(defs[i])] ELSE patterns
    BY DEF PatternRun, fusionVars
  <1>2. FusedGraph'
    BY <1>1, GraphSame DEF PatternInv
  <1>3. defs \in PatternDefs /\ DOMAIN patterns = 1..Len(patterns) /\ \A i \in DOMAIN patterns : GoodPattern(patterns[i])
    BY DEF PatternInv, PatternsOK
  <1>4. DOMAIN patterns' = 1..Len(patterns') /\ \A i \in DOMAIN patterns' : GoodPattern(patterns'[i])
    <2>1. CASE patterns # << >>
      BY <1>1, <1>3, <2>1
    <2>2. CASE patterns = << >>
      <3> DEFINE n == Len(defs)
      <3>1. /\ defs \in Seq(ToSet(defs)) /\ \A i \in DOMAIN defs : defs[i] \in Seq(ToSet(defs[i]))
            /\ \A i \in DOMAIN defs : \A k \in DOMAIN defs[i] : GoodCall(defs[i][k])
        BY <1>3, PatternAssumption DEF GoodCall
      <3>2. n \in Nat /\ DOMAIN defs = 1..n
        BY <3>1
      <3>3. \A i \in 1..n : GoodPattern(DefinePatterns(defs[i]))
        BY <3>1, <3>2, PatternIsGood
      <3>4. patterns' = [i \in 1..n |-> DefinePatterns(defs[i])]
        BY <1>1, <2>2
      <3> HIDE DEF n
      <3>5. DOMAIN patterns' = 1..n /\ \A i \in 1..n : GoodPattern(patterns'[i])
        BY <3>3, <3>4
      <3>6. patterns' = [i \in 1..n |-> patterns'[i]]
        BY <3>4
      <3>7. Len(patterns') = n
        BY <3>2, <3>6, LengthOf
      <3> QED
        BY <3>5, <3>7
    <2> QED
      BY <2>1, <2>2
  <1>5. PatternsOK'
    <2>1. defs' \in PatternDefs /\ current' \in Nat \ {0}
      BY <1>1, <1>3
    <2> QED
      BY <1>4, <2>1 DEF PatternsOK
  <1>6. WaitingOK'
    BY <1>1 DEF WaitingOK
  <1> QED
    BY <1>2, <1>5, <1>6 DEF PatternInv

(* Whether found through the index or through the graph, an output node is in *)
(* the graph and fits: a node without links is not looked at, and a removed   *)
(* one has none.                                                              *)
LEMMA OutputsAreHeld ==
  ASSUME FusedGraph, NEW p, NEW n \in GetMatchOutputNodes(p)
  PROVE  n \in Held /\ n \in DOMAIN nodes /\ Fits(p, p.output, n)
  <1>1. OrderOK /\ NodesOK /\ Alone /\ IndexOK /\ Held \subseteq DOMAIN nodes
    BY HeldAreNodes DEF FusedGraph
  <1>2. CASE GetOpTypeMapToGraph
    <2>1. PICK type \in p.descs[p.output] : n \in NodesOfType(type)
      BY <1>2 DEF GetMatchOutputNodes
    <2>2. /\ type \in DOMAIN index /\ n \in index[type] /\ nodes[n].type = type
          /\ Linked(n) # {} \/ Consumers(n) # {}
      BY <2>1 DEF NodesOfType
    <2>3. n \in DOMAIN nodes
      BY <1>1, <1>2, <2>2 DEF IndexOK, GetOpTypeMapToGraph
    <2>4. n \in Held
      BY <1>1, <2>2, <2>3 DEF Alone
    <2> QED
      BY <2>1, <2>2, <2>3, <2>4 DEF Fits, IsOpTypeExist
  <1>3. CASE ~GetOpTypeMapToGraph
    BY <1>1, <1>3 DEF GetMatchOutputNodes, Held, Fits, IsOpTypeExist
  <1> QED
    BY <1>2, <1>3

LEMMA MatchesWait ==
  ASSUME PatternInv, NEW labelsAgree \in BOOLEAN, MatchAll(labelsAgree)
  PROVE  PatternInv'
  <1> DEFINE p == patterns[current]
             outs == IF p.output = Absent THEN {} ELSE GetMatchOutputNodes(p)
             rank(n) == IF GetOpTypeMapToGraph THEN 0 ELSE SelectInSeq(order, LAMBDA k : k = n)
             found == {m \in {<<rank(n), MatchFromOutput(p, n)>> : n \in outs} : m[2] # << >>}
  <1>1. /\ stage = "match" /\ current <= Len(patterns) /\ touched' = {}
        /\ UNCHANGED <<nodes, order, index, kind, defs, patterns>>
        /\ kind = "pattern" /\ labelsAgree => \A m \in found : CheckStreamLabel(m[2], TRUE)
        /\ \/ waiting' = found /\ stage' = "fuse" /\ current' = current /\ (labelsAgree \/ kind = "graph")
           \/ stage' = "match" /\ current' = current + 1
    BY DEF MatchAll
  <1>2. FusedGraph /\ PatternsOK /\ FusedGraph'
    BY <1>1, GraphSame DEF PatternInv
  <1>3. NodesOK /\ OrderOK /\ Alone
    BY <1>2 DEF FusedGraph
  <1>4. current \in Nat \ {0} /\ GoodPattern(p)
    <2>1. current \in Nat \ {0} /\ DOMAIN patterns = 1..Len(patterns) /\ \A i \in DOMAIN patterns : GoodPattern(patterns[i])
      BY <1>1, <1>2 DEF PatternsOK
    <2>2. current \in DOMAIN patterns
      BY <1>1, <2>1
    <2> QED
      BY <2>1, <2>2
  <1>5. PatternsOK'
    <2>1. current' = current \/ current' = current + 1
      BY <1>1
    <2>2. current' \in Nat \ {0}
      BY <1>4, <2>1
    <2> QED
      BY <1>1, <1>2, <2>2 DEF PatternsOK
  <1>6. ASSUME NEW m \in found, labelsAgree \/ kind = "graph"
        PROVE  /\ m[2] \in Seq((DOMAIN p.descs) \X DOMAIN nodes) /\ m[2] # << >>
               /\ PlaceIn(p, m[2], nodes, order, kind)
    <2> DEFINE q == m[2]
    <2>1. PICK n \in outs : m = <<rank(n), MatchFromOutput(p, n)>>
      OBVIOUS
    <2>2. q = MatchFromOutput(p, n) /\ q # << >>
      BY <2>1
    <2>3. p.output # Absent /\ n \in GetMatchOutputNodes(p)
      BY <2>1
    <2>4. kind = "pattern" => CheckStreamLabel(q, TRUE)
      BY <1>1, <1>6
    <2> HIDE DEF p, found, q
    <2>5. p.output \in DOMAIN p.descs
      BY <1>4, <2>3 DEF GoodPattern
    <2>6. n \in Held /\ n \in DOMAIN nodes /\ Fits(p, p.output, n)
      BY <1>2, <2>3, OutputsAreHeld
    <2>7. MatchOK(p, n, q)
      BY <1>3, <1>4, <2>2, <2>5, <2>6, MatchFromOutputFinds
    <2>8. kind = "pattern" => Cardinality(LabelsOf(q) \ {NoWord}) <= 1
      BY <2>4 DEF CheckStreamLabel
    <2>9. IsIn(n)
      BY <1>3, <2>6, InSequence DEF Held, IsIn, OrderOK
    <2>10. PlaceIn(p, q, nodes, order, kind)
      <3>1. IsPlace(p, q)
        BY <1>3, <2>7, <2>8, <2>9, MatchIsPlace
      <3> QED
        BY <3>1, PlaceByState
    <2>11. q \in Seq((DOMAIN p.descs) \X DOMAIN nodes)
      <3> DEFINE D == DOMAIN p.descs
                 P == D \X Numbers
                 R == D \X DOMAIN nodes
      <3>1. q \in Seq(P) /\ \A k \in 1..Len(q) : q[k][2] # 0
        BY <2>7 DEF MatchOK
      <3>2. \A x \in P : x[2] # 0 => x \in R
        BY <1>3 DEF NodesOK, Numbers
      <3> HIDE DEF P, R
      <3>3. \A k \in 1..Len(q) : q[k] \in P
        BY <3>1
      <3>4. \A k \in 1..Len(q) : q[k] \in R
        BY <3>1, <3>2, <3>3
      <3>5. q \in Seq(R)
        BY <3>1, <3>4
      <3> QED
        BY <3>5 DEF R
    <2> QED
      BY <2>2, <2>10, <2>11 DEF q
  <1>7. WaitingOK'
    <2>1. CASE stage' = "match"
      BY <2>1 DEF WaitingOK
    <2>2. CASE waiting' = found /\ stage' = "fuse" /\ current' = current /\ (labelsAgree \/ kind = "graph")
      <3> HIDE DEF found
      <3>1. ASSUME NEW m \in waiting'
            PROVE  /\ m[2] \in Seq((DOMAIN patterns'[current'].descs) \X DOMAIN nodes') /\ m[2] # << >>
                   /\ PlaceIn(patterns'[current'], m[2], nodes', order', kind')
        BY <1>1, <1>6, <2>2
      <3>2. current' <= Len(patterns')
        BY <1>1, <2>2
      <3> QED
        BY <3>1, <3>2 DEF WaitingOK
    <2> QED
      BY <1>1, <2>1, <2>2
  <1> QED
    BY <1>2, <1>5, <1>7 DEF PatternInv

LEMMA FusionKeepsPlaces ==
  ASSUME PatternInv, NEW m \in waiting, NEW how \in {"unchanged", "fails", "replace", "retype"}, NEW first,
         RunOnePattern(m, how, first)
  PROVE  PatternInv'
  <1> DEFINE p == patterns[current]
             D == DOMAIN p.descs
             olds == NodesOf(m[2])
  <1>1. /\ stage = "fuse" /\ UNCHANGED <<kind, defs, patterns, current>>
        /\ \/ stage' = "idle"
           \/ stage' = "fuse" /\ waiting' = waiting \ {m}
    BY DEF RunOnePattern
  <1>2. /\ FusedGraph /\ PatternsOK /\ current <= Len(patterns)
        /\ \A w \in waiting : /\ w[2] \in Seq(D \X DOMAIN nodes) /\ w[2] # << >>
                              /\ NodesOf(w[2]) \cap touched = {} => PlaceIn(p, w[2], nodes, order, kind)
    BY <1>1 DEF PatternInv, WaitingOK
  <1> HIDE DEF p, D
  <1>3. /\ FusedGraph' /\ DOMAIN nodes \subseteq DOMAIN nodes'
        /\ \/ touched' = touched /\ UNCHANGED <<nodes, order>>
           \/ touched' = touched \cup olds /\ SpareOthers(olds)
    BY <1>2, FusionOnGraph
  <1>4. PatternsOK'
    BY <1>1, <1>2 DEF PatternsOK
  <1>5. ASSUME NEW w \in waiting
        PROVE  /\ w[2] \in Seq(D \X DOMAIN nodes')
               /\ NodesOf(w[2]) \cap touched' = {} => PlaceIn(p, w[2], nodes', order', kind)
    <2> DEFINE q == w[2]
               P == D \X DOMAIN nodes
               R == D \X DOMAIN nodes'
    <2>1. q \in Seq(P) /\ (NodesOf(q) \cap touched = {} => PlaceIn(p, q, nodes, order, kind))
      BY <1>2
    <2>2. P \subseteq R
      BY <1>3
    <2> HIDE DEF q, P, R
    <2>3. q \in Seq(R)
      BY <2>1, <2>2
    <2>4. ASSUME NodesOf(q) \cap touched' = {}
          PROVE  PlaceIn(p, q, nodes', order', kind)
      <3>1. PlaceIn(p, q, nodes, order, kind)
        BY <1>3, <2>1, <2>4
      <3>2. CASE UNCHANGED <<nodes, order>>
        BY <3>1, <3>2
      <3>3. CASE touched' = touched \cup olds /\ SpareOthers(olds)
        <4>1. NodesOf(q) \cap olds = {}
          BY <2>4, <3>3
        <4>2. ASSUME NEW n \in NodesOf(q) PROVE n \in Held
          <5>1. PICK k \in 1..Len(q) : n = q[k][2]
            BY DEF NodesOf
          <5>2. q[k] \in ToSet(q)
            BY <2>1 DEF ToSet
          <5>3. Contains(order, n)
            BY <3>1, <5>1, <5>2 DEF PlaceIn
          <5> QED
            BY <1>2, <5>3, InSequence DEF Held, FusedGraph, OrderOK
        <4>3. \A n \in NodesOf(q) :
                 /\ Contains(order', n) /\ nodes'[n].type = nodes[n].type /\ nodes'[n].label = nodes[n].label
                 /\ Len(nodes'[n].ins) = Len(nodes[n].ins)
                 /\ \A i \in 1..Len(nodes[n].ins) :
                        nodes[n].ins[i] \in NodesOf(q) => nodes'[n].ins[i] = nodes[n].ins[i]
          <5> HIDE DEF olds
          <5> QED
            BY <3>3, <4>1, <4>2 DEF SpareOthers
        <4> QED
          BY <3>1, <4>3, PlaceStays
      <3> QED
        BY <1>3, <3>2, <3>3
    <2> QED
      BY <2>3, <2>4 DEF q, R
  <1>6. WaitingOK'
    <2>1. CASE stage' = "idle"
      BY <2>1 DEF WaitingOK
    <2>2. CASE stage' = "fuse" /\ waiting' = waiting \ {m}
      <3>1. patterns'[current'] = p /\ current' <= Len(patterns') /\ kind' = kind
        BY <1>1, <1>2 DEF p
      <3>2. \A w \in waiting' : w \in waiting /\ w[2] # << >>
        BY <1>2, <2>2
      <3> QED
        BY <1>5, <3>1, <3>2 DEF WaitingOK, D
    <2> QED
      BY <1>1, <2>1, <2>2
  <1> QED
    BY <1>3, <1>4, <1>6 DEF PatternInv

LEMMA PatternKeeps == PatternInv /\ [PatternNext]_patternVars => PatternInv'
  <1> SUFFICES ASSUME PatternInv, [PatternNext]_patternVars PROVE PatternInv'
    OBVIOUS
  <1>1. CASE PatternRun
    BY <1>1, PatternsBuilt
  <1>2. ASSUME UNCHANGED <<nodes, order, index, defs, patterns>>, stage' # "fuse", stage' # "idle" => current' \in Nat \ {0}
        PROVE  PatternInv'
    <2>1. FusedGraph'
      BY <1>2, GraphSame DEF PatternInv
    <2>2. PatternsOK'
      BY <1>2 DEF PatternInv, PatternsOK
    <2>3. WaitingOK'
      BY <1>2 DEF WaitingOK
    <2> QED
      BY <2>1, <2>2, <2>3 DEF PatternInv
  <1>3. CASE EndRun
    <2>1. UNCHANGED <<nodes, order, index, defs, patterns>> /\ stage' = "idle"
      BY <1>3 DEF EndRun, fusionVars
    <2> QED
      BY <1>2, <2>1
  <1>4. CASE NextPattern
    <2>1. current \in Nat \ {0}
      BY <1>4 DEF NextPattern, PatternInv, PatternsOK
    <2> QED
      BY <1>2, <1>4, <2>1 DEF NextPattern, fusionVars
  <1>5. CASE \E labelsAgree \in BOOLEAN : MatchAll(labelsAgree)
    BY <1>5, MatchesWait
  <1>6. CASE \E m \in waiting : \E first \in NodesOf(m[2]), how \in {"unchanged", "fails", "replace", "retype"} :
                 RunOnePattern(m, how, first)
    BY <1>6, FusionKeepsPlaces
  <1>7. CASE \E n \in ToSet(order), told \in BOOLEAN : RemoveNodeFromNodeTypeMap(n, told)
    <2>1. PICK n \in ToSet(order), told \in BOOLEAN : RemoveNodeFromNodeTypeMap(n, told)
      BY <1>7
    <2>2. FusedGraph'
      BY <2>1, GraphRemoved DEF PatternInv
    <2>3. stage = "idle" /\ UNCHANGED <<stage, defs, patterns, current>>
      BY <2>1 DEF RemoveNodeFromNodeTypeMap, passVars
    <2>4. PatternsOK' /\ WaitingOK'
      BY <2>3 DEF PatternInv, PatternsOK, WaitingOK
    <2> QED
      BY <2>2, <2>4 DEF PatternInv
  <1>8. CASE UNCHANGED patternVars
    <2>1. UNCHANGED <<nodes, order, index, touched, kind, defs, patterns, stage, current, waiting>>
      BY <1>8 DEF patternVars, fusionVars, passVars
    <2>2. FusedGraph'
      BY <2>1, GraphSame DEF PatternInv
    <2>3. PatternsOK' /\ WaitingOK'
      BY <2>1 DEF PatternInv, PatternsOK, WaitingOK
    <2> QED
      BY <2>2, <2>3 DEF PatternInv
  <1> QED
    BY <1>1, <1>3, <1>4, <1>5, <1>6, <1>7, <1>8 DEF PatternNext

(* The graph under the passes of fusion by patterns: the nodes outside the    *)
(* order have no links, the index knows every node of the graph by its type,  *)
(* and a place that waits for Fusion is a real one as long as no fusion of    *)
(* this round touched it (PatternFusionBasePass, GraphFusionPassBase).        *)
THEOREM PatternInvAlways == PatternSpec => []PatternInv
  <1> QED
    BY PatternStarts, PatternKeeps, PTL DEF PatternSpec

LEMMA MatchesFollow == PatternInv => MatchesAreOfTheGraph
  <1> SUFFICES ASSUME PatternInv PROVE MatchesAreOfTheGraph
    OBVIOUS
  <1>1. PlacesAreReal
    <2> SUFFICES ASSUME stage = "fuse", NEW m \in waiting, NodesOf(m[2]) \cap touched = {}
                 PROVE  IsPlace(patterns[current], m[2])
      BY DEF PlacesAreReal
    <2>1. PlaceIn(patterns[current], m[2], nodes, order, kind)
      BY DEF PatternInv, WaitingOK
    <2> QED
      BY <2>1, PlaceByState
  <1>2. IndexFindsTheGraph
    <2> SUFFICES ASSUME GetOpTypeMapToGraph, NEW p
                 PROVE  GetMatchOutputNodes(p) = {n \in ToSet(order) : nodes[n].type \in p.descs[p.output]
                                                          /\ (Linked(n) # {} \/ Consumers(n) # {})}
      BY DEF IndexFindsTheGraph
    <2>1. FusedGraph /\ IndexOK
      BY DEF PatternInv, FusedGraph
    <2>2. ASSUME NEW n \in GetMatchOutputNodes(p)
          PROVE  n \in ToSet(order) /\ nodes[n].type \in p.descs[p.output] /\ (Linked(n) # {} \/ Consumers(n) # {})
      <3>1. n \in Held
        BY <2>1, OutputsAreHeld
      <3> QED
        BY <3>1 DEF Held, GetMatchOutputNodes, NodesOfType
    <2>3. ASSUME NEW n \in ToSet(order), nodes[n].type \in p.descs[p.output], Linked(n) # {} \/ Consumers(n) # {}
          PROVE  n \in GetMatchOutputNodes(p)
      <3>1. nodes[n].type \in DOMAIN index /\ n \in index[nodes[n].type]
        BY <2>1 DEF IndexOK, Held, GetOpTypeMapToGraph
      <3> QED
        BY <2>3, <3>1 DEF GetMatchOutputNodes, NodesOfType
    <2> QED
      BY <2>2, <2>3
  <1> QED
    BY <1>1, <1>2 DEF MatchesAreOfTheGraph

(* Fusion works on nodes as they are: a place handed to it that no earlier    *)
(* fusion of the round touched still matches its pattern, and a look through  *)
(* the index finds the linked nodes of a type that are in the graph, whatever *)
(* was fused, retyped or removed since the index was made.                    *)
THEOREM MatchesAreOfTheGraphAlways == PatternSpec => []MatchesAreOfTheGraph
  <1> QED
    BY PatternInvAlways, MatchesFollow, PTL

-----------------------------------------------------------------------------
(* How often a name is in a list of links.                                    *)

LEMMA OccursType ==
  ASSUME NEW S, NEW s \in Seq(S), NEW x
  PROVE  /\ Occurs(s, x) \in Nat /\ IsFiniteSet({i \in 1..Len(s) : s[i] = x})
         /\ x \notin S => Occurs(s, x) = 0
  <1> DEFINE A == {i \in 1..Len(s) : s[i] = x}
  <1>1. IsFiniteSet(1..Len(s))
    BY FS_Interval
  <1>2. IsFiniteSet(A)
    BY <1>1, FS_Subset
  <1>3. x \notin S => A = {}
    OBVIOUS
  <1> HIDE DEF A
  <1>4. Cardinality(A) \in Nat /\ (A = {} => Cardinality(A) = 0)
    BY <1>2, FS_CardinalityType, FS_EmptySet
  <1>5. Occurs(s, x) = Cardinality(A)
    BY DEF Occurs, A
  <1> QED
    BY <1>2, <1>3, <1>4, <1>5 DEF A

LEMMA OccursAppended ==
  ASSUME NEW S, NEW s \in Seq(S), NEW t \in Seq(S), NEW x
  PROVE  Occurs(s \o t, x) = Occurs(s, x) + Occurs(t, x)
  <1> DEFINE n == Len(s)
             m == Len(t)
             A == {i \in 1..n : s[i] = x}
             B == {i \in 1..m : t[i] = x}
             C == {i \in n+1..n+m : t[i-n] = x}
             f == [i \in B |-> n + i]
  <1>1. n \in Nat /\ m \in Nat /\ Len(s \o t) = n + m
    OBVIOUS
  <1>2. \A i \in 1..n+m : (s \o t)[i] = IF i <= n THEN s[i] ELSE t[i-n]
    OBVIOUS
  <1>3. {i \in 1..Len(s \o t) : (s \o t)[i] = x} = A \cup C /\ A \cap C = {}
    <2> DEFINE u == s \o t
    <2> HIDE DEF n, m, u
    <2>1. Len(u) = n + m /\ \A i \in 1..n+m : u[i] = IF i <= n THEN s[i] ELSE t[i-n]
      BY <1>1, <1>2 DEF u
    <2>2. {i \in 1..Len(u) : u[i] = x} = A \cup C /\ A \cap C = {}
      BY <1>1, <2>1
    <2> QED
      BY <2>2 DEF u
  <1>4. IsFiniteSet(A) /\ IsFiniteSet(B) /\ Occurs(s, x) = Cardinality(A) /\ Occurs(t, x) = Cardinality(B)
    BY OccursType DEF Occurs
  <1>5. f \in Bijection(B, C)
    <2> HIDE DEF n, m
    <2>1. \A i \in B : n + i \in C
      BY <1>1
    <2>2. f \in [B -> C]
      BY <2>1
    <2>3. \A i, j \in B : f[i] = f[j] => i = j
      BY <1>1
    <2>4. \A c \in C : \E i \in B : f[i] = c
      <3> TAKE c \in C
      <3>1. c - n \in B /\ n + (c - n) = c
        BY <1>1
      <3> QED
        BY <3>1
    <2> HIDE DEF B, C, f
    <2> QED
      BY <2>2, <2>3, <2>4 DEF Bijection, Injection, Surjection, IsInjective
  <1> HIDE DEF A, B, C, f
  <1>6. IsFiniteSet(C) /\ Cardinality(C) = Cardinality(B)
    BY <1>4, <1>5, FS_Bijection DEF ExistsBijection
  <1>7. Cardinality(A \cup C) = Cardinality(A) + Cardinality(C)
    <2>1. Cardinality(A) \in Nat /\ Cardinality(C) \in Nat
      BY <1>4, <1>6, FS_CardinalityType
    <2>2. Cardinality(A \cup C) = Cardinality(A) + Cardinality(C) - Cardinality(A \cap C)
      BY <1>4, <1>6, FS_Union
    <2>3. Cardinality(A \cap C) = 0
      BY <1>3, FS_EmptySet
    <2> QED
      BY <2>1, <2>2, <2>3
  <1>8. Occurs(s \o t, x) = Cardinality(A \cup C)
    BY <1>3 DEF Occurs
  <1> QED
    BY <1>4, <1>6, <1>7, <1>8

Copies(s, n, y) == s = [i \in 1..n |-> y]

LEMMA OccursOfCopies ==
  ASSUME NEW Y, NEW n \in Nat, NEW y \in Y, NEW s, Copies(s, n, y)
  PROVE  s \in Seq(Y) /\ \A x : Occurs(s, x) = IF x = y THEN n ELSE 0
  <1>1. s = [i \in 1..n |-> s[i]] /\ \A i \in 1..n : s[i] = y
    BY DEF Copies
  <1>2. s \in Seq(Y) /\ Len(s) = n
    BY <1>1, SeqOfLength
  <1>3. ASSUME NEW x PROVE Occurs(s, x) = IF x = y THEN n ELSE 0
    <2>1. {i \in 1..Len(s) : s[i] = x} = IF x = y THEN 1..n ELSE {}
      BY <1>1, <1>2
    <2>2. Cardinality(1..n) = n /\ Cardinality({}) = 0
      BY FS_Interval, FS_EmptySet
    <2> QED
      BY <2>1, <2>2 DEF Occurs
  <1> QED
    BY <1>2, <1>3

(* A list up to its first element outside a set.                              *)
LEMMA CutBefore ==
  ASSUME NEW S, NEW s \in Seq(S), NEW D, NEW cut,
         cut = IF {i \in 1..Len(s) : s[i] \notin D} # {} THEN Min({i \in 1..Len(s) : s[i] \notin D}) ELSE 0
  PROVE  (IF cut = 0 THEN s ELSE SubSeq(s, 1, cut - 1)) \in Seq(D)
  <1> DEFINE I == {i \in 1..Len(s) : s[i] \notin D}
             t == IF cut = 0 THEN s ELSE SubSeq(s, 1, cut - 1)
  <1>3. Len(s) \in Nat /\ s = [i \in 1..Len(s) |-> s[i]]
    OBVIOUS
  <1>4. CASE I = {}
    <2>1. \A i \in 1..Len(s) : s[i] \in D
      BY <1>4
    <2>2. s \in Seq(D)
      BY <1>3, <2>1, SeqOfLength
    <2> QED
      BY <1>4, <2>2
  <1>5. CASE I # {}
    <2>1. I \subseteq Nat
      OBVIOUS
    <2>2. PICK j \in I : \A i \in I : j <= i
      <3> HIDE DEF I
      <3> QED
        BY <1>5, <2>1, LeastNumber
    <2>3. cut = j
      BY <1>5, <2>1, <2>2 DEF Min
    <2>4. j \in 1..Len(s) /\ \A i \in I : j <= i
      BY <2>2
    <2> DEFINE l == Len(s)
               k == j - 1
               r == SubSeq(s, 1, k)
    <2> HIDE DEF l
    <2>0. l \in Nat /\ j \in 1..l
      BY <1>3, <2>4 DEF l
    <2>5. k \in Nat /\ k <= l /\ j # 0 /\ \A i \in 1..k : i \in 1..l /\ i < j
      BY <2>0
    <2>6. \A i \in 1..k : s[i] \in D
      <3>1. \A i \in 1..k : i \notin I
        BY <2>0, <2>4, <2>5
      <3> QED
        BY <2>5, <3>1 DEF l
    <2>9. t = r
      BY <2>3, <2>5
    <2> HIDE DEF k, t
    <2>7. r = [i \in 1..k |-> r[i]] /\ \A i \in 1..k : r[i] = s[i]
      BY <1>3, <2>5 DEF l
    <2> HIDE DEF r
    <2>8. r \in Seq(D)
      <3>1. \A i \in 1..k : r[i] \in D
        BY <2>6, <2>7
      <3> QED
        BY <2>5, <2>7, <3>1, SeqOfLength
    <2> QED
      BY <2>8, <2>9 DEF t
  <1> QED
    BY <1>4, <1>5

(* The names that are linked.                                                 *)
LEMMA KnownOnly ==
  ASSUME NEW S, NEW ids \in Seq(S)
  PROVE  KnownUntil(ids) \in Seq(DOMAIN opMap)
  <1> DEFINE D == DOMAIN opMap
             unknown == SelectInSeq(ids, LAMBDA i : i \notin D)
  <1>1. unknown = IF {i \in 1..Len(ids) : ids[i] \notin D} # {} THEN Min({i \in 1..Len(ids) : ids[i] \notin D}) ELSE 0
    BY DEF SelectInSeq
  <1>2. KnownUntil(ids) = IF unknown = 0 THEN ids ELSE SubSeq(ids, 1, unknown - 1)
    BY DEF KnownUntil
  <1> HIDE DEF unknown, D
  <1>3. (IF unknown = 0 THEN ids ELSE SubSeq(ids, 1, unknown - 1)) \in Seq(D)
    BY <1>1, CutBefore
  <1> QED
    BY <1>2, <1>3 DEF D

LEMMA OthersOnly ==
  ASSUME NEW S, NEW s \in Seq(S), NEW name
  PROVE  LET others[k \in 0..Len(s)] ==
                 IF k = 0 THEN << >> ELSE IF s[k] = name THEN others[k-1] ELSE Append(others[k-1], s[k])
         IN  others[Len(s)] \in Seq(S) /\ ToSet(others[Len(s)]) = ToSet(s) \ {name}
  <1> DEFINE n == Len(s)
             R == {name}
             step(g) == [k \in 0..n |-> IF k = 0 THEN << >> ELSE IF s[k] = name THEN g[k-1] ELSE Append(g[k-1], s[k])]
             c == CHOOSE g : g = step(g)
  <1> SUFFICES c[n] \in Seq(S) /\ ToSet(c[n]) = ToSet(s) \ R
    OBVIOUS
  <1>1. n \in Nat /\ \A k \in 1..n : s[k] \in S
    OBVIOUS
  <1>2. ToSet(s) = {s[k] : k \in 1..n}
    BY DEF ToSet
  <1> HIDE DEF n
  <1>3. c = step(c)
    <2>1. PICK f : Drops(f, s, R, n)
      BY <1>1, DropExists
    <2>2. IsOn(f, n)
      BY <2>1 DEF Drops
    <2>3. \A k \in 0..n : f[k] = IF k = 0 THEN << >> ELSE IF s[k] = name THEN f[k-1] ELSE Append(f[k-1], s[k])
      BY <1>1, <2>1 DEF Drops
    <2>4. f = step(f)
      BY <2>2, <2>3 DEF IsOn
    <2> HIDE DEF step
    <2> QED
      BY <2>4
  <1> HIDE DEF c
  <1> DEFINE Left(k) == {s[i] : i \in 1..k} \ R
             A == {k \in 0..n : c[k] \in Seq(S) /\ ToSet(c[k]) = Left(k)}
  <1>4. 0 \in A
    <2>1. 0 \in 0..n /\ c[0] = << >>
      BY <1>1, <1>3
    <2>2. Left(0) = {} /\ ToSet(<< >>) = {} /\ << >> \in Seq(S)
      BY DEF ToSet
    <2> QED
      BY <2>1, <2>2
  <1>5. ASSUME NEW k \in 1..n, k - 1 \in A PROVE k \in A
    <2>1. k \in 0..n /\ k # 0
      BY <1>1
    <2>2. c[k] = IF s[k] \in R THEN c[k-1] ELSE Append(c[k-1], s[k])
      BY <1>3, <2>1
    <2>3. c[k-1] \in Seq(S) /\ ToSet(c[k-1]) = Left(k-1) /\ s[k] \in S
      BY <1>1, <1>5
    <2>4. 1..k = 1..k-1 \cup {k}
      BY <1>1
    <2>5. {s[i] : i \in 1..k} = {s[i] : i \in 1..k-1} \cup {s[k]}
      BY <2>4
    <2>6. CASE s[k] \in R
      BY <2>1, <2>2, <2>3, <2>5, <2>6
    <2>7. CASE s[k] \notin R
      <3>1. c[k] = Append(c[k-1], s[k]) /\ c[k] \in Seq(S)
        BY <2>2, <2>3, <2>7
      <3>2. ToSet(c[k]) = ToSet(c[k-1]) \cup {s[k]}
        <4> DEFINE t == c[k-1]
        <4>1. t \in Seq(S) /\ c[k] = Append(t, s[k])
          BY <2>3, <3>1
        <4> HIDE DEF t
        <4>2. DOMAIN t = 1..Len(t) /\ Len(t) \in Nat /\ DOMAIN Append(t, s[k]) = 1..Len(t)+1
          BY <2>3, <4>1
        <4>3. \A i \in 1..Len(t) : Append(t, s[k])[i] = t[i]
          BY <2>3, <4>1
        <4>4. Append(t, s[k])[Len(t)+1] = s[k]
          BY <2>3, <4>1
        <4>5. ToSet(Append(t, s[k])) = ToSet(t) \cup {s[k]}
          BY <4>2, <4>3, <4>4 DEF ToSet
        <4> QED
          BY <4>1, <4>5 DEF t
      <3> QED
        BY <2>1, <2>3, <2>5, <2>7, <3>1, <3>2
    <2> QED
      BY <2>6, <2>7
  <1>6. \A k \in 0..n : k \in A
    <2> HIDE DEF A
    <2> QED
      BY <1>1, <1>4, <1>5, CountedUp
  <1>7. n \in A
    <2> HIDE DEF A
    <2> QED
      BY <1>1, <1>6
  <1> QED
    BY <1>2, <1>7

LEMMA LinkedOutputs ==
  ASSUME NEW S, NEW ids \in Seq(S), NEW name, NEW same \in BOOLEAN
  PROVE  /\ LinkOutputs(name, ids, same) \in Seq(DOMAIN opMap)
         /\ same /\ KnownUntil(ids) = ids => ToSet(LinkOutputs(name, ids, same)) = ToSet(ids) \ {name}
  <1> DEFINE D == DOMAIN opMap
             known == KnownUntil(ids)
             others[k \in 0..Len(known)] ==
                 IF k = 0 THEN << >> ELSE IF known[k] = name THEN others[k-1] ELSE Append(others[k-1], known[k])
             linked == others[Len(known)]
  <1>1. LinkOutputs(name, ids, same) = IF same \/ linked = << >> THEN linked ELSE <<linked[1]>>
    BY DEF LinkOutputs
  <1>2. known \in Seq(D)
    BY KnownOnly
  <1>3. linked \in Seq(D) /\ ToSet(linked) = ToSet(known) \ {name}
    <2> HIDE DEF known, D
    <2> QED
      BY <1>2, OthersOnly
  <1> HIDE DEF linked, D
  <1>4. linked # << >> => <<linked[1]>> \in Seq(D)
    BY <1>3
  <1> QED
    BY <1>1, <1>3, <1>4 DEF D

(* A list of lists, one after the other.                                      *)
Flattens(f, s, n) == /\ f = [k \in 1..n |-> f[k]]
                     /\ \A k \in 1..n : f[k] = IF k = 1 THEN s[k] ELSE f[k-1] \o s[k]

LEMMA FlattenExists ==
  ASSUME NEW s, NEW m \in Nat
  PROVE  \E f : Flattens(f, s, m)
  <1> DEFINE A == {k \in Nat : \E f : Flattens(f, s, k)}
  <1>1. 0 \in A
    <2> DEFINE a == [k \in 1..0 |-> << >>]
    <2>1. a = [k \in 1..0 |-> a[k]] /\ 1..0 = {}
      OBVIOUS
    <2> HIDE DEF a
    <2>2. Flattens(a, s, 0)
      BY <2>1 DEF Flattens
    <2> QED
      BY <2>2
  <1>2. ASSUME NEW n \in 1..m, n - 1 \in A PROVE n \in A
    <2>1. PICK prior : Flattens(prior, s, n - 1)
      BY <1>2
    <2> DEFINE v == IF n = 1 THEN s[n] ELSE prior[n-1] \o s[n]
               a == [k \in 1..n |-> IF k = n THEN v ELSE prior[k]]
    <2> HIDE DEF v
    <2>2. a = [k \in 1..n |-> a[k]] /\ a[n] = v /\ \A k \in 1..n-1 : a[k] = prior[k]
      OBVIOUS
    <2> HIDE DEF a
    <2>3. ASSUME NEW k \in 1..n PROVE a[k] = IF k = 1 THEN s[k] ELSE a[k-1] \o s[k]
      <3>1. CASE k = n
        <4>1. n # 1 => n - 1 \in 1..n-1
          OBVIOUS
        <4> QED
          BY <2>2, <3>1, <4>1 DEF v
      <3>2. CASE k # n
        <4>1. k \in 1..n-1 /\ (k # 1 => k-1 \in 1..n-1)
          BY <3>2
        <4>2. prior[k] = IF k = 1 THEN s[k] ELSE prior[k-1] \o s[k]
          BY <2>1, <4>1 DEF Flattens
        <4> QED
          BY <2>2, <4>1, <4>2
      <3> QED
        BY <3>1, <3>2
    <2>4. Flattens(a, s, n)
      BY <2>2, <2>3 DEF Flattens
    <2> QED
      BY <2>4
  <1>3. \A k \in 0..m : k \in A
    <2> HIDE DEF A
    <2> QED
      BY <1>1, <1>2, CountedUp
  <1> QED
    BY <1>3

LEMMA Concatenated ==
  ASSUME NEW S, NEW s \in Seq(S), NEW t \in Seq(S)
  PROVE  s \o t \in Seq(S) /\ ToSet(s \o t) = ToSet(s) \cup ToSet(t)
  <1> DEFINE n == Len(s)
             m == Len(t)
             u == s \o t
  <1>1. /\ n \in Nat /\ m \in Nat /\ u \in Seq(S) /\ Len(u) = n + m
        /\ \A i \in 1..n+m : u[i] = IF i <= n THEN s[i] ELSE t[i-n]
    OBVIOUS
  <1>2. ToSet(s) = {s[i] : i \in 1..n} /\ ToSet(t) = {t[i] : i \in 1..m} /\ ToSet(u) = {u[i] : i \in 1..n+m}
    BY <1>1 DEF ToSet
  <1> HIDE DEF n, m, u
  <1>3. ASSUME NEW x \in ToSet(s) PROVE x \in ToSet(u)
    <2>1. PICK i \in 1..n : x = s[i]
      BY <1>2
    <2>2. i \in 1..n+m /\ u[i] = s[i]
      BY <1>1
    <2> QED
      BY <1>2, <2>1, <2>2
  <1>4. ASSUME NEW x \in ToSet(t) PROVE x \in ToSet(u)
    <2>1. PICK i \in 1..m : x = t[i]
      BY <1>2
    <2>2. n+i \in 1..n+m /\ ~(n+i <= n) /\ (n+i)-n = i
      BY <1>1
    <2>3. u[n+i] = t[i]
      BY <1>1, <2>2
    <2> QED
      BY <1>2, <2>1, <2>2, <2>3
  <1>5. ASSUME NEW x \in ToSet(u) PROVE x \in ToSet(s) \cup ToSet(t)
    <2>1. PICK i \in 1..n+m : x = u[i]
      BY <1>2
    <2>2. CASE i <= n
      <3>1. i \in 1..n
        BY <1>1, <2>2
      <3>2. u[i] = s[i]
        BY <1>1, <2>2
      <3> QED
        BY <1>2, <2>1, <3>1, <3>2
    <2>3. CASE ~(i <= n)
      <3>1. i-n \in 1..m /\ u[i] = t[i-n]
        BY <1>1, <2>3
      <3> QED
        BY <1>2, <2>1, <3>1
    <2> QED
      BY <2>2, <2>3
  <1>6. u \in Seq(S) /\ ToSet(u) = ToSet(s) \cup ToSet(t)
    BY <1>1, <1>3, <1>4, <1>5
  <1> QED
    BY <1>6 DEF u

LEMMA FlattenIs ==
  ASSUME NEW S, NEW n \in Nat, NEW s, s = [k \in 1..n |-> s[k]], \A k \in 1..n : s[k] \in Seq(S)
  PROVE  FlattenSeq(s) \in Seq(S) /\ \A x : x \in ToSet(FlattenSeq(s)) <=> \E k \in 1..n : x \in ToSet(s[k])
  <1> DEFINE step(g) == [k \in 1..n |-> IF k = 1 THEN s[k] ELSE g[k-1] \o s[k]]
             c == CHOOSE g : g = step(g)
  <1>1. Len(s) = n
    BY LengthOf
  <1>2. FlattenSeq(s) = IF n = 0 THEN s ELSE c[n]
    BY <1>1 DEF FlattenSeq
  <1>3. CASE n = 0
    <2>1. s = << >> /\ 1..n = {}
      <3>1. s \in Seq({}) /\ Len(s) = 0
        BY <1>3, SeqOfLength
      <3> QED
        BY <1>3, <3>1
    <2>2. ToSet(<< >>) = {} /\ << >> \in Seq(S)
      BY DEF ToSet
    <2> QED
      BY <1>2, <1>3, <2>1, <2>2
  <1>4. c = step(c)
    <2>1. PICK f : Flattens(f, s, n)
      BY FlattenExists
    <2>2. f = step(f)
      BY <2>1 DEF Flattens
    <2> HIDE DEF step
    <2> QED
      BY <2>2
  <1> HIDE DEF c
  <1>5. \A k \in 1..n : c[k] = IF k = 1 THEN s[k] ELSE c[k-1] \o s[k]
    BY <1>4
  <1> HIDE DEF step
  <1> DEFINE First(k) == UNION {ToSet(s[i]) : i \in 1..k}
             A == {k \in 0..n : k # 0 => c[k] \in Seq(S) /\ ToSet(c[k]) = First(k)}
  <1>6. 0 \in A
    OBVIOUS
  <1>7. ASSUME NEW k \in 1..n, k - 1 \in A PROVE k \in A
    <2>1. k \in 0..n /\ s[k] \in Seq(S)
      OBVIOUS
    <2>2. CASE k = 1
      <3>1. c[k] = s[k] /\ 1..k = {k}
        BY <1>5, <2>2
      <3>2. First(k) = ToSet(s[k])
        BY <3>1
      <3> QED
        BY <2>1, <3>1, <3>2
    <2>3. CASE k # 1
      <3>0. 1..k = 1..k-1 \cup {k}
        OBVIOUS
      <3>1. c[k] = c[k-1] \o s[k]
        BY <1>5, <2>3
      <3>2. c[k-1] \in Seq(S) /\ ToSet(c[k-1]) = First(k-1)
        BY <1>7, <2>3
      <3>3. c[k-1] \o s[k] \in Seq(S) /\ ToSet(c[k-1] \o s[k]) = ToSet(c[k-1]) \cup ToSet(s[k])
        BY <2>1, <3>2, Concatenated
      <3>4. First(k) = First(k-1) \cup ToSet(s[k])
        BY <3>0
      <3> HIDE DEF First
      <3> QED
        BY <2>1, <3>1, <3>2, <3>3, <3>4
    <2> QED
      BY <2>2, <2>3
  <1>8. \A k \in 0..n : k \in A
    <2> HIDE DEF A
    <2> QED
      BY <1>6, <1>7, CountedUp
  <1>9. n # 0 => c[n] \in Seq(S) /\ ToSet(c[n]) = First(n)
    <2>1. n \in A
      <3> HIDE DEF A
      <3> QED
        BY <1>8
    <2> QED
      BY <2>1
  <1>10. CASE n # 0
    <2>1. FlattenSeq(s) = c[n]
      BY <1>2, <1>10
    <2>2. \A x : x \in First(n) <=> \E k \in 1..n : x \in ToSet(s[k])
      OBVIOUS
    <2> HIDE DEF First
    <2> QED
      BY <1>9, <1>10, <2>1, <2>2
  <1> QED
    BY <1>3, <1>10

(* What a path of links from d ends in, when it passes members of Z only.     *)
IsPath(O, Z, d, j, path) == /\ path \in [1..j -> DOMAIN O] /\ path[1] \in ToSet(O[d])
                            /\ \A i \in 2..j : path[i-1] \in Z /\ path[i] \in ToSet(O[path[i-1]])
EndsOf(O, Z, d, k) == {x \in DOMAIN O : \E j \in 1..k : \E path : IsPath(O, Z, d, j, path) /\ path[j] = x}

(* T is what S has, and what is behind its members in Z.                      *)
WithBehind(T, S, Z, E) == \A x : x \in T <=> x \in S \/ \E c \in S : c \in Z /\ x \in E[c]

LEMMA PathsOf ==
  ASSUME NEW D, NEW O \in [D -> Seq(D)], NEW Z, NEW d \in D, NEW k \in Nat \ {0}
  PROVE  \A E : (\A c \in D : E[c] = EndsOf(O, Z, c, k-1)) => WithBehind(EndsOf(O, Z, d, k), ToSet(O[d]), Z, E)
  <1> DEFINE After(c) == {c} \cup (IF c \in Z THEN EndsOf(O, Z, c, k-1) ELSE {})
  <1>1. DOMAIN O = D /\ \A a \in D : ToSet(O[a]) \subseteq D
    BY DEF ToSet
  <1>2. ASSUME NEW x \in EndsOf(O, Z, d, k) PROVE \E c \in ToSet(O[d]) : x \in After(c)
    <2>1. PICK j, path : j \in 1..k /\ IsPath(O, Z, d, j, path) /\ path[j] = x
      BY DEF EndsOf
    <2> DEFINE c == path[1]
    <2>2. path \in [1..j -> D] /\ c \in ToSet(O[d]) /\ x \in D
      BY <1>1, <2>1 DEF IsPath
    <2>3. CASE j = 1
      BY <2>1, <2>2, <2>3
    <2>4. CASE j # 1
      <3> DEFINE m == j - 1
                 tail == [i \in 1..m |-> path[i+1]]
      <3>1. m \in 1..k-1 /\ j = m + 1
        BY <2>1, <2>4
      <3>2. \A i \in 1..m : i + 1 \in 1..j /\ i + 1 \in 2..j /\ (i + 1) - 1 = i
        BY <3>1
      <3>3. tail \in [1..m -> D] /\ \A i \in 1..m : tail[i] = path[i+1]
        BY <2>2, <3>2
      <3> HIDE DEF m, tail
      <3>4. \A i \in 1..m : path[i] \in Z /\ path[i+1] \in ToSet(O[path[i]])
        BY <2>1, <3>2 DEF IsPath
      <3>5. c \in Z /\ tail[1] \in ToSet(O[c])
        <4>1. 1 \in 1..m /\ 1 + 1 = 2
          BY <3>1
        <4> QED
          BY <3>3, <3>4, <4>1
      <3>6. \A i \in 2..m : tail[i-1] \in Z /\ tail[i] \in ToSet(O[tail[i-1]])
        <4> TAKE i \in 2..m
        <4>1. i - 1 \in 1..m /\ (i - 1) + 1 = i /\ i \in 1..m
          BY <3>1
        <4>2. tail[i-1] = path[i] /\ tail[i] = path[i+1]
          BY <3>3, <4>1
        <4> QED
          BY <3>4, <4>1, <4>2
      <3>7. tail[m] = x
        <4>1. m \in 1..m
          BY <3>1
        <4> QED
          BY <2>1, <3>1, <3>3, <4>1
      <3>8. IsPath(O, Z, c, m, tail)
        BY <1>1, <3>3, <3>5, <3>6 DEF IsPath
      <3>9. x \in EndsOf(O, Z, c, k-1)
        BY <1>1, <2>2, <3>1, <3>7, <3>8 DEF EndsOf
      <3> QED
        BY <2>2, <3>5, <3>9
    <2> QED
      BY <2>3, <2>4
  <1>3. ASSUME NEW c \in ToSet(O[d]), NEW x \in After(c) PROVE x \in EndsOf(O, Z, d, k)
    <2>1. c \in D
      BY <1>1
    <2>2. CASE x = c
      <3> DEFINE path == [i \in 1..1 |-> c]
      <3>1. path \in [1..1 -> D] /\ path[1] = c /\ 2..1 = {}
        BY <2>1
      <3> HIDE DEF path
      <3>2. IsPath(O, Z, d, 1, path) /\ path[1] = x
        BY <1>1, <2>2, <3>1 DEF IsPath
      <3>3. 1 \in 1..k
        OBVIOUS
      <3> QED
        BY <1>1, <2>1, <2>2, <3>2, <3>3 DEF EndsOf
    <2>3. CASE x # c
      <3>1. c \in Z /\ x \in EndsOf(O, Z, c, k-1)
        BY <2>3
      <3>2. PICK m, tail : m \in 1..k-1 /\ IsPath(O, Z, c, m, tail) /\ tail[m] = x
        BY <3>1 DEF EndsOf
      <3> DEFINE j == m + 1
                 path == [i \in 1..j |-> IF i = 1 THEN c ELSE tail[i-1]]
      <3>3. j \in 1..k /\ j - 1 = m /\ j # 1 /\ 1 \in 1..j /\ j \in 1..j
        BY <3>2
      <3>4. \A i \in 2..j : i - 1 \in 1..m /\ i \in 1..j /\ i - 1 \in 1..j /\ i # 1
        BY <3>2
      <3>5. tail \in [1..m -> D] /\ tail[1] \in ToSet(O[c])
        BY <1>1, <3>2 DEF IsPath
      <3>6. path \in [1..j -> D] /\ path[1] = c /\ \A i \in 2..j : path[i] = tail[i-1]
        <4>1. \A i \in 1..j : i # 1 => i - 1 \in 1..m
          BY <3>2
        <4> HIDE DEF j
        <4> QED
          BY <2>1, <3>3, <3>4, <3>5, <4>1
      <3>7. x \in D /\ path[j] = x
        <4>1. j \in 2..j
          BY <3>2
        <4> HIDE DEF j, path
        <4>2. path[j] = tail[m]
          BY <3>3, <3>6, <4>1
        <4> QED
          BY <3>2, <3>3, <3>6, <4>2
      <3> HIDE DEF j, path
      <3>8. ASSUME NEW i \in 2..j PROVE path[i-1] \in Z /\ path[i] \in ToSet(O[path[i-1]])
        <4>1. CASE i = 2
          <5>1. i - 1 = 1
            BY <4>1
          <5>2. path[i] = tail[1]
            BY <3>6, <5>1
          <5> QED
            BY <3>1, <3>5, <3>6, <5>1, <5>2
        <4>2. CASE i # 2
          <5>1. i - 1 \in 2..j /\ i - 1 \in 2..m
            BY <3>3, <4>2
          <5>2. path[i-1] = tail[(i-1)-1] /\ path[i] = tail[i-1]
            BY <3>6, <5>1
          <5>3. tail[(i-1)-1] \in Z /\ tail[i-1] \in ToSet(O[tail[(i-1)-1]])
            BY <3>2, <5>1 DEF IsPath
          <5> QED
            BY <5>2, <5>3
        <4> QED
          BY <4>1, <4>2
      <3>9. IsPath(O, Z, d, j, path)
        BY <1>1, <3>6, <3>8 DEF IsPath
      <3> QED
        BY <1>1, <3>3, <3>7, <3>9 DEF EndsOf
    <2> QED
      BY <2>2, <2>3
  <1>4. ASSUME NEW E, \A c \in D : E[c] = EndsOf(O, Z, c, k-1)
        PROVE  WithBehind(EndsOf(O, Z, d, k), ToSet(O[d]), Z, E)
    <2> SUFFICES ASSUME NEW x PROVE x \in EndsOf(O, Z, d, k) <=> x \in ToSet(O[d]) \/ \E c \in ToSet(O[d]) : c \in Z /\ x \in E[c]
      BY DEF WithBehind
    <2>1. \A c \in ToSet(O[d]) : E[c] = EndsOf(O, Z, c, k-1)
      BY <1>1, <1>4
    <2> QED
      BY <1>2, <1>3, <2>1
  <1> QED
    BY <1>4

(* What follows a description when its links are followed one step further.   *)
Followed(g) == [d \in DOMAIN opMap |->
    FlattenSeq([i \in 1..Len(outputs[d]) |->
        <<outputs[d][i]>> \o (IF opMap[outputs[d][i]].min = 0 THEN g[outputs[d][i]] ELSE << >>)])]
Behinds(f, n) == /\ IsOn(f, n) /\ f[0] = [d \in DOMAIN opMap |-> << >>]
                 /\ \A k \in 1..n : f[k] = Followed(f[k-1])

LEMMA BehindExists ==
  ASSUME NEW m \in Nat
  PROVE  \E f : Behinds(f, m)
  <1> DEFINE A == {k \in Nat : \E f : Behinds(f, k)}
             Zero == [d \in DOMAIN opMap |-> << >>]
  <1>1. 0 \in A
    <2> HIDE DEF Zero
    <2> DEFINE a == [k \in 0..0 |-> Zero]
    <2>1. IsOn(a, 0) /\ a[0] = Zero /\ 1..0 = {}
      BY DEF IsOn
    <2> HIDE DEF a
    <2>2. Behinds(a, 0)
      BY <2>1 DEF Behinds, Zero
    <2> QED
      BY <2>2
  <1>2. ASSUME NEW n \in 1..m, n - 1 \in A PROVE n \in A
    <2>1. PICK prior : Behinds(prior, n - 1)
      BY <1>2
    <2> DEFINE v == Followed(prior[n-1])
               a == [k \in 0..n |-> IF k = n THEN v ELSE prior[k]]
    <2> HIDE DEF v
    <2>2. IsOn(a, n) /\ a[n] = v /\ \A k \in 0..n-1 : a[k] = prior[k]
      BY DEF IsOn
    <2> HIDE DEF a
    <2>3. ASSUME NEW k \in 1..n PROVE a[k] = Followed(a[k-1])
      <3>0. k - 1 \in 0..n-1
        OBVIOUS
      <3>1. CASE k = n
        BY <2>2, <3>0, <3>1 DEF v
      <3>2. CASE k # n
        <4>1. k \in 1..n-1 /\ k \in 0..n-1
          BY <3>2
        <4>2. prior[k] = Followed(prior[k-1])
          BY <2>1, <4>1 DEF Behinds
        <4>3. a[k] = prior[k] /\ a[k-1] = prior[k-1]
          BY <2>2, <3>0, <4>1
        <4> QED
          BY <4>2, <4>3
      <3> QED
        BY <3>1, <3>2
    <2>4. a[0] = Zero
      <3>1. 0 \in 0..n-1
        OBVIOUS
      <3> QED
        BY <2>1, <2>2, <3>1 DEF Behinds
    <2>5. Behinds(a, n)
      BY <2>2, <2>3, <2>4 DEF Behinds
    <2> QED
      BY <2>5
  <1>3. \A k \in 0..m : k \in A
    <2> HIDE DEF A
    <2> QED
      BY <1>1, <1>2, CountedUp
  <1> QED
    BY <1>3

Following(s, o, Z, g) ==
    /\ s = [i \in 1..Len(o) |-> s[i]]
    /\ \A i \in 1..Len(o) : s[i] = <<o[i]>> \o (IF o[i] \in Z THEN g[o[i]] ELSE << >>)

FollowingIn(D, s, o, Z, g, E) ==
    /\ o \in Seq(D) /\ g \in [D -> Seq(D)] /\ \A c \in D : E[c] = ToSet(g[c])
    /\ Following(s, o, Z, g)

LEMMA LinksFollowed ==
  ASSUME NEW D, NEW o, NEW Z, NEW g, NEW s, NEW E, FollowingIn(D, s, o, Z, g, E)
  PROVE  FlattenSeq(s) \in Seq(D) /\ WithBehind(ToSet(FlattenSeq(s)), ToSet(o), Z, E)
  <1>0. o \in Seq(D) /\ g \in [D -> Seq(D)] /\ (\A c \in D : E[c] = ToSet(g[c])) /\ Following(s, o, Z, g)
    BY DEF FollowingIn
  <1> DEFINE n == Len(o)
             v(c) == IF c \in Z THEN g[c] ELSE << >>
             t(c) == <<c>> \o v(c)
  <1>1. n \in Nat /\ \A i \in 1..n : o[i] \in D
    BY <1>0
  <1>2. ToSet(o) = {o[i] : i \in 1..n}
    <2>1. DOMAIN o = 1..n
      BY <1>0
    <2> HIDE DEF n
    <2> QED
      BY <2>1 DEF ToSet
  <1>3. ASSUME NEW c \in D
        PROVE  t(c) \in Seq(D) /\ \A x : x \in ToSet(t(c)) <=> x = c \/ (c \in Z /\ x \in E[c])
    <2> DEFINE u == <<c>>
               w == v(c)
    <2>1. u \in Seq(D)
      OBVIOUS
    <2>2. w \in Seq(D)
      BY <1>0
    <2>3. ToSet(u) = {c}
      <3>1. DOMAIN u = 1..1 /\ u[1] = c
        OBVIOUS
      <3> HIDE DEF u
      <3> QED
        BY <3>1 DEF ToSet
    <2>4. ToSet(w) = IF c \in Z THEN E[c] ELSE {}
      <3>1. ToSet(<< >>) = {}
        BY DEF ToSet
      <3> QED
        BY <1>0, <3>1
    <2> HIDE DEF u, w
    <2>5. u \o w \in Seq(D) /\ ToSet(u \o w) = ToSet(u) \cup ToSet(w)
      BY <2>1, <2>2, Concatenated
    <2>6. t(c) = u \o w
      BY DEF u, w
    <2> HIDE DEF t
    <2> QED
      BY <2>3, <2>4, <2>5, <2>6
  <1>4. s = [i \in 1..n |-> s[i]] /\ \A i \in 1..n : s[i] = t(o[i])
    BY <1>0 DEF Following
  <1> HIDE DEF t, v
  <1>5. \A i \in 1..n : s[i] \in Seq(D)
    BY <1>1, <1>3, <1>4
  <1>6. \A i \in 1..n : \A x : x \in ToSet(s[i]) <=> x = o[i] \/ (o[i] \in Z /\ x \in E[o[i]])
    BY <1>1, <1>3, <1>4
  <1>7. FlattenSeq(s) \in Seq(D) /\ \A x : x \in ToSet(FlattenSeq(s)) <=> \E k \in 1..n : x \in ToSet(s[k])
    <2> HIDE DEF n
    <2> QED
      BY <1>1, <1>4, <1>5, FlattenIs
  <1> HIDE DEF n
  <1>8. ASSUME NEW x
        PROVE  x \in ToSet(FlattenSeq(s)) <=> x \in ToSet(o) \/ \E c \in ToSet(o) : c \in Z /\ x \in E[c]
    <2>1. x \in ToSet(FlattenSeq(s)) <=> \E k \in 1..n : x = o[k] \/ (o[k] \in Z /\ x \in E[o[k]])
      BY <1>6, <1>7
    <2> QED
      BY <1>2, <2>1
  <1> QED
    BY <1>7, <1>8 DEF WithBehind

LEMMA FollowedOneStep ==
  ASSUME NEW D, D \subseteq DOMAIN opMap, outputs \in [D -> Seq(D)], NEW g \in [D -> Seq(D)], NEW d \in D,
         NEW Z, Z = {c \in D : opMap[c].min = 0}, NEW E, \A c \in D : E[c] = ToSet(g[c])
  PROVE  Followed(g)[d] \in Seq(D) /\ WithBehind(ToSet(Followed(g)[d]), ToSet(outputs[d]), Z, E)
  <1> DEFINE o == outputs[d]
             s == [i \in 1..Len(outputs[d]) |->
                     <<outputs[d][i]>> \o (IF opMap[outputs[d][i]].min = 0 THEN g[outputs[d][i]] ELSE << >>)]
  <1>1. o \in Seq(D) /\ \A i \in 1..Len(o) : o[i] \in D
    OBVIOUS
  <1>2. Followed(g)[d] = FlattenSeq(s)
    BY DEF Followed
  <1>3. Following(s, o, Z, g)
    BY <1>1 DEF Following
  <1>5. FollowingIn(D, s, o, Z, g, E)
    <2> HIDE DEF s, o
    <2> QED
      BY <1>1, <1>3 DEF FollowingIn
  <1> HIDE DEF s, o
  <1>4. FlattenSeq(s) \in Seq(D) /\ WithBehind(ToSet(FlattenSeq(s)), ToSet(o), Z, E)
    BY <1>5, LinksFollowed
  <1> QED
    BY <1>2, <1>4 DEF o

LEMMA OutputsReach ==
  ASSUME NEW D, D = DOMAIN opMap, IsFiniteSet(D), outputs \in [D -> Seq(D)], NEW name \in D
  PROVE  ToSet(GetOutputs(name, 0, TRUE)) = {path[Len(path)] : path \in Through(name)}
  <1> DEFINE N == Cardinality(DOMAIN opMap)
             Z == {c \in D : opMap[c].min = 0}
             step(g) == [k \in 0..N |-> [d \in DOMAIN opMap |-> IF k = 0 THEN << >>
                 ELSE FlattenSeq([i \in 1..Len(outputs[d]) |->
                          <<outputs[d][i]>> \o (IF opMap[outputs[d][i]].min = 0 THEN g[k-1][outputs[d][i]] ELSE << >>)])]]
             c == CHOOSE g : g = step(g)
  <1>1. GetOutputs(name, 0, TRUE) = << >> \o c[N][name]
    BY DEF GetOutputs
  <1>2. N \in Nat
    BY FS_CardinalityType
  <1> HIDE DEF N
  <1>3. c = step(c)
    <2>1. PICK f : Behinds(f, N)
      BY <1>2, BehindExists
    <2>2. IsOn(f, N)
      BY <2>1 DEF Behinds
    <2>3. \A k \in 0..N : f[k] = step(f)[k]
      <3> TAKE k \in 0..N
      <3>1. CASE k = 0
        BY <2>1, <3>1 DEF Behinds
      <3>2. CASE k # 0
        <4>1. k \in 1..N
          BY <1>2, <3>2
        <4>2. f[k] = Followed(f[k-1])
          BY <2>1, <4>1 DEF Behinds
        <4> QED
          BY <3>2, <4>2 DEF Followed
      <3> QED
        BY <3>1, <3>2
    <2>4. IsOn(step(f), N)
      BY DEF IsOn
    <2>5. f = step(f)
      <3> HIDE DEF step
      <3> QED
        BY <2>2, <2>3, <2>4 DEF IsOn
    <2> HIDE DEF step
    <2> QED
      BY <2>5
  <1> HIDE DEF c
  <1>4. c[0] = [d \in DOMAIN opMap |-> << >>] /\ \A k \in 1..N : c[k] = Followed(c[k-1])
    <2>1. c[0] = [d \in DOMAIN opMap |-> << >>]
      <3>1. 0 \in 0..N
        BY <1>2
      <3> QED
        BY <1>3, <3>1
    <2>2. ASSUME NEW k \in 1..N PROVE c[k] = Followed(c[k-1])
      <3>1. k \in 0..N /\ k # 0
        BY <1>2
      <3>2. step(c)[k] = Followed(c[k-1])
        BY <3>1 DEF Followed
      <3> HIDE DEF step
      <3> QED
        BY <1>3, <3>2
    <2> QED
      BY <2>1, <2>2
  <1> HIDE DEF step
  <1> DEFINE A == {k \in 0..N : c[k] \in [D -> Seq(D)] /\ \A d \in D : ToSet(c[k][d]) = EndsOf(outputs, Z, d, k)}
  <1>5. 0 \in A
    <2>1. c[0] \in [D -> Seq(D)] /\ \A d \in D : c[0][d] = << >>
      BY <1>4
    <2>2. ToSet(<< >>) = {} /\ \A d \in D : EndsOf(outputs, Z, d, 0) = {}
      <3>1. 1..0 = {}
        OBVIOUS
      <3> QED
        BY <3>1 DEF ToSet, EndsOf
    <2>3. 0 \in 0..N
      BY <1>2
    <2> QED
      BY <2>1, <2>2, <2>3
  <1>6. ASSUME NEW k \in 1..N, k - 1 \in A PROVE k \in A
    <2>1. k \in 0..N /\ k \in Nat \ {0}
      BY <1>2
    <2>2. c[k-1] \in [D -> Seq(D)] /\ \A d \in D : ToSet(c[k-1][d]) = EndsOf(outputs, Z, d, k-1)
      BY <1>6
    <2>3. c[k] = Followed(c[k-1])
      BY <1>4
    <2>4. ASSUME NEW d \in D PROVE c[k][d] \in Seq(D) /\ ToSet(c[k][d]) = EndsOf(outputs, Z, d, k)
      <3> DEFINE g == c[k-1]
                 E == [x \in D |-> ToSet(g[x])]
      <3>1. g \in [D -> Seq(D)] /\ c[k] = Followed(g) /\ \A x \in D : ToSet(g[x]) = EndsOf(outputs, Z, x, k-1)
        BY <2>2, <2>3
      <3>2. \A x \in D : E[x] = ToSet(g[x])
        OBVIOUS
      <3>3. Z = {x \in D : opMap[x].min = 0}
        OBVIOUS
      <3> HIDE DEF g, Z, E
      <3>4. c[k][d] \in Seq(D) /\ WithBehind(ToSet(c[k][d]), ToSet(outputs[d]), Z, E)
        BY <3>1, <3>2, <3>3, FollowedOneStep
      <3>5. WithBehind(EndsOf(outputs, Z, d, k), ToSet(outputs[d]), Z, E)
        <4>1. \A x \in D : E[x] = EndsOf(outputs, Z, x, k-1)
          BY <3>1, <3>2
        <4> QED
          BY <2>1, <4>1, PathsOf
      <3>6. \A x : x \in ToSet(c[k][d]) <=> x \in EndsOf(outputs, Z, d, k)
        BY <3>4, <3>5 DEF WithBehind
      <3> QED
        BY <3>4, <3>6
    <2>5. c[k] = [d \in D |-> c[k][d]]
      BY <2>3 DEF Followed
    <2>6. c[k] \in [D -> Seq(D)]
      BY <2>4, <2>5
    <2> QED
      BY <2>1, <2>4, <2>6
  <1>7. \A k \in 0..N : k \in A
    <2> HIDE DEF A
    <2> QED
      BY <1>2, <1>5, <1>6, CountedUp
  <1>8. c[N][name] \in Seq(D) /\ ToSet(c[N][name]) = EndsOf(outputs, Z, name, N)
    <2>1. N \in A
      <3> HIDE DEF A
      <3> QED
        BY <1>2, <1>7
    <2> QED
      BY <2>1
  <1>9. << >> \o c[N][name] = c[N][name]
    BY <1>8
  <1>10. {path[Len(path)] : path \in Through(name)} = EndsOf(outputs, Z, name, N)
    <2>1. \A j \in 1..N : \A path \in [1..j -> D] : Len(path) = j
      <3> TAKE j \in 1..N
      <3> TAKE path \in [1..j -> D]
      <3>1. j \in Nat /\ path = [i \in 1..j |-> path[i]]
        BY <1>2
      <3> QED
        BY <3>1, LengthOf
    <2>2. \A path : path \in Through(name) <=> \E j \in 1..N : IsPath(outputs, Z, name, j, path)
      <3> TAKE path
      <3>1. ASSUME NEW j \in 1..N, path \in [1..j -> D]
            PROVE  path \in Through(name) <=> IsPath(outputs, Z, name, j, path)
        <4>1. Len(path) = j /\ 1 \in 1..j /\ \A i \in 2..j : i \in 1..j /\ i - 1 \in 1..j
          BY <1>2, <2>1, <3>1
        <4>2. \A d \in D : \A x : Contains(outputs[d], x) <=> x \in ToSet(outputs[d])
          BY InSequence
        <4>3. \A i \in 2..j : path[i] \in D /\ path[i-1] \in D
          BY <3>1, <4>1
        <4>4. path \in UNION {[1..k -> DOMAIN opMap] : k \in 1..N}
          BY <3>1
        <4>5. path \in Through(name) <=>
                /\ Contains(outputs[name], path[1])
                /\ \A i \in 2..j : opMap[path[i-1]].min = 0 /\ Contains(outputs[path[i-1]], path[i])
          BY <4>1, <4>4 DEF Through, N
        <4>6. DOMAIN outputs = D
          OBVIOUS
        <4> QED
          BY <3>1, <4>2, <4>3, <4>5, <4>6 DEF IsPath
      <3>2. path \in Through(name) => \E j \in 1..N : path \in [1..j -> D]
        BY DEF Through, N
      <3>3. \A j \in 1..N : IsPath(outputs, Z, name, j, path) => path \in [1..j -> D]
        BY DEF IsPath
      <3> QED
        BY <3>1, <3>2, <3>3
    <2>3. ASSUME NEW path, NEW j \in 1..N, IsPath(outputs, Z, name, j, path)
          PROVE  Len(path) = j /\ path[j] \in D
      BY <1>2, <2>1, <2>3 DEF IsPath
    <2> HIDE DEF Z
    <2>4. ASSUME NEW path \in Through(name) PROVE path[Len(path)] \in EndsOf(outputs, Z, name, N)
      BY <2>2, <2>3 DEF EndsOf
    <2>5. ASSUME NEW x \in EndsOf(outputs, Z, name, N) PROVE \E path \in Through(name) : path[Len(path)] = x
      BY <2>2, <2>3 DEF EndsOf
    <2> QED
      BY <2>4, <2>5
  <1> QED
    BY <1>1, <1>8, <1>9, <1>10

(* The sum of a list of integers.                                             *)
Totals(f, w, n) == IsOn(f, n) /\ f[0] = 0 /\ \A k \in 1..n : f[k] = f[k-1] + w[k]

LEMMA TotalExists ==
  ASSUME NEW w, NEW m \in Nat
  PROVE  \E f : Totals(f, w, m)
  <1> DEFINE A == {k \in Nat : \E f : Totals(f, w, k)}
  <1>1. 0 \in A
    <2> DEFINE a == [k \in 0..0 |-> 0]
    <2>1. IsOn(a, 0) /\ a[0] = 0 /\ 1..0 = {}
      BY DEF IsOn
    <2> HIDE DEF a
    <2>2. Totals(a, w, 0)
      BY <2>1 DEF Totals
    <2> QED
      BY <2>2
  <1>2. ASSUME NEW n \in 1..m, n - 1 \in A PROVE n \in A
    <2>1. PICK prior : Totals(prior, w, n - 1)
      BY <1>2
    <2> DEFINE v == prior[n-1] + w[n]
               a == [k \in 0..n |-> IF k = n THEN v ELSE prior[k]]
    <2> HIDE DEF v
    <2>2. IsOn(a, n) /\ a[n] = v /\ \A k \in 0..n-1 : a[k] = prior[k]
      BY DEF IsOn
    <2> HIDE DEF a
    <2>3. ASSUME NEW k \in 1..n PROVE a[k] = a[k-1] + w[k]
      <3>0. k - 1 \in 0..n-1
        OBVIOUS
      <3>1. CASE k = n
        BY <2>2, <3>0, <3>1 DEF v
      <3>2. CASE k # n
        <4>1. k \in 1..n-1 /\ k \in 0..n-1
          BY <3>2
        <4>2. prior[k] = prior[k-1] + w[k]
          BY <2>1, <4>1 DEF Totals
        <4>3. a[k] = prior[k] /\ a[k-1] = prior[k-1]
          BY <2>2, <3>0, <4>1
        <4> QED
          BY <4>2, <4>3
      <3> QED
        BY <3>1, <3>2
    <2>4. a[0] = 0
      <3>1. 0 \in 0..n-1
        OBVIOUS
      <3> QED
        BY <2>1, <2>2, <3>1 DEF Totals
    <2>5. Totals(a, w, n)
      BY <2>2, <2>3, <2>4 DEF Totals
    <2> QED
      BY <2>5
  <1>3. \A k \in 0..m : k \in A
    <2> HIDE DEF A
    <2> QED
      BY <1>1, <1>2, CountedUp
  <1> QED
    BY <1>3

LEMMA TotalIs ==
  ASSUME NEW w \in Seq(Int)
  PROVE  Total(w) \in Int /\ (Len(w) = 0 => Total(w) = 0)
  <1> DEFINE n == Len(w)
             step(g) == [k \in 0..n |-> IF k = 0 THEN 0 ELSE g[k-1] + w[k]]
             c == CHOOSE g : g = step(g)
  <1>1. n \in Nat /\ \A k \in 1..n : w[k] \in Int
    OBVIOUS
  <1>2. Total(w) = c[n]
    BY DEF Total
  <1> HIDE DEF n
  <1>3. c = step(c)
    <2>1. PICK f : Totals(f, w, n)
      BY <1>1, TotalExists
    <2>2. IsOn(f, n)
      BY <2>1 DEF Totals
    <2>3. \A k \in 0..n : f[k] = IF k = 0 THEN 0 ELSE f[k-1] + w[k]
      BY <1>1, <2>1 DEF Totals
    <2>4. f = step(f)
      BY <2>2, <2>3 DEF IsOn
    <2> HIDE DEF step
    <2> QED
      BY <2>4
  <1> HIDE DEF c
  <1> DEFINE A == {k \in 0..n : c[k] \in Int}
  <1>4. 0 \in 0..n /\ c[0] = 0
    BY <1>1, <1>3
  <1>5. ASSUME NEW k \in 1..n, k - 1 \in A PROVE k \in A
    <2>1. k \in 0..n /\ k # 0
      BY <1>1
    <2>2. c[k] = c[k-1] + w[k]
      BY <1>3, <2>1
    <2>3. c[k-1] \in Int /\ w[k] \in Int
      BY <1>1, <1>5
    <2> QED
      BY <2>1, <2>2, <2>3
  <1>6. \A k \in 0..n : k \in A
    <2>1. 0 \in A
      BY <1>4
    <2> HIDE DEF A
    <2> QED
      BY <1>1, <1>5, <2>1, CountedUp
  <1> QED
    BY <1>1, <1>2, <1>4, <1>6 DEF n

(* What a buffer pattern is at any time: links are between descriptions, and  *)
(* heads are not repeated.                                                    *)
DescIsRecord(desc) ==
    /\ DOMAIN desc = {"types", "min", "max", "branch", "ignoreIn", "ignoreOut"}
    /\ desc.min \in Int /\ desc.max \in Int
LinkedBothWays(D, outs, ins) == \A a, b \in D : Occurs(outs[a], b) = Occurs(ins[b], a)
AllLinks(outs) == UNION {{a} \X ToSet(outs[a]) : a \in DOMAIN outs}
BufferInv ==
    /\ IsFiniteSet(DOMAIN opMap) /\ \A d \in DOMAIN opMap : DescIsRecord(opMap[d])
    /\ outputs \in [DOMAIN opMap -> Seq(DOMAIN opMap)] /\ inputs \in [DOMAIN opMap -> Seq(DOMAIN opMap)]
    /\ LinkedBothWays(DOMAIN opMap, outputs, inputs)
    /\ head \in Seq(DOMAIN opMap) /\ \A d \in ToSet(head) : opMap[d].max <= 1
    /\ errors \in Nat /\ (errors = 0 => TotalMin(head) <= 1)
    /\ errors = 0 /\ ~mixed => asked = AllLinks(outputs)

LEMMA BufferStarts ==
  BufferInit => BufferInv
  <1> SUFFICES ASSUME BufferInit PROVE BufferInv
    OBVIOUS
  <1>1. opMap = << >> /\ outputs = << >> /\ inputs = << >> /\ head = << >> /\ errors = 0 /\ asked = {}
    BY DEF BufferInit
  <1>2. DOMAIN opMap = {} /\ DOMAIN outputs = {} /\ IsFiniteSet({})
    BY <1>1, FS_EmptySet
  <1>3. outputs \in [{} -> Seq({})] /\ inputs \in [{} -> Seq({})]
    BY <1>1
  <1>4. head \in Seq({}) /\ ToSet(head) = {}
    BY <1>1 DEF ToSet
  <1>5. TotalMin(head) <= 1
    <2> DEFINE w == [k \in 1..Len(head) |-> opMap[head[k]].min]
    <2>1. w \in Seq(Int) /\ Len(w) = 0
      <3>1. Len(head) = 0 /\ 1..0 = {}
        BY <1>1
      <3>2. w = [k \in 1..0 |-> w[k]] /\ \A k \in 1..0 : w[k] \in Int
        BY <3>1
      <3> HIDE DEF w
      <3> QED
        BY <3>2, SeqOfLength
    <2>2. TotalMin(head) = Total(w)
      BY DEF TotalMin
    <2> HIDE DEF w
    <2>3. Total(w) = 0
      BY <2>1, TotalIs
    <2> QED
      BY <2>2, <2>3
  <1>6. AllLinks(outputs) = {}
    BY <1>2 DEF AllLinks
  <1> QED
    BY <1>1, <1>2, <1>3, <1>4, <1>5, <1>6 DEF BufferInv, LinkedBothWays

LEMMA HeadsTotalled ==
  ASSUME \A d \in DOMAIN opMap : DescIsRecord(opMap[d]), NEW s \in Seq(DOMAIN opMap)
  PROVE  TotalMin(s) \in Int
  <1> DEFINE w == [k \in 1..Len(s) |-> opMap[s[k]].min]
  <1>1. Len(s) \in Nat /\ \A k \in 1..Len(s) : s[k] \in DOMAIN opMap
    OBVIOUS
  <1>2. w = [k \in 1..Len(s) |-> w[k]] /\ \A k \in 1..Len(s) : w[k] \in Int
    BY <1>1 DEF DescIsRecord
  <1>3. TotalMin(s) = Total(w)
    BY DEF TotalMin
  <1> HIDE DEF w
  <1> QED
    BY <1>1, <1>2, <1>3, SeqOfLength, TotalIs

(* The heads are summed alike when no head changes its least number.          *)
LEMMA HeadsKept ==
  ASSUME NEW D, head \in Seq(D), head' = head, \A d \in D : opMap'[d].min = opMap[d].min /\ opMap'[d].max = opMap[d].max
  PROVE  /\ TotalMin(head)' = TotalMin(head)
         /\ (\A d \in ToSet(head) : opMap[d].max <= 1) => \A d \in ToSet(head)' : opMap'[d].max <= 1
  <1> DEFINE v == [k \in 1..Len(head) |-> opMap[head[k]].min]
             w == [k \in 1..Len(head') |-> opMap'[head'[k]].min]
  <1>1. \A k \in 1..Len(head) : head[k] \in D
    OBVIOUS
  <1>2. w = v
    BY <1>1
  <1>3. TotalMin(head) = Total(v) /\ TotalMin(head)' = Total(w)
    BY DEF TotalMin
  <1> HIDE DEF v, w
  <1>4. TotalMin(head)' = TotalMin(head)
    BY <1>2, <1>3
  <1>5. ToSet(head) \subseteq D /\ ToSet(head)' = ToSet(head)
    BY DEF ToSet
  <1> QED
    BY <1>4, <1>5

LEMMA DescriptionAdded ==
  ASSUME BufferAssumption, BufferInv, NEW name, NEW ts, NEW repeat \in Repeats, AddBufferOpDesc(name, ts, repeat)
  PROVE  BufferInv'
  <1> DEFINE D == DOMAIN opMap
             E == D \cup {name}
             desc == [types |-> ts, min |-> repeat[1], max |-> repeat[2], branch |-> Default,
                      ignoreIn |-> FALSE, ignoreOut |-> FALSE]
  <1>1. head' = head /\ asked' = asked /\ mixed' = mixed
    BY DEF AddBufferOpDesc
  <1>2. CASE opMap' = opMap /\ outputs' = outputs /\ inputs' = inputs /\ errors' = errors + 1
    <2>1. errors' \in Nat /\ errors' # 0
      BY <1>2 DEF BufferInv
    <2> QED
      BY <1>1, <1>2, <2>1 DEF BufferInv, LinkedBothWays, AllLinks
  <1>3. CASE /\ name \notin D /\ errors' = errors
             /\ opMap' = [d \in E |-> IF d = name THEN desc ELSE opMap[d]]
             /\ outputs' = [d \in E |-> IF d = name THEN << >> ELSE outputs[d]]
             /\ inputs' = [d \in E |-> IF d = name THEN << >> ELSE inputs[d]]
    <2>1. DescIsRecord(desc)
      <3>1. repeat[1] \in Int /\ repeat[2] \in Int
        BY DEF BufferAssumption
      <3> QED
        BY <3>1 DEF DescIsRecord
    <2> HIDE DEF desc
    <2>2. DOMAIN opMap' = E /\ DOMAIN outputs' = E /\ DOMAIN inputs' = E /\ D \subseteq E /\ name \in E
      BY <1>3
    <2>3. /\ opMap'[name] = desc /\ outputs'[name] = << >> /\ inputs'[name] = << >>
          /\ \A d \in D : opMap'[d] = opMap[d] /\ outputs'[d] = outputs[d] /\ inputs'[d] = inputs[d]
      BY <1>3
    <2>4. IsFiniteSet(E) /\ \A d \in E : DescIsRecord(opMap'[d])
      <3>1. IsFiniteSet(E)
        BY FS_AddElement DEF BufferInv
      <3> QED
        BY <2>1, <2>3, <3>1 DEF BufferInv
    <2>5. \A d \in D : outputs[d] \in Seq(D) /\ inputs[d] \in Seq(D)
      BY DEF BufferInv
    <2>6. \A s \in Seq(D) : s \in Seq(E)
      OBVIOUS
    <2>7. outputs' \in [E -> Seq(E)] /\ inputs' \in [E -> Seq(E)]
      <3>1. \A d \in E : outputs'[d] \in Seq(E) /\ inputs'[d] \in Seq(E)
        <4>1. << >> \in Seq(E)
          OBVIOUS
        <4> HIDE DEF D
        <4> QED
          BY <2>3, <2>5, <2>6, <4>1
      <3>2. outputs' = [d \in E |-> outputs'[d]] /\ inputs' = [d \in E |-> inputs'[d]]
        BY <1>3
      <3> HIDE DEF E
      <3> QED
        BY <3>1, <3>2
    <2>8. LinkedBothWays(E, outputs', inputs')
      <3> SUFFICES ASSUME NEW a \in E, NEW b \in E PROVE Occurs(outputs'[a], b) = Occurs(inputs'[b], a)
        BY DEF LinkedBothWays
      <3>1. \A x : Occurs(<< >>, x) = 0
        <4> DEFINE none == {}
        <4>1. << >> \in Seq(none) /\ \A x : x \notin none
          OBVIOUS
        <4> HIDE DEF none
        <4> QED
          BY <4>1, OccursType
      <3>2. \A d \in D : Occurs(outputs[d], name) = 0 /\ Occurs(inputs[d], name) = 0
        <4> HIDE DEF D
        <4> QED
          BY <1>3, <2>5, OccursType
      <3>3. CASE a \in D /\ b \in D
        BY <2>3, <3>3 DEF BufferInv, LinkedBothWays
      <3>4. CASE a = name
        <4>1. Occurs(outputs'[a], b) = 0 /\ Occurs(inputs'[b], a) = 0
          BY <2>3, <3>1, <3>2, <3>4
        <4> QED
          BY <4>1
      <3>5. CASE b = name
        <4>1. Occurs(outputs'[a], b) = 0 /\ Occurs(inputs'[b], a) = 0
          BY <2>3, <3>1, <3>2, <3>5
        <4> QED
          BY <4>1
      <3> QED
        BY <3>3, <3>4, <3>5
    <2>9. AllLinks(outputs') = AllLinks(outputs)
      <3>1. ToSet(<< >>) = {} /\ DOMAIN outputs = D
        BY DEF ToSet, BufferInv
      <3> QED
        BY <2>2, <2>3, <3>1 DEF AllLinks
    <2>10. /\ head' \in Seq(E) /\ (\A d \in ToSet(head)' : opMap'[d].max <= 1)
           /\ (errors' = 0 => TotalMin(head)' <= 1)
      <3>1. head \in Seq(D) /\ \A d \in ToSet(head) : opMap[d].max <= 1
        BY DEF BufferInv
      <3>2. \A d \in D : opMap'[d].min = opMap[d].min /\ opMap'[d].max = opMap[d].max
        BY <2>3
      <3>3. head' \in Seq(E)
        BY <1>1, <2>6, <3>1
      <3> HIDE DEF D, E
      <3>4. TotalMin(head)' = TotalMin(head) /\ \A d \in ToSet(head)' : opMap'[d].max <= 1
        BY <1>1, <3>1, <3>2, HeadsKept
      <3> QED
        BY <1>3, <3>3, <3>4 DEF BufferInv
    <2>11. errors' \in Nat /\ (errors' = 0 /\ ~mixed' => asked' = AllLinks(outputs'))
      BY <1>1, <1>3, <2>9 DEF BufferInv
    <2> QED
      BY <2>2, <2>4, <2>7, <2>8, <2>10, <2>11 DEF BufferInv, LinkedBothWays, AllLinks
  <1>4. \/ opMap' = opMap /\ outputs' = outputs /\ inputs' = inputs /\ errors' = errors + 1
        \/ /\ name \notin D /\ errors' = errors
           /\ opMap' = [d \in E |-> IF d = name THEN desc ELSE opMap[d]]
           /\ outputs' = [d \in E |-> IF d = name THEN << >> ELSE outputs[d]]
           /\ inputs' = [d \in E |-> IF d = name THEN << >> ELSE inputs[d]]
    <2>1. DOMAIN outputs = D /\ DOMAIN inputs = D
      BY DEF BufferInv
    <2> QED
      BY <2>1 DEF AddBufferOpDesc, Counted
  <1> QED
    BY <1>2, <1>3, <1>4

LEMMA OutputsLinked ==
  ASSUME BufferAssumption, BufferInv, NEW name, NEW ids \in NameLists, NEW relation, NEW in, NEW out,
         SetBufferOutputs(name, ids, relation, in, out)
  PROVE  BufferInv'
  <1> DEFINE D == DOMAIN opMap
             branch == IF opMap[name].branch = Default THEN relation ELSE opMap[name].branch
             linked == LinkOutputs(name, ids, branch = relation)
             copies(d) == [i \in 1..Occurs(linked, d) |-> name]
  <1>1. head' = head
    BY DEF SetBufferOutputs
  <1>2. CASE name \notin D
    <2>1. /\ opMap' = opMap /\ outputs' = outputs /\ inputs' = inputs /\ errors' = errors + 1
          /\ asked' = asked /\ mixed' = mixed
      BY <1>2 DEF SetBufferOutputs, Counted
    <2>2. errors' \in Nat /\ errors' # 0
      BY <2>1 DEF BufferInv
    <2> QED
      BY <1>1, <2>1, <2>2 DEF BufferInv, LinkedBothWays, AllLinks
  <1>3. CASE name \in D
    <2>1. /\ opMap' = [opMap EXCEPT ![name].branch = branch, ![name].ignoreIn = in, ![name].ignoreOut = out]
          /\ outputs' = [outputs EXCEPT ![name] = outputs[name] \o linked]
          /\ inputs' = [d \in DOMAIN inputs |-> inputs[d] \o copies(d)]
          /\ errors' = (IF KnownUntil(ids) # ids /\ (branch = relation \/ linked = << >>) THEN errors + 1 ELSE errors)
          /\ asked' = asked \cup {<<name, i>> : i \in ToSet(ids) \ {name}}
          /\ mixed' = (mixed \/ branch # relation)
      BY <1>3 DEF SetBufferOutputs
    <2>2. /\ linked \in Seq(D)
          /\ branch = relation /\ KnownUntil(ids) = ids => ToSet(linked) = ToSet(ids) \ {name}
      <3> DEFINE S == ToSet(ids)
      <3>1. ids \in Seq(S)
        BY DEF BufferAssumption
      <3> DEFINE same == branch = relation
      <3>2. same \in BOOLEAN /\ linked = LinkOutputs(name, ids, same)
        OBVIOUS
      <3> HIDE DEF same, linked, S, D
      <3>3. /\ LinkOutputs(name, ids, same) \in Seq(DOMAIN opMap)
            /\ same /\ KnownUntil(ids) = ids => ToSet(LinkOutputs(name, ids, same)) = ToSet(ids) \ {name}
        BY <3>1, <3>2, LinkedOutputs
      <3> QED
        BY <3>2, <3>3 DEF same, D
    <2> HIDE DEF branch, linked
    <2>3. /\ DOMAIN outputs = D /\ DOMAIN inputs = D
          /\ \A d \in D : DescIsRecord(opMap[d]) /\ outputs[d] \in Seq(D) /\ inputs[d] \in Seq(D)
      BY DEF BufferInv
    <2>4. DOMAIN opMap' = D /\ \A d \in D : DescIsRecord(opMap'[d]) /\ opMap'[d].min = opMap[d].min /\ opMap'[d].max = opMap[d].max
      <3>1. DOMAIN opMap' = D /\ \A d \in D : d # name => opMap'[d] = opMap[d]
        BY <2>1
      <3>2. DOMAIN opMap'[name] = DOMAIN opMap[name]
        BY <1>3, <2>1
      <3>3. DescIsRecord(opMap[name])
        BY <1>3, <2>3
      <3>4. opMap'[name].min = opMap[name].min /\ opMap'[name].max = opMap[name].max
        BY <1>3, <2>1, <3>3 DEF DescIsRecord
      <3> QED
        BY <2>3, <3>1, <3>2, <3>3, <3>4 DEF DescIsRecord
    <2>5. /\ DOMAIN outputs' = D /\ outputs'[name] = outputs[name] \o linked
          /\ \A d \in D : d # name => outputs'[d] = outputs[d]
      BY <1>3, <2>1, <2>3
    <2>6. ASSUME NEW d \in D
          PROVE  inputs'[d] \in Seq(D) /\ \A x : Occurs(inputs'[d], x) = Occurs(inputs[d], x) + (IF x = name THEN Occurs(linked, d) ELSE 0)
      <3> DEFINE n == Occurs(linked, d)
                 t == copies(d)
      <3>1. n \in Nat
        BY <2>2, OccursType
      <3> HIDE DEF n
      <3>2. Copies(t, n, name)
        BY DEF n, Copies
      <3> HIDE DEF t
      <3>3. t \in Seq(D) /\ \A x : Occurs(t, x) = IF x = name THEN n ELSE 0
        BY <1>3, <3>1, <3>2, OccursOfCopies
      <3>5. inputs'[d] = inputs[d] \o t
        BY <2>1, <2>3 DEF t
      <3> HIDE DEF D
      <3>6. inputs[d] \o t \in Seq(D) /\ \A x : Occurs(inputs[d] \o t, x) = Occurs(inputs[d], x) + Occurs(t, x)
        BY <2>3, <3>3, OccursAppended
      <3>7. \A x : Occurs(inputs'[d], x) = Occurs(inputs[d], x) + (IF x = name THEN n ELSE 0)
        BY <3>3, <3>5, <3>6
      <3>8. inputs'[d] \in Seq(D)
        BY <3>5, <3>6
      <3> QED
        BY <3>7, <3>8 DEF n, D
    <2>7. \A d \in D : outputs'[d] \in Seq(D)
      <3> HIDE DEF D
      <3>1. outputs[name] \o linked \in Seq(D)
        BY <1>3, <2>2, <2>3, Concatenated
      <3> QED
        BY <2>3, <2>5, <3>1
    <2>8. outputs' \in [D -> Seq(D)] /\ inputs' \in [D -> Seq(D)]
      <3>1. outputs' = [d \in D |-> outputs'[d]] /\ inputs' = [d \in D |-> inputs'[d]]
        BY <2>1, <2>3
      <3> HIDE DEF D
      <3> QED
        BY <2>6, <2>7, <3>1
    <2>9. LinkedBothWays(D, outputs', inputs')
      <3> SUFFICES ASSUME NEW a \in D, NEW b \in D PROVE Occurs(outputs'[a], b) = Occurs(inputs'[b], a)
        BY DEF LinkedBothWays
      <3>1. Occurs(outputs[a], b) = Occurs(inputs[b], a)
        BY DEF BufferInv, LinkedBothWays
      <3>2. Occurs(outputs[a], b) \in Nat /\ Occurs(linked, b) \in Nat
        BY <2>2, <2>3, OccursType
      <3>3. CASE a = name
        <4>1. Occurs(outputs'[a], b) = Occurs(outputs[a], b) + Occurs(linked, b)
          <5> HIDE DEF D
          <5>1. outputs'[a] = outputs[a] \o linked /\ outputs[a] \in Seq(D)
            BY <2>3, <2>5, <3>3
          <5> QED
            BY <2>2, <5>1, OccursAppended
        <4> QED
          BY <2>6, <3>1, <3>3, <4>1
      <3>4. CASE a # name
        <4>1. Occurs(inputs'[b], a) = Occurs(inputs[b], a) + 0
          BY <2>6, <3>4
        <4> QED
          BY <2>5, <3>1, <3>2, <3>4, <4>1
      <3> QED
        BY <3>3, <3>4
    <2>10. errors' \in Nat /\ (errors' = 0 => errors = 0)
      BY <2>1 DEF BufferInv
    <2>11. errors' = 0 /\ ~mixed' => asked' = AllLinks(outputs')
      <3> SUFFICES ASSUME errors' = 0, ~mixed' PROVE asked' = AllLinks(outputs')
        OBVIOUS
      <3>1. errors = 0 /\ ~mixed /\ branch = relation
        BY <2>1, <2>10
      <3>2. KnownUntil(ids) = ids
        <4>1. errors \in Nat
          BY DEF BufferInv
        <4> QED
          BY <2>1, <3>1, <4>1
      <3>3. asked = AllLinks(outputs) /\ asked' = asked \cup {<<name, i>> : i \in ToSet(linked)}
        BY <2>1, <2>2, <3>1, <3>2 DEF BufferInv
      <3>4. ToSet(outputs'[name]) = ToSet(outputs[name]) \cup ToSet(linked)
        <4> HIDE DEF D
        <4>1. outputs[name] \in Seq(D)
          BY <1>3, <2>3
        <4> QED
          BY <2>2, <2>5, <4>1, Concatenated
      <3>5. \A d \in D : ToSet(outputs'[d]) = ToSet(outputs[d]) \cup IF d = name THEN ToSet(linked) ELSE {}
        BY <2>5, <3>4
      <3>6. \A p : p \in AllLinks(outputs') <=> p \in AllLinks(outputs) \/ p \in {name} \X ToSet(linked)
        <4>1. \A p : p \in AllLinks(outputs') <=> \E d \in D : p \in {d} \X ToSet(outputs'[d])
          BY <2>5 DEF AllLinks
        <4>2. \A p : p \in AllLinks(outputs) <=> \E d \in D : p \in {d} \X ToSet(outputs[d])
          BY <2>3 DEF AllLinks
        <4> QED
          BY <1>3, <3>5, <4>1, <4>2
      <3> QED
        BY <3>3, <3>6
    <2>12. /\ head' \in Seq(D) /\ (\A d \in ToSet(head)' : opMap'[d].max <= 1)
           /\ (errors' = 0 => TotalMin(head)' <= 1)
      <3>1. head \in Seq(D) /\ \A d \in ToSet(head) : opMap[d].max <= 1
        BY DEF BufferInv
      <3> HIDE DEF D
      <3>2. TotalMin(head)' = TotalMin(head) /\ \A d \in ToSet(head)' : opMap'[d].max <= 1
        BY <1>1, <2>4, <3>1, HeadsKept
      <3> QED
        BY <1>1, <2>10, <3>1, <3>2 DEF BufferInv
    <2>13. IsFiniteSet(D)
      BY DEF BufferInv
    <2> HIDE DEF D
    <2> QED
      BY <2>4, <2>8, <2>9, <2>10, <2>11, <2>12, <2>13 DEF BufferInv, LinkedBothWays, AllLinks
  <1> QED
    BY <1>2, <1>3

LEMMA HeadsSet ==
  ASSUME BufferInv, NEW S, NEW ids \in Seq(S), SetHead(ids)
  PROVE  BufferInv'
  <1> DEFINE D == DOMAIN opMap
             Single == {i \in D : ~(opMap[i].max > 1)}
             refused == SelectInSeq(ids, LAMBDA i : i \notin DOMAIN opMap \/ opMap[i].max > 1)
             more == IF refused = 0 THEN ids ELSE SubSeq(ids, 1, refused - 1)
             kept == head \o more
  <1>1. /\ head' = kept /\ opMap' = opMap /\ outputs' = outputs /\ inputs' = inputs /\ asked' = asked /\ mixed' = mixed
        /\ (IF ids = << >> \/ refused > 0 \/ TotalMin(kept) > 1 THEN Counted ELSE UNCHANGED errors)
    BY DEF SetHead
  <1>2. more \in Seq(Single)
    <2>1. refused = IF {i \in 1..Len(ids) : ids[i] \notin D \/ opMap[ids[i]].max > 1} # {}
                    THEN Min({i \in 1..Len(ids) : ids[i] \notin D \/ opMap[ids[i]].max > 1}) ELSE 0
      BY DEF SelectInSeq
    <2>2. {i \in 1..Len(ids) : ids[i] \notin D \/ opMap[ids[i]].max > 1} = {i \in 1..Len(ids) : ids[i] \notin Single}
      OBVIOUS
    <2> HIDE DEF refused, Single
    <2>3. refused = IF {i \in 1..Len(ids) : ids[i] \notin Single} # {} THEN Min({i \in 1..Len(ids) : ids[i] \notin Single}) ELSE 0
      BY <2>1, <2>2
    <2> QED
      BY <2>3, CutBefore
  <1>3. /\ \A d \in D : DescIsRecord(opMap[d])
        /\ head \in Seq(D) /\ (\A d \in ToSet(head) : opMap[d].max <= 1) /\ errors \in Nat
    BY DEF BufferInv
  <1> HIDE DEF refused, more
  <1>4. more \in Seq(D) /\ \A d \in ToSet(more) : opMap[d].max <= 1
    <2>1. more \in Seq(D)
      BY <1>2
    <2>2. \A d \in Single : opMap[d].max <= 1
      BY <1>3 DEF DescIsRecord
    <2>3. ToSet(more) \subseteq Single
      <3> HIDE DEF Single
      <3> QED
        BY <1>2 DEF ToSet
    <2> QED
      BY <2>1, <2>2, <2>3
  <1>5. kept \in Seq(D) /\ ToSet(kept) = ToSet(head) \cup ToSet(more)
    <2> HIDE DEF D
    <2> QED
      BY <1>3, <1>4, Concatenated
  <1> HIDE DEF kept
  <1>6. TotalMin(kept) \in Int
    BY <1>3, <1>5, HeadsTotalled
  <1>7. TotalMin(head)' = TotalMin(kept)
    BY <1>1 DEF TotalMin
  <1>8. errors' \in Nat /\ (errors' = 0 => errors = 0 /\ ~(TotalMin(kept) > 1))
    BY <1>1, <1>3 DEF Counted
  <1>9. \A d \in ToSet(head') : opMap'[d].max <= 1
    BY <1>1, <1>3, <1>4, <1>5
  <1>10. errors' = 0 => TotalMin(head)' <= 1
    BY <1>6, <1>7, <1>8
  <1>11. head' \in Seq(DOMAIN opMap')
    BY <1>1, <1>5
  <1>12. LinkedBothWays(DOMAIN opMap, outputs, inputs)' /\ AllLinks(outputs)' = AllLinks(outputs)
    BY <1>1 DEF BufferInv, LinkedBothWays, AllLinks
  <1>13. ToSet(head)' = ToSet(head')
    BY DEF ToSet
  <1> QED
    BY <1>1, <1>8, <1>9, <1>10, <1>11, <1>12, <1>13 DEF BufferInv

(* The invariant is more than a state needs to be as it was asked for.        *)
LEMMA BufferOnlyCalls ==
  ASSUME BufferAssumption, BufferInv, BufferNext
  PROVE  BufferInv'
  <1>1. CASE \E name \in DescNames, ts \in DescTypes, repeat \in Repeats : AddBufferOpDesc(name, ts, repeat)
    BY <1>1, DescriptionAdded
  <1>2. CASE \E name \in DescNames, ids \in NameLists,
               relation \in {1, Multi}, ignore \in BOOLEAN : SetBufferOutputs(name, ids, relation, FALSE, ignore)
    <2>1. PICK name \in DescNames, ids \in NameLists,
               relation \in {1, Multi}, ignore \in BOOLEAN : SetBufferOutputs(name, ids, relation, FALSE, ignore)
      BY <1>2
    <2> QED
      BY <2>1, OutputsLinked
  <1>3. CASE \E ids \in NameLists \cup {<< >>} : SetHead(ids)
    <2>1. PICK ids \in NameLists \cup {<< >>} : SetHead(ids)
      BY <1>3
    <2> DEFINE S == ToSet(ids)
    <2>2. ids \in Seq(S)
      <3>1. CASE ids \in NameLists
        BY <3>1 DEF BufferAssumption
      <3>2. CASE ids = << >>
        <4> HIDE DEF S
        <4> QED
          BY <3>2
      <3> QED
        BY <3>1, <3>2
    <2> HIDE DEF S
    <2> QED
      BY <2>1, <2>2, HeadsSet
  <1> QED
    BY <1>1, <1>2, <1>3 DEF BufferNext

LEMMA AsAskedFollows ==
  BufferInv => ErrorFreePatternIsAsAsked
  <1> SUFFICES ASSUME BufferInv, errors = 0 PROVE ErrorFreePatternIsAsAsked
    BY DEF ErrorFreePatternIsAsAsked
  <1>1. TotalMin(head) <= 1 /\ \A d \in ToSet(head) : opMap[d].max <= 1
    BY DEF BufferInv
  <1>2. ~mixed => asked = UNION {{a} \X ToSet(outputs[a]) : a \in DOMAIN outputs}
    BY DEF BufferInv, AllLinks
  <1>3. \A a, b \in DOMAIN opMap : Occurs(outputs[a], b) = Occurs(inputs[b], a)
    BY DEF BufferInv, LinkedBothWays
  <1>4. \A d \in DOMAIN opMap : ToSet(GetOutputs(d, 0, TRUE)) = {path[Len(path)] : path \in Through(d)}
    <2> TAKE d \in DOMAIN opMap
    <2> DEFINE D == DOMAIN opMap
    <2>1. IsFiniteSet(D) /\ outputs \in [D -> Seq(D)] /\ D = DOMAIN opMap /\ d \in D
      BY DEF BufferInv
    <2> HIDE DEF D
    <2> QED
      BY <2>1, OutputsReach
  <1> QED
    BY <1>1, <1>2, <1>3, <1>4 DEF ErrorFreePatternIsAsAsked

(* A buffer pattern's links and heads (BufferInv) through all its calls.      *)
THEOREM BufferInvAlways == BufferSpec => []BufferInv
  <1>1. BufferInv /\ [BufferNext]_bufferVars => BufferInv'
    <2> SUFFICES ASSUME BufferInv, [BufferNext]_bufferVars PROVE BufferInv'
      OBVIOUS
    <2>1. CASE BufferNext
      BY <2>1, BufferAssumption, BufferOnlyCalls
    <2>2. CASE UNCHANGED bufferVars
      BY <2>2 DEF bufferVars, BufferInv, LinkedBothWays, AllLinks, TotalMin, ToSet
    <2> QED
      BY <2>1, <2>2
  <1> QED
    BY <1>1, BufferStarts, PTL DEF BufferSpec

(* A buffer pattern that counted no error is what its calls asked for:        *)
(* AddOpDesc, SetOutputs and SetHead of BufferFusionPattern, and GetOutputs.  *)
THEOREM ErrorFreePatternIsAsAskedAlways == BufferSpec => []ErrorFreePatternIsAsAsked
  <1> QED
    BY BufferInvAlways, AsAskedFollows, PTL
=============================================================================
