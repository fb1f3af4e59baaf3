----------------------------- MODULE RefMapping -----------------------------
(***************************************************************************)
(* GraphUtils::GetRefMapping: which data anchors of a graph and of all its *)
(* subgraphs share one piece of memory.  The anchors are visited in the    *)
(* order of ComputeGraph::GetAllNodes and sorted into classes, each named  *)
(* by one of its anchors, the symbol.  The classes live in two maps that   *)
(* have to be changed together: symbol_to_anchors, a list per symbol, and  *)
(* anchor_to_symbol.                                                       *)
(*                                                                         *)
(* One step is one round of a loop of the code.  An anchor is the triple   *)
(* that NodeIndexIO::ToString prints; node names are taken to be unique.   *)
(* A symbol that is not in symbol_to_anchors has the empty list, which no  *)
(* symbol in the map has.  When FAILED is returned the maps are left as    *)
(* they are: the empty entries that operator[] makes on that path are not  *)
(* modelled.                                                               *)
(***************************************************************************)
EXTENDS Integers, Sequences

CONSTANTS Node,      \* nodes of a graph and of its subgraphs
          MaxIndex,  \* largest index of an anchor
          Graphs,    \* graphs the function is called with
          NoNode, NoAnchor, NoIndex

Index == 0 .. MaxIndex
Anchor == Node \X {"in", "out"} \X Index
In(n, i) == <<n, "in", i>>
Out(n, o) == <<n, "out", o>>

VARIABLES
  g,       \* the graph, as it is during the call
  pos,     \* position of the current node in GetAllNodes
  phase,   \* "in": HandleInAnchorMapping, "union" and "add": the loops of HandleMergeInput,
           \* "out": HandleOutAnchorMapping
  idx,     \* index of the current anchor
  base,    \* max_node_index_io of HandleMergeInput
  map,     \* [lists |-> symbol_to_anchors, sym |-> anchor_to_symbol]
  result   \* "running", "success", or why the call failed

vars == <<g, pos, phase, idx, base, map, result>>

(***************************************************************************)
(* A graph: what the code reads of nodes, links and attributes.            *)
(***************************************************************************)
Type == {"Op", "Merge", "StreamMerge", "NetOutput", "While"}

Shape ==
  [order     : Seq(Node),                            \* GetAllNodes
   type      : [Node -> Type],
   ins       : [Node -> 0 .. MaxIndex + 1],          \* number of in data anchors
   outs      : [Node -> 0 .. MaxIndex + 1],          \* number of out data anchors
   peer      : [Node \X Index -> Anchor \cup {NoAnchor}],  \* GetPeerOutAnchor of an input
   parent    : [Node -> Node \cup {NoNode}],         \* parent node of the graph of a node
   unknown   : [Node -> BOOLEAN],                    \* has ATTR_NAME_IS_UNKNOWN_SHAPE
   dynamic   : [Node -> BOOLEAN],                    \* unknown flag of the graph of a node
   parentIdx : [Node -> Index \cup {NoIndex}],       \* ATTR_NAME_PARENT_NODE_INDEX of a Data
   outputIdx : [Node \X Index -> Index \cup {NoIndex}],    \* the same of an input of NetOutput
   next      : [Node -> Node \cup {NoNode}],         \* ATTR_NAME_NEXT_ITERATION
   named     : [Node \X Index -> Index \cup {NoIndex}],    \* input of a reference op named like the output
   reuse     : [Node \X Index -> Index \cup {NoIndex}],    \* reuse_input_index of an output
   nopadding : [Node -> BOOLEAN]]                    \* continuous in- or output that reuses input 0

Cur == g.order[pos]
Peer(n, i) == g.peer[<<n, i>>]
Inputs(n) == {i \in Index : i < g.ins[n]}
Outputs(n) == {o \in Index : o < g.outs[n]}
Linked(n) == {i \in Inputs(n) : Peer(n, i) # NoAnchor}

HiddenByParent(n) ==
  LET p == g.parent[n]
  IN  p = NoNode \/ (g.unknown[p] /\ (g.dynamic[p] \/ g.parent[p] = NoNode))
IsSubgraphInput(n) == ~HiddenByParent(n) /\ g.parentIdx[n] # NoIndex
IsSubgraphOutput(n) ==
  /\ g.type[n] = "NetOutput"
  /\ ~HiddenByParent(n)
  /\ \E i \in Inputs(n) : g.outputIdx[<<n, i>>] # NoIndex

\* What HandleInAnchorMapping calls for a node.
InKind(n) ==
  IF IsSubgraphOutput(n) THEN "subgraph output"
  ELSE IF IsSubgraphInput(n) THEN "subgraph input"
  ELSE IF g.type[n] \in {"Merge", "StreamMerge"} THEN "merge"
  ELSE "plain"

IsRefFromInput(n, o) ==
  IF g.type[n] \in {"NetOutput", "While"} \/ IsSubgraphInput(n) THEN o
  ELSE IF g.type[n] = "Merge" /\ o = 0 THEN 0
  ELSE IF g.named[<<n, o>>] # NoIndex THEN g.named[<<n, o>>]
  ELSE IF g.reuse[<<n, o>>] # NoIndex THEN g.reuse[<<n, o>>]
  ELSE IF g.nopadding[n] THEN 0
  ELSE NoIndex

(***************************************************************************)
(* The two maps.                                                           *)
(***************************************************************************)
Members(m, s) == {m.lists[s][k] : k \in DOMAIN m.lists[s]}
Seen(a) == map.sym[a] # NoAnchor
Found(a) == Seen(a) /\ map.lists[map.sym[a]] # <<>>

\* symbol_to_anchors[s].emplace_back(a); anchor_to_symbol.emplace(a, s)
Add(m, a, s) ==
  [lists |-> [m.lists EXCEPT ![s] = Append(@, a)],
   sym   |-> [m.sym EXCEPT ![a] = IF @ = NoAnchor THEN s ELSE @]]

\* A class of its own for an anchor.
AddAlone(m, a) ==
  [lists |-> [m.lists EXCEPT ![a] = <<a>>], sym |-> [m.sym EXCEPT ![a] = a]]
EmplaceAlone(m, a) ==
  [lists |-> [m.lists EXCEPT ![a] = IF @ = <<>> THEN <<a>> ELSE @],
   sym   |-> [m.sym EXCEPT ![a] = IF @ = NoAnchor THEN a ELSE @]]

\* UnionSymbolMapping: the longer list takes in the shorter one.
Larger(m, s, t) == IF Len(m.lists[s]) > Len(m.lists[t]) THEN s ELSE t
Smaller(m, s, t) == IF Len(m.lists[s]) > Len(m.lists[t]) THEN t ELSE s
\* Mutant: the shorter list is not erased.
RelabelWithoutErase(m, keep, drop) ==
  [lists |-> [m.lists EXCEPT ![keep] = @ \o m.lists[drop]],
   sym   |-> [x \in Anchor |-> IF x \in Members(m, drop) THEN keep ELSE m.sym[x]]]
Relabel(m, keep, drop) ==
  [lists |-> [m.lists EXCEPT ![keep] = @ \o m.lists[drop], ![drop] = <<>>],
   sym   |-> [x \in Anchor |-> IF x \in Members(m, drop) THEN keep ELSE m.sym[x]]]
UnionSymbolMapping(m, a, b) ==
  LET s == m.sym[a]
      t == m.sym[b]
  IN  IF s = t THEN m ELSE Relabel(m, Larger(m, s, t), Smaller(m, s, t))

\* Why UnionSymbolMapping returns FAILED, if it does.
UnionFault(a, b) ==
  IF ~Seen(a) \/ ~Seen(b) THEN "unseen"
  ELSE IF map.sym[a] = map.sym[b] THEN "running"
  ELSE IF \/ ~Found(a)
          \/ ~Found(b)
          \/ \E x \in Members(map, Smaller(map, map.sym[a], map.sym[b])) : ~Seen(x)
       THEN "lost"
  ELSE "running"

\* Why UpdateRefMapping returns FAILED, if it does.
UpdateFault(a) == IF ~Seen(a) THEN "unseen" ELSE IF ~Found(a) THEN "lost" ELSE "running"
(***************************************************************************)
(* Graphs the function is called with.                                     *)
(***************************************************************************)
ASSUME GraphsAssumption == Graphs \subseteq Shape

ASSUME IndexAssumption ==
  /\ MaxIndex \in Nat
  /\ NoIndex \notin Nat /\ NoNode \notin Node /\ NoAnchor \notin Anchor

IsMerge(n) == InKind(n) = "merge"
Unlinked(n) == Inputs(n) \ Linked(n)

\* Every node is visited once, and a link comes from an output.
Distinct == \A p, q \in DOMAIN g.order : g.order[p] = g.order[q] => p = q
LinksAreOutputs ==
  \A n \in Node, i \in Index :
    Peer(n, i) # NoAnchor => \E k \in Node : \E o \in Outputs(k) : Peer(n, i) = Out(k, o)

\* The link that closes a loop is cut at one input of one merge, and its
\* NextIteration comes after that merge.
LoopsAreCutOnce ==
  \A p \in DOMAIN g.order :
    LET n == g.order[p]
    IN  (IsMerge(n) /\ g.next[n] # NoNode) =>
          /\ \A i, j \in Unlinked(n) : i = j
          /\ \E q \in DOMAIN g.order : g.order[q] = g.next[n] /\ p < q
          /\ \A q \in DOMAIN g.order :
               (IsMerge(g.order[q]) /\ g.next[g.order[q]] = g.next[n]) => q = p

Init ==
  /\ g \in Graphs
  /\ Distinct
  /\ LinksAreOutputs
  /\ LoopsAreCutOnce
  /\ pos = 1 /\ phase = "in" /\ idx = 0
  /\ base = NoAnchor
  /\ map = [lists |-> [a \in Anchor |-> <<>>], sym |-> [a \in Anchor |-> NoAnchor]]
  /\ result = "running"

(***************************************************************************)
(* The loops.                                                              *)
(***************************************************************************)
At(ph) == result = "running" /\ pos <= Len(g.order) /\ phase = ph
AtInput(kind) == At("in") /\ InKind(Cur) = kind /\ idx < g.ins[Cur]

Fail(fault) == result' = fault /\ UNCHANGED <<g, pos, phase, idx, base, map>>
GoOn(m) == map' = m /\ idx' = idx + 1 /\ UNCHANGED <<g, pos, phase, base, result>>
Skip == GoOn(map)
Enter(ph) == phase' = ph /\ idx' = 0 /\ UNCHANGED <<g, pos, map, result>>

\* Mutant: an input without a link gets no symbol.
PlainInputOnlyLinked ==
  /\ AtInput("plain")
  /\ LET exist == Peer(Cur, idx)
     IN  IF exist = NoAnchor THEN Skip
         ELSE IF UpdateFault(exist) # "running" THEN Fail(UpdateFault(exist))
         ELSE GoOn(Add(map, In(Cur, idx), map.sym[exist]))
\* One input of an ordinary node.
PlainInput ==
  /\ AtInput("plain")
  /\ LET cur == In(Cur, idx)
         exist == Peer(Cur, idx)
     IN  IF exist = NoAnchor THEN GoOn(AddAlone(map, cur))
         ELSE IF UpdateFault(exist) # "running" THEN Fail(UpdateFault(exist))
         ELSE GoOn(Add(map, cur, map.sym[exist]))

\* Mutant: every Data stands for input 0 of the parent node.
SubgraphInputFirst ==
  /\ At("in") /\ InKind(Cur) = "subgraph input"
  /\ LET exist == Peer(g.parent[Cur], 0)
     IN  IF exist = NoAnchor THEN Enter("out") /\ UNCHANGED base
         ELSE IF UpdateFault(exist) # "running" THEN Fail(UpdateFault(exist))
         ELSE /\ map' = Add(map, In(Cur, 0), map.sym[exist])
              /\ phase' = "out" /\ idx' = 0
              /\ UNCHANGED <<g, pos, base, result>>
\* The input of a Data of a subgraph stands for an input of the parent node.
SubgraphInput ==
  /\ At("in") /\ InKind(Cur) = "subgraph input"
  /\ LET p == g.parent[Cur]
         i == g.parentIdx[Cur]
         exist == Peer(p, i)
     IN  IF i >= g.ins[p] THEN Fail("invalid")
         ELSE IF exist = NoAnchor THEN Enter("out") /\ UNCHANGED base
         ELSE IF UpdateFault(exist) # "running" THEN Fail(UpdateFault(exist))
         ELSE /\ map' = Add(map, In(Cur, 0), map.sym[exist])
              /\ phase' = "out" /\ idx' = 0
              /\ UNCHANGED <<g, pos, base, result>>

\* One input of the NetOutput of a subgraph: its producer and the output of
\* the parent node share a symbol.
SubgraphOutput ==
  /\ AtInput("subgraph output")
  /\ LET exist == Peer(Cur, idx)
         o == g.outputIdx[<<Cur, idx>>]
         out == Out(g.parent[Cur], o)
         m == UnionSymbolMapping(map, exist, out)
     IN  IF exist = NoAnchor THEN Fail("invalid")
         ELSE IF o = NoIndex THEN Skip
         ELSE IF o >= g.outs[g.parent[Cur]] THEN Fail("invalid")
         ELSE IF UnionFault(exist, out) # "running" THEN Fail(UnionFault(exist, out))
         ELSE GoOn(Add(m, In(Cur, idx), m.sym[exist]))

\* The first producer of an input of a merge with the longest list.
ListLen(a) == IF Found(a) THEN Len(map.lists[map.sym[a]]) ELSE 0
IsLargest(n, i) ==
  /\ ListLen(Peer(n, i)) > 0
  /\ \A j \in Linked(n) : ListLen(Peer(n, j)) <= ListLen(Peer(n, i))
  /\ \A j \in Linked(n) : ListLen(Peer(n, j)) = ListLen(Peer(n, i)) => i <= j

HasNext(n) == g.next[n] # NoNode
MergeChoose ==
  /\ At("in") /\ IsMerge(Cur)
  /\ IF Unlinked(Cur) # {} /\ HasNext(Cur) /\ g.outs[g.next[Cur]] = 0
     THEN Fail("invalid")
     ELSE /\ Enter("union")
          /\ \/ \E i \in Linked(Cur) : IsLargest(Cur, i) /\ base' = Peer(Cur, i)
             \/ (\A i \in Linked(Cur) : ~IsLargest(Cur, i)) /\ base' = NoAnchor

MergeUnion ==
  /\ At("union") /\ idx < g.ins[Cur]
  /\ LET exist == Peer(Cur, idx)
     IN  IF exist = NoAnchor THEN Skip
         ELSE IF base = NoAnchor THEN Fail("unseen")
         ELSE IF UnionFault(base, exist) # "running" THEN Fail(UnionFault(base, exist))
         ELSE GoOn(UnionSymbolMapping(map, base, exist))

\* Mutant: the cut input is left out.
MergeAddLinkedOnly ==
  /\ At("add") /\ idx < g.ins[Cur]
  /\ IF base = NoAnchor \/ Peer(Cur, idx) = NoAnchor THEN Skip
     ELSE GoOn(Add(map, In(Cur, idx), map.sym[base]))
\* An input of the merge joins the symbol that the unions have led to, that
\* of base; with a cut input the output of its NextIteration joins too.
MergeAdd ==
  /\ At("add") /\ idx < g.ins[Cur]
  /\ LET s == map.sym[base]
         m == Add(map, In(Cur, idx), s)
     IN  IF base = NoAnchor THEN Skip
         ELSE IF Peer(Cur, idx) # NoAnchor THEN GoOn(m)
         ELSE IF HasNext(Cur) THEN GoOn(Add(m, Out(g.next[Cur], 0), s))
         ELSE Skip

InputsDone ==
  /\ \/ At("in") /\ InKind(Cur) \in {"plain", "subgraph output"}
     \/ At("union")
     \/ At("add")
  /\ idx >= g.ins[Cur]
  /\ Enter(IF phase = "union" THEN "add" ELSE "out")
  /\ base' = IF phase = "union" THEN base ELSE NoAnchor

OutputAnchor ==
  /\ At("out") /\ idx < g.outs[Cur]
  /\ LET cur == Out(Cur, idx)
         r == IsRefFromInput(Cur, idx)
         exist == In(Cur, r)
     IN  IF Seen(cur) THEN Skip
         ELSE IF r = NoIndex \/ r >= g.ins[Cur] THEN GoOn(EmplaceAlone(map, cur))
         ELSE IF UpdateFault(exist) # "running" THEN Fail(UpdateFault(exist))
         ELSE GoOn(Add(map, cur, map.sym[exist]))

\* Mutant: the loop over the nodes advances twice after a NetOutput.
NodeDoneTwice ==
  /\ At("out") /\ idx >= g.outs[Cur]
  /\ pos' = pos + (IF g.type[Cur] = "NetOutput" THEN 2 ELSE 1)
  /\ phase' = "in" /\ idx' = 0
  /\ UNCHANGED <<g, base, map, result>>
NodeDone ==
  /\ At("out") /\ idx >= g.outs[Cur]
  /\ pos' = pos + 1 /\ phase' = "in" /\ idx' = 0
  /\ UNCHANGED <<g, base, map, result>>

Return ==
  /\ result = "running" /\ pos > Len(g.order)
  /\ result' = "success"
  /\ UNCHANGED <<g, pos, phase, idx, base, map>>

Next ==
  \/ PlainInput \/ SubgraphInput \/ SubgraphOutput
  \/ MergeChoose \/ MergeUnion \/ MergeAdd \/ InputsDone
  \/ OutputAnchor \/ NodeDone \/ Return

Spec == Init /\ [][Next]_vars
(***************************************************************************)
(* What the result should be.                                              *)
(***************************************************************************)
\* The inputs of a node that end in a class: not the inputs of a NetOutput
\* without a parent index, of a merge without links or without NextIteration,
\* and of a Data whose parent input is not linked.
InputsInClass(n) ==
  LET kind == InKind(n)
  IN  IF kind = "plain" THEN Inputs(n)
      ELSE IF kind = "subgraph output" THEN {i \in Inputs(n) : g.outputIdx[<<n, i>>] # NoIndex}
      ELSE IF kind = "subgraph input" THEN {i \in {0} : Peer(g.parent[n], g.parentIdx[n]) # NoAnchor}
      ELSE IF Linked(n) = {} THEN {}
      ELSE IF HasNext(n) THEN Inputs(n)
      ELSE Linked(n)

\* The output of a NextIteration whose link to a merge was cut.
ClosesLoop(b, n) ==
  IsMerge(n) /\ g.next[n] = b /\ Linked(n) # {} /\ Unlinked(n) # {}
InOrder == {g.order[p] : p \in DOMAIN g.order}

\* The pairs of anchors that must share memory because of input i of node n ...
InputRefs(n, i) ==
  LET kind == InKind(n)
      producers == {Peer(n, j) : j \in Linked(n)}
  IN  IF i \notin InputsInClass(n) THEN {}
      ELSE IF kind = "plain" THEN {<<In(n, i), Peer(n, i)>> : j \in {i} \cap Linked(n)}
      ELSE IF kind = "subgraph input" THEN {<<In(n, i), Peer(g.parent[n], g.parentIdx[n])>>}
      ELSE IF kind = "subgraph output"
           THEN {<<In(n, i), Peer(n, i)>>, <<Peer(n, i), Out(g.parent[n], g.outputIdx[<<n, i>>])>>}
      ELSE IF i \in Linked(n) THEN ({In(n, i), Peer(n, i)} \X producers)
      ELSE {In(n, i), Out(g.next[n], 0)} \X producers

\* ... and because of its output o.
OutputRefs(n, o) ==
  LET r == IsRefFromInput(n, o)
  IN  {<<Out(n, o), In(n, r)>> : j \in {r} \cap
         (IF o = 0 /\ \E c \in InOrder : ClosesLoop(n, c) THEN {} ELSE Inputs(n))}

NodeRefs(n) ==
  (UNION {InputRefs(n, i) : i \in Index}) \cup (UNION {OutputRefs(n, o) : o \in Outputs(n)})
References == UNION {NodeRefs(n) : n \in InOrder}

\* A set of anchors that the references in R hold together: whatever way it
\* is cut in two, a reference crosses the cut.
HeldTogether(C, R) ==
  LET within == R \cap (C \X C)
  IN  \A S \in (SUBSET C) \ {{}, C} : \E r \in within : (r[1] \in S) # (r[2] \in S)

Mapped == {a \in Anchor : Seen(a)}
ToBeMapped ==
  UNION {{In(n, i) : i \in InputsInClass(n)} \cup {Out(n, o) : o \in Outputs(n)} : n \in InOrder}

\* The graph is sorted, and every link that a reference goes through is there.
Earlier(a, p) == \E q \in DOMAIN g.order : q < p /\ a[1] = g.order[q]
Ready(p) ==
  LET n == g.order[p]
      kind == InKind(n)
  IN  /\ \A i \in Linked(n) : Earlier(Peer(n, i), p)
      /\ kind = "subgraph input" =>
           /\ g.parentIdx[n] < g.ins[g.parent[n]]
           /\ Peer(g.parent[n], g.parentIdx[n]) # NoAnchor
           /\ Earlier(Peer(g.parent[n], g.parentIdx[n]), p)
      /\ kind = "subgraph output" =>
           \A i \in Inputs(n) :
             /\ i \in Linked(n)
             /\ g.outputIdx[<<n, i>>] # NoIndex =>
                  /\ g.outputIdx[<<n, i>>] < g.outs[g.parent[n]]
                  /\ Earlier(Out(g.parent[n], 0), p)
      /\ (kind = "merge" /\ HasNext(n) /\ Unlinked(n) # {}) => g.outs[g.next[n]] > 0
      /\ \A o \in Outputs(n) : IsRefFromInput(n, o) \in Inputs(n) =>
           IsRefFromInput(n, o) \in InputsInClass(n)
Sorted == \A p \in DOMAIN g.order : Ready(p)

(***************************************************************************)
(* Properties.                                                             *)
(***************************************************************************)
\* Every variable has its type.
TypeOK ==
  /\ g \in Shape
  /\ pos \in 1 .. Len(g.order) + 1
  /\ phase \in {"in", "union", "add", "out"}
  /\ idx \in 0 .. MaxIndex + 1
  /\ base \in Anchor \cup {NoAnchor}
  /\ map \in [lists : [Anchor -> Seq(Anchor)], sym : [Anchor -> Anchor \cup {NoAnchor}]]
  /\ result \in {"running", "success", "invalid", "unseen", "lost"}

\* symbol_to_anchors and anchor_to_symbol say the same: an anchor is in the
\* list of its symbol, once, and in no other, and a symbol is in its own list.
MapsAgree ==
  \A s \in Anchor :
    /\ Members(map, s) = {a \in Anchor : map.sym[a] = s}
    /\ \A j, k \in DOMAIN map.lists[s] : map.lists[s][j] = map.lists[s][k] => j = k
    /\ map.lists[s] # <<>> => map.sym[s] = s

\* No lookup of a symbol or of an anchor that another map names can miss:
\* "symbol not exist" and "anchor not exist" are never the reason to fail.
NothingLost == result # "lost"

\* Anchors that get the same symbol are held together by references of the
\* graph, at every moment: no class is too large.
ClassesAreHeldTogether ==
  LET R == References
  IN  \A s \in Anchor : HeldTogether(Members(map, s), R)

\* When SUCCESS is returned, no class is too small: every reference of the
\* graph has one symbol at both ends, and every anchor that one may expect
\* there has a symbol.
ReferencesShareSymbol ==
  result = "success" =>
    /\ \A r \in References : Seen(r[1]) /\ map.sym[r[1]] = map.sym[r[2]]
    /\ Mapped = ToBeMapped

\* A sorted graph, the parent before the nodes of its subgraphs, never fails:
\* the message "maybe TopoSorting is missing" names the only reasons.
SortedGraphSucceeds == Sorted => result \in {"running", "success"}

\* A sorted graph gets its mapping, and the mapping of a graph is complete:
\* GetRefMapping neither fails nor leaves a reference without a symbol.
SymbolsAreComplete == ReferencesShareSymbol /\ SortedGraphSucceeds
=============================================================================
