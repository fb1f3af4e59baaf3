------------------------------ MODULE UserGraph ------------------------------
(* A graph as a user program edits it: graph/graph.cc and graph/gnode.cc.     *)
(* The program holds GNodes, weak handles of nodes, and calls with them at    *)
(* any time, also after the node was removed.  Then GraphUtils::CopyGraph and *)
(* CloneGraph of graph/utils/graph_utils.cc make a copy of what is there.     *)
(*                                                                            *)
(* The tree of subgraphs is the one a build left (see ComputeGraph): nodes    *)
(* can be removed from it with everything below them.  No data output leads   *)
(* to a control input: no call of graph.cc makes such a link.  The names of   *)
(* the nodes in a graph differ when it is copied.                             *)
EXTENDS AnchorOps, Functions, FiniteSets

CONSTANTS Node, Root, Sub,     \* the nodes, the graph of the program, its subgraphs
          ParentNode,          \* subgraph -> the node it belongs to
          Content,             \* graph -> the nodes it begins with
          InNum, OutNum,       \* ports of a node
          Linked,              \* the links it begins with, <<source, peer>>
          NameOf,              \* node -> its name
          Kept,                \* nodes that all_nodes_infos_ keeps alive
          Weightless,          \* constants without a weight
          Producers,           \* operator -> those that input_link_ names
          MaxRecursionDepth,   \* kMaxRecursionDepth
          MaxEdits, None

ASSUME UserGraphAssumption ==
    /\ Root \notin Sub /\ None \notin Node \cup Sub \cup {Root}
    /\ Kept \subseteq Node /\ Weightless \subseteq Node
    /\ ParentNode \in [Sub -> Node]

Graph == {Root} \cup Sub

VARIABLES nodes,     \* graph -> its nodes_
          owner,     \* node -> its graph, None when it has none
          born,      \* the nodes created so far
          peers,     \* anchor -> its peer_anchors_
          outs,      \* output_nodes_info_ of Root: <<node, index>>
          outName,   \* output_name_: its characters
          outMap,    \* out_nodes_map_: <<name, index>>
          targets,   \* target_nodes_info_ of Root
          ops,       \* op_list_: name -> [node, links]
          copy,      \* the last copy; "crashed" when making it ended the program
          edits

editVars == <<nodes, owner, born, peers, outs, outName, outMap, targets, ops>>
ugVars   == <<editVars, copy, edits>>

AnchorsOf(n) == {InDataAnchor(n, i) : i \in 0..InNum[n]-1} \cup {OutDataAnchor(n, i) : i \in 0..OutNum[n]-1}
                \cup {InControlAnchor(n), OutControlAnchor(n)}

HasIn(n, i)  == i \in 0..InNum[n]-1
HasOut(n, i) == i \in 0..OutNum[n]-1

UserGraphInit ==
    /\ nodes = Content
    /\ owner = [n \in Node |-> IF \E g \in Graph : Contains(Content[g], n)
                               THEN CHOOSE g \in Graph : Contains(Content[g], n) ELSE None]
    /\ born = {n \in Node : owner[n] # None}
    /\ peers = FoldLeft(LAMBDA p, l : LinkTo(p, l[1], l[2]), [a \in UNION {AnchorsOf(n) : n \in Node} |-> << >>], Linked)
    /\ outs = << >> /\ outName = << >> /\ outMap = {}
    /\ targets = << >> /\ ops = << >>
    /\ copy = None /\ edits = 0

Running == copy # None => copy.kind # "crashed"
Editing == Running /\ edits < MaxEdits /\ edits' = edits + 1 /\ UNCHANGED copy

-----------------------------------------------------------------------------
(* Handles.  GNode2Node locks the weak pointer: the node must still be held   *)
(* by its graph, by the targets or by the table of operators.                 *)
GNode2Node(n) == \/ owner[n] # None /\ Contains(nodes[owner[n]], n)
                 \/ Contains(targets, n)
                 \/ n \in Kept \cap born
(* What AddDataEdge, AddControlEdge and RemoveEdge ask of both their nodes.   *)
Usable(n) == GNode2Node(n) /\ owner[n] # None

GetInDataNodesAndPortIndexs(n, i) ==
    IF HasIn(n, i) /\ peers[InDataAnchor(n, i)] # << >>
    THEN LET out == Head(peers[InDataAnchor(n, i)]) IN <<GetOwnerNode(out), GetIdx(out)>>
    ELSE <<None, -1>>
GetOutDataNodesAndPortIndexs(n, i) ==
    LET ins == SelectSeq(peers[OutDataAnchor(n, i)], LAMBDA b : Kind(b) = "inData")
    IN  [k \in DOMAIN ins |-> <<GetOwnerNode(ins[k]), GetIdx(ins[k])>>]
GetInControlNodes(n)  == [k \in DOMAIN peers[InControlAnchor(n)] |->
                             GetOwnerNode(peers[InControlAnchor(n)][k])]
GetOutControlNodes(n) == [k \in DOMAIN peers[OutControlAnchor(n)] |->
                             GetOwnerNode(peers[OutControlAnchor(n)][k])]

-----------------------------------------------------------------------------
(* Nodes and edges.                                                           *)

AddNodeByOp(n) ==
    /\ Editing /\ n \notin born
    /\ nodes' = [nodes EXCEPT ![Root] = Append(@, n)]
    /\ owner' = [owner EXCEPT ![n] = Root]
    /\ born' = born \cup {n}
    /\ UNCHANGED <<peers, outs, outName, outMap, targets, ops>>

LinkWith(a, b) ==
    /\ CanLink(peers, a, b)
    /\ peers' = LinkTo(peers, a, b)
    /\ UNCHANGED <<nodes, owner, born, outs, outName, outMap, targets, ops>>
AddDataEdge(src, i, dst, j) ==
    /\ Editing /\ Usable(src) /\ Usable(dst) /\ HasOut(src, i) /\ HasIn(dst, j)
    /\ LinkWith(OutDataAnchor(src, i), InDataAnchor(dst, j))
AddControlEdge(src, dst) ==
    /\ Editing /\ Usable(src) /\ Usable(dst)
    /\ LinkWith(OutControlAnchor(src), InControlAnchor(dst))

(* Ports of -1 are the control anchors.                                       *)
RemoveEdge(src, i, dst, j) ==
    LET a == IF i = -1 THEN OutControlAnchor(src) ELSE OutDataAnchor(src, i)
        b == IF j = -1 THEN InControlAnchor(dst) ELSE InDataAnchor(dst, j)
    IN  /\ Editing /\ Usable(src) /\ Usable(dst)
        /\ i = -1 => j = -1
        /\ i # -1 => HasOut(src, i)
        /\ j # -1 => HasIn(dst, j)
        /\ CanUnlink(peers, a, b)
        /\ peers' = Unlink(peers, a, b)
        /\ UNCHANGED <<nodes, owner, born, outs, outName, outMap, targets, ops>>

(* The subgraphs below a node, at any depth, as far as they are still there.  *)
DirectSubs(S) == {g \in Sub : ParentNode[g] \in S /\ owner[ParentNode[g]] # None}
Below(n) ==
    LET down[k \in 0..Cardinality(Sub)] ==
          IF k = 0 THEN DirectSubs({n})
          ELSE down[k-1] \cup DirectSubs(UNION {ToSet(nodes[g]) : g \in down[k-1]})
    IN  down[Cardinality(Sub)]

(* Mutant: the node keeps its owner.                                          *)
RemoveNodeKeepingOwner(n, containSubgraph) ==
    LET g == owner[n]
        lost == UNION {ToSet(nodes[h]) : h \in Below(n)}
    IN  /\ Editing /\ Usable(n)
        /\ containSubgraph \/ g = Root
        /\ peers' = Without(peers, UNION {AnchorsOf(m) : m \in {n} \cup lost})
        /\ nodes' = [h \in Graph |-> IF h = g THEN Remove(nodes[g], n)
                                     ELSE IF h \in Below(n) THEN << >> ELSE nodes[h]]
        /\ outs' = IF g = Root THEN SelectSeq(outs, LAMBDA o : NameOf[o[1]] # NameOf[n]) ELSE outs
        /\ owner' = [m \in Node |-> IF m \in lost THEN None ELSE owner[m]]
        /\ UNCHANGED <<born, outName, outMap, targets, ops>>
(* RemoveNode: the links go first, then the node leaves the registers of its  *)
(* graph (the outputs by name), with the subgraphs below it, whose nodes are  *)
(* destroyed and take their links along; then it has no owner any more.  It   *)
(* stays among the targets and in op_list_.                                   *)
RemoveNode(n, containSubgraph) ==
    LET g == owner[n]
        lost == UNION {ToSet(nodes[h]) : h \in Below(n)}
    IN  /\ Editing /\ Usable(n)
        /\ containSubgraph \/ g = Root
        /\ peers' = Without(peers, UNION {AnchorsOf(m) : m \in {n} \cup lost})
        /\ nodes' = [h \in Graph |-> IF h = g THEN Remove(nodes[g], n)
                                     ELSE IF h \in Below(n) THEN << >> ELSE nodes[h]]
        /\ outs' = IF g = Root THEN SelectSeq(outs, LAMBDA o : NameOf[o[1]] # NameOf[n]) ELSE outs
        /\ owner' = [m \in Node |-> IF m \in lost \cup {n} THEN None ELSE owner[m]]
        /\ UNCHANGED <<born, outName, outMap, targets, ops>>

-----------------------------------------------------------------------------
(* Outputs, targets and operators.                                            *)

FindNode(name) ==
    LET S == SelectSeq(nodes[Root], LAMBDA n : NameOf[n] = name)
    IN  IF S = << >> THEN None ELSE Head(S)

(* output_name_ += name:index;  Here a name is one character, as an index is. *)
Colon == <<":", None>>
Semicolon == <<";", None>>
AddPiece(o, piece) == o \o <<<<"name", piece[1]>>, Colon, <<"index", piece[2]>>, Semicolon>>
(* The last character is taken for a ";", also when nothing was added to what *)
(* the last call left without one.                                            *)
DelLast(o) == IF o = << >> THEN o ELSE Front(o)

(* SetUserDefOutput splits the string again; a piece with another number of   *)
(* ":" than one, or no index after it, says nothing.                          *)
Pieces(o, c) ==
    LET ends == {0, Len(o) + 1} \cup {k \in DOMAIN o : o[k] = c}
    IN  {SubSeq(o, e[1] + 1, e[2] - 1) : e \in {d \in ends \X ends : d[1] < d[2] /\ ends \cap d[1]+1..d[2]-1 = {}}}
SetUserDefOutput(m, o) ==
    m \cup {<<SubSeq(p, 1, FirstIndex(p, Colon) - 1), p[FirstIndex(p, Colon) + 1][2]>> :
            p \in {q \in Pieces(o, Semicolon) : \E k \in DOMAIN q :
                      /\ {i \in DOMAIN q : q[i] = Colon} = {k}
                      /\ k < Len(q) /\ q[k + 1][1] = "index"}}

(* The overloads for operators and for operators with indices; with none all  *)
(* outputs.  Nodes and indices that do not exist are skipped.  The name gets  *)
(* the place in the list and the node the index that stands there.            *)
Asked(name, indexs) ==
    LET n == FindNode(name)
        all == IF indexs = << >> THEN [k \in 1..OutNum[n] |-> k - 1] ELSE indexs
    IN  IF n = None THEN << >>
        ELSE SelectSeq([k \in DOMAIN all |-> [piece |-> <<name, k - 1>>, out |-> <<n, all[k]>>]],
                       LAMBDA r : HasOut(n, r.out[2]))
SetOutputs(asked) ==
    LET found == FlattenSeq([k \in DOMAIN asked |-> Asked(asked[k][1], asked[k][2])])
        name  == DelLast(FoldLeft(LAMBDA o, r : AddPiece(o, r.piece), outName, found))
    IN  /\ Editing
        /\ outName' = name
        /\ outMap' = SetUserDefOutput(outMap, name)
        /\ outs' = [k \in DOMAIN found |-> found[k].out]
        /\ UNCHANGED <<nodes, owner, born, peers, targets, ops>>

(* The overload for names of outputs (here their indices) stops at the first  *)
(* that does not exist, and declares nothing in out_nodes_map_.               *)
SetOutputsByName(asked) ==
    LET ok(r) == FindNode(r[1]) # None /\ HasOut(FindNode(r[1]), r[2])
        good == CHOOSE k \in 0..Len(asked) : /\ \A i \in 1..k : ok(asked[i])
                                             /\ k < Len(asked) => ~ok(asked[k + 1])
        name == FoldLeft(AddPiece, outName, SubSeq(asked, 1, good))
    IN  /\ Editing
        /\ IF good = Len(asked)
           THEN /\ outName' = DelLast(name)
                /\ outs' = [k \in DOMAIN asked |-> <<FindNode(asked[k][1]), asked[k][2]>>]
           ELSE outName' = name /\ UNCHANGED outs
        /\ UNCHANGED <<nodes, owner, born, peers, outMap, targets, ops>>

SetTargets(names) ==
    /\ Editing /\ names # << >>
    /\ targets' = SelectSeq([k \in DOMAIN names |-> FindNode(names[k])], LAMBDA n : n # None)
    /\ UNCHANGED <<nodes, owner, born, peers, outs, outName, outMap, ops>>

AddOp(name) ==
    /\ Editing /\ name \notin DOMAIN ops
    /\ ops' = (name :> [node |-> None, links |-> Producers[name]]) @@ ops
    /\ UNCHANGED <<nodes, owner, born, peers, outs, outName, outMap, targets>>

(* A later node of the same name takes the place of an earlier one.           *)
RecoverGraphOperators ==
    /\ Editing
    /\ ops' = FoldLeft(LAMBDA m, n : (NameOf[n] :> [node |-> n, links |-> {}]) @@ m, << >>, nodes[Root])
    /\ UNCHANGED <<nodes, owner, born, peers, outs, outName, outMap, targets>>

-----------------------------------------------------------------------------
(* Copies.  A copied node is named like its original, so it is written like   *)
(* it; the links are made anew, and so may come in another order.             *)

Reach(g) == IF g = Root THEN DirectSubs(ToSet(nodes[Root])) \cup
                             UNION {Below(n) : n \in ToSet(nodes[Root])} ELSE {}
NoLinks == [a \in DOMAIN peers |-> << >>]
(* A tree of graphs: its graphs, the node each subgraph belongs to, the links, *)
(* and the subgraphs that GetSubgraph finds, which asks the root.              *)
Tree == [nodes  |-> [g \in {Root} \cup Reach(Root) |-> nodes[g]],
         parent |-> [g \in Reach(Root) |-> ParentNode[g]], peers |-> peers, found |-> Reach(Root)]

(* Mutant: control edges are followed backwards.                              *)
RelinkFromConsumers(ps, p, n) ==
    LET ctrl == ps[InControlAnchor(n)]
        data == FlattenSeq([i \in 1..OutNum[n] |-> LET a == OutDataAnchor(n, i - 1)
                                                  IN  [k \in DOMAIN ps[a] |-> <<a, ps[a][k]>>]])
    IN  FoldLeft(LAMBDA q, e : LinkTo(q, e[1], e[2]), p,
                 data \o [k \in DOMAIN ctrl |-> <<ctrl[k], InControlAnchor(n)>>])
(* RelinkGraphEdges: from the outputs of a node, in the order of its peers.   *)
RelinkGraphEdges(ps, p, n) ==
    LET outputs == [i \in 1..OutNum[n] |-> OutDataAnchor(n, i - 1)] \o <<OutControlAnchor(n)>>
        links   == FlattenSeq([i \in DOMAIN outputs |->
                       [k \in DOMAIN ps[outputs[i]] |-> <<outputs[i], ps[outputs[i]][k]>>]])
    IN  FoldLeft(LAMBDA q, e : LinkTo(q, e[1], e[2]), p, links)
(* It fails at a peer that is not in the same graph.                          *)
Relinks(g) == \A n \in ToSet(nodes[g]) :
    \A a \in {x \in AnchorsOf(n) : IsOut(x)} : \A b \in ToSet(peers[a]) : owner[GetOwnerNode(b)] = g

Distinct(g) == \A i, j \in DOMAIN nodes[g] : NameOf[nodes[g][i]] = NameOf[nodes[g][j]] => i = j

(* CopyComputeGraph: the depth is counted up at every subgraph and never      *)
(* down, so it limits how many there are.                                     *)
FitsDepth == Cardinality(Reach(Root)) < MaxRecursionDepth
(* The copy of a subgraph is added to the copy of the graph that it is in     *)
(* directly, so the root's copy knows those of its own nodes.                 *)
OfRoot(r) == {g \in DOMAIN r.parent : Contains(r.nodes[Root], r.parent[g])}
CopyComputeGraph(r) ==
    LET relink(p, n) == RelinkGraphEdges(r.peers, p, n)
    IN  [nodes |-> r.nodes, parent |-> r.parent, found |-> OfRoot(r),
         peers |-> FoldLeft(LAMBDA p, g : FoldLeft(relink, p, r.nodes[g]), NoLinks, SetToSeq(DOMAIN r.nodes))]

(* CopyMembers fails when an output or a target is not in the graph any more. *)
MembersFit == /\ \A o \in ToSet(outs) : Contains(nodes[Root], o[1])
              /\ \A n \in ToSet(targets) : Contains(nodes[Root], n)
CopyMembers == [outs |-> outs, outMap |-> outMap, targets |-> targets, outName |-> outName]

(* CopyOperators: the operator of a node of the graph becomes that of the     *)
(* copied node, any other one is made anew.  CopyOperatorLinks connects them  *)
(* with SetInput, which refuses a producer that has not exactly one output.   *)
CopyOperators == [name \in DOMAIN ops |->
    [node |-> IF ops[name].node # None /\ Contains(nodes[Root], ops[name].node)
              THEN ops[name].node ELSE None,
     links |-> {p \in ops[name].links : \E n \in Node : NameOf[n] = p /\ OutNum[n] = 1}]]
OperatorsFit == \A name \in DOMAIN ops : ops[name].links \subseteq DOMAIN ops

Fits == /\ FitsDepth /\ MembersFit /\ OperatorsFit
        /\ \A g \in {Root} \cup Reach(Root) : Relinks(g)

CopyGraph ==
    /\ Running
    /\ \A g \in {Root} \cup Reach(Root) : Distinct(g)
    /\ copy' = IF Fits THEN CopyComputeGraph(Tree) @@ CopyMembers @@ [kind |-> "copy", ops |-> CopyOperators] ELSE None
    /\ UNCHANGED <<editVars, edits>>

(* A copy is copied as it stands, and everything in it fits.  A subgraph that *)
(* the copy does not find is a null pointer which CopyComputeGraph follows.   *)
CopyAgain ==
    /\ copy # None /\ copy.kind = "copy"
    /\ copy' = IF DOMAIN copy.parent \subseteq copy.found THEN CopyComputeGraph(copy) @@ copy
               ELSE [kind |-> "crashed"]
    /\ UNCHANGED <<editVars, edits>>

(* CloneGraph: the nodes of one graph without subgraphs, each name followed   *)
(* by prefix.  Constants without a weight stay out, and then their links fail.*)
(* The outputs are looked up by their old names among the new ones.           *)
CloneGraph(prefix) ==
    LET relink(p, n) == RelinkGraphEdges(peers, p, n) IN
    /\ Running /\ Distinct(Root)
    /\ copy' = IF Relinks(Root) /\ ToSet(nodes[Root]) \cap Weightless = {}
               THEN [kind |-> "clone", nodes |-> nodes[Root], prefix |-> prefix,
                     peers |-> FoldLeft(relink, NoLinks, nodes[Root]),
                     outs |-> IF prefix = "" THEN SelectSeq(outs, LAMBDA o : Contains(nodes[Root], o[1])) ELSE << >>]
               ELSE None
    /\ UNCHANGED <<editVars, edits>>

EditNext ==
    \/ \E n \in Node :
         \/ AddNodeByOp(n)
         \/ \E containSubgraph \in BOOLEAN : RemoveNode(n, containSubgraph)
    \/ \E src, dst \in Node :
         \/ \E i, j \in 0..1 : AddDataEdge(src, i, dst, j)
         \/ AddControlEdge(src, dst)
         \/ \E i, j \in -1..1 : RemoveEdge(src, i, dst, j)
    \/ \E m, n \in {NameOf[k] : k \in Node}, i \in 0..1 :
         \/ SetOutputs(<<<<m, << >>>>, <<n, <<i>>>>>>)
         \/ SetOutputsByName(<<<<m, 0>>, <<n, i>>>>)
         \/ SetTargets(<<m, n>>)
    \/ \E name \in DOMAIN Producers : AddOp(name)
    \/ RecoverGraphOperators

UserGraphNext == EditNext \/ CopyGraph \/ CopyAgain \/ \E prefix \in {"", "_clone"} : CloneGraph(prefix)

UserGraphSpec == UserGraphInit /\ [][UserGraphNext]_ugVars

-----------------------------------------------------------------------------
(* Properties.                                                                *)

(* A node that is in no graph any more has no links and is no output: handles *)
(* of it that are still locked cannot bring it back (Graph::RemoveNode,       *)
(* AddDataEdge), and other nodes do not see it (GNode's queries).             *)
RemovedForGood == \A n \in Node : (\A g \in Graph : ~Contains(nodes[g], n)) =>
    /\ \A a \in AnchorsOf(n) : peers[a] = << >>
    /\ \A k \in DOMAIN outs : outs[k][1] # n
    /\ \A m \in Node :
        /\ \A i \in 0..InNum[m]-1 : GetInDataNodesAndPortIndexs(m, i)[1] # n
        /\ \A i \in 0..OutNum[m]-1 : \A e \in ToSet(GetOutDataNodesAndPortIndexs(m, i)) : e[1] # n
        /\ ~Contains(GetInControlNodes(m), n) /\ ~Contains(GetOutControlNodes(m), n)

(* A copy has the nodes of the original in their order, the peers of every    *)
(* output in their order ("restored in the original one-to-many order" of     *)
(* RelinkGraphEdges), its tree, outputs, targets and operators, finds what is *)
(* directly below it, and is not reached by later edits (CopyGraph).  A copy  *)
(* of it, if it comes to be, is the same.                                     *)
Outputs(p) == [a \in {x \in DOMAIN p : IsOut(x)} |-> p[a]]
Inputs(p)  == [a \in {x \in DOMAIN p : ~IsOut(x)} |-> ToSet(p[a])]
View(r) == [nodes |-> r.nodes, parent |-> r.parent, outputs |-> Outputs(r.peers), inputs |-> Inputs(r.peers),
            found |-> r.found \cap OfRoot(r), outs |-> r.outs, outMap |-> r.outMap, targets |-> r.targets, outName |-> r.outName]
Current == CopyMembers @@ Tree
Copying == INSTANCE CopySpec WITH NoCopy <- None, original <- View(Current),
                 copy <- IF copy # None /\ copy.kind = "copy" THEN View(copy) ELSE None
(* A clone promises this of the outputs in one graph, without what is         *)
(* declared on it: an input whose producer is in another graph is left open.  *)
OneGraph(ns, p) == [nodes |-> ns, outputs |-> [a \in {x \in DOMAIN Outputs(p) : Contains(ns, GetOwnerNode(x))} |-> p[a]]]
Cloning == INSTANCE CopySpec WITH NoCopy <- None, original <- OneGraph(nodes[Root], peers),
                 copy <- IF copy # None /\ copy.kind = "clone" THEN OneGraph(copy.nodes, copy.peers) ELSE None
CopyPromise == Copying!CopySpec /\ Cloning!CopySpec

(* "The subgraphs should only be added to the root graph"                     *)
(* (ComputeGraph::AddSubgraph): a copy finds every subgraph of its tree.      *)
CopyFindsItsSubgraphs == copy # None /\ copy.kind = "copy" => DOMAIN copy.parent \subseteq copy.found

(* "copy info of output nodes from old graph to new graph" (CloneGraph): a    *)
(* clone has the outputs of its original.                                     *)
CloneKeepsOutputs == [][copy' # copy /\ copy' # None /\ copy'.kind = "clone" => copy'.outs = outs]_ugVars
=============================================================================
