---------------------------- MODULE ComputeGraph ----------------------------
(***************************************************************************)
(* The graph container: the node list of a graph with the size kept beside *)
(* it, its input and output nodes, and the tree of subgraphs.  A node      *)
(* names its subgraphs in instance slots; a subgraph points back to its    *)
(* parent node and graph; and a graph without a parent, a root, keeps the  *)
(* register in which the names are looked up.  The three can disagree: a   *)
(* graph that is built by itself is a root until it is attached, and       *)
(* whatever its own register holds must then move to the new root.         *)
(*                                                                         *)
(* The calls are sequential and each is one step.  Weak pointers do not    *)
(* expire: the caller keeps the graphs it built.                           *)
(***************************************************************************)
EXTENDS Naturals, FiniteSets, SequencesExt

CONSTANTS
    Graphs,     \* the graphs
    TreeNodes,  \* the nodes
    Names,      \* the names of graphs
    Namings,    \* the ways the graphs may be named
    Content,    \* the nodes each graph begins with
    Slots,      \* how many instance slots each node begins with
    DataNodes,  \* the nodes of type DATA
    OutIndexes, \* the output indexes of AddOutputNodeByIndex
    MaxSlots,   \* bound of the model: slots of a node
    MaxInputs,  \* bound of the model: entries of input_nodes_
    MaxSteps,   \* bound of the model: calls that are made
    None        \* no graph, no node, or the empty name

ASSUME ContentAssumption ==
    /\ None \notin Graphs \cup TreeNodes \cup Names
    /\ IsFiniteSet(Graphs) /\ IsFiniteSet(TreeNodes)
    /\ Namings \subseteq [Graphs -> Names]
    /\ Content \in [Graphs -> Seq(TreeNodes)]
    /\ \A g, h \in Graphs : \A i \in DOMAIN Content[g], j \in DOMAIN Content[h] :
           Content[g][i] = Content[h][j] => g = h /\ i = j
    /\ Slots \in [TreeNodes -> 0..MaxSlots]

VARIABLES
    graph,      \* the members of every graph
    owner,      \* the graph a node belongs to, None before it is created
    slots,      \* subgraph_instance_names_ of every node
    steps       \* how many calls were made

treeVars == <<graph, owner, slots, steps>>

(***************************************************************************)
(* sub_graph_ is list and names_to_subgraph_ is named.                     *)
(***************************************************************************)
TreeInit ==
    /\ \E naming \in Namings :
        graph = [g \in Graphs |->
            [name |-> naming[g], nodes |-> Content[g], size |-> Len(Content[g]),
             inputs |-> << >>, outputs |-> << >>,
             list |-> << >>, named |-> << >>,
             parentGraph |-> None, parentNode |-> None]]
    /\ owner = [n \in TreeNodes |->
            IF \E g \in Graphs : Contains(Content[g], n)
            THEN CHOOSE g \in Graphs : Contains(Content[g], n) ELSE None]
    /\ slots = [n \in TreeNodes |-> [i \in 1..Slots[n] |-> None]]
    /\ steps = 0

-----------------------------------------------------------------------------
(***************************************************************************)
(* Looking a subgraph up.                                                  *)
(***************************************************************************)

(* The graph at the end of the chain of parents. *)
FindRootGraph(G, h) ==
    LET up[k \in 0..Cardinality(Graphs)] ==
          IF k = 0 THEN h
          ELSE IF G[up[k - 1]].parentGraph = None THEN up[k - 1]
          ELSE G[up[k - 1]].parentGraph
    IN  up[Cardinality(Graphs)]

GetSubgraph(G, h, name) ==
    LET named == G[FindRootGraph(G, h)].named
    IN  IF name \in DOMAIN named THEN named[name] ELSE None

(***************************************************************************)
(* Nodes are visited from the front of a deque; the nodes of a node's      *)
(* subgraphs are put before what is left, the last subgraph first, so that *)
(* the first comes out first.                                              *)
(***************************************************************************)
Insertions(G, h, n, rest) ==
    LET last == Len(slots[n])
        put[k \in 0..last] ==
          IF k = 0 THEN [left |-> rest, found |-> << >>]
          ELSE LET g == GetSubgraph(G, h, slots[n][last - k + 1]) IN
               IF g = None THEN put[k - 1]
               ELSE [left |-> G[g].nodes \o put[k - 1].left, found |-> Append(put[k - 1].found, g)]
    IN  put[last]

(* The graphs a graph's nodes lead to, and those a node leads to. *)
LeadsTo(G, h, n) == {GetSubgraph(G, h, slots[n][i]) : i \in DOMAIN slots[n]} \ {None}
Under(G, h, n) ==
    LET up[k \in 0..Cardinality(Graphs)] ==
          IF k = 0 THEN LeadsTo(G, h, n)
          ELSE up[k - 1] \cup UNION {LeadsTo(G, h, m) :
                                     m \in UNION {ToSet(G[g].nodes) : g \in up[k - 1]}}
    IN  up[Cardinality(Graphs)]

(* A slot below a node that leads back to it: the visit does not end. *)
Endless(G, h, n) ==
    \E g \in Under(G, h, n) : \E m \in ToSet(G[g].nodes) : g \in Under(G, h, m)

(* More visits than a walk that ends can make with MaxSlots slots a node. *)
MaxVisits == 4 * Cardinality(TreeNodes)

Visit(G, h, seeds) ==
    LET walk[k \in 0..MaxVisits] ==
          IF k = 0 THEN [left |-> seeds, all |-> << >>, found |-> << >>]
          ELSE LET st == walk[k - 1] IN
               IF st.left = << >> THEN st
               ELSE LET put == Insertions(G, h, Head(st.left), Tail(st.left))
                    IN  [left |-> put.left, all |-> Append(st.all, Head(st.left)),
                         found |-> st.found \o put.found]
    IN  walk[MaxVisits]

AllGraphNodes(G, h) == Visit(G, h, G[h].nodes).all

-----------------------------------------------------------------------------
(***************************************************************************)
(* The register of a graph.  Every caller passes the subgraph's own name.  *)
(***************************************************************************)
Dropping(f, x) == [y \in DOMAIN f \ {x} |-> f[y]]

(* The entries of s that are in S, in their order. *)
Kept(s, S) ==
    LET kept[i \in 0..Len(s)] ==
          IF i = 0 THEN << >>
          ELSE IF s[i] \in S THEN Append(kept[i - 1], s[i]) ELSE kept[i - 1]
    IN  kept[Len(s)]

CanAddSubgraph(G, h, g) ==
    /\ G[g].parentGraph # None
    /\ G[g].parentNode # None
    /\ owner[G[g].parentNode] = G[g].parentGraph
    /\ G[g].name \notin DOMAIN G[h].named

AddSubgraph(G, h, g) ==
    IF ~CanAddSubgraph(G, h, g) THEN G
    ELSE [G EXCEPT ![h].list = Append(@, g),
                   ![h].named = [x \in DOMAIN @ \cup {G[g].name} |->
                                   IF x = G[g].name THEN g ELSE @[x]]]

RemoveSubgraph(G, h, name) ==
    IF name \notin DOMAIN G[h].named THEN G
    ELSE [G EXCEPT ![h].list = RemoveFirst(@, G[h].named[name]),
                   ![h].named = Dropping(@, name)]

(* RemoveSubgraph for each of a set of names; a register lists a graph once. *)
RemoveSubgraphs(G, h, names) ==
    LET named == G[h].named IN
    [G EXCEPT ![h].list = Kept(@, Graphs \ {named[x] : x \in names \cap DOMAIN named}),
              ![h].named = [x \in DOMAIN @ \ names |-> @[x]]]

(* The older function takes the graph, and erases by its name. *)
RemoveSubGraph(G, h, g) ==
    [G EXCEPT ![h].list = RemoveFirst(@, g), ![h].named = Dropping(@, G[g].name)]

(***************************************************************************)
(* At the end of a build, what the registers of the attached graphs hold   *)
(* moves to the root, depth first; todo holds <<from, graph>>.  A name the *)
(* root already has ends the move where it is.                             *)
(***************************************************************************)
Held(G, h) == [i \in DOMAIN G[h].list |-> <<h, G[h].list[i]>>]

MoveOne(st) ==
    LET from == Head(st.todo)[1]
        g == Head(st.todo)[2]
        root == FindRootGraph(st.G, from)
        added == AddSubgraph(st.G, root, g)
        moved == RemoveSubgraph(added, from, st.G[g].name)
    IN  IF ~CanAddSubgraph(st.G, root, g) THEN [st EXCEPT !.todo = << >>, !.ok = FALSE]
        ELSE [G |-> moved, todo |-> Held(moved, g) \o Tail(st.todo), ok |-> TRUE]

HeldBelow(G, h) ==
    LET list == G[h].list
        held[i \in 0..Len(list)] ==
          IF i = 0 THEN << >> ELSE held[i - 1] \o Held(G, list[i])
    IN  held[Len(list)]

Move(G, h) ==
    LET moved[k \in 0..Cardinality(Graphs)] ==
          IF k = 0 THEN [G |-> G, todo |-> HeldBelow(G, h), ok |-> TRUE]
          ELSE IF moved[k - 1].todo = << >> THEN moved[k - 1] ELSE MoveOne(moved[k - 1])
    IN  moved[Cardinality(Graphs)]

-----------------------------------------------------------------------------
Listed(n) == \E g \in Graphs : Contains(graph[g].nodes, n)

(***************************************************************************)
(* Nodes.  A caller adds a new node, which then belongs to the graph, or   *)
(* puts one back that was taken out.                                       *)
(***************************************************************************)
Addable(h, n) == ~Listed(n) /\ owner[n] \in {None, h}

PushBackToNodeList(G, h, n) ==
    [G EXCEPT ![h].nodes = Append(@, n), ![h].size = @ + 1]

EraseFromNodeList(G, h, n) ==
    [G EXCEPT ![h].nodes = RemoveFirst(@, n), ![h].size = @ - 1]

AddNode(h, n) ==
    /\ Addable(h, n)
    /\ graph' = PushBackToNodeList(graph, h, n)
    /\ owner' = [owner EXCEPT ![n] = h]
    /\ UNCHANGED slots

(* A DATA node stays first. *)
AddNodeFront(h, n) ==
    LET nodes == graph[h].nodes
        at == IF graph[h].size > 0 /\ nodes # << >> /\ Head(nodes) \in DataNodes THEN 2 ELSE 1
    IN  /\ Addable(h, n)
        /\ graph' = [graph EXCEPT ![h].nodes = InsertAt(@, at, n), ![h].size = @ + 1]
        /\ owner' = [owner EXCEPT ![n] = h]
        /\ UNCHANGED slots

EnsureListed(G, h, n) ==
    IF Contains(G[h].nodes, n) THEN G ELSE PushBackToNodeList(G, h, n)

AddInputNode(h, n) ==
    /\ owner[n] = h
    /\ Len(graph[h].inputs) < MaxInputs
    /\ graph' = EnsureListed([graph EXCEPT ![h].inputs = Append(@, n)], h, n)
    /\ UNCHANGED <<owner, slots>>

AddOutputNodeByIndex(h, n, index) ==
    /\ owner[n] = h
    /\ graph' = EnsureListed(
            IF Contains(graph[h].outputs, <<n, index>>) THEN graph
            ELSE [graph EXCEPT ![h].outputs = Append(@, <<n, index>>)], h, n)
    /\ UNCHANGED <<owner, slots>>

(* One entry of the input nodes goes, all of the output nodes. *)
RemoveInputNode(G, h, n) == [G EXCEPT ![h].inputs = RemoveFirst(@, n)]
RemoveOutputNode(G, h, n) == [G EXCEPT ![h].outputs = Kept(@, {o \in ToSet(@) : o[1] # n})]

(***************************************************************************)
(* Subgraphs.  A graph that is attached is a new one, built by itself: it  *)
(* has no parent and its node is not part of it.                           *)
(***************************************************************************)
Attachable(n, g) ==
    /\ Listed(n)
    /\ graph[g].parentNode = None
    /\ FindRootGraph(graph, owner[n]) # g

AddSubgraphName(n) ==
    /\ owner[n] # None
    /\ Len(slots[n]) < MaxSlots
    /\ slots' = [slots EXCEPT ![n] = Append(@, None)]
    /\ UNCHANGED <<graph, owner>>

Parented(n, g) ==
    [graph EXCEPT ![g].parentNode = n, ![g].parentGraph = owner[n]]

(* The name and the parents are set whether or not the register takes it;  *)
(* an index out of range changes nothing.                                  *)
SetSubgraph(n, index, g) ==
    LET root == FindRootGraph(graph, owner[n])
        G == Parented(n, g)
        inRange == index \in DOMAIN slots[n]
    IN  /\ Attachable(n, g)
        /\ slots' = IF inRange THEN [slots EXCEPT ![n][index] = graph[g].name] ELSE slots
        /\ graph' = IF inRange THEN AddSubgraph(G, root, g) ELSE graph
        /\ UNCHANGED owner

(* One round of the builder's loop over the slots of an operator, between  *)
(* which the user's own builder runs: register first, then the name.  The  *)
(* graph that is being built is still a root.                              *)
WalkAllSubgraphs(n, index, g) ==
    LET h == owner[n]
        G == Parented(n, g)
        ok == CanAddSubgraph(G, h, g)
    IN  /\ Attachable(n, g)
        /\ graph[h].parentGraph = None
        /\ index \in DOMAIN slots[n]
        /\ slots[n][index] = None
        /\ graph' = AddSubgraph(G, h, g)
        /\ slots' = IF ok THEN [slots EXCEPT ![n][index] = graph[g].name] ELSE slots
        /\ UNCHANGED owner

MoveSubgraphToRoot(h) ==
    /\ graph[h].parentGraph = None
    /\ graph[h].list # << >>
    /\ graph' = Move(graph, h).G
    /\ UNCHANGED <<owner, slots>>

RemoveSubgraphByName(h, name) ==
    /\ name \in DOMAIN graph[h].named
    /\ graph' = RemoveSubgraph(graph, h, name)
    /\ UNCHANGED <<owner, slots>>

(***************************************************************************)
(* Removing a node with everything below it; the names in its slots stay.  *)
(* A walk that does not end does not return: there is no such step.        *)
(***************************************************************************)
RemoveDirectSubgraphs(G, h, n) ==
    LET root == FindRootGraph(G, h)
    IN  FoldSet(LAMBDA g, H : RemoveSubGraph(H, root, g), G, LeadsTo(G, root, n))

RemoveSubgraphRecursively(G, h, n) ==
    LET root == FindRootGraph(G, h)
        found == Visit(G, root, <<n>>).found
        without[k \in 0..Len(found)] ==
          IF k = 0 THEN G ELSE RemoveSubGraph(without[k - 1], root, found[k])
    IN  without[Len(found)]

RemoveNodeWithoutRelink(h, n) ==
    LET G == RemoveOutputNode(RemoveInputNode(graph, h, n), h, n)
        here == Contains(graph[h].nodes, n)
    IN  /\ owner[n] = h
        /\ here => ~Endless(graph, h, n)
        /\ graph' = IF here THEN EraseFromNodeList(RemoveSubgraphRecursively(G, h, n), h, n)
                    ELSE G
        /\ UNCHANGED <<owner, slots>>

(***************************************************************************)
(* Removing only what is below a node.  Slot by slot the name is cleared   *)
(* and its graphs are collected; a name that leads nowhere, the empty name *)
(* of an unset slot too, ends the call with nothing taken out.             *)
(***************************************************************************)
Collected(named, sl, name) ==
    LET namesIn(x) == UNION {ToSet(sl[n]) : n \in ToSet(graph[named[x]].nodes)}
        more[k \in 0..Cardinality(Names)] ==
          IF k = 0 THEN {name}
          ELSE more[k - 1] \cup UNION {namesIn(x) : x \in more[k - 1] \cap DOMAIN named}
    IN  more[Cardinality(Names)]

Clear(s, name) ==
    IF Contains(s, name) THEN [s EXCEPT ![SelectInSeq(s, LAMBDA x : x = name)] = None] ELSE s

RemoveSubgraphsOnNode(n) ==
    LET root == FindRootGraph(graph, owner[n])
        named == graph[root].named
        names == slots[n]
        cleared[i \in 0..Len(names)] == IF i = 0 THEN names ELSE Clear(cleared[i - 1], names[i])
        Cleared(i) == [slots EXCEPT ![n] = cleared[i]]
        Below(i) == Collected(named, Cleared(i), names[i])
        Lost(i) == ~(Below(i) \subseteq DOMAIN named)
        ok == ~\E i \in DOMAIN names : Lost(i)
        last == IF ok THEN Len(names)
                ELSE CHOOSE i \in DOMAIN names : Lost(i) /\ \A j \in 1..(i - 1) : ~Lost(j)
    IN  /\ owner[n] # None
        /\ names # << >>
        /\ slots' = Cleared(last)
        /\ graph' = IF ok THEN RemoveSubgraphs(graph, root, UNION {Below(i) : i \in DOMAIN names})
                    ELSE graph
        /\ UNCHANGED owner

(***************************************************************************)
(* Two roots exchange all their members; then each claims its nodes.       *)
(***************************************************************************)
SetNodesOwner(own, G, h) == [n \in TreeNodes |-> IF Contains(G[h].nodes, n) THEN h ELSE own[n]]

SwapClaimingOnce(g, h) ==
    LET G == [graph EXCEPT ![g] = graph[h], ![h] = graph[g]]
    IN  /\ g # h
        /\ graph[g].parentGraph = None
        /\ graph[h].parentGraph = None
        /\ graph' = G
        /\ owner' = SetNodesOwner(owner, G, g)
        /\ UNCHANGED slots

Swap(g, h) ==
    LET G == [graph EXCEPT ![g] = graph[h], ![h] = graph[g]]
    IN  /\ g # h
        /\ graph[g].parentGraph = None
        /\ graph[h].parentGraph = None
        /\ graph' = G
        /\ owner' = SetNodesOwner(SetNodesOwner(owner, G, g), G, h)
        /\ UNCHANGED slots

TreeNext ==
    /\ steps < MaxSteps
    /\ steps' = steps + 1
    /\ \/ \E h \in Graphs, n \in TreeNodes :
            \/ AddNode(h, n)
            \/ AddNodeFront(h, n)
            \/ AddInputNode(h, n)
            \/ \E index \in OutIndexes : AddOutputNodeByIndex(h, n, index)
            \/ RemoveNodeWithoutRelink(h, n)
       \/ \E n \in TreeNodes :
            \/ AddSubgraphName(n)
            \/ RemoveSubgraphsOnNode(n)
            \/ \E index \in 1..MaxSlots, g \in Graphs :
                \/ SetSubgraph(n, index, g)
                \/ WalkAllSubgraphs(n, index, g)
       \/ \E h \in Graphs :
            \/ MoveSubgraphToRoot(h)
            \/ \E name \in Names : RemoveSubgraphByName(h, name)
            \/ \E g \in Graphs : Swap(g, h)

TreeSpec == TreeInit /\ [][TreeNext]_treeVars

-----------------------------------------------------------------------------
IsDistinct(s) == \A i, j \in DOMAIN s : s[i] = s[j] => i = j

(* The size that direct_nodes_size_ keeps is the length of the list, a     *)
(* node is in the list of one graph, once, and that graph is its owner.    *)
(* Swap exchanges lists, sizes and owners of two graphs.  The outputs of a *)
(* graph are in its list, each <<node, index>> once.                       *)
NodeListsAgree ==
    \A g \in Graphs :
        /\ graph[g].size = Len(graph[g].nodes)
        /\ IsDistinct(graph[g].nodes)
        /\ \A n \in ToSet(graph[g].nodes) : owner[n] = g
        /\ IsDistinct(graph[g].outputs)
        /\ \A o \in ToSet(graph[g].outputs) : Contains(graph[g].nodes, o[1])

(* The two halves of a register name the same graphs, each under its own   *)
(* name, and a graph is in one register at most: also when a clash of      *)
(* names stops a call half way.                                            *)
RegistersAgree ==
    \A g \in Graphs :
        /\ IsDistinct(graph[g].list)
        /\ ToSet(graph[g].list) = {graph[g].named[x] : x \in DOMAIN graph[g].named}
        /\ \A x \in DOMAIN graph[g].named : graph[graph[g].named[x]].name = x
        /\ \A h \in Graphs \ {g} : ToSet(graph[g].list) \cap ToSet(graph[h].list) = {}
(* The node leaves its list, or it stays and gives up its subgraphs. *)
TakenOut(n) == owner' = owner /\ ~Contains(graph'[owner[n]].nodes, n)
GivesUp(n) == slots'[n] # slots[n] /\ graph' # graph /\ ToSet(slots'[n]) = {None}

(* Below a node is exactly what goes with it: after the node is removed,   *)
(* or its subgraphs are, the register has lost every graph that its slots  *)
(* led to, at any depth, and no other.                                     *)
RemovalIsExact ==
    [][\A n \in {m \in TreeNodes : steps' # steps /\ Listed(m)} :
        TakenOut(n) \/ GivesUp(n) =>
            LET root == FindRootGraph(graph, owner[n]) IN
            ToSet(graph'[root].list) = ToSet(graph[root].list) \ Under(graph, root, n)]_treeVars

(* After a move that succeeds the root's register is the only one among    *)
(* its graphs, and no graph has left the registers.                        *)
MoveGathersAll ==
    [][\A h \in Graphs :
        steps' # steps /\ MoveSubgraphToRoot(h) /\ Move(graph, h).ok =>
            /\ \A g \in ToSet(graph'[h].list) : graph'[g].list = << >>
            /\ UNION {ToSet(graph'[g].list) : g \in Graphs} =
               UNION {ToSet(graph[g].list) : g \in Graphs}]_treeVars

(* The nodes of a graph with, right after each, those of its subgraphs in  *)
(* the order of the slots.                                                 *)
NodesInOrder(h) ==
    LET order[k \in 0..Cardinality(Graphs), g \in Graphs] ==
          FlattenSeq([i \in DOMAIN graph[g].nodes |->
            LET n == graph[g].nodes[i]
                below(j) == GetSubgraph(graph, h, slots[n][j])
            IN  <<n>> \o FlattenSeq([j \in DOMAIN slots[n] |->
                            IF k = 0 \/ below(j) = None THEN << >>
                            ELSE order[k - 1, below(j)]])])
    IN  order[Cardinality(Graphs), h]

(* GetAllNodes gives each node of the tree once, a subgraph's nodes right  *)
(* after the node they belong to, when no two graphs have the same name.   *)
AllNodesOnceInOrder ==
    IsInjective([g \in Graphs |-> graph[g].name]) =>
        \A h \in Graphs :
            /\ AllGraphNodes(graph, h) = NodesInOrder(h)
            /\ IsDistinct(AllGraphNodes(graph, h))

(* What the calls leave: whatever was attached, moved, removed or swapped    *)
(* before, lists, sizes, owners and registers agree.                         *)
ContainersAgree == NodeListsAgree /\ RegistersAgree

(* What goes with a node or moves to a root is a whole tree: RemoveNode,     *)
(* RemoveSubgraphsOnNode and MoveSubgraphToRoot leave nothing behind in a    *)
(* register and take nothing of another node; GetAllNodes lists the nodes of *)
(* the tree once each.                                                       *)
SubgraphsGoTogether == RemovalIsExact /\ MoveGathersAll /\ []AllNodesOnceInOrder
=============================================================================
