------------------------------ MODULE TopoSort ------------------------------
(***************************************************************************)
(* ComputeGraph::TopologicalSortingGraph: SortNodes, then the depth-first  *)
(* or the breadth-first traversal, one step per node or edge they visit,   *)
(* then the new node list and ids.                                         *)
(*                                                                         *)
(* A node has AnchorNum output data anchors.  The traversals read its out  *)
(* edges group by group: the data peers and the control peers of each data *)
(* anchor, then the peers of the output control anchor; out[n][g] holds    *)
(* the owners of those peers.  Every node is in the node list of the graph.*)
(***************************************************************************)
EXTENDS Integers, FiniteSets, Sequences, SequencesExt

CONSTANTS
    Nodes,          \* the nodes of the graph
    Arrival,        \* the order in which AddNode() got them
    Type,           \* what SortNodes and GetInEdgeSize see of their types
    NameOf,         \* their names, as numbers in the order of std::string
    InputsOrder,    \* inputs_order_, the names in the order the user asked for
    RunModes,       \* the values OPTION_GRAPH_RUN_MODE takes in the process
    AnchorNum,      \* how many output data anchors a node has
    Modulus,        \* 2^32, the width of the in-edge counters
    MaxEdges        \* bound of the model: how many edges the graph has

(* OPTION_GRAPH_RUN_MODE: not set, below TRAIN, TRAIN or above *)
Modes == {"unset", "predict", "train"}
Types == {"Data", "NextIteration", "Other"}

(* s lists every node, once *)
IsPermutation(s) ==
    /\ s \in Seq(Nodes)
    /\ Range(s) = Nodes
    /\ IsInjective(s)

ASSUME TopoAssumption ==
    /\ IsFiniteSet(Nodes)
    /\ IsPermutation(Arrival)
    /\ Type \in [Nodes -> Types]
    /\ NameOf \in [Nodes -> Nat]
    /\ InputsOrder \in Seq(Nat)
    /\ RunModes \subseteq Modes
    /\ AnchorNum \in Nat
    /\ MaxEdges \in Nat
    /\ Modulus \in Nat
    /\ MaxEdges < Modulus

Groups == 1..(2 * AnchorNum + 1)
IsDataGroup(g) == g % 2 = 1 /\ g <= 2 * AnchorNum

VARIABLES
    nodes,      \* nodes_, the node list
    id,         \* the id of each node's OpDesc
    out,        \* the out edges
    result,     \* what the last sort returned, "none" once the graph changed
    phase,      \* where the running sort is
    mode,       \* the run mode it read
    reverse,    \* dfs_reverse
    cnt,        \* map_in_edge_num
    stack,      \* stack of the DFS, stack_input of the BFS
    specs,      \* spec_node_size
    queue,      \* stack of the BFS, a deque
    fresh,      \* out_nodes of the DFS, breadth_node_map of the BFS
    vec,        \* node_vec
    i, j, inx,  \* indices of the loops of SortNodes, and inx_i
    group, pos  \* the next edge of the node at the end of vec

graph == <<nodes, id, out, result>>
order == <<i, j, inx>>
vars  == <<nodes, id, out, result, phase, mode, reverse, cnt, stack, specs,
           queue, fresh, vec, i, j, inx, group, pos>>

Edges  == UNION {{<<n, g, k>> : k \in 1..Len(out[n][g])} : n \in Nodes, g \in Groups}
Dst(e) == out[e[1]][e[2]][e[3]]
In(n)  == {e \in Edges : Dst(e) = n}

(* The edges GetInEdgeSize leaves out to break the loops of control flow. *)
Broken(n) == {e \in In(n) : IsDataGroup(e[2]) /\ Type[e[1]] = "NextIteration"}

-----------------------------------------------------------------------------
(* Mutant: control edges are not counted. *)
InEdgeSizeNoControl(n) == Cardinality({e \in In(n) \ Broken(n) : IsDataGroup(e[2])})

(* Mutant: the loops of control flow are not broken. *)
InEdgeSizeUnbroken(n) == Cardinality(In(n))

GetInEdgeSize(n) == Cardinality(In(n)) - Cardinality(Broken(n))

GetOutEdgeSize(n) ==
    Cardinality({e \in Edges : /\ e[1] = n
                               /\ \/ Type[n] # "NextIteration"
                                  \/ e[2] = 2 * AnchorNum + 1})

(* The locals of a sort, while no sort runs. *)
Idle ==
    /\ phase = "idle"
    /\ mode = "unset"
    /\ reverse = FALSE
    /\ cnt = [n \in Nodes |-> 0]
    /\ stack = << >> /\ specs = 0 /\ queue = << >> /\ fresh = << >> /\ vec = << >>
    /\ i = 1 /\ j = 1 /\ inx = 0
    /\ group = 1 /\ pos = 1

(* The ids after SetId(k) of the nodes of a list. *)
Numbered(old, list) ==
    [n \in Nodes |-> IF n \in Range(list)
                     THEN (CHOOSE k \in DOMAIN list : list[k] = n) - 1
                     ELSE old[n]]

Init ==
    /\ nodes = Arrival
    /\ id = Numbered([n \in Nodes |-> 0], Arrival)
    /\ out = [n \in Nodes |-> [g \in Groups |-> << >>]]
    /\ result = "none"
    /\ Idle

(* GraphUtils::AddEdge between two sorts. *)
AddEdge(src, g, dst) ==
    /\ phase = "idle"
    /\ Cardinality(Edges) < MaxEdges
    /\ out' = [out EXCEPT ![src][g] = Append(@, dst)]
    /\ result' = "none"
    /\ UNCHANGED <<nodes, id, phase, mode, reverse, cnt, stack, specs, queue,
                   fresh, vec, order, group, pos>>

TopologicalSortingGraph(m, rev) ==
    /\ phase = "idle"
    /\ phase' = "collect"
    /\ mode' = m
    /\ reverse' = rev
    /\ UNCHANGED <<graph, cnt, stack, specs, queue, fresh, vec, order, group, pos>>

Return(r) ==
    /\ result' = r
    /\ phase' = "idle"
    /\ mode' = "unset"
    /\ reverse' = FALSE
    /\ cnt' = [n \in Nodes |-> 0]
    /\ stack' = << >> /\ specs' = 0 /\ queue' = << >> /\ fresh' = << >> /\ vec' = << >>
    /\ i' = 1 /\ j' = 1 /\ inx' = 0
    /\ group' = 1 /\ pos' = 1

(* One round of the first loop of SortNodes. *)
CollectSource ==
    /\ phase = "collect"
    /\ i <= Len(nodes)
    /\ LET n == nodes[i]
           isSource == GetInEdgeSize(n) = 0
           isSpec   == Type[n] # "Data"
       IN IF isSource /\ isSpec /\ mode = "predict" /\ GetOutEdgeSize(n) = 0
          THEN Return("isolated") /\ UNCHANGED <<nodes, id, out>>
          ELSE /\ cnt' = [cnt EXCEPT ![n] = GetInEdgeSize(n)]
               /\ stack' = IF ~isSource THEN stack
                           ELSE InsertAt(stack, IF isSpec THEN 1 ELSE specs + 1, n)
               /\ specs' = IF isSource /\ isSpec THEN specs + 1 ELSE specs
               /\ i' = i + 1
               /\ UNCHANGED <<graph, phase, mode, reverse, queue, fresh, vec,
                              j, inx, group, pos>>

CollectDone ==
    /\ phase = "collect"
    /\ i > Len(nodes)
    /\ phase' = "swap"
    /\ i' = 1
    /\ UNCHANGED <<graph, mode, reverse, cnt, stack, specs, queue, fresh, vec,
                   j, inx, group, pos>>

(* The position of a name in inputs_order_, 0 if it is not there. *)
OrderOf(n) == SelectInSeq(InputsOrder, LAMBDA name : name = NameOf[n])

Swap(s, k, l) == [s EXCEPT ![k] = s[l], ![l] = s[k]]

(* The second loop of SortNodes.  inx is read when the loop comes to i, and  *)
(* not again after stack[i] has been swapped.                               *)
EnterI ==
    /\ phase = "swap"
    /\ i <= Len(stack)
    /\ j = i
    /\ IF OrderOf(stack[i]) = 0
       THEN i' = i + 1 /\ j' = i + 1 /\ inx' = inx
       ELSE i' = i /\ j' = i + 1 /\ inx' = OrderOf(stack[i])
    /\ UNCHANGED <<graph, phase, mode, reverse, cnt, stack, specs, queue, fresh,
                   vec, group, pos>>

MustSwap == OrderOf(stack[j]) # 0 /\ inx < OrderOf(stack[j])

CompareJ ==
    /\ phase = "swap"
    /\ i < j /\ j <= Len(stack)
    /\ stack' = IF MustSwap THEN Swap(stack, i, j) ELSE stack
    /\ j' = j + 1
    /\ UNCHANGED <<graph, phase, mode, reverse, cnt, specs, queue, fresh, vec,
                   i, inx, group, pos>>

(* Mutant: the outer loop does not go on. *)
LeaveIStuck ==
    /\ phase = "swap"
    /\ i <= Len(stack)
    /\ j > Len(stack)
    /\ i' = i /\ j' = i + 1
    /\ UNCHANGED <<graph, phase, mode, reverse, cnt, stack, specs, queue, fresh,
                   vec, inx, group, pos>>

LeaveI ==
    /\ phase = "swap"
    /\ i <= Len(stack)
    /\ j > Len(stack)
    /\ i' = i + 1 /\ j' = i + 1
    /\ UNCHANGED <<graph, phase, mode, reverse, cnt, stack, specs, queue, fresh,
                   vec, inx, group, pos>>

SwapDone ==
    /\ phase = "swap"
    /\ i > Len(stack)
    /\ phase' = "loop"
    /\ UNCHANGED <<graph, mode, reverse, cnt, stack, specs, queue, fresh, vec,
                   order, group, pos>>

-----------------------------------------------------------------------------
IsUseBFS == mode = "train"

(* Take the next node; the BFS returns to its inputs when its deque is empty. *)
Visit ==
    /\ phase = "loop"
    /\ \/ /\ queue # << >>
          /\ vec' = Append(vec, Last(queue))
          /\ queue' = Front(queue)
          /\ UNCHANGED stack
       \/ /\ queue = << >>
          /\ stack # << >>
          /\ vec' = Append(vec, Last(stack))
          /\ stack' = Front(stack)
          /\ UNCHANGED queue
    /\ phase' = "edges"
    /\ group' = 1 /\ pos' = 1
    /\ UNCHANGED <<graph, mode, reverse, cnt, specs, fresh, order>>

(* Mutant: a counter that can go below zero. *)
DecrementSigned(c) == c - 1

(* --iter->second on a uint32_t *)
Decrement(c) == IF c = 0 THEN Modulus - 1 ELSE c - 1

(* std::map::emplace: nothing happens when the name is there already. *)
Emplace(s, n) ==
    IF \E k \in 1..Len(s) : NameOf[s[k]] = NameOf[n] THEN s
    ELSE InsertAt(s, Cardinality({k \in 1..Len(s) : NameOf[s[k]] < NameOf[n]}) + 1, n)

(* One edge of the node just visited. *)
FollowEdge ==
    /\ phase = "edges"
    /\ group \in Groups
    /\ pos <= Len(out[Last(vec)][group])
    /\ LET n == out[Last(vec)][group][pos] IN
        /\ cnt' = [cnt EXCEPT ![n] = Decrement(@)]
        /\ fresh' = IF cnt'[n] # 0 THEN fresh
                    ELSE IF IsUseBFS THEN Emplace(fresh, n) ELSE Append(fresh, n)
    /\ pos' = pos + 1
    /\ UNCHANGED <<graph, phase, mode, reverse, stack, specs, queue, vec, order, group>>

(* Mutant: the group is never turned round. *)
NextGroupUnreversed ==
    /\ phase = "edges"
    /\ group \in Groups
    /\ pos > Len(out[Last(vec)][group])
    /\ IF IsUseBFS THEN UNCHANGED <<stack, fresh>>
       ELSE stack' = stack \o fresh /\ fresh' = << >>
    /\ group' = group + 1 /\ pos' = 1
    /\ UNCHANGED <<graph, phase, mode, reverse, cnt, specs, queue, vec, order>>

(* The end of a group: stack_push() in the DFS. *)
NextGroup ==
    /\ phase = "edges"
    /\ group \in Groups
    /\ pos > Len(out[Last(vec)][group])
    /\ IF IsUseBFS THEN UNCHANGED <<stack, fresh>>
       ELSE /\ stack' = stack \o (IF reverse THEN Reverse(fresh) ELSE fresh)
            /\ fresh' = << >>
    /\ group' = group + 1 /\ pos' = 1
    /\ UNCHANGED <<graph, phase, mode, reverse, cnt, specs, queue, vec, order>>

(* The end of the edges: push_front() of the breadth, in the order of names. *)
EdgesDone ==
    /\ phase = "edges"
    /\ group \notin Groups
    /\ queue' = Reverse(fresh) \o queue
    /\ fresh' = << >>
    /\ phase' = "loop"
    /\ UNCHANGED <<graph, mode, reverse, cnt, stack, specs, vec, order, group, pos>>

(* Mutant: the sizes are not compared. *)
AllVisitedUnchecked == TRUE

AllVisited == Len(vec) = Len(nodes)

Finish ==
    /\ phase = "loop"
    /\ queue = << >> /\ stack = << >>
    /\ IF AllVisited
       THEN /\ nodes' = vec
            /\ id' = Numbered(id, vec)
            /\ Return("sorted")
       ELSE UNCHANGED <<nodes, id>> /\ Return("loop")
    /\ UNCHANGED out

SortStep ==
    \/ CollectSource \/ CollectDone
    \/ EnterI \/ CompareJ \/ LeaveI \/ SwapDone
    \/ Visit \/ FollowEdge \/ NextGroup \/ EdgesDone
    \/ Finish

Next ==
    \/ \E src, dst \in Nodes, g \in Groups : AddEdge(src, g, dst)
    \/ \E m \in RunModes, rev \in BOOLEAN : TopologicalSortingGraph(m, rev)
    \/ SortStep

Spec == Init /\ [][Next]_vars

(* A sort that was called runs on. *)
FairSpec == Spec /\ WF_vars(SortStep)

-----------------------------------------------------------------------------
DataTypes ==
    /\ nodes \in Seq(Nodes) /\ stack \in Seq(Nodes) /\ queue \in Seq(Nodes)
    /\ fresh \in Seq(Nodes) /\ vec \in Seq(Nodes)
    /\ id \in [Nodes -> Int]
    /\ out \in [Nodes -> [Groups -> Seq(Nodes)]]
    /\ result \in {"none", "isolated", "loop", "sorted"}
    /\ phase \in {"idle", "collect", "swap", "loop", "edges"}
    /\ mode \in Modes
    /\ cnt \in [Nodes -> 0..(Modulus - 1)]
    /\ specs \in Nat /\ inx \in Nat
    /\ i \in Nat \ {0} /\ j \in Nat \ {0} /\ group \in Nat \ {0} /\ pos \in Nat \ {0}

(* The variables keep their types: no counter leaves the range of a uint32. *)
TypeOK == DataTypes /\ reverse \in BOOLEAN

(* The list always holds every node once: no sort, failed or not, with a    *)
(* wrapped counter or a name met twice, loses or doubles a node.            *)
NodeListIntact == IsPermutation(nodes)

(* After a sort every producer has a smaller id than its consumer, for the  *)
(* consumers that no NextIteration feeds.                                   *)
ProducersFirst ==
    result = "sorted" =>
        \A n \in Nodes : Broken(n) = {} => \A e \in In(n) : id[e[1]] < id[n]

(* A set of nodes each of which waits for another one of the set. *)
ClosedLoop ==
    \E S \in (SUBSET Nodes) \ {{}} :
        \A n \in S : \E e \in In(n) \ Broken(n) : e[1] \in S

UniqueNames == IsInjective(NameOf)

(* A sort reports a closed loop only if the graph has one, where the loops  *)
(* through NextIteration do not count.                                      *)
LoopIsReal == result = "loop" /\ UniqueNames => ClosedLoop

(* Where each NextIteration is downstream of the node it feeds, as in a     *)
(* while loop, the other producers of that node come first as well.         *)
Downstream(n) ==
    CHOOSE R \in SUBSET Nodes :
        /\ n \in R
        /\ \A e \in Edges : e[1] \in R /\ e \notin Broken(Dst(e)) => Dst(e) \in R
        /\ \A S \in SUBSET R : (n \in S /\ \A e \in Edges :
               e[1] \in S /\ e \notin Broken(Dst(e)) => Dst(e) \in S) => S = R

LoopsEnterFirst ==
    result = "sorted"
    /\ (\A n \in Nodes : \A e \in Broken(n) : e[1] \in Downstream(n))
        => \A n \in Nodes : \A e \in In(n) \ Broken(n) : id[e[1]] < id[n]

(* "nodes like (a) <--- (c) ---> (b)": of two nodes that wait for c alone,  *)
(* through the same list of peers, the DFS takes the one connected last     *)
(* first, and with dfs_reverse the one connected first.                     *)
SiblingOrder ==
    [][Finish /\ result' = "sorted" /\ ~IsUseBFS =>
        \A e, f \in Edges :
            /\ e[1] = f[1] /\ e[2] = f[2] /\ e[3] < f[3]
            /\ In(Dst(e)) = {e} /\ In(Dst(f)) = {f}
            /\ Broken(Dst(e)) = {} /\ Broken(Dst(f)) = {}
            => (reverse <=> id'[Dst(e)] < id'[Dst(f)])]_vars

(* The sort returns. *)
SortReturns == phase # "idle" ~> phase = "idle"

(* "Make sure the inputs order matches with user-designated": the inputs    *)
(* named in inputs_order_ come in that order.                               *)
InputsInUserOrder ==
    result = "sorted" =>
        \A m, n \in Nodes :
            /\ In(m) = {} /\ In(n) = {}
            /\ OrderOf(m) # 0 /\ OrderOf(m) < OrderOf(n)
            => id[m] < id[n]

(* The order that TopologicalSortingGraph gives beyond what the links ask:  *)
(* the producers of a node that a loop enters first, and siblings as the    *)
(* header says.                                                             *)
OrderIsAsDocumented == []LoopsEnterFirst /\ SiblingOrder
=============================================================================
