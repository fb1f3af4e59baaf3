----------------------------- MODULE GraphEdit ------------------------------
(***************************************************************************)
(* The functions of GraphUtils, NodeUtils and ComputeGraph that rewire a   *)
(* graph around a node, as operators on the peer lists of AnchorOps.       *)
(*                                                                         *)
(* Each function is a list of edge edits that stops at the first edit that *)
(* fails and leaves what was done so far: a state st of a call is a record *)
(* of the links so far (p), whether all went well (ok), whether the        *)
(* process died of it (crashed) and, for IsolateNode, the pairs of nodes   *)
(* it has joined by a data link (data).                                    *)
(***************************************************************************)
EXTENDS AnchorOps, FiniteSets

CONSTANTS
    Nodes,      \* the nodes
    InNum,      \* how many data inputs each node has
    OutNum,     \* how many data outputs each node has
    Constants   \* the nodes of type Const or Constant

ASSUME GraphAssumption ==
    /\ IsFiniteSet(Nodes)
    /\ InNum \in [Nodes -> Nat]
    /\ OutNum \in [Nodes -> Nat]
    /\ Constants \subseteq Nodes

GetAllInDataAnchors(n)  == [i \in 1..InNum[n] |-> InDataAnchor(n, i - 1)]
GetAllOutDataAnchors(n) == [i \in 1..OutNum[n] |-> OutDataAnchor(n, i - 1)]

AnchorsOf(n) ==
    ToSet(GetAllInDataAnchors(n)) \cup ToSet(GetAllOutDataAnchors(n))
        \cup {InControlAnchor(n), OutControlAnchor(n)}

(* GetPeerInDataAnchors, GetPeerOutControlAnchors, ...: a snapshot of one  *)
(* kind of peers.                                                          *)
Peers(p, a, kind) == SelectSeq(p[a], LAMBDA b : Kind(b) = kind)

Owners(s) == [i \in 1..Len(s) |-> GetOwnerNode(s[i])]

(* GetPeerOutAnchor is null unless the first peer is a data output. *)
HasProducer(p, in) == p[in] # << >> /\ Kind(Head(p[in])) = "outData"

GetInDataNodes(p, n) ==
    LET fed == SelectSeq(GetAllInDataAnchors(n), LAMBDA a : HasProducer(p, a))
    IN  Owners([i \in 1..Len(fed) |-> Head(p[fed[i]])])

GetInControlNodes(p, n) == Owners(Peers(p, InControlAnchor(n), "outControl"))

(* Node::GetInNodes: every node a data or control link comes from. *)
GetInNodes(p, n) ==
    ToSet(GetInDataNodes(p, n)) \cup ToSet(Owners(p[InControlAnchor(n)]))

(* Node::GetOutNodes leaves out the links from a data output to a control  *)
(* input, and so does all that is built on it.                             *)
GetOutNodes(p, n) ==
    UNION {ToSet(Owners(Peers(p, OutDataAnchor(n, i), "inData"))) : i \in 0..(OutNum[n] - 1)}
        \cup ToSet(Owners(Peers(p, OutControlAnchor(n), "inControl")))

(* Node::GetOutControlNodes, which does not leave them out. *)
GetOutControlNodes(p, n) ==
    FlattenSeq([i \in 1..OutNum[n] |-> Owners(Peers(p, OutDataAnchor(n, i - 1), "inControl"))])
        \o Owners(p[OutControlAnchor(n)])

(* Node::GetOutAllNodes *)
GetOutAllNodes(p, n) ==
    FlattenSeq([i \in 1..OutNum[n] |->
                    Owners(Peers(p, OutDataAnchor(n, i - 1), "inData"))
                        \o Owners(Peers(p, OutDataAnchor(n, i - 1), "inControl"))])
        \o Owners(p[OutControlAnchor(n)])

-----------------------------------------------------------------------------
(* Calls and their edits *)

Start(p) == [p |-> p, ok |-> TRUE, crashed |-> FALSE, data |-> {}]

Fail(st) == [st EXCEPT !.ok = FALSE]

AddEdge(src, dst)    == [op |-> "AddEdge", src |-> src, dst |-> dst]
RemoveEdge(src, dst) == [op |-> "RemoveEdge", src |-> src, dst |-> dst]

Edit(st, e) ==
    IF ~st.ok THEN st
    ELSE IF e.op = "AddEdge"
         THEN [st EXCEPT !.p = LinkTo(@, e.src, e.dst), !.ok = CanLink(st.p, e.src, e.dst)]
         ELSE [st EXCEPT !.p = Unlink(@, e.src, e.dst), !.ok = CanUnlink(st.p, e.src, e.dst)]

Edits(st, es) == FoldLeft(Edit, st, es)

(* Apply Do to the elements of s in turn, until one fails. *)
ForEach(st, s, Do(_, _)) ==
    FoldLeft(LAMBDA u, x : IF u.ok THEN Do(u, x) ELSE u, st, s)

(* The edits that take the links old -> dsts[i] over to new. *)
Rehang(old, new, dsts) ==
    FlattenSeq([i \in 1..Len(dsts) |->
                    <<RemoveEdge(old, dsts[i]), AddEdge(new, dsts[i])>>])

UnlinkAll(p, a) == Without(p, {a})

-----------------------------------------------------------------------------
(* GraphUtils::IsolateNode *)

(* One round of RelinkDataIO: output i of node.  The producer of input     *)
(* io_map[i] lets go of node before its consumers are moved to it.         *)
RelinkOutput(st, node, io_map, i) ==
    LET out == OutDataAnchor(node, i)
        in_index == IF i < Len(io_map) THEN io_map[i + 1] ELSE -1
        in == InDataAnchor(node, in_index)
        dsts == Peers(st.p, out, "inData")
    IN  CASE in_index < 0 -> [st EXCEPT !.p = UnlinkAll(@, out)]
          [] in_index >= InNum[node] -> Fail(st)
          [] OTHER ->
                IF ~HasProducer(st.p, in) THEN st
                ELSE LET pre == Head(st.p[in])
                         moved == Edits(st, <<RemoveEdge(pre, in)>> \o Rehang(out, pre, dsts))
                     IN  [moved EXCEPT !.data = @ \cup
                            {<<GetOwnerNode(pre), d>> : d \in ToSet(Owners(dsts))}]

RelinkDataIO(st, node, io_map) ==
    IF OutNum[node] < Len(io_map) THEN Fail(st)
    ELSE LET done == ForEach(st, [i \in 1..OutNum[node] |-> i - 1],
                             LAMBDA u, i : RelinkOutput(u, node, io_map, i))
         IN  IF done.ok
             THEN [done EXCEPT !.p = Without(@, ToSet(GetAllInDataAnchors(node)))]
             ELSE done

GetFullConnectIONodes(p, node) == GetInNodes(p, node) \X GetOutNodes(p, node)

(* Mutant: a control link is taken for enough when any data link joins the *)
(* input node with some output node.                                       *)
UnconnectedByProducer(st, full) ==
    {c \in full : /\ c[1] # c[2]
                  /\ \A d \in st.data : d[1] # c[1]
                  /\ ~IsLinkedWith(st.p, OutControlAnchor(c[1]), InControlAnchor(c[2]))}

(* RelinkControlNodeIfNeed: the pairs that still need a control link. *)
Unconnected(st, full) ==
    {c \in full : /\ c[1] # c[2]
                  /\ c \notin st.data
                  /\ ~IsLinkedWith(st.p, OutControlAnchor(c[1]), InControlAnchor(c[2]))}

(* They are visited in the order of an unordered_map of unordered_sets:    *)
(* all pairs of one input node together, otherwise in any order.           *)
HashOrders(pairs) ==
    {s \in SetToSeqs(pairs) :
        \A i, j, k \in 1..Len(s) : i < j /\ j < k /\ s[i][1] = s[k][1] => s[j][1] = s[i][1]}

(* Mutant: the links of the node are left to its destructor. *)
IsolateNodeKeepingControl(p, node, io_map) ==
    LET full == GetFullConnectIONodes(p, node)
        st == RelinkDataIO(Start(p), node, io_map)
    IN  IF ~st.ok THEN {st}
        ELSE {Edits(st, [i \in 1..Len(s) |->
                    AddEdge(OutControlAnchor(s[i][1]), InControlAnchor(s[i][2]))])
              : s \in HashOrders(Unconnected(st, full))}

(* The possible outcomes of the call. *)
IsolateNode(p, node, io_map) ==
    LET full == GetFullConnectIONodes(p, node)
        st == RelinkDataIO(Start(p), node, io_map)
    IN  IF ~st.ok THEN {st}
        ELSE {[Edits(st, [i \in 1..Len(s) |->
                    AddEdge(OutControlAnchor(s[i][1]), InControlAnchor(s[i][2]))])
               EXCEPT !.p = Without(@, AnchorsOf(node))]
              : s \in HashOrders(Unconnected(st, full))}

-----------------------------------------------------------------------------
(* ComputeGraph::IsolateNode *)

(* The links that node's outputs have towards control inputs go to the     *)
(* anchor pre of a node before it.                                         *)
RehangControl(st, node, from, pre) ==
    ForEach(st, from, LAMBDA u, out : Edits(u, Rehang(out, pre, Peers(u.p, out, "inControl"))))

(* Mutant: a constant is taken for a producer like any other. *)
BypassAnyInput(st, node, in) ==
    IF ~HasProducer(st.p, in) THEN st
    ELSE LET pre == Head(st.p[in])
         IN  ForEach(Edit(st, RemoveEdge(pre, in)), GetAllOutDataAnchors(node), LAMBDA u, out :
                Edits(u, Rehang(out, pre, Peers(u.p, out, "inData"))))

(* One data input: the first one with a producer that is no constant gets  *)
(* every consumer of node, whatever the output.                            *)
BypassDataInput(st, node, in) ==
    IF ~HasProducer(st.p, in) THEN st
    ELSE LET pre == Head(st.p[in])
             cut == Edit(st, RemoveEdge(pre, in))
             data == ForEach(cut, GetAllOutDataAnchors(node), LAMBDA u, out :
                        Edits(u, Rehang(out, pre, Peers(u.p, out, "inData"))
                                 \o Rehang(out, pre, Peers(u.p, out, "inControl"))))
         IN  IF GetOwnerNode(pre) \in Constants THEN cut
             ELSE RehangControl(data, node, <<OutControlAnchor(node)>>,
                                OutControlAnchor(GetOwnerNode(pre)))

BypassControlInput(st, node, pre) ==
    RehangControl(RehangControl(Edit(st, RemoveEdge(pre, InControlAnchor(node))),
                                node, GetAllOutDataAnchors(node), pre),
                  node, <<OutControlAnchor(node)>>, pre)

(* A producer linked to node's control input precedes all the nodes after. *)
BypassDataToControl(st, node, pre, next_nodes) ==
    Edits(st, <<RemoveEdge(pre, InControlAnchor(node))>>
                \o [i \in 1..Len(next_nodes) |-> AddEdge(pre, InControlAnchor(next_nodes[i]))])

RemoveEdges(src, dsts) == [i \in 1..Len(dsts) |-> RemoveEdge(src, dsts[i])]

RemoveExtraOutEdge(st, node) ==
    LET data == ForEach(st, GetAllOutDataAnchors(node), LAMBDA u, out :
                    Edits(u, RemoveEdges(out, Peers(u.p, out, "inData")
                                              \o Peers(u.p, out, "inControl"))))
        out_ctrl == OutControlAnchor(node)
    IN  Edits(data, RemoveEdges(out_ctrl, Peers(data.p, out_ctrl, "inControl")))

BypassNode(p, node) ==
    LET next_nodes == GetOutAllNodes(p, node)
        data == ForEach(Start(p), GetAllInDataAnchors(node),
                        LAMBDA u, in : BypassDataInput(u, node, in))
        ctrl == ForEach(data, Peers(data.p, InControlAnchor(node), "outControl"),
                        LAMBDA u, pre : BypassControlInput(u, node, pre))
        both == ForEach(ctrl, Peers(ctrl.p, InControlAnchor(node), "outData"),
                        LAMBDA u, pre : BypassDataToControl(u, node, pre, next_nodes))
    IN  IF both.ok THEN RemoveExtraOutEdge(both, node) ELSE both

(* ComputeGraph::RemoveConstInput: the constants that fed the node are cut   *)
(* off, and those that nobody else needs are taken from the list of nodes.  *)
RemoveConstInput(p, node) ==
    LET fed == SelectSeq(GetAllInDataAnchors(node), LAMBDA in :
                    HasProducer(p, in) /\ GetOwnerNode(Head(p[in])) \in Constants)
        cut == FoldLeft(LAMBDA q, in : Unlink(q, Head(q[in]), in), p, fed)
    IN  [p |-> cut,
         erased |-> {c \in {GetOwnerNode(Head(p[in])) : in \in ToSet(fed)} : GetOutNodes(cut, c) = {}}]

(* ComputeGraph::RemoveNode; the node leaves the list when it is isolated.   *)
RemoveNode(p, node) ==
    LET consts == RemoveConstInput(p, node)
        st == BypassNode(consts.p, node)
    IN  [st |-> st, erased |-> consts.erased \cup (IF st.ok THEN {node} ELSE {})]

-----------------------------------------------------------------------------
(* GraphUtils::ReplaceNodeAnchors and the functions it is made of.  A map   *)
(* lists, for each anchor of the new node, the index of the anchor of the  *)
(* old one it takes over, or -1; .at() throws on an index out of range.    *)

ReplaceOutDataAnchors(st, new, old, outputs_map) ==
    IF OutNum[new] < Len(outputs_map) THEN Fail(st)
    ELSE ForEach(st, [i \in 1..Len(outputs_map) |-> i], LAMBDA u, i :
            IF outputs_map[i] < 0 THEN u
            ELSE LET old_out == OutDataAnchor(old, outputs_map[i])
                 IN  Edits(u, Rehang(old_out, OutDataAnchor(new, i - 1),
                                     Peers(u.p, old_out, "inData"))))

ReplaceInDataAnchors(st, new, old, inputs_map) ==
    IF InNum[new] < Len(inputs_map) THEN Fail(st)
    ELSE ForEach(st, [i \in 1..Len(inputs_map) |-> i], LAMBDA u, i :
            LET old_in == InDataAnchor(old, inputs_map[i])
            IN  IF inputs_map[i] < 0 THEN u
                ELSE IF ~HasProducer(u.p, old_in) THEN u
                ELSE Edits(u, <<RemoveEdge(Head(u.p[old_in]), old_in),
                                AddEdge(Head(u.p[old_in]), InDataAnchor(new, i - 1))>>))

ReplaceNodeDataAnchors(st, new, old, inputs_map, outputs_map) ==
    LET outs == ReplaceOutDataAnchors(st, new, old, outputs_map)
    IN  IF outs.ok THEN ReplaceInDataAnchors(outs, new, old, inputs_map) ELSE outs

(* Mutant: the control links out of old are forgotten. *)
ReplaceInControlAnchors(st, new, old) ==
    Edits(st, [i \in 1..Len(st.p[InControlAnchor(old)]) |->
                AddEdge(st.p[InControlAnchor(old)][i], InControlAnchor(new))])

(* The control links of old are copied, not moved, unless new has them. *)
ReplaceControlAnchors(st, new, old) ==
    LET missing(u, a, b) == SelectSeq(u.p[b], LAMBDA c : ~Contains(u.p[a], c))
        ins == missing(st, InControlAnchor(new), InControlAnchor(old))
        in_done == Edits(st, [i \in 1..Len(ins) |-> AddEdge(ins[i], InControlAnchor(new))])
        outs == missing(in_done, OutControlAnchor(new), OutControlAnchor(old))
    IN  Edits(in_done, [i \in 1..Len(outs) |-> AddEdge(OutControlAnchor(new), outs[i])])

ReplaceNodeAnchors(p, new, old, inputs_map, outputs_map) ==
    LET data == ReplaceNodeDataAnchors(Start(p), new, old, inputs_map, outputs_map)
    IN  IF data.ok THEN ReplaceControlAnchors(data, new, old) ELSE data

-----------------------------------------------------------------------------
(* Copying and moving the links of one kind *)

CopyInCtrlEdges(p, src, dst) ==
    LET new == SelectSeq(GetInControlNodes(p, src),
                         LAMBDA n : ~Contains(GetInControlNodes(p, dst), n))
    IN  Edits(Start(p), [i \in 1..Len(new) |->
            AddEdge(OutControlAnchor(new[i]), InControlAnchor(dst))])

(* Mutant: the links are gone before they are copied. *)
MoveUnlinkedCtrlEdges(p, src, dst) ==
    CopyInCtrlEdges(UnlinkAll(p, InControlAnchor(src)), src, dst)

MoveInCtrlEdges(p, src, dst) ==
    LET st == CopyInCtrlEdges(p, src, dst)
    IN  IF st.ok THEN [st EXCEPT !.p = UnlinkAll(@, InControlAnchor(src))] ELSE st

CopyOutCtrlEdges(p, src, dst) ==
    LET new == SelectSeq(GetOutControlNodes(p, src),
                         LAMBDA n : ~Contains(GetOutControlNodes(p, dst), n))
    IN  Edits(Start(p), [i \in 1..Len(new) |->
            AddEdge(OutControlAnchor(dst), InControlAnchor(new[i]))])

MoveOutCtrlEdges(p, src, dst) ==
    LET st == CopyOutCtrlEdges(p, src, dst)
    IN  IF st.ok THEN [st EXCEPT !.p = UnlinkAll(@, OutControlAnchor(src))] ELSE st

(* GraphUtils::CopyInDataEdges fails at the first input of src without a   *)
(* producer, once it has seen that src has one at all; the message it then *)
(* writes asks the null producer for its owner.                            *)
CopyInDataEdges(p, src, dst) ==
    IF GetInDataNodes(p, src) = << >> THEN Start(p)
    ELSE ForEach(Start(p), [i \in 1..InNum[src] |-> i - 1], LAMBDA u, i :
            IF ~HasProducer(u.p, InDataAnchor(src, i))
            THEN [u EXCEPT !.ok = FALSE, !.crashed = TRUE]
            ELSE IF i >= InNum[dst] THEN Fail(u)
            ELSE Edit(u, AddEdge(Head(u.p[InDataAnchor(src, i)]), InDataAnchor(dst, i))))

(* NodeUtils::MoveOutputEdges carries on when a link cannot be moved. *)
MoveOutputEdges(p, origin, new) ==
    IF OutNum[origin] # OutNum[new] THEN Fail(Start(p))
    ELSE LET Try(q, e) == Edit([Start(p) EXCEPT !.p = q], e).p
             moves == FlattenSeq([i \in 1..OutNum[origin] |->
                        LET from == OutDataAnchor(origin, i - 1)
                        IN  Rehang(from, OutDataAnchor(new, i - 1),
                                   Peers(p, from, "inData") \o Peers(p, from, "inControl"))])
             from == OutControlAnchor(origin)
             peers == Peers(p, from, "inControl") \o Peers(p, from, "inData")
             links == [i \in 1..Len(peers) |-> AddEdge(OutControlAnchor(new), peers[i])]
         IN  [Start(p) EXCEPT !.p = UnlinkAll(FoldLeft(Try, p, moves \o links), from)]

(* Mutant: the control links of src are cut and not made again. *)
InsertNodeCuttingControl(p, src, dsts, node, input_index, output_index, is_switch) ==
    LET from == OutControlAnchor(GetOwnerNode(src))
        first == Edit(Start(p), AddEdge(src, InDataAnchor(node, input_index)))
    IN  ForEach(first, dsts, LAMBDA u, dst :
            Edits(u, <<RemoveEdge(src, dst), AddEdge(OutDataAnchor(node, output_index), dst)>>
                     \o RemoveEdges(from, Peers(u.p, from, "inControl"))))

(* GraphUtils::InsertNodeAfter: the control links of src go to the inserted *)
(* node too, unless src belongs to a switch.                                *)
InsertNodeAfter(p, src, dsts, node, input_index, output_index, is_switch) ==
    LET from == OutControlAnchor(GetOwnerNode(src))
        first == Edit(Start(p), AddEdge(src, InDataAnchor(node, input_index)))
    IN  ForEach(first, dsts, LAMBDA u, dst :
            LET cut == [u EXCEPT !.p = Unlink(@, src, dst)]
                data == Edit(cut, AddEdge(OutDataAnchor(node, output_index), dst))
            IN  IF is_switch THEN data
                ELSE Edits(data, Rehang(from, OutControlAnchor(node),
                                        Peers(data.p, from, "inControl"))))

(* GraphUtils::InsertTransNode puts the nodes of vec between an input and    *)
(* its producer, each behind the one before it.  With both attributes of    *)
(* formats it fails, once the node is linked, at a check that asks for the  *)
(* consumers of the new output to be none: no format is ever set.           *)
InsertTransNode(p, in, vec, has_formats) ==
    ForEach(Start(p), vec, LAMBDA u, node :
        IF ~HasProducer(u.p, in) THEN Fail(u)
        ELSE LET src == Head(u.p[in])
                 linked == Edits(u, <<RemoveEdge(src, in), AddEdge(src, InDataAnchor(node, 0)),
                                      AddEdge(OutDataAnchor(node, 0), in)>>)
             IN  IF node \in has_formats THEN Fail(linked) ELSE linked)
=============================================================================
