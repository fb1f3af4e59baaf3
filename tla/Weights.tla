-------------------------------- MODULE Weights --------------------------------
(* The inputs of a node and the constants behind them: Node::AddLinkFrom      *)
(* (graph/node.cc), the input anchors and the searches for constants of       *)
(* NodeUtils (graph/utils/node_utils.cc) and the weights of OpDescUtils       *)
(* (graph/utils/op_desc_utils.cc).                                            *)
(*                                                                            *)
(* A node is a record: its kind, the graph that lists it, for each input the  *)
(* node whose only output feeds it, the descriptions of its inputs and of its *)
(* output, the weight it holds, is_input_const, the statuses of its anchors   *)
(* (none until they are set) and, of an Enter, the "is constant" attribute,   *)
(* of a Data, whether it leads straight to the NetOutput of its graph at its  *)
(* own index.  The operations work on a record [net, made, ok]: the nodes,    *)
(* how many constants were made and whether all calls succeeded.              *)
(*                                                                            *)
(* What is left to the callers: inputs are removed from the end after they    *)
(* were unlinked, and the nodes that gain or lose inputs have no optional     *)
(* input without a description.                                               *)
EXTENDS OpDesc

CONSTANTS NewConsts,    \* the names of the constants to be made, in order
          Tensor, NoTensor, NoNode, NoGraph,
          ParentNode,   \* subgraph -> the node it belongs to
          ParentIndex,  \* Data of a subgraph -> the index of its parent's input
          Outs,         \* node -> the number of its outputs
          ParentOf,     \* PlaceHolder -> the node it stands for in another graph
          Editable,     \* the nodes that the program edits
          MaxEdits

VARIABLES net, made, edits,
          call          \* the weights call that was made last: its node and its argument

weightVars == <<net, made, edits, call>>
NoCall == [of |-> "", node |-> NoNode, with |-> << >>]

Fed(s, n)      == {i \in DOMAIN s[n].peer : s[n].peer[i] # NoNode}
IsConst(k)     == k \in {"Const", "Constant"}
TensorDesc(t)  == [type |-> t, format |-> "ND"]
WhileTypes     == {"While", "_While", "StatelessWhile"}

-----------------------------------------------------------------------------
(* Which constant an input gets: three searches, and two narrower ones.       *)

(* NodeUtils::GetParentInput *)
GetParentInput(s, d) ==
    LET p == IF s[d].home \in DOMAIN ParentNode THEN ParentNode[s[d].home] ELSE NoNode
    IN  IF d \notin DOMAIN ParentIndex \/ p = NoNode THEN NoNode
        ELSE IF ParentIndex[d] >= Len(s[p].peer) THEN NoNode ELSE s[p].peer[ParentIndex[d] + 1]

InWhile(s, d) == s[d].home \in DOMAIN ParentNode /\ s[ParentNode[s[d].home]].kind \in WhileTypes
IsWhileVaryingInput(s, d) == InWhile(s, d) /\ d \in DOMAIN ParentIndex /\ ~s[d].flag

(* OpDescUtils::GetConstInputNode, for the producer of one input: through     *)
(* subgraphs, unless a loop changes the value, and through constant Enters.   *)
ConstNode(s, p) ==
    LET behind[n \in DOMAIN s \cup {NoNode}] ==
          IF n = NoNode THEN NoNode
          ELSE IF IsConst(s[n].kind) THEN n
          ELSE IF s[n].kind = "Data"
               THEN IF IsWhileVaryingInput(s, n) THEN NoNode ELSE behind[GetParentInput(s, n)]
          ELSE IF s[n].kind \in {"Enter", "RefEnter"} /\ s[n].flag /\ Cardinality(Fed(s, n)) = 1
               THEN behind[s[n].peer[CHOOSE i \in Fed(s, n) : TRUE]]
          ELSE NoNode
    IN  behind[p]
GetConstInputNode(s, n) ==
    SelectSeq([i \in DOMAIN s[n].peer |-> ConstNode(s, s[n].peer[i])], LAMBDA c : c # NoNode)

(* The node that a climb from subgraph to parent stops at.                    *)
Climb(s, p) ==
    LET up[n \in DOMAIN s \cup {NoNode}] ==
          IF n = NoNode \/ s[n].kind # "Data" THEN n ELSE up[GetParentInput(s, n)]
    IN  up[p]

(* NodeUtils::GetConstOpType: a type, or "" when there is no constant.        *)
GetConstOpType(s, p) ==
    LET c == IF p = NoNode THEN NoNode ELSE Climb(s, p)
    IN  IF c # NoNode /\ IsConst(s[c].kind) THEN s[c].kind ELSE ""

(* Mutant: a parent that is itself a Data is not followed.                    *)
ConstDataOneLevel(s, p) ==
    LET e == IF s[p].kind \in {"Enter", "RefEnter"} THEN s[p].peer[1] ELSE p
        c == IF e # NoNode /\ s[e].kind = "Data" THEN GetParentInput(s, e) ELSE e
    IN  IF c # NoNode /\ IsConst(s[c].kind) THEN s[c].weight ELSE NoTensor
(* NodeUtils::GetInputConstData, without the session's context: one Enter,    *)
(* constant or not, at the input, then the climb.                             *)
ConstData(s, p) ==
    LET e == IF s[p].kind \in {"Enter", "RefEnter"} THEN s[p].peer[1] ELSE p
        c == IF e # NoNode THEN Climb(s, e) ELSE NoNode
    IN  IF c # NoNode /\ IsConst(s[c].kind) THEN s[c].weight ELSE NoTensor

(* NodeUtils::GetInConstNodeTypeCrossSubgraph                                 *)
GetInConstNodeTypeCrossSubgraph(s, p) ==
    LET up[n \in DOMAIN s \cup {NoNode}] ==
          IF n = NoNode THEN ""
          ELSE IF s[n].kind # "Data" THEN s[n].kind
          ELSE IF s[n].home \notin DOMAIN ParentNode \/ InWhile(s, n) THEN s[p].kind
          ELSE up[GetParentInput(s, n)]
    IN  up[p]

(* OpDescUtils::GetConstInputs: plain constants, one level up, and those      *)
(* behind the Switch of a MatMul.                                             *)
DirectConsts(s, n, i) ==
    LET p == s[n].peer[i]
    IN  IF p = NoNode THEN << >>
        ELSE IF s[p].kind = "Const" THEN <<p>>
        ELSE IF s[p].kind = "Data" /\ GetParentInput(s, p) # NoNode
             THEN IF s[GetParentInput(s, p)].kind = "Const" THEN <<GetParentInput(s, p)>> ELSE << >>
        ELSE << >>
Concat(f, k) == FoldLeft(LAMBDA a, i : a \o f[i], << >>, [i \in 1..k |-> i])
PlainConstInputs(s, n) ==
    Concat([i \in DOMAIN s[n].peer |-> DirectConsts(s, n, i)], Len(s[n].peer))
GetConstInputs(s, n) ==
    Concat([i \in DOMAIN s[n].peer |->
              LET p == s[n].peer[i]
              IN  IF p # NoNode /\ s[p].kind = "Switch" /\ s[n].kind = "MatMul"
                  THEN PlainConstInputs(s, p) ELSE DirectConsts(s, n, i)], Len(s[n].peer))

(* OpDescUtils::MutableWeights and GetWeights of a node.                      *)
GetWeights(s, n) ==
    LET me == IF n \in DOMAIN ParentOf /\ IsConst(s[ParentOf[n]].kind) THEN ParentOf[n] ELSE n
        held == [i \in DOMAIN GetConstInputs(s, n) |-> s[GetConstInputs(s, n)[i]].weight]
        some(c) == IF s[c].weight = NoTensor THEN << >> ELSE <<s[c].weight>>
    IN  IF IsConst(s[me].kind) THEN some(me)
        ELSE IF s[n].kind = "Data"
             THEN IF GetParentInput(s, n) # NoNode /\ IsConst(s[GetParentInput(s, n)].kind)
                  THEN some(GetParentInput(s, n)) ELSE << >>
        ELSE IF \E i \in DOMAIN held : held[i] = NoTensor THEN << >> ELSE held

-----------------------------------------------------------------------------
(* The inputs that are not constants: by the statuses of the anchors once     *)
(* they are set, by the producers before.                                     *)
CountsAsData(s, n, i) ==
    IF s[n].status # << >> THEN i \in DOMAIN s[n].status /\ s[n].status[i]
    ELSE s[n].peer[i] # NoNode /\ s[s[n].peer[i]].kind # "Const"
DataPlaces(s, n) == SelectSeq([i \in DOMAIN s[n].peer |-> i], LAMBDA i : CountsAsData(s, n, i))

DescAt(p, i) == IF InRange(p, i) THEN p.desc[i + 1] ELSE DefaultDesc

GetNonConstTensorDesc(s, n) == [k \in DOMAIN DataPlaces(s, n) |-> DescAt(s[n].port, DataPlaces(s, n)[k] - 1)]
GetNonConstInputIndex(s, n, k) == IF k < Len(DataPlaces(s, n)) THEN DataPlaces(s, n)[k + 1] - 1 ELSE -1
GetNonConstInputTensorDesc(s, n, k) ==
    IF GetNonConstInputIndex(s, n, k) = -1 THEN DefaultDesc
    ELSE DescAt(s[n].port, GetNonConstInputIndex(s, n, k))
IsNonConstInput(s, n, i) == i < Len(s[n].peer) /\ CountsAsData(s, n, i + 1)
GetNonConstInputsSize(s, n) ==
    IF s[n].status # << >> THEN Len(DataPlaces(s, n))
    ELSE IF Cardinality(Fed(s, n)) < Len(GetConstInputs(s, n)) THEN 0
    ELSE Cardinality(Fed(s, n)) - Len(GetConstInputs(s, n))

-----------------------------------------------------------------------------
(* Editing: each operator takes and returns a record [net, made, ok].         *)

On(s)       == [net |-> s, made |-> made, ok |-> TRUE]
Fail(w)     == [w EXCEPT !.ok = FALSE]
(* OutDataAnchor::LinkTo an input: nothing happens to one that is linked.     *)
LinkTo(w, p, n, i) ==
    IF w.net[n].peer[i] = NoNode THEN [w EXCEPT !.net[n].peer[i] = p] ELSE w
LinkNew(w, p, n) == [w EXCEPT !.net[n].peer = Append(@, p)]

(* Node::AddLinkFrom: a description and an anchor at the end, ...             *)
AddLinkFrom(w, n, p) ==
    IF Outs[p] # 1 THEN Fail(w)
    ELSE LinkNew([w EXCEPT !.net[n].port = AddNamelessInput(@, w.net[p].out)], p, n)
(* ... at an index, or at the end for one beyond, ...                         *)
AddLinkFromAt(w, n, i, p) ==
    IF Outs[p] # 1 THEN Fail(w)
    ELSE LET v == [w EXCEPT !.net[n].port = AddInputDescAt(@, i, w.net[p].out)]
         IN  IF i < Len(w.net[n].peer) THEN LinkTo(v, p, n, i + 1) ELSE LinkNew(v, p, n)
(* ... at the input of a name, which may be new, ...                          *)
AddLinkFromName(w, n, name, p) ==
    LET i == GetInputIndexByName(w.net[n].port, name)
    IN  IF Outs[p] # 1 \/ i >= Len(w.net[n].peer) THEN Fail(w)
        ELSE [(IF i = -1 THEN LinkNew(w, p, n) ELSE LinkTo(w, p, n, i + 1))
                EXCEPT !.net[n].port = AddInputDesc(@, name, w.net[p].out)]
(* ... or an anchor only.                                                     *)
AddLinkFromForParse(w, n, p) == IF Outs[p] # 1 THEN Fail(w) ELSE LinkNew(w, p, n)

(* OpDescUtils::CreateConstOp and ComputeGraph::AddNodeFront; the constant is *)
(* the last one made.                                                         *)
LastConst(w) == NewConsts[w.made]
CreateConstOp(w, g, t) ==
    LET c == NewConsts[w.made + 1]
    IN  [w EXCEPT !.made = @ + 1,
                  !.net[c] = [@ EXCEPT !.kind = "Const", !.home = g, !.weight = t,
                                       !.out = TensorDesc(t)]]

(* NodeUtils::UpdateIsInputConst *)
UpdateIsInputConst(w, n) ==
    [w EXCEPT !.net[n].mark = [i \in DOMAIN w.net[n].peer |->
        w.net[n].peer[i] # NoNode /\ IsConst(w.net[w.net[n].peer[i]].kind)]]

SetWeight(w, n, t) == [w EXCEPT !.net[n].weight = t]

(* Mutant: a constant is made for every input, linked or not.                 *)
SetWeightOfInputAnew(w, n, i, t) ==
    LET c == CreateConstOp(w, w.net[n].home, t) IN AddLinkFromAt(c, n, i, LastConst(c))
(* One weight of the map: the producer of a linked input gets it, whatever it *)
(* is; for another input a constant is made.                                  *)
SetWeightOfInput(w, n, i, t) ==
    IF i < Len(w.net[n].peer) /\ w.net[n].peer[i + 1] # NoNode
    THEN SetWeight(w, w.net[n].peer[i + 1], t)
    ELSE LET c == CreateConstOp(w, w.net[n].home, t) IN AddLinkFromAt(c, n, i, LastConst(c))

(* OpDescUtils::SetWeights with a map from indices to tensors.                *)
SetWeightsMap(w, n, m) ==
    IF w.net[n].kind = "Const"
    THEN IF Cardinality(DOMAIN m) = 1 THEN SetWeight(w, n, m[CHOOSE i \in DOMAIN m : TRUE]) ELSE Fail(w)
    ELSE UpdateIsInputConst(
           FoldLeft(LAMBDA v, i : SetWeightOfInput(v, n, i, m[i]), w,
                    SetToSortSeq(DOMAIN m, LAMBDA a, b : a < b)), n)

(* OpDescUtils::SetWeights with a list: the constants that feed the node get  *)
(* the first weights, and the others become constants at further inputs.      *)
SetWeightsList(w, n, ts) ==
    LET consts == GetConstInputs(w.net, n)
        had    == FoldLeft(LAMBDA v, k : SetWeight(v, consts[k], ts[k]), w, [k \in DOMAIN consts |-> k])
        link(v, k) == LET c == CreateConstOp(v, v.net[n].home, ts[k]) IN AddLinkFrom(c, n, LastConst(c))
    IN  IF w.net[n].kind = "Const"
        THEN IF Len(ts) = 1 THEN SetWeight(w, n, ts[1]) ELSE Fail(w)
        ELSE IF Len(ts) < Len(consts) THEN Fail(w)
        ELSE FoldLeft(LAMBDA v, k : link(v, k), had,
                      [k \in 1..Len(ts) - Len(consts) |-> Len(consts) + k])

(* OpDescUtils::AddConstOpToAnchor: the constant stays when the edge fails.   *)
AddConstOpToAnchor(w, n, i, t) ==
    LET c == CreateConstOp(w, w.net[n].home, t)
    IN  IF w.net[n].peer[i] = NoNode THEN LinkTo(c, LastConst(c), n, i) ELSE Fail(c)

(* GraphUtils::IsolateNode of a constant, which has nothing to relink.        *)
Isolate(w, c) ==
    [w EXCEPT !.net = [n \in DOMAIN @ |->
        [@[n] EXCEPT !.peer = [i \in DOMAIN @ |-> IF @[i] = c THEN NoNode ELSE @[i]]]]]
(* GraphUtils::RemoveNodeWithoutRelink: only from the list of that graph.     *)
RemoveNodeWithoutRelink(w, g, c) ==
    IF w.net[c].home = g THEN [w EXCEPT !.net[c].home = NoGraph] ELSE Fail(w)

(* Mutant: a constant is taken from the graph and stays linked.               *)
ClearWithoutIsolating(w, n) ==
    FoldLeft(LAMBDA v, c : IF v.ok THEN RemoveNodeWithoutRelink(v, w.net[n].home, c) ELSE v,
             w, GetConstInputs(w.net, n))
(* OpDescUtils::ClearWeights: stops at the first constant it cannot remove.   *)
ClearWeights(w, n) ==
    FoldLeft(LAMBDA v, c : IF v.ok THEN RemoveNodeWithoutRelink(Isolate(v, c), w.net[n].home, c) ELSE v,
             w, GetConstInputs(w.net, n))

(* NodeUtils::AppendInputAnchor: up to k descriptions and k anchors.          *)
AppendInputAnchor(w, n, k) ==
    LET missing == IF k > GetInputsSize(w.net[n].port) THEN k - GetInputsSize(w.net[n].port) ELSE 0
        grown == IF k > Len(w.net[n].peer) THEN k - Len(w.net[n].peer) ELSE 0
    IN  [w EXCEPT !.net[n].port = FoldLeft(LAMBDA p, i : AddNamelessInput(p, DefaultDesc), @,
                                           [i \in 1..missing |-> i]),
                  !.net[n].peer = @ \o [i \in 1..grown |-> NoNode]]

Shortened(q, k)  == SubSeq(q, 1, IF k < Len(q) THEN k ELSE Len(q))
(* OpDescUtils::ClearInputDesc at index k until k descriptions are left.      *)
ClearInputDesc(p, k) == [p EXCEPT !.desc = Shortened(@, k)]

(* Mutant: the names of the removed inputs stay.                              *)
RemoveInputKeepingNames(w, n, k) ==
    [w EXCEPT !.net[n].port = ClearInputDesc(@, k),
              !.net[n].peer = Shortened(@, k), !.net[n].status = Shortened(@, k)]
(* NodeUtils::RemoveInputAnchor: k descriptions, names, flags and anchors     *)
(* are left; the flags become k even when there were fewer.                   *)
RemoveInputAnchor(w, n, k) ==
    [w EXCEPT !.net[n].port = UpdateInputName(ClearInputDesc(@, k), @.idx),
              !.net[n].mark = [i \in 1..k |-> i \in DOMAIN @ /\ @[i]],
              !.net[n].peer = Shortened(@, k), !.net[n].status = Shortened(@, k)]

-----------------------------------------------------------------------------
(* The program edits nodes one call at a time.                                *)

Apply(w)  == net' = w.net /\ made' = w.made /\ edits' = edits + 1
EditTo(w) == Apply(w) /\ call' = NoCall
Call(of, n, with, w) == Apply(w) /\ call' = [of |-> IF w.ok THEN of ELSE "", node |-> n, with |-> with]
Editing(n, new) == edits < MaxEdits /\ n \in Editable /\ net[n].home # NoGraph /\ made + new <= Len(NewConsts)

DoSetWeightsMap(n, m) == Editing(n, Cardinality(DOMAIN m)) /\ Call("map", n, m, SetWeightsMap(On(net), n, m))
DoSetWeightsList(n, ts) == Editing(n, Len(ts)) /\ Call("list", n, ts, SetWeightsList(On(net), n, ts))
DoClearWeights(n) == Editing(n, 0) /\ Call("clear", n, << >>, ClearWeights(On(net), n))
DoAddConst(n, i, t) == Editing(n, 1) /\ i \in DOMAIN net[n].peer /\ EditTo(AddConstOpToAnchor(On(net), n, i, t))

(* A new link comes from a node of the same graph.                            *)
Sources(n) == {p \in DOMAIN net : p # n /\ net[p].home = net[n].home /\ net[p].kind \in {"Const", "Variable", "Split"}}
DoAddLink(n, p) == Editing(n, 0) /\ p \in Sources(n) /\ EditTo(AddLinkFrom(On(net), n, p))
DoAddLinkAt(n, i, p) == Editing(n, 0) /\ p \in Sources(n) /\ EditTo(AddLinkFromAt(On(net), n, i, p))
DoAddLinkName(n, name, p) == Editing(n, 0) /\ p \in Sources(n) /\ EditTo(AddLinkFromName(On(net), n, name, p))
(* A parser links weights before it gives the node its descriptions.          *)
DoAddLinkForParse(n, p) ==
    /\ Editing(n, 0) /\ p \in Sources(n) /\ net[n].kind = "Parsed"
    /\ EditTo(AddLinkFromForParse(On(net), n, p))

DoAppendInput(n, k) == Editing(n, 0) /\ EditTo(AppendInputAnchor(On(net), n, k))
DoRemoveInput(n, k) ==
    /\ Editing(n, 0) /\ \A i \in DOMAIN net[n].peer : i > k => net[n].peer[i] = NoNode
    /\ EditTo(RemoveInputAnchor(On(net), n, k))
DoUpdateIsInputConst(n) == Editing(n, 0) /\ EditTo(UpdateIsInputConst(On(net), n))
(* AnchorUtils::SetStatus at every input and NodeUtils::SetAllAnchorStatus.   *)
SetAllAnchorStatus(n, data) ==
    /\ Editing(n, 0) /\ data # << >> /\ Len(data) = Len(net[n].peer)
    /\ EditTo([On(net) EXCEPT !.net[n].status = data])

-----------------------------------------------------------------------------
(* The anchors, the descriptions and the names of a node's inputs stay one to *)
(* one whatever is appended, linked or removed (a parser's node has its links *)
(* first), and a node of a graph is fed by listed nodes only.                 *)
InputsAligned ==
    \A n \in Editable \cap DOMAIN net :
        /\ net[n].kind # "Parsed" =>
             LET p == net[n].port
             IN  /\ Len(net[n].peer) = Size(p)
                 /\ Cardinality(DOMAIN p.idx) = Size(p) /\ Range(p.idx) = 0..Size(p)-1
        /\ net[n].home # NoGraph => \A i \in Fed(net, n) : net[net[n].peer[i]].home # NoGraph

MapIsSet(n, m) ==
    LET had == Len(net[n].peer)
        new == SetToSortSeq({i \in DOMAIN m : i >= had}, LAMBDA a, b : a < b)
        feeds(p) == {i \in DOMAIN m : i < had /\ net'[n].peer[i + 1] = p}
    IN  /\ \A i \in DOMAIN m : i < had =>
             LET p == net'[n].peer[i + 1] IN p # NoNode /\ net'[p].weight = m[Max(feeds(p))]
        /\ Len(net'[n].peer) = had + Len(new)
        /\ \A k \in DOMAIN new : net'[net'[n].peer[had + k]].weight = m[new[k]]
        /\ \A i \in Fed(net, n) : net'[n].peer[i] = net[n].peer[i]
        /\ \A p \in DOMAIN net : net'[p].weight # net[p].weight => p \in Range(net'[n].peer)
        /\ net'[n].mark = [i \in DOMAIN net'[n].peer |->
                             net'[n].peer[i] # NoNode /\ IsConst(net'[net'[n].peer[i]].kind)]
ListIsSet(n, ts) ==
    LET had == GetConstInputs(net, n)
    IN  /\ Cardinality(Range(had)) = Len(had) => GetWeights(net', n) = ts
        /\ SubSeq(net'[n].peer, 1, Len(net[n].peer)) = net[n].peer
WeightsAreGone(n) ==
    /\ GetConstInputs(net', n) = << >>
    /\ \A p \in DOMAIN net : net[p].home # net'[p].home => p \in Range(GetConstInputs(net, n))
    /\ \A x \in DOMAIN net : \A i \in DOMAIN net[x].peer :
         net'[x].peer[i] # net[x].peer[i] => net[x].peer[i] \in Range(GetConstInputs(net, n))

Maps  == UNION {[S -> Tensor] : S \in SUBSET (0..2)} \ {<< >>}
Lists == UNION {[1..k -> Tensor] : k \in 0..2}
(* What a call that succeeds leaves behind.  SetWeights with a map: every     *)
(* input has its tensor, or the one of the last index when a constant feeds   *)
(* several; indices beyond the inputs become further inputs in their order;   *)
(* no link is replaced; is_input_const is true of what feeds the node.  With  *)
(* a list: GetWeights answers that list.  ClearWeights: no constant is left,  *)
(* and nothing but those constants was unlinked or removed.                   *)
WeightsAreSet ==
    [][call'.of # "" /\ net[call'.node].kind # "Const" =>
         /\ call'.of = "map"   => MapIsSet(call'.node, call'.with)
         /\ call'.of = "list"  => ListIsSet(call'.node, call'.with)
         /\ call'.of = "clear" => WeightsAreGone(call'.node)]_weightVars

(* The searches for the constant behind an input agree.  What GetConstInputNode *)
(* finds without an Enter, GetConstOpType and GetInputConstData find too, and *)
(* GetInputConstData also behind one Enter; GetInConstNodeTypeCrossSubgraph   *)
(* names a constant only if it is one; GetConstInputs lists no other node.    *)
(* Where no subgraph is in between, GetConstInputNode finds at least as much  *)
(* as GetConstInputs, and the inputs that IsNonConstInput names are as many   *)
(* as GetNonConstInputsSize says.                                           *)
ConstantsAgree ==
    \A n \in DOMAIN net :
        /\ \A i \in Fed(net, n) :
             LET p == net[n].peer[i]
                 c == ConstNode(net, p)
                 t == GetInConstNodeTypeCrossSubgraph(net, p)
             IN  /\ c # NoNode /\ Climb(net, p) = c =>
                      GetConstOpType(net, p) = net[c].kind /\ ConstData(net, p) = net[c].weight
                 /\ c # NoNode /\ net[p].kind = "Enter" /\ Climb(net, net[p].peer[1]) = c =>
                      ConstData(net, p) = net[c].weight
                 /\ IsConst(t) => c # NoNode /\ net[c].kind = t
        /\ \A c \in Range(GetConstInputs(net, n)) : \E i \in Fed(net, n) :
             Climb(net, net[n].peer[i]) = c \/ net[net[n].peer[i]].kind = "Switch"
        /\ (\A i \in Fed(net, n) : net[net[n].peer[i]].kind \notin {"Data", "Switch"}) =>
             /\ Range(GetConstInputs(net, n)) \subseteq Range(GetConstInputNode(net, n))
             /\ GetNonConstInputsSize(net, n) =
                  Cardinality({i \in 0..Len(net[n].peer) : IsNonConstInput(net, n, i)})
        /\ \A k \in DOMAIN GetNonConstTensorDesc(net, n) :
             GetNonConstTensorDesc(net, n)[k] = GetNonConstInputTensorDesc(net, n, k - 1)

(* SetWeights logs that an "input node should be const, but real op is"       *)
(* another, and gives that other node the weight.                             *)
OnlyConstantsHoldWeights ==
    \A n \in DOMAIN net : net[n].weight # NoTensor => IsConst(net[n].kind)

(* Calls on weights do what they say and keep a node's inputs one to one.   *)
WeightsFitInputs == WeightsAreSet /\ []InputsAligned
=============================================================================
