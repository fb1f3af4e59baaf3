---------------------------- MODULE GraphRewrite ----------------------------
(***************************************************************************)
(* Calls of the rewriting functions of GraphEdit on a graph.  The code is  *)
(* sequential and each call is one step, whatever edge edits it makes; the *)
(* graph it starts from is any acyclic one with links from Edges.  What a  *)
(* call must not lose is the order the links impose on the other nodes and *)
(* the data they read.                                                     *)
(***************************************************************************)
EXTENDS GraphEdit

CONSTANTS
    Edges,      \* the links <<source, destination>> the graph may begin with
    Calls,      \* the functions that are called
    NewNodes,   \* the nodes that are inserted or that replace another
    IoMaps,     \* the io_map, inputs_map and outputs_map arguments
    MaxCalls    \* bound of the model: how many calls are made

ASSUME CallAssumption ==
    /\ NewNodes \subseteq Nodes
    /\ \A e \in Edges : IsOut(e[1]) /\ ~IsOut(e[2])
    /\ MaxCalls \in Nat

Anchors == UNION {AnchorsOf(n) : n \in Nodes}
InDataAnchors == UNION {ToSet(GetAllInDataAnchors(n)) : n \in Nodes}

VARIABLES
    peers,      \* peer_anchors_ of every anchor
    call,       \* the last call and what it returned
    calls       \* how many calls were made

vars == <<peers, call, calls>>

NoCall == [op |-> "none", ok |-> TRUE, crashed |-> FALSE]

(* A graph in which each data input has at most one producer. *)
Init ==
    /\ \E links \in SUBSET Edges :
        /\ \A e, f \in links : e # f /\ e[2] = f[2] => Kind(e[2]) = "inControl"
        /\ peers = FoldSet(LAMBDA e, p : Link(p, e[1], e[2]),
                           [a \in Anchors |-> << >>], links)
    /\ call = NoCall
    /\ calls = 0

(* After a crash there are no more calls. *)
Ready(op) == op \in Calls /\ calls < MaxCalls /\ ~call.crashed

(* One call with its outcome st. *)
Make(op, node, st, args) ==
    /\ peers' = st.p
    /\ call' = [op |-> op, node |-> node, ok |-> st.ok, crashed |-> st.crashed, args |-> args]
    /\ calls' = calls + 1

(* An io_map may be too long or name an input that does not exist. *)
CallIsolateNode(n, io_map) ==
    /\ Ready("IsolateNode")
    /\ \E st \in IsolateNode(peers, n, io_map) : Make("IsolateNode", n, st, io_map)

CallIsolateNodeOneIO(n) ==
    /\ Ready("IsolateNodeOneIO")
    /\ InNum[n] = 1
    /\ OutNum[n] = 1
    /\ \E st \in IsolateNode(peers, n, <<0>>) : Make("IsolateNodeOneIO", n, st, <<0>>)

CallBypassNode(n) ==
    /\ Ready("BypassNode")
    /\ Make("BypassNode", n, BypassNode(peers, n), << >>)

(* The maps only name anchors that the old node has. *)
CallReplaceNodeAnchors(new, old, inputs_map, outputs_map) ==
    /\ Ready("ReplaceNodeAnchors")
    /\ new # old
    /\ \A i \in DOMAIN inputs_map : inputs_map[i] < InNum[old]
    /\ \A i \in DOMAIN outputs_map : outputs_map[i] < OutNum[old]
    /\ Make("ReplaceNodeAnchors", old,
            ReplaceNodeAnchors(peers, new, old, inputs_map, outputs_map),
            <<new, inputs_map, outputs_map>>)

CallMoveInCtrlEdges(src, dst) ==
    /\ Ready("MoveInCtrlEdges")
    /\ src # dst
    /\ Make("MoveInCtrlEdges", src, MoveInCtrlEdges(peers, src, dst), <<dst>>)

CallMoveOutCtrlEdges(src, dst) ==
    /\ Ready("MoveOutCtrlEdges")
    /\ src # dst
    /\ Make("MoveOutCtrlEdges", src, MoveOutCtrlEdges(peers, src, dst), <<dst>>)

CallCopyInDataEdges(src, dst) ==
    /\ Ready("CopyInDataEdges")
    /\ src # dst
    /\ Make("CopyInDataEdges", src, CopyInDataEdges(peers, src, dst), <<dst>>)

CallMoveOutputEdges(origin, new) ==
    /\ Ready("MoveOutputEdges")
    /\ origin # new
    /\ Make("MoveOutputEdges", origin, MoveOutputEdges(peers, origin, new), <<new>>)

(* dsts is an input, linked with src or not, or two, one of which is. *)
CallInsertNodeAfter(src, dsts, n, is_switch) ==
    /\ InNum[n] > 0
    /\ OutNum[n] > 0
    /\ Make("InsertNodeAfter", n, InsertNodeAfter(peers, src, dsts, n, 0, 0, is_switch),
            <<src, dsts, is_switch>>)

InsertNext ==
    /\ Ready("InsertNodeAfter")
    /\ \E n \in NewNodes :
        \E src \in UNION {ToSet(GetAllOutDataAnchors(m)) : m \in Nodes \ {n}},
           dsts \in BoundedSeq(InDataAnchors \ AnchorsOf(n), 2), is_switch \in BOOLEAN :
            /\ Len(dsts) = 2 => dsts[1] # dsts[2] /\ \E k \in 1..2 : Contains(peers[src], dsts[k])
            /\ CallInsertNodeAfter(src, dsts, n, is_switch)

CallRemoveNode(n) ==
    /\ Ready("RemoveNode")
    /\ LET removed == RemoveNode(peers, n)
       IN  Make("RemoveNode", n, removed.st, removed.erased)

(* The nodes are made of the descriptions by the call, so they have no link *)
(* yet, and have the port it adds.                                          *)
CallInsertTransNode(in, vec, has_formats) ==
    /\ Ready("InsertTransNode")
    /\ \A n \in ToSet(vec) : n # GetOwnerNode(in) /\ InNum[n] > 0 /\ OutNum[n] > 0
                            /\ \A a \in AnchorsOf(n) : peers[a] = << >>
    /\ Make("InsertTransNode", GetOwnerNode(in), InsertTransNode(peers, in, vec, has_formats),
            <<in, vec>>)

InsertTransNext ==
    \E in \in InDataAnchors, vec \in {<<m>> : m \in NewNodes} \cup {<<m, n>> : m \in NewNodes, n \in Nodes} :
        /\ IsInjective(vec)
        /\ \E has_formats \in SUBSET ToSet(vec) : CallInsertTransNode(in, vec, has_formats)

Next ==
    \/ \E n \in Nodes :
        \/ CallRemoveNode(n)
        \/ \E io_map \in IoMaps : CallIsolateNode(n, io_map)
        \/ CallIsolateNodeOneIO(n)
        \/ CallBypassNode(n)
    \/ \E m, n \in Nodes :
        \/ CallMoveInCtrlEdges(m, n)
        \/ CallMoveOutCtrlEdges(m, n)
        \/ CallCopyInDataEdges(m, n)
        \/ CallMoveOutputEdges(m, n)
    \/ \E new \in NewNodes, old \in Nodes, inputs_map, outputs_map \in IoMaps :
        CallReplaceNodeAnchors(new, old, inputs_map, outputs_map)
    \/ InsertNext
    \/ InsertTransNext

Spec == Init /\ [][Next]_vars

-----------------------------------------------------------------------------
Called(op) == calls' # calls /\ call'.op = op /\ call'.ok

(* Which node has to run before which, according to the links in p. *)
Order(p) ==
    LET direct == UNION {{<<GetOwnerNode(a), GetOwnerNode(b)>> : b \in ToSet(p[a])}
                            : a \in {a \in Anchors : IsOut(a)}}
    IN  FoldSet(LAMBDA k, R : R \cup {c[1] : c \in {e \in R : e[2] = k}} \X {d[2] : d \in {e \in R : e[1] = k}},
                direct, Nodes)

OrderAmong(p, S) == Order(p) \cap (S \X S)

Producer(p, in) == IF HasProducer(p, in) THEN Head(p[in]) ELSE << >>

Unlinked(p, n) == \A a \in AnchorsOf(n) : p[a] = << >>

(* The header of GraphUtils::IsolateNode: the control links are relinked so *)
(* that what came before the node comes before what came after it.          *)
IsolateKeepsAllOrder ==
    [][Called("IsolateNode") =>
        LET rest == Nodes \ {call'.node}
        IN  OrderAmong(peers', rest) = OrderAmong(peers, rest)]_vars

(* No data output of the node is linked with a control input. *)
PlainOutputs(p, n) ==
    \A out \in ToSet(GetAllOutDataAnchors(n)) : Peers(p, out, "inControl") = << >>

(* GraphUtils::IsolateNode keeps the other nodes in the order they were in: *)
(* no order is lost with the node, and none is invented, as long as the     *)
(* node's data outputs lead to data inputs only.                            *)
IsolateKeepsOrder ==
    [][Called("IsolateNode") \/ Called("IsolateNodeOneIO") =>
        LET rest == Nodes \ {call'.node}
        IN  PlainOutputs(peers, call'.node) =>
                OrderAmong(peers', rest) = OrderAmong(peers, rest)]_vars

(* The producer that input i of the isolated node had is what io_map makes  *)
(* of it; the links that do not touch the node are as before, and the node  *)
(* has none left.                                                           *)
FedAfterIsolation(p, n, io_map, in) ==
    LET out == Producer(p, in)
        i == GetIdx(out) + 1
    IN  IF out = << >> \/ GetOwnerNode(out) # n THEN out
        ELSE IF i > Len(io_map) THEN << >>
        ELSE IF io_map[i] < 0 THEN << >>
        ELSE Producer(p, InDataAnchor(n, io_map[i]))

(* With an io_map that uses no input twice, every consumer of the isolated  *)
(* node reads what the io_map says, everyone else what it read before, and  *)
(* the node has no link left.  An input that is named twice loses its       *)
(* producer to the first output that names it.                              *)
IsolateKeepsData ==
    [][Called("IsolateNode") \/ Called("IsolateNodeOneIO") =>
        LET io_map == call'.args
        IN  (\A i, j \in 1..Len(io_map) : i # j /\ io_map[i] = io_map[j] => io_map[i] < 0) =>
                /\ Unlinked(peers', call'.node)
                /\ \A in \in InDataAnchors \ AnchorsOf(call'.node) :
                    Producer(peers', in) = FedAfterIsolation(peers, call'.node, io_map, in)]_vars

(* What a consumer of the bypassed node reads: the first producer of the    *)
(* node that is no constant, if it has one.                                 *)
FedAfterBypass(p, n, in) ==
    LET out == Producer(p, in)
        fed == SelectSeq(GetAllInDataAnchors(n), LAMBDA i :
                    HasProducer(p, i) /\ GetOwnerNode(Producer(p, i)) \notin Constants)
    IN  IF out = << >> \/ GetOwnerNode(out) # n THEN out
        ELSE IF fed = << >> THEN << >>
        ELSE Producer(p, Head(fed))

(* ComputeGraph::IsolateNode, which RemoveNode calls: it unlinks the node   *)
(* whatever its links, invents no order among the others, and gives every   *)
(* consumer of the node the same producer from before it.                   *)
BypassKeepsData ==
    [][Called("BypassNode") =>
        LET rest == Nodes \ {call'.node}
        IN  /\ Unlinked(peers', call'.node)
            /\ OrderAmong(peers', rest) \subseteq OrderAmong(peers, rest)
            /\ \A in \in InDataAnchors \ AnchorsOf(call'.node) :
                Producer(peers', in) = FedAfterBypass(peers, call'.node, in)]_vars

(* ComputeGraph::RemoveNode leaves the consumers of the node what           *)
(* IsolateNode would.  A constant goes with the node when the node was all  *)
(* it was for: nobody reads from a node that has left the list, and every   *)
(* constant that fed the node and feeds nobody now has left it.             *)
RemovalKeepsData ==
    [][Called("RemoveNode") =>
        LET erased == call'.args
            rest == Nodes \ {call'.node}
            Fed(n) == {GetOwnerNode(Producer(peers, in)) :
                        in \in {i \in ToSet(GetAllInDataAnchors(n)) : HasProducer(peers, i)}}
        IN  /\ Unlinked(peers', call'.node)
            /\ OrderAmong(peers', rest) \subseteq OrderAmong(peers, rest)
            /\ \A in \in InDataAnchors \ AnchorsOf(call'.node) :
                Producer(peers', in) = FedAfterBypass(peers, call'.node, in)
            /\ \A in \in InDataAnchors : HasProducer(peers', in) =>
                GetOwnerNode(Producer(peers', in)) \notin erased
            /\ \A k \in (Constants \cap Fed(call'.node)) \ erased :
                \E out \in AnchorsOf(k) : IsOut(out) /\ peers[out] # << >>
                    /\ \E to \in ToSet(peers[out]) : GetOwnerNode(to) # call'.node \/ Kind(to) = "inControl"]_vars

(* A map that takes every anchor of old over, each once. *)
Complete(map, num) == Len(map) = num /\ {map[i] : i \in DOMAIN map} = 0..(num - 1)

(* GraphUtils::ReplaceNodeAnchors puts a new node that had no links where   *)
(* the old one was: whatever ran before or after the old node now runs      *)
(* before or after the new one, and the others keep their order (where the  *)
(* old one's data outputs lead to data inputs only).                        *)
ReplaceTakesOver ==
    [][Called("ReplaceNodeAnchors") =>
        LET old == call'.node
            new == call'.args[1]
            As(m) == IF m = new THEN old ELSE m
        IN  /\ Unlinked(peers, new)
            /\ PlainOutputs(peers, old)
            /\ Complete(call'.args[2], InNum[old])
            /\ Complete(call'.args[3], OutNum[old])
            => \A s, t \in Nodes \ {old} :
                    <<s, t>> \in Order(peers') <=> <<As(s), As(t)>> \in Order(peers)]_vars

(* GraphUtils::InsertNodeAfter with a node that had no links: it comes      *)
(* between src and the consumers it is given, they read from it, and no     *)
(* other order changes, the control links of src included.                  *)
InsertKeepsOrder ==
    [][Called("InsertNodeAfter") =>
        LET src == call'.args[1]
            dsts == call'.args[2]
            n == call'.node
            rest == Nodes \ {n}
        IN  /\ Unlinked(peers, n)
            /\ \A dst \in ToSet(dsts) : Producer(peers, dst) = src
            => /\ OrderAmong(peers', rest) = OrderAmong(peers, rest)
               /\ <<GetOwnerNode(src), n>> \in Order(peers')
               /\ \A dst \in InDataAnchors \ AnchorsOf(n) :
                    Producer(peers', dst) = IF dst \in ToSet(dsts) THEN OutDataAnchor(n, 0)
                                            ELSE Producer(peers, dst)]_vars

(* Moving the control links or the output links of a node loses none of     *)
(* them: what was linked with the old node is now linked with the new one   *)
(* (MoveInCtrlEdges cuts links from data outputs, which are none of its     *)
(* business).                                                               *)
(* Nor does a copy of the data inputs that succeeds.                        *)
MoveLosesNothing ==
    /\ [][Called("CopyInDataEdges") =>
            \A i \in 0..(InNum[call'.node] - 1) :
                HasProducer(peers, InDataAnchor(call'.node, i)) =>
                    Producer(peers', InDataAnchor(call'.args[1], i))
                        = Producer(peers, InDataAnchor(call'.node, i))]_vars
    /\ [][Called("MoveInCtrlEdges") =>
            /\ peers'[InControlAnchor(call'.node)] = << >>
            /\ ToSet(Peers(peers, InControlAnchor(call'.node), "outControl"))
                    \subseteq ToSet(peers'[InControlAnchor(call'.args[1])])]_vars
    /\ [][Called("MoveOutCtrlEdges") =>
            /\ peers'[OutControlAnchor(call'.node)] = << >>
            /\ ToSet(peers[OutControlAnchor(call'.node)])
                    \subseteq ToSet(peers'[OutControlAnchor(call'.args[1])])]_vars
    /\ [][Called("MoveOutputEdges") =>
            \A k \in 1..(OutNum[call'.node] + 1) :
                LET Out(m) == Append(GetAllOutDataAnchors(m), OutControlAnchor(m))[k]
                IN  /\ peers'[Out(call'.node)] = << >>
                    /\ ToSet(peers[Out(call'.node)]) \subseteq ToSet(peers'[Out(call'.args[1])])]_vars

(* GraphUtils::InsertTransNode leads the data of an input through the new   *)
(* nodes, in their order: also when the call fails on the way ("A ---> N    *)
(* ---> B"), the input reads its producer at the other end, and the others  *)
(* read what they did.                                                      *)
TransNodesLeadThrough ==
    [][calls' # calls /\ call'.op = "InsertTransNode" =>
        LET in == call'.args[1]
            vec == call'.args[2]
            done == {k \in 1..Len(vec) : HasProducer(peers', InDataAnchor(vec[k], 0))}
            Before(k) == IF k = 0 THEN Producer(peers, in) ELSE OutDataAnchor(vec[k], 0)
        IN  /\ done = 1..Cardinality(done)
            /\ \A k \in done : Producer(peers', InDataAnchor(vec[k], 0)) = Before(k - 1)
            /\ Producer(peers', in) = Before(Cardinality(done))
            /\ \A other \in InDataAnchors \ ({in} \cup {InDataAnchor(vec[k], 0) : k \in done}) :
                peers'[other] = peers[other]
            /\ OrderAmong(peers', Nodes \ ToSet(vec)) = OrderAmong(peers, Nodes \ ToSet(vec))
            /\ call'.ok => done = DOMAIN vec]_vars

(* The rewriting calls that take a node out, ComputeGraph::IsolateNode and  *)
(* RemoveNode and GraphUtils::IsolateNode, leave the data of the others as  *)
(* asked.                                                                   *)
TakingOutKeepsData == IsolateKeepsData /\ BypassKeepsData /\ RemovalKeepsData

(* The rewriting calls that put a node in, or in the place of another, or   *)
(* move its links: order and data go to the new node, and nowhere else.     *)
PuttingInKeepsLinks == ReplaceTakesOver /\ InsertKeepsOrder /\ TransNodesLeadThrough /\ MoveLosesNothing
=============================================================================
