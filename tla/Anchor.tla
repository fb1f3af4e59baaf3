------------------------------- MODULE Anchor -------------------------------
(***************************************************************************)
(* The links between anchors: graph/anchor.cc, the edge operations of      *)
(* GraphUtils that call it and the destructor of Node.  A link is stored   *)
(* twice, once in the peer_anchors_ of each end, and nothing but the       *)
(* discipline of these methods keeps the two copies in step.               *)
(*                                                                         *)
(* The code is sequential.  UnlinkAll is a loop that ends only when each   *)
(* of its Unlink calls succeeds, so it is modelled one Unlink at a time.   *)
(***************************************************************************)
EXTENDS AnchorOps, FiniteSets

CONSTANTS
    Nodes,      \* the nodes
    InNum,      \* how many data inputs each node has
    OutNum,     \* how many data outputs each node has
    MaxLinks    \* bound of the model: how many links exist at a time

ASSUME NodesAssumption ==
    /\ IsFiniteSet(Nodes)
    /\ InNum \in [Nodes -> Nat]
    /\ OutNum \in [Nodes -> Nat]
    /\ MaxLinks \in Nat

InDataAnchors  == UNION {{InDataAnchor(n, i) : i \in 0..(InNum[n] - 1)} : n \in Nodes}
OutDataAnchors == UNION {{OutDataAnchor(n, i) : i \in 0..(OutNum[n] - 1)} : n \in Nodes}
InAnchors  == InDataAnchors \cup {InControlAnchor(n) : n \in Nodes}
OutAnchors == OutDataAnchors \cup {OutControlAnchor(n) : n \in Nodes}
Anchors    == InAnchors \cup OutAnchors

VARIABLES
    peers,      \* peer_anchors_ of every anchor
    todo,       \* anchors whose UnlinkAll is under way or still to come
    before,     \* history: peers when that sequence of UnlinkAll began
    unlinking   \* history: the anchors of that sequence (both kept until it ends)

vars == <<peers, todo, before, unlinking>>

Init ==
    /\ peers = [a \in Anchors |-> << >>]
    /\ todo = << >>
    /\ before = << >>
    /\ unlinking = {}

(* How many links there are, counted at their sources. *)
NumLinks == SumFunctionOnSet([a \in OutAnchors |-> Len(peers[a])], OutAnchors)

Idle == todo = << >> /\ UNCHANGED <<todo, before, unlinking>>

-----------------------------------------------------------------------------
(* GraphUtils::AddEdge, all overloads. *)
AddEdge(src, dst) ==
    /\ Idle
    /\ NumLinks < MaxLinks
    /\ peers' = LinkTo(peers, src, dst)

(* GraphUtils::RemoveEdge, all overloads; Unlink works from either end. *)
RemoveEdge(a, b) ==
    /\ Idle
    /\ peers' = Unlink(peers, a, b)

(* GraphUtils::ReplaceEdgeDst: when the new destination refuses the link    *)
(* the old one is not restored.                                             *)
ReplaceEdgeDst(src, dst, new_dst) ==
    /\ Idle
    /\ Kind(dst) = Kind(new_dst)
    /\ peers' = IF CanUnlink(peers, src, dst)
                THEN LinkTo(Unlink(peers, src, dst), src, new_dst)
                ELSE peers

(* GraphUtils::InsertNodeBetweenDataAnchors.  When new_node is the owner of *)
(* dst, ReplacePeer writes through an iterator that its own push_back() has *)
(* invalidated; that call is not part of the model.                         *)
InsertNodeBetweenDataAnchors(src, dst, new_node) ==
    /\ Idle
    /\ NumLinks < MaxLinks
    /\ InNum[new_node] > 0
    /\ OutNum[new_node] > 0
    /\ InDataAnchor(new_node, 0) # dst
    /\ peers' = ReplacePeer(peers, src, dst, InDataAnchor(new_node, 0),
                            OutDataAnchor(new_node, 0))

(* Anchor::UnlinkAll on one anchor; ~Node on every anchor of a node.  The   *)
(* owner of a dying node's anchors reads null, which still tells them apart *)
(* from all others: one node dies at a time.                                *)
Begin(anchors) ==
    /\ todo = << >>
    /\ todo' = anchors
    /\ before' = peers
    /\ unlinking' = {anchors[i] : i \in 1..Len(anchors)}
    /\ UNCHANGED peers

UnlinkAll(a) == Begin(<<a>>)

DestroyNode(n) ==
    Begin([i \in 1..InNum[n] |-> InDataAnchor(n, i - 1)]
          \o [i \in 1..OutNum[n] |-> OutDataAnchor(n, i - 1)]
          \o <<InControlAnchor(n), OutControlAnchor(n)>>)

(* One round of the loop in UnlinkAll, or its exit. *)
UnlinkRound ==
    /\ todo # << >>
    /\ LET a == Head(todo) IN
        IF peers[a] = << >>
        THEN /\ todo' = Tail(todo)
             /\ IF Tail(todo) = << >>
                THEN before' = << >> /\ unlinking' = {}
                ELSE UNCHANGED <<before, unlinking>>
             /\ UNCHANGED peers
        ELSE /\ peers' = Unlink(peers, a, Head(peers[a]))
             /\ UNCHANGED <<todo, before, unlinking>>

Next ==
    \/ \E src \in OutAnchors, dst \in InAnchors :
        \/ AddEdge(src, dst)
        \/ RemoveEdge(src, dst)
        \/ RemoveEdge(dst, src)
    \/ \E src \in OutDataAnchors, dst, new_dst \in InDataAnchors :
        ReplaceEdgeDst(src, dst, new_dst)
    \/ \E m, n, o \in Nodes :
        ReplaceEdgeDst(OutControlAnchor(m), InControlAnchor(n), InControlAnchor(o))
    \/ \E src \in OutDataAnchors, dst \in InDataAnchors, n \in Nodes :
        InsertNodeBetweenDataAnchors(src, dst, n)
    \/ \E a \in Anchors : UnlinkAll(a)
    \/ \E n \in Nodes : DestroyNode(n)
    \/ UnlinkRound

Spec == Init /\ [][Next]_vars

(* The loop of UnlinkAll runs on: it has no other way out. *)
FairSpec == Spec /\ WF_vars(UnlinkRound)

-----------------------------------------------------------------------------
Count(s, e) == Cardinality({i \in 1..Len(s) : s[i] = e})

(* p is a state of the links in which every link joins an output and an input. *)
PeersOK(p) ==
    /\ p \in [Anchors -> Seq(Anchors)]
    /\ \A a \in Anchors : \A i \in 1..Len(p[a]) :
          \/ a \in OutAnchors /\ p[a][i] \in InAnchors
          \/ a \in InAnchors /\ p[a][i] \in OutAnchors

Mutual(p) == \A a, b \in Anchors : Count(p[a], b) = Count(p[b], a)

(* Links join an output to an input, and only anchors are ever unlinked. *)
TypeOK == PeersOK(peers) /\ todo \in Seq(Anchors)

(* The two copies of every link agree: b is in a's peer list as often as a  *)
(* is in b's.  Parallel control links are legal, hence the counting.        *)
LinksAreMutual == Mutual(peers)

(* The loop of UnlinkAll never meets a peer it cannot unlink; if it did it  *)
(* would try the same one for ever.                                         *)
UnlinkAlwaysSucceeds ==
    todo # << >> /\ peers[Head(todo)] # << >>
        => CanUnlink(peers, Head(todo), Head(peers[Head(todo)]))

(* Anchor::UnlinkAll and ~Node remove the links of their anchors and touch  *)
(* no other link: the other ends keep the rest of their peers, in order.    *)
UnlinksExactly ==
    [][todo # << >> /\ todo' = << >> => peers' = Without(before, unlinking)]_vars

(* UnlinkAll, and with it the destructor of a node, returns. *)
UnlinkAllReturns == todo # << >> ~> todo = << >>

(* UnlinkAll and ~Node return, with their own links gone and no other.      *)
UnlinkAllIsExact == UnlinksExactly /\ UnlinkAllReturns
-----------------------------------------------------------------------------
(* Sizes of a small instance: one node has two data inputs, every other node   *)
(* one, and all of them one data output.                                       *)
WideNode == CHOOSE n \in Nodes : TRUE
SmallInNum  == [n \in Nodes |-> IF n = WideNode THEN 2 ELSE 1]
SmallOutNum == [n \in Nodes |-> 1]
=============================================================================
