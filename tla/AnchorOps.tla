------------------------------ MODULE AnchorOps ------------------------------
(***************************************************************************)
(* What the methods of graph/anchor.cc do to the peer lists.  A state of   *)
(* the links is a function p from anchors to their peer_anchors_; an       *)
(* anchor is <<kind, owner node, index>>, which is what Anchor::Equal      *)
(* compares, so Equal is equality here.                                    *)
(***************************************************************************)
EXTENDS Integers, Sequences, SequencesExt

OutDataAnchor(n, i)  == <<"outData", n, i>>
InDataAnchor(n, i)   == <<"inData", n, i>>
OutControlAnchor(n)  == <<"outControl", n, -1>>
InControlAnchor(n)   == <<"inControl", n, -1>>

Kind(a)         == a[1]
GetOwnerNode(a) == a[2]
GetIdx(a)       == a[3]
IsOut(a)        == Kind(a) \in {"outData", "outControl"}

IsLinkedWith(p, a, b) == Contains(p[a], b)

(* Mutant: the second push_back() lands on the list of the source as well. *)
LinkOnOneSide(p, src, dst) == [p EXCEPT ![src] = @ \o <<dst, src>>]

(* The two push_back() calls every LinkTo and LinkFrom ends with. *)
Link(p, src, dst) ==
    [p EXCEPT ![src] = Append(@, dst), ![dst] = Append(@, src)]

(* LinkTo/LinkFrom refuse a second producer only between data anchors: the  *)
(* overload OutControlAnchor::LinkTo(InDataAnchor) does not look.           *)
CanLink(p, src, dst) ==
    \/ Kind(dst) = "inControl"
    \/ Kind(src) = "outControl"
    \/ p[dst] = << >>

LinkTo(p, src, dst) == IF CanLink(p, src, dst) THEN Link(p, src, dst) ELSE p

CanUnlink(p, a, b) == IsLinkedWith(p, a, b) /\ IsLinkedWith(p, b, a)

(* Mutant: the peer's copy of the link is forgotten. *)
UnlinkOneSide(p, a, b) ==
    IF CanUnlink(p, a, b) THEN [p EXCEPT ![a] = RemoveFirst(@, b)] ELSE p

(* Mutant: the peer erases its first link, whatever it is. *)
UnlinkFront(p, a, b) ==
    IF CanUnlink(p, a, b)
    THEN [p EXCEPT ![a] = RemoveFirst(@, b), ![b] = Tail(@)]
    ELSE p

(* Unlink erases the first match on each side, or changes nothing. *)
Unlink(p, a, b) ==
    IF CanUnlink(p, a, b)
    THEN [p EXCEPT ![a] = RemoveFirst(@, b), ![b] = RemoveFirst(@, a)]
    ELSE p

FirstIndex(s, e) == SelectInSeq(s, LAMBDA v : v = e)

(* Mutant: without the last push_back(), second does not know its new peer. *)
ReplacePeerHalf(p, this, old, first, second) ==
    IF CanUnlink(p, this, old)
    THEN [p EXCEPT ![this]  = ReplaceAt(@, FirstIndex(@, old), first),
                   ![first] = Append(@, this),
                   ![old]   = ReplaceAt(@, FirstIndex(@, this), second)]
    ELSE p

(* ReplacePeer splices first and second into the link between this and old. *)
ReplacePeer(p, this, old, first, second) ==
    IF CanUnlink(p, this, old)
    THEN LET p1 == [p  EXCEPT ![this] = ReplaceAt(@, FirstIndex(@, old), first)]
             p2 == [p1 EXCEPT ![first] = Append(@, this)]
             p3 == [p2 EXCEPT ![old] = ReplaceAt(@, FirstIndex(@, this), second)]
         IN  [p3 EXCEPT ![second] = Append(@, old)]
    ELSE p

(* A peer list without the entries in S, the others in their order. *)
RestOf(s, S) ==
    LET rest[i \in 0..Len(s)] == IF i = 0 THEN << >>
                                 ELSE IF s[i] \in S THEN rest[i - 1] ELSE Append(rest[i - 1], s[i])
    IN  rest[Len(s)]

(* What is left once every anchor of S has no peers any more. *)
Without(p, S) ==
    [a \in DOMAIN p |-> IF a \in S THEN << >>
                        ELSE RestOf(p[a], S)]
=============================================================================
