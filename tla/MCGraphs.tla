--------------------------- MODULE MCGraphs ---------------------------
(* GraphRewrite around a node x with two data inputs and two data outputs:  *)
(* a and b come before it, c and d after it, fresh is a node with no links; *)
(* and ComputeGraph with three graphs and three nodes.                      *)
EXTENDS GraphRewrite, ComputeGraph

CONSTANTS a, b, x, c, d, fresh, r, s, t, ta, tc, td

MCInNum  == a :> 0 @@ b :> 0 @@ x :> 2 @@ c :> 1 @@ d :> 1 @@ fresh :> 2
MCOutNum == a :> 1 @@ b :> 1 @@ x :> 2 @@ c :> 1 @@ d :> 0 @@ fresh :> 2

MCIoMaps == {<< >>, <<0>>, <<-1, 0>>, <<1, 0>>, <<0, 2>>, <<0, 1, 1>>}

MCEdges ==
    {<<OutDataAnchor(a, 0), InDataAnchor(x, 0)>>, <<OutDataAnchor(b, 0), InDataAnchor(x, 1)>>,
     <<OutDataAnchor(x, 0), InDataAnchor(c, 0)>>, <<OutDataAnchor(x, 0), InDataAnchor(d, 0)>>,
     <<OutDataAnchor(x, 1), InDataAnchor(d, 0)>>, <<OutDataAnchor(b, 0), InDataAnchor(d, 0)>>,
     <<OutControlAnchor(a), InControlAnchor(x)>>, <<OutControlAnchor(x), InControlAnchor(c)>>,
     <<OutControlAnchor(a), InControlAnchor(d)>>,
     <<OutDataAnchor(a, 0), InControlAnchor(x)>>, <<OutDataAnchor(x, 0), InControlAnchor(c)>>}

(* A root graph r and two graphs that its node ta and their node tc may own.    *)
MCGraphSet == {r, s, t}
MCTreeNodes == {ta, tc, td}
MCNames == {1, 2, 3}
MCNaming == [g \in MCGraphSet |-> IF g = r THEN 1 ELSE IF g = s THEN 2 ELSE 3]
MCNamings == {MCNaming, [g \in MCGraphSet |-> IF g = r THEN 1 ELSE 2]}
MCContent == [g \in MCGraphSet |-> IF g = r THEN <<ta>> ELSE IF g = s THEN <<tc>> ELSE << >>]
MCSlots == [n \in MCTreeNodes |-> IF n = ta THEN 2 ELSE IF n = tc THEN 1 ELSE 0]

(* One part of a behaviour each: the calls that rewrite edges, and those that   *)
(* change the lists and the tree of graphs.                                     *)
VARIABLE part
MCInit ==
    /\ part \in {"edges", "tree"}
    /\ Init
    /\ TreeInit
    /\ part = "edges" => \A g \in MCGraphSet : graph[g].name = MCNaming[g]
    /\ part = "tree" => \A n \in Anchors : peers[n] = << >>
MCNext ==
    /\ UNCHANGED part
    /\ \/ part = "edges" /\ calls < MaxCalls /\ Next /\ UNCHANGED treeVars
       \/ part = "tree" /\ TreeNext /\ UNCHANGED vars
MCSpec == MCInit /\ [][MCNext]_<<vars, treeVars, part>>
=============================================================================
