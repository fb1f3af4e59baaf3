------------------------------ MODULE MCBorders ------------------------------
(* What crosses the border of a subgraph: symbols (RefMapping) and shapes      *)
(* (ShapeRefiner).                                                             *)
EXTENDS RefMapping, ShapeRefiner, TLC

CONSTANTS src, par, dat, mid, net, mrg, nxt,
          enter, reader, con, conNet, tail, datNet, last

VARIABLE part

(* RefMapping on a source src, a node par with the subgraph dat, mid, net, and *)
(* a loop mrg, nxt.  Two families of graphs vary what happens in the subgraph  *)
(* and what happens around the merge.                                          *)
PeersFrom(f) == [x \in Node \X Index |-> IF x \in DOMAIN f THEN f[x] ELSE NoAnchor]
Idx(f) == [x \in Node \X Index |-> IF x \in DOMAIN f THEN f[x] ELSE NoIndex]

Graph(order, wtype, unknown, pidx, ref, uin, oidx, eIn, wIn0, wIn1, mtype, mIn0, mIn1, next, bIn) ==
  [order |-> order,
   type |-> (par :> wtype @@ net :> "NetOutput" @@ mrg :> mtype @@ [n \in Node |-> "Op"]),
   ins |-> (src :> 0 @@ par :> 2 @@ mrg :> 2 @@ [n \in Node |-> 1]),
   outs |-> (src :> 2 @@ [n \in Node |-> 1]),
   peer |-> PeersFrom(<<par, 0>> :> wIn0 @@ <<par, 1>> :> wIn1 @@ <<mid, 0>> :> eIn @@ <<net, 0>> :> uin
                  @@ <<mrg, 0>> :> mIn0 @@ <<mrg, 1>> :> mIn1 @@ <<nxt, 0>> :> bIn),
   parent |-> (dat :> par @@ mid :> par @@ net :> par @@ [n \in Node |-> NoNode]),
   unknown |-> (par :> unknown @@ [n \in Node |-> FALSE]),
   dynamic |-> [n \in Node |-> FALSE],
   parentIdx |-> (dat :> pidx @@ [n \in Node |-> NoIndex]),
   outputIdx |-> Idx(<<net, 0>> :> oidx),
   next |-> (mrg :> next @@ [n \in Node |-> NoNode]),
   named |-> Idx(<<mid, 0>> :> IF ref = "named" THEN 0 ELSE NoIndex),
   reuse |-> Idx(<<mid, 0>> :> IF ref = "reuse" THEN 0 ELSE IF ref = "wrong" THEN 1 ELSE NoIndex),
   nopadding |-> (mid :> (ref = "nopadding") @@ [n \in Node |-> FALSE])]

InOrderOfNodes == <<src, par, dat, mid, net, mrg, nxt>>
LoopFirst == <<src, mrg, nxt, par, dat, mid, net>>

SubgraphGraph(wt, uk, pi, rf, ui, oi, ei, w0) ==
  Graph(InOrderOfNodes, wt, uk, pi, rf, ui, oi, ei, w0, Out(src, 1), "Merge", Out(src, 0), Out(par, 0), NoNode, Out(mrg, 0))
SubgraphFamily ==
  {SubgraphGraph(wt, uk, pi, rf, ui, oi, ei, Out(src, 0)) :
     wt \in {"Op", "While"}, uk \in BOOLEAN, pi \in {0, 1, NoIndex},
     rf \in {"none", "named", "reuse", "wrong", "nopadding"},
     ui \in {Out(dat, 0), Out(mid, 0), NoAnchor}, oi \in {0, 1, NoIndex}, ei \in {Out(dat, 0), NoAnchor}}
  \cup
  {SubgraphGraph(wt, FALSE, 0, rf, ui, 0, ei, NoAnchor) :
     wt \in {"Op", "While"}, rf \in {"none", "named", "nopadding"},
     ui \in {Out(dat, 0), Out(mid, 0), NoAnchor}, ei \in {Out(dat, 0), NoAnchor}}

LoopFamily ==
  {Graph(od, wt, FALSE, 0, "reuse", Out(mid, 0), 0, Out(dat, 0), w0, Out(src, 1), mt, m0, m1, nx, bi) :
     od \in {InOrderOfNodes, LoopFirst}, wt \in {"Op", "While"}, w0 \in {Out(src, 0), Out(mrg, 0)},
     mt \in {"Merge", "StreamMerge"},
     m0 \in {Out(src, 0), Out(src, 1), Out(par, 0), NoAnchor}, m1 \in {Out(src, 1), Out(par, 0), Out(nxt, 0), NoAnchor},
     nx \in {NoNode, nxt}, bi \in {Out(mrg, 0), Out(par, 0)}}

MCNode == {src, par, dat, mid, net, mrg, nxt}
NoGraph == [(CHOOSE h \in SubgraphFamily : TRUE) EXCEPT !.order = << >>]
MCGraphs == SubgraphFamily \cup LoopFamily \cup {NoGraph}

(* ShapeRefiner on a root graph src -> enter -> par -> last with a second      *)
(* reader of enter, a link from last back to enter, and two subgraphs of par:  *)
(* con with its NetOutput conNet, and dat -> mid -> tail -> datNet.            *)
MCNodes == {src, enter, reader, par, con, conNet, dat, mid, tail, datNet, last}
MCWalk == <<<<src, TRUE>>, <<enter, TRUE>>, <<reader, TRUE>>, <<par, TRUE>>,
            <<con, TRUE>>, <<conNet, TRUE>>,
            <<dat, TRUE>>, <<mid, TRUE>>, <<tail, TRUE>>, <<datNet, TRUE>>,
            <<par, FALSE>>, <<last, TRUE>>>>
MCInNum == enter :> 2 @@ [n \in MCNodes |-> 1]
MCOutNum == conNet :> 0 @@ datNet :> 0 @@ [n \in MCNodes |-> 1]
Link(a, o, b, j) == [src |-> a, o |-> o, dst |-> b, i |-> j]
MCLinks == <<Link(src, 0, enter, 0), Link(enter, 0, reader, 0), Link(enter, 0, par, 0), Link(par, 0, last, 0),
             Link(last, 0, enter, 1),
             Link(con, 0, conNet, 0),
             Link(dat, 0, mid, 0), Link(mid, 0, tail, 0), Link(tail, 0, datNet, 0)>>
MCPlace == con :> <<par, 0>> @@ conNet :> <<par, 0>>
           @@ [n \in {dat, mid, tail, datNet} |-> <<par, 1>>] @@ [n \in MCNodes |-> None]
MCParentIdx == con :> 0 @@ dat :> 0 @@ [n \in MCNodes |-> None]
MCFeeds == {<<1>>, <<3, 2>>}

TypesWith(t) == par :> t @@ src :> "Data" @@ con :> "Data" @@ dat :> "Data"
                @@ conNet :> "NetOutput" @@ datNet :> "NetOutput" @@ [n \in MCNodes |-> "Op"]
FuncsWith(fe, fr, fp, fm, ft, fl) ==
  enter :> fe @@ reader :> fr @@ par :> fp @@ mid :> fm @@ tail :> ft @@ last :> fl
  @@ [n \in MCNodes |-> "same"]
OutIdx(t) == datNet :> 0 @@ conNet :> (IF t = "While" THEN None ELSE 0) @@ [n \in MCNodes |-> None]

Setup(t, fs, unknown, verified, batch, batchData, needed, lowered) ==
  [type |-> TypesWith(t), func |-> fs, outIdx |-> OutIdx(t), unknown |-> unknown, verified |-> verified,
   batch |-> batch, batchData |-> batchData, needed |-> needed, lowered |-> lowered, feed |-> <<1>>]

(* One family varies the functions of the nodes, the other the attributes. *)
MCSetups ==
  {Setup(t, FuncsWith("handle", "read", "keep", f[1], f[2], "same"), {}, {}, {}, {}, MCNodes, {}) :
     t \in {"While", "Case"},
     f \in ({"same", "append", "cast", "fail"} \X {"same"}) \cup ({"same", "append"} \X {"append"})}
  \cup
  {Setup(t, FuncsWith("same", "cast", f[1], f[2], "same", "misnamed"), {}, {}, {}, {}, MCNodes, {reader, par}) :
     t \in {"While", "Case"}, f \in {<<"none", "append">>} \cup ({"same"} \X {"append", "late", "none", "origin"})}
  \cup
  {Setup(t, FuncsWith("same", "same", "keep", "append", "same", "append"), {}, v[1], ba, v[2], MCNodes \ {par}, {}) :
     t \in {"While", "Case"}, ba \in {{}, {par}}, v \in {<<{}, {}>>, <<{mid}, {}>>, <<{}, {dat}>>}}
  \cup
  {Setup(t, FuncsWith("same", "same", "keep", "append", "same", "same"), {par}, {}, ba, {}, {}, {tail}) :
     t \in {"While", "Case"}, ba \in {{}, {par}}}

(* One of the two is at work.                                                  *)
MCInit ==
    \/ /\ part = "symbols"
       /\ setup = Setup("Case", FuncsWith("same", "same", "keep", "append", "same", "same"),
                        {par}, {}, {}, {}, {}, {tail})
       /\ Init /\ ShapeInit
    \/ /\ part = "shapes"
       /\ g = NoGraph
       /\ Init /\ ShapeInit
MCNext ==
    /\ UNCHANGED part
    /\ \/ part = "symbols" /\ Next /\ UNCHANGED shapeVars
       \/ part = "shapes" /\ ShapeNext /\ UNCHANGED vars
MCSpec == MCInit /\ [][MCNext]_<<vars, shapeVars, part>>
=============================================================================
