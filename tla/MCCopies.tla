------------------------------ MODULE MCCopies ------------------------------
(* aa and f in the graph, x in the subgraph s of f, y in the subgraph t of x, *)
(* and a node bb that the program may add. Or a builder with two operators,   *)
(* a node of the graph that exists and one of another graph.  Or three nodes  *)
(* in two parts that are cut and joined.                                      *)
EXTENDS Serialize, GraphBuilders, Tuning

CONSTANTS aa, bb, f, x, y, s, t, m, o2, old, other, relu, relu1, add

MCParentNode == s :> f @@ t :> x
MCContent == Root :> <<aa, f>> @@ s :> <<x>> @@ t :> <<y>>
MCInNum  == [k \in {aa, bb, f, x, y} |-> IF k \in {aa, y} THEN 0 ELSE IF k = bb THEN 2 ELSE 1]
MCOutNum == [k \in {aa, bb, f, x, y} |-> IF k = aa THEN 2 ELSE IF k = f THEN 0 ELSE 1]
MCNameOf == [k \in {aa, bb, f, x, y} |-> CASE k = aa -> "a" [] k = bb -> "b" [] k = f -> "f" [] k = x -> "x" [] OTHER -> "y"]
MCInputNames == [k \in {aa, bb, f, x, y} |-> IF k \in {aa, y} THEN << >> ELSE "x" :> 0]
MCSlots == [k \in {aa, bb, f, x, y} |-> CASE k = f -> <<s>> [] k = x -> <<t>> [] OTHER -> << >>]
MCLinked == <<<<OutDataAnchor(aa, 0), InDataAnchor(f, 0)>>, <<OutControlAnchor(aa), InControlAnchor(f)>>>>
MCProducers == "a" :> {} @@ "b" :> {"a"}

MCOpIns  == [k \in {m, o2, old, other} |-> 1]
MCOpOuts == [k \in {m, o2, old, other} |-> IF k = o2 THEN 2 ELSE 1]
MCExist  == <<old>>

MCCellIns  == [k \in {relu, relu1, add} |-> IF k = add THEN 2 ELSE 1]
MCCellOuts == [k \in {relu, relu1, add} |-> 1]
Same == {<<k, k>> : k \in {relu, relu1, add}}
Longer == Same \cup {<<relu1, relu>>}

VARIABLE part
Idle == /\ joints = << >> /\ place = << >> /\ cut = << >> /\ alias = << >> /\ attrs = << >> /\ recover = << >>
        /\ lost = {} /\ datas = {} /\ phase = "idle" /\ whole = << >>
MCInit == \/ part \in {"edit", "save", "build"} /\ SerializeInit /\ BuildersInit /\ Idle
          \/ part = "tune" /\ SerializeInit /\ BuildersInit /\ TuningInit
(* Few edits are enough for what is written.                                  *)
SaveEdit == \/ AddNodeByOp(bb) \/ AddDataEdge(aa, 1, bb, 1) \/ AddDataEdge(aa, 1, f, 0) \/ AddControlEdge(x, f)
            \/ RemoveEdge(aa, 0, f, 0) \/ RemoveEdge(aa, -1, f, -1) \/ SetOutputs(<<<<"a", << >>>>, <<"f", <<0>>>>>>)
            \/ \E k \in {aa, f, x} : RemoveNode(k, TRUE)
SaveNext == \/ SaveEdit /\ UNCHANGED file
            \/ \E result \in {"ok", "broken", "denied"} : SaveToFile(result)
MCNext == /\ UNCHANGED part
          /\ \/ part = "edit"  /\ UserGraphNext /\ UNCHANGED <<file, builderVars, tuningVars>>
             \/ part = "save"  /\ SaveNext /\ UNCHANGED <<builderVars, tuningVars>>
             \/ part = "build" /\ BuildersNext  /\ UNCHANGED <<serVars, tuningVars>>
             \/ part = "tune"  /\ TuningNext    /\ UNCHANGED <<serVars, builderVars>>
MCSpec == MCInit /\ [][MCNext]_<<part, serVars, builderVars, tuningVars>>

(* Every copy of a graph is a copy, the one in memory (GraphUtils), the one  *)
(* by Graph's own clone, and the one that is written to a file and read.     *)
CopiesAreFaithful == CopyPromise /\ FilePromise

(* Building and taking apart: what a builder was asked for is what it        *)
(* returns, and what was removed from a graph stays removed.                 *)
BuildsAndRemovals == BuiltAsAsked /\ RemovedForGood
=============================================================================
