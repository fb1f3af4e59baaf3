-------------------------------- MODULE Tuning --------------------------------
(* graph/utils/tuning_utils.cc.  A partitioner has cut a graph into parts: at  *)
(* every link between two parts there is an End with the producer and a        *)
(* Placeholder with the consumer, which knows the name and the output of the   *)
(* producer and the name of the End.  ConvertGraphToFile makes an executable   *)
(* graph of each part, with Data for Placeholder and one NetOutput for all     *)
(* Ends; ConvertFileToGraph reads the parts and joins them again.              *)
(*                                                                             *)
(* Placeholders and Ends of a part are handled in the order of its topological *)
(* sort; any order is tried here.  Writing and reading keeps the links of a    *)
(* part (see Serialize).  One thread converts at a time.                       *)
EXTENDS AnchorOps, Functions, FiniteSets

CONSTANTS Cell, Parts,     \* nodes and parts
          CellIns, CellOuts, \* ports of a node
          Contained,         \* pairs of nodes: the name of the first contains that of the second
          MaxLinks

Attributes == {"continuous", "noPadding", "noTask"}

VARIABLES joints,            \* anchor -> its joints
          place,            \* node, End, Placeholder, Data or NetOutput -> its part
          cut,              \* the links that were cut
          alias,            \* part -> Ends its NetOutput stands for, in their order
          attrs, recover,   \* node -> attributes set, attributes to set again
          lost,             \* parts whose file could not be loaded
          datas,            \* data_node_2_netoutput_: the links still to restore
          phase,
          whole             \* links and attributes before the cut
tuningVars == <<joints, place, cut, alias, attrs, recover, lost, datas, phase, whole>>

End(k) == <<"end", k>>
Pld(k) == <<"pld", k>>
Data(k) == <<"data", k>>
NetOutputOf(p) == <<"netoutput", p>>

OutAnchorsOf(n) == {OutDataAnchor(n, i) : i \in 0..CellOuts[n]-1} \cup {OutControlAnchor(n)}
InAnchorsOf(n)  == {InDataAnchor(n, i) : i \in 0..CellIns[n]-1} \cup {InControlAnchor(n)}
CellAnchors == UNION {OutAnchorsOf(n) \cup InAnchorsOf(n) : n \in Cell}

(* What the partitioner leaves: the producer of link k leads to End(k), and   *)
(* Placeholder(k) to the consumer, by data or by control.                     *)
PortIn(e, n)  == IF Kind(e[1]) = "outData" THEN InDataAnchor(n, 0) ELSE InControlAnchor(n)
PortOut(e, n) == IF Kind(e[1]) = "outData" THEN OutDataAnchor(n, 0) ELSE OutControlAnchor(n)
Cut(p, edges) ==
    LET fresh == [a \in UNION {{InDataAnchor(End(k), 0), InControlAnchor(End(k)), OutDataAnchor(Pld(k), 0),
                                OutControlAnchor(Pld(k)), OutDataAnchor(Data(k), 0), OutControlAnchor(Data(k))} :
                               k \in DOMAIN edges} |-> << >>]
        step(q, k) == LET e == edges[k]
                      IN  Link(Link(Unlink(q, e[1], e[2]), e[1], PortIn(e, End(k))), PortOut(e, Pld(k)), e[2])
    IN  FoldLeft(step, fresh @@ p, [k \in DOMAIN edges |-> k])

(* The links of a graph without cycles: from a node to a later one.           *)
Before(order, m, n) == \E i, j \in DOMAIN order : i < j /\ order[i] = m /\ order[j] = n
Edges(order) == {e \in (UNION {OutAnchorsOf(n) : n \in Cell}) \X (UNION {InAnchorsOf(n) : n \in Cell}) :
                    /\ Kind(e[1]) = "outData" <=> Kind(e[2]) = "inData"
                    /\ Before(order, GetOwnerNode(e[1]), GetOwnerNode(e[2]))}
Graphs(order) == {E \in UNION {kSubset(i, Edges(order)) : i \in 1..MaxLinks} :
                    \A e, f \in E : e[2] = f[2] /\ Kind(e[2]) = "inData" => e = f}

TuningInit ==
    \E order \in {SetToSeq(Cell)}, home \in [Cell -> Parts] : \E E \in Graphs(order), A \in [Cell -> SUBSET Attributes] :
        LET full  == FoldLeft(LAMBDA p, e : LinkTo(p, e[1], e[2]), [a \in CellAnchors |-> << >>], SetToSeq(E))
            split == SetToSeq({e \in E : home[GetOwnerNode(e[1])] # home[GetOwnerNode(e[2])]})
        IN  /\ \A n \in Cell : A[n] # {} => n = Last(order)
            /\ whole = [joints |-> full, attrs |-> A]
            /\ cut = split /\ joints = Cut(full, split)
            /\ place = home @@ [x \in {End(k) : k \in DOMAIN split} |-> home[GetOwnerNode(split[x[2]][1])]]
                            @@ [x \in {Pld(k) : k \in DOMAIN split} |-> home[GetOwnerNode(split[x[2]][2])]]
            /\ attrs = A /\ recover = [n \in Cell |-> {}]
            /\ alias = [p \in Parts |-> << >>]
            /\ lost = {} /\ datas = {} /\ phase = "exe"

-----------------------------------------------------------------------------
(* Parts 1.                                                                    *)

(* Consumers with continuous inputs lose those attributes next to a Data, and *)
(* remember them.                                                             *)
Removed(A) == (A \cap {"continuous", "noPadding"}) \cup
              (IF A \cap {"continuous", "noPadding"} # {} THEN A \cap {"noTask"} ELSE {})
HandleContinuousInputNodeNextData(n) ==
    /\ attrs' = [attrs EXCEPT ![n] = @ \ Removed(@)]
    /\ recover' = IF Removed(attrs[n]) = {} THEN recover ELSE [recover EXCEPT ![n] = Removed(attrs[n])]

(* HandlePld: a Data of the same name takes over the links of the Placeholder *)
(* and what it knows.                                                         *)
ChangePld2Data(p, k) ==
    LET out == PortOut(cut[k], Pld(k))
    IN  FoldLeft(LAMBDA q, b : Link(Unlink(q, out, b), PortOut(cut[k], Data(k)), b), p, p[out])
HandlePld(k) ==
    /\ phase = "exe" /\ Pld(k) \in DOMAIN place
    /\ joints' = ChangePld2Data(joints, k)
    /\ place' = (Data(k) :> place[Pld(k)]) @@ Restrict(place, DOMAIN place \ {Pld(k)})
    /\ HandleContinuousInputNodeNextData(GetOwnerNode(cut[k][2]))
    /\ UNCHANGED <<cut, alias, lost, datas, phase, whole>>

(* HandleEnd: the part has one NetOutput, which gets an input for every End   *)
(* on data, and all controls on its one control input.                        *)
LinkEnd2NetOutput(p, k) ==
    LET part == place[End(k)]
        isData == p[InDataAnchor(End(k), 0)] # << >>
        in  == IF isData THEN InDataAnchor(End(k), 0) ELSE InControlAnchor(End(k))
        src == Head(p[in])
        num == Cardinality({a \in DOMAIN p : Kind(a) = "inData" /\ GetOwnerNode(a) = NetOutputOf(part)})
        to  == IF isData THEN InDataAnchor(NetOutputOf(part), num) ELSE InControlAnchor(NetOutputOf(part))
    IN  Link(Unlink(p, src, in) @@ (to :> << >>), src, to)
(* Mutant: an End is not remembered once the NetOutput is there.              *)
AddFirstAlias(names, k) == IF names = << >> THEN <<k>> ELSE names
AddAttrToNetOutputForMergeGraph(names, k) == Append(names, k)
HandleEnd(k) ==
    /\ phase = "exe" /\ End(k) \in DOMAIN place
    /\ joints' = LinkEnd2NetOutput(joints, k)
    /\ place' = (NetOutputOf(place[End(k)]) :> place[End(k)]) @@ Restrict(place, DOMAIN place \ {End(k)})
    /\ alias' = [alias EXCEPT ![place[End(k)]] = AddAttrToNetOutputForMergeGraph(@, k)]
    /\ UNCHANGED <<cut, attrs, recover, lost, datas, phase, whole>>

-----------------------------------------------------------------------------
(* Parts 2.                                                                    *)

(* A part whose file cannot be loaded is logged, and joined as it is: empty.  *)
(* The Data that were Placeholders stay out of the joined graph, and nodes    *)
(* get back the attributes they remember.                                     *)
MakeExeGraph == \A k \in DOMAIN cut : {End(k), Pld(k)} \cap DOMAIN place = {}
MergeSubGraph(missing) == {x \in DOMAIN place : place[x] \notin missing}
MergeAllSubGraph(missing) ==
    /\ phase = "exe" /\ MakeExeGraph
    /\ phase' = "merge" /\ lost' = missing
    /\ place' = Restrict(place, MergeSubGraph(missing))
    /\ joints' = Without(joints, {a \in DOMAIN joints : GetOwnerNode(a) \in DOMAIN place \ MergeSubGraph(missing)})
    /\ datas' = {k \in DOMAIN cut : Data(k) \in MergeSubGraph(missing)}
    /\ attrs' = [n \in Cell |-> attrs[n] \cup recover[n]]
    /\ UNCHANGED <<cut, alias, recover, whole>>

(* FindNode finds the NetOutput by its aliases.                               *)
FindNetOutput(k) == {p \in Parts : Contains(alias[p], k) /\ NetOutputOf(p) \in DOMAIN place}
(* GetInAndOutAnchorPair: of the producers of the NetOutput, by input, the    *)
(* last whose name contains the name of the parent, with its output index.    *)
Sources(p) ==
    LET ins == SetToSortSeq({a \in DOMAIN joints : Kind(a) = "inData" /\ GetOwnerNode(a) = NetOutputOf(p)},
                            LAMBDA a, b : GetIdx(a) < GetIdx(b))
        ctl == InControlAnchor(NetOutputOf(p))
        first(a, k) == SelectSeq(joints[a], LAMBDA s : /\ <<GetOwnerNode(s), GetOwnerNode(cut[k][1])>> \in Contained
                                                      /\ GetIdx(s) = GetIdx(cut[k][1]))
    IN  [k \in datas |-> FlattenSeq([i \in DOMAIN ins |-> IF first(ins[i], k) = << >> THEN << >> ELSE <<Head(first(ins[i], k))>>])
                         \o (IF ctl \in DOMAIN joints /\ first(ctl, k) # << >> THEN <<Head(first(ctl, k))>> ELSE << >>)]
RemoveDataNetoutputEdge(k) ==
    LET out == IF joints[OutDataAnchor(Data(k), 0)] = << >> THEN OutControlAnchor(Data(k)) ELSE OutDataAnchor(Data(k), 0)
        hit == {p \in FindNetOutput(k) : Sources(p)[k] # << >>}
    IN  /\ phase = "merge" /\ k \in datas
        /\ IF hit = {} THEN phase' = "failed" /\ UNCHANGED <<joints, datas>>
           ELSE LET src == Last(Sources(CHOOSE p \in hit : TRUE)[k])
                IN  /\ joints' = FoldLeft(LAMBDA q, b : LinkTo(Unlink(q, out, b), src, b), joints, joints[out])
                    /\ datas' = datas \ {k}
                    /\ UNCHANGED phase
        /\ UNCHANGED <<place, cut, alias, attrs, recover, lost, whole>>

(* Step 4 takes the NetOutputs away; the result is sorted.                    *)
RemoveNetOutputs ==
    /\ phase = "merge" /\ datas = {} /\ phase' = "done"
    /\ joints' = Without(joints, {a \in DOMAIN joints : \E p \in Parts : GetOwnerNode(a) = NetOutputOf(p)})
    /\ place' = Restrict(place, DOMAIN place \cap Cell)
    /\ UNCHANGED <<cut, alias, attrs, recover, lost, datas, whole>>

ConvertGraphToFile == \E k \in DOMAIN cut : HandlePld(k) \/ HandleEnd(k)
ConvertFileToGraph ==
    \/ \E missing \in {{}} \cup {{p} : p \in Parts} : MergeAllSubGraph(missing)
    \/ \E k \in DOMAIN cut : RemoveDataNetoutputEdge(k)
    \/ RemoveNetOutputs

TuningNext == ConvertGraphToFile \/ ConvertFileToGraph

TuningSpec == TuningInit /\ [][TuningNext]_tuningVars

-----------------------------------------------------------------------------
(* Properties.                                                                *)

Whole == /\ Cell \subseteq DOMAIN place
         /\ \A a \in CellAnchors : /\ Len(joints[a]) = Len(whole.joints[a])
                                   /\ ToSet(joints[a]) = ToSet(whole.joints[a])
         /\ attrs = whole.attrs

(* When all files were loaded and no name is part of another, joining what    *)
(* was cut and made executable gives the graph again, whatever order Ends,    *)
(* Placeholders and Data came in ("Recovery graph from graph dump files",     *)
(* ConvertFileToGraph).                                                       *)
TuningRestores == /\ lost = {} => phase # "failed"
                  /\ phase = "done" /\ lost = {} => Whole

(* The same without the condition: ConvertFileToGraph succeeds only with the  *)
(* whole graph.                                                               *)
RecoveredWhole == phase = "done" => Whole
=============================================================================
