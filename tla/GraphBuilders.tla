---------------------------- MODULE GraphBuilders ----------------------------
(* CompleteGraphBuilder and PartialGraphBuilder of graph/utils/graph_utils.cc: *)
(* a pass collects nodes by name, links, inputs, outputs and targets, and then *)
(* builds a new graph, or builds into a graph that exists.                     *)
(*                                                                             *)
(* A node of a graph under construction is its place in the list of nodes.     *)
(* The program uses a builder for one build, gives its operators names of      *)
(* their own, and none that the builder makes up.                              *)
EXTENDS AnchorOps, Functions, FiniteSets

CONSTANTS OpNames,            \* the operators a pass may add
          OpIns, OpOuts,      \* their ports
          Variables,          \* those of type Variable or VariableV2
          ExistNames,         \* nodes of the graph that exists, without links
          Foreign,            \* nodes of another graph
          MaxSets

VARIABLES builder, built, sets
builderVars == <<builder, built, sets>>

NotBuilt == [outcome |-> "none"]
NoRemap == <<<< >>, << >>>>      \* no mapping of indices was given yet

NewBuilder == [nodes |-> << >>, data |-> << >>, ctrl |-> << >>, inputs |-> << >>, outputs |-> << >>,
               targets |-> << >>, inMap |-> << >>, outMap |-> << >>, exist |-> << >>,
               parent |-> FALSE, retval |-> FALSE]

BuildersInit == builder \in {[NewBuilder EXCEPT !.retval = r] : r \in BOOLEAN} /\ built = NotBuilt /\ sets = 0

-----------------------------------------------------------------------------
(* The setters.                                                               *)
Set(b) == sets < MaxSets /\ sets' = sets + 1 /\ builder' = b /\ built = NotBuilt /\ UNCHANGED built

BuilderAddNode(n)         == n \notin ToSet(builder.nodes) /\ Set([builder EXCEPT !.nodes = Append(@, n)])
AddDataLink(s, i, d, j)   == Set([builder EXCEPT !.data = Append(@, <<s, i, d, j>>)])
AddControlLink(s, d)      == Set([builder EXCEPT !.ctrl = Append(@, <<s, d>>)])
BuilderSetInput(k, to)    == Set([builder EXCEPT !.inputs = (k :> to) @@ @])
SetUselessInput(k)        == Set([builder EXCEPT !.inputs = (k :> << >>) @@ @])
AddOutput(n, i)           == Set([builder EXCEPT !.outputs = Append(@, <<n, i>>)])
AddTarget(n)              == Set([builder EXCEPT !.targets = Append(@, n)])
SetParentNode             == Set([builder EXCEPT !.parent = TRUE])
SetInputMapping(k, i)     == Set([builder EXCEPT !.inMap = (k :> i) @@ @])
SetOutputMapping(k, i)    == Set([builder EXCEPT !.outMap = (k :> i) @@ @])
AddExistNode(n)           == Set([builder EXCEPT !.exist = Append(@, n)])

-----------------------------------------------------------------------------
(* A graph under construction: its nodes, links, node_names_, inputs, targets *)
(* and how it stands.  After an error nothing more is done.                   *)
MakeNode(name, ins, outs, index) == [name |-> name, prefixed |-> FALSE, ins |-> ins, outs |-> outs, index |-> index]
NodeAnchors(k, n) == {InDataAnchor(k, i) : i \in 0..n.ins-1} \cup {OutDataAnchor(k, i) : i \in 0..n.outs-1}
                     \cup {InControlAnchor(k), OutControlAnchor(k)}
EmptyGraph == [nodes |-> << >>, peers |-> << >>, names |-> << >>, inputs |-> << >>, targets |-> << >>,
               outcome |-> "ok"]

Fail(g, how) == [g EXCEPT !.outcome = how]
PutNode(g, n) ==
    LET k == Len(g.nodes) + 1
    IN  [g EXCEPT !.nodes = Append(@, n), !.peers = [a \in NodeAnchors(k, n) |-> << >>] @@ @]
NameIt(g, name, k) == [g EXCEPT !.names = (name :> k) @@ @]
AddNamed(g, n) == NameIt(PutNode(g, n), n.name, Len(g.nodes) + 1)

(* GraphUtils::AddEdge fails for a port that is not there, and where LinkTo    *)
(* finds a producer.                                                           *)
AddEdgeOf(g, a, b, how) ==
    IF {a, b} \subseteq DOMAIN g.peers /\ CanLink(g.peers, a, b)
    THEN [g EXCEPT !.peers = Link(@, a, b)] ELSE Fail(g, how)
Named(g, S) == S \subseteq DOMAIN g.names

(* Runs step for the elements of s, until one fails.                          *)
Each(step(_, _), g, s) == FoldLeft(LAMBDA h, e : IF h.outcome = "ok" THEN step(h, e) ELSE h, g, s)
After(g, h) == IF g.outcome = "ok" THEN h ELSE g

OpNode(n) == MakeNode(n, OpIns[n], OpOuts[n], -1)
BuildNodes(g) == FoldLeft(LAMBDA h, n : AddNamed(h, OpNode(n)), g, builder.nodes)
BuildDataLinks(g) ==
    LET step(h, l) == IF Named(h, {l[1], l[3]})
                      THEN AddEdgeOf(h, OutDataAnchor(h.names[l[1]], l[2]), InDataAnchor(h.names[l[3]], l[4]), "failed")
                      ELSE Fail(h, "failed")
    IN  Each(step, g, builder.data)
BuildCtrlLinks(g) ==
    LET step(h, l) == IF Named(h, {l[1], l[2]})
                      THEN AddEdgeOf(h, OutControlAnchor(h.names[l[1]]), InControlAnchor(h.names[l[2]]), "failed")
                      ELSE Fail(h, "failed")
    IN  Each(step, g, builder.ctrl)

(* Inputs, in the order of their indices.  With a parent node the description *)
(* comes from its input at the mapped index: an index without a mapping is    *)
(* read through the end of the map.                                           *)
AddDataNode(g, k) ==
    IF builder.parent /\ k \notin DOMAIN builder.inMap THEN Fail(g, "undefined")
    ELSE AddNamed(g, MakeNode(<<"Data", k>>, 1, 1, IF k \in DOMAIN builder.inMap THEN builder.inMap[k] ELSE -1))
AddDataNodes(g) ==
    LET link(h, l) ==
            IF Named(h, {l.to})
            THEN AddEdgeOf(h, OutDataAnchor(h.names[<<"Data", l.k>>], 0), InDataAnchor(h.names[l.to], l.i), "failed")
            ELSE Fail(h, "failed")
        to(k)   == [m \in DOMAIN builder.inputs[k] |->
                       [k |-> k, to |-> builder.inputs[k][m][1], i |-> builder.inputs[k][m][2]]]
        step(h, k) == LET d == AddDataNode(h, k)
                      IN  After(d, Each(link, [d EXCEPT !.inputs = Append(@, Len(d.nodes))], to(k)))
    IN  Each(step, g, SetToSortSeq(DOMAIN builder.inputs, <))

ParentIndex(i) == IF i \in DOMAIN builder.outMap THEN builder.outMap[i] ELSE i

(* Either a node for each output and the targets as a list ...                *)
AddRetValNodes(g) ==
    LET step(h, i) ==
          LET o == builder.outputs[i + 1]
              r == PutNode(h, MakeNode(<<"RetVal", o[1], o[2]>>, 1, 1, IF i \in DOMAIN builder.outMap THEN builder.outMap[i] ELSE -1))
          IN  IF Named(h, {o[1]})
              THEN AddEdgeOf(r, OutDataAnchor(h.names[o[1]], o[2]), InDataAnchor(Len(r.nodes), 0), "failed")
              ELSE Fail(h, "failed")
    IN  Each(step, g, [i \in DOMAIN builder.outputs |-> i - 1])
BuildGraphTargets(g) ==
    IF Named(g, ToSet(builder.targets)) THEN [g EXCEPT !.targets = [k \in DOMAIN builder.targets |-> g.names[builder.targets[k]]]]
    ELSE Fail(g, "failed")

(* Mutant: the mapping of the outputs is not looked at.                       *)
NetOutputUnmapped(outputs) == MakeNode(<<"NetOutput">>, Len(outputs), 0, [i \in DOMAIN outputs |-> i - 1])
(* ... or one node with an input for each output, which carries the index of  *)
(* the output of the parent node.                                             *)
NetOutput(outputs) == MakeNode(<<"NetOutput">>, Len(outputs), 0, [i \in DOMAIN outputs |-> ParentIndex(i - 1)])

(* A producer without the output that was asked for is noticed when its edge  *)
(* fails: the message is then built from the missing anchor.                  *)
BuildNetOutputNodeWithLink(g, net) ==
    LET data(h, i) == AddEdgeOf(h, OutDataAnchor(h.names[builder.outputs[i][1]], builder.outputs[i][2]),
                                InDataAnchor(net, i - 1), "undefined")
        ctrl(h, t) == IF Named(h, {t}) THEN AddEdgeOf(h, OutControlAnchor(h.names[t]), InControlAnchor(net), "failed")
                      ELSE Fail(h, "failed")
    IN  Each(ctrl, Each(data, g, [i \in DOMAIN builder.outputs |-> i]), builder.targets)
AddNetOutputNode(g) ==
    IF \E o \in ToSet(builder.outputs) : ~Named(g, {o[1]}) THEN Fail(g, "failed")
    ELSE BuildNetOutputNodeWithLink(PutNode(g, NetOutput(builder.outputs)), Len(g.nodes) + 1)

(* The graph belongs to the parent node, whose graph must have a session      *)
(* graph id, and the name of the graph goes before those of the nodes.        *)
PostProcess(g, hasId) ==
    IF builder.parent /\ ~hasId THEN Fail(g, "failed")
    ELSE [g EXCEPT !.nodes = [k \in DOMAIN g.nodes |-> [g.nodes[k] EXCEPT !.prefixed = (g.nodes[k].name \notin Variables)]]]

CompleteBuild(hasId) ==
    LET linked  == BuildCtrlLinks(BuildDataLinks(BuildNodes(EmptyGraph)))
        fed     == After(linked, AddDataNodes(linked))
        read    == After(fed, IF builder.retval THEN AddRetValNodes(fed) ELSE AddNetOutputNode(fed))
        aimed   == After(read, IF builder.retval THEN BuildGraphTargets(read) ELSE read)
        done    == After(aimed, PostProcess(aimed, hasId))
    IN  /\ built = NotBuilt /\ builder.exist = << >>
        /\ built' = [kind |-> "complete", remap |-> NoRemap] @@ done
        /\ UNCHANGED <<builder, sets>>

(* The partial builder works on the graph itself: what was done before an     *)
(* error stays.  New nodes are named before the existing ones.                *)
ExistGraph == FoldLeft(LAMBDA g, n : PutNode(g, OpNode(n)), EmptyGraph, ExistNames)
BuildExistNodes(g) ==
    LET step(h, n) == IF n \in Foreign THEN Fail(h, "failed")
                      ELSE NameIt(h, n, CHOOSE k \in DOMAIN ExistNames : ExistNames[k] = n)
    IN  Each(step, g, builder.exist)
PartialBuild ==
    LET named == BuildExistNodes(BuildNodes(ExistGraph))
        fed   == After(named, BuildDataLinks(named))
    IN  /\ built = NotBuilt
        /\ builder.inputs = << >> /\ builder.outputs = << >> /\ builder.targets = << >>
        /\ builder.inMap = << >> /\ builder.outMap = << >> /\ ~builder.parent /\ ~builder.retval
        /\ built' = [kind |-> "partial", remap |-> NoRemap] @@ After(fed, BuildCtrlLinks(fed))
        /\ UNCHANGED <<builder, sets>>

-----------------------------------------------------------------------------
(* ComputeGraph::UpdateInputMapping and UpdateOutputMapping on the graph that *)
(* was built: the indices of the parent node, on the Data nodes or on the     *)
(* inputs of the first NetOutput, are replaced in one pass; an index the      *)
(* mapping does not name stays.                                               *)
IsData(n)      == n.name[1] = "Data"
IsNetOutput(n) == n.name = <<"NetOutput">>
Remap(i, mapping) == IF i \in DOMAIN mapping THEN mapping[i] ELSE i
MadeUp(n) == n.name \notin OpNames \cup ToSet(ExistNames)
Updatable == built.outcome = "ok" /\ built.kind = "complete"
UpdateInputMapping(mapping) ==
    /\ Updatable /\ built.remap[1] = << >>
    /\ built' = [built EXCEPT !.remap[1] = mapping,
                     !.nodes = [k \in DOMAIN @ |-> IF MadeUp(@[k]) /\ IsData(@[k])
                                    THEN [@[k] EXCEPT !.index = Remap(@, mapping)] ELSE @[k]]]
    /\ UNCHANGED <<builder, sets>>
UpdateOutputMapping(mapping) ==
    /\ Updatable /\ built.remap[2] = << >>
    /\ built' = [built EXCEPT !.remap[2] = mapping,
                     !.nodes = [k \in DOMAIN @ |-> IF MadeUp(@[k]) /\ IsNetOutput(@[k])
                                    THEN [@[k] EXCEPT !.index = [i \in DOMAIN @ |-> Remap(@[i], mapping)]] ELSE @[k]]]
    /\ UNCHANGED <<builder, sets>>

Swap == 0 :> 1 @@ 1 :> 0

BuildersNext ==
    \/ \E n \in OpNames : BuilderAddNode(n) \/ AddTarget(n)
    \/ \E s, d \in OpNames \cup ToSet(ExistNames) :
         \/ \E i \in 0..1 : AddDataLink(s, i, d, 0)
         \/ AddControlLink(s, d)
    \/ \E k \in 0..1 :
         \/ \E n \in OpNames, i \in 0..1 : BuilderSetInput(k, <<<<n, i>>>>)
         \/ SetUselessInput(k)
         \/ SetInputMapping(k, 1 - k) \/ SetOutputMapping(k, 1 - k)
    \/ \E n \in OpNames, i \in 0..1 : AddOutput(n, i)
    \/ SetParentNode
    \/ \E n \in ToSet(ExistNames) \cup Foreign : AddExistNode(n)
    \/ \E hasId \in BOOLEAN : CompleteBuild(hasId)
    \/ PartialBuild
    \/ UpdateInputMapping(Swap) \/ UpdateOutputMapping(Swap)

BuildersSpec == BuildersInit /\ [][BuildersNext]_builderVars

-----------------------------------------------------------------------------
(* What the outputs of a node lead to is what was asked by its name, in the   *)
(* order of data links, control links, inputs, outputs and targets; a build   *)
(* that failed made a beginning of it, and nothing that nobody asked for.     *)
(* Each input of NetOutput has the index SetOutputMapping gave it, each Data  *)
(* the one of SetInputMapping (Build), until an update gives them others.     *)
Wanted(n, i) ==
    LET b == builder
        inputs == SetToSortSeq(DOMAIN b.inputs, <)
        to(s)  == SelectSeq(s, LAMBDA l : l[1] = <<n, i>>)
        data == [k \in DOMAIN b.data |-> <<<<b.data[k][1], b.data[k][2]>>, <<b.data[k][3], b.data[k][4]>>>>]
        ctrl == [k \in DOMAIN b.ctrl |-> <<<<b.ctrl[k][1], -1>>, <<b.ctrl[k][2], -1>>>>]
        ins  == FlattenSeq([k \in DOMAIN inputs |-> [m \in DOMAIN b.inputs[inputs[k]] |->
                    <<<<<<"Data", inputs[k]>>, 0>>, b.inputs[inputs[k]][m]>>]])
        outs == [k \in DOMAIN b.outputs |-> <<b.outputs[k],
                    IF b.retval THEN <<<<"RetVal">> \o b.outputs[k], 0>> ELSE <<<<"NetOutput">>, k - 1>>>>]
        aims == [k \in DOMAIN b.targets |-> <<<<b.targets[k], -1>>, <<<<"NetOutput">>, -1>>>>]
        all  == to(data \o ctrl \o ins \o outs \o (IF b.retval THEN << >> ELSE aims))
    IN  [k \in DOMAIN all |-> all[k][2]]
NameAt(a) == built.nodes[GetOwnerNode(a)].name
Later(renumbering, i) == (renumbering @@ (i :> i))[i]
BuiltAsAsked == built.outcome \in {"ok", "failed"} =>
    /\ \A a \in {x \in DOMAIN built.peers : IsOut(x)} :
        LET got  == [k \in DOMAIN built.peers[a] |-> <<NameAt(built.peers[a][k]), GetIdx(built.peers[a][k])>>]
            want == Wanted(NameAt(a), GetIdx(a))
        IN  IF built.outcome = "ok" THEN got = want ELSE IsPrefix(got, want)
    /\ \A k \in DOMAIN built.nodes : built.nodes[k].name = <<"NetOutput">> =>
        \A i \in DOMAIN built.nodes[k].index :
            built.nodes[k].index[i] = Later(built.remap[2], Later(builder.outMap, i - 1))
    /\ \A k \in DOMAIN built.nodes : \A i \in DOMAIN builder.inMap : built.nodes[k].name = <<"Data", i>> =>
        built.nodes[k].index = Later(built.remap[1], builder.inMap[i])
=============================================================================
