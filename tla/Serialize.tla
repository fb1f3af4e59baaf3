------------------------------ MODULE Serialize ------------------------------
(* A graph that is written as a model and read again: graph/model_serialize.cc *)
(* and the files of graph/model.cc.  Links are written at their consumers, as  *)
(* names with an index; reading makes the nodes first and links them by name.  *)
(* Nodes of different graphs of the tree have different names.                 *)
EXTENDS UserGraph

CONSTANTS InputNames,     \* node -> its names of inputs, with their positions
          Slots           \* node -> its subgraph instance names, "" where none was set

ASSUME SerializeAssumption == \A n \in Node : \A s \in Sub : ParentNode[s] = n => Contains(Slots[n], s)

VARIABLES file            \* the model on disk: None, empty, or what was written
serVars == <<ugVars, file>>

SerializeInit == UserGraphInit /\ file = None

NoInput == << >>

-----------------------------------------------------------------------------
(* Writing.                                                                   *)

(* Mutant: an input without producer leaves no gap.                           *)
SerializeEdgeDense(n) ==
    LET data == [i \in 1..InNum[n] |-> GetInDataNodesAndPortIndexs(n, i - 1)]
        ctrl == peers[InControlAnchor(n)]
    IN  [i \in DOMAIN SelectSeq(data, LAMBDA d : d[1] # None) |-> SelectSeq(data, LAMBDA d : d[1] # None)[i]]
        \o [k \in DOMAIN ctrl |-> <<GetOwnerNode(ctrl[k]), -1>>]
(* SerializeEdge: "producer:index" for every data input, "" for one without,  *)
(* and "producer:-1" for every control.                                       *)
SerializeEdge(n) ==
    LET data == [i \in 1..InNum[n] |-> GetInDataNodesAndPortIndexs(n, i - 1)]
        ctrl == peers[InControlAnchor(n)]
    IN  [i \in DOMAIN data |-> IF data[i][1] = None THEN NoInput ELSE data[i]]
        \o [k \in DOMAIN ctrl |-> <<GetOwnerNode(ctrl[k]), -1>>]

(* OpDescToAttrDef: a map of names becomes a list of keys and one of values.  *)
OpDescToAttrDef(n) == LET keys == SetToSeq(DOMAIN InputNames[n])
                      IN  [key |-> keys, value |-> [i \in DOMAIN keys |-> InputNames[n][keys[i]]]]
(* The names of subgraphs are those of the instances, also empty ones.        *)
SerializeOpDesc(n) == [name |-> n, names |-> OpDescToAttrDef(n), subgraphs |-> Slots[n]]
SerializeNode(n)   == SerializeOpDesc(n) @@ [input |-> SerializeEdge(n)]
SerializeGraph(g)  == [name |-> g, op |-> [k \in DOMAIN nodes[g] |-> SerializeNode(nodes[g][k])],
                       output |-> IF g = Root THEN outs ELSE << >>]
(* The main graph first, then all subgraphs.                                  *)
SerializeModel == <<SerializeGraph(Root)>> \o LET S == SetToSeq(Reach(Root)) IN [k \in DOMAIN S |-> SerializeGraph(S[k])]

-----------------------------------------------------------------------------
(* Reading.  A graph that was read: its nodes, the links asked for, and how   *)
(* it stands.                                                                 *)

AttrDefToOpDesc(names) == [k \in ToSet(names.key) |-> names.value[FirstIndex(names.key, k)]]

(* UnserializeNode counts a data input for every entry that is not a control, *)
(* the empty ones included.                                                   *)
NodeInputs(def) ==
    LET index(k) == Cardinality({m \in 1..k : def.input[m] = NoInput \/ def.input[m][2] >= 0}) - 1
    IN  SelectSeq([k \in DOMAIN def.input |-> [src |-> def.input[k], dst |-> def.name, index |-> index(k)]],
                  LAMBDA r : r.src # NoInput)
UnserializeGraphWithoutEdge(def) ==
    [nodes  |-> [k \in DOMAIN def.op |-> def.op[k].name],
     inputs |-> FlattenSeq([k \in DOMAIN def.op |-> NodeInputs(def.op[k])]),
     names  |-> [n \in {def.op[k].name : k \in DOMAIN def.op} |->
                    AttrDefToOpDesc(def.op[CHOOSE k \in DOMAIN def.op : def.op[k].name = n].names)]]

(* HandleNodeNameRef links what was asked for, by name in the same graph.     *)
LinkOf(r) == IF r.src[2] >= 0 THEN <<OutDataAnchor(r.src[1], r.src[2]), InDataAnchor(r.dst, r.index)>>
             ELSE <<OutControlAnchor(r.src[1]), InControlAnchor(r.dst)>>
Resolves(g) == \A r \in ToSet(g.inputs) : Contains(g.nodes, r.src[1]) /\ LinkOf(r)[2] \in DOMAIN peers
HandleNodeNameRef(p, g) == FoldLeft(LAMBDA q, r : LinkTo(q, LinkOf(r)[1], LinkOf(r)[2]), p, g.inputs)
(* AddOutputNodeByIndex takes an output once.                                 *)
AddOutputNodeByIndex(output) == FoldLeft(LAMBDA s, o : IF Contains(s, o) THEN s ELSE Append(s, o), << >>, output)

(* RebuildOwnership: every name a node has must be a graph of the model.      *)
Owned(def) == \A g \in ToSet(def) : \A k \in DOMAIN g.op :
                  ToSet(g.op[k].subgraphs) \subseteq {h.name : h \in ToSet(Tail(def))}
RebuildOwnership(def) ==
    [s \in {h.name : h \in ToSet(Tail(def))} |->
        CHOOSE n \in Node : \E g \in ToSet(def) : \E k \in DOMAIN g.op : g.op[k].name = n /\ Contains(g.op[k].subgraphs, s)]

UnserializeModel(def) ==
    LET read == [k \in DOMAIN def |-> UnserializeGraphWithoutEdge(def[k])]
    IN  IF ~Owned(def) \/ \E k \in DOMAIN read : ~Resolves(read[k]) THEN None
        ELSE [nodes  |-> [g \in {def[k].name : k \in DOMAIN def} |-> read[CHOOSE k \in DOMAIN def : def[k].name = g].nodes],
              parent |-> RebuildOwnership(def),
              peers  |-> FoldLeft(HandleNodeNameRef, NoLinks, read),
              names  |-> [n \in UNION {DOMAIN read[k].names : k \in DOMAIN read} |->
                            read[CHOOSE k \in DOMAIN read : n \in DOMAIN read[k].names].names[n]],
              outs   |-> AddOutputNodeByIndex(def[1].output)]

-----------------------------------------------------------------------------
(* Model::SaveToFile opens the file for its owner to read only and cuts it    *)
(* first: a file that exists may be refused, a write may break off.           *)
SaveToFile(result) ==
    /\ file' = CASE result = "ok"     -> SerializeModel
                 [] result = "broken" -> << >>
                 [] result = "denied" -> file
    /\ result = "denied" => file # None
    /\ UNCHANGED ugVars

LoadFromFile(f) == IF f \in {None, << >>} THEN None ELSE UnserializeModel(f)

SerializeNext == \/ EditNext /\ UNCHANGED file
                 \/ \E result \in {"ok", "broken", "denied"} : SaveToFile(result)

SerializeSpec == SerializeInit /\ [][SerializeNext]_serVars

-----------------------------------------------------------------------------
(* What is read from a file is the graph that was written, with its nodes in  *)
(* their order, the producers of every input, controls in their order, tree,  *)
(* names of inputs and outputs, or nothing; no later change of the graph and  *)
(* no save that was refused reaches it (Model::SaveToFile, LoadFromFile).     *)
(* Consumers of an output may come in another order.                          *)
Stored(r) == [nodes |-> r.nodes, parent |-> r.parent, names |-> r.names, outs |-> r.outs,
              inputs  |-> [x \in {y \in DOMAIN r.peers : ~IsOut(y)} |-> r.peers[x]],
              outputs |-> [x \in {y \in DOMAIN r.peers : IsOut(y)} |-> ToSet(r.peers[x])]]
Present == [nodes  |-> [g \in {Root} \cup Reach(Root) |-> nodes[g]],
            parent |-> [g \in Reach(Root) |-> ParentNode[g]], peers |-> peers,
            names  |-> [n \in UNION {ToSet(nodes[g]) : g \in {Root} \cup Reach(Root)} |-> InputNames[n]],
            outs   |-> AddOutputNodeByIndex(outs)]
Storing == INSTANCE CopySpec WITH NoCopy <- None, original <- Stored(Present),
                 copy <- LET read == LoadFromFile(file) IN IF read = None THEN None ELSE Stored(read)
FilePromise == Storing!CopySpec
=============================================================================
