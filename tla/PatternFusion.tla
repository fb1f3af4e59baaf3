---------------------------- MODULE PatternFusion ----------------------------
(* Fusion by patterns (PatternFusionBasePass, GraphFusionPassBase): a pass     *)
(* defines patterns once, finds all places of the graph that match one, and    *)
(* hands them one after the other to Fusion, which changes the graph while the *)
(* later places wait.  Nodes have one output; what Fusion does is the pass's.  *)
(* The index of the nodes by type (NodeMapInfo) is kept beside the graph.      *)
EXTENDS Integers, Sequences, FiniteSets, SequencesExt

CONSTANTS Graphs,       \* sequences of nodes [type, ins, label]; ins are numbers of nodes, 0 is no link
          PatternDefs,  \* sequences of patterns, a pattern is a sequence of calls
          FusedType,    \* the type that Fusion gives
          MaxNodes,     \* bound: nodes ever made
          MaxRuns,      \* bound: calls of Run
          Absent        \* an attribute that is not set

ASSUME PatternAssumption ==
    /\ \A g \in Graphs : g \in Seq(ToSet(g)) /\ \A n \in DOMAIN g : g[n].ins \in Seq(0..Len(g))
    /\ \A d \in PatternDefs :
           /\ d \in Seq(ToSet(d)) /\ \A i \in DOMAIN d : d[i] \in Seq(ToSet(d[i]))
           /\ \A i \in DOMAIN d : \A k \in DOMAIN d[i] :
                  /\ d[i][k][1] \in {"op", "inputs", "output"}
                  /\ d[i][k][1] = "inputs" => d[i][k][3] \in Seq(ToSet(d[i][k][3]))

VARIABLES kind,         \* "pattern": PatternFusionBasePass, "graph": GraphFusionPassBase
          defs,         \* what DefinePatterns defines
          nodes,        \* all nodes there ever were, removed ones too
          order,        \* GetDirectNode
          index,        \* type -> nodes (node_type_map), or Absent
          patterns,     \* patterns_
          stage,        \* where Run is
          current,      \* the pattern of this round
          waiting,      \* mappings not yet handed to Fusion, with their rank
          anchorsMap,   \* origin_op_anchors_map_: output node -> consumers
          runs, changed, status,
          touched       \* nodes that Fusion took or changed since the match

fusionVars == <<nodes, order, index, anchorsMap, touched>>
passVars   == <<kind, defs, patterns, stage, current, waiting, runs, changed, status>>
patternVars == <<fusionVars, passVars>>

-----------------------------------------------------------------------------
(* FusionPattern.                                                              *)

NoWord == ""
(* The ids in the order of AddOpDesc (ops_), and those that are marked as output. *)
NewPattern == [ops |-> << >>, descs |-> << >>, inputs |-> << >>, outputs |-> {}, output |-> Absent, error |-> FALSE]
SetError(p) == [p EXCEPT !.error = TRUE]
Keyed(map, key, value) == [k \in DOMAIN map \cup {key} |-> IF k = key THEN value ELSE map[k]]
AddOpDescTypes(p, id, ts) ==
    IF id = NoWord \/ id \in DOMAIN p.descs THEN SetError(p)
    ELSE [p EXCEPT !.ops = Append(@, id), !.descs = Keyed(@, id, ts), !.inputs = Keyed(@, id, << >>)]
(* The earlier inputs are forgotten; those before an unknown one are kept.     *)
SetInputs(p, id, ids) ==
    LET unknown == SelectInSeq(ids, LAMBDA i : i \notin DOMAIN p.descs)
    IN  IF id \notin DOMAIN p.descs THEN SetError(p)
        ELSE [p EXCEPT !.inputs[id] = IF unknown = 0 THEN ids ELSE SubSeq(ids, 1, unknown - 1),
                       !.error = p.error \/ unknown > 0]
SetPatternOutput(p, id) ==
    IF id \notin DOMAIN p.descs THEN SetError(p)
    ELSE [p EXCEPT !.outputs = @ \cup {id}]
(* With several outputs the first in the order of AddOpDesc stays.             *)
Build(p) ==
    LET first == SelectInSeq(p.ops, LAMBDA id : id \in p.outputs)
    IN  IF p.error THEN p
        ELSE IF first = 0 THEN SetError(p)
        ELSE [p EXCEPT !.output = p.ops[first], !.error = p.outputs # {p.ops[first]}]
CallPattern(p, call) ==
    CASE call[1] = "op"     -> AddOpDescTypes(p, call[2], call[3])
      [] call[1] = "inputs" -> SetInputs(p, call[2], call[3])
      [] call[1] = "output" -> SetPatternOutput(p, call[2])
DefinePatterns(script) ==
    LET called[k \in 0..Len(script)] == IF k = 0 THEN NewPattern ELSE CallPattern(called[k-1], script[k])
    IN  Build(called[Len(script)])

-----------------------------------------------------------------------------
(* Matching.                                                                   *)

IsIn(n) == Contains(order, n)
Linked(n) == ToSet(nodes[n].ins) \ {0}
Consumers(n) == {c \in 1..Len(nodes) : Contains(nodes[c].ins, n)}
IsOpTypeExist(n, ts) == nodes[n].type \in ts
Fits(p, d, n) == IsOpTypeExist(n, p.descs[d]) \/ p.descs[d] = {}
MatchAllEdges(used, inputs) == used = 1..Len(inputs)

(* One input of a node: the first unused input of the description it fits.     *)
MatchInput(p, inputs, acc, n) ==
    LET js == {j \in 1..Len(inputs) \ acc.used : Fits(p, inputs[j], n)}
        j  == CHOOSE k \in js : \A l \in js : k <= l
        pair == <<inputs[j], n>>
    IN  IF js = {} THEN acc
        ELSE [acc EXCEPT !.used = @ \cup {j},
                         !.pairs = IF Contains(acc.pairs, pair) THEN acc.pairs ELSE Append(acc.pairs, pair)]

MatchInputs(p, inputs, n, pairs) ==
    LET ins == nodes[n].ins
        tried[i \in 0..Len(ins)] ==
            IF i = 0 THEN [used |-> {}, pairs |-> pairs]
            ELSE IF ins[i] = 0 THEN tried[i-1] ELSE MatchInput(p, inputs, tried[i-1], ins[i])
    IN  tried[Len(ins)]

(* Mutant: a node counts as matched although inputs are missing.               *)
MatchSome(p, s) ==
    LET d == s.pairs[s.at][1]
        n == s.pairs[s.at][2]
    IN  [s EXCEPT !.at = @ + 1, !.pairs = MatchInputs(p, p.inputs[d], n, @).pairs]
(* The candidates are the pairs from position `at` on: they are matched in the *)
(* order in which they were found (MatchFromOutput of one candidate).          *)
MatchCandidate(p, s) ==
    LET d == s.pairs[s.at][1]
        n == s.pairs[s.at][2]
        inputs == p.inputs[d]
        r == MatchInputs(p, inputs, n, s.pairs)
    IN  IF inputs = << >> \/ (Linked(n) # {} /\ MatchAllEdges(r.used, inputs))
        THEN [pairs |-> r.pairs, at |-> s.at + 1, ok |-> TRUE]
        ELSE [s EXCEPT !.ok = FALSE]

MatchFromOutput(p, n) ==
    LET bound == Cardinality(DOMAIN p.descs) * Len(nodes)
        step[i \in 0..bound] ==
            IF i = 0 THEN [pairs |-> <<<<p.output, n>>>>, at |-> 1, ok |-> TRUE]
            ELSE LET s == step[i-1] IN IF ~s.ok \/ s.at > Len(s.pairs) THEN s ELSE MatchCandidate(p, s)
        end == step[bound]
    IN  IF end.ok THEN end.pairs ELSE << >>

(* Through the index, or through the nodes of the graph.                       *)
GetOpTypeMapToGraph == index # Absent
(* Mutant: the index is believed.                                              *)
AllOfType(type) == IF type \in DOMAIN index THEN {n \in index[type] : Linked(n) # {} \/ Consumers(n) # {}} ELSE {}
NodesOfType(type) ==
    IF type \notin DOMAIN index THEN {}
    ELSE {n \in index[type] : (Linked(n) # {} \/ Consumers(n) # {}) /\ nodes[n].type = type}
GetMatchOutputNodes(p) ==
    IF GetOpTypeMapToGraph THEN UNION {NodesOfType(type) : type \in p.descs[p.output]}
    ELSE {n \in ToSet(order) : IsOpTypeExist(n, p.descs[p.output])}

NodesOf(mapping) == {mapping[i][2] : i \in 1..Len(mapping)}
LabelsOf(mapping) == {nodes[n].label : n \in NodesOf(mapping)}
(* Mutant: an absent label goes with every other.                              *)
LooseLabel(mapping, result) ==
    LET labels == LabelsOf(mapping) \ {Absent}
    IN  IF result THEN Cardinality(labels \ {NoWord}) <= 1 ELSE Cardinality(labels) > 1
(* The nodes come in an order of their own: an empty label is only overlooked  *)
(* when it comes first.                                                        *)
CheckStreamLabel(mapping, result) ==
    IF result THEN Cardinality(LabelsOf(mapping) \ {NoWord}) <= 1 ELSE Cardinality(LabelsOf(mapping)) > 1
RecordOutputAnchorMap(n) == UNION {{c} \X {i \in DOMAIN nodes[c].ins : nodes[c].ins[i] = n} : c \in Consumers(n)}

(* Mutant: only types that are there already.                                  *)
AddNodeToKnownType(ix, n, type) ==
    IF ix = Absent \/ type \notin DOMAIN ix THEN ix ELSE [ix EXCEPT ![type] = @ \cup {n}]
AddNodeFromOpTypeMap(ix, n, type) ==
    IF ix = Absent THEN ix
    ELSE IF type \in DOMAIN ix THEN [ix EXCEPT ![type] = @ \cup {n}] ELSE Keyed(ix, type, {n})


-----------------------------------------------------------------------------
(* What a fused node is told about the nodes it stands for.                    *)

InheritAttrFromOriNode(ns, olds, fused) ==
    IF \E o \in olds : ns[o].keep THEN [ns EXCEPT ![fused].keep = TRUE] ELSE ns
SetOutputDescAttr(ns, old, fused) ==
    IF ns[old].origins \notin {Absent, {}} THEN
         IF ns[old].dump = Absent THEN ns ELSE [ns EXCEPT ![fused].dump = ns[old].dump]
    ELSE [ns EXCEPT ![fused].dump = old]
RecordOriginalNames(ns, olds, fused) ==
    LET names == UNION {IF ns[o].origins = Absent THEN {o} ELSE ns[o].origins : o \in olds}
    IN  [ns EXCEPT ![fused].origins = names]
(* A recorded consumer that has no producer any more ends it with an error     *)
(* that nobody looks at, before the original names are recorded.               *)
SetDataDumpAttr(ns, olds, fused) ==
    LET ends == UNION {anchorsMap[o] : o \in olds \cap DOMAIN anchorsMap}
        outs == {o \in olds \cap DOMAIN anchorsMap : \E e \in anchorsMap[o] : ns[e[1]].ins[e[2]] = fused}
        dumped == IF outs = {} THEN ns ELSE SetOutputDescAttr(ns, CHOOSE o \in outs : TRUE, fused)
    IN  IF \E e \in ends : ns[e[1]].ins[e[2]] = 0 THEN ns
        ELSE RecordOriginalNames(dumped, olds, fused)
SetStreamLabelToFusedNodes(ns, first, fused) ==
    IF ns[first].label = Absent \/ fused = 0 THEN ns ELSE [ns EXCEPT ![fused].label = ns[first].label]

-----------------------------------------------------------------------------
(* The pass's own Fusion, one of: nothing to do, a failure, a new node in the  *)
(* place of the nodes that nobody else uses, a new type for the output node.   *)
(* It returns the nodes, the order and the fused node (0 is none).             *)

Taken(mapping, out) == UNION {T \in SUBSET NodesOf(mapping) : \A n \in T \ {out} : Consumers(n) \subseteq T}
Dropped(s, S) ==
    LET rest[k \in 0..Len(s)] ==
            IF k = 0 THEN << >> ELSE IF s[k] \in S THEN rest[k-1] ELSE Append(rest[k-1], s[k])
    IN  rest[Len(s)]
Replaced(mapping, out) ==
    LET taken == Taken(mapping, out)
        fused == Len(nodes) + 1
        outer == {k \in NodesOf(mapping) : k \notin taken} \cup
                 UNION {Linked(n) \ NodesOf(mapping) : n \in taken}
        node  == [type |-> FusedType, ins |-> SetToSeq(outer), label |-> Absent,
                  origins |-> Absent, dump |-> Absent, keep |-> FALSE]
        moved(n) == IF n \in taken THEN [nodes[n] EXCEPT !.ins = [i \in DOMAIN @ |-> 0]]
                    ELSE [nodes[n] EXCEPT !.ins = [i \in DOMAIN @ |-> IF @[i] = out THEN fused ELSE @[i]]]
    IN  <<Append([n \in 1..Len(nodes) |-> moved(n)], node), Append(Dropped(order, taken), fused), fused>>
Fusion(mapping, how) ==
    LET out == mapping[1][2]
    IN  CASE how \in {"unchanged", "fails"} -> <<nodes, order, 0>>
          [] how = "replace" -> Replaced(mapping, out)
          [] how = "retype"  -> <<[nodes EXCEPT ![out].type = FusedType], order, out>>

-----------------------------------------------------------------------------
(* Run.                                                                        *)

PatternInit ==
    /\ kind \in {"pattern", "graph"} /\ defs \in PatternDefs
    /\ \E g \in Graphs : nodes = [n \in 1..Len(g) |-> [type |-> g[n].type, ins |-> g[n].ins, label |-> g[n].label,
                                                       origins |-> Absent, dump |-> Absent, keep |-> g[n].type = "keep"]]
    /\ order = [n \in 1..Len(nodes) |-> n]
    /\ index \in {Absent, [type \in {nodes[n].type : n \in 1..Len(nodes)} |-> {n \in 1..Len(nodes) : nodes[n].type = type}]}
    /\ patterns = << >> /\ stage = "idle" /\ current = 0 /\ waiting = {} /\ anchorsMap = << >>
    /\ runs = 0 /\ changed = FALSE /\ status = "none" /\ touched = {}

(* Patterns are built once, in the first call, and kept when one is broken.    *)
PatternRun ==
    /\ stage = "idle" /\ runs < MaxRuns
    /\ runs' = runs + 1 /\ changed' = FALSE /\ current' = 1
    /\ patterns' = IF patterns = << >> THEN [i \in 1..Len(defs) |-> DefinePatterns(defs[i])] ELSE patterns
    /\ IF patterns = << >> /\ \E i \in 1..Len(defs) : DefinePatterns(defs[i]).error
       THEN stage' = "idle" /\ status' = "failed"
       ELSE stage' = "match" /\ status' = "none"
    /\ UNCHANGED <<fusionVars, kind, defs, waiting>>
EndRun ==
    /\ stage = "match" /\ current > Len(patterns)
    /\ stage' = "idle" /\ status' = IF changed THEN "success" ELSE "unchanged"
    /\ UNCHANGED <<fusionVars, kind, defs, patterns, current, waiting, runs, changed>>

(* All places of one pattern; different labels in one place drop all of them.  *)
MatchAll(labelsAgree) ==
    LET p     == patterns[current]
        outs  == IF p.output = Absent THEN {} ELSE GetMatchOutputNodes(p)
        rank(n) == IF GetOpTypeMapToGraph THEN 0 ELSE SelectInSeq(order, LAMBDA k : k = n)
        found == {m \in {<<rank(n), MatchFromOutput(p, n)>> : n \in outs} : m[2] # << >>}
    IN  /\ stage = "match" /\ current <= Len(patterns)
        /\ kind = "pattern" => IF labelsAgree THEN \A m \in found : CheckStreamLabel(m[2], TRUE)
                               ELSE \E m \in found : CheckStreamLabel(m[2], FALSE)
        /\ IF found # {} /\ (labelsAgree \/ kind = "graph")
           THEN waiting' = found /\ stage' = "fuse" /\ UNCHANGED current
           ELSE waiting' = {} /\ current' = current + 1 /\ UNCHANGED stage
        /\ anchorsMap' = IF kind = "graph" THEN anchorsMap
                         ELSE [n \in {m[2][1][2] : m \in found} \cap {k \in DOMAIN nodes : Consumers(k) # {}} |-> RecordOutputAnchorMap(n)]
        /\ touched' = {}
        /\ UNCHANGED <<nodes, order, index, kind, defs, patterns, runs, changed, status>>

RunOnePattern(m, how, first) ==
    LET fusedAs == Fusion(m[2], how)
        ns      == fusedAs[1]
        fused   == fusedAs[3]
        olds    == NodesOf(m[2])
        labelled == IF kind = "pattern" THEN SetStreamLabelToFusedNodes(ns, first, fused) ELSE ns
    IN  /\ stage = "fuse" /\ m \in waiting /\ first \in olds
        /\ \A other \in waiting : other[1] >= m[1]
        /\ how \in {"replace", "retype"} => \A n \in olds : IsIn(n)
        /\ how = "replace" => Len(nodes) < MaxNodes
        /\ order' = fusedAs[2]
        /\ touched' = IF fused = 0 THEN touched ELSE touched \cup olds
        /\ IF how = "fails" THEN stage' = "idle" /\ status' = "failed" /\ waiting' = {}
           ELSE stage' = "fuse" /\ status' = status /\ waiting' = waiting \ {m}
        /\ changed' = (changed \/ fused # 0)
        /\ index' = IF fused = 0 THEN index ELSE AddNodeFromOpTypeMap(index, fused, ns[fused].type)
        /\ nodes' = IF fused = 0 \/ kind = "graph" THEN labelled
                    ELSE InheritAttrFromOriNode(SetDataDumpAttr(labelled, olds, fused), olds, fused)
        /\ UNCHANGED <<anchorsMap, kind, defs, patterns, current, runs>>
NextPattern ==
    /\ stage = "fuse" /\ waiting = {}
    /\ stage' = "match" /\ current' = current + 1
    /\ UNCHANGED <<fusionVars, kind, defs, patterns, waiting, runs, changed, status>>

(* Between two calls another pass removes a node; it may tell the index.       *)
RemoveNodeFromNodeTypeMap(n, told) ==
    /\ stage = "idle" /\ runs \in 1..MaxRuns-1 /\ IsIn(n)
    /\ order' = Dropped(order, {n})
    /\ nodes' = [k \in DOMAIN nodes |-> [nodes[k] EXCEPT !.ins = [i \in DOMAIN @ |-> IF k = n \/ @[i] = n THEN 0 ELSE @[i]]]]
    /\ index' = IF told /\ index # Absent /\ nodes[n].type \in DOMAIN index
                THEN [index EXCEPT ![nodes[n].type] = @ \ {n}] ELSE index
    /\ anchorsMap' = << >>
    /\ UNCHANGED <<touched, passVars>>

PatternNext ==
    \/ PatternRun \/ EndRun \/ NextPattern
    \/ \E labelsAgree \in BOOLEAN : MatchAll(labelsAgree)
    \/ \E m \in waiting : \E first \in NodesOf(m[2]), how \in {"unchanged", "fails", "replace", "retype"} : RunOnePattern(m, how, first)
    \/ \E n \in ToSet(order), told \in BOOLEAN : RemoveNodeFromNodeTypeMap(n, told)
PatternSpec == PatternInit /\ [][PatternNext]_patternVars

-----------------------------------------------------------------------------
(* Properties.                                                                 *)

(* A place handed to Fusion that no earlier fusion of this round touched is a  *)
(* real place of the pattern: its nodes are in the graph and have the types,   *)
(* every described input is a different edge of the node and leads to a node   *)
(* of the place, and the place lies in one stream (MatchAll, MatchFromOutput). *)
IsPlace(p, m) ==
    LET place == ToSet(m)
    IN  /\ \A pair \in place : IsIn(pair[2]) /\ (p.descs[pair[1]] = {} \/ nodes[pair[2]].type \in p.descs[pair[1]])
        /\ \A pair \in place \ {m[1]} : \E user \in place :
               Contains(p.inputs[user[1]], pair[1]) /\ Contains(nodes[user[2]].ins, pair[2])
        /\ \A pair \in place : \E edge \in [1..Len(p.inputs[pair[1]]) -> 1..Len(nodes[pair[2]].ins)] :
               /\ IsInjective(edge)
               /\ \A j \in DOMAIN edge : <<p.inputs[pair[1]][j], nodes[pair[2]].ins[edge[j]]>> \in place
        /\ kind = "pattern" => Cardinality(LabelsOf(m) \ {NoWord}) <= 1
PlacesAreReal == stage = "fuse" =>
    \A m \in waiting : NodesOf(m[2]) \cap touched = {} => IsPlace(patterns[current], m[2])

(* Looking through the index finds what looking through the graph finds: the   *)
(* linked nodes of a type that are in the graph now, fused ones included, and  *)
(* no removed or retyped one (GetMatchOutputNodes, AddNodeFromOpTypeMap).      *)
IndexFindsTheGraph == stage = "match" /\ current <= Len(patterns) /\ GetOpTypeMapToGraph =>
    LET p == patterns[current]
    IN  p.output # Absent =>
            GetMatchOutputNodes(p) = {n \in ToSet(order) : nodes[n].type \in p.descs[p.output]
                                                          /\ (Linked(n) # {} \/ Consumers(n) # {})}

(* A pass of PatternFusionBasePass records on every fused node the names of    *)
(* the operators it was made of (GraphPassUtil::RecordOriginalNames).          *)
FusedNodesNameOrigins == kind = "pattern" =>
    \A n \in ToSet(order) : nodes[n].type = FusedType => nodes[n].origins # Absent

(* Fusion works on nodes as they are: the places of a pattern match when    *)
(* they are found, and the index by type finds the nodes of the graph.      *)
MatchesAreOfTheGraph == PlacesAreReal /\ IndexFindsTheGraph
=============================================================================
