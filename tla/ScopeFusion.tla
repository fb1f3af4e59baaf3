------------------------------ MODULE ScopeFusion ------------------------------
(* Scope fusion: register/scope.  The nodes of a TensorFlow graph are sorted    *)
(* into a tree of scopes by their names; passes look for scopes that match      *)
(* patterns, give them a type and make fusion results of them; the parser then  *)
(* asks which nodes a result swallows.                                          *)
(*                                                                              *)
(* A name "a/b/n" is the sequence <<"a", "b", "n">>, the scope "a/b/" is        *)
(* <<"a", "b">> and Root << >>.  A part of a name is <<word, index>>, where     *)
(* index -1 stands for none.  Children are kept in unordered maps: any order    *)
(* is tried.  What a pass defines itself (patterns, last match, results) comes  *)
(* from small sets.                                                             *)
EXTENDS Integers, Sequences, SequencesExt, FiniteSetsExt, Functions

CONSTANTS GraphDefs,      \* graphs: sequences of [name, op, attr], attr is NoAttr or a value
          PassDefs,       \* passes: sequences of groups of batches of patterns
          Scripts,        \* what GenerateFusionResult may call
          Passes,         \* bound: passes that run
          Endings,        \* pairs <<u, w>>: the word w ends in u; words occur in others only there
          KeyOrder,       \* keys of a result's inputs and outputs, ends of names, in the order of a std::map
          Registered,     \* operator types with an IR
          NoAttr

(* Nodes have names, and a pass makes the calls FusionScopesResult offers.      *)
Words == UNION {UNION {ToSet(d[k].name) : k \in DOMAIN d} : d \in GraphDefs}
Calls == {"name", "type", "inputs", "outputs", "inner", "from", "to", "build", "check"}
ASSUME ScopeAssumption ==
    /\ \A d \in GraphDefs : /\ d \in Seq(ToSet(d))
                            /\ \A k \in DOMAIN d : d[k].name \in Seq(Words) /\ d[k].name # << >>
    /\ \A script \in Scripts : script \in Seq(ToSet(script)) /\ \A k \in DOMAIN script : script[k][1] \in Calls

None == -1
Root == << >>
InvalidType == "ScopeInvalid"
Disabled == 99999                     \* kFusionDisableIndex

VARIABLES def, passes,    \* the graph and the passes of this run
          next,           \* the node to be read
          nodesMap,       \* nodes_map_
          tree,           \* the scopes there are
          opNums,         \* scope -> type -> op_nums_
          held,           \* scope -> its nodes_
          types,          \* scope -> its sub_type_
          at,             \* the pass, group, batch and pattern that run
          tops, pending,  \* scopes still to be looked at for the pattern
          one, tmp, last, \* one_results, tmp_results and last_results
          results, todo,  \* what the pass matched, what of it is to be fused
          fusion,         \* fusion_results_: name -> result
          phase,
          before, start   \* history: types when the pass, the pattern began

scopeVars == <<def, passes, next, nodesMap, tree, opNums, held, types, at, tops, pending, one, tmp, last,
               results, todo, fusion, phase, before, start>>
treeVars  == <<nodesMap, tree, opNums, held>>
matchVars == <<at, tops, pending, one, tmp, last>>

OpTypes == UNION {{d[k].op : k \in DOMAIN d} : d \in GraphDefs} \cup {"_Retval"}
NoOps == [t \in OpTypes |-> None]

-----------------------------------------------------------------------------
(* Building the tree.                                                           *)

ScopeFusionInit ==
    /\ def \in GraphDefs /\ passes \in [1..Passes -> PassDefs]
    /\ next = 1 /\ nodesMap = {} /\ tree = {Root}
    /\ opNums = [s \in tree |-> NoOps] /\ held = [s \in tree |-> << >>] /\ types = [s \in tree |-> ""]
    /\ at = [pass |-> 0, group |-> 0, batch |-> 0, pattern |-> 0]
    /\ tops = {} /\ pending = {} /\ one = {} /\ tmp = {} /\ last = {}
    /\ results = {} /\ todo = {} /\ fusion = << >> /\ phase = "build" /\ before = types /\ start = types

(* SplitNodeName: the scopes on the way to a node.                              *)
SplitNodeName(name) == {SubSeq(name, 1, k) : k \in 0..Len(name)-1}
GetOpTypeNum(s, type) == IF type \in OpTypes THEN opNums[s][type] ELSE None
OpsNumInc(nums, type) == [nums EXCEPT ![type] = IF @ = None THEN 1 ELSE @ + 1]

AddNodeToScope(node) ==
    LET way == SplitNodeName(node.name)
        all == tree \cup way
    IN  /\ tree' = all
        /\ opNums' = [s \in all |-> LET nums == IF s \in tree THEN opNums[s] ELSE NoOps
                                    IN  IF s \in way THEN OpsNumInc(nums, node.op) ELSE nums]
        /\ held' = [s \in all |-> LET own == IF s \in tree THEN held[s] ELSE << >>
                                  IN  IF s = Front(node.name) THEN Append(own, node.name) ELSE own]
        /\ types' = [s \in all |-> IF s \in tree THEN types[s] ELSE ""]

(* BuildScopeGraph stops at a node that cannot be mapped and reports nothing:   *)
(* the rest stays out.  Its test for Identity and Const lets every type in.     *)
BuildScopeGraph(mapped) ==
    /\ phase = "build" /\ next <= Len(def)
    /\ IF mapped THEN /\ nodesMap' = nodesMap \cup {def[next].name}
                      /\ AddNodeToScope(def[next])
                      /\ next' = next + 1 /\ UNCHANGED phase
       ELSE phase' = "pass" /\ UNCHANGED <<treeVars, types, next>>
    /\ UNCHANGED <<def, passes, matchVars, results, todo, fusion, before, start>>

SubScopes(s)       == {c \in tree : Len(c) = Len(s) + 1 /\ IsPrefix(s, c)}
GetAllSubScopes(s) == {c \in tree : Len(c) > Len(s) /\ IsPrefix(s, c)}
AllNodesMap(s)     == UNION {ToSet(held[c]) : c \in {s} \cup GetAllSubScopes(s)}

-----------------------------------------------------------------------------
(* Matching a scope: the numbers of its operators, an attribute, its name and   *)
(* what is below it.                                                            *)

TrimScopeIndex(part) == IF part[2] > 0 THEN <<part[1], None>> ELSE part
LastName(s) == TrimScopeIndex(Last(s))

NodeOpTypeMatch(feature, s) ==
    LET num == GetOpTypeNum(s, feature.type)
    IN  IF feature.step = 0 THEN num = feature.num ELSE num # None /\ num % feature.step = feature.num

(* The first node of the type without the attribute ends the search.            *)
NodeAttrMatch(feature, s) ==
    LET node(k) == def[CHOOSE j \in DOMAIN def : def[j].name = held[s][k]]
        same == {k \in DOMAIN held[s] : node(k).op = feature.type}
    IN  \E k \in same : node(k).attr = feature.value /\ \A j \in same : j <= k => node(j).attr # NoAttr

SubScopesMatch(feature, T, below) ==
    /\ feature.subType # "" /\ feature.step = 0 => Cardinality({c \in below : T[c] = feature.subType}) = feature.num
    /\ feature.mask # "" => \E c \in below : <<feature.mask, LastName(c)[1]>> \in Endings
ScopeFeatureMatch(feature, T, s) ==
    /\ feature.suffix # "" => LastName(s) = <<feature.suffix, None>>
    /\ SubScopesMatch(feature, T, GetAllSubScopes(s))

(* A scope with a _Retval is never fused.                                       *)
NoRetval == [type |-> "_Retval", num |-> None, step |-> 0]
Match(pattern, T, s) ==
    /\ \A x \in pattern.ops : NodeOpTypeMatch(x, s)
    /\ \A x \in pattern.attrs : NodeAttrMatch(x, s)
    /\ \A x \in pattern.scopes : ScopeFeatureMatch(x, T, s)
    /\ NodeOpTypeMatch(NoRetval, s)

-----------------------------------------------------------------------------
(* A pass: groups of batches of patterns.                                       *)

Groups   == passes[at.pass]
Batches  == Groups[at.group]
Patterns == Batches[at.batch]
Pattern  == Patterns[at.pattern]

Run ==
    /\ phase \in {"build", "pass"} /\ phase = "build" => next > Len(def)
    /\ at.pass < Passes
    /\ at' = [pass |-> at.pass + 1, group |-> 1, batch |-> 1, pattern |-> 1]
    /\ tops' = SubScopes(Root) /\ pending' = {} /\ one' = {} /\ tmp' = {} /\ last' = {}
    /\ results' = {} /\ before' = types /\ start' = types /\ phase' = "match"
    /\ UNCHANGED <<def, passes, next, treeVars, types, todo, fusion>>

(* MatchOneScope: a scope that matches gets its type and is not searched;       *)
(* otherwise its children are looked at, and searched when they do not match.   *)
Typed(S) == [s \in tree |-> IF s \in S THEN Pattern.subType ELSE types[s]]
MatchOneScope(s) ==
    /\ phase = "match" /\ pending = {} /\ s \in tops
    /\ tops' = tops \ {s}
    /\ IF Match(Pattern, types, s) THEN one' = one \cup {s} /\ types' = Typed({s}) /\ UNCHANGED pending
       ELSE pending' = {s} /\ UNCHANGED <<one, types>>
    /\ UNCHANGED <<def, passes, next, treeVars, at, tmp, last, results, todo, fusion, phase, before, start>>
(* Mutant: the children of a scope that matched are searched as well.           *)
SearchedAll(children, found) == children
Searched(children, found) == children \ found
MatchSubScopes(s) ==
    LET found == {c \in SubScopes(s) : Match(Pattern, types, c)}
    IN  /\ phase = "match" /\ s \in pending
        /\ one' = one \cup found /\ types' = Typed(found)
        /\ pending' = (pending \ {s}) \cup Searched(SubScopes(s), found)
        /\ UNCHANGED <<def, passes, next, treeVars, at, tops, tmp, last, results, todo, fusion, phase, before, start>>

Begin(place, T) == at' = place /\ tops' = SubScopes(Root) /\ start' = T /\ UNCHANGED pending
(* MatchOneBatch goes through its patterns.                                     *)
MatchOneBatch ==
    /\ phase = "match" /\ tops = {} /\ pending = {} /\ at.pattern < Len(Patterns)
    /\ Begin([at EXCEPT !.pattern = @ + 1], types)
    /\ UNCHANGED <<def, passes, next, treeVars, types, one, tmp, last, results, todo, fusion, phase, before>>

(* MatchAllBatches: the next batch of the group, or its end, where the types of *)
(* earlier batches outside the last results are taken back.                     *)
NextBatch ==
    /\ phase = "match" /\ tops = {} /\ pending = {} /\ at.pattern = Len(Patterns)
    /\ one # {} /\ at.batch < Len(Batches)
    /\ tmp' = tmp \cup one /\ one' = {}
    /\ Begin([at EXCEPT !.batch = @ + 1, !.pattern = 1], types)
    /\ UNCHANGED <<def, passes, next, treeVars, types, last, results, todo, fusion, phase, before>>
Rollback(found) == {s \in tmp : ~\E r \in found : IsPrefix(r, s)}
EndGroup ==
    /\ phase = "match" /\ tops = {} /\ pending = {} /\ at.pattern = Len(Patterns)
    /\ one = {} \/ at.batch = Len(Batches)
    /\ types' = [s \in tree |-> IF s \in Rollback(one) THEN "" ELSE types[s]]
    /\ last' = one /\ results' = results \cup one /\ one' = {} /\ tmp' = {}
    /\ IF at.group < Len(Groups)
       THEN Begin([at EXCEPT !.group = @ + 1, !.batch = 1, !.pattern = 1], types') /\ UNCHANGED phase
       ELSE phase' = (IF results' = {} THEN "pass" ELSE "last") /\ UNCHANGED <<at, tops, pending, start>>
    /\ UNCHANGED <<def, passes, next, treeVars, todo, fusion, before>>

(* LastMatchScopesAndOPs of the pass may refuse what matched.                   *)
(* Mutant: only the type of the scope itself is cleared.                        *)
ClearOwnType(T, R) == [s \in tree |-> IF s \in R THEN "" ELSE T[s]]
ClearTypeAndSubType(T, R) == [s \in tree |-> IF \E r \in R : IsPrefix(r, s) THEN "" ELSE T[s]]
LastMatch(accepted) ==
    /\ phase = "last"
    /\ IF accepted THEN phase' = "generate" /\ todo' = results /\ UNCHANGED <<types, results>>
       ELSE phase' = "pass" /\ types' = ClearTypeAndSubType(types, results) /\ results' = {} /\ UNCHANGED todo
    /\ UNCHANGED <<def, passes, next, treeVars, matchVars, fusion, before, start>>

-----------------------------------------------------------------------------
(* Fusion results.  Calls of GenerateFusionResult: <<"inputs", key, indices>>,  *)
(* <<"outputs", key, indices>>, <<"inner", name, type>>, <<"from", name>> and   *)
(* <<"to", name>> for the last inner node, "" being the fusion scope, <<"build">>*)
(* and <<"check">>, which set the type invalid when they fail.                  *)

GetFullNodeName(r, name) == IF r.name = "" THEN <<name>> ELSE <<r.name, name>>
Entered(map, key, value) == [k \in DOMAIN map \cup {key} |-> IF k = key THEN value ELSE map[k]]
InsertInputs(r, key, index)  == IF key \in DOMAIN r.inputs THEN r ELSE [r EXCEPT !.inputs = Entered(@, key, index)]
InsertOutputs(r, key, index) == IF key \in DOMAIN r.outputs THEN r ELSE [r EXCEPT !.outputs = Entered(@, key, index)]
AddInnerNode(r, name, type) ==
    [r EXCEPT !.inner = Append(@, [name |-> GetFullNodeName(r, name), type |-> type, ins |-> << >>, outs |-> << >>])]
PeerName(r, name) == IF name = "" THEN << >> ELSE GetFullNodeName(r, name)
InsertInput(r, name)  == [r EXCEPT !.inner[Len(r.inner)].ins  = Append(@, PeerName(r, name))]
InsertOutput(r, name) == [r EXCEPT !.inner[Len(r.inner)].outs = Append(@, PeerName(r, name))]
BuildOperator(r) == r.inner # << >> /\ Last(r.inner).type \in Registered

Enabled(map)  == MapThenSumSet(LAMBDA key : Len(SelectSeq(map[key], LAMBDA i : i # Disabled)), DOMAIN map)
CheckInnerNodesInfo(r) ==
    /\ \A i, j \in DOMAIN r.inner : r.inner[i].name = r.inner[j].name => i = j
    /\ MapThenSumSet(LAMBDA k : Len(SelectSeq(r.inner[k].ins, LAMBDA p : p = << >>)), DOMAIN r.inner) = Enabled(r.inputs)
    /\ MapThenSumSet(LAMBDA k : Len(SelectSeq(r.inner[k].outs, LAMBDA p : p = << >>)), DOMAIN r.inner) = Enabled(r.outputs)

Apply(r, call) ==
    CASE call[1] = "name"    -> [r EXCEPT !.name = call[2]]
      [] call[1] = "type"    -> [r EXCEPT !.type = call[2]]
      [] call[1] = "inputs"  -> InsertInputs(r, call[2], call[3])
      [] call[1] = "outputs" -> InsertOutputs(r, call[2], call[3])
      [] call[1] = "inner"   -> AddInnerNode(r, call[2], call[3])
      [] call[1] = "from"    -> InsertInput(r, call[2])
      [] call[1] = "to"      -> InsertOutput(r, call[2])
      [] call[1] = "build"   -> IF BuildOperator(r) THEN r ELSE [r EXCEPT !.type = InvalidType]
      [] call[1] = "check"   -> IF CheckInnerNodesInfo(r) THEN r ELSE [r EXCEPT !.type = InvalidType]
NewResult(scopes, nodes) == [name |-> "", type |-> "", scopes |-> scopes, nodes |-> nodes, inputs |-> << >>,
                             outputs |-> << >>, inner |-> << >>]
GenerateFusionResult(scopes, nodes, script) ==
    LET after[k \in 0..Len(script)] ==
            IF k = 0 THEN NewResult(scopes, nodes) ELSE Apply(after[k-1], script[k])
    IN  after[Len(script)]

(* A result with an invalid type ends the pass with an error; the types of the  *)
(* scopes and earlier results stay.  One with the name of another replaces it.  *)
AddFusionScopesResult(r) == fusion' = Entered(fusion, r.name, r)
AddFusionScopesResultToScopeGraph(scopes, nodes, script) ==
    LET r == GenerateFusionResult(scopes, nodes, script)
    IN  /\ phase = "generate" /\ scopes \subseteq todo /\ scopes # {}
        /\ IF r.type = InvalidType THEN phase' = "failed" /\ UNCHANGED <<fusion, todo>>
           ELSE /\ AddFusionScopesResult(r)
                /\ todo' = todo \ scopes
                /\ phase' = IF todo' = {} THEN "pass" ELSE "generate"
        /\ UNCHANGED <<def, passes, next, treeVars, types, matchVars, results, before, start>>

ScopeFusionNext ==
    \/ \E mapped \in BOOLEAN : BuildScopeGraph(mapped)
    \/ Run
    \/ \E s \in tree : MatchOneScope(s) \/ MatchSubScopes(s)
    \/ MatchOneBatch \/ NextBatch \/ EndGroup
    \/ \E accepted \in BOOLEAN : LastMatch(accepted)
    \/ \E scopes \in {todo} \cup {{s} : s \in todo}, nodes \in {{}, {def[1].name}}, script \in Scripts :
           AddFusionScopesResultToScopeGraph(scopes, nodes, script)

ScopeFusionSpec == ScopeFusionInit /\ [][ScopeFusionNext]_scopeVars

-----------------------------------------------------------------------------
(* What the parser asks.                                                        *)

FindNodes(r, name)  == name \in r.nodes
(* Mutant: only nodes that are directly in the scope.                           *)
FindDirect(r, name) == \E s \in r.scopes : s = Front(name)
FindScopes(r, name) == \E s \in r.scopes : Len(s) < Len(name) /\ IsPrefix(s, name)
IsFusionOpChild(name) == {k \in DOMAIN fusion : FindNodes(fusion[k], name) \/ FindScopes(fusion[k], name)}
IsFusionOp(name, type) == name \in DOMAIN fusion /\ fusion[name].type = type

(* The name ends in the key, character by character.                            *)
EndsIn(name, key) ==
    LET rest == Len(name) - Len(key)
    IN  /\ rest >= 0
        /\ \A i \in DOMAIN key : IF i = 1 THEN key[1][2] = name[rest+1][2] /\ <<key[1][1], name[rest+1][1]>> \in Endings
                                  ELSE key[i] = name[rest+i]
(* The first of the keys, in the order of the map, in which the node's name ends. *)
GetFusionResultInputOrOutput(k, name, input) ==
    LET map  == IF input THEN fusion[k].inputs ELSE fusion[k].outputs
        ends == SelectSeq(KeyOrder, LAMBDA key : key \in DOMAIN map /\ EndsIn(name, key))
    IN  IF ends = << >> THEN << >> ELSE map[Head(ends)]
FusionOpChildIgnore(k, name) == \A input \in BOOLEAN : GetFusionResultInputOrOutput(k, name, input) = << >>
GetInputOrOutputIndex(k, name, old, input) ==
    LET index == GetFusionResultInputOrOutput(k, name, input)
    IN  IF old = -1 THEN -1 ELSE IF Len(index) < old + 1 THEN Disabled ELSE index[old + 1]

-----------------------------------------------------------------------------
(* Properties.                                                                  *)

(* A pattern finds the outermost scopes that match, by the operators that are   *)
(* really below them, whatever order the children come in (MatchOneScope gives  *)
(* types while it searches).                                                    *)
Under(s, name) == Len(s) < Len(name) /\ IsPrefix(s, name)
RealNum(s, type) == LET n == Cardinality({k \in 1..next-1 : Under(s, def[k].name) /\ def[k].op = type})
                    IN  IF n = 0 THEN None ELSE n
Matching(T, s) == /\ Match(Pattern, T, s)
                  /\ \A x \in Pattern.ops \cup {NoRetval} :
                        IF x.step = 0 THEN RealNum(s, x.type) = x.num ELSE RealNum(s, x.type) % x.step = x.num
Outermost(T) == {s \in tree \ {Root} : Matching(T, s) /\ ~\E p \in tree \ {Root, s} : IsPrefix(p, s) /\ Matching(T, p)}
MatchesAreOutermost ==
    phase = "match" /\ tops = {} /\ pending = {} =>
        Outermost(start) \subseteq one /\ (at.pattern = 1 => one = Outermost(start))

(* A pass leaves types only at or below what it fused: wherever it gave up, in  *)
(* a later batch, in another group or at the last match, the scopes it typed on *)
(* the way are as before or have no type (MatchAllBatches, ClearTypeAndSubType).*)
RollbackIsComplete == phase = "pass" /\ at.pass > 0 =>
    \A s \in tree : types[s] \in {before[s], ""} \/ \E r \in results : IsPrefix(r, s)

(* A node is swallowed by a fusion result exactly when it hangs in the tree     *)
(* below one of its scopes (FindScopes compares names only); one that the       *)
(* parser ignores has no port on the fusion operator (FusionOpChildIgnore).     *)
ChildrenFollowTheTree == \A name \in nodesMap :
    /\ IsFusionOpChild(name) =
         {k \in DOMAIN fusion : name \in fusion[k].nodes \/ \E s \in fusion[k].scopes : name \in AllNodesMap(s)}
    /\ \A k \in IsFusionOpChild(name) :
         /\ IsFusionOp(k, fusion[k].type)
         /\ FusionOpChildIgnore(k, name) =>
               \A old \in 0..1, input \in BOOLEAN : GetInputOrOutputIndex(k, name, old, input) = Disabled

(* A pass types the outermost matches and nothing when it is refused, and   *)
(* scopes are found by the tree of their names.                             *)
ScopesAreTypedRight == MatchesAreOutermost /\ RollbackIsComplete /\ ChildrenFollowTheTree
=============================================================================
