---------------------------- MODULE BufferFusion ----------------------------
(* BufferFusionPattern: the description of a chain of operators that are      *)
(* fused in a buffer, put together by calls that count their errors, and what *)
(* BufferFusionPassBase reads from a match.  Overflow of the error counter    *)
(* and of the sum of minima is out of the model's range.                      *)
EXTENDS Integers, Sequences, FiniteSets, SequencesExt

CONSTANTS DescNames,    \* names of descriptions, also the empty one
          DescTypes,    \* lists of operator types
          Repeats,      \* pairs <<repeate_min, repeate_max>>
          NameLists,    \* lists of names that calls are given
          MaxCalls      \* bound: calls that define the pattern

ASSUME BufferAssumption == Repeats \subseteq Int \X Int /\ \A ids \in NameLists : ids \in Seq(ToSet(ids))

Default == 0
Multi   == 2
EmptyName == ""

VARIABLES opMap,        \* op_map_: name -> description
          outputs, inputs, \* name -> the linked names, in order
          head,         \* head_
          errors,       \* error_count_
          skip,         \* name -> count -> skip status is AVAILABLE
          asked,        \* what SetOutputs was asked to link: pairs of names
          calls,
          mixed         \* relations of two kinds were asked of one description
bufferVars == <<opMap, outputs, inputs, head, errors, skip, asked, calls, mixed>>

BufferInit ==
    /\ opMap = << >> /\ outputs = << >> /\ inputs = << >> /\ head = << >> /\ errors = 0 /\ skip = << >>
    /\ asked = {} /\ calls = 0 /\ mixed = FALSE

Called == calls < MaxCalls /\ calls' = calls + 1
Counted == errors' = errors + 1
Repeated(desc) == desc.min..desc.max-1

AddBufferOpDesc(name, ts, repeat) ==
    LET desc == [types |-> ts, min |-> repeat[1], max |-> repeat[2], branch |-> Default,
                 ignoreIn |-> FALSE, ignoreOut |-> FALSE]
        known(map, value) == [d \in DOMAIN map \cup {name} |-> IF d = name THEN value ELSE map[d]]
    IN  /\ Called
        /\ IF name = EmptyName \/ repeat[1] > repeat[2] \/ name \in DOMAIN opMap
           THEN Counted /\ UNCHANGED <<opMap, outputs, inputs, skip>>
           ELSE /\ opMap' = known(opMap, desc)
                /\ outputs' = known(outputs, << >>)
                /\ inputs' = known(inputs, << >>)
                /\ skip' = known(skip, [i \in Repeated(desc) |-> FALSE])
                /\ UNCHANGED errors
        /\ UNCHANGED <<head, asked, mixed>>

(* A producer of the same types whose outputs are ignored may be skipped.     *)
UpdateSkipStatus(name, branch) ==
    [d \in DOMAIN skip |->
        IF branch = Multi /\ Contains(inputs[name], d) /\ opMap[d].types = opMap[name].types /\ opMap[d].ignoreOut
        THEN [i \in DOMAIN skip[d] |-> TRUE] ELSE skip[d]]
(* The names that are linked: up to an unknown one, and up to the first one   *)
(* when the relation is another than the description has; never itself.       *)
KnownUntil(ids) == LET unknown == SelectInSeq(ids, LAMBDA i : i \notin DOMAIN opMap)
                   IN  IF unknown = 0 THEN ids ELSE SubSeq(ids, 1, unknown - 1)
(* Mutant: an unknown name is passed over.                                    *)
LinkKnown(name, ids, sameRelation) == SelectSeq(ids, LAMBDA i : i \in DOMAIN opMap)
LinkOutputs(name, ids, sameRelation) ==
    LET known == KnownUntil(ids)
        others[k \in 0..Len(known)] ==
            IF k = 0 THEN << >> ELSE IF known[k] = name THEN others[k-1] ELSE Append(others[k-1], known[k])
        linked == others[Len(known)]
    IN  IF sameRelation \/ linked = << >> THEN linked ELSE <<linked[1]>>
Occurs(s, x) == Cardinality({i \in 1..Len(s) : s[i] = x})
SetBufferOutputs(name, ids, relation, ignoreIn, ignoreOut) ==
    /\ Called
    /\ IF name \notin DOMAIN opMap THEN Counted /\ UNCHANGED <<opMap, outputs, inputs, skip, asked, mixed>>
       ELSE LET branch == IF opMap[name].branch = Default THEN relation ELSE opMap[name].branch
                linked == LinkOutputs(name, ids, branch = relation)
            IN  /\ opMap' = [opMap EXCEPT ![name].branch = branch, ![name].ignoreIn = ignoreIn, ![name].ignoreOut = ignoreOut]
                /\ skip' = UpdateSkipStatus(name, branch)
                /\ outputs' = [outputs EXCEPT ![name] = @ \o linked]
                /\ inputs' = [d \in DOMAIN inputs |-> inputs[d] \o [i \in 1..Occurs(linked, d) |-> name]]
                /\ errors' = IF KnownUntil(ids) # ids /\ (branch = relation \/ linked = << >>) THEN errors + 1 ELSE errors
                /\ asked' = asked \cup {<<name, i>> : i \in ToSet(ids) \ {name}}
                /\ mixed' = (mixed \/ branch # relation)
    /\ UNCHANGED head

(* Heads are kept up to the first that is refused; the sum is over all calls. *)
Total(numbers) ==
    LET total[k \in 0..Len(numbers)] == IF k = 0 THEN 0 ELSE total[k-1] + numbers[k]
    IN  total[Len(numbers)]
TotalMin(ids) == Total([k \in 1..Len(ids) |-> opMap[ids[k]].min])
SetHead(ids) ==
    LET refused == SelectInSeq(ids, LAMBDA i : i \notin DOMAIN opMap \/ opMap[i].max > 1)
        kept    == head \o (IF refused = 0 THEN ids ELSE SubSeq(ids, 1, refused - 1))
    IN  /\ Called
        /\ head' = kept
        /\ IF ids = << >> \/ refused > 0 \/ TotalMin(kept) > 1 THEN Counted ELSE UNCHANGED errors
        /\ UNCHANGED <<opMap, outputs, inputs, skip, asked, mixed>>

BufferNext ==
    \/ \E name \in DescNames, ts \in DescTypes, repeat \in Repeats : AddBufferOpDesc(name, ts, repeat)
    \/ \E name \in DescNames, ids \in NameLists,
          relation \in {1, Multi}, ignore \in BOOLEAN : SetBufferOutputs(name, ids, relation, FALSE, ignore)
    \/ \E ids \in NameLists \cup {<< >>} : SetHead(ids)
BufferSpec == BufferInit /\ [][BufferNext]_bufferVars

-----------------------------------------------------------------------------
(* The candidates after a description: itself while it may be repeated, its   *)
(* outputs, and those behind an output that may be left out.  Descriptions    *)
(* that may all be left out and follow each other in a circle have no end.    *)
Circular == \E d \in DOMAIN opMap : \E path \in [1..Cardinality(DOMAIN opMap) + 1 -> DOMAIN opMap] :
                /\ path[1] = d
                /\ \A i \in 2..Len(path) : Contains(outputs[path[i-1]], path[i]) /\ opMap[path[i]].min = 0
GetOutputs(name, current, ignoreRepeat) ==
    LET with(d, out) == <<d>> \o (IF opMap[d].min = 0 THEN out[d] ELSE << >>)
        behind[depth \in 0..Cardinality(DOMAIN opMap)] ==
            [d \in DOMAIN opMap |-> IF depth = 0 THEN << >>
             ELSE FlattenSeq([i \in 1..Len(outputs[d]) |-> with(outputs[d][i], behind[depth-1])])]
        own == IF ~ignoreRepeat /\ current < opMap[name].max THEN <<name>> ELSE << >>
    IN  own \o behind[Cardinality(DOMAIN opMap)][name]

(* A match maps descriptions to their nodes; ins gives the producers.         *)
GetMatchedNodes(mapping) == UNION {mapping[d] : d \in DOMAIN mapping}
GetMatchedNodesByDescName(name, mapping) == IF name \in DOMAIN mapping THEN mapping[name] ELSE {}
GetMatchedHeadNode(matched, ins) ==
    LET at == SelectInSeq(matched, LAMBDA n : ToSet(matched) \cap ins[n] = {})
    IN  IF at = 0 THEN {} ELSE {matched[at]}

-----------------------------------------------------------------------------
(* A pattern whose error counter is 0 is what its calls asked for: at most    *)
(* one head must occur and none is repeated, every asked link is there in     *)
(* both directions (but for a second kind of relation, which is dropped with  *)
(* a warning only), and the candidates after a description are those it       *)
(* reaches through descriptions that may be left out (GetOutputs).            *)
Through(d) == {path \in UNION {[1..k -> DOMAIN opMap] : k \in 1..Cardinality(DOMAIN opMap)} :
                 /\ Contains(outputs[d], path[1])
                 /\ \A i \in 2..Len(path) : opMap[path[i-1]].min = 0 /\ Contains(outputs[path[i-1]], path[i])}
ErrorFreePatternIsAsAsked == errors = 0 =>
    /\ TotalMin(head) <= 1 /\ \A d \in ToSet(head) : opMap[d].max <= 1
    /\ ~mixed => asked = UNION {{a} \X ToSet(outputs[a]) : a \in DOMAIN outputs}
    /\ \A a, b \in DOMAIN opMap :
         Occurs(outputs[a], b) = Occurs(inputs[b], a)
    /\ ~Circular => \A d \in DOMAIN opMap :
         ToSet(GetOutputs(d, 0, TRUE)) = {path[Len(path)] : path \in Through(d)}
=============================================================================
