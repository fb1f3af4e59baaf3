---------------------------- MODULE FormatRefiner ----------------------------
(* FormatRefiner::InferOrigineFormat: from the tensors that have a format (the *)
(* anchors) the format is spread backwards and forwards over the edges, and    *)
(* through a function node and its subgraphs over the tensors RefRelations     *)
(* calls the same.  Each node taken from the queue is one step.                *)
EXTENDS Integers, Sequences, FiniteSets, SequencesExt, FiniteSetsExt

CONSTANTS NoAttr,           \* an attribute that is not there
          MaxElementNum,    \* kMaxElementNum, 100 in the code
          MaxRuns           \* bound: how often the graph is inferred
ASSUME FormatAssumption == MaxElementNum \in Nat

VARIABLES shape,            \* the graph: it does not change
          tensor,           \* cell -> [format, origin]
          inferred,         \* _is_graph_inferred
          job               \* the inference that runs
fvars == <<shape, tensor, inferred, job>>
(* shape.order:  the nodes of the root graph and its subgraphs, GetAllNodes   *)
(* shape.type, shape.at, shape.subs: type, graph and subgraphs of a node      *)
(* shape.ins:    number of data inputs                                        *)
(* shape.parent: _parent_node_index of a Data, or of an input of a NetOutput  *)
(* shape.links:  the pairs of an output cell and the input cell it feeds, in   *)
(*               the order of the producers and of their outputs and readers  *)
(* shape.outs: number of outputs; shape.dim: number of dimensions of a cell;   *)
(* shape.func: the operator's infer format function ("default", "keep": one    *)
(* that changes nothing, "fail"); shape.value: a constant's tensor, or NoAttr;  *)
(* shape.dataFormat: the format of the graph's data.                           *)
(* job.stage: "idle", "anchors", "data", "failed"; job.todo: nodes still to    *)
(* start from; job.queue: nodes still to spread from; job.datas, job.table.    *)

-----------------------------------------------------------------------------
(* RefRelations: which tensors of a function node, of the Data of its         *)
(* subgraphs and of their NetOutputs are one and the same.  A cell is a       *)
(* tensor <<node, "in" or "out", index>>.  The relations are built from the   *)
(* root graph (called on a subgraph, the code assigns the root graph to it).  *)

In(n, i)  == <<n, "in", i>>
Out(n, i) == <<n, "out", i>>
ShapeNodes == ToSet(shape.order)
InsOf(n)  == {In(n, i) : i \in 0..shape.ins[n]-1}
OutsOf(n) == {Out(n, i) : i \in 0..shape.outs[n]-1}
Index(cell) == IF cell \in DOMAIN shape.parent THEN shape.parent[cell] ELSE NoAttr

(* The Data of all subgraphs that are found, and the NetOutputs of all but    *)
(* the first found one of a While, which is the condition.                    *)
Skipped(f) == IF shape.type[f] = "While" /\ shape.subs[f] # << >> THEN {shape.subs[f][1]} ELSE {}
GetDataOfSubGraph(f) ==
    {n \in ShapeNodes : shape.at[n] \in ToSet(shape.subs[f]) /\ shape.type[n] = "Data"}
GetNetoutputOfSubGraph(f) ==
    {n \in ShapeNodes : shape.at[n] \in ToSet(shape.subs[f]) \ Skipped(f) /\ shape.type[n] = "NetOutput"}

MaxElem(f) == LET n == Cardinality(GetDataOfSubGraph(f)) IN IF n > MaxElementNum THEN n ELSE MaxElementNum
ProcessSubgraphDataNodes(f) ==
    \A n \in GetDataOfSubGraph(f) : Index(In(n, 0)) # NoAttr /\ Index(In(n, 0)) < MaxElem(f)
ProcessSubgraphNetoutput(f) ==
    \A n \in GetNetoutputOfSubGraph(f) : \A i \in 0..shape.ins[n]-1 :
        Index(In(n, i)) # NoAttr => Index(In(n, i)) < MaxElem(f)

DataCells(f, k) == UNION {{In(n, 0), Out(n, 0)} : n \in {d \in GetDataOfSubGraph(f) : Index(In(d, 0)) = k}}
NetCells(f, k)  == {c \in UNION {InsOf(n) : n \in GetNetoutputOfSubGraph(f)} : Index(c) = k}

(* A branch: what goes in, then what comes out.                               *)
BuildRefRelationsForBranch(f) ==
    [k \in 1..MaxElem(f) |-> {In(f, k-1)} \cup DataCells(f, k-1)] \o
    [k \in 1..MaxElem(f) |-> {Out(f, k-1)} \cup NetCells(f, k-1)]

(* A loop: what goes in comes out.  A Data that goes straight to the last     *)
(* NetOutput joins its relation with that of the output it goes to.           *)
LoopCells(f, k) == {In(f, k), Out(f, k)} \cup DataCells(f, k) \cup NetCells(f, k)
LastNetoutput(f) ==
    LET nets == {n \in GetNetoutputOfSubGraph(f) :
                    \E k \in 0..shape.ins[f]-1 : \E c \in NetCells(f, k) : c[1] = n}
        last(n) == Max({Index(In(n, i)) : i \in {j \in 0..shape.ins[n]-1 : Index(In(n, j)) \in 0..shape.ins[f]-1}})
    IN  IF nets = {} THEN NoAttr ELSE CHOOSE n \in nets : \A m \in nets : last(m) <= last(n)
Straight(f) ==
    LET net     == LastNetoutput(f)
        zero(k) == IF k = NoAttr THEN 0 ELSE k
        pairs[i \in 0..shape.ins[net]] ==
            IF i = 0 THEN << >>
            ELSE LET datas == {l[1][1] : l \in {k \in ToSet(shape.links) : k[2] = In(net, i-1) /\ shape.type[k[1][1]] = "Data"}}
                 IN  IF datas = {} THEN pairs[i-1]
                     ELSE Append(pairs[i-1], <<zero(Index(In(CHOOSE d \in datas : TRUE, 0))), zero(Index(In(net, i-1)))>>)
    IN  IF net = NoAttr THEN << >> ELSE pairs[shape.ins[net]]
(* Mutant: the output's relation is not told.                                 *)
JoinOneWay(refs, pair) == [refs EXCEPT ![pair[1]+1] = @ \cup refs[pair[2]+1]]
Join(refs, pair) ==
    LET joined == refs[pair[1]+1] \cup refs[pair[2]+1]
    IN  [refs EXCEPT ![pair[1]+1] = joined, ![pair[2]+1] = joined]
BuildRefRelationsForWhile(f) ==
    LET pairs == Straight(f)
        refs[k \in 0..Len(pairs)] ==
            IF k = 0 THEN [i \in 1..shape.ins[f] |-> LoopCells(f, i-1)] ELSE Join(refs[k-1], pairs[k])
    IN  refs[Len(pairs)]

BuildRelationsWithFuncNodeType(f) ==
    IF shape.type[f] = "While" THEN BuildRefRelationsForWhile(f) ELSE BuildRefRelationsForBranch(f)
FunctionNodes == {n \in ShapeNodes : shape.subs[n] # << >>}
BuildsRefRelations == \A f \in FunctionNodes : ProcessSubgraphDataNodes(f) /\ ProcessSubgraphNetoutput(f)
BuildRefRelations ==
    LET values[k \in 0..Len(shape.order)] ==
            IF k = 0 THEN << >>
            ELSE values[k-1] \o (IF shape.order[k] \in FunctionNodes THEN BuildRelationsWithFuncNodeType(shape.order[k]) ELSE << >>)
    IN  values[Len(shape.order)]

(* The table keeps the last relation that a cell is found in.                 *)
BuildLookUpTables(values) ==
    [c \in UNION {values[k] : k \in 1..Len(values)} |-> values[Max({k \in 1..Len(values) : c \in values[k]})]]
LookUpRefRelations(table, cell) == IF cell \in DOMAIN table THEN table[cell] ELSE {}

-----------------------------------------------------------------------------
(* What the relations should be: the tensors that share an index of one       *)
(* function node, and over Data that go straight to a NetOutput of a loop.    *)
Base == UNION {IF shape.type[f] = "While" THEN {LoopCells(f, k) : k \in 0..shape.ins[f]-1}
               ELSE {{In(f, k)} \cup DataCells(f, k) : k \in 0..MaxElem(f)-1} \cup {{Out(f, k)} \cup NetCells(f, k) : k \in 0..MaxElem(f)-1}
               : f \in FunctionNodes}
Passed == UNION {{{LoopCells(f, pair[1]), LoopCells(f, pair[2])} : pair \in ToSet(Straight(f))}
                 : f \in {g \in FunctionNodes : shape.type[g] = "While"}}
(* The classes that B is joined with, over any number of passages.            *)
JoinedWith(B) == LET passed == Passed
                 reach[i \in 0..Cardinality(passed)] ==
                     IF i = 0 THEN {B} ELSE LET near == reach[i-1] IN near \cup UNION {p \in passed : p \cap near # {}}
             IN  reach[Cardinality(passed)]

-----------------------------------------------------------------------------
(* FormatRefiner.                                                              *)

InternalFormats == {"NC1HWC0"}
IsInternalFormat(fm) == fm \in InternalFormats
Ins(n)  == [i \in 1..shape.ins[n]  |-> In(n, i-1)]
Outs(n) == [i \in 1..shape.outs[n] |-> Out(n, i-1)]
CellsOf(n) == InsOf(n) \cup OutsOf(n)
AllCells == UNION {CellsOf(n) : n \in ShapeNodes}
PutFormat(ten, cells, fm) == [c \in DOMAIN ten |-> IF c \in cells THEN [format |-> fm, origin |-> fm] ELSE ten[c]]

-----------------------------------------------------------------------------
(* The operator's own rule.                                                    *)
DefaultInferFormat(ten, n) ==
    LET cells == Outs(n) \o Ins(n)
        known == {i \in 1..Len(cells) : ten[cells[i]].origin # "ND"}
    IN  IF known = {} THEN ten
        ELSE PutFormat(ten, {c \in CellsOf(n) : ten[c].origin = "ND"}, ten[cells[Min(known)]].origin)
InferOriginFormat(ten, n) == IF shape.func[n] = "default" THEN DefaultInferFormat(ten, n) ELSE ten

(* Spreading: the tensors, the queue, and whether all went well so far.        *)
(* `back` is the order in which the set of related tensors happens to be       *)
(* walked.                                                                     *)
Spreading(ten, queue, ok) == [ten |-> ten, queue |-> queue, ok |-> ok]
Enumerated(cells) ==
    LET some[i \in 0..Cardinality(cells)] ==
            IF i = 0 THEN << >>
            ELSE LET got == some[i-1] IN Append(got, CHOOSE c \in cells : c \notin ToSet(got))
    IN  some[Cardinality(cells)]
ChangesDim(n) == shape.type[n] \in {"Permute", "ExpandDims", "Squeeze"}
Exempt(c) == shape.dim[c] = 0 \/ (ChangesDim(c[1]) /\ shape.dim[c] < 4)
(* Mutant: the related tensors are set, their nodes not visited.               *)
ReflectionStays(s, cells, fm) == Spreading(PutFormat(s.ten, ToSet(cells), fm), s.queue, s.ok)
ReflectionProcess(s, cells, fm) ==
    Spreading(PutFormat(s.ten, ToSet(cells), fm), s.queue \o [k \in 1..Len(cells) |-> cells[k][1]], s.ok)
Settle(s, c, fm) ==
    LET ten == PutFormat(s.ten, {c}, fm)
    IN  IF shape.type[c[1]] = "NetOutput" THEN Spreading(ten, s.queue, s.ok)
        ELSE IF shape.func[c[1]] = "fail" THEN Spreading(ten, s.queue, FALSE)
        ELSE Spreading(InferOriginFormat(ten, c[1]), Append(s.queue, c[1]), s.ok)
Spread(s, c, fm, back) ==
    LET related == Enumerated(LookUpRefRelations(job.table, c))
    IN  IF ~s.ok \/ fm = "ND" \/ s.ten[c].origin # "ND" \/ Exempt(c) THEN s
        ELSE IF related = << >> THEN Settle(s, c, fm)
        ELSE ReflectionProcess(s, IF back THEN Reverse(related) ELSE related, fm)
(* Along the edges of one tensor, whose format is read once, then along those  *)
(* of all inputs or outputs of a node.                                         *)
Ends(l, forward) == IF forward THEN l ELSE <<l[2], l[1]>>
SpreadFrom(s, c, forward, back) ==
    LET along[k \in 0..Len(shape.links)] ==
            IF k = 0 THEN s
            ELSE LET ends == Ends(shape.links[k], forward)
                 IN  IF ends[1] = c THEN Spread(along[k-1], ends[2], s.ten[c].origin, back) ELSE along[k-1]
    IN  along[Len(shape.links)]
SpreadFromAll(s, cells, forward, back) ==
    LET past[i \in 0..Len(cells)] == IF i = 0 THEN s ELSE SpreadFrom(past[i-1], cells[i], forward, back)
    IN  past[Len(cells)]
BackInferProcess(s, n, back)    == SpreadFromAll(s, Ins(n), FALSE, back)
ForwardInferProcess(s, n, back) == SpreadFromAll(s, Outs(n), TRUE, back)

-----------------------------------------------------------------------------
(* Before spreading: a constant takes its tensor's description, a Data is      *)
(* noted, a node with a format is an anchor, a BiasAdd's format is corrected.  *)
RefreshConstantOutProcess(s, n) ==
    IF shape.type[n] # "Constant" \/ inferred THEN s
    ELSE IF shape.value[n] = NoAttr THEN [s EXCEPT !.ok = FALSE]
    ELSE [s EXCEPT !.ten = [s.ten EXCEPT ![Out(n, 0)] = shape.value[n]]]
Fixed(fm) == CASE fm = "NHWC" -> "NDHWC" [] fm = "NCHW" -> "NCDHW" [] OTHER -> fm
BiasAddFormatFixProcess(ten, n) ==
    LET fix(c) == IF shape.dim[c] = 5 THEN Fixed(ten[c].origin) ELSE "ND"
        hit(c) == shape.dim[c] = 5 \/ (c[2] = "in" /\ shape.dim[c] < 4)
    IN  IF shape.type[n] \notin {"BiasAdd", "BiasAddGrad"} THEN ten
        ELSE [c \in DOMAIN ten |-> IF c \in CellsOf(n) /\ hit(c) THEN [format |-> fix(c), origin |-> fix(c)] ELSE ten[c]]
IsAnchor(ten, n) == \E c \in CellsOf(n) : ten[c].format \notin {"ND", "RESERVED"}
PointAt(s, n) ==
    LET fresh == RefreshConstantOutProcess(s, n)
        seen  == IF shape.type[n] = "Data" THEN [fresh EXCEPT !.datas = fresh.datas \o [i \in 1..shape.ins[n] |-> n]] ELSE fresh
    IN  IF ~s.ok THEN s
        ELSE IF ~fresh.ok THEN fresh
        ELSE IF ~IsAnchor(seen.ten, n) THEN seen
        ELSE [seen EXCEPT !.ten = BiasAddFormatFixProcess(seen.ten, n), !.anchors = Append(seen.anchors, n)]
GetAnchorPoints ==
    LET points[k \in 0..Len(shape.order)] ==
            IF k = 0 THEN [ten |-> tensor, ok |-> TRUE, datas |-> << >>, anchors |-> << >>]
            ELSE PointAt(points[k-1], shape.order[k])
    IN  points[Len(shape.order)]
RefreshOriginFormatOfAnchor(ten, anchors) ==
    [c \in DOMAIN ten |-> IF c[1] \in ToSet(anchors) /\ ten[c].origin \in {"ND", "RESERVED"}
                          THEN [format |-> ten[c].format, origin |-> ten[c].format] ELSE ten[c]]

Fail == job' = [job EXCEPT !.stage = "failed"]
InferOrigineFormat ==
    /\ job.stage \in {"idle", "failed"} /\ job.runs < MaxRuns
    /\ UNCHANGED <<shape, inferred>>
    /\ IF ~BuildsRefRelations
       THEN /\ tensor' = tensor
            /\ job' = [job EXCEPT !.stage = "failed", !.runs = @ + 1]
       ELSE LET got == GetAnchorPoints
            IN  IF ~got.ok THEN /\ tensor' = got.ten
                                /\ job' = [job EXCEPT !.stage = "failed", !.runs = @ + 1]
                ELSE /\ tensor' = RefreshOriginFormatOfAnchor(got.ten, got.anchors)
                     /\ job' = [stage |-> "anchors", todo |-> got.anchors, queue |-> << >>, datas |-> got.datas,
                                table |-> BuildLookUpTables(BuildRefRelations), runs |-> job.runs + 1]

(* One node of AnchorProcess.  A failure among the Data still leaves the graph *)
(* marked as inferred, one among the anchors does not.                         *)
AnchorProcess ==
    /\ job.stage \in {"anchors", "data"} /\ job.queue # << >>
    /\ \E back \in BOOLEAN :
         LET n == Head(job.queue)
             s == ForwardInferProcess(BackInferProcess(Spreading(tensor, Tail(job.queue), TRUE), n, back), n, back)
         IN  /\ tensor' = s.ten
             /\ IF s.ok THEN job' = [job EXCEPT !.queue = s.queue] /\ inferred' = inferred
                ELSE Fail /\ inferred' = (inferred \/ job.stage = "data")
    /\ shape' = shape
NextAnchor ==
    /\ job.stage \in {"anchors", "data"} /\ job.queue = << >> /\ job.todo # << >>
    /\ job' = [job EXCEPT !.queue = <<Head(job.todo)>>, !.todo = Tail(job.todo)]
    /\ UNCHANGED <<shape, tensor, inferred>>

(* In a later inference the Data that still have no format get the graph's.    *)
DataNodeFormatProcess ==
    /\ job.stage = "anchors" /\ job.queue = << >> /\ job.todo = << >>
    /\ LET bare(n) == tensor[Out(n, 0)].origin = "ND" /\ shape.dim[In(n, 0)] >= 4
           found[k \in 0..Len(job.datas)] ==
               IF k = 0 THEN << >>
               ELSE LET n == job.datas[k] got == found[k-1]
                    IN  IF bare(n) /\ n \notin ToSet(got) THEN Append(got, n) ELSE got
           left == IF ~inferred \/ IsInternalFormat(shape.dataFormat) \/ shape.dataFormat = "ND" THEN << >> ELSE found[Len(job.datas)]
       IN  /\ tensor' = PutFormat(tensor, UNION {{In(n, 0), Out(n, 0)} : n \in ToSet(left)}, shape.dataFormat)
           /\ job' = [job EXCEPT !.stage = "data", !.todo = left]
    /\ UNCHANGED <<shape, inferred>>
Finish ==
    /\ job.stage = "data" /\ job.queue = << >> /\ job.todo = << >>
    /\ job' = [job EXCEPT !.stage = "idle"]
    /\ inferred' = TRUE
    /\ UNCHANGED <<shape, tensor>>

(* The graphs: edges go from an output to an input that has one producer, and *)
(* none starts at a NetOutput; a subgraph belongs to one node, which is neither *)
(* a Data nor a NetOutput; the indexes that a loop's relations are joined by   *)
(* are those of its inputs, which the code does not check; a description with  *)
(* an origin format has a format, and none is reserved.                        *)
RightFormat(p) == /\ p = [format |-> p.format, origin |-> p.origin]
                  /\ "RESERVED" \notin {p.format, p.origin} /\ (p.origin # "ND" => p.format # "ND")
WellLinked ==
    /\ shape.order \in Seq(ShapeNodes)
    /\ \A n \in ShapeNodes : /\ shape.ins[n] \in Nat /\ shape.outs[n] \in Nat
                              /\ (shape.value[n] # NoAttr => RightFormat(shape.value[n]))
    /\ shape.links \in Seq((UNION {OutsOf(n) : n \in ShapeNodes}) \X (UNION {InsOf(n) : n \in ShapeNodes}))
    /\ \A i, j \in 1..Len(shape.links) :
          /\ shape.links[i][2] = shape.links[j][2] => shape.links[i][1] = shape.links[j][1]
          /\ shape.type[shape.links[i][1][1]] # "NetOutput"
    /\ \A f \in FunctionNodes : /\ shape.type[f] \notin {"Data", "NetOutput"}
                               /\ \A g \in FunctionNodes \ {f} : ToSet(shape.subs[f]) \cap ToSet(shape.subs[g]) = {}
    /\ \A f \in FunctionNodes : shape.type[f] = "While" =>
          Straight(f) \in Seq((0..shape.ins[f]-1) \X (0..shape.ins[f]-1))
    /\ shape.dataFormat # "RESERVED"
WellFormatted == tensor = [c \in AllCells |-> tensor[c]] /\ \A c \in AllCells : RightFormat(tensor[c])
FStart ==
    /\ WellLinked /\ WellFormatted /\ inferred = FALSE
    /\ job = [stage |-> "idle", todo |-> << >>, queue |-> << >>, datas |-> << >>, table |-> << >>, runs |-> 0]
FInit(s, ten) == shape = s /\ tensor = ten /\ FStart
FNext == InferOrigineFormat \/ AnchorProcess \/ NextAnchor \/ DataNodeFormatProcess \/ Finish
FSpec == FStart /\ [][FNext]_fvars

-----------------------------------------------------------------------------
Done == job.stage = "idle" /\ job.runs > 0
(* An inference that succeeds leaves no edge with a format on one side only:   *)
(* whichever anchors it started from, and whichever way the related tensors    *)
(* were walked, the worklist reached everything (scalars, and nodes that       *)
(* change the number of dimensions, apart).                                    *)
FormatsSpread ==
    Done => \A k \in 1..Len(shape.links) :
        LET l == shape.links[k] IN
        /\ tensor[l[1]].origin # "ND" => tensor[l[2]].origin # "ND" \/ Exempt(l[2])
        /\ tensor[l[2]].origin # "ND" => tensor[l[1]].origin # "ND" \/ Exempt(l[1])

(* Each tensor is looked up with at least those that share its index, at most  *)
(* those that Data passed straight through a loop join to them, and with all   *)
(* of them where no more than two are joined.                                  *)
LookUpsAreClasses ==
    (job.stage = "anchors" /\ job.queue = << >>) =>
        LET base   == Base
            joined == [B \in base |-> JoinedWith(B)]
        IN \A B \in base : \A c \in B :
            LET found == LookUpRefRelations(job.table, c) IN
            /\ B \subseteq found
            /\ \E D \in base : c \in D /\ found \subseteq UNION joined[D]
            /\ Cardinality(joined[B]) <= 2 => UNION joined[B] \subseteq found

(* Only the main graph's Data get the graph's format by themselves: where the  *)
(* Data of a subgraph has it, the tensors it is one with have it too.  The     *)
(* code notes the Data of subgraphs as well: false.                            *)
OnlyMainGraphData ==
    (Done /\ shape.dataFormat # "ND") => \A n \in ShapeNodes :
        (shape.type[n] = "Data" /\ shape.at[n] # "root" /\ tensor[Out(n, 0)].origin = shape.dataFormat) =>
            \A c \in LookUpRefRelations(job.table, Out(n, 0)) \cap DOMAIN tensor : tensor[c].origin = shape.dataFormat
=============================================================================
