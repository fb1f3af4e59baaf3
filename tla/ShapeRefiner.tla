---------------------------- MODULE ShapeRefiner ----------------------------
(***************************************************************************)
(* Inference of shapes and data types over a graph and its subgraphs:      *)
(* graph/shape_refiner.cc, NodeUtils::UpdatePeerNodeInputDesc and          *)
(* ComputeGraph::InferShapeInNeed.  Every end of a link has a tensor       *)
(* description of its own.  A node that is inferred pulls the descriptions *)
(* of its producers and pushes its own to consumers with a smaller id; at  *)
(* the border of a subgraph a Data copies the input of the parent node,    *)
(* and the parent's output is put together from the inputs of the          *)
(* NetOutputs.                                                             *)
(*                                                                         *)
(* The caller walks over the nodes: a node, then those of its subgraphs,   *)
(* then the node again with before_subgraph = false.  It may feed another  *)
(* shape and walk again, at compile time, at run time, or through          *)
(* InferShapeInNeed.  The code is sequential: a step is the inference of   *)
(* one node; refreshing the body of a While takes a step per node.         *)
(*                                                                         *)
(* A description is its dims, its data type, and the parent index that the *)
(* inputs of a NetOutput carry and that is copied with it.  Ranges, origin *)
(* shapes and marks of contexts are left out.                              *)
(***************************************************************************)
EXTENDS Integers, Sequences, SequencesExt, FiniteSets

CONSTANTS
  Nodes,
  Walk,        \* the calls of a pass: <<node, before_subgraph>>
  InNum, OutNum,
  Links,       \* the data links [src, o, dst, i], in the order they were made
  Place,       \* parent node and number of the subgraph a node is in, or None
  ParentIdx,   \* ATTR_NAME_PARENT_NODE_INDEX of a Data, or None
  Source,      \* the Data of the root graph that is fed
  Feeds,       \* the dims it is fed with
  Setups,      \* what may vary: see Init
  MaxPasses,   \* bound of the model: how often the graph is inferred
  None

UnknownDim == -1
UnknownRank == <<-2>>

VARIABLES
  setup,     \* types, infer functions and attributes of the nodes
  in, out,   \* descriptions of inputs and outputs
  found,     \* nodes that have got their infer function from the factory
  context,   \* context_map: the handle shape a node passes on, or None
  mode,      \* "idle", "compile", "running", "need" or "failed"
  place,     \* which call of Walk is next
  brush,     \* the stack and the visited nodes of ReverseBrushWhileBodySubGraph
  passes,    \* how many passes were begun
  history    \* see Properties

shapeVars == <<setup, in, out, found, context, mode, place, brush, passes, history>>

(***************************************************************************)
(* The graph.                                                              *)
(***************************************************************************)
InputsOf(n) == 0 .. InNum[n] - 1
OutputsOf(n) == 0 .. OutNum[n] - 1
TypeOf(n) == setup.type[n]
Unknown(n) == Place[n] # None /\ Place[n][1] \in setup.unknown   \* GetGraphUnknownFlag
Id(n) == CHOOSE p \in DOMAIN Walk : Walk[p] = <<n, TRUE>>
Feeding(n, i) == {l \in ToSet(Links) : l.dst = n /\ l.i = i}
LinkedInputs(n) == {i \in InputsOf(n) : Feeding(n, i) # {}}
Producer(n, i) == CHOOSE l \in Feeding(n, i) : TRUE
PeersOf(n, o) == SelectSeq(Links, LAMBDA l : l.src = n /\ l.o = o)

\* Nodes of subgraph k of node p, in the order of the walk.
Subgraph(p, k) == SelectSeq(Walk, LAMBDA c : Place[c[1]] = <<p, k>> /\ c[2])
Of(p, t) == {n \in Nodes : Place[n] # None /\ Place[n][1] = p /\ TypeOf(n) = t}
HasSubgraphs(n) == \E m \in Nodes : Place[m] # None /\ Place[m][1] = n

(***************************************************************************)
(* Infer functions.  They are not part of the repository; these are the    *)
(* kinds that the code tells apart.  "same", "append" and "cast" compute   *)
(* from the first input, "handle" also passes a shape on in the context,   *)
(* "read" takes it from there, "keep" leaves the outputs alone, and "fail" *)
(* fails.  A node may have none ("none"), get one from the operator that   *)
(* the factory makes ("late", or "misnamed" if its inputs have other       *)
(* names), or, at run time only, that of its original type ("origin").     *)
(***************************************************************************)
Appended(dims) == IF dims = UnknownRank THEN dims ELSE Append(dims, 2)
Refreshed(old, new) == [old EXCEPT !.dims = new.dims, !.dtype = new.dtype]

\* s is [in, out], the descriptions; handle comes with the context of input 0.
Computed(s, n, o, handle) ==
  LET f == setup.func[n]
      first == s.in[<<n, 0>>]
      old == s.out[<<n, o>>]
  IN  CASE f \in {"same", "handle", "late", "misnamed", "origin"} -> Refreshed(old, first)
        [] f = "append" -> [old EXCEPT !.dims = Appended(first.dims), !.dtype = first.dtype]
        [] f = "cast" -> [old EXCEPT !.dims = first.dims, !.dtype = "int"]
        [] f = "read" -> [old EXCEPT !.dims = IF handle = None THEN UnknownRank ELSE handle]
        [] OTHER -> old
CallInferFunc(s, n, handle) ==
  [s EXCEPT !.out = [e \in DOMAIN s.out |-> IF e[1] = n THEN Computed(s, n, e[2], handle) ELSE s.out[e]]]

\* What InferShapeAndType(node, op) comes to: there is no function ("none"),
\* it returns before the function is called again ("early"), or it calls it.
Outcome(s, n) ==
  LET f == setup.func[n]
  IN  IF f = "none" \/ (f = "origin" /\ n \notin found) THEN "none"
      ELSE IF f = "misnamed" /\ n \notin found /\ OutNum[n] > 0 /\ s.out[<<n, 0>>].dims # << >> THEN "early"
      ELSE IF f = "fail" THEN "failed"
      ELSE "done"

(***************************************************************************)
(* Descriptions that follow those of other nodes.                          *)
(***************************************************************************)
\* MUTANT of UpdateOpInputDesc: a shape of a higher rank is kept.
UpdateOpInputDescGrowing(s, n) ==
  [s EXCEPT !.in = [e \in DOMAIN s.in |->
     IF e[1] = n /\ e[2] \in LinkedInputs(n)
     THEN LET d == s.out[<<Producer(n, e[2]).src, Producer(n, e[2]).o>>]
          IN  IF Len(d.dims) >= Len(s.in[e].dims) THEN Refreshed(s.in[e], d) ELSE s.in[e]
     ELSE s.in[e]]]
UpdateOpInputDesc(s, n) ==
  [s EXCEPT !.in = [e \in DOMAIN s.in |->
     IF e[1] = n /\ e[2] \in LinkedInputs(n)
     THEN LET l == Producer(n, e[2]) IN Refreshed(s.in[e], s.out[<<l.src, l.o>>])
     ELSE s.in[e]]]

Verify(n) == Unknown(n) \/ TypeOf(n) = "Data" \/ LinkedInputs(n) = InputsOf(n)

\* MUTANT of UpdatePeerNodeInputDesc: the consumers that come later are pushed to.
UpdatePeerNodeInputDescLater(s, n) ==
  [s EXCEPT !.in = [e \in DOMAIN s.in |->
     IF \E l \in Feeding(e[1], e[2]) : l.src = n /\ Id(n) < Id(l.dst)
     THEN Refreshed(s.in[e], s.out[<<n, Producer(e[1], e[2]).o>>])
     ELSE s.in[e]]]
\* Only consumers that the order of ids does not make pull later.
UpdatePeerNodeInputDesc(s, n) ==
  [s EXCEPT !.in = [e \in DOMAIN s.in |->
     IF \E l \in Feeding(e[1], e[2]) : l.src = n /\ Id(n) >= Id(l.dst)
     THEN Refreshed(s.in[e], s.out[<<n, Producer(e[1], e[2]).o>>])
     ELSE s.in[e]]]

Flushed(n) == Of(n, "Data") \ setup.batchData
HasBadIndex(n) == \E d \in Of(n, "Data") : ParentIdx[d] = None \/ ParentIdx[d] >= InNum[n]
UpdateSubGraphDataNodes(s, n) ==
  LET fresh(e, old) == IF e[1] \in Flushed(n) THEN s.in[<<n, ParentIdx[e[1]]>>] ELSE old
  IN  [in  |-> [e \in DOMAIN s.in |-> fresh(e, s.in[e])],
       out |-> [e \in DOMAIN s.out |-> fresh(e, s.out[e])]]

(***************************************************************************)
(* UpdateParentNodeOutTensor.                                              *)
(***************************************************************************)
Branches(n) == {Place[m][2] : m \in {k \in Nodes : Place[k] # None /\ Place[k][1] = n}}
NetInputs(s, n, k, i) ==
  LET nets == SelectSeq(Subgraph(n, k), LAMBDA c : TypeOf(c[1]) = "NetOutput")
      ends == IF nets = << >> THEN << >> ELSE [j \in 1 .. InNum[nets[1][1]] |-> s.in[<<nets[1][1], j - 1>>]]
  IN  SelectSeq(ends, LAMBDA d : d.pidx = i)
RefOutTensors(s, n, i) ==
  FlattenSeq([k \in 1 .. Cardinality(Branches(n)) |-> NetInputs(s, n, k - 1, i)])
RefDataTensors(s, n, i) ==
  FlattenSeq([k \in 1 .. Cardinality(Branches(n)) |->
    LET datas == SelectSeq(Reverse(Subgraph(n, k - 1)), LAMBDA c : TypeOf(c[1]) = "Data" /\ ParentIdx[c[1]] = i)
    IN  [j \in DOMAIN datas |-> s.out[<<datas[j][1], 0>>]]])
Misses(s, n) ==
  \E k \in Branches(n) :
    \/ ~\E c \in ToSet(Subgraph(n, k)) : TypeOf(c[1]) = "NetOutput"
    \/ \E c \in ToSet(Subgraph(n, k)) :
         TypeOf(c[1]) = "NetOutput" /\ \E i \in InputsOf(c[1]) :
           s.in[<<c[1], i>>].pidx # None /\ s.in[<<c[1], i>>].pidx >= OutNum[n]

Rank(d) == Len(d.dims)
Known(dims) == \A i \in DOMAIN dims : dims[i] > 0
Size(dims) == FoldSeq(LAMBDA d, acc : d * acc, 1, dims)
UpdateOutputs(s, n, New(_)) ==
  [s EXCEPT !.out = [e \in DOMAIN s.out |->
     IF e[1] = n /\ RefOutTensors(s, n, e[2]) # << >> THEN New(e[2]) ELSE s.out[e]]]

\* MUTANT of Merged: dims are not compared once the ranks agree.
MergedByRank(ts) ==
  IF \E j \in DOMAIN ts : Rank(ts[j]) # Rank(ts[1]) THEN [ts[1] EXCEPT !.dims = UnknownRank] ELSE ts[1]
\* A dim in which the tensors differ is unknown, or all of them if ranks differ.
Merged(ts) ==
  [ts[1] EXCEPT !.dims =
     IF \E j \in DOMAIN ts : Rank(ts[j]) # Rank(ts[1]) THEN UnknownRank
     ELSE [i \in DOMAIN ts[1].dims |->
             IF \E j \in DOMAIN ts : ts[j].dims[i] # ts[1].dims[i] THEN UnknownDim ELSE ts[1].dims[i]]]
BranchFails(ts) ==
  \E j \in DOMAIN ts : ts[j].dtype # ts[1].dtype /\ \A k \in 1 .. j - 1 : Rank(ts[k]) = Rank(ts[1])
UpdateParentNodeForBranch(s, n) == UpdateOutputs(s, n, LAMBDA o : Merged(RefOutTensors(s, n, o)))

\* With ATTR_NAME_BATCH_NUM: the first tensor of the largest size.
Largest(ts) ==
  ts[CHOOSE j \in DOMAIN ts :
       /\ \A k \in DOMAIN ts : Size(ts[k].dims) <= Size(ts[j].dims)
       /\ \A k \in 1 .. j - 1 : Size(ts[k].dims) < Size(ts[j].dims)]
BatchFails(ts) == \E j \in DOMAIN ts : ts[j].dtype # ts[1].dtype \/ ~Known(ts[j].dims)
UpdataOutputForMultiBatcch(s, n) == UpdateOutputs(s, n, LAMBDA o : Largest(RefOutTensors(s, n, o)))

\* A While whose body turns one shape into another has no known shape.
Varies(s, n, o) ==
  \E d \in ToSet(RefDataTensors(s, n, o)) : d.dims # RefOutTensors(s, n, o)[1].dims
WhileFails(s, n) ==
  \/ InNum[n] # OutNum[n]
  \/ \E o \in OutputsOf(n) :
       LET ts == RefOutTensors(s, n, o)
           ds == RefDataTensors(s, n, o)
       IN  \/ Len(ts) # 1
           \/ \E j \in DOMAIN ds : ds[j].dtype # ts[1].dtype /\ \A k \in 1 .. j - 1 : ds[k].dims = ts[1].dims
UpdateParentNodeForWhile(s, n) ==
  UpdateOutputs(s, n, LAMBDA o :
    LET t == RefOutTensors(s, n, o)[1]
    IN  IF Varies(s, n, o) THEN [t EXCEPT !.dims = UnknownRank] ELSE t)

ParentFails(s, n) ==
  \/ Misses(s, n) \/ HasBadIndex(n)
  \/ IF TypeOf(n) = "While" THEN WhileFails(s, n)
     ELSE \E o \in OutputsOf(n) :
            LET ts == RefOutTensors(s, n, o)
            IN  IF n \in setup.batch THEN BatchFails(ts) ELSE BranchFails(ts)
UpdateParentNodeOutTensor(s, n) ==
  IF TypeOf(n) = "While" THEN UpdateParentNodeForWhile(s, n)
  ELSE IF n \in setup.batch THEN UpdataOutputForMultiBatcch(s, n)
  ELSE UpdateParentNodeForBranch(s, n)
\* MUTANT of NeedsBrush: the body is not refreshed.
NeedsNoBrush(s, n) == TypeOf(n) = "Case" /\ \E o \in OutputsOf(n) : Varies(s, n, o)
NeedsBrush(s, n) == TypeOf(n) = "While" /\ \E o \in OutputsOf(n) : Varies(s, n, o)

\* Data of the body (subgraph 1) that the body does not hand on unchanged.
IsWhileVaryingInput(s, d) ==
  /\ TypeOf(d) = "Data" /\ Place[d] # None /\ TypeOf(Place[d][1]) = "While"
  /\ ~\E l \in ToSet(PeersOf(d, 0)) :
        TypeOf(l.dst) = "NetOutput" /\ s.in[<<l.dst, l.i>>].pidx = ParentIdx[d]
VaryingInputs(s, n) ==
  LET calls == SelectSeq(Subgraph(n, 1), LAMBDA c : IsWhileVaryingInput(s, c[1]))
  IN  [j \in DOMAIN calls |-> calls[j][1]]

(***************************************************************************)
(* The passes.                                                             *)
(***************************************************************************)
NoBrush == [node |-> None, stack |-> << >>, visited |-> {}, types |-> << >>]
Now == [in |-> in, out |-> out]
Set(s) == in' = s.in /\ out' = s.out
TypesOf(s, n) == [o \in OutputsOf(n) |-> s.out[<<n, o>>].dtype]

Blank(p) == [dims |-> << >>, dtype |-> "float", pidx |-> p]
ShapeInit ==
  /\ setup \in Setups
  /\ in = [e \in {<<n, i>> \in Nodes \X (0 .. 3) : i < InNum[n]} |->
             IF e[1] = Source THEN [Blank(None) EXCEPT !.dims = setup.feed] ELSE Blank(setup.outIdx[e[1]])]
  /\ out = [e \in {<<n, o>> \in Nodes \X (0 .. 3) : o < OutNum[n]} |-> Blank(None)]
  /\ found = {}
  /\ context = [n \in Nodes |-> None]
  /\ mode = "idle" /\ place = 1 /\ brush = NoBrush /\ passes = 0
  /\ history = [memo |-> [f \in Feeds |-> None], stale |-> FALSE, brushed |-> {}, clean |-> TRUE,
                ended |-> "none", types |-> [e \in DOMAIN out |-> out[e].dtype]]

\* The caller gives the source another shape, or forgets the contexts.
Feed(f) ==
  /\ mode = "idle" /\ in[<<Source, 0>>].dims # f /\ passes < MaxPasses
  /\ in' = [in EXCEPT ![<<Source, 0>>].dims = f]
  /\ history' = [history EXCEPT !.stale = context # [n \in Nodes |-> None]]
  /\ UNCHANGED <<setup, out, found, context, mode, place, brush, passes>>
ClearContextMap ==
  /\ mode = "idle" /\ passes < MaxPasses
  /\ context # [n \in Nodes |-> None]
  /\ context' = [n \in Nodes |-> None]
  /\ history' = [history EXCEPT !.stale = FALSE]
  /\ UNCHANGED <<setup, in, out, found, mode, place, brush, passes>>

\* Optimizers that run between compilation and execution lower the precision
\* of an output, which its infer function knows nothing of.
LowerPrecision(e) ==
  /\ mode = "idle" /\ history.ended = "compile" /\ passes < MaxPasses
  /\ out[e].dtype = "float"
  /\ out' = [out EXCEPT ![e].dtype = "half"]
  /\ history' = [history EXCEPT !.ended = "lowered", !.clean = FALSE]
  /\ UNCHANGED <<setup, in, found, context, mode, place, brush, passes>>

StartPass(m) ==
  /\ mode = "idle" /\ passes < MaxPasses
  /\ m = "running" => history.ended \in {"compile", "lowered", "running"}
  /\ mode' = m /\ place' = 1 /\ passes' = passes + 1
  /\ history' = [history EXCEPT !.brushed = {}, !.clean = @ /\ m # "need", !.ended = "none",
                                !.types = [e \in DOMAIN out |-> out[e].dtype]]
  /\ UNCHANGED <<setup, in, out, found, context, brush>>

AtPass(m) == mode = m /\ place <= Len(Walk) /\ brush.node = None
Current == Walk[place][1]
BeforeSubgraph == Walk[place][2]
\* A failure ends the behaviour; what it leaves half done is not looked at.
FailPass == mode' = "failed" /\ UNCHANGED <<setup, in, out, found, context, place, brush, passes, history>>
Advance == place' = place + 1 /\ UNCHANGED <<setup, mode, passes, history>>

\* CreateInferenceContext: the handle of the producer of input 0.
HandleOf(n) ==
  IF Unknown(n) \/ 0 \notin LinkedInputs(n) THEN None ELSE context[Producer(n, 0).src]
\* The context is stored the first time only.
Stored(s, n, done) ==
  IF setup.func[n] = "handle" /\ done /\ ~Unknown(n) /\ context[n] = None
  THEN [context EXCEPT ![n] = s.in[<<n, 0>>].dims]
  ELSE context

\* The part of InferShapeAndType that both passes share, up to the infer
\* function: s with the Data of the subgraphs of n refreshed and n inferred.
Inferred(s, n, handle) ==
  LET t == IF BeforeSubgraph THEN UpdateSubGraphDataNodes(s, n) ELSE s
  IN  IF Outcome(t, n) = "done" THEN CallInferFunc(t, n, handle) ELSE t
Fails(s, n, handle) ==
  LET t == Inferred(s, n, handle)
  IN  \/ BeforeSubgraph /\ HasBadIndex(n)
      \/ Outcome(s, n) = "failed"
      \/ ~BeforeSubgraph /\ Outcome(s, n) = "done" /\ HasSubgraphs(n) /\ ParentFails(t, n)
AfterSubgraphs(s, n) == ~BeforeSubgraph /\ HasSubgraphs(n) /\ Outcome(s, n) = "done"
Finds(s, n) ==
  IF setup.func[n] \in {"late", "misnamed"} /\ Outcome(s, n) = "done" THEN found \cup {n} ELSE found

StartBrush(s, n, types) ==
  /\ Set(s)
  /\ brush' = [node |-> n, stack |-> VaryingInputs(s, n), visited |-> {}, types |-> types]
  /\ history' = [history EXCEPT !.brushed = @ \cup {n}]
  /\ UNCHANGED <<setup, context, mode, place, passes>>

\* The end of ShapeRefiner::InferShapeAndType(node, before_subgraph).
FinishCompile(s, n, done) ==
  /\ Set(IF Unknown(n) THEN s ELSE UpdatePeerNodeInputDesc(s, n))
  /\ context' = Stored(s, n, done)
  /\ brush' = NoBrush
  /\ Advance

InferShapeAndType ==
  /\ AtPass("compile")
  /\ LET n == Current
         s == IF Unknown(n) \/ n \in setup.verified THEN Now ELSE UpdateOpInputDesc(Now, n)
         t == Inferred(s, n, HandleOf(n))
         u == UpdateParentNodeOutTensor(t, n)
     IN  IF ~Verify(n) \/ Fails(s, n, HandleOf(n)) THEN FailPass
         ELSE /\ found' = Finds(s, n)
              /\ IF ~AfterSubgraphs(s, n) THEN FinishCompile(t, n, Outcome(s, n) = "done")
                 ELSE IF NeedsBrush(t, n) THEN StartBrush(u, n, << >>)
                 ELSE FinishCompile(u, n, TRUE)

\* MUTANT of FinishRunning: the types are not put back.
FinishRunningRetyped(s, n, types) ==
  /\ Set(s)
  /\ brush' = NoBrush
  /\ UNCHANGED context
  /\ Advance
\* The end of InferShapeAndTypeForRunning: the outputs get their types back.
FinishRunning(s, n, types) ==
  /\ Set([s EXCEPT !.out = [e \in DOMAIN s.out |->
                              IF e[1] = n THEN [s.out[e] EXCEPT !.dtype = types[e[2]]] ELSE s.out[e]]])
  /\ brush' = NoBrush
  /\ UNCHANGED context
  /\ Advance

\* The executor hands the shapes of the producers to a node before the call.
Handed(s, n) ==
  [s EXCEPT !.in = [e \in DOMAIN s.in |->
     IF e[1] = n /\ e[2] \in LinkedInputs(n)
     THEN LET l == Producer(n, e[2]) IN [s.in[e] EXCEPT !.dims = s.out[<<l.src, l.o>>].dims]
     ELSE s.in[e]]]
\* The function of the original type, for a node that has none yet.
FindsOrigin(n) == IF setup.func[n] = "origin" THEN found \cup {n} ELSE found
Inferable(n) == setup.func[n] \notin {"none", "fail"} /\ (setup.func[n] \in {"late", "misnamed"} => n \in found)
InferShapeAndTypeForRunning ==
  /\ AtPass("running")
  /\ LET n == Current
         s == Handed(Now, n)
         t == CallInferFunc(IF BeforeSubgraph THEN UpdateSubGraphDataNodes(s, n) ELSE s, n, None)
         u == UpdateParentNodeOutTensor(t, n)
     IN  IF \/ ~Inferable(n)
            \/ BeforeSubgraph /\ HasBadIndex(n)
            \/ ~BeforeSubgraph /\ HasSubgraphs(n) /\ ParentFails(t, n)
         THEN FailPass
         ELSE /\ found' = FindsOrigin(n)
              /\ IF BeforeSubgraph \/ ~HasSubgraphs(n) THEN FinishRunning(t, n, TypesOf(Now, n))
                 ELSE IF NeedsBrush(t, n) THEN StartBrush(u, n, TypesOf(Now, n))
                 ELSE FinishRunning(u, n, TypesOf(Now, n))

(***************************************************************************)
(* ReverseBrushWhileBodySubGraph, a node of the stack at a time.  cur_node *)
(* is a reference to the element that pop() has destroyed; the first       *)
(* push() may put a consumer in its place (reused), and cur_node then      *)
(* stands for that consumer.                                               *)
(***************************************************************************)
ConsumersOf(n) ==
  FlattenSeq([o \in 1 .. OutNum[n] |-> PeersOf(n, o - 1)])
BrushNode(reused) ==
  /\ brush.node # None /\ brush.stack # << >>
  /\ LET top == Last(brush.stack)
         pushes == ConsumersOf(top)
         first == IF pushes = << >> THEN None ELSE pushes[1].dst
         \* the node cur_node stands for when output o is reached
         cur(o) == IF reused /\ first # None /\ pushes[1].o < o THEN first ELSE top
         reached == {o \in OutputsOf(top) : o < OutNum[cur(o)]}
         taken == SelectSeq(pushes, LAMBDA l : l.o \in reached)
         wiped == {<<cur(o), o>> : o \in reached}
     IN  IF top \in brush.visited
         THEN /\ brush' = [brush EXCEPT !.stack = Front(@)]
              /\ UNCHANGED <<in, out>>
         ELSE /\ out' = [e \in DOMAIN out |->
                           IF e \in wiped THEN [out[e] EXCEPT !.dims = UnknownRank] ELSE out[e]]
              /\ in' = [e \in DOMAIN in |->
                          IF \E l \in ToSet(taken) : e = <<l.dst, l.i>>
                          THEN [in[e] EXCEPT !.dims = UnknownRank] ELSE in[e]]
              /\ brush' = [brush EXCEPT
                             !.stack = Front(@) \o [j \in DOMAIN taken |-> taken[j].dst],
                             !.visited = @ \cup {IF reused /\ first # None THEN first ELSE top}]
  /\ UNCHANGED <<setup, found, context, mode, place, passes, history>>

BrushDone ==
  /\ brush.node # None /\ brush.stack = << >>
  /\ IF mode = "compile" THEN FinishCompile(Now, brush.node, TRUE)
     ELSE FinishRunning(Now, brush.node, brush.types)
  /\ UNCHANGED found

(***************************************************************************)
(* ComputeGraph::InferShapeInNeed.  A consumer gets the whole description. *)
(***************************************************************************)
InferShapeInNeed ==
  /\ AtPass("need")
  /\ LET n == Current
         t == Inferred(Now, n, None)
     IN  IF ~BeforeSubgraph \/ n \notin setup.needed
         THEN UNCHANGED <<in, out, found, context, brush>> /\ Advance
         ELSE IF ~Verify(n) \/ Fails(Now, n, None) \/ (Outcome(Now, n) = "none" /\ TypeOf(n) = "Data") THEN FailPass
         ELSE IF Outcome(Now, n) = "none"
         THEN /\ Set(t)
              /\ place' = Len(Walk) + 1
              /\ UNCHANGED <<setup, found, context, mode, brush, passes, history>>
         ELSE /\ Set([t EXCEPT !.in = [e \in DOMAIN t.in |->
                        IF \E l \in Feeding(e[1], e[2]) : l.src = n
                        THEN t.out[<<n, Producer(e[1], e[2]).o>>] ELSE t.in[e]]])
              /\ found' = Finds(Now, n)
              /\ UNCHANGED <<context, brush>>
              /\ Advance

EndPass ==
  /\ mode \in {"compile", "running", "need"} /\ place > Len(Walk)
  /\ mode' = "idle"
  /\ history' = [history EXCEPT
       !.ended = mode,
       !.memo = IF mode = "compile" /\ ~history.stale /\ history.clean /\ @[in[<<Source, 0>>].dims] = None
                THEN [@ EXCEPT ![in[<<Source, 0>>].dims] = [e \in {x \in DOMAIN out : Place[x[1]] = None} |-> out[e]]]
                ELSE @]
  /\ UNCHANGED <<setup, in, out, found, context, place, brush, passes>>

ShapeNext ==
  \/ \E f \in Feeds : Feed(f)
  \/ ClearContextMap
  \/ \E e \in DOMAIN out : e[1] \in setup.lowered /\ LowerPrecision(e)
  \/ \E m \in {"compile", "running", "need"} : StartPass(m)
  \/ InferShapeAndType \/ InferShapeAndTypeForRunning \/ InferShapeInNeed
  \/ \E reused \in BOOLEAN : BrushNode(reused)
  \/ BrushDone
  \/ EndPass

ShapeSpec == ShapeInit /\ [][ShapeNext]_shapeVars

-----------------------------------------------------------------------------
Compiled == mode = "idle" /\ history.ended = "compile"
Same(d, e) == d.dims = e.dims /\ d.dtype = e.dtype
Covers(d, e) ==
  /\ d.dtype = e.dtype
  /\ \/ d.dims = UnknownRank
     \/ Rank(d) = Rank(e) /\ e.dims # UnknownRank /\ \A i \in DOMAIN d.dims : d.dims[i] \in {UnknownDim, e.dims[i]}

(* A pass that succeeds leaves the two ends of every link with the same     *)
(* shape and type: consumers that come later pull, those that came earlier  *)
(* are pushed to, and the refreshed body of a While changes on both ends.   *)
(* Graphs of unknown shape and nodes with has_infered_verified do not pull. *)
LinksAgree ==
  Compiled => \A l \in ToSet(Links) :
    \/ Unknown(l.dst) \/ l.dst \in setup.verified
    \/ Same(in[<<l.dst, l.i>>], out[<<l.src, l.o>>])

(* So do the two sides of the border of a subgraph: a Data has what the     *)
(* parent node gets, unless the body was refreshed, and what the parent     *)
(* node hands out covers what every branch computes.                        *)
BordersAgree ==
  Compiled => \A p \in {n \in Nodes : HasSubgraphs(n)} :
    /\ \A d \in Flushed(p) :
         \/ Same(out[<<d, 0>>], in[<<p, ParentIdx[d]>>])
         \/ p \in history.brushed /\ out[<<d, 0>>].dims = UnknownRank
    /\ Outcome(Now, p) = "done" => \A o \in OutputsOf(p) :
         LET ts == ToSet(RefOutTensors(Now, p, o))
         IN  IF p \in setup.batch /\ TypeOf(p) # "While"
             THEN ts # {} => /\ out[<<p, o>>] \in ts
                             /\ \A t \in ts : Size(t.dims) <= Size(out[<<p, o>>].dims)
             ELSE \A t \in ts : Covers(out[<<p, o>>], t)

(* What the body of a While computes fits its own inputs, so that the       *)
(* shapes hold in the next round of the loop as well.                       *)
LoopIsSteady ==
  Compiled => \A p \in Nodes : TypeOf(p) = "While" /\ Outcome(Now, p) = "done" =>
    \A d \in ToSet(VaryingInputs(Now, p)) :
      d \in Flushed(p) =>
        \A t \in ToSet(RefOutTensors(Now, p, ParentIdx[d])) : Covers(out[<<d, 0>>], t)

Repeatable == setup.unknown = {} /\ setup.verified = {} /\ \A n \in Nodes : setup.func[n] # "origin"
(* Shapes do not depend on what was inferred before: with the contexts      *)
(* cleared after a change of the fed shape, a pass gives the outputs of the *)
(* root graph that the first pass with that shape gave.  Nodes that do not   *)
(* pull keep what the executor gave them, InferShapeInNeed may change parent *)
(* indices, optimizers change types, and a run attaches the function of the  *)
(* original type for good: these are not part of this.                       *)
HistoryIndependent ==
  [][EndPass /\ mode = "compile" /\ ~history.stale /\ history.clean /\ Repeatable =>
       LET first == history.memo[in[<<Source, 0>>].dims]
       IN  first # None => \A e \in DOMAIN first : out[e] = first[e]]_shapeVars

(* "ensure the dtype is not changed after infershape in running": no output *)
(* of the graph changes its type at run time, those of subgraphs included.  *)
RunningKeepsTypes ==
  [][EndPass /\ mode = "running" => \A e \in DOMAIN out : out[e].dtype = history.types[e]]_shapeVars

(* "reverse refresh while body shape": when the refresh ends, no output     *)
(* that depends on a varying input of the body has a known rank.            *)
Downstream(S) ==
  LET step(T) == T \cup {l.dst : l \in {k \in ToSet(Links) : k.src \in T}}
      reach[k \in 0 .. Cardinality(Nodes)] == IF k = 0 THEN S ELSE step(reach[k - 1])
  IN  reach[Cardinality(Nodes)]
BrushReachesBody ==
  brush.node # None /\ brush.stack = << >> =>
    \A n \in Downstream(ToSet(VaryingInputs(Now, brush.node))) : \A o \in OutputsOf(n) :
      out[<<n, o>>].dims = UnknownRank

(* At every border, the one of a link and the one of a subgraph, both sides *)
(* hold the same after a pass of ShapeRefiner that succeeded.               *)
EndsAgree == LinksAgree /\ BordersAgree

(* Neither does what was inferred before change what a pass gives, nor does *)
(* a run change the types that the compiler settled.                        *)
PassesRepeat == HistoryIndependent /\ RunningKeepsTypes
=============================================================================
