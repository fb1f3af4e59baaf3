# A verification of metadef

metadef is the metadata library of the Ascend graph engine: the in-memory
representation of a computation graph (nodes, anchors, links, subgraphs), the
values on it (tensors, descriptions, attributes), the utilities that rewrite,
copy and query it, the inference of shapes and formats over it, and the
registries that operators, parsers and fusion passes are entered in.  This
directory holds TLA+ models of it, TLC configurations that check them on small
instances, and TLAPS proofs for all instances.  Line numbers refer to the
repository at the commit the models were taken from; `PROJECT.json` maps every
definition to the lines it models and lists every component with its status.

## 1. Inventory

| Part | State | Operations | What makes it hard | What makes it correct |
|---|---|---|---|---|
| `BlockingQueue` (`inc/common/blocking_queue.h`) | list, mutex, two condition variables, stop flag | `Push`, `Pop`, `Stop`, `Restart`, `GetRemainItems`, `Clear` | threads; `notify_one`; notifications after the unlock | nothing lost or doubled, no lost wake-up, `Stop` reaches everyone |
| Anchor links (`graph/anchor.cc`) | `peer_anchors_` of each end | `LinkTo`, `LinkFrom`, `Unlink`, `UnlinkAll`, `ReplacePeer` | every link is stored twice; `UnlinkAll` loops until the list is empty | both copies agree; the loop ends |
| Graph container (`graph/compute_graph.cc`) | node list, size, inputs, outputs, subgraph registers, parents | add, remove, swap, attach, move | three redundant descriptions of the subgraph tree; half-done calls | the descriptions agree; removal is exact |
| Topological sort (`graph/compute_graph.cc`) | node list, ids, in-edge counters, stacks | `SortNodes`, DFS, BFS | wrapping counters, loops cut at `NextIteration`, two reversals | a permutation, producers first, real loops only |
| Rewriting (`graph/utils/graph_utils.cc`, `node_utils.cc`) | the links | isolate, remove, replace, insert, copy, move | rewired while it is being read | order and data of the other nodes survive |
| Reference mapping (`GraphUtils::GetRefMapping`) | two maps between anchors and symbols | one handler per kind of node | depends on the visiting order; maps changed by hand | the maps agree; classes neither too large nor too small |
| Shape inference (`graph/shape_refiner.cc`) | tensor descriptions, per-thread context map | infer a node, refresh parents and bodies | re-inference, loops, caches | shapes agree across links and the borders of subgraphs |
| Reference relations (`graph/ref_relation.cc`) | table from cells to classes | build, look up | branches, loops, Data that go straight to a NetOutput | a look-up is the class of its cell |
| Format inference (`graph/format_refiner.cc`, `node_shape_transform.cc`) | formats, a queue of nodes | refine forwards, backwards, again; infer one operator in origin formats | a worklist in hash order; failing operators | everything reachable gets the format; shape and format fit |
| Operators (`graph/operator.cc`) | operators that point at each other | ports, dynamic ports, connect, build a graph, break up | a connection is recorded twice, at different times | the graph is what was linked |
| `OpDesc` (`graph/op_desc.cc`) | descriptions, names to positions, registered names | add at the end, in front, in the middle, rename | index maps kept by hand | no port loses its name or description |
| Node inputs and weights (`graph/node.cc`, `node_utils.cc`, `op_desc_utils.cc`) | links, anchors, descriptions, weights of constants | link, append, remove, set and clear weights, five searches for constants | the same input in three vectors; constants behind subgraphs, loops, Enters | the vectors fit; the searches agree |
| User graph (`graph/graph.cc`, `gnode.cc`) | a graph behind weak handles | nodes, edges, outputs, targets | handles of removed nodes | removed is removed |
| Copies and builders (`graph_utils.cc` 1535-1900, 2350-3270) | a second graph | copy, clone, `CompleteGraphBuilder`, `PartialGraphBuilder` | many steps that may fail; nested subgraphs; a graph that exists | a copy is a copy; what was asked for, or an error |
| Tuning (`graph/utils/tuning_utils.cc`) | parts with `Placeholder` and `End` | make executable, load, join | names within names, order of the parts | joining undoes cutting |
| Model serialization (`graph/model_serialize.cc`, `model.cc`) | a message, a file | write, read | links by name; a write that breaks off | reading gives what was written |
| Registries (`graph/operator_factory_impl.cc`, `register/`) | maps from names to creators | register, look up, run | static initialisation order, colliding keys, who wins | the answer is the registration that counts |
| Contexts and options (`graph/runtime_inference_context.cc`, `graph/option/`) | contexts by session, thread-local options | create, use, destroy | raw pointers that leave the lock; pools of threads | each session its own tensors, nobody uses a freed context |
| Fusion statistics (`fusion_statistic_recorder.cc`) | two maps of counters | update, report and clear | threads; `int32_t` | every event is reported once |
| Fusion patterns (`register/graph_optimizer/`) | patterns, places found, index of nodes by type | build, match, fuse, again | all places are found before the first is fused | a place still matches when it is fused |
| Scope fusion (`register/scope/`) | tree of scopes, types, results | match in batches, fuse, ask | passes that fail half-way | types are taken back; answers fit the tree |
| Tensors and memory (`graph/ge_tensor.cc`, `tensor.cc`) | descriptors and blocks that are shared | copy, assign, clone, write | who shares what with whom | independent ones stay apart |
| Attributes (`graph/ge_attr_value.cc`, `buffer.cc`) | a map of tagged values | set, get, lists, buffers | kinds checked after the entry was made | a getter never finds another kind |
| Descriptions (`tensor.cc`, `ge_tensor.cc`, `tensor_adapter`) | shapes, formats, types, sizes | set, move, convert, size | shared shapes, missing fields, overflow | conversions agree; an overflow is seen |

How they interact.  `Node` owns its anchors and is owned by a `ComputeGraph`;
`OpDesc` describes a node and names its subgraphs in instance slots, which the
root graph's register resolves.  `GraphUtils` and `NodeUtils` are the only
writers of links besides `~Node`.  Sorting, reference mapping and inference
read links and node lists and rely on the container's tree (`GetAllNodes`) and
on one another's order: reference mapping asks for a sorted graph, inference
sorts first, and format inference asks the reference relations which tensors
are one.  User programs come in through `Operator` (links between operators,
turned into a graph once) or `Graph` and `GNode` (handles of nodes).  All of
that is sequential code; callers do their own locking.  Threads meet in
`BlockingQueue`, the contexts by session, the statistics recorder and some of
the registries.

The hazards that follow from this are listed in `PROJECT.json`, each at the
line where it bites, with the properties that cover it.

## 2. Modules

    BlockingQueue                                        BlockingQueue_proofs
    AnchorOps --- Anchor                                 Graphs_proofs
       \--------- GraphEdit - GraphRewrite  \
                              ComputeGraph  - MCGraphs   Graphs_proofs
       \--------- UserGraph - Serialize     \            refine CopySpec
                     \------- GraphBuilders  - MCCopies
                              Tuning        /
    TopoSort ---------------------- MCTopoSort           TopoSort_proofs
    RefMapping, ShapeRefiner ------ MCBorders            RefMapping_proofs
    FormatRefiner, Tensors         \
    InferTrans                      - MCFormats          Values_proofs
    Attributes, Descriptions       /
    OpDesc - Operators, Weights --- MCOperators          refines PortsSpec:
                                                         Registries_proofs
    OpRegistry, PassRegistries     \                     refine RegistrySpec
    RuntimeContext, FusionStatistic - MCRegistries       Registries_proofs
    ScopeFusion, PatternFusion, BufferFusion - MCFusion  Fusion_proofs

An MC module that takes several modules runs them as the parts of one
behaviour each (`part` or `scene` is chosen at the start and the others do not
move), except where the modules extend each other.

### The graph

**BlockingQueue.**  Every stretch of a call under `mutex_` is one action:
`Pop(t)` and `Push(t, wait)` are what happens from the lock (or from waking
up) to the return or to the next wait.  `Stop` is three actions, because it
notifies `full_cond_` and `empty_cond_` after it has unlocked.  `notify_one`
picks any sleeper; sleepers may also wake up by themselves
(`SpuriousWake`, external).  Histories (`accepted`, `delivered`, `dropped`,
`released`, `bypassed`) are only read by properties.

**AnchorOps, Anchor.**  `peers` maps each anchor to its `peer_anchors_`.
`AnchorOps` has the primitives as operators on `peers`; `Anchor` has an action
for each edge operation of `GraphUtils`, and unlinks anchor by anchor and peer
by peer (`UnlinkRound`) for `UnlinkAll` and `~Node`, since whether that loop
ends is the question.

**GraphEdit, GraphRewrite.**  `GraphEdit` has the rewriting functions as
operators that take links to links and a status, built on `AnchorOps`, in the
order in which the code edits; `GraphRewrite` calls one of them on any acyclic
graph whose links come from `Edges`.  `RemoveNode` also says which nodes leave
the list of the graph (the node, and the constants it was the only reader of).
A loop over an unordered set of nodes is taken in every order (`HashOrders`).

**TopoSort.**  One action per node collected, comparison and swap of
`SortNodes`, and per node and edge visited by the traversal, between any two
`AddEdge` calls of the user.  The counters are taken modulo `Modulus`.

**ComputeGraph.**  A graph is a record of node list, size, inputs, outputs,
register (list and map) and parents.  Each call is one action, with the half-done
states in which the code leaves the graph when it fails.  `GetAllNodes` is an
operator, with the value `Endless` where the code would not return.

**RefMapping.**  One action per round of each loop of `GetRefMapping`.  The
graph is a constant record of what the code reads of it; `map` holds the two
maps.  Why the call fails is kept in `result`: an index out of range
("invalid"), an anchor not yet mapped ("unseen"), or maps that disagree
("lost").

**ShapeRefiner.**  `in` and `out` hold a description (dims, data type, parent
index) for each end of a link.  The caller's walk over the nodes is a constant;
each call of `InferShapeAndType`, `InferShapeAndTypeForRunning` and each round
of `InferShapeInNeed` is an action, and the refresh of a While body takes one
action per node.  `cur_node` there is a reference to a popped element, so the
model lets it stand for the old node or for the first one pushed after it
(`reused`).  Infer functions, the executor, the optimizers between compilation
and execution, and the caller are external; `history` is only read by
properties.

**FormatRefiner.**  Its first part computes the table of `RefRelations` as
operators on a record `shape` of what the code reads of a graph.  An
inference is a job with its stage, the nodes still to start from and the queue
of nodes to spread from.  `AnchorProcess` takes a node from the queue and
spreads its formats backwards, forwards and over the related tensors, in
either order of these; `DataNodeFormatProcess` gives the Data of the graph its
format and spreads again.  A second inference starts from what the first has
left.  Any graph may be the one to infer if it is like those that callers give
(`FStart`): edges lead from outputs to inputs with one producer, and none
starts at a NetOutput; a subgraph belongs to one node, which is neither a Data
nor a NetOutput; a description with an origin format has a format, and none is
reserved; the indexes that join a loop's relations are those of its inputs,
which `ref_relation.cc` 269 takes for granted.

**InferTrans.**  `OpDesc::CallInferFunc` in its three steps: to origin formats
(`CatchFormatAndShape`), the operator's function, which may change the outputs
or fail (`InferFunc`, external), and back (`UpdateFormatAndShape`).  A shape is
the layout it is written in and what it says, so that a shape whose layout is
not its format is seen.  The update stops at the first output whose format the
function changed, and the call succeeds all the same, since `GRAPH_FAILED` is
returned as a `bool`; `left` remembers the outputs the update did not come to.

### Programs, copies and files

**UserGraph.**  The calls of `Graph` and `GNode` with handles of nodes that may
have been removed before; the graph is the node lists of the tree, the links,
and what `Graph` declares on it (outputs, targets, table of operators).
`CopyGraph`, `CopyAgain` (a copy of the copy) and `CloneGraph` are actions that
compute a second graph, node by node and link by link in the order of the code.
A tree has its graphs and also what `GetSubgraph` finds in it (`found`): a
copied subgraph is registered at the copy of the graph it is in directly, and
looked for at the root, so in the copy of a tree of two levels the lower one is
not found.  A copy of such a copy follows a null pointer; the program ends
there (`Running`).  The name of the outputs (`outName`) is kept as the string it is, with
its separators, because `SetOutputs` cuts off its last character whatever that
is, and `SetUserDefOutput` splits it again.

**GraphBuilders.**  A builder is a record of what was asked for and of the first
error; `CompleteGraphBuilder` makes a new graph, `PartialGraphBuilder` adds to
one.  A step that finds an error ends the build, as the checks at the start of
every step do.  On a graph that was built, `UpdateInputMapping` and
`UpdateOutputMapping` of `ComputeGraph` renumber the ports of the parent node.

**Tuning.**  From parts that a partitioner has cut (external: `Placeholder` and
`End` at every link) to executable graphs, and from those back.  Each
`HandlePld(k)` and `HandleEnd(k)` is one Placeholder or End; loading what could
be loaded (`MergeAllSubGraph`) and each link that is joined are one action.  The
order of Placeholders and Ends is open, since it is that of a sort.

**Serialize.**  Extends `UserGraph` by a file: writing lists nodes and links at
their consumers, reading makes the nodes and then the links by name.  A write
may be refused or break off.

**OpDesc, Operators, Weights.**  `OpDesc` has the methods of an operator
description as operators on a record of descriptions, name map and registered
names.  `Operators` keeps the two records of a connection apart, as the code
does (`input_link_` at the consumer, `output_links_` at the producer with the
position the input had at that time), and builds the graph by following both.
`Weights` works on nodes whose links, anchors and descriptions are separate
vectors, with one action per call of `NodeUtils`, `OpDescUtils` or `Node`, and
the five searches for the constant behind an input as operators.

### Registries, contexts, fusion

**OpRegistry, PassRegistries.**  Receivers and static initialisers may run in any
order; a name is the sequence of its parts between underscores, since keys are
joined with underscores and collide.  Each call is one action: registries that
are used by threads hold their mutex for the whole call.  A run of the custom
passes takes them one by one, since passes can be registered while it goes on.

**RuntimeContext.**  Executions create and destroy contexts; the threads they
give jobs to find the context by the options of their job, take a raw pointer
under the lock and use it after the unlock: two actions.

**FusionStatistic.**  Updates and the report, each under one lock; counters wrap
at `Wrap`.

**ScopeFusion, PatternFusion, BufferFusion.**  A pass is data: its patterns, the
script of what it puts in a result, what its `Fusion` does to the graph (one of
four outcomes).  Matching walks as the code does, from the output backwards,
without backtracking.  Children of a scope are tried in every order.

### Values

**Tensors.**  Memory is a record of cells (descriptors) and blocks (bytes); a
tensor says which it refers to, so that sharing is visible; freed memory may be
given out again, and the attributes that are there are a partial function.
**Attributes** keeps each entry with its kind, element kind
and value.  **Descriptions** has the user's and the internal description and
both conversions, over integers scaled to `Int64Max`.

### Abstract specifications

* `CopySpec`: a copy is what the original was when it was taken, or nothing, and
  later changes of the original do not reach it.  `CopyGraph`, `CloneGraph` and
  the file are instances of it (`Copying`, `Cloning` in `UserGraph`, `Storing` in
  `Serialize`): what is compared is the view that the source promises, the
  peers of every output in order for a copy, the producers of every input for
  a file.
* `PortsSpec`: ports go in anywhere; the old ones keep names, order and
  descriptions, but for the owners that a parser maps, whose descriptions it
  fills in while it makes the dynamic ports.  `Operators` implements it for the
  inputs and outputs of every operator (`Promise`), through the vectors and
  name maps of `OpDesc`.
* `RegistrySpec`: an entry comes from one registration; where the first one wins
  a look-up's answer never changes; an entry goes only where there is a way to
  remove it.  `OpRegistry` and `PassRegistries` implement it with one mapping from
  keys to what a look-up finds.

Each is checked as a property of a run: the detailed module's behaviours,
mapped, are behaviours of the abstract one.

## 3. What TLC checks

| Run | Properties | Instance and what it shows |
|---|---|---|
| `queue` | `ExactlyOnceInOrder`, `NoLostWakeup`, `SleepersAreServed` | 3 threads, 2 places, 3 items (46 662 states).  Items come out once, in order.  No wake-up of a consumer or producer is lost, but for the producers a `Clear` passes over; `Stop` reaches all sleepers; under fairness `Stop` unblocks and items are served |
| `anchor_links` | `LinksAreMutual`, `UnlinkAllIsExact` | 2 nodes, 3 links (96 631 states).  The two copies of every link agree; `UnlinkAll` and `~Node` end, return their own links and remove nothing else |
| `topo_sort` | `NodeListIntact`, `ProducersFirst`, `LoopIsReal`, `OrderIsAsDocumented`, `SortReturns` | 3 nodes, 2 edges, three run modes, sorts between any two edges (335 553 states).  Every sort returns; a permutation, producers first, a reported loop is one, loops are entered first, `dfs_reverse` orders siblings as the header says |
| `topo_inputs` (violation) | `InputsInUserOrder` | 3 inputs with an order that the user gave: they come out in another one (`compute_graph.cc` 1002) |
| `graph_editing` | `ContainersAgree`, `IsolateKeepsOrder`, `TakingOutKeepsData`, `PuttingInKeepsLinks`, `SubgraphsGoTogether` | Edges: 6 nodes, any acyclic subset of 11 links, one call.  Tree: 3 graphs, 3 nodes, 5 calls (489 446 states).  Isolating, bypassing, removing, replacing, inserting, moving keep the order of the other nodes and the data they read; lists, sizes, owners, registers agree; what goes together is removed or moved together; `GetAllNodes` lists every node of the tree once |
| `borders` | `MapsAgree`, `ClassesAreHeldTogether`, `SymbolsAreComplete`, `EndsAgree`, `LoopIsSteady`, `PassesRepeat` | Symbols: 7 nodes with a subgraph and a loop, two families of graphs.  Shapes: 11 nodes, a While or a Case with two subgraphs, three passes (150 888 states).  Two anchors get one symbol exactly when references join them; the two ends of links and borders agree; a loop fits its own result; a pass repeated gives what it gave |
| `formats` | `FormatsSpread`, `LookUpsAreClasses`, `ShapesFitFormats`, `DescriptionsAgree`, `TensorsApart`, `AttributesTyped` | A branch or loop with its body, 4 bodies, 9 peculiarities, up to two preset formats, two inferences; an operator inferred twice in any formats; 3 tensors and an attribute under 5 operations; 2 attributes and a buffer under 4; 2 descriptions under 2 with integers up to 15 (358 563 states) |
| `infer_calls` (violation) | `SuccessIsComplete` | the operators of `formats`: an infer function changes the format of an output, and `CallInferFunc` succeeds without having updated it (`transformer_utils.cc` 139) |
| `registries` | `SharedStateIsExact`, `OpRegistryPromise`, `PassesAsRegistered` | 3 registrations with colliding keys in any order, 3 calls on each other registry; 3 executions of 2 sessions on 2 threads and 2 addresses; 3 updates and reports (580 329 states) |
| `operators` | `BuiltAsLinked`, `ConstantsAgree`, `OpDescPromise`, `WeightsFitInputs` | 3 ways to make ports, or 3 connections of 5 operators and a build, or one subgraph builder; two formats; 14 nodes in three graphs edited twice, and 144 forms of them searched (84 212 states) |
| `copies` | `TuningRestores`, `BuildsAndRemovals`, `CopiesAreFaithful` | 5 nodes in a tree of 3 graphs under 2 edits, then copied, cloned or written; a builder with 3 settings; 3 nodes in 2 parts with up to 3 links, cut and joined (551 660 states).  What a copy has is as it was, and it finds what is directly below it; that it finds no more is in the table below |
| `fusion` | `ScopesAreTypedRight`, `MatchesAreOfTheGraph`, `ErrorFreePatternIsAsAsked` | 2 graphs of 5 nodes in nested scopes with 3 lists of passes and 3 scripts of results; 2 graphs and 4 pairs of patterns, each run twice by both pass bases; 5 calls on a buffer pattern (905 774 states) |

Why the bounds are enough.  A lost wake-up needs one sleeper, one woken thread
and one that overtakes it: three threads; two places tell "one free" from "all
free".  Three links make a parallel link beside another one, and a node that is
linked with itself.  Three nodes are the smallest loop with an entry
(input, merge, `NextIteration`); two edges close the loop or show siblings, a
sort between them starts from what an earlier one left, and the four safety
properties are theorems for any number of nodes and edges; the counter modulus 8 is
larger than any in-degree and small enough to wrap the way 2^32 does.  Around
the rewritten node there are two producers, two consumers and every kind of
link, control and mixed links included; calls do not remember earlier calls, so
one call on every starting graph covers sequences of calls.  Three graphs make
a subgraph of a subgraph, with distinct and with clashing names; five calls
build that tree and take it apart.  The reference mapping gets every
combination of the attributes that its handlers read, inside a subgraph and
around a merge, visited in two orders.  The graph of `ShapeRefiner` has a
consumer that comes before its producer, a pair of nodes that pass a context
on, and a body of two nodes; three passes are a shape, another one, and the
first again.  The formats' graph has two outputs of the function node, a Data
that goes straight to the NetOutput and one that goes through a node, and a
link around the function node.  Two sessions share threads and addresses only
if there are more executions than threads: three on two; a second execution of
the same session is the one whose context is refused.  A port moved by another
that is made in front of it needs three ways to make ports in a row.  A copy of
a tree of three graphs has a subgraph below a subgraph; one edit changes what
the copy is taken of, the other comes after it.  Two links into one part, or two
out of it, are where tuning could mix up names: three links on three nodes
have both.  A pass over patterns goes stale when an earlier place changes a
later one: two rounds on graphs where places overlap.

Deadlock checking is off where the calls of the model come to an end
(`MaxCalls`, `MaxSteps`, `MaxPasses`, `MaxEdits`, `MaxRuns`, `Return` and the like),
in all runs but `queue`, `anchor_links` and the sorts.

Fairness.  `queue`: `WF(Resume(t))`: a thread that was woken, or that is
between the notifications of `Stop`, contends for the mutex and is scheduled.
No caller has to call anything, and spurious wake-ups are not owed.
`anchor_links`: `WF(UnlinkRound)`, and `topo_sort`: `WF(SortStep)`: a
loop of sequential code runs on once it was entered.  Nothing forces an edge
to be added or a sort to be called.

Where code and documentation part.  `topo_inputs` and `infer_calls` are checked
as runs.  Other statements of headers, comments and log messages that the code does not keep
are written down beside the model; to see the behaviour, name the definition
as an invariant or property in the run's configuration:

| Definition | Module, run | What the code does |
|---|---|---|
| `RemainItemsAreReleased` | `BlockingQueue`, `queue` | items that `GetRemainItems` hands out for release stay in the queue and are popped again after `Restart` |
| `IsolateKeepsAllOrder` | `GraphRewrite`, `graph_editing` | an order that starts at a data output and ends at a control input is lost (`graph_utils.cc` 1091) |
| `BrushReachesBody` | `ShapeRefiner`, `borders` | the refresh of a While body can stop after its first node, since `cur_node` refers to a popped element (`shape_refiner.cc` 60) |
| `OnlyMainGraphData` | `FormatRefiner`, `formats` | Data of subgraphs are remembered too and get the graph's format in a second inference |
| `OnlyConstantsHoldWeights` | `Weights`, `operators` | a missing `return`: a node that is not a constant is logged and gets the weight (`op_desc_utils.cc` 603) |
| `CopyFindsItsSubgraphs` | `UserGraph`, `copies` | subgraphs "should only be added to the root graph" (`compute_graph.cc` 510), but the copy of a nested one is added to the copy of its direct parent (`graph_utils.cc` 1630), where `GetSubgraph` does not look (`compute_graph.cc` 557); a copy of that copy follows the null pointer (`graph_utils.cc` 1617) |
| `CloneKeepsOutputs` | `UserGraph`, `copies` | the outputs are looked up by the old names after the nodes were renamed |
| `RecoveredWhole` | `Tuning`, `copies` | a part that could not be loaded is logged, and the others are joined without it |
| `FusedNodesNameOrigins` | `PatternFusion`, `fusion` | the result of setting the origin attribute is not looked at |

More limits of the code are written into the statements of properties.
`InsertTransNode` fails whenever both formats are given, after it has put the
node in (`graph_utils.cc` 369: the test for consumers is the wrong way round), so
`TransNodesLeadThrough` is about failing calls too.
An `InDataAnchor` can get two producers through `OutControlAnchor::LinkTo` and
`ReplacePeer` (`anchor.cc` 233, 107).  `RelinkDataIO` serves only the first
output when `io_map` names an input twice (`graph_utils.cc` 1059).  The
condition graph of a While is not refreshed together with its body
(`shape_refiner.cc` 45; `LoopIsSteady` is about the body).  Relations joined by
Data that go straight through a body are joined pair by pair: a chain of three
is not closed (`ref_relation.cc` 271; `LookUpsAreClasses` asks for all of a class
only up to two).  An infer function that fails leaves the origin formats in
place of the formats (`op_desc.cc` 1343), and the next call takes them for the
formats: `ShapesFitFormats` is about calls that succeed, and asks of the outputs
that the update did not come to (`transformer_utils.cc` 139) only that each shape
is written in the format beside it.  Removing
input anchors does not unlink them (`node_utils.cc` 416; `Weights` has callers
that unlink first).  An empty slot for a subgraph is written as a graph that
cannot be read (`Serialize`).

## 4. What is proved

For every value of the constants (any number of threads, nodes, anchors, any
graph), from the named assumptions of the modules, which say that the sets are
finite and the numbers natural:

* `BlockingQueue_proofs`: `TypeCorrect`, `StopReachesSleepersAlways`,
  `NoLostConsumerWakeupAlways`, `NoLostProducerWakeupAlways`, together
  `NoLostWakeupAlways`, and `ExactlyOnceInOrderAlways`.  Each is inductive together
  with `TypeOK`; the two wake-up theorems count: an accepted item or a freed
  place adds one woken thread or finds no sleeper, and a woken thread that goes
  back to sleep found nothing to take.
* `Graphs_proofs`, about `Anchor`: `TypeCorrect`, `LinksAreMutualAlways`,
  `UnlinkAlwaysSucceedsAlways`, `UnlinksExactlyAlways`.  The invariant is that for
  any two anchors a and b, b occurs in the list of a as often as a in the list
  of b.  Lemmas say what appending, removing one entry and replacing an entry
  do to the counts.  That unlinking takes away its own links and nothing else
  needs one more invariant of the loop: while anchors are still to be unlinked,
  what the list of any other anchor holds besides them is what it held before.
  "What a list holds besides S" is a recursive function over the list
  (`RestOf`); that it exists and what it makes of an append or a removal is
  proved by the least length at which it could fail.
* `Graphs_proofs`, about `ComputeGraph`: `ContainersAgreeAlways`, that the lists,
  sizes, owners and registers agree whatever was attached, built, moved, removed
  or swapped, also where names clash and a call stops half way.  It is not
  inductive by itself: that no graph is in two registers needs to know how a graph
  gets into one.  The invariant adds that a graph has a parent graph and a parent
  node or neither, that a graph in a register has them, and that no graph is above
  itself, stated by a rank that falls from a graph to its parent; so `FindRootGraph`
  ends at a root.  `SetSubgraph`, the builder and `RemoveSubgraph` change one
  register at a time.  `MoveSubgraphToRoot` takes as many rounds as there are
  graphs, and has an invariant of its own: what is still to be moved holds every
  graph once, and each from the register that has it at that moment, which is the
  register of a graph the root already lists.  `RemoveSubgraphRecursively` and
  `RemoveSubgraphsOnNode` take entries out of one register, so they need only that
  erasing from a list leaves the others in order.  The assumptions are that graphs
  and nodes are finitely many and that a node is created in one graph.
* `TopoSort_proofs`: `TypeCorrect`, `NodeListIntactAlways`,
  `ProducersFirstAlways`, `LoopIsRealAlways`, `OrderIsAsDocumentedAlways`.  The
  invariant adds, for each phase, what the counters mean: the edges into a node
  that is not taken yet are those still to come plus those counted; a node enters
  the vector when its count is used up, once; and what is in the vector is in
  order.  A node that was never taken waits for another such node, which is the
  closed loop.  The documented order needs two more invariants.  `Loops`: when
  every `NextIteration` lies downstream of the node it feeds, a node that was
  taken waits for broken edges only; the nodes that are not taken include
  everything downstream of one of them, so no broken edge can have been
  followed before its loop was entered.  `InTurn`: of two siblings whose edges
  both have been followed, one is before the other in the list of the running
  group, on the stack, or in the vector, the order turning at each move the way
  `dfs_reverse` says.
* `RefMapping_proofs`: `TypeCorrect`, `MapsAgreeAlways`, `NothingLostAlways`,
  `ClassesAreHeldTogetherAlways`, `SymbolsAreCompleteAlways`.  The invariant adds
  that an anchor of a node not reached yet has no symbol, except the output of a
  `NextIteration` that a merge has mapped ahead; that `max_node_index_io` is
  mapped while the unions run; and that a union of two classes across a
  reference stays connected.  Completeness has an invariant of its own: which
  anchors and which references the rounds so far have dealt with.  For graphs
  whose nodes are visited once, whose links come from outputs, and whose loops
  are cut once, at a merge that comes before its `NextIteration`.
* `Registries_proofs`: `RegistriesInvariant`, `SharedStateStaysExact`,
  `OpRegistryRefines`, `PassesStayAsRegistered`, `OpDescPromiseAlways`.  The invariant has one part per
  component.  The contexts: a pointer that a thread holds is to a context that
  is alive, because the execution that gave the job waits for it.  The
  statistics: each counter is, modulo the width of its integer, what was told
  and not yet reported.  The refinement is step by step: registering, looking
  up and removing map to the same step of `RegistrySpec` or to none, with
  colliding keys as well.  Passes are listed by priority and, among equals, by
  the time they were registered, and a run that meets insertions passes none
  over that was there when it began.  `OpDescPromiseAlways` is that `Operators`
  implements `PortsSpec`, for any operators.  Its invariant (`PortsInv`): for the
  inputs and for the outputs of every operator, the name map is a bijection
  between the names and the positions of the vector, and until operators are
  connected the ports made by a dynamic call have the description they were
  made with.  Inserting `n` ports at `i` moves the positions from `i` on and no
  other, so the map stays a bijection and the old ports keep their order; taking
  over the names of `UpdateInputName` keeps it one because there are as many
  names as ports (by cardinality).  A call that makes a run of ports is a
  recursive function of their number; `RunExists` and `RunStays` prove, once,
  that such a function is defined and that what each round keeps, the run keeps.
  Every operation is then an `Extend`, a `Describe` or a `Rename` of `PortsSpec`.
  That an operator is linked only by operators of the program, and that what is
  registered of one is a finite list, is assumed (`OperatorAssumption`).
* `Values_proofs`: `ShapesFitFormatsAlways`, `AttributesTypedAlways`,
  `DescriptionsAgreeAlways`, `TensorsApartAlways`, `SpreadInvAlways`,
  `FormatsSpreadAlways`, `LookUpsAreClassesAlways`.  `InferTrans`: after each step every port has the
  shape that fits that step, written in its format (after a call that succeeded)
  or in its origin format (in the operator's function), and what was saved of it
  says the same; a failed call can leave an output laid out otherwise, whose
  shape the next function writes; so the two passes over the ports, one by one, bring
  back what they found, up to the output at which the second one stops, and from
  there on leave what the function wrote.  For operators with any number of ports.  `Attributes`:
  the kind of an entry says what its value looks like, and a buffer that shows
  an attribute shows bytes; every operation either puts one value that the kind
  allows, leaves the entry, or takes away bytes it moves elsewhere.
  `Descriptions`: the invariant is the type of the descriptions and of the
  shapes they share, for which there must always be two shapes that no
  description uses (counted: two for each variable at most).  That the test for
  overflow is exact is a lemma about division with the four combinations of
  signs, for any `Int64Max`; the sizes are proved for shapes of at most two
  dimensions, which is what the actions build, by exhibiting the values of the
  recursive function.  `Tensors`: the invariant is that objects and attributes
  of two families refer to no cell and no block in common, and that an object
  that stands for an attribute is of its family.  A step is local when the
  family it touches is made of the families that meet in it and of new memory;
  that a local step keeps the invariant and shows nowhere else is one lemma,
  and each operation is shown to be local.  There is always new memory: a
  holder refers to two cells and one block, an attribute to one of each, and
  there is one more.  The assumptions say that `NotSet`, `Missing`, `Nil`, `Gone` and the
  reserved names are not values, and that dimensions are integers of 64 bits.
  `FormatRefiner`: the invariant of the worklist (`SpreadInv`) is that whenever one
  end of an edge has a format that the other end should have, the node at the end
  with the format waits in the queue, or is still to be started from, or is the
  one that spreads.  A spreading over related tensors gives formats to
  several nodes at once; all of them are put in the queue (`Grows`).  With the
  queue empty no edge is left with one side only.  The look-ups rest on the table
  of `RefRelations`: the classes that the branches of a function node make are
  apart, since a subgraph belongs to one node; the classes joined with one by
  passages of a loop are the least set around it that no passage leads out of
  (`JoinedIs`, by counting passages); and the table keeps, for every tensor, the
  relation entered last.
* `Fusion_proofs`: `ScopeInvAlways`, `ScopesAreTypedRightAlways`, `PatternInvAlways`,
  `MatchesAreOfTheGraphAlways`, `BufferInvAlways`, `ErrorFreePatternIsAsAskedAlways`.
  Scopes: the tree holds exactly the beginnings of the names of the nodes read so
  far; a counter of operators of a scope is the number of such nodes below it; the
  search for a pattern, which goes into the children of every scope that does not
  match, has at each moment typed the outermost matches among the scopes it has
  left behind; a pass that gives up has taken back every type of its own.
  Patterns: the index by type names every node that is in the graph, nodes that
  were removed have no links, and descriptions refer to descriptions of the same
  pattern.  The search from an output adds pairs of a description and a node; they
  are distinct and there are finitely many, so that it ends, and the place it
  ends with has for every described input an edge of its own.  The place is one
  until a fusion of the round touches one of its nodes.  Buffer patterns: a link is in
  the list of outputs of one description as often as in the list of inputs of the
  other (the lists are counted, as for anchors); the heads are those that
  were asked, and must be few enough; the candidates after a description are the
  ends of the paths through those that may be left out, by induction over their
  depth.  The assumptions say that names, scripts and lists are finite and that the
  numbers of repetitions are integers.

Only model-checked: liveness (fairness is out of the prover's reach; so are
`SleepersAreServed`, `SortReturns` and the second half of `UnlinkAllIsExact`, that
the loop ends); the invariants `EndsAgree`, `LoopIsSteady`,
`BuiltAsLinked`, `ConstantsAgree`, `TuningRestores` and `BuildsAndRemovals`; the
refinements of `CopySpec` (`CopiesAreFaithful`); `SubgraphsGoTogether`, where
a walk of the tree has to be shown to reach what lies below a node; and the action
properties of `GraphRewrite`, `Weights` (`WeightsFitInputs`) and `ShapeRefiner` (`PassesRepeat`).
Some of these are about the instance: `BuiltAsLinked` holds for operators with
different names and scenes in which the dynamic ports are made before the
connections, `EndsAgree` and `LoopIsSteady` for walks that a caller makes.  The
others fold over sequences (links, ports, nodes in the order of the code).  The
induction theorems of the library cannot be used for folds, since they take an
operator as parameter: where a fact about a list was worth it, the model has a
recursive function in its place and the fact is proved by the least number of
rounds at which it could fail, which has to be done for each function by itself.

## 5. Plan

What is left, the most useful first:

1. Proofs that each operator of `GraphEdit` keeps links mutual, from the lemmas
   of `Graphs_proofs`, and that the walks of `ComputeGraph` reach exactly what lies
   below a node (`SubgraphsGoTogether`).
2. The equality operators of nodes, descriptions and graphs, compared with
   copies; the description builder (`op_desc_utils.cc` 706-829); output anchors
   (`node_utils.cc` 427-476).
3. The mapping of TensorFlow attributes in `register.cpp`, the attribute
   overloads of `Operator` and `GNode`, and the event-node functions of
   `ComputeGraph`.

A project of a dozen runs stays affordable to check from scratch, so new
modules join the MC module of their neighbours.

## 6. Not modelled

Type and name tables, debug dumps, the conversion to ONNX (used for dumps) and
tiling data are tables and conversions without state; loading of plug-ins is
input and output; protobuf messages, stubs and interface headers are generated
or have no code; the transfer of shapes between fractal formats is third-party
code, which `InferTrans` uses as an external function.  In the modelled parts:
the format field of an anchor, wording and logging, memory management other
than `~Node`, the handles of `UserGraph` and the memory of tensors (weak
pointers do not expire in `ComputeGraph`), null arguments, and allocation
failure.  Parts of partly modelled components that are left out are named in
their notes in `PROJECT.json`.
