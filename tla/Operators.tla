------------------------------- MODULE Operators -------------------------------
(* Operators and the graph built from them: graph/operator.cc.  A program     *)
(* creates operators, gives them dynamic ports, connects them and hands the   *)
(* ones without inputs to GraphUtils::CreateGraphFromOperator, which follows  *)
(* the links from there.                                                      *)
(*                                                                            *)
(* A connection is recorded twice: input_link_ of the consumer says where an  *)
(* input comes from (the first answer given stays), output_links_ of the      *)
(* producer lists every input that asked for an output, with the position the *)
(* input had at that moment.  The graph is built from the second.             *)
(*                                                                            *)
(* What this model expects of the program: ports are created before           *)
(* operators are connected (a position recorded in output_links_ is not moved *)
(* when a port is created in front of it), and inputs that are connected get  *)
(* their descriptions from their producers only.                              *)
EXTENDS OpDesc, FiniteSets

CONSTANTS Operator,    \* the operators of the program
          Ir,          \* operator -> its registration: a sequence of [reg, name]
          TypeOf,      \* operator -> its type
          Parsed,      \* the operators a parser plugin maps from another framework
          NameOf,      \* operator -> its name
          Wired,       \* the operators that the program connects
          DataFormats, DataTypes,
          Instances,   \* names of the graphs that subgraph builders build
          MaxCreates, MaxLinks

ASSUME OperatorAssumption ==
    Parsed \subseteq Operator /\ Wired \subseteq Operator /\ \A o \in Operator : Ir[o] \in Seq(ToSet(Ir[o]))

VARIABLES opdesc,       \* operator -> its OpDesc
          subs,         \* operator -> subgraph slots: [index, inst, builder]
          inputLink,    \* operator -> input_link_: name -> <<producer, output name>>
          outputLinks,  \* operator -> output_links_: name -> sequence of OpIO
          controlIn, controlOut,  \* operator -> control_input_link_, control_output_link_
          graph,        \* what the last build returned
          creates, links

linkVars == <<inputLink, outputLinks, controlIn, controlOut>>
vars == <<opdesc, subs, inputLink, outputLinks, controlIn, controlOut, graph, creates, links>>

In(o)  == opdesc[o].in
Out(o) == opdesc[o].out
NotBuilt  == [built |-> FALSE, ok |-> FALSE, nodes |-> {}, edges |-> {}, control |-> {}, subs |-> {}]
BuildFailed == [NotBuilt EXCEPT !.built = TRUE]

-----------------------------------------------------------------------------
(* Creation: the registrations of the operator's class, in their order.       *)

(* Mutant: every name has the first slot.                                     *)
SubgraphRegisterFirst(s, name) ==
    IF name \in DOMAIN s.index THEN [s EXCEPT !.builder[name] = "none"]
    ELSE [index   |-> (name :> 0) @@ s.index,
          inst    |-> Append(s.inst, "none"),
          builder |-> (name :> "none") @@ s.builder]
(* SubgraphCountRegister of a static name: a slot of its own for a new name.  *)
SubgraphRegister(s, name) ==
    IF name \in DOMAIN s.index THEN [s EXCEPT !.builder[name] = "none"]
    ELSE [index   |-> (name :> Cardinality(DOMAIN s.index)) @@ s.index,
          inst    |-> Append(s.inst, "none"),
          builder |-> (name :> "none") @@ s.builder]
(* A dynamic name has one slot for each number.                               *)
SubgraphCountRegister(s, base, count) ==
    FoldLeft(LAMBDA t, i : SubgraphRegister(t, Numbered(base, i)), s, [k \in 1..count |-> k - 1])
NoSlots == [index |-> << >>, inst |-> << >>, builder |-> << >>]

InputRegister(d, name)         == [d EXCEPT !.in = AddInputDesc(@, Plain(name), DefaultDesc)]
OptionalInputRegister(d, name) == AddOptionalInputDesc(d, Plain(name), OptionalDesc)
OutputRegister(d, name)        == [d EXCEPT !.out = AddOutputDesc(@, Plain(name), DefaultDesc)]
DynamicInputRegister(d, name, num, back) ==
    [d EXCEPT !.in = AddDynamicInputDesc(@, name, num, back)]
DynamicInputRegisterByIndex(d, name, num, i) ==
    [d EXCEPT !.in = AddInputDescMiddle(@, name, num, i)]
DynamicOutputRegister(d, name, num, back) ==
    [d EXCEPT !.out = AddDynamicOutputDesc(@, name, num, back)]

RegisterOne(d, r) ==
    CASE r.reg = "input"         -> InputRegister(d, r.name)
      [] r.reg = "optional"      -> OptionalInputRegister(d, r.name)
      [] r.reg = "dynamicInput"  -> DynamicInputRegister(d, r.name, 0, TRUE)
      [] r.reg = "output"        -> OutputRegister(d, r.name)
      [] r.reg = "dynamicOutput" -> DynamicOutputRegister(d, r.name, 0, TRUE)
      [] OTHER                   -> d
Construct(ir) ==
    LET made[k \in 0..Len(ir)] == IF k = 0 THEN NewOpDesc ELSE RegisterOne(made[k-1], ir[k])
    IN  made[Len(ir)]

ConstructSlots(ir) == FoldLeft(LAMBDA s, r :
    CASE r.reg = "graph"        -> SubgraphRegister(s, Plain(r.name))
      [] r.reg = "dynamicGraph" -> SubgraphCountRegister(s, r.name, 2)
      [] OTHER                  -> s, NoSlots, ir)

Registered(o, reg) == {Ir[o][i].name : i \in {j \in DOMAIN Ir[o] : Ir[o][j].reg = reg}}

OperatorsInit ==
    /\ opdesc = [o \in Operator |-> Construct(Ir[o])]
    /\ subs = [o \in Operator |-> ConstructSlots(Ir[o])]
    /\ inputLink = [o \in Operator |-> << >>]
    /\ outputLinks = [o \in Operator |-> << >>]
    /\ controlIn = [o \in Operator |-> << >>]
    /\ controlOut = [o \in Operator |-> << >>]
    /\ graph = NotBuilt
    /\ creates = 0 /\ links = 0

-----------------------------------------------------------------------------
(* Ports and slots.                                                           *)

Creating == links = 0 /\ creates < MaxCreates /\ ~graph.built
Created  == creates' = creates + 1 /\ UNCHANGED <<linkVars, graph, links>>

CreateDynamicInput(o, name, num, back) ==
    /\ Creating /\ o \notin Parsed /\ name \in Registered(o, "dynamicInput")
    /\ opdesc' = [opdesc EXCEPT ![o] = DynamicInputRegister(@, name, num, back)]
    /\ Created /\ UNCHANGED subs

CreateDynamicInputByIndex(o, name, num, i) ==
    /\ Creating /\ o \notin Parsed /\ name \in Registered(o, "dynamicInput")
    /\ opdesc' = [opdesc EXCEPT ![o] = DynamicInputRegisterByIndex(@, name, num, i)]
    /\ Created /\ UNCHANGED subs

CreateDynamicOutput(o, name, num, back) ==
    /\ Creating /\ o \notin Parsed /\ name \in Registered(o, "dynamicOutput")
    /\ opdesc' = [opdesc EXCEPT ![o] = DynamicOutputRegister(@, name, num, back)]
    /\ Created /\ UNCHANGED subs

(* AddInputDesc and AddOutputDesc called on the description itself.           *)
AddNameless(o) ==
    /\ Creating /\ o \notin Parsed
    /\ opdesc' = [opdesc EXCEPT ![o].in = AddInputDescAt(@, Size(@), DefaultDesc),
                                ![o].out = AddNamelessOutput(@, DefaultDesc)]
    /\ Created /\ UNCHANGED subs

(* Names from the operator a factory makes for the type; here all of one base.*)
TakeOverNames(o, k) ==
    /\ Creating
    /\ LET m == [n \in {Numbered("f", i) : i \in 0..k-1} |-> n[2]]
       IN  opdesc' = [opdesc EXCEPT ![o].in = UpdateInputName(@, m), ![o].out = UpdateOutputName(@, m)]
    /\ Created /\ UNCHANGED subs

(* A plugin maps an operator of another framework: formats, then one number   *)
(* of tensors for each dynamic name.                                          *)
AutoMapping(o, num, src, dst) ==
    /\ Creating /\ creates = 0 /\ o \in Parsed
    /\ opdesc' = [opdesc EXCEPT ![o] =
         AutoMappingByOpFnDynamic(SetOpdescInputOutputFormat(@, src, dst),
           Restrict(num, {Plain(n) : n \in Registered(o, "dynamicInput")}),
           Restrict(num, {Plain(n) : n \in Registered(o, "dynamicOutput")}))]
    /\ Created /\ UNCHANGED subs

SetSubgraphBuilder(o, name, g) ==
    /\ Creating /\ name \in DOMAIN subs[o].builder
    /\ subs' = [subs EXCEPT ![o].builder[name] = g]
    /\ Created /\ UNCHANGED opdesc

-----------------------------------------------------------------------------
(* Connections.                                                               *)

Linking == links < MaxLinks /\ ~graph.built
Linked  == links' = links + 1 /\ UNCHANGED <<graph, creates, subs>>

(* is_input_const grows to the position that is set.                          *)
SetConst(flags, i, c) ==
    [k \in 1..(IF Len(flags) > i THEN Len(flags) ELSE i + 1) |->
        IF k = i + 1 THEN c ELSE IF k <= Len(flags) THEN flags[k] ELSE FALSE]

(* The description of the producer's output, with the format of the input.    *)
LinkedDesc(out, in) == [out EXCEPT !.format = IF in.format = "reserved" THEN "ND" ELSE in.format]

Insert(m, key, v) == IF key \in DOMAIN m THEN m ELSE Entered(m, key, v)

(* UpdateLinkMapImpl                                                          *)
UpdateLinkMap(m, key, v) == Entered(m, key, IF key \in DOMAIN m THEN Append(m[key], v) ELSE <<v>>)

(* Both forms of SetInputImpl, once the producer's output has a name.  An     *)
(* input that does not exist is entered in input_link_ and nowhere else.      *)
Connect(o, name, s, sname) ==
    /\ inputLink' = [inputLink EXCEPT ![o] = Insert(@, name, <<s, sname>>)]
    /\ LET i == GetInputIndexByName(In(o), name)
       IN  IF i < 0 THEN UNCHANGED <<opdesc, outputLinks>>
           ELSE /\ opdesc' = [opdesc EXCEPT
                     ![o].isConst = SetConst(@, i, TypeOf[s] = "Const"),
                     ![o].in = UpdateInputDesc(@, name,
                         LinkedDesc(GetOutputDesc(Out(s), sname), GetInputDesc(In(o), name)))]
                /\ outputLinks' = [outputLinks EXCEPT ![s] =
                     UpdateLinkMap(@, sname, [name |-> name, index |-> i, owner |-> o])]

SetInput(o, name, s) ==
    /\ Linking
    /\ IF Size(Out(s)) = 1
       THEN Connect(o, name, s, GetOutputNameByIndex(Out(s), 0))
       ELSE UNCHANGED <<opdesc, inputLink, outputLinks>>
    /\ Linked /\ UNCHANGED <<controlIn, controlOut>>

GetOutput(s, i) == GetOutputNameByIndex(Out(s), i)
(* The output is chosen by its position, or by its name (GetOutput).          *)
SetInputByIndex(o, name, s, i) ==
    /\ Linking /\ GetOutput(s, i) # << >>
    /\ Connect(o, name, s, GetOutput(s, i))
    /\ Linked /\ UNCHANGED <<controlIn, controlOut>>

AddControlInput(o, s) ==
    /\ Linking /\ ~Contains(controlIn[o], s)
    /\ controlIn'  = [controlIn EXCEPT ![o] = Append(@, s)]
    /\ controlOut' = [controlOut EXCEPT ![s] = Append(@, o)]
    /\ Linked /\ UNCHANGED <<opdesc, inputLink, outputLinks>>

(* The inputs that asked for an output, each as often as it asked.            *)
Asked(o, name) == IF name \in DOMAIN outputLinks[o] THEN outputLinks[o][name] ELSE << >>
(* Mutant: only the first input that asked.                                   *)
UpdateFirstFollower(descs, to, d) ==
    IF to = << >> THEN descs
    ELSE [descs EXCEPT ![to[1].owner].in = UpdateInputDesc(@, to[1].name, d)]
UpdateFollowers(descs, to, d) ==
    LET Follows(o, i) == \E l \in ToSet(to) : l.owner = o /\ GetInputIndexByName(descs[o].in, l.name) = i
    IN  [o \in DOMAIN descs |-> [descs[o] EXCEPT
            !.in.desc = [i \in DOMAIN @ |-> IF Follows(o, i - 1) THEN d ELSE @[i]]]]

UpdateOperatorOutputDesc(o, name, d) ==
    /\ Linking /\ HasName(Out(o), name)
    /\ opdesc' = UpdateFollowers([opdesc EXCEPT ![o].out = UpdateOutputDesc(@, name, d)], Asked(o, name), d)
    /\ Linked /\ UNCHANGED linkVars

UpdateOperatorInputDesc(o, name, d) ==
    /\ Linking /\ HasName(In(o), name) /\ name \notin DOMAIN inputLink[o]
    /\ opdesc' = [opdesc EXCEPT ![o].in = UpdateInputDesc(@, name, d)]
    /\ Linked /\ UNCHANGED linkVars

-----------------------------------------------------------------------------
(* GraphBuilderImpl.                                                          *)

(* One for each OpIO in output_links_: producer, output name, place in the list. *)
Asks == UNION {UNION {{<<o, n, k>> : k \in DOMAIN outputLinks[o][n]} :
               n \in DOMAIN outputLinks[o]} : o \in Operator}
OpIO(a) == outputLinks[a[1]][a[2]][a[3]]

Consumers(o) == {OpIO(a).owner : a \in {b \in Asks : b[1] = o}}
Producers(o) == {inputLink[o][n][1] : n \in DOMAIN inputLink[o]}
(* Mutant: backwards only, from the inputs on.                                *)
NeighboursForward(o) == Consumers(o) \cup ToSet(controlOut[o])
Neighbours(o) == Consumers(o) \cup Producers(o) \cup ToSet(controlIn[o]) \cup ToSet(controlOut[o])

(* WalkAllOperators: everything connected to the inputs, in either direction. *)
WalkAllOperators(inputs) ==
    FoldLeft(LAMBDA seen, step : seen \cup UNION {Neighbours(o) : o \in seen},
             inputs, [step \in 1..Cardinality(Operator) |-> step])

(* The operators that BuildGraph accepts as inputs: the class of their type   *)
(* has outputs and no inputs, or it is one of the types named there.          *)
CanBeInput(o) == LET class == Construct(Ir[o])
                 IN  \/ GetInputsSize(class.in) = 0 /\ Size(class.out) > 0
                     \/ TypeOf[o] \in {"Data", "Variable"}

(* AddEdge: from the output with the name to the input at the position that   *)
(* was recorded; it fails at an input that has an edge already.               *)
AddEdge(nodes) ==
    {<<a[1], GetOutputIndexByName(Out(a[1]), a[2]), OpIO(a).owner, OpIO(a).index>> :
        a \in {b \in Asks : b[1] \in nodes}}
EdgesFit(nodes) == \A a, b \in {c \in Asks : c[1] \in nodes} :
    OpIO(a).owner = OpIO(b).owner /\ OpIO(a).index = OpIO(b).index => a = b

(* WalkAllSubgraphs: the graph of every builder enters the table of the graph *)
(* under its name, which must be new, and the slot of the name remembers it.  *)
Builders(nodes) ==
    UNION {{<<o, n>> : n \in {m \in DOMAIN subs[o].builder : subs[o].builder[m] # "none"}} : o \in nodes}
BuilderOf(b) == subs[b[1]].builder[b[2]]
SubgraphsFit(nodes) == \A a, b \in Builders(nodes) : BuilderOf(a) = BuilderOf(b) => a = b
WalkAllSubgraphs(o) ==
    LET At(i) == {n \in DOMAIN subs[o].builder : subs[o].builder[n] # "none" /\ subs[o].index[n] = i - 1}
    IN  [subs[o] EXCEPT !.inst = [i \in DOMAIN @ |->
            IF At(i) = {} THEN @[i] ELSE subs[o].builder[CHOOSE n \in At(i) : TRUE]]]

(* CreateGraphFromOperator: no graph without an input, without a place for    *)
(* every edge and subgraph, or with two nodes of one name.  What a build that *)
(* fails leaves in the slots is not modelled.                                 *)
Build(inputs) ==
    /\ ~graph.built
    /\ LET nodes == WalkAllOperators({o \in inputs : CanBeInput(o)})
           named == \A a, b \in nodes : NameOf[a] = NameOf[b] => a = b
       IN  IF nodes # {} /\ EdgesFit(nodes) /\ SubgraphsFit(nodes) /\ named
           THEN /\ graph' = [built |-> TRUE, ok |-> TRUE, nodes |-> nodes, edges |-> AddEdge(nodes),
                             control |-> UNION {{<<o, c>> : c \in ToSet(controlOut[o])} : o \in nodes},
                             subs |-> {BuilderOf(b) : b \in Builders(nodes)}]
                /\ subs' = [o \in Operator |-> IF o \in nodes THEN WalkAllSubgraphs(o) ELSE subs[o]]
           ELSE graph' = BuildFailed /\ UNCHANGED subs
    /\ UNCHANGED <<opdesc, linkVars, creates, links>>

(* The graph is destroyed: GraphUtils::BreakConnect clears the links of its   *)
(* operators; what others recorded about them stays.                          *)
BreakConnect ==
    /\ graph.ok
    /\ inputLink'   = [o \in Operator |-> IF o \in graph.nodes THEN << >> ELSE inputLink[o]]
    /\ outputLinks' = [o \in Operator |-> IF o \in graph.nodes THEN << >> ELSE outputLinks[o]]
    /\ graph' = BuildFailed
    /\ UNCHANGED <<opdesc, subs, controlIn, controlOut, creates, links>>

(* GetSubgraphImpl: from the name to the slot, to the instance, to the graph. *)
GetSubgraph(o, name) ==
    IF name \notin DOMAIN subs[o].index THEN "none"
    ELSE LET g == subs[o].inst[subs[o].index[name] + 1]
         IN  IF g \in graph.subs THEN g ELSE "none"

InputNames(o)  == DOMAIN In(o).idx
OutputNames(o) == DOMAIN Out(o).idx
Counts == [{Plain(n) : n \in UNION {Registered(o, "dynamicInput") \cup Registered(o, "dynamicOutput") :
                                    o \in Parsed}} -> 0..2]

CreateNext ==
    \/ \E o \in Operator, num \in 1..2 :
         \/ \E name \in Registered(o, "dynamicInput") :
              \/ \E back \in BOOLEAN : CreateDynamicInput(o, name, num, back)
              \/ \E i \in 0..Size(In(o))+1 : CreateDynamicInputByIndex(o, name, num, i)
         \/ \E name \in Registered(o, "dynamicOutput"), back \in BOOLEAN :
              CreateDynamicOutput(o, name, num, back)
    \/ \E o \in Operator : AddNameless(o)
    \/ \E o \in Parsed, k \in 1..4 : TakeOverNames(o, k)
    \/ \E o \in Parsed, num \in Counts, f, g \in DataFormats : AutoMapping(o, num, f, g)
    \/ \E o \in Operator, g \in Instances : \E n \in DOMAIN subs[o].builder : SetSubgraphBuilder(o, n, g)

LinkNext ==
    \/ \E o, s \in Wired :
         \/ \E name \in InputNames(o) \cup {Plain("unknown")} : SetInput(o, name, s)
         \/ \E name \in InputNames(o), i \in 0..Size(Out(s)) : SetInputByIndex(o, name, s, i)
         \/ AddControlInput(o, s)
    \/ \E o \in Wired, t \in DataTypes, f \in DataFormats :
         \/ \E n \in OutputNames(o) : UpdateOperatorOutputDesc(o, n, [type |-> t, format |-> f])
         \/ \E n \in InputNames(o) : UpdateOperatorInputDesc(o, n, [type |-> t, format |-> f])

BuildNext ==
    \/ \E inputs \in {Wired} \cup {{o} : o \in Wired} : Build(inputs)
    \/ BreakConnect

OperatorsNext == CreateNext \/ LinkNext \/ BuildNext

OperatorsSpec == OperatorsInit /\ [][OperatorsNext]_vars

-----------------------------------------------------------------------------
(* Properties.                                                                *)

(* OpDesc keeps what PortsSpec promises for the inputs and the outputs of     *)
(* every operator (the vectors and name maps of op_desc.cc move together).    *)
PortsOf(p) == [i \in DOMAIN p.desc |-> [name |-> GetInputNameByIndex(p, i - 1), desc |-> p.desc[i]]]
Promise == INSTANCE PortsSpec WITH
    Owners <- Operator \X {"in", "out"}, Mapped <- Parsed \X {"in", "out"},
    ports  <- [w \in Operator \X {"in", "out"} |-> PortsOf(IF w[2] = "in" THEN In(w[1]) ELSE Out(w[1]))]
OpDescPromise == Promise!PortsSpec

(* The ports of a mapped operator are in the order of its registration, the   *)
(* dynamic ones in place of their name (UpdateDynamicInputOutPutIndex).  A    *)
(* dynamic name without tensors keeps a place it does not have, so only the   *)
(* last may be without.                                                       *)
Expanded(reg, p) == FoldLeft(LAMBDA s, n :
    s \o IF HasName(p, n) THEN <<n>>
         ELSE [k \in 1..Cardinality({i \in 0..1 : HasName(p, Numbered(n[1], i))}) |-> Numbered(n[1], k - 1)],
    << >>, reg)
PortsInRegisteredOrder == \A o \in Parsed :
    creates = 1 /\ (\A i \in 1..Len(In(o).reg)-1 :
                      \E n \in InputNames(o) : n[1] = In(o).reg[i][1])
    => [i \in DOMAIN PortsOf(In(o)) |-> PortsOf(In(o))[i].name] = Expanded(In(o).reg, In(o))

(* A graph that was built has exactly the edges and control edges that the    *)
(* inputs of its nodes name, also when links were followed in both directions *)
(* to find the nodes (GraphBuilderImpl).                                      *)
Links(nodes) ==
    UNION {{<<inputLink[o][n][1], GetOutputIndexByName(Out(inputLink[o][n][1]), inputLink[o][n][2]),
              o, GetInputIndexByName(In(o), n)>> : n \in DOMAIN inputLink[o] \cap InputNames(o)} : o \in nodes}
GraphIsWhatWasLinked == graph.ok =>
    /\ graph.edges = Links(graph.nodes)
    /\ graph.control = UNION {{<<s, o>> : s \in ToSet(controlIn[o])} : o \in graph.nodes}

(* An input that was set once has the data type of the output it is connected *)
(* to, also after the output is given another (UpdateOutputDesc), and says    *)
(* whether that is a constant.                                                *)
SetOnce(o, n) == Cardinality({a \in Asks : OpIO(a).owner = o /\ OpIO(a).name = n}) = 1
InputsFollowProducers == \A o \in Operator : \A n \in DOMAIN inputLink[o] \cap InputNames(o) :
    SetOnce(o, n) =>
      /\ GetInputDesc(In(o), n).type = GetOutputDesc(Out(inputLink[o][n][1]), inputLink[o][n][2]).type
      /\ opdesc[o].isConst[GetInputIndexByName(In(o), n) + 1] = (TypeOf[inputLink[o][n][1]] = "Const")

(* In a graph that was built, the subgraph of a name is the one its builder   *)
(* built (SetSubgraphBuilder, WalkAllSubgraphs, GetSubgraphImpl).             *)
SubgraphsByName == graph.ok => \A o \in graph.nodes : \A n \in DOMAIN subs[o].builder :
    GetSubgraph(o, n) = subs[o].builder[n]

(* Valid inputs are numbered without gaps, whatever was added, widened or     *)
(* renamed, and each number leads back to its name (GetValidInputIndexByName, *)
(* GetValidInputNameByIndex).                                                 *)
ValidInputsNumbered == \A o \in Operator : AllValidNamed(In(o)) =>
    \A k \in 0..GetInputsSize(In(o)) - 1 :
        GetValidInputIndexByName(In(o), GetValidInputNameByIndex(In(o), k)) = k

(* From IR to graph: a parsed operator has the ports of its registration,   *)
(* and the graph built from operators has their links, the descriptions of  *)
(* their producers and the subgraphs of their builders.                     *)
BuiltAsLinked ==
    /\ PortsInRegisteredOrder
    /\ GraphIsWhatWasLinked
    /\ InputsFollowProducers
    /\ ValidInputsNumbered
    /\ SubgraphsByName
=============================================================================
