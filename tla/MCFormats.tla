------------------------------ MODULE MCFormats ------------------------------
(* The formats on small graphs: x feeds a function node f over a, and past it; *)
(* f's body has two or three Data.  One scene is the inference of an operator, *)
(* three are the values of a graph: tensors and their memory, attributes,      *)
(* descriptions.                                                               *)
EXTENDS FormatRefiner, InferTrans, Tensors, Attributes, Descriptions, TLC

CONSTANTS raw, num  \* attribute names: raw only ever holds bytes

VARIABLE scene

FlatIns  == [x |-> 1, a |-> 1, f |-> 2, r |-> 1, o |-> 2, dc |-> 1, d0 |-> 1, d1 |-> 1, d2 |-> 1, e |-> 1, n |-> 2]
FlatOuts == [x |-> 1, a |-> 1, f |-> 2, r |-> 1, o |-> 0, dc |-> 1, d0 |-> 1, d1 |-> 1, d2 |-> 1, e |-> 1, n |-> 0]
Order == <<"x", "a", "f", "r", "o", "dc", "d0", "d1", "d2", "e", "n">>
Around == << <<Out("x", 0), In("a", 0)>>, <<Out("x", 0), In("f", 1)>>, <<Out("a", 0), In("f", 0)>>,
             <<Out("f", 0), In("r", 0)>>, <<Out("f", 1), In("o", 1)>>, <<Out("r", 0), In("o", 0)>> >>
Bodies == { << <<Out("d0", 0), In("n", 1)>>, <<Out("d1", 0), In("e", 0)>>, <<Out("e", 0), In("n", 0)>> >>,
            << <<Out("d0", 0), In("n", 0)>>, <<Out("d1", 0), In("n", 1)>> >>,
            << <<Out("d0", 0), In("n", 1)>>, <<Out("d1", 0), In("n", 0)>> >>,
            << <<Out("d0", 0), In("e", 0)>>, <<Out("d1", 0), In("n", 1)>>, <<Out("e", 0), In("n", 0)>> >> }
(* What is particular about a graph.                                           *)
Odd == {"none", "bias", "constant", "novalue", "squeeze", "scalar", "keep", "fail", "noindex"}
Shape(loop, body, odd, fm) ==
    [order |-> Order,
     type  |-> [n \in ToSet(Order) |->
        CASE n = "f" -> IF loop THEN "While" ELSE "If"
          [] n \in {"o", "n"} -> "NetOutput"
          [] n = "x" /\ odd \in {"constant", "novalue"} -> "Constant"
          [] n \in {"x", "dc", "d0", "d1", "d2"} -> "Data"
          [] n = "a" /\ odd = "bias" -> "BiasAdd"
          [] n = "e" /\ odd = "squeeze" -> "Squeeze"
          [] OTHER -> "Op"],
     at    |-> [n \in ToSet(Order) |-> CASE n = "dc" -> "c" [] n \in {"d0", "d1", "d2", "e", "n"} -> "b" [] OTHER -> "root"],
     subs  |-> [n \in ToSet(Order) |-> CASE n = "f" /\ loop -> <<"c", "b">> [] n = "f" -> <<"b">> [] OTHER -> << >>],
     ins   |-> FlatIns, outs |-> FlatOuts,
     parent |-> (In("dc", 0) :> 0) @@ (In("d0", 0) :> 0) @@ (In("d1", 0) :> 1) @@ (In("n", 0) :> 0) @@ (In("n", 1) :> 1)
                @@ (IF odd = "noindex" THEN << >> ELSE In("d2", 0) :> 1),
     links |-> Around \o body,
     dim   |-> [c \in UNION {{In(n, i) : i \in 0..FlatIns[n]-1} \cup {Out(n, i) : i \in 0..FlatOuts[n]-1} : n \in ToSet(Order)} |->
        CASE odd = "bias" /\ c[1] \in {"a", "x"} -> 5
          [] odd = "squeeze" /\ c = In("e", 0) -> 2
          [] odd = "scalar" /\ c[1] = "r" -> 0
          [] OTHER -> 4],
     func  |-> [n \in ToSet(Order) |-> IF n = "a" /\ odd \in {"keep", "fail"} THEN odd ELSE "default"],
     value |-> [n \in ToSet(Order) |-> IF odd = "constant" THEN [format |-> "NHWC", origin |-> "NHWC"] ELSE NoAttr],
     dataFormat |-> fm]
Presets == {In("a", 0), Out("r", 0), Out("e", 0), Out("d1", 0), In("o", 1)}
Preset(s, set, fm) == [c \in DOMAIN s.dim |-> [format |-> IF c \in set THEN fm ELSE "ND", origin |-> "ND"]]

Port(dir, fm, og) == [dir |-> dir, format |-> fm, origin |-> og, shape |-> <<fm, 1>>, oshape |-> <<og, 1>>]
NoPorts == << >>
MCSymmetry    == Permutations(Holders)
MCByteStrings == {<<1>>, <<2>>, <<2, 1>>}
MCAttrValues  == {2, -3}
MCAttrLists   == {<<2>>, << >>, <<2, BadItem>>}
MCDimValues   == {-8, -3, -2, -1, 0, 3, 7}

Still == FInit(Shape(FALSE, << >>, "none", "ND"), Preset(Shape(FALSE, << >>, "none", "ND"), {}, "ND"))
NoValues == TensorsInit /\ AttributesInit /\ DescriptionsInit
MCInit ==
    \/ /\ scene = "refine" /\ NoValues
       /\ \E loop \in BOOLEAN, body \in Bodies, odd \in Odd, fm \in {"ND", "NCHW", "NC1HWC0"},
             set \in {p \in SUBSET Presets : Cardinality(p) <= 2} :
             LET s == Shape(loop, body, odd, fm) IN FInit(s, Preset(s, set, "NHWC"))
       /\ IInit(NoPorts)
    \/ /\ scene = "infer" /\ Still /\ NoValues
       /\ \E f1, f2, f3 \in Formats, o1, o2, o3 \in Formats :
             IInit(<<Port("in", f1, o1), Port("out", f2, o2), Port("out", f3, o3)>>)
    \/ scene \in {"tensors", "attributes", "descriptions"} /\ Still /\ IInit(NoPorts) /\ NoValues
valueVars == <<tensorVars, attrVars, descVars>>
MCNext ==
    /\ UNCHANGED scene
    /\ \/ /\ UNCHANGED valueVars
          /\ \/ scene = "refine" /\ FNext /\ UNCHANGED ivars
             \/ scene = "infer" /\ INext /\ UNCHANGED fvars
       \/ /\ UNCHANGED <<fvars, ivars>>
          /\ \/ scene = "tensors" /\ TensorsNext /\ UNCHANGED <<attrVars, descVars>>
             \/ /\ scene = "attributes" /\ AttributesNext /\ UNCHANGED <<tensorVars, descVars>>
                /\ got'.name = raw => attrs'[raw] = Missing \/ attrs'[raw].case = "bytes"
             \/ scene = "descriptions" /\ DescriptionsNext /\ UNCHANGED <<tensorVars, attrVars>>
MCSpec == MCInit /\ [][MCNext]_<<fvars, ivars, valueVars, scene>>
=============================================================================
