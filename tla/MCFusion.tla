------------------------------- MODULE MCFusion -------------------------------
(* Scopes are searched and fused, or a pass runs its patterns on a graph, or a *)
(* pattern of a buffer fusion is put together.                                 *)
EXTENDS ScopeFusion, PatternFusion, BufferFusion

W(w) == <<w, -1>>
Nd(name, op, attr) == [name |-> name, op |-> op, attr |-> attr]
Cell(k) == <<"cell", k>>
TwoCells == <<Nd(<<W("a"), Cell(0), W("conv")>>, "Conv", 1), Nd(<<W("a"), Cell(1), W("conv")>>, "Conv", NoAttr),
              Nd(<<W("a"), Cell(1), W("mul")>>, "Mul", NoAttr), Nd(<<W("a"), W("mul")>>, "Mul", 2),
              Nd(<<Cell(2), Cell(1), <<"conv", 1>>>>, "Conv", 1)>>
Nested   == <<Nd(<<W("b"), W("xcell"), W("conv")>>, "Conv", 2), Nd(<<W("b"), W("c"), W("conv")>>, "Conv", 1),
              Nd(<<W("b"), W("c"), W("ret")>>, "_Retval", NoAttr), Nd(<<W("b")>>, "Mul", NoAttr),
              Nd(<<W("b"), Cell(1), W("c"), W("conv")>>, "Conv", 1)>>
MCGraphDefs == {TwoCells, Nested}

P(type, ops, attrs, scopes) == [subType |-> type, ops |-> ops, attrs |-> attrs, scopes |-> scopes]
Num(type, num, step) == [type |-> type, num |-> num, step |-> step]
Sub(type, num, suffix, mask) == [subType |-> type, num |-> num, step |-> 0, suffix |-> suffix, mask |-> mask]
OneConv == P("conv", {Num("Conv", 1, 0)}, {}, {})
EvenMul == P("even", {Num("Mul", 1, 2)}, {}, {})
AttrTwo == P("attr", {}, {[type |-> "Conv", value |-> 1]}, {})
HasTwo  == P("pair", {}, {}, {Sub("conv", 2, "", "")})
HasOne  == P("single", {}, {}, {Sub("conv", 1, "", "cell")})
IsCell  == P("cell", {}, {}, {Sub("", 0, "cell", "")})
MCPassDefs == {<< << <<OneConv>>, <<HasTwo>> >> >>,
               << << <<OneConv, EvenMul>>, <<HasOne, IsCell>> >>, << <<AttrTwo>> >> >>,
               << << <<IsCell>>, <<HasTwo>> >>, << <<OneConv>> >> >>}
CellKey == <<Cell(1), W("conv")>>
ConvKey == <<W("conv")>>
MulKey  == <<W("mul")>>
MCScripts == {<< <<"name", "fuse">>, <<"type", "Fused">>, <<"inputs", ConvKey, <<Disabled>>>>,
                 <<"inputs", CellKey, <<Disabled, 0>>>>, <<"outputs", MulKey, <<0>>>>,
                 <<"inner", "m", "Mul">>, <<"from", "">>, <<"to", "">>, <<"build">>, <<"check">> >>,
              << <<"inner", "m", "Mul">>, <<"name", "other">>, <<"type", "Fused">>, <<"inner", "m", "Mul">>, <<"to", "m">>, <<"check">> >>,
              << <<"name", "bad">>, <<"inner", "n", "NoIR">>, <<"build">> >>}
MCKeyOrder == <<CellKey, ConvKey, MulKey>>
MCEndings == {<<w, w>> : w \in {"a", "b", "c", "cell", "conv", "mul", "xcell"}} \cup {<<"cell", "xcell">>}

Node(type, ins, label) == [type |-> type, ins |-> ins, label |-> label]
Chain == <<Node("data", << >>, Absent), Node("conv", <<1>>, "s1"), Node("relu", <<2>>, "s1"), Node("relu", <<3>>, "s1"), Node("out", <<4>>, Absent)>>
Twins == <<Node("keep", << >>, Absent), Node("conv", <<1, 0>>, "s1"), Node("conv", <<1, 1>>, Absent), Node("add", <<2, 3>>, "s1"),
           Node("add", <<0, 2>>, ""), Node("relu", <<4>>, "s1")>>
MCGraphs == {Chain, Twins}
Op(id, ts) == <<"op", id, ts>>
In(id, ids) == <<"inputs", id, ids>>
Out(id) == <<"output", id>>
OneRelu == <<Op("r", {"relu"}), Out("r")>>
ConvRelu == <<Op("c", {"conv"}), Op("r", {"relu", "add"}), In("r", <<"c">>), Out("r")>>
TwoConvs == <<Op("a", {"add", "fused"}), Op("c", {"conv"}), Op("d", {}), In("a", <<"c", "d">>), Op("x", {"keep"}), In("c", <<"x">>), In("d", <<"x">>), Out("a")>>
Broken   == <<Op("a", {"add"}), Op("", {}), In("a", <<"a", "z">>), Out("a"), Out("a")>>
TwoOuts  == <<Op("a", {"add"}), Op("c", {"conv"}), In("a", <<"c">>), Out("c"), Out("a"), In("zz", <<"a">>)>>
MCPatternDefs == {<<ConvRelu, OneRelu>>, <<TwoConvs, OneRelu>>, <<OneRelu, Broken>>, <<TwoOuts, <<Op("x", {"add"})>>>>}

MCDescTypes == {<<"conv">>}
MCNameLists == {<<"b">>, <<"a", "c">>, <<"b", "z">>, <<"c">>}
MCRepeats == {<<0, 1>>, <<1, 1>>, <<0, 2>>, <<2, 1>>}

VARIABLE part
allVars == <<part, scopeVars, patternVars, bufferVars>>
ScopeIdle == /\ def = << >> /\ passes = << >> /\ next = 0 /\ nodesMap = {} /\ tree = {} /\ opNums = << >> /\ held = << >> /\ types = << >>
             /\ at = << >> /\ tops = {} /\ pending = {} /\ one = {} /\ tmp = {} /\ last = {} /\ todo = {} /\ results = {} /\ fusion = << >> /\ phase = "off"
             /\ before = << >> /\ start = << >>
PatternIdle == /\ kind = "off" /\ defs = << >> /\ nodes = << >> /\ order = << >> /\ index = Absent /\ patterns = << >>
               /\ stage = "off" /\ current = 0 /\ waiting = {} /\ anchorsMap = << >> /\ runs = 0 /\ changed = FALSE
               /\ status = "none" /\ touched = {}
MCInit == \/ part = "scope"   /\ ScopeFusionInit /\ PatternIdle /\ BufferInit
          \/ part = "pattern" /\ ScopeIdle /\ PatternInit /\ BufferInit
          \/ part = "buffer"  /\ ScopeIdle /\ PatternIdle /\ BufferInit
(* Names are interchangeable: new ones come in one order.                      *)
InOrder == ("c" \in DOMAIN opMap' => "b" \in DOMAIN opMap') /\ ("b" \in DOMAIN opMap' => "a" \in DOMAIN opMap')
MCNext == /\ UNCHANGED part
          /\ \/ part = "scope"   /\ ScopeFusionNext /\ UNCHANGED <<patternVars, bufferVars>>
             \/ part = "pattern" /\ PatternNext /\ UNCHANGED <<scopeVars, bufferVars>>
             \/ part = "buffer"  /\ BufferNext /\ InOrder /\ UNCHANGED <<scopeVars, patternVars>>
MCSpec == MCInit /\ [][MCNext]_allVars
=============================================================================
