------------------------------ MODULE MCOperators ------------------------------
(* A constant, a variable, a join with a dynamic input before a fixed one, a  *)
(* split with a dynamic output and a condition, and an operator that a parser *)
(* maps, with dynamic inputs between fixed ones.  And a graph with constants, *)
(* a variable, an Enter, a MatMul behind a Switch, and two levels of          *)
(* subgraphs: a loop or a branch, with another one in it.                     *)
EXTENDS Operators, Weights

CONSTANTS cst, var, join, split, plug
CONSTANTS f1, f2, c1, c2, vn, sw, op, mm, prs, pw, d, inner, en, pc, d2, inner2, pld, root, g1, g2, t1, t2

Reg(r, n) == [reg |-> r, name |-> n]
MCIr == [o \in {cst, var, join, split, plug} |->
    CASE o = cst -> <<Reg("output", "y")>>
      [] o = var -> <<Reg("input", "x"), Reg("output", "y")>>
      [] o = join -> <<Reg("dynamicInput", "x"), Reg("optional", "axis"), Reg("output", "y")>>
      [] o = split -> <<Reg("input", "x"), Reg("dynamicOutput", "y"), Reg("graph", "then"), Reg("dynamicGraph", "b")>>
      [] o = plug -> <<Reg("input", "a"), Reg("dynamicInput", "d"), Reg("input", "b"),
                    Reg("dynamicInput", "e"), Reg("dynamicOutput", "z")>>]
MCTypeOf == [o \in {cst, var, join, split, plug} |->
    CASE o = cst -> "Const" [] o = var -> "Variable" [] o = join -> "Join" [] o = split -> "Split" [] o = plug -> "Parsed"]
MCNameOf == [o \in {cst, var, join, split, plug} |-> IF o = var THEN "Const" ELSE MCTypeOf[o]]

MCFresh == <<f1, f2>>
Blank == [kind |-> "", home |-> NoGraph, peer |-> << >>, port |-> NoPorts, out |-> DefaultDesc,
          weight |-> NoTensor, mark |-> << >>, status |-> << >>, flag |-> FALSE]
Is(k, h, p) == [Blank EXCEPT !.kind = k, !.home = h, !.peer = p,
     !.port = FoldLeft(LAMBDA q, i : AddInputDesc(q, Numbered("x", i), DefaultDesc), NoPorts, [i \in DOMAIN p |-> i])]
Cst(k, h, t) == [Is(k, h, << >>) EXCEPT !.weight = t, !.out = TensorDesc(t)]
Scene(k, k2, w, w2, ent, fl) ==
    (c1 :> Cst(k, root, IF IsConst(k) THEN t1 ELSE NoTensor)) @@ (c2 :> Cst(k2, root, t2)) @@ (vn :> Is("Variable", root, << >>))
 @@ (sw :> Is("Switch", root, <<c2>>)) @@ (op :> Is("Op", root, <<c1, NoNode, vn>>))
 @@ (mm :> Is("MatMul", root, <<sw, c1, c1>>)) @@ (prs :> Is("Parsed", root, << >>))
 @@ (pw :> Is(w, root, IF ent = "out" THEN <<en>> ELSE <<c1>>)) @@ (d :> [Is("Data", g1, << >>) EXCEPT !.flag = fl])
 @@ (inner :> Is("Op", g1, <<d, NoNode>>))
 @@ (pc :> Is(w2, g1, <<d>>)) @@ (d2 :> Is("Data", g2, << >>)) @@ (inner2 :> Is("Op", g2, <<IF ent = "in" THEN en ELSE d2>>))
 @@ (en :> [Is("Enter", root, <<IF ent = "in" THEN d2 ELSE c1>>) EXCEPT !.flag = fl])
 @@ (pld :> Is("PlaceHolder", root, << >>))
 @@ (f1 :> Blank) @@ (f2 :> Blank)
MCParentNode == (g1 :> pw) @@ (g2 :> pc)
MCParentIndex == (d :> 0) @@ (d2 :> 0)
MCOuts == [n \in DOMAIN Scene("Const", "Const", "If", "If", "in", TRUE) |-> IF n = sw THEN 2 ELSE 1]
MCParentOf == (pld :> c1)

(* The edits start from one graph; the searches for constants are made in     *)
(* every form of it.                                                          *)
WeightsInit ==
    /\ made = 0 /\ call = NoCall
    /\ \/ edits = 0 /\ net = Scene("Const", "Const", "While", "If", "", TRUE)
       \/ /\ edits = MaxEdits
          /\ \E k \in {"Const", "Constant", "Variable"}, k2 \in {"Const", "Constant"},
                w, w2 \in {"While", "If"}, ent \in {"in", "out", ""}, fl \in BOOLEAN :
                net = Scene(k, k2, w, w2, ent, fl)
NoWeights == made = 0 /\ call = NoCall /\ edits = 0 /\ net = << >>

WeightsNext ==
    \E n \in Editable :
      \/ \E x \in Maps : DoSetWeightsMap(n, x)
      \/ \E ts \in Lists : DoSetWeightsList(n, ts)
      \/ DoClearWeights(n)
      \/ \E i \in 1..3, t \in Tensor : DoAddConst(n, i, t)
      \/ \E p \in {c1, vn, sw} :
           \/ DoAddLink(n, p) \/ DoAddLinkForParse(n, p)
           \/ \E i \in {0, 1, 4} : DoAddLinkAt(n, i, p)
           \/ \E i \in {2, 7} : DoAddLinkName(n, Numbered("x", i), p)
      \/ \E k \in 1..4 : DoAppendInput(n, k) \/ DoRemoveInput(n, k)
      \/ DoUpdateIsInputConst(n)
      \/ \E b \in BOOLEAN : SetAllAnchorStatus(n, [i \in DOMAIN net[n].peer |-> b /\ i > 1])

(* The ports alone, with every operator; or the subgraphs alone; or           *)
(* connections of operators whose dynamic ports were created first; or the    *)
(* inputs of nodes.                                                           *)
VARIABLE scene
Ready(o) == CASE o = join  -> DynamicInputRegisterByIndex(Construct(MCIr[o]), "x", 1, 0)
              [] o = split -> DynamicOutputRegister(Construct(MCIr[o]), "y", 2, TRUE)
              [] OTHER     -> Construct(MCIr[o])
MCInit == \/ scene \in {"ports", "graphs"} /\ OperatorsInit /\ NoWeights
          \/ scene = "weights" /\ OperatorsInit /\ WeightsInit
          \/ /\ scene = "wiring" /\ NoWeights
             /\ opdesc = [o \in Operator |-> Ready(o)] /\ creates = 2 /\ links = 0
             /\ subs = [o \in Operator |-> ConstructSlots(MCIr[o])]
             /\ inputLink = [o \in Operator |-> << >>] /\ outputLinks = [o \in Operator |-> << >>]
             /\ controlIn = [o \in Operator |-> << >>] /\ controlOut = [o \in Operator |-> << >>]
             /\ graph = NotBuilt
MCNext ==
    /\ UNCHANGED scene
    /\ \/ scene = "weights" /\ WeightsNext /\ UNCHANGED vars
       \/ /\ UNCHANGED weightVars
          /\ \/ scene = "ports" /\ CreateNext /\ UNCHANGED subs
             \/ scene = "wiring" /\ LinkNext
             \/ scene = "graphs" /\ creates < MaxCreates /\ CreateNext /\ UNCHANGED opdesc
             \/ scene = "graphs" /\ links < 2 /\ \E s1 \in {cst, var} : AddControlInput(split, s1)
             \/ scene \in {"wiring", "graphs"} /\ BuildNext
MCSpec == MCInit /\ [][MCNext]_<<vars, weightVars, scene>>
=============================================================================
