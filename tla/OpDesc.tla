-------------------------------- MODULE OpDesc --------------------------------
(* What the methods of graph/op_desc.cc do to one operator description.  The  *)
(* inputs and the outputs are each a record [desc, idx, reg]: the vector of   *)
(* tensor descriptions, the map from names to positions (from 0, as in the    *)
(* code) and the list of registered names.  A name is <<base>> or, with the   *)
(* number the code appends to a base, <<base, i>>.  A description is a record *)
(* [type, format]; what else a GeTensorDesc holds plays no part here.         *)
EXTENDS Integers, Sequences, SequencesExt, Functions, FiniteSets, FiniteSetsExt

Plain(base)       == <<base>>
Numbered(base, i) == <<base, i>>

DefaultDesc  == [type |-> "float", format |-> "ND"]           \* GeTensorDesc()
OptionalDesc == [type |-> "undefined", format |-> "reserved"]

(* GeTensorDesc::IsValid *)
IsValidDesc(d) == d # OptionalDesc

NoPorts   == [desc |-> << >>, idx |-> << >>, reg |-> << >>]
NewOpDesc == [in |-> NoPorts, out |-> NoPorts, optional |-> {}, isConst |-> << >>]

Size(p)     == Len(p.desc)
HasName(p, name) == name \in DOMAIN p.idx
InRange(p, i)    == i \in 0..Size(p)-1

(* AddRegisterInputName and, for the outputs, AddRegisterOutputName.          *)
AddRegisterInputName(p, name) ==
    IF Contains(p.reg, name) THEN p ELSE [p EXCEPT !.reg = Append(@, name)]
AddRegisterOutputName(p, name) == AddRegisterInputName(p, name)

(* Mutant: ">" instead of ">=".                                               *)
ShiftAfter(idx, i, n) == [m \in DOMAIN idx |-> IF idx[m] > i THEN idx[m] + n ELSE idx[m]]
(* The indices of the names at or after position i move up by n.              *)
ShiftFrom(idx, i, n) == [m \in DOMAIN idx |-> IF idx[m] >= i THEN idx[m] + n ELSE idx[m]]

(* Ports with the default description go in at position i, in this order.     *)
InsertPorts(p, i, names) ==
    [p EXCEPT !.desc = SubSeq(@, 1, i) \o [k \in DOMAIN names |-> DefaultDesc]
                                       \o SubSeq(@, i + 1, Len(@)),
              !.idx  = LET moved == ShiftFrom(@, i, Len(names))
                       IN  [m \in DOMAIN moved \cup ToSet(names) |->
                               IF m \in DOMAIN moved THEN moved[m]
                               ELSE i + (CHOOSE k \in DOMAIN names : names[k] = m) - 1]]

UpdateInputDescByIndex(p, i, d) ==
    IF InRange(p, i) THEN [p EXCEPT !.desc[i + 1] = d] ELSE p
UpdateInputDesc(p, name, d) ==
    IF HasName(p, name) /\ InRange(p, p.idx[name])
    THEN [p EXCEPT !.desc[p.idx[name] + 1] = d] ELSE p
UpdateOutputDesc(p, name, d) == UpdateInputDesc(p, name, d)

Entered(m, key, v) == [k \in DOMAIN m \cup {key} |-> IF k = key THEN v ELSE m[k]]
PushPort(p, name, d) ==
    AddRegisterInputName([p EXCEPT !.desc = Append(@, d), !.idx = Entered(@, name, Size(p))], name)

(* An input whose name exists is updated; an output is refused.               *)
AddInputDesc(p, name, d) ==
    IF HasName(p, name) THEN UpdateInputDesc(p, name, d) ELSE PushPort(p, name, d)
AddOutputDesc(p, name, d) == IF HasName(p, name) THEN p ELSE PushPort(p, name, d)

(* The overloads that make up a name from the number of ports.                *)
AddNamelessInput(p, d)  == AddInputDesc(p, Numbered("__input", Size(p)), d)
AddNamelessOutput(p, d) == AddOutputDesc(p, Numbered("__output", Size(p)), d)
AddInputDescAt(p, i, d) ==
    IF InRange(p, i) THEN UpdateInputDescByIndex(p, i, d) ELSE AddNamelessInput(p, d)

(* How many of the ports base0, base1, ... a call that asks for num creates:  *)
(* it stops, and fails, at the first name that exists.                        *)
FreeNames(p, base, num) ==
    Min({num} \cup {i \in 0..num-1 : HasName(p, Numbered(base, i))})

NewNames(p, base, num) == [k \in 1..FreeNames(p, base, num) |-> Numbered(base, k - 1)]

(* Ports created in the middle: nothing happens beyond the last position.     *)
AddInputDescMiddle(p, base, num, i) ==
    IF i > Size(p) THEN p ELSE InsertPorts(p, i, NewNames(p, base, num))
AddOutputDescMiddle(p, base, num, i) == AddInputDescMiddle(p, base, num, i)

(* Ports created in front: each goes before the one created just before it.   *)
AddInputDescForward(p, base, num)  == InsertPorts(p, 0, Reverse(NewNames(p, base, num)))
AddOutputDescForward(p, base, num) == AddInputDescForward(p, base, num)

AllFree(p, base, num) == FreeNames(p, base, num) = num

(* Dynamic ports; only a call that failed does not register the base name.    *)
AddDynamicInputDesc(p, base, num, back) ==
    LET behind[k \in 0..num] ==
            IF k = 0 THEN p ELSE AddInputDesc(behind[k-1], Numbered(base, k - 1), DefaultDesc)
        front == AddInputDescForward(p, base, num)
    IN  IF back THEN AddRegisterInputName(behind[num], Plain(base))
        ELSE IF AllFree(p, base, num) THEN AddRegisterInputName(front, Plain(base)) ELSE front
AddDynamicOutputDesc(p, base, num, back) ==
    LET free == FreeNames(p, base, num)
        behind[k \in 0..free] ==
            IF k = 0 THEN p ELSE AddOutputDesc(behind[k-1], Numbered(base, k - 1), DefaultDesc)
        q == IF back THEN behind[free] ELSE AddOutputDescForward(p, base, num)
    IN  IF AllFree(p, base, num) THEN AddRegisterOutputName(q, Plain(base)) ELSE q

(* UpdateInputName: names taken over from a factory's operator.  Those beyond *)
(* the last position are dropped, and what remains must name every position.  *)
UpdateInputName(p, m) ==
    LET kept == IF Size(p) < Cardinality(DOMAIN m)
                THEN Restrict(m, {n \in DOMAIN m : m[n] < Size(p)}) ELSE m
    IN  IF Cardinality(DOMAIN kept) = Size(p) THEN [p EXCEPT !.idx = kept] ELSE p
UpdateOutputName(p, m) == UpdateInputName(p, m)

(* Queries.  The position of an unknown name is -1, the name of a position    *)
(* without one is << >>.                                                      *)
GetInputIndexByName(p, name)  == IF HasName(p, name) THEN p.idx[name] ELSE -1
GetOutputIndexByName(p, name) == GetInputIndexByName(p, name)
GetInputNameByIndex(p, i) ==
    IF \E n \in DOMAIN p.idx : p.idx[n] = i
    THEN CHOOSE n \in DOMAIN p.idx : p.idx[n] = i ELSE << >>
GetOutputNameByIndex(p, i) == GetInputNameByIndex(p, i)
GetInputDesc(p, name) ==
    IF HasName(p, name) /\ InRange(p, p.idx[name]) THEN p.desc[p.idx[name] + 1] ELSE DefaultDesc
GetOutputDesc(p, name) == GetInputDesc(p, name)
ValidInputs(p) == {i \in DOMAIN p.desc : IsValidDesc(p.desc[i])}
GetInputsSize(p) == Cardinality(ValidInputs(p))

(* The position of a name among the inputs that are valid, and back.  A valid *)
(* input without a name spoils both look-ups for all.                         *)
AllValidNamed(p) == \A i \in ValidInputs(p) : \E n \in DOMAIN p.idx : p.idx[n] = i - 1
GetValidInputIndexByName(p, name) ==
    IF AllValidNamed(p) /\ HasName(p, name) /\ p.idx[name] + 1 \in ValidInputs(p)
    THEN Cardinality({i \in ValidInputs(p) : i <= p.idx[name]}) ELSE -1
GetValidInputNameByIndex(p, i) ==
    IF \E n \in DOMAIN p.idx : i >= 0 /\ GetValidInputIndexByName(p, n) = i
    THEN CHOOSE n \in DOMAIN p.idx : GetValidInputIndexByName(p, n) = i ELSE << >>

AddOptionalInputDesc(o, name, d) ==
    [o EXCEPT !.in = AddInputDesc(@, name, d), !.optional = @ \cup {name}]

(* Mutant: the ports of the dynamic names before are not counted.             *)
NotWidened(num, name) == 0
(* Where UpdateDynamicInputOutPutIndex puts the ports of a dynamic name: the  *)
(* registered names before it count one each, and a dynamic one among them as *)
(* many as it has tensors, but never less than one.                           *)
Widened(num, name) == IF name \in DOMAIN num /\ num[name] > 0 THEN num[name] - 1 ELSE 0
InsetIndex(reg, num, name) ==
    LET k == CHOOSE i \in DOMAIN reg : reg[i] = name
        wider[i \in 0..k-1] == IF i = 0 THEN 0 ELSE wider[i-1] + Widened(num, reg[i])
    IN  k - 1 + wider[k-1]

(* AutoMappingByOpFnDynamic: the dynamic names, in the order of their places, *)
(* get the number of ports that the attributes ask for; those with none are   *)
(* left out.                                                                  *)
AddDynamicPorts(p, num) ==
    LET HasTensors(n) == n \in DOMAIN num /\ num[n] > 0
        done[k \in 0..Len(p.reg)] ==
            IF k = 0 THEN p
            ELSE LET n == p.reg[k]
                 IN  IF HasTensors(n) THEN AddInputDescMiddle(done[k-1], n[1], num[n], InsetIndex(p.reg, num, n))
                     ELSE done[k-1]
    IN  done[Len(p.reg)]
AutoMappingByOpFnDynamic(o, numIn, numOut) ==
    [o EXCEPT !.in = AddDynamicPorts(@, numIn), !.out = AddDynamicPorts(@, numOut)]

(* The format of all inputs that are valid and of all outputs.                *)
SetOpdescInputOutputFormat(o, src, dst) ==
    [o EXCEPT !.in.desc  = [i \in DOMAIN @ |-> IF IsValidDesc(@[i]) THEN [@[i] EXCEPT !.format = src] ELSE @[i]],
              !.out.desc = [i \in DOMAIN @ |-> [@[i] EXCEPT !.format = dst]]]
=============================================================================
