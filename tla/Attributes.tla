---------------------------- MODULE Attributes ----------------------------
(***************************************************************************)
(* The attributes of a graph, an operator or a tensor description          *)
(* (AttrHolder, graph/detail/attributes_holder.cc) and their typed access  *)
(* (AttrUtils, GeAttrValue and GeAttrValueImp, graph/ge_attr_value.cc).    *)
(*                                                                         *)
(* An entry of the map is a protobuf AttrDef: case is the kind of its      *)
(* oneof, "list" for every list, lt the element kind of a list and val the *)
(* value: <<v>> of a single one, the items of a list.  A Buffer (graph/    *)
(* buffer.cc) holds bytes of its own or those of an attribute.             *)
(***************************************************************************)
EXTENDS Integers, Sequences, FiniteSets

CONSTANTS AttrNames,   \* names of attributes
          BufferNames, \* variables that hold a Buffer
          AttrValues,  \* values of every kind; Integers of the kind "int"
          AttrLists,   \* lists of them, with BadItem among the items or not
          Int32Max,    \* the largest value of the narrower integer
          AttrSteps,   \* bound on the operations of a behaviour
          NoBytes,     \* the empty string of bytes
          Missing,     \* no entry, nothing read
          BadItem      \* an item that a list cannot take: a null tensor, a
                       \* graph that does not serialize

VARIABLES attrs,     \* [AttrNames -> entry or Missing]
          required,  \* requiredAttrs_
          buffers,   \* [BufferNames -> [of, item, own]]: the attribute whose bytes it shows, or its own
          got,       \* what the last operation was and returned: ghost
          spent      \* operations so far

attrVars == <<attrs, required, buffers, got, spent>>

Singles == {"int", "str", "bytes", "graph"}
Elements == {"int", "tensor", "graph", "bytes"}
Items == AttrValues \cup {NoBytes, BadItem}
Entries == [case : Singles \cup {"none", "list"}, lt : Elements \cup {"none"}, val : Seq(Items)]
Unset == [case |-> "none", lt |-> "none", val |-> << >>]

ASSUME AttributesAssumption ==
    /\ AttrLists \subseteq Seq(Items)
    /\ Missing \notin AttrNames
    /\ Missing \notin Entries

Entry(name) == IF attrs[name] = Missing THEN Unset ELSE attrs[name]

----------------------------------------------------------------------------
(* What an entry allows. *)

GetValueCheckType(e, kind) == e.case = kind
\* a list whose element kind was not recorded shows what items it has
GetValueCheckListType(e, kind, Holds) == e.case = "list" /\ (e.lt = "none" => Holds) /\ e.lt \in {"none", kind}
SetValueCheckType(e, kind) == e.case \in {"none", kind}
SetListUnchecked(e, kind) == e.case \in {"none", "list"}
SetValueCheckAndSetListType(e, kind) == e.case \in {"none", "list"} /\ e.lt \in {"none", kind}

\* GetValueType: the kind that a reader finds
ListKind(kind) == CASE kind = "int"    -> "list_int"
                    [] kind = "tensor" -> "list_tensor"
                    [] kind = "graph"  -> "list_graph"
                    [] kind = "bytes"  -> "list_bytes"
KindOf(e) == IF e.case = "list" THEN (IF e.lt = "none" THEN "none" ELSE ListKind(e.lt)) ELSE e.case
IsEmpty(e) == KindOf(e) = "none"
Read(e) == IF IsEmpty(e) THEN Missing ELSE <<KindOf(e), e.val>>
HasAttr(name) == attrs[name] # Missing \/ name \in required

----------------------------------------------------------------------------
(* AttrUtils::Set*: the entry is got or made before its kind is checked,   *)
(* and stays when the check fails.                                         *)

Took == spent < AttrSteps /\ spent' = spent + 1
Return(op, name, ok, val) == got' = [op |-> op, name |-> name, ok |-> ok, val |-> val]
\* the buffers that show an attribute whose string is gone
Adrift(name) == [b \in BufferNames |-> IF buffers[b].of = name THEN [buffers[b] EXCEPT !.of = Missing, !.own = Missing]
                                       ELSE buffers[b]]
Put(name, e) == attrs' = [attrs EXCEPT ![name] = e]

SetOne(name, kind, v) ==
    /\ kind \in {"int", "str"} /\ Took
    /\ LET e == Entry(name)
       IN  IF SetValueCheckType(e, kind)
           THEN Put(name, [case |-> kind, lt |-> "none", val |-> <<v>>]) /\ Return("set", name, TRUE, <<kind, <<v>>>>)
           ELSE Put(name, e) /\ Return("set", name, FALSE, <<kind, <<v>>>>)
    /\ UNCHANGED <<required, buffers>>

SetBytes(name, v) ==
    /\ Took
    /\ LET e == Entry(name)
       IN  IF SetValueCheckType(e, "bytes")
           THEN Put(name, [case |-> "bytes", lt |-> "none", val |-> <<v>>]) /\ Return("set", name, TRUE, <<"bytes", <<v>>>>)
           ELSE Put(name, e) /\ Return("set", name, FALSE, <<"bytes", <<v>>>>)
    /\ UNCHANGED <<required, buffers>>

\* a graph that does not serialize leaves the attribute without a value
SetGraph(name, v) ==
    /\ Took
    /\ LET e == Entry(name)
       IN  IF ~SetValueCheckType(e, "graph") THEN Put(name, e) /\ Return("set", name, FALSE, <<"graph", <<v>>>>)
           ELSE IF v = BadItem THEN Put(name, Unset) /\ Return("set", name, FALSE, <<"graph", <<v>>>>)
           ELSE Put(name, [case |-> "graph", lt |-> "none", val |-> <<v>>]) /\ Return("set", name, TRUE, <<"graph", <<v>>>>)
    /\ UNCHANGED <<required, buffers>>

\* the element kind is recorded with the check, then the items one by one;
\* an item that cannot be taken clears the whole list
ListPut(name, kind, l) ==
    LET e == Entry(name)
    IN  IF ~SetValueCheckAndSetListType(e, kind)
        THEN Put(name, e) /\ Return("set", name, FALSE, <<ListKind(kind), l>>)
        ELSE IF \E i \in DOMAIN l : l[i] = BadItem
        THEN Put(name, Unset) /\ Return("set", name, FALSE, <<ListKind(kind), l>>)
        ELSE Put(name, [case |-> "list", lt |-> kind, val |-> l]) /\ Return("set", name, TRUE, <<ListKind(kind), l>>)
Listed(name) == buffers' = IF attrs[name] \in {Missing, attrs'[name]} THEN buffers ELSE Adrift(name)
SetList(name, l) == Took /\ ListPut(name, "int", l) /\ Listed(name) /\ UNCHANGED required
SetListTensor(name, l) == Took /\ ListPut(name, "tensor", l) /\ Listed(name) /\ UNCHANGED required
SetListGraph(name, l) == Took /\ ListPut(name, "graph", l) /\ Listed(name) /\ UNCHANGED required
SetListBytes(name, l) == Took /\ ListPut(name, "bytes", l) /\ Listed(name) /\ UNCHANGED required

----------------------------------------------------------------------------
(* Buffers.  One that shows an attribute has its message (item 0) or only  *)
(* the string of an item of a list.                                        *)

Bytes(b) == LET r == buffers[b]
            IN  IF r.of = Missing THEN r.own
                ELSE IF r.item = 0 THEN attrs[r.of].val[1] ELSE attrs[r.of].val[r.item]
Own(v) == [of |-> Missing, item |-> 0, own |-> v]
HasMessage(b) == buffers[b].item = 0

FillBuffer(b, v) == /\ Took /\ buffers' = [buffers EXCEPT ![b] = Own(v)]
                    /\ Return("buffer", Missing, TRUE, v) /\ UNCHANGED <<attrs, required>>

\* GetBytes copies, GetZeroCopyBytes shows
GetBytes(b, name) ==
    /\ Took
    /\ LET ok == attrs[name] # Missing /\ GetValueCheckType(attrs[name], "bytes")
       IN  /\ buffers' = IF ok THEN [buffers EXCEPT ![b] = Own(attrs[name].val[1])] ELSE buffers
           /\ Return("get", name, ok, IF ok THEN Read(attrs[name]) ELSE Missing)
    /\ UNCHANGED <<attrs, required>>
GetZeroCopyBytes(b, name) ==
    /\ Took
    /\ LET ok == attrs[name] # Missing /\ GetValueCheckType(attrs[name], "bytes")
       IN  /\ buffers' = IF ok THEN [buffers EXCEPT ![b] = [of |-> name, item |-> 0, own |-> Missing]] ELSE buffers
           /\ Return("get", name, ok, IF ok THEN Read(attrs[name]) ELSE Missing)
    /\ UNCHANGED <<attrs, required>>
GetZeroCopyListBytes(b, name) ==
    /\ Took
    /\ LET ok == /\ attrs[name] # Missing
                 /\ GetValueCheckListType(attrs[name], "bytes", attrs[name].val # << >>)
       IN  /\ buffers' = IF ok /\ attrs[name].val # << >>
                         THEN [buffers EXCEPT ![b] = [of |-> name, item |-> 1, own |-> Missing]] ELSE buffers
           /\ Return("get", name, ok, IF ok THEN Read(attrs[name]) ELSE Missing)
    /\ UNCHANGED <<attrs, required>>

\* the bytes are moved out of a buffer, and of the attribute it shows
MovedOut(name, b, e) ==
    /\ attrs' = [a \in AttrNames |-> IF a = name THEN e
                                     ELSE IF a = buffers[b].of THEN [attrs[a] EXCEPT !.val = <<NoBytes>>] ELSE attrs[a]]
    /\ buffers' = [c \in BufferNames |-> IF c = b /\ buffers[b].of = Missing THEN Own(NoBytes)
                                         ELSE IF e.case = "list" THEN Adrift(name)[c] ELSE buffers[c]]

\* moved into itself, a string keeps its bytes or loses them
SetZeroCopyBytes(name, b) ==
    /\ Took /\ Bytes(b) # Missing
    /\ LET e == Entry(name)
           v == <<"bytes", <<Bytes(b)>>>>
       IN  IF ~SetValueCheckType(e, "bytes") \/ ~HasMessage(b)
           THEN Put(name, e) /\ Return("set", name, FALSE, v) /\ UNCHANGED buffers
           ELSE IF buffers[b].of = name
           THEN /\ \E w \in {Bytes(b), NoBytes} : Put(name, [e EXCEPT !.val = <<w>>])
                /\ Return("moved", name, TRUE, v) /\ UNCHANGED buffers
           ELSE /\ MovedOut(name, b, [case |-> "bytes", lt |-> "none", val |-> <<Bytes(b)>>])
                /\ Return("moved", name, TRUE, v)
    /\ UNCHANGED required

\* the list is emptied first; a buffer that shows an item of a list has no
\* message, and ends the move there
SetZeroCopyListBytes(name, b) ==
    /\ Took /\ Bytes(b) # Missing
    /\ LET e == Entry(name)
           v == <<"list_bytes", <<Bytes(b)>>>>
       IN  IF ~SetValueCheckAndSetListType(e, "bytes")
           THEN Put(name, e) /\ Return("set", name, FALSE, v) /\ UNCHANGED buffers
           ELSE IF ~HasMessage(b)
           THEN /\ Put(name, [case |-> "list", lt |-> "bytes", val |-> << >>])
                /\ buffers' = Adrift(name) /\ Return("set", name, FALSE, v)
           ELSE /\ MovedOut(name, b, [case |-> "list", lt |-> "bytes", val |-> <<Bytes(b)>>])
                /\ Return("moved", name, TRUE, v)
    /\ UNCHANGED required

----------------------------------------------------------------------------
(* Reading, and AttrHolder's own operations. *)

\* GetInt of 32 bits refuses what is too large and wraps what is too small
GetInt32(name) ==
    /\ Took
    /\ LET ok == /\ attrs[name] # Missing /\ GetValueCheckType(attrs[name], "int")
                 /\ attrs[name].val[1] <= Int32Max
       IN  Return("int32", name, ok, IF ~ok THEN Missing
                                     ELSE ((attrs[name].val[1] + Int32Max + 1) % (2 * (Int32Max + 1))) - Int32Max - 1)
    /\ UNCHANGED <<attrs, required, buffers>>

\* GeAttrValue has the value's kind; a list may replace a list of another kind
SetAttr(name, kind, l) ==
    /\ Took
    /\ LET v == IF kind = "int" THEN [case |-> "int", lt |-> "none", val |-> <<l[1]>>]
                ELSE [case |-> "list", lt |-> kind, val |-> l]
           e == Entry(name)
       IN  IF SetValueCheckType(e, v.case)
           THEN Put(name, v) /\ Return("replace", name, TRUE, Read(v)) /\ Listed(name)
           ELSE Return("replace", name, FALSE, Read(v)) /\ UNCHANGED <<attrs, buffers>>
    /\ UNCHANGED required

AddRequiredAttr(name) ==
    /\ Took /\ Return("require", name, ~HasAttr(name), Missing)
    /\ required' = IF HasAttr(name) THEN required ELSE required \cup {name}
    /\ UNCHANGED <<attrs, buffers>>

DelAttr(name) ==
    /\ Took /\ Return("delete", name, attrs[name] # Missing, Missing)
    /\ Put(name, Missing) /\ buffers' = Adrift(name) /\ UNCHANGED required

AttributesInit ==
    /\ attrs = [a \in AttrNames |-> Missing] /\ required = {}
    /\ buffers = [b \in BufferNames |-> Own(NoBytes)]
    /\ got = [op |-> "none", name |-> Missing, ok |-> TRUE, val |-> Missing] /\ spent = 0

AttributesNext ==
    \/ \E name \in AttrNames, v \in AttrValues :
          \/ \E kind \in Singles : SetOne(name, kind, v)
          \/ SetBytes(name, v)
    \/ \E name \in AttrNames, v \in AttrValues \cup {BadItem} : SetGraph(name, v)
    \/ \E name \in AttrNames, l \in AttrLists :
          \/ SetListTensor(name, l) \/ SetListGraph(name, l)
          \/ BadItem \notin {l[i] : i \in DOMAIN l} /\ (SetList(name, l) \/ SetListBytes(name, l))
          \/ \E kind \in {"int", "tensor"} : Len(l) = 1 /\ SetAttr(name, kind, l)
    \/ \E name \in AttrNames : GetInt32(name) \/ AddRequiredAttr(name) \/ DelAttr(name)
    \/ \E b \in BufferNames, v \in AttrValues : FillBuffer(b, v)
    \/ \E b \in BufferNames, name \in AttrNames :
          \/ GetBytes(b, name) \/ GetZeroCopyBytes(b, name) \/ GetZeroCopyListBytes(b, name)
          \/ SetZeroCopyBytes(name, b) \/ SetZeroCopyListBytes(name, b)

AttributesSpec == AttributesInit /\ [][AttributesNext]_attrVars

----------------------------------------------------------------------------
(* Attributes are typed, through every way in: what a call that succeeds   *)
(* sets is what is read next, under the kind it was set with; a call that  *)
(* fails leaves the value that was there, or none, or an emptied list, and *)
(* never a mixture of two; a name that holds a value keeps its kind until  *)
(* it is deleted, emptied, or replaced list for list by SetAttr; and no    *)
(* other attribute changes, but for the one whose bytes are moved away.    *)
AttributesTyped ==
    [][LET Was(n) == Read(Entry(n))
           Is(n)  == IF attrs'[n] = Missing THEN Missing ELSE Read(attrs'[n])
       IN  \A n \in AttrNames :
             /\ (n = got'.name /\ got'.op \in {"set", "replace"} /\ got'.ok) => Is(n) = got'.val
             /\ (n = got'.name /\ ~got'.ok) => Is(n) \in {Was(n), Missing} \/ Is(n)[2] = << >>
             /\ (Was(n) # Missing /\ Is(n) # Missing /\ Is(n)[1] # Was(n)[1])
                   => got'.name = n /\ got'.op = "replace" /\ Entry(n).case = "list"
             /\ n # got'.name => Is(n) = Was(n) \/ (got'.op = "moved" /\ Is(n)[2] = <<NoBytes>>)]_attrVars
=============================================================================
