------------------------------- MODULE OpRegistry -------------------------------
(* The registry of operator plugins (register/register.cpp, class OpRegistry) *)
(* and the registration data that are entered in it (OpRegistrationData).     *)
(* A plugin describes itself with a chain of setters on an object whose copies*)
(* share one body, a static receiver keeps a copy, and whoever loads the      *)
(* plugins later enters the received data one after the other.                *)
(*                                                                            *)
(* A name is the sequence of its parts between underscores: the key of a      *)
(* parser is the concatenation of two names, and different pairs of names can *)
(* give one key.                                                              *)
EXTENDS Naturals, Sequences, FiniteSets

CONSTANTS OpData,      \* the registration data objects (their shared bodies)
          OmTypeOf,    \* om_optype_ of each
          OriTypes,    \* original types, e.g. of TensorFlow
          ParserFns,   \* functions a plugin may register
          NoFn,        \* nullptr
          MaxSetters   \* bound: calls of SetField in a behaviour

OmTypes == {OmTypeOf[d] : d \in OpData}

(* The fields of a registration that OpRegistry::Register copies under the    *)
(* parser key, and those it copies under the om type.                         *)
KeyFields == {"parse", "parseByOp", "fusion", "fusionByOp", "remove", "toGraph"}
TypeFields == {"imply", "subgraphPost", "subgraphPostV2"}

VARIABLES data,      \* the body of each OpRegistrationData
          received,  \* OpRegistry::registrationDatas; the caller walks it in any order
          byKey,     \* the six maps keyed by GetParserKey
          byType,    \* the three maps keyed by the om type
          origin,    \* origin_type_to_om_type_
          setters,   \* calls of SetField so far
          author     \* history: whose data each key of the maps first took

opVars == <<data, received, byKey, byType, origin, setters, author>>

NoOm == <<"">>      \* the empty name, which GetParserKey also concatenates
Unset == <<>>        \* a key that a map does not hold

(* "nobody" and "torn" are the answers of a lookup that finds no one         *)
(* registration, not registrations; no operator has the empty name.          *)
ASSUME OpDataAssumption == /\ "nobody" \notin OpData /\ "torn" \notin OpData
                           /\ \A d \in OpData : OmTypeOf[d] # NoOm

GetParserKey(om, ori) == om \o ori
ParserKeys == {GetParserKey(om, ori) : om \in OmTypes, ori \in OriTypes}

(* For the history: the entries a registration may be the first to claim.     *)
Entries == ({"key"} \X ParserKeys) \cup ({"type"} \X OmTypes)
EntriesOf(d) == {<<"key", GetParserKey(data[d].om, o)>> : o \in data[d].oris} \cup {<<"type", data[d].om>>}

Fresh(d) == [om |-> OmTypeOf[d], oris |-> {},
             field |-> [f \in KeyFields \cup TypeFields |-> NoFn]]

OpInit == /\ data = [d \in OpData |-> Fresh(d)]
          /\ received = {}
          /\ byKey = [k \in ParserKeys |-> Unset]
          /\ byType = [t \in OmTypes |-> Unset]
          /\ origin = [o \in OriTypes |-> NoOm]
          /\ author = [k \in Entries |-> Unset]
          /\ setters = 0

SetterCall == setters < MaxSetters /\ setters' = setters + 1

(* OriginOpType: adds to the set; a null name is the empty one, not modelled. *)
OriginOpType(d, o) ==
    /\ o \notin data[d].oris
    /\ data' = [data EXCEPT ![d].oris = @ \cup {o}]
    /\ UNCHANGED <<received, byKey, byType, origin, setters, author>>

(* ParseParamsFn, ParseParamsByOperatorFn, FusionParseParamsFn, ImplyType:    *)
(* the last call wins.  The removal of inputs is a list that only grows; here *)
(* its last element.                                                          *)
SetField(d, f, fn) ==
    /\ SetterCall
    /\ data' = [data EXCEPT ![d].field[f] = fn]
    /\ UNCHANGED <<received, byKey, byType, origin, author>>

(* DelInputWithCond, InputReorderVector, DelInputWithOriginalType.            *)
AddInputRemoval(d, fn) == SetField(d, "remove", fn)

(* ParseSubgraphPostFn (both), ParseOpToGraphFn.                              *)
SetPostFn(d, f, fn) == f \in {"subgraphPost", "subgraphPostV2", "toGraph"} /\ SetField(d, f, fn)

(* OpReceiver: a copy of the object, which shares the body.                   *)
OpReceiver(d) ==
    /\ d \notin received
    /\ received' = received \cup {d}
    /\ UNCHANGED <<data, byKey, byType, origin, setters, author>>

(* OpRegistry::Register on one of the received data.  A key that is known is  *)
(* skipped, and so is an om type that is known; the original type keeps the   *)
(* om type it first came with.                                                *)
NewKeysNotSkipped(d) == {GetParserKey(data[d].om, o) : o \in data[d].oris}
NewKeys(d) == {k \in ParserKeys : /\ byKey[k] = Unset
                                  /\ \E o \in data[d].oris : k = GetParserKey(data[d].om, o)}
FieldsOf(d, fs) == [f \in fs |-> data[d].field[f]]

Register(d) ==
    /\ d \in received
    /\ byKey' = [k \in ParserKeys |-> IF k \in NewKeys(d) THEN FieldsOf(d, KeyFields) ELSE byKey[k]]
    /\ origin' = [o \in OriTypes |->
                    IF /\ o \in data[d].oris
                       /\ GetParserKey(data[d].om, o) \in NewKeys(d)
                       /\ origin[o] = NoOm
                    THEN data[d].om ELSE origin[o]]
    /\ byType' = IF byType[data[d].om] # Unset THEN byType
                 ELSE [byType EXCEPT ![data[d].om] = FieldsOf(d, TypeFields)]
    /\ author' = [e \in Entries |->
                    IF author[e] = Unset /\ e \in EntriesOf(d) THEN <<d, data[d].field>> ELSE author[e]]
    /\ UNCHANGED <<data, received, setters>>

OpNext == \E d \in OpData :
    \/ \E o \in OriTypes : OriginOpType(d, o)
    \/ \E f \in {"parse", "parseByOp", "fusion", "fusionByOp", "imply"}, fn \in ParserFns : SetField(d, f, fn)
    \/ \E fn \in ParserFns : AddInputRemoval(d, fn)
    \/ \E f \in {"subgraphPost", "subgraphPostV2", "toGraph"}, fn \in ParserFns : SetPostFn(d, f, fn)
    \/ OpReceiver(d)
    \/ Register(d)
-----------------------------------------------------------------------------
(* The lookups.                                                               *)
FieldAt(k, f) == IF k \in ParserKeys /\ byKey[k] # Unset THEN byKey[k][f] ELSE NoFn

(* GetParseParamFunc, GetFusionParseParamFunc, GetFusionParseParamByOpFunc,   *)
(* GetParseOpToGraphFunc.                                                     *)
ByTypeAndOrigin(om, ori, f) == FieldAt(GetParserKey(om, ori), f)

(* GetParseParamByOperatorFunc, GetRemoveInputConfigure.                      *)
ByOrigin(ori, f) == FieldAt(GetParserKey(origin[ori], ori), f)

(* GetImplyType, GetParseSubgraphPostFunc.                                    *)
ByOmType(om, f) == IF byType[om] = Unset THEN NoFn ELSE byType[om][f]
GetImplyTypeByOriOpType(ori) == IF origin[ori] = NoOm THEN NoFn ELSE ByOmType(origin[ori], "imply")

(* GetOpTypeByImplyType.                                                      *)
GetOpTypeByImplyType(fn) == {om \in OmTypes : byType[om] # Unset /\ byType[om]["imply"] = fn}
-----------------------------------------------------------------------------
(* The refinement: a lookup of a parser key or of an om type finds the one    *)
(* registration all of whose fields it returns; a lookup by original type     *)
(* finds the registration that gave the original type its om type.            *)
Whole(e, fields, stored) ==
    IF stored = Unset THEN "nobody"
    ELSE IF stored = [f \in fields |-> author[e][2][f]] THEN author[e][1] ELSE "torn"

FoundByKey(k) == Whole(<<"key", k>>, KeyFields, byKey[k])

FoundByOrigin(o) ==
    LET k == GetParserKey(origin[o], o)
    IN  IF origin[o] = NoOm THEN "nobody"
        ELSE IF FoundByKey(k) \in OpData /\ OmTypeOf[FoundByKey(k)] = origin[o] THEN FoundByKey(k)
        ELSE "torn"

OpEntries == Entries \cup ({"origin"} \X OriTypes)
Found(e) == CASE e[1] = "key"    -> FoundByKey(e[2])
              [] e[1] = "type"   -> Whole(e, TypeFields, byType[e[2]])
              [] e[1] = "origin" -> FoundByOrigin(e[2])

OpPromise == INSTANCE RegistrySpec WITH
    Keys <- OpEntries, FirstWins <- OpEntries, Removable <- {}, Registrants <- OpData,
    Nobody <- "nobody", entry <- [e \in OpEntries |-> Found(e)]

(* OpRegistry::Register and the lookups: whatever order plugins are built,    *)
(* received and registered in, and however often, a lookup by key, om type or *)
(* original type answers with all the fields of one registration, the first   *)
(* that claimed it, and never changes its answer (register.cpp 930-1083).     *)
OpRegistryPromise == OpPromise!RegSpec
=============================================================================
