----------------------------- MODULE PassRegistries -----------------------------
(* The other registries: operator creators and functions (OperatorFactory),   *)
(* fusion passes by type (graph and buffer), scope passes with an enable flag,*)
(* host CPU kernels, kernel builders, tiling functions, format transfers and  *)
(* custom passes.  Each call is one action: the registries with a mutex hold  *)
(* it for the whole call, the others are written by static initialisers.      *)
(* A null name that the registrars turn into the empty name is NoName.        *)
EXTENDS Integers, Sequences, SequencesExt

CONSTANTS Types,        \* names of operators, passes and libraries
          NoName,       \* the empty name, a member of Types
          Makers,       \* creators, functions and builders, without nullptr
          NullMaker,    \* nullptr
          PassKinds,    \* pass types, the unsupported one included
          BadPassKind,  \* a value outside the enumeration
          Formats,      \* formats as integers: primary part modulo 256
          Priorities,   \* priorities of custom passes, negative ones included
          NoPriority,   \* INT_MAX, what a pass has that sets none
          MaxPassCalls  \* bound: calls in a behaviour

ASSUME PassAssumption == /\ NullMaker \notin Makers
                         /\ Priorities \subseteq Int /\ NoPriority \in Int
                         /\ MaxPassCalls \in Nat

Tables == {"creator", "creatorV2", "inferShape", "inferFormat", "verify", "dataSlice"}
NullMap == <<>>   \* a table whose pointer is still null
NoRun == -1       \* CustomPassHelper::Run is not under way

VARIABLES factory,    \* OperatorFactoryImpl: each table is NullMap or a map
          fusion,     \* FusionPassRegistry and BufferFusionPassRegistry: create_fns_
          scopePass,  \* ScopeFusionPassRegistry: pass_names_ and create_fn_packs_
          plain,      \* the maps without more structure: kernels, builders, tiling
          transfer,   \* FormatTransferRegistry::src_dst_builder
          custom,     \* CustomPassHelper::registration_datas_, in its order
          running,    \* CustomPassHelper::Run: how many passes its loop has left behind
          ran,        \* history: the passes the last Run called
          since,      \* history: passCalls when it began
          passCalls

passVars == <<factory, fusion, scopePass, plain, transfer, custom, running, ran, since, passCalls>>

EmptyMap == [t \in Types |-> NullMaker]

PassInit == /\ factory = [t \in Tables |-> NullMap]
            /\ fusion = [r \in {"graph", "buffer"} |-> [k \in PassKinds |-> EmptyMap]]
            /\ scopePass = [names |-> <<>>, pack |-> [t \in Types |-> [fn |-> NullMaker, on |-> FALSE]]]
            /\ plain = [r \in {"kernel", "builder", "tiling"} |-> EmptyMap]
            /\ transfer = [p \in Formats \X Formats |-> NullMaker]
            /\ custom = <<>>
            /\ running = NoRun
            /\ ran = <<>>
            /\ since = 0
            /\ passCalls = 0

PassCall == passCalls < MaxPassCalls /\ passCalls' = passCalls + 1
-----------------------------------------------------------------------------
(* RegisterOperatorCreator (both), RegisterInferShapeFunc, ...: create the map*)
(* if there is none; a type that is known is refused.                         *)
FactoryRegister(table, t, fn) ==
    /\ PassCall
    /\ LET m == IF factory[table] = NullMap THEN EmptyMap ELSE factory[table]
       IN  factory' = [factory EXCEPT ![table] =
                         IF m[t] # NullMaker THEN m ELSE [m EXCEPT ![t] = fn]]
    /\ UNCHANGED <<fusion, scopePass, plain, transfer, custom, running, ran, since>>

(* OperatorCreatorRegister, InferShapeFuncRegister, InferFormatFuncRegister,  *)
(* VerifyFuncRegister: a static object registers and drops the result.        *)
Registrar(table, t, fn) == FactoryRegister(table, t, fn)

InTable(table, t) == factory[table] # NullMap /\ factory[table][t] # NullMaker

(* GetInferShapeFunc, GetInferFormatFunc, GetVerifyFunc, GetInferDataSliceFunc*)
FactoryGet(table, t) == IF InTable(table, t) THEN factory[table][t] ELSE NullMaker

CreateOperator(t) == IF InTable("creatorV2", t) THEN factory["creatorV2"][t]
                     ELSE FactoryGet("creator", t)
IsExistOp(t) == InTable("creatorV2", t) \/ InTable("creator", t)

(* GetOpsTypeList: the types registered by AscendString if there are any, the *)
(* others only when there are none; FAILED when there is no map at all.       *)
GetOpsTypeList == IF factory["creatorV2"] # NullMap THEN {t \in Types : InTable("creatorV2", t)}
                  ELSE {t \in Types : InTable("creator", t)}
-----------------------------------------------------------------------------
(* FusionPassRegistrar and BufferFusionPassRegistrar: a bad type or an empty  *)
(* name is refused; RegisterPass then overwrites.                             *)
RegisterPass(r, kind, name, fn) ==
    /\ PassCall
    /\ fusion' = IF kind = BadPassKind \/ name = NoName THEN fusion
                 ELSE [fusion EXCEPT ![r][kind][name] = fn]
    /\ UNCHANGED <<factory, scopePass, plain, transfer, custom, running, ran, since>>

RegisterGraphPass(kind, name, fn) == RegisterPass("graph", kind, name, fn)
RegisterBufferPass(kind, name, fn) == RegisterPass("buffer", kind, name, fn)

GetCreateFnByType(r, kind) == fusion[r][kind]
-----------------------------------------------------------------------------
(* RegisterScopeFusionPass: the first registration of a name stays.           *)
RegisterScopeFusionPassAgain(name, fn, isGeneral) ==
    /\ PassCall
    /\ scopePass' = [names |-> Append(scopePass.names, name),
                     pack |-> [scopePass.pack EXCEPT ![name] = [fn |-> fn, on |-> isGeneral]]]
    /\ UNCHANGED <<factory, fusion, plain, transfer, custom, running, ran, since>>
RegisterScopeFusionPass(name, fn, isGeneral) ==
    /\ PassCall
    /\ scopePass' = IF Contains(scopePass.names, name) THEN scopePass
                    ELSE [names |-> Append(scopePass.names, name),
                          pack |-> [scopePass.pack EXCEPT ![name] = [fn |-> fn, on |-> isGeneral]]]
    /\ UNCHANGED <<factory, fusion, plain, transfer, custom, running, ran, since>>

(* ScopeFusionPassRegistrar and the forwarding of the public class.           *)
ScopeRegistrar(name, fn, isGeneral) == RegisterScopeFusionPass(name, fn, isGeneral)

SetPassEnableFlag(name, flag) ==
    /\ PassCall
    /\ scopePass' = IF Contains(scopePass.names, name)
                    THEN [scopePass EXCEPT !.pack[name].on = flag] ELSE scopePass
    /\ UNCHANGED <<factory, fusion, plain, transfer, custom, running, ran, since>>

GetScopeCreateFn(name) == IF scopePass.pack[name].on THEN scopePass.pack[name].fn ELSE NullMaker
GetAllRegisteredPasses == SelectSeq(scopePass.names, LAMBDA n : scopePass.pack[n].on)
CreateScopeFusionPass(name) == GetScopeCreateFn(name)
-----------------------------------------------------------------------------
(* RegisterHostCpuOp overwrites.                                              *)
RegisterHostCpuOp(t, fn) ==
    /\ PassCall
    /\ plain' = [plain EXCEPT !["kernel"][t] = fn]
    /\ UNCHANGED <<factory, fusion, scopePass, transfer, custom, running, ran, since>>
IsRegistered(t) == plain["kernel"][t] # NullMaker
CreateHostCpuOp(t) == plain["kernel"][t]

(* OpsKernelBuilderRegistrar: its constructor registers (emplace: the first   *)
(* stays; what it built may be null, which is entered all the same and is not *)
(* told apart here), its destructor unregisters the name, whoever entered it. *)
RegisterBuilder(t, fn) ==
    /\ PassCall
    /\ plain' = IF plain["builder"][t] # NullMaker THEN plain
                ELSE [plain EXCEPT !["builder"][t] = fn]
    /\ UNCHANGED <<factory, fusion, scopePass, transfer, custom, running, ran, since>>
Unregister(t) ==
    /\ PassCall
    /\ plain' = [plain EXCEPT !["builder"][t] = NullMaker]
    /\ UNCHANGED <<factory, fusion, scopePass, transfer, custom, running, ran, since>>
UnregisterAll ==
    /\ PassCall
    /\ plain' = [plain EXCEPT !["builder"] = EmptyMap]
    /\ UNCHANGED <<factory, fusion, scopePass, transfer, custom, running, ran, since>>

(* OpTilingRegistryInterf: emplace.                                           *)
RegisterTiling(t, fn) ==
    /\ PassCall
    /\ plain' = IF plain["tiling"][t] # NullMaker THEN plain
                ELSE [plain EXCEPT !["tiling"][t] = fn]
    /\ UNCHANGED <<factory, fusion, scopePass, transfer, custom, running, ran, since>>
-----------------------------------------------------------------------------
GetPrimaryFormat(f) == f % 256

(* FormatTransferRegister: entered under the formats as given; the lookups    *)
(* ask for the primary formats only.                                          *)
RegisterFormatTransfer(src, dst, fn) ==
    /\ PassCall
    /\ transfer' = [transfer EXCEPT ![<<src, dst>>] = fn]
    /\ UNCHANGED <<factory, fusion, scopePass, plain, custom, running, ran, since>>
TransferAt(p) == IF p \in Formats \X Formats THEN transfer[p] ELSE NullMaker
BuildFormatTransfer(src, dst) == TransferAt(<<GetPrimaryFormat(src), GetPrimaryFormat(dst)>>)
FormatTransferExists(src, dst) ==
    \E p \in Formats \X Formats : /\ p = <<GetPrimaryFormat(src), GetPrimaryFormat(dst)>>
                                  /\ transfer[p] # NullMaker
-----------------------------------------------------------------------------
(* PassRegistrationData::Priority refuses a negative value.                   *)
PriorityOf(p) == IF p < 0 THEN NoPriority ELSE p

(* CustomPassHelper::Insert: a multiset ordered by priority, where equal ones *)
(* keep the order of insertion.  A pass may register others while Run calls   *)
(* it: an insertion leaves the iterator of the loop at its element.           *)
Inserted(i, name, p, fn) ==
    /\ custom' = InsertAt(custom, i, [name |-> name, pri |-> p, fn |-> fn, at |-> passCalls])
    /\ running' = IF i <= running THEN running + 1 ELSE running
    /\ UNCHANGED <<factory, fusion, scopePass, plain, transfer, ran, since>>
InsertCustomPassFirst(name, p, fn) ==
    /\ PassCall
    /\ \E i \in 1..(Len(custom) + 1) :
         /\ \A j \in 1..Len(custom) : j < i <=> custom[j].pri < PriorityOf(p)
         /\ Inserted(i, name, PriorityOf(p), fn)
InsertCustomPass(name, p, fn) ==
    /\ PassCall
    /\ \E i \in 1..(Len(custom) + 1) :
         /\ \A j \in 1..Len(custom) : j < i <=> custom[j].pri <= PriorityOf(p)
         /\ Inserted(i, name, PriorityOf(p), fn)

(* CustomPassHelper::Run, one pass of the loop a step: a pass without a       *)
(* function is skipped, the first one that fails ends the run.                *)
RunCustomPasses ==
    /\ PassCall /\ running = NoRun
    /\ running' = 0 /\ ran' = <<>> /\ since' = passCalls
    /\ UNCHANGED <<factory, fusion, scopePass, plain, transfer, custom>>
CallCustomPass(success) ==
    /\ running # NoRun
    /\ IF running = Len(custom) THEN running' = NoRun /\ ran' = ran
       ELSE LET item == custom[running + 1]
            IN  IF item.fn = NullMaker THEN running' = running + 1 /\ ran' = ran
                ELSE /\ ran' = Append(ran, item)
                     /\ running' = IF success THEN running + 1 ELSE NoRun
    /\ UNCHANGED <<factory, fusion, scopePass, plain, transfer, custom, since, passCalls>>
-----------------------------------------------------------------------------
PassNext ==
    \/ \E table \in Tables, t \in Types, fn \in Makers : Registrar(table, t, fn)
    \/ \E k \in PassKinds \cup {BadPassKind}, n \in Types, fn \in Makers :
            RegisterGraphPass(k, n, fn) \/ RegisterBufferPass(k, n, fn)
    \/ \E n \in Types, fn \in Makers, g \in BOOLEAN : ScopeRegistrar(n, fn, g)
    \/ \E n \in Types, f \in BOOLEAN : SetPassEnableFlag(n, f)
    \/ \E t \in Types, fn \in Makers : RegisterHostCpuOp(t, fn) \/ RegisterBuilder(t, fn) \/ RegisterTiling(t, fn)
    \/ \E t \in Types : Unregister(t)
    \/ UnregisterAll
    \/ \E s, d \in Formats, fn \in Makers : RegisterFormatTransfer(s, d, fn)
    \/ \E n \in Types, p \in Priorities, fn \in Makers \cup {NullMaker} : InsertCustomPass(n, p, fn)
    \/ RunCustomPasses
    \/ \E success \in BOOLEAN : CallCustomPass(success)
-----------------------------------------------------------------------------
(* The refinement.  A key is a registry and what its lookup is asked for.     *)
PassEntries == ({"creator", "creatorV2", "inferShape", "inferFormat", "verify", "dataSlice",
                 "create", "scope", "kernel", "builder", "tiling"} \X Types)
               \cup ({"graph", "buffer"} \X PassKinds \X Types)
               \cup ({"transfer"} \X Formats \X Formats)
FirstStays == ({"creator", "creatorV2", "inferShape", "inferFormat", "verify", "dataSlice",
                "scope", "builder", "tiling"} \X Types)

(* A scope pass counts as registered when it is listed once, so that enabling *)
(* it lets GetAllRegisteredPasses and CreateScopeFusionPass find it.          *)
ScopeFound(n) ==
    IF Cardinality({i \in 1..Len(scopePass.names) : scopePass.names[i] = n}) > 1 THEN "twice"
    ELSE IF Contains(scopePass.names, n) THEN scopePass.pack[n].fn ELSE NullMaker

PassFound(e) ==
    CASE e[1] \in Tables -> FactoryGet(e[1], e[2])
      [] e[1] = "create" -> CreateOperator(e[2])
      [] e[1] = "scope" -> ScopeFound(e[2])
      [] e[1] \in {"kernel", "builder", "tiling"} -> plain[e[1]][e[2]]
      [] e[1] \in {"graph", "buffer"} -> GetCreateFnByType(e[1], e[2])[e[3]]
      [] e[1] = "transfer" -> IF FormatTransferExists(e[2], e[3]) THEN BuildFormatTransfer(e[2], e[3]) ELSE NullMaker

PassPromise == INSTANCE RegistrySpec WITH
    Keys <- PassEntries, FirstWins <- FirstStays, Removable <- {"builder"} \X Types,
    Registrants <- Makers, Nobody <- NullMaker, entry <- [e \in PassEntries |-> PassFound(e)]

(* OperatorFactoryImpl, the fusion, scope, kernel, builder, tiling and format *)
(* registries: functions, scope passes, builders and tiling functions keep    *)
(* their first registration, only builders can be taken out, and nothing else *)
(* a call does (a flag, a refused name, a run) changes what a lookup finds.   *)
(* A step that makes no call of theirs is not one of RegNext to look at.      *)
PassRegistryPromise == PassPromise!RegInit /\ [][passCalls' # passCalls => PassPromise!RegNext]_passVars

(* CustomPassHelper: the passes of a run come in the order of their           *)
(* priorities, those with the same priority in the order they were inserted,  *)
(* whatever the order of registration across libraries and also when a pass   *)
(* registers others; and the loop passes over none that has a function and was*)
(* there when the run began (register_pass.cpp 97-116).                       *)
ComesBefore(c, d) == c.pri < d.pri \/ (c.pri = d.pri /\ c.at < d.at)
CustomPassesInOrder ==
    /\ \A i, j \in 1..Len(ran) : i < j => ComesBefore(ran[i], ran[j])
    /\ \A i \in 1..running : custom[i].fn # NullMaker /\ custom[i].at < since
                                => \E k \in 1..Len(ran) : ran[k] = custom[i]

(* The registries of passes find what was registered, and a run takes the   *)
(* custom passes in the order of their priorities.                          *)
PassesAsRegistered == PassRegistryPromise /\ []CustomPassesInOrder
=============================================================================
