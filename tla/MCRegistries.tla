------------------------------ MODULE MCRegistries ------------------------------
(* The registries and what threads share, one of them at a time: they have no *)
(* state in common, so a behaviour exercises the one chosen at its start.     *)
EXTENDS OpRegistry, PassRegistries, RuntimeContext, FusionStatistic

CONSTANTS d1, d2, d3, e1, e2, e3

VARIABLE part

(* Keys collide: "A" with "B_C" is "A_B" with "C"; d1 and d3 share a type.    *)
MCOmTypeOf == [d \in {d1, d2, d3} |-> IF d = d2 THEN <<"A", "B">> ELSE <<"A">>]
MCOriTypes == {<<"C">>, <<"B", "C">>}
MCPriorities == {-1, 1}
(* Two executions of session 1, one of session 2.                             *)
MCSessionOf == [e \in {e1, e2, e3} |-> IF e = e3 THEN 2 ELSE 1]

MCInit == /\ part \in {"op", "pass", "ctx", "stat"}
          /\ OpInit /\ PassInit /\ CtxInit /\ StatInit

MCNext ==
    /\ UNCHANGED part
    /\ \/ part = "op"   /\ OpNext   /\ UNCHANGED <<passVars, ctxVars, statVars>>
       \/ part = "pass" /\ PassNext /\ UNCHANGED <<opVars, ctxVars, statVars>>
       \/ part = "ctx"  /\ CtxNext  /\ UNCHANGED <<opVars, passVars, statVars>>
       \/ part = "stat" /\ StatNext /\ UNCHANGED <<opVars, passVars, ctxVars>>

MCSpec == MCInit /\ [][MCNext]_<<part, opVars, passVars, ctxVars, statVars>>

(* What threads share is neither lost nor mixed up: contexts of sessions    *)
(* (RuntimeInferenceContext, GELocalContext) and the counts of passes       *)
(* (FusionStatisticRecorder).                                               *)
SharedStateIsExact == SessionsServeThemselves /\ CountedOnce
=============================================================================
