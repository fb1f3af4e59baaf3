----------------------------- MODULE RuntimeContext -----------------------------
(* The contexts that pass tensors computed at run time to shape inference     *)
(* (graph/runtime_inference_context.cc), found by the session id that each    *)
(* thread reads from its options (graph/option/ge_local_context.cc,           *)
(* ge_context.cc).  A context is created and destroyed by the execution of a  *)
(* session; its threads fetch a raw pointer under the lock ctx_mu_ and use it *)
(* after the unlock, under the context's own lock.                            *)
(*                                                                            *)
(* External: the executions and the pool of threads.  An execution that could *)
(* create its context gives jobs to threads, waits for them and destroys the  *)
(* context; one that could not gives up.  A thread may serve one session      *)
(* after another, and its options are set for each job.                       *)
EXTENDS Integers, Sequences, FiniteSets

CONSTANTS Execs,      \* executions
          SessionOf,  \* session id of each, in the range of stoi
          Threads,
          Addrs,      \* addresses of contexts, used again after they are freed
          Nodes, Outputs,  \* node ids and output indexes 0, 1, ...
          Values,     \* tensors
          GlobalIds,  \* session ids that the global options may name
          MaxSets     \* bound: tensors set in a behaviour

Sessions == {SessionOf[e] : e \in Execs}
NoCtx == "nullptr"
NoSession == -1        \* a map of options without the key
ASSUME ContextAssumption ==
    /\ SessionOf \in [Execs -> Int \ {NoSession}]
    /\ NoCtx \notin Addrs \cup Execs
    /\ Outputs \subseteq Nat /\ GlobalIds \subseteq Int
    /\ MaxSets \in Nat

Default == "default"   \* Tensor(), and what a resize fills in
NullTensor == "null"   \* a GeTensorPtr without a tensor
Levels == <<"graph", "session", "global">>

VARIABLES contexts,  \* contexts_: session -> address
          heap,      \* the contexts, freed ones included
          exec,      \* what each execution is doing
          job,       \* the execution each thread works for
          options,   \* GEThreadLocalContext: the value of ge.exec.sessionId in
                     \* each of the three maps of a thread, or NoSession
          session,   \* GEContext::session_id_ of each thread, zero at first
          held,      \* runtime_infer_ctx in each thread
          sets,
          latest     \* history: the tensor last set, by session, node, output

ctxVars == <<contexts, heap, exec, job, options, session, held, sets, latest>>

NoTensors == [n \in Nodes |-> <<>>]
NothingSet == [n \in Nodes |-> [o \in Outputs |-> NullTensor]]
Freed == [live |-> FALSE, tensors |-> NoTensors, ge |-> NoTensors]
NewContext == [live |-> TRUE, tensors |-> NoTensors, ge |-> NoTensors]

CtxInit == /\ contexts = [s \in Sessions |-> NoCtx]
           /\ heap = [a \in Addrs |-> Freed]
           /\ exec = [e \in Execs |-> "new"]
           /\ job = [t \in Threads |-> NoCtx]
           /\ options = [t \in Threads |-> [l \in {"graph", "session", "global"} |-> NoSession]]
           /\ session = [t \in Threads |-> 0]
           /\ held = [t \in Threads |-> NoCtx]
           /\ sets = 0
           /\ latest = [s \in Sessions |-> NothingSet]
-----------------------------------------------------------------------------
(* CreateContext: a new object, entered unless the session has one; the new   *)
(* one is freed again if it is not entered.                                   *)
CreateContextOverwriting(e) ==
    /\ exec[e] = "new"
    /\ exec' = [exec EXCEPT ![e] = "running"]
    /\ \E a \in Addrs :
         /\ ~heap[a].live
         /\ contexts' = [contexts EXCEPT ![SessionOf[e]] = a]
         /\ heap' = [b \in Addrs |-> IF b = a THEN NewContext
                                     ELSE IF b = contexts[SessionOf[e]] THEN Freed ELSE heap[b]]
         /\ latest' = [latest EXCEPT ![SessionOf[e]] = NothingSet]
    /\ UNCHANGED <<job, options, session, held, sets>>
CreateContext(e) ==
    /\ exec[e] = "new"
    /\ \E a \in Addrs :
         /\ ~heap[a].live
         /\ IF contexts[SessionOf[e]] # NoCtx
            THEN /\ exec' = [exec EXCEPT ![e] = "refused"]
                 /\ UNCHANGED <<contexts, heap, latest>>
            ELSE /\ exec' = [exec EXCEPT ![e] = "running"]
                 /\ contexts' = [contexts EXCEPT ![SessionOf[e]] = a]
                 /\ heap' = [heap EXCEPT ![a] = NewContext]
                 /\ latest' = [latest EXCEPT ![SessionOf[e]] = NothingSet]
    /\ UNCHANGED <<job, options, session, held, sets>>

(* DestroyContext: erasing the entry frees the context.                       *)
DestroyContext(e) ==
    /\ exec[e] = "running"
    /\ \A t \in Threads : job[t] # e
    /\ exec' = [exec EXCEPT ![e] = "done"]
    /\ contexts' = [contexts EXCEPT ![SessionOf[e]] = NoCtx]
    /\ heap' = [a \in Addrs |-> IF a = contexts[SessionOf[e]] THEN Freed ELSE heap[a]]
    /\ UNCHANGED <<job, options, session, held, sets, latest>>
-----------------------------------------------------------------------------
(* GEThreadLocalContext::GetOption: graph before session before global.       *)
GetOption(t) ==
    LET set == {i \in 1..3 : options[t][Levels[i]] # NoSession}
    IN  IF set = {} THEN NoSession ELSE options[t][Levels[CHOOSE i \in set : \A j \in set : i <= j]]

(* GetAllOptions: insert does not overwrite, so the same order.               *)
GetAllOptions(t) ==
    IF options[t]["graph"] # NoSession THEN options[t]["graph"]
    ELSE IF options[t]["session"] # NoSession THEN options[t]["session"] ELSE options[t]["global"]

(* A thread takes a job.  SetGlobalOption, SetSessionOption and               *)
(* SetGraphOption replace the whole map; the session id of the execution is   *)
(* in the map of the session, and other ids may be left in the global one.    *)
TakeJob(t, e) ==
    /\ exec[e] = "running" /\ job[t] = NoCtx
    /\ job' = [job EXCEPT ![t] = e]
    /\ \E g \in GlobalIds :
         options' = [options EXCEPT ![t] = [graph |-> NoSession, session |-> SessionOf[e], global |-> g]]
    /\ UNCHANGED <<contexts, heap, exec, session, held, sets, latest>>

(* GEContext::Init: when stoi throws the old value stays.                     *)
ContextInit(t) ==
    /\ job[t] # NoCtx /\ held[t] = NoCtx
    /\ session' = [session EXCEPT ![t] = IF GetOption(t) = NoSession THEN @ ELSE GetOption(t)]
    /\ UNCHANGED <<contexts, heap, exec, job, options, held, sets, latest>>

(* GetContext, with the session id of the thread.                             *)
GetContext(t) ==
    /\ job[t] # NoCtx /\ session[t] = GetOption(t)
    /\ held' = [held EXCEPT ![t] = contexts[session[t]]]
    /\ UNCHANGED <<contexts, heap, exec, job, options, session, sets, latest>>

JobDone(t) ==
    /\ job[t] # NoCtx
    /\ job' = [job EXCEPT ![t] = NoCtx]
    /\ held' = [held EXCEPT ![t] = NoCtx]
    /\ UNCHANGED <<contexts, heap, exec, options, session, sets, latest>>
-----------------------------------------------------------------------------
(* resize(output_id + 1) when the vector is too short.                        *)
Resized(s, o, fill) == IF o < Len(s) THEN s
                       ELSE [i \in 1..(o + 1) |-> IF i <= Len(s) THEN s[i] ELSE fill]

(* Tensor declares its destructor and so has no move: std::move copies, and   *)
(* the GeTensor that is made of the moved tensor afterwards shares its data.  *)
AfterMoveEmptied(v) == NullTensor
AfterMove(v) == v

(* SetTensor: both maps, under the lock of the context.                       *)
SetTensor(t, n, o, v) ==
    /\ held[t] # NoCtx /\ sets < MaxSets
    /\ LET c == heap[held[t]]
       IN  heap' = [heap EXCEPT ![held[t]] =
             [live |-> c.live,
              tensors |-> [c.tensors EXCEPT ![n] = [Resized(@, o, Default) EXCEPT ![o + 1] = v]],
              ge |-> [c.ge EXCEPT ![n] = [Resized(@, o, NullTensor) EXCEPT ![o + 1] = AfterMove(v)]]]]
    /\ sets' = sets + 1
    /\ latest' = [latest EXCEPT ![SessionOf[job[t]]][n][o] = v]
    /\ UNCHANGED <<contexts, exec, job, options, session, held>>

(* GetTensor: as a Tensor (operator.cc 281) or as a GeTensorPtr (node_utils.cc*)
(* 630).  It fails for a node or an output that was never reached; an output  *)
(* a resize has passed over is there.                                         *)
GetTensor(a, form, n, o) ==
    LET vec == IF form = "tensor" THEN heap[a].tensors[n] ELSE heap[a].ge[n]
    IN  IF o >= Len(vec) THEN "failed" ELSE vec[o + 1]

CtxNext ==
    \/ \E e \in Execs : CreateContext(e) \/ DestroyContext(e)
    \/ \E t \in Threads, e \in Execs : TakeJob(t, e)
    \/ \E t \in Threads : ContextInit(t) \/ GetContext(t) \/ JobDone(t)
    \/ \E t \in Threads, n \in Nodes, o \in Outputs : \E v \in Values : SetTensor(t, n, o, v)
-----------------------------------------------------------------------------
(* GetContext, DestroyContext and GEContext::Init: while every execution      *)
(* destroys only after its threads are done, the pointer a thread uses after  *)
(* the unlock is the live context of its own session, never a freed one, one  *)
(* created again at the same address for someone else, or one of the session  *)
(* the thread served before (runtime_inference_context.cc 56).                *)
ContextOutlivesUse ==
    \A t \in Threads : held[t] # NoCtx =>
        /\ heap[held[t]].live
        /\ held[t] = contexts[SessionOf[job[t]]]

(* SetTensor and the two GetTensor: every thread of a session reads the       *)
(* tensor last set, in both forms, though the GeTensor is made of a tensor    *)
(* that was moved from (runtime_inference_context.cc 76-87).                  *)
ReadsTheLatest ==
    \A t \in Threads, f \in {"tensor", "ge"}, n \in Nodes, o \in Outputs : held[t] # NoCtx =>
        LET set == latest[SessionOf[job[t]]][n][o]
            read == GetTensor(held[t], f, n, o)
        IN  IF set = NullTensor THEN read \in {"failed", Default, NullTensor} ELSE read = set

(* GetOption and GetAllOptions resolve a key that several maps hold the same  *)
(* way (ge_local_context.cc 28-44 and 73-79).                                 *)
OptionsAgree == \A t \in Threads : GetAllOptions(t) = GetOption(t)

(* A thread works with what its own session was given: contexts, tensors    *)
(* and options.                                                             *)
SessionsServeThemselves == ContextOutlivesUse /\ ReadsTheLatest /\ OptionsAgree
=============================================================================
