----------------------------- MODULE FusionStatistic -----------------------------
(* FusionStatisticRecorder: how often each fusion pass matched and took effect*)
(* on each graph of each session, counted by the threads that run the passes, *)
(* read and cleared by the one that reports.  Every public call holds mutex_  *)
(* from its first line, so each is one action; GetFusionInfo and              *)
(* ClearFusionInfo run inside GetAndClearFusionInfo.  Counters are int32_t.   *)
EXTENDS Integers

CONSTANTS GraphKeys,    \* session and graph id, joined by "_"
          Passes,
          Times,        \* what a pass may report at once, zero included
          Wrap,         \* 2^32 in the code: the counters are modulo Wrap
          MaxUpdates    \* bound: updates in a behaviour

ASSUME StatAssumption == Wrap \in Nat \ {0} /\ Times \subseteq Nat /\ MaxUpdates \in Nat

VARIABLES recorded,  \* graph_fusion_info_map_ and buffer_fusion_info_map_
          updates,
          told,      \* history: all that passes reported, never cleared
          handed     \* history: all that reports were handed

statVars == <<recorded, updates, told, handed>>

Maps == {"graph", "buffer"}
Counters == {"match", "effect"}
NoTimes == [c \in Counters |-> 0]
Absent == <<>>         \* a session and graph without an entry
Plus(a, b) == [c \in Counters |-> (a[c] + b[c]) % Wrap]

ZeroCounts == [m \in Maps |-> [g \in GraphKeys |-> [p \in Passes |-> NoTimes]]]

StatInit == /\ recorded = [m \in Maps |-> [g \in GraphKeys |-> Absent]]
            /\ updates = 0
            /\ told = ZeroCounts
            /\ handed = ZeroCounts

(* operator[] makes entries of zeros.                                         *)
EntryOf(m, g) == IF recorded[m][g] = Absent THEN [p \in Passes |-> NoTimes] ELSE recorded[m][g]

(* UpdateGraphFusionMatchTimes, ...EffectTimes, UpdateBufferFusion...: nothing*)
(* for a count of zero.                                                       *)
UpdateTimes(m, g, p, c, n) ==
    /\ updates < MaxUpdates
    /\ updates' = updates + 1
    /\ recorded' = IF n = 0 THEN recorded
                   ELSE [recorded EXCEPT ![m][g] = [EntryOf(m, g) EXCEPT ![p][c] = (@ + n) % Wrap]]
    /\ told' = [told EXCEPT ![m][g][p][c] = (@ + n) % Wrap]
    /\ UNCHANGED handed

(* GetFusionInfo copies an entry that is there, and leaves the caller's map   *)
(* as it was otherwise.                                                       *)
GetFusionInfo(m, g) == recorded[m][g]

ClearFusionInfoGraphOnly(g) == [recorded EXCEPT !["graph"][g] = Absent]
ClearFusionInfo(g) == [m \in Maps |-> [recorded[m] EXCEPT ![g] = Absent]]

GetAndClearFusionInfo(g) ==
    /\ handed' = [m \in Maps |->
                    IF GetFusionInfo(m, g) = Absent THEN handed[m]
                    ELSE [handed[m] EXCEPT ![g] = [p \in Passes |-> Plus(@[p], GetFusionInfo(m, g)[p])]]]
    /\ recorded' = ClearFusionInfo(g)
    /\ UNCHANGED <<updates, told>>

StatNext ==
    \/ \E m \in Maps, g \in GraphKeys, p \in Passes : \E c \in Counters, n \in Times : UpdateTimes(m, g, p, c, n)
    \/ \E g \in GraphKeys : GetAndClearFusionInfo(g)
-----------------------------------------------------------------------------
(* The recorder: across any interleaving of updates and reports, each match   *)
(* and effect is in the recorder or has been handed to exactly one report, for*)
(* the graph it happened on (fusion_statistic_recorder.cc 31-107).            *)
CountedOnce ==
    \A m \in Maps, g \in GraphKeys, p \in Passes :
        Plus(EntryOf(m, g)[p], handed[m][g][p]) = told[m][g][p]
=============================================================================
