--------------------------- MODULE Registries_proofs ---------------------------
(* Proofs about the registries, about what threads share and about the ports  *)
(* of operators, for any set of plugins, passes, executions, threads, counts  *)
(* and operators.  The registries' four parts have no variable in common:     *)
(* each has its lemmas, and theorems put them together for MCSpec, where a    *)
(* step is a step of one part.  The ports come last: OperatorsSpec keeps what *)
(* PortsSpec promises.                                                        *)
EXTENDS MCRegistries, Operators, FiniteSetTheorems, SequenceTheorems, NaturalsInduction, WellFoundedInduction, TLAPS

-----------------------------------------------------------------------------
(* FusionStatistic: sums modulo the width of a counter.                       *)

(* A number below the width is what the division by the width leaves.         *)
LEMMA ModIsRest ==
  ASSUME NEW W \in Nat \ {0}, NEW x \in Nat, NEW q \in Nat, NEW r \in Nat, x = W*q + r, r < W
  PROVE  x % W = r
  BY Z3

(* Turns of the counter do not show.                                          *)
LEMMA ModOfTurns ==
  ASSUME NEW W \in Nat \ {0}, NEW x \in Nat, NEW q \in Nat
  PROVE  (W*q + x) % W = x % W
  <1>1. x % W \in Nat /\ x % W < W
    BY Z3
  <1>2. x = W * (x \div W) + (x % W) /\ x \div W \in Nat
    BY Z3
  <1>3. W*q + x = W*(q + (x \div W)) + (x % W)
    BY <1>1, <1>2, Z3
  <1>4. q + (x \div W) \in Nat /\ W*q + x \in Nat
    BY <1>2, Z3
  <1> QED
    BY <1>1, <1>3, <1>4, ModIsRest

(* A counter that wraps at every addition shows the sum.                      *)
LEMMA ModOfSum ==
  ASSUME NEW W \in Nat \ {0}, NEW a \in Nat, NEW b \in Nat
  PROVE  ((a % W) + b) % W = (a + b) % W /\ (a + b) % W \in Nat
  <1>1. a = W * (a \div W) + (a % W) /\ a \div W \in Nat
    BY Z3
  <1>2. a % W \in Nat /\ (a % W) + b \in Nat
    BY Z3
  <1>3. a + b = W * (a \div W) + ((a % W) + b)
    BY <1>1, <1>2, Z3
  <1>4. (a + b) % W \in Nat
    BY Z3
  <1>5. (W * (a \div W) + ((a % W) + b)) % W = ((a % W) + b) % W
    <2> DEFINE q == a \div W
               x == (a % W) + b
    <2>1. q \in Nat /\ x \in Nat
      BY <1>1, <1>2
    <2> HIDE DEF q, x
    <2>2. (W * q + x) % W = x % W
      BY <2>1, ModOfTurns
    <2> QED
      BY <2>2 DEF q, x
  <1> QED
    BY <1>3, <1>4, <1>5

(* Two additions to a counter that wraps may change places.                   *)
LEMMA ModAddsCommute ==
  ASSUME NEW W \in Nat \ {0}, NEW e \in Nat, NEW h \in Nat, NEW n \in Nat
  PROVE  (((e + n) % W) + h) % W = (((e + h) % W) + n) % W
  <1>1. e + n \in Nat /\ e + h \in Nat /\ (e + n) + h = (e + h) + n
    OBVIOUS
  <1>2. (((e + n) % W) + h) % W = ((e + n) + h) % W
    BY <1>1, ModOfSum
  <1>3. (((e + h) % W) + n) % W = ((e + h) + n) % W
    BY <1>1, ModOfSum
  <1> QED
    BY <1>1, <1>2, <1>3

CountRange == [Counters -> Nat]

StatTypeOK ==
    /\ recorded \in [Maps -> [GraphKeys -> {Absent} \cup [Passes -> CountRange]]]
    /\ told \in [Maps -> [GraphKeys -> [Passes -> CountRange]]]
    /\ handed \in [Maps -> [GraphKeys -> [Passes -> CountRange]]]

(* What is told is below the width: an equality of sums then is one of       *)
(* counters.                                                                 *)
ToldWraps == \A m \in Maps, g \in GraphKeys, p \in Passes, c \in Counters : told[m][g][p][c] \in 0..(Wrap - 1)

StatInv == StatTypeOK /\ ToldWraps /\ CountedOnce

(* A counter of CountedOnce.                                                 *)
LEMMA CountedOnceAt ==
  StatTypeOK => (CountedOnce <=>
    \A m \in Maps, g \in GraphKeys, p \in Passes, c \in Counters :
      (EntryOf(m, g)[p][c] + handed[m][g][p][c]) % Wrap = told[m][g][p][c])
  <1> SUFFICES ASSUME StatTypeOK,
                      NEW m \in Maps, NEW g \in GraphKeys, NEW p \in Passes
               PROVE  Plus(EntryOf(m, g)[p], handed[m][g][p]) = told[m][g][p] <=>
                      \A c \in Counters : (EntryOf(m, g)[p][c] + handed[m][g][p][c]) % Wrap = told[m][g][p][c]
    BY Zenon DEF CountedOnce
  <1>1. told[m][g][p] \in CountRange
    BY DEF StatTypeOK
  <1> QED
    BY <1>1 DEF Plus, CountRange

(* UpdateTimes: one counter of one pass is raised, in the recorder as in what *)
(* was told.                                                                 *)
LEMMA UpdateKeepsStat ==
  ASSUME StatInv, NEW m \in Maps, NEW g \in GraphKeys, NEW p \in Passes, NEW c \in Counters, NEW n \in Times,
         UpdateTimes(m, g, p, c, n)
  PROVE  StatInv'
  <1> USE StatAssumption
  <1>1. n \in Nat
    OBVIOUS
  <1> DEFINE old == EntryOf(m, g)
  <1>2. old \in [Passes -> CountRange]
    BY DEF StatInv, StatTypeOK, EntryOf, NoTimes, CountRange
  <1>3. /\ told[m][g][p][c] \in Nat /\ old[p][c] \in Nat /\ handed[m][g][p][c] \in Nat
        /\ (told[m][g][p][c] + n) % Wrap \in 0..(Wrap - 1)
        /\ (old[p][c] + n) % Wrap \in Nat
    BY <1>1, <1>2 DEF StatInv, StatTypeOK, CountRange
  <1>4. StatTypeOK'
    BY <1>1, <1>2, <1>3 DEF UpdateTimes, StatInv, StatTypeOK, CountRange
  <1>5. ASSUME NEW m2 \in Maps, NEW g2 \in GraphKeys, NEW p2 \in Passes, NEW c2 \in Counters
        PROVE  told'[m2][g2][p2][c2] = IF m2 = m /\ g2 = g /\ p2 = p /\ c2 = c
                                       THEN (told[m][g][p][c] + n) % Wrap ELSE told[m2][g2][p2][c2]
    BY DEF UpdateTimes, StatInv, StatTypeOK, CountRange
  <1>6. ToldWraps'
    BY <1>3, <1>5 DEF StatInv, ToldWraps
  <1>7. ASSUME NEW m2 \in Maps, NEW g2 \in GraphKeys, NEW p2 \in Passes, NEW c2 \in Counters
        PROVE  EntryOf(m2, g2)'[p2][c2] = IF n # 0 /\ m2 = m /\ g2 = g /\ p2 = p /\ c2 = c
                                          THEN (old[p][c] + n) % Wrap ELSE EntryOf(m2, g2)[p2][c2]
    <2>1. CASE n = 0
      BY <2>1 DEF UpdateTimes, EntryOf
    <2>2. CASE n # 0
      <3>1. recorded' = [recorded EXCEPT ![m][g] = [old EXCEPT ![p][c] = (@ + n) % Wrap]]
        BY <2>2 DEF UpdateTimes
      <3>2. [old EXCEPT ![p][c] = (@ + n) % Wrap] # Absent
        BY <1>2 DEF Absent
      <3> HIDE DEF old
      <3>3. CASE m2 = m /\ g2 = g
        <4>1. EntryOf(m2, g2)' = [old EXCEPT ![p][c] = (@ + n) % Wrap]
          BY <3>1, <3>2, <3>3 DEF EntryOf, StatInv, StatTypeOK
        <4>2. EntryOf(m2, g2) = old
          BY <3>3 DEF old
        <4> QED
          BY <1>2, <2>2, <3>3, <4>1, <4>2 DEF CountRange
      <3>4. CASE ~(m2 = m /\ g2 = g)
        <4>1. recorded'[m2][g2] = recorded[m2][g2]
          BY <3>1, <3>4 DEF StatInv, StatTypeOK
        <4> QED
          BY <3>4, <4>1 DEF EntryOf
      <3> QED
        BY <3>3, <3>4
    <2> QED
      BY <2>1, <2>2
  <1>8. ASSUME NEW m2 \in Maps, NEW g2 \in GraphKeys, NEW p2 \in Passes, NEW c2 \in Counters
        PROVE  (EntryOf(m2, g2)'[p2][c2] + handed'[m2][g2][p2][c2]) % Wrap = told'[m2][g2][p2][c2]
    <2> DEFINE e == EntryOf(m2, g2)[p2][c2]
               h == handed[m2][g2][p2][c2]
    <2>1. handed' = handed
      BY DEF UpdateTimes
    <2>2. e \in Nat /\ h \in Nat
      BY DEF StatInv, StatTypeOK, EntryOf, NoTimes, CountRange
    <2>3. (e + h) % Wrap = told[m2][g2][p2][c2] /\ told[m2][g2][p2][c2] \in 0..(Wrap - 1)
      BY CountedOnceAt DEF StatInv, ToldWraps
    <2>4. CASE m2 = m /\ g2 = g /\ p2 = p /\ c2 = c
      <3>1. (((e + n) % Wrap) + h) % Wrap = (((e + h) % Wrap) + n) % Wrap
        <4> HIDE DEF e, h
        <4> QED
          BY <1>1, <2>2, ModAddsCommute
      <3>2. told'[m2][g2][p2][c2] = (((e + h) % Wrap) + n) % Wrap
        BY <1>5, <2>3, <2>4
      <3>3. CASE n = 0
        BY <1>5, <1>7, <2>1, <2>3, <2>4, <3>2, <3>3
      <3>4. CASE n # 0
        <4>1. EntryOf(m2, g2)'[p2][c2] = (e + n) % Wrap
          BY <1>7, <2>4, <3>4
        <4> QED
          BY <2>1, <3>1, <3>2, <4>1
      <3> QED
        BY <3>3, <3>4
    <2>5. CASE ~(m2 = m /\ g2 = g /\ p2 = p /\ c2 = c)
      BY <1>5, <1>7, <2>1, <2>3, <2>5
    <2> QED
      BY <2>4, <2>5
  <1>9. CountedOnce'
    BY <1>4, <1>8 DEF CountedOnce, Plus, StatTypeOK, CountRange
  <1> QED
    BY <1>4, <1>6, <1>9 DEF StatInv

(* A report hands on what it clears: the sum of both stays.                   *)
LEMMA ReportKeepsStat ==
  ASSUME StatInv, NEW g \in GraphKeys, GetAndClearFusionInfo(g)
  PROVE  StatInv'
  <1> USE StatAssumption
  <1>1. /\ recorded' \in [Maps -> [GraphKeys -> {Absent} \cup [Passes -> CountRange]]]
        /\ UNCHANGED told
        /\ \A m \in Maps, g2 \in GraphKeys : recorded'[m][g2] = IF g2 = g THEN Absent ELSE recorded[m][g2]
    BY DEF GetAndClearFusionInfo, ClearFusionInfo, StatInv, StatTypeOK
  <1>2. ASSUME NEW m \in Maps
        PROVE  handed'[m] = IF recorded[m][g] = Absent THEN handed[m]
                            ELSE [handed[m] EXCEPT ![g] = [p \in Passes |-> Plus(@[p], recorded[m][g][p])]]
    BY DEF GetAndClearFusionInfo, GetFusionInfo
  <1>3. ASSUME NEW m \in Maps, recorded[m][g] # Absent, NEW p \in Passes
        PROVE  Plus(handed[m][g][p], recorded[m][g][p]) \in CountRange
    <2>1. recorded[m][g][p] \in CountRange /\ handed[m][g][p] \in CountRange
      BY <1>3 DEF StatInv, StatTypeOK
    <2> QED
      BY <2>1, ModOfSum DEF Plus, CountRange
  <1>4. handed' \in [Maps -> [GraphKeys -> [Passes -> CountRange]]]
    <2>1. ASSUME NEW m \in Maps PROVE handed'[m] \in [GraphKeys -> [Passes -> CountRange]]
      <3>1. CASE recorded[m][g] = Absent
        BY <1>2, <3>1 DEF StatInv, StatTypeOK
      <3>2. CASE recorded[m][g] # Absent
        <4> DEFINE sum == [p \in Passes |-> Plus(handed[m][g][p], recorded[m][g][p])]
        <4>1. sum \in [Passes -> CountRange]
          BY <1>3, <3>2
        <4>2. handed'[m] = [handed[m] EXCEPT ![g] = sum]
          BY <1>2, <3>2
        <4> HIDE DEF sum
        <4> QED
          BY <4>1, <4>2 DEF StatInv, StatTypeOK
      <3> QED
        BY <3>1, <3>2
    <2>2. handed' = [m \in Maps |-> handed'[m]]
      BY DEF GetAndClearFusionInfo
    <2> QED
      BY <2>1, <2>2
  <1>5. StatTypeOK'
    BY <1>1, <1>4 DEF StatInv, StatTypeOK
  <1>6. ToldWraps'
    BY <1>1 DEF StatInv, ToldWraps
  <1>7. ASSUME NEW m \in Maps, NEW g2 \in GraphKeys, NEW p \in Passes, NEW c \in Counters
        PROVE  (EntryOf(m, g2)'[p][c] + handed'[m][g2][p][c]) % Wrap = told'[m][g2][p][c]
    <2> DEFINE h == handed[m][g2][p][c]
    <2>1. h \in Nat /\ told[m][g2][p][c] \in 0..(Wrap - 1)
      BY DEF StatInv, StatTypeOK, ToldWraps, CountRange
    <2>2. (EntryOf(m, g2)[p][c] + h) % Wrap = told[m][g2][p][c]
      BY CountedOnceAt DEF StatInv
    <2>3. CASE g2 # g
      <3>1. EntryOf(m, g2)' = EntryOf(m, g2) /\ told' = told
        BY <1>1, <2>3 DEF EntryOf
      <3>2. handed[m] \in [GraphKeys -> [Passes -> CountRange]]
        BY DEF StatInv, StatTypeOK
      <3>3. handed'[m][g2] = handed[m][g2]
        BY <1>2, <2>3, <3>2
      <3> QED
        BY <2>2, <3>1, <3>3
    <2>4. CASE g2 = g
      <3>1. EntryOf(m, g2)' = [q \in Passes |-> NoTimes]
        BY <1>1, <2>4 DEF EntryOf
      <3>2. EntryOf(m, g2)'[p][c] = 0
        BY <3>1 DEF NoTimes
      <3>3. CASE recorded[m][g] = Absent
        <4>1. EntryOf(m, g2)[p][c] = 0
          BY <2>4, <3>3 DEF EntryOf, NoTimes
        <4> QED
          BY <1>1, <1>2, <2>2, <3>2, <3>3, <4>1
      <3>4. CASE recorded[m][g] # Absent
        <4> DEFINE r == recorded[m][g][p][c]
        <4>1. r \in Nat /\ EntryOf(m, g2)[p][c] = r
          BY <2>4, <3>4 DEF EntryOf, StatInv, StatTypeOK, CountRange
        <4>2. handed'[m][g2][p] = Plus(handed[m][g2][p], recorded[m][g][p])
          <5>1. handed'[m] = [handed[m] EXCEPT ![g] = [q \in Passes |-> Plus(@[q], recorded[m][g][q])]]
            BY <1>2, <3>4
          <5>2. handed[m] \in [GraphKeys -> [Passes -> CountRange]]
            BY DEF StatInv, StatTypeOK
          <5>3. handed'[m][g] = [q \in Passes |-> Plus(handed[m][g][q], recorded[m][g][q])]
            BY <5>1, <5>2
          <5> QED
            BY <2>4, <5>3
        <4>3. handed'[m][g2][p][c] = (h + r) % Wrap
          BY <4>2 DEF Plus
        <4>4. (h + r) % Wrap = told[m][g2][p][c]
          BY <2>1, <2>2, <4>1
        <4>5. (0 + told[m][g2][p][c]) % Wrap = told[m][g2][p][c]
          BY <2>1
        <4> QED
          BY <1>1, <3>2, <4>3, <4>4, <4>5
      <3> QED
        BY <3>3, <3>4
    <2> QED
      BY <2>3, <2>4
  <1>8. CountedOnce'
    BY <1>5, <1>7 DEF CountedOnce, Plus, StatTypeOK, CountRange
  <1> QED
    BY <1>5, <1>6, <1>8 DEF StatInv

LEMMA StatInitInv == StatInit => StatInv
  <1> SUFFICES ASSUME StatInit PROVE StatInv
    OBVIOUS
  <1> USE StatAssumption
  <1>1. StatTypeOK /\ ToldWraps
    BY DEF StatInit, StatTypeOK, ToldWraps, ZeroCounts, NoTimes, CountRange
  <1>2. CountedOnce
    BY DEF StatInit, CountedOnce, EntryOf, Plus, ZeroCounts, NoTimes
  <1> QED
    BY <1>1, <1>2 DEF StatInv

LEMMA StatNextInv == StatInv /\ [StatNext]_statVars => StatInv'
  <1> SUFFICES ASSUME StatInv, [StatNext]_statVars PROVE StatInv'
    OBVIOUS
  <1>1. CASE UNCHANGED statVars
    BY <1>1 DEF statVars, StatInv, StatTypeOK, ToldWraps, CountedOnce, EntryOf, Plus
  <1>2. CASE StatNext
    BY <1>2, UpdateKeepsStat, ReportKeepsStat DEF StatNext
  <1> QED
    BY <1>1, <1>2

-----------------------------------------------------------------------------
(* RuntimeContext.                                                           *)
TensorVals == Values \cup {Default, NullTensor}
Contexts == [live : BOOLEAN, tensors : [Nodes -> Seq(TensorVals)], ge : [Nodes -> Seq(TensorVals)]]
LevelNames == {"graph", "session", "global"}

CtxTypeOK ==
    /\ contexts \in [Sessions -> Addrs \cup {NoCtx}]
    /\ heap \in [Addrs -> Contexts]
    /\ exec \in [Execs -> {"new", "running", "refused", "done"}]
    /\ job \in [Threads -> Execs \cup {NoCtx}]
    /\ options \in [Threads -> [LevelNames -> Int]]
    /\ session \in [Threads -> Int]
    /\ held \in [Threads -> Addrs \cup {NoCtx}]
    /\ latest \in [Sessions -> [Nodes -> [Outputs -> Values \cup {NullTensor}]]]

(* An execution that could create its context owns it until it is done.      *)
RunningOwns == \A e \in Execs : exec[e] = "running" => contexts[SessionOf[e]] # NoCtx
OneRuns == \A e, f \in Execs : exec[e] = "running" /\ exec[f] = "running" /\ SessionOf[e] = SessionOf[f] => e = f

(* The map holds live contexts, a different one for each session.            *)
EntriesLive == \A s \in Sessions : contexts[s] # NoCtx => heap[contexts[s]].live
EntriesApart == \A s, r \in Sessions : contexts[s] # NoCtx /\ contexts[s] = contexts[r] => s = r

(* A thread with a job works for a running execution, under its options.     *)
JobRuns == \A t \in Threads : job[t] # NoCtx =>
              /\ exec[job[t]] = "running"
              /\ options[t]["graph"] = NoSession
              /\ options[t]["session"] = SessionOf[job[t]]
HeldIsOwn == \A t \in Threads : held[t] # NoCtx => job[t] # NoCtx /\ held[t] = contexts[SessionOf[job[t]]]

(* What a vector of a context holds for an output whose latest tensor is v.  *)
Holds(vec, o, v) == IF o < Len(vec)
                    THEN IF v = NullTensor THEN vec[o + 1] \in {Default, NullTensor} ELSE vec[o + 1] = v
                    ELSE v = NullTensor
Keeps(c, now) == \A n \in Nodes, o \in Outputs : Holds(c.tensors[n], o, now[n][o]) /\ Holds(c.ge[n], o, now[n][o])
EntriesKeep == \A s \in Sessions : contexts[s] # NoCtx => Keeps(heap[contexts[s]], latest[s])

CtxInv == /\ CtxTypeOK
          /\ RunningOwns /\ OneRuns
          /\ EntriesLive /\ EntriesApart /\ EntriesKeep
          /\ JobRuns /\ HeldIsOwn

(* Setting one output of a vector, resized when it is too short, enters the  *)
(* tensor and keeps what the other outputs hold.                             *)
LEMMA SetHolds ==
  ASSUME NEW vec \in Seq(TensorVals), NEW o \in Nat, NEW fill \in {Default, NullTensor}, NEW x \in TensorVals
  PROVE  LET new == [Resized(vec, o, fill) EXCEPT ![o + 1] = x]
         IN  /\ new \in Seq(TensorVals)
             /\ Holds(new, o, x)
             /\ \A o2 \in Nat : \A v : o2 # o /\ Holds(vec, o2, v) => Holds(new, o2, v)
  <1> DEFINE new == [Resized(vec, o, fill) EXCEPT ![o + 1] = x]
  <1>1. CASE o < Len(vec)
    <2>1. new = [vec EXCEPT ![o + 1] = x] /\ o + 1 \in 1..Len(vec)
      BY <1>1 DEF Resized
    <2> HIDE DEF new
    <2>2. new \in Seq(TensorVals) /\ Len(new) = Len(vec) /\ new[o + 1] = x
      BY <2>1, ExceptSeq
    <2>3. \A i \in 1..Len(vec) : i # o + 1 => new[i] = vec[i]
      BY <2>1, ExceptSeq
    <2>4. Holds(new, o, x)
      BY <1>1, <2>2 DEF Holds
    <2>5. ASSUME NEW o2 \in Nat, NEW v, o2 # o, Holds(vec, o2, v) PROVE Holds(new, o2, v)
      <3>1. CASE o2 < Len(vec)
        <4>1. new[o2 + 1] = vec[o2 + 1]
          BY <2>3, <2>5, <3>1
        <4> QED
          BY <2>2, <2>5, <3>1, <4>1 DEF Holds
      <3>2. CASE ~(o2 < Len(vec))
        BY <2>2, <2>5, <3>2 DEF Holds
      <3> QED
        BY <3>1, <3>2
    <2> QED
      BY <2>2, <2>4, <2>5 DEF new
  <1>2. CASE ~(o < Len(vec))
    <2>1. new = [i \in 1..(o + 1) |-> IF i = o + 1 THEN x ELSE IF i <= Len(vec) THEN vec[i] ELSE fill]
      BY <1>2 DEF Resized
    <2> HIDE DEF new
    <2>2. new \in Seq(TensorVals) /\ Len(new) = o + 1 /\ new[o + 1] = x
      <3>1. new \in [1..(o + 1) -> TensorVals]
        BY <2>1 DEF TensorVals
      <3> QED
        BY <2>1, <3>1
    <2>3. \A i \in 1..o : new[i] = IF i <= Len(vec) THEN vec[i] ELSE fill
      BY <2>1
    <2>4. Holds(new, o, x)
      BY <2>2 DEF Holds
    <2>5. ASSUME NEW o2 \in Nat, NEW v, o2 # o, Holds(vec, o2, v) PROVE Holds(new, o2, v)
      <3>1. CASE o2 < Len(vec)
        <4>1. new[o2 + 1] = vec[o2 + 1] /\ o2 < Len(new)
          BY <1>2, <2>2, <2>3, <3>1
        <4> QED
          BY <2>5, <3>1, <4>1 DEF Holds
      <3>2. CASE ~(o2 < Len(vec))
        <4>1. v = NullTensor
          BY <2>5, <3>2 DEF Holds
        <4>2. o2 < o + 1 => new[o2 + 1] = fill
          BY <2>3, <2>5, <3>2
        <4> QED
          BY <2>2, <4>1, <4>2 DEF Holds
      <3> QED
        BY <3>1, <3>2
    <2> QED
      BY <2>2, <2>4, <2>5 DEF new
  <1> QED
    BY <1>1, <1>2

(* A context in which no tensor was set.                                     *)
LEMMA FreshContext ==
  /\ NewContext \in Contexts /\ NewContext.live
  /\ Freed \in Contexts
  /\ NothingSet \in [Nodes -> [Outputs -> Values \cup {NullTensor}]]
  /\ Keeps(NewContext, NothingSet)
  <1>1. NoTensors \in [Nodes -> Seq(TensorVals)]
    <2>1. << >> \in Seq(TensorVals)
      OBVIOUS
    <2> QED
      BY <2>1 DEF NoTensors
  <1>2. Freed \in Contexts /\ NewContext \in Contexts
    BY <1>1 DEF Freed, NewContext, Contexts
  <1>3. NewContext.live /\ NewContext.tensors = NoTensors /\ NewContext.ge = NoTensors
    BY DEF NewContext
  <1>4. NothingSet \in [Nodes -> [Outputs -> Values \cup {NullTensor}]]
    BY DEF NothingSet
  <1>5. ASSUME NEW n \in Nodes, NEW o \in Outputs PROVE Holds(NoTensors[n], o, NothingSet[n][o])
    <2>1. NoTensors[n] = << >> /\ NothingSet[n][o] = NullTensor /\ o \in Nat
      BY ContextAssumption DEF NoTensors, NothingSet
    <2> QED
      BY <2>1 DEF Holds
  <1> QED
    BY <1>2, <1>3, <1>4, <1>5 DEF Keeps

LEMMA CtxInitInv == CtxInit => CtxInv
  <1> SUFFICES ASSUME CtxInit PROVE CtxInv
    OBVIOUS
  <1>1. CtxTypeOK
    BY FreshContext DEF CtxInit, CtxTypeOK, LevelNames, NoSession
  <1>2. \A e \in Execs : exec[e] = "new"
    BY DEF CtxInit
  <1>3. (\A s \in Sessions : contexts[s] = NoCtx) /\ (\A t \in Threads : job[t] = NoCtx /\ held[t] = NoCtx)
    BY DEF CtxInit
  <1> QED
    BY <1>1, <1>2, <1>3 DEF CtxInv, RunningOwns, OneRuns, EntriesLive, EntriesApart, EntriesKeep, JobRuns, HeldIsOwn

LEMMA SessionOfExec == \A e \in Execs : SessionOf[e] \in Sessions /\ SessionOf[e] \in Int /\ SessionOf[e] # NoSession
  BY ContextAssumption DEF Sessions

(* CreateContext enters a new context only where the session has none.       *)
LEMMA CreateKeepsCtx ==
  ASSUME CtxInv, NEW e \in Execs, CreateContext(e)
  PROVE  CtxInv'
  <1> USE SessionOfExec
  <1>1. PICK a \in Addrs :
          /\ ~heap[a].live
          /\ IF contexts[SessionOf[e]] # NoCtx
             THEN exec' = [exec EXCEPT ![e] = "refused"] /\ UNCHANGED <<contexts, heap, latest>>
             ELSE /\ exec' = [exec EXCEPT ![e] = "running"]
                  /\ contexts' = [contexts EXCEPT ![SessionOf[e]] = a]
                  /\ heap' = [heap EXCEPT ![a] = NewContext]
                  /\ latest' = [latest EXCEPT ![SessionOf[e]] = NothingSet]
    BY DEF CreateContext
  <1>2. exec[e] = "new" /\ UNCHANGED <<job, options, session, held>>
    BY DEF CreateContext
  <1>3. \A t \in Threads : job[t] # e
    BY <1>2, ContextAssumption DEF CtxInv, JobRuns
  <1>4. CASE contexts[SessionOf[e]] # NoCtx
    <2>1. exec' = [exec EXCEPT ![e] = "refused"] /\ UNCHANGED <<contexts, heap, latest>>
      BY <1>1, <1>4
    <2>2. \A f \in Execs : exec'[f] = "running" <=> exec[f] = "running"
      BY <1>2, <2>1 DEF CtxInv, CtxTypeOK
    <2>3. CtxTypeOK'
      BY <1>2, <2>1 DEF CtxInv, CtxTypeOK
    <2>4. JobRuns'
      BY <1>2, <2>2, <2>3 DEF CtxInv, CtxTypeOK, JobRuns
    <2> QED
      BY <1>2, <2>1, <2>2, <2>3, <2>4
      DEF CtxInv, RunningOwns, OneRuns, EntriesLive, EntriesApart, EntriesKeep, HeldIsOwn
  <1>5. CASE contexts[SessionOf[e]] = NoCtx
    <2> DEFINE s == SessionOf[e]
    <2>1. /\ exec' = [exec EXCEPT ![e] = "running"]
          /\ contexts' = [contexts EXCEPT ![s] = a]
          /\ heap' = [heap EXCEPT ![a] = NewContext]
          /\ latest' = [latest EXCEPT ![s] = NothingSet]
      BY <1>1, <1>5
    <2>2. CtxTypeOK'
      BY <1>2, <2>1, FreshContext DEF CtxInv, CtxTypeOK
    <2>3. s \in Sessions /\ contexts'[s] = a /\ a # NoCtx
      BY <2>1, ContextAssumption DEF CtxInv, CtxTypeOK
    <2>4. \A r \in Sessions : r # s => contexts'[r] = contexts[r] /\ latest'[r] = latest[r]
      BY <2>1 DEF CtxInv, CtxTypeOK
    <2>5. \A r \in Sessions : contexts[r] # a
      BY <1>1, <2>3 DEF CtxInv, EntriesLive
    <2>6. \A b \in Addrs : b # a => heap'[b] = heap[b]
      BY <2>1 DEF CtxInv, CtxTypeOK
    <2>7. heap'[a] = NewContext /\ latest'[s] = NothingSet
      BY <2>1, <2>3 DEF CtxInv, CtxTypeOK
    <2>8. \A f \in Execs : exec[f] = "running" => SessionOf[f] # s
      BY <1>5 DEF CtxInv, RunningOwns
    <2>9. \A f \in Execs : exec'[f] = "running" <=> exec[f] = "running" \/ f = e
      BY <2>1 DEF CtxInv, CtxTypeOK
    <2>10. RunningOwns' /\ OneRuns'
      BY <2>3, <2>4, <2>8, <2>9 DEF CtxInv, RunningOwns, OneRuns
    <2>11. EntriesLive' /\ EntriesApart'
      <3>1. ASSUME NEW r \in Sessions, r # s, contexts'[r] # NoCtx
            PROVE  contexts'[r] = contexts[r] /\ heap'[contexts'[r]] = heap[contexts[r]]
        BY <2>4, <2>5, <2>6, <3>1 DEF CtxInv, CtxTypeOK
      <3>2. EntriesLive'
        BY <2>3, <2>7, <3>1, FreshContext DEF CtxInv, EntriesLive
      <3>3. EntriesApart'
        BY <2>3, <2>5, <3>1 DEF CtxInv, EntriesApart
      <3> QED
        BY <3>2, <3>3
    <2>12. EntriesKeep'
      BY <2>3, <2>4, <2>5, <2>6, <2>7, FreshContext DEF CtxInv, CtxTypeOK, EntriesKeep
    <2>13. JobRuns'
      BY <1>2, <2>2, <2>9 DEF CtxInv, CtxTypeOK, JobRuns
    <2>14. HeldIsOwn'
      <3> SUFFICES ASSUME NEW t \in Threads, held[t] # NoCtx
                   PROVE  job[t] # NoCtx /\ held[t] = contexts'[SessionOf[job[t]]]
        BY <1>2 DEF HeldIsOwn
      <3>1. job[t] \in Execs /\ exec[job[t]] = "running" /\ held[t] = contexts[SessionOf[job[t]]] /\ job[t] # NoCtx
        BY DEF CtxInv, CtxTypeOK, HeldIsOwn, JobRuns
      <3> QED
        BY <2>4, <2>8, <3>1
    <2> QED
      BY <2>2, <2>10, <2>11, <2>12, <2>13, <2>14 DEF CtxInv
  <1> QED
    BY <1>4, <1>5

(* DestroyContext frees the context of its own session only.                 *)
LEMMA DestroyKeepsCtx ==
  ASSUME CtxInv, NEW e \in Execs, DestroyContext(e)
  PROVE  CtxInv'
  <1> USE SessionOfExec
  <1> DEFINE s == SessionOf[e]
             a == contexts[s]
  <1>1. /\ exec[e] = "running" /\ \A t \in Threads : job[t] # e
        /\ exec' = [exec EXCEPT ![e] = "done"]
        /\ contexts' = [contexts EXCEPT ![s] = NoCtx]
        /\ heap' = [b \in Addrs |-> IF b = a THEN Freed ELSE heap[b]]
        /\ UNCHANGED <<job, options, session, held, latest>>
    BY DEF DestroyContext
  <1>2. CtxTypeOK'
    BY <1>1, FreshContext DEF CtxInv, CtxTypeOK
  <1>3. \A f \in Execs : exec'[f] = "running" <=> exec[f] = "running" /\ f # e
    BY <1>1 DEF CtxInv, CtxTypeOK
  <1>4. \A f \in Execs : exec'[f] = "running" => SessionOf[f] # s
    BY <1>1, <1>3 DEF CtxInv, OneRuns
  <1>5. contexts'[s] = NoCtx /\ \A r \in Sessions : r # s => contexts'[r] = contexts[r]
    BY <1>1 DEF CtxInv, CtxTypeOK
  <1>6. \A r \in Sessions : contexts'[r] # NoCtx => contexts'[r] # a /\ contexts'[r] = contexts[r] /\ r # s
    BY <1>5 DEF CtxInv, EntriesApart
  <1>7. \A b \in Addrs : b # a => heap'[b] = heap[b]
    BY <1>1
  <1>8. RunningOwns' /\ OneRuns'
    BY <1>3, <1>4, <1>5 DEF CtxInv, RunningOwns, OneRuns
  <1>9. EntriesLive' /\ EntriesApart' /\ EntriesKeep'
    BY <1>1, <1>6, <1>7 DEF CtxInv, CtxTypeOK, EntriesLive, EntriesApart, EntriesKeep
  <1>10. JobRuns'
    BY <1>1, <1>2, <1>3 DEF CtxInv, CtxTypeOK, JobRuns
  <1>11. HeldIsOwn'
    <2> SUFFICES ASSUME NEW t \in Threads, held[t] # NoCtx
                 PROVE  job[t] # NoCtx /\ held[t] = contexts'[SessionOf[job[t]]]
      BY <1>1 DEF HeldIsOwn
    <2>1. job[t] \in Execs /\ exec[job[t]] = "running" /\ held[t] = contexts[SessionOf[job[t]]] /\ job[t] # NoCtx
      BY DEF CtxInv, CtxTypeOK, HeldIsOwn, JobRuns
    <2>2. SessionOf[job[t]] # s
      BY <1>1, <1>3, <1>4, <2>1
    <2> QED
      BY <1>5, <2>1, <2>2
  <1> QED
    BY <1>2, <1>8, <1>9, <1>10, <1>11 DEF CtxInv

(* A job comes with the options of its session.                              *)
LEMMA TakeJobKeepsCtx ==
  ASSUME CtxInv, NEW t \in Threads, NEW e \in Execs, TakeJob(t, e)
  PROVE  CtxInv'
  <1> USE SessionOfExec
  <1>1. PICK g \in GlobalIds :
          options' = [options EXCEPT ![t] = [graph |-> NoSession, session |-> SessionOf[e], global |-> g]]
    BY DEF TakeJob
  <1>2. /\ exec[e] = "running" /\ job[t] = NoCtx /\ job' = [job EXCEPT ![t] = e]
        /\ UNCHANGED <<contexts, heap, exec, session, held, latest>>
    BY DEF TakeJob
  <1>3. [graph |-> NoSession, session |-> SessionOf[e], global |-> g] \in [LevelNames -> Int]
    BY ContextAssumption DEF LevelNames, NoSession
  <1>4. CtxTypeOK'
    BY <1>1, <1>2, <1>3 DEF CtxInv, CtxTypeOK
  <1>5. \A u \in Threads : u # t => job'[u] = job[u] /\ options'[u] = options[u]
    BY <1>1, <1>2 DEF CtxInv, CtxTypeOK
  <1>6. job'[t] = e /\ options'[t]["graph"] = NoSession /\ options'[t]["session"] = SessionOf[e]
    BY <1>1, <1>2 DEF CtxInv, CtxTypeOK
  <1>7. JobRuns'
    BY <1>2, <1>5, <1>6 DEF CtxInv, JobRuns
  <1>8. HeldIsOwn'
    BY <1>2, <1>5 DEF CtxInv, HeldIsOwn
  <1> QED
    BY <1>2, <1>4, <1>7, <1>8
    DEF CtxInv, RunningOwns, OneRuns, EntriesLive, EntriesApart, EntriesKeep

(* With a session option and none of the graph, the session option counts.   *)
LEMMA OptionOfSession ==
  ASSUME NEW t, options[t]["graph"] = NoSession, options[t]["session"] # NoSession
  PROVE  GetOption(t) = options[t]["session"]
  <1> DEFINE set == {i \in 1..3 : options[t][Levels[i]] # NoSession}
  <1>1. Levels[1] = "graph" /\ Levels[2] = "session" /\ Levels[3] = "global"
    BY DEF Levels
  <1>2. 1 \notin set /\ 2 \in set /\ set \subseteq 2..3
    BY <1>1
  <1>3. (CHOOSE i \in set : \A j \in set : i <= j) = 2
    BY <1>2
  <1> QED
    BY <1>1, <1>2, <1>3 DEF GetOption

(* The options resolve alike, however many maps hold the key.                *)
LEMMA OptionsResolveAlike == OptionsAgree
  <1> SUFFICES ASSUME NEW t \in Threads PROVE GetAllOptions(t) = GetOption(t)
    BY DEF OptionsAgree
  <1> DEFINE set == {i \in 1..3 : options[t][Levels[i]] # NoSession}
  <1>1. Levels[1] = "graph" /\ Levels[2] = "session" /\ Levels[3] = "global"
    BY DEF Levels
  <1>2. set \subseteq 1..3
    OBVIOUS
  <1>3. CASE options[t]["graph"] # NoSession
    <2>1. 1 \in set
      BY <1>1, <1>3
    <2>2. (CHOOSE i \in set : \A j \in set : i <= j) = 1
      BY <1>2, <2>1
    <2> QED
      BY <1>1, <1>3, <2>1, <2>2 DEF GetOption, GetAllOptions
  <1>4. CASE options[t]["graph"] = NoSession /\ options[t]["session"] # NoSession
    BY <1>4, OptionOfSession DEF GetAllOptions
  <1>5. CASE options[t]["graph"] = NoSession /\ options[t]["session"] = NoSession
    <2>1. 1 \notin set /\ 2 \notin set /\ (3 \in set <=> options[t]["global"] # NoSession)
      BY <1>1, <1>5
    <2>2. CASE options[t]["global"] # NoSession
      <3>1. 3 \in set /\ (CHOOSE i \in set : \A j \in set : i <= j) = 3
        BY <1>2, <2>1, <2>2
      <3> QED
        BY <1>1, <1>5, <3>1 DEF GetOption, GetAllOptions
    <2>3. CASE options[t]["global"] = NoSession
      <3>1. set = {}
        BY <1>2, <2>1, <2>3
      <3> QED
        BY <1>5, <2>3, <3>1 DEF GetOption, GetAllOptions
    <2> QED
      BY <2>2, <2>3
  <1> QED
    BY <1>3, <1>4, <1>5

(* GEContext::Init changes the session id of the thread and nothing else.    *)
LEMMA ContextInitKeepsCtx ==
  ASSUME CtxInv, NEW t \in Threads, ContextInit(t)
  PROVE  CtxInv'
  <1>1. job[t] # NoCtx /\ UNCHANGED <<contexts, heap, exec, job, options, held, latest>>
        /\ session' = [session EXCEPT ![t] = IF GetOption(t) = NoSession THEN @ ELSE GetOption(t)]
    BY DEF ContextInit
  <1>2. GetOption(t) \in Int
    <2>1. options[t]["graph"] = NoSession /\ options[t]["session"] = SessionOf[job[t]] /\ job[t] \in Execs
      BY <1>1 DEF CtxInv, CtxTypeOK, JobRuns
    <2> QED
      BY <2>1, SessionOfExec, OptionOfSession
  <1>3. CtxTypeOK'
    BY <1>1, <1>2 DEF CtxInv, CtxTypeOK
  <1> QED
    BY <1>1, <1>3
    DEF CtxInv, RunningOwns, OneRuns, EntriesLive, EntriesApart, EntriesKeep, JobRuns, HeldIsOwn

(* GetContext answers with the entry of the thread's own session.            *)
LEMMA GetContextKeepsCtx ==
  ASSUME CtxInv, NEW t \in Threads, GetContext(t)
  PROVE  CtxInv'
  <1>1. /\ job[t] # NoCtx /\ session[t] = GetOption(t)
        /\ held' = [held EXCEPT ![t] = contexts[session[t]]]
        /\ UNCHANGED <<contexts, heap, exec, job, options, session, latest>>
    BY DEF GetContext
  <1>2. options[t]["graph"] = NoSession /\ options[t]["session"] = SessionOf[job[t]] /\ job[t] \in Execs
    BY <1>1 DEF CtxInv, CtxTypeOK, JobRuns
  <1>3. session[t] = SessionOf[job[t]] /\ session[t] \in Sessions
    BY <1>1, <1>2, SessionOfExec, OptionOfSession
  <1>4. CtxTypeOK'
    BY <1>1, <1>3 DEF CtxInv, CtxTypeOK
  <1>5. HeldIsOwn'
    BY <1>1, <1>3 DEF CtxInv, CtxTypeOK, HeldIsOwn
  <1> QED
    BY <1>1, <1>4, <1>5
    DEF CtxInv, RunningOwns, OneRuns, EntriesLive, EntriesApart, EntriesKeep, JobRuns

LEMMA JobDoneKeepsCtx ==
  ASSUME CtxInv, NEW t \in Threads, JobDone(t)
  PROVE  CtxInv'
  <1>1. /\ job' = [job EXCEPT ![t] = NoCtx] /\ held' = [held EXCEPT ![t] = NoCtx]
        /\ UNCHANGED <<contexts, heap, exec, options, session, latest>>
    BY DEF JobDone
  <1>2. CtxTypeOK'
    BY <1>1 DEF CtxInv, CtxTypeOK
  <1>3. \A u \in Threads : IF u = t THEN job'[u] = NoCtx /\ held'[u] = NoCtx ELSE job'[u] = job[u] /\ held'[u] = held[u]
    BY <1>1 DEF CtxInv, CtxTypeOK
  <1> QED
    BY <1>1, <1>2, <1>3
    DEF CtxInv, RunningOwns, OneRuns, EntriesLive, EntriesApart, EntriesKeep, JobRuns, HeldIsOwn

(* SetTensor enters the tensor in both forms in the context of the session.  *)
LEMMA SetTensorKeepsCtx ==
  ASSUME CtxInv, NEW t \in Threads, NEW n \in Nodes, NEW o \in Outputs, NEW v \in Values, SetTensor(t, n, o, v)
  PROVE  CtxInv'
  <1> USE SessionOfExec
  <1> DEFINE a == held[t]
             s == SessionOf[job[t]]
             ten == [Resized(heap[a].tensors[n], o, Default) EXCEPT ![o + 1] = v]
             get == [Resized(heap[a].ge[n], o, NullTensor) EXCEPT ![o + 1] = v]
             new == [live |-> heap[a].live,
                     tensors |-> [heap[a].tensors EXCEPT ![n] = ten],
                     ge |-> [heap[a].ge EXCEPT ![n] = get]]
  <1>1. /\ held[t] # NoCtx /\ UNCHANGED <<contexts, exec, job, options, session, held>>
        /\ latest' = [latest EXCEPT ![s][n][o] = v]
    BY DEF SetTensor
  <1>2. heap' = [heap EXCEPT ![a] = new]
    BY DEF SetTensor, AfterMove
  <1>3. /\ a \in Addrs /\ heap[a] \in Contexts /\ o \in Nat
        /\ job[t] \in Execs /\ s \in Sessions /\ a = contexts[s]
        /\ v \in TensorVals
    BY <1>1, ContextAssumption DEF CtxInv, CtxTypeOK, HeldIsOwn, TensorVals
  <1>4. heap[a].tensors \in [Nodes -> Seq(TensorVals)] /\ heap[a].ge \in [Nodes -> Seq(TensorVals)]
    BY <1>3 DEF Contexts
  <1>5. /\ ten \in Seq(TensorVals) /\ Holds(ten, o, v)
        /\ \A o2 \in Nat : \A w : o2 # o /\ Holds(heap[a].tensors[n], o2, w) => Holds(ten, o2, w)
    <2>1. heap[a].tensors[n] \in Seq(TensorVals)
      BY <1>4
    <2> QED
      BY <1>3, <2>1, SetHolds, Zenon
  <1>6. /\ get \in Seq(TensorVals) /\ Holds(get, o, v)
        /\ \A o2 \in Nat : \A w : o2 # o /\ Holds(heap[a].ge[n], o2, w) => Holds(get, o2, w)
    <2>1. heap[a].ge[n] \in Seq(TensorVals)
      BY <1>4
    <2> QED
      BY <1>3, <2>1, SetHolds, Zenon
  <1> HIDE DEF a, s, ten, get
  <1>7. new \in Contexts /\ new.live = heap[a].live
    BY <1>3, <1>4, <1>5, <1>6 DEF Contexts
  <1>8. \A m \in Nodes : /\ new.tensors[m] = IF m = n THEN ten ELSE heap[a].tensors[m]
                         /\ new.ge[m] = IF m = n THEN get ELSE heap[a].ge[m]
    BY <1>4
  <1> HIDE DEF new
  <1>9. CtxTypeOK'
    <2>1. latest' \in [Sessions -> [Nodes -> [Outputs -> Values \cup {NullTensor}]]]
      BY <1>1, <1>3 DEF CtxInv, CtxTypeOK
    <2>2. heap' \in [Addrs -> Contexts]
      BY <1>2, <1>3, <1>7 DEF CtxInv, CtxTypeOK
    <2> QED
      BY <1>1, <2>1, <2>2 DEF CtxInv, CtxTypeOK
  <1>10. heap'[a] = new /\ \A b \in Addrs : b # a => heap'[b] = heap[b]
    BY <1>2, <1>3 DEF CtxInv, CtxTypeOK
  <1>11. EntriesLive'
    BY <1>1, <1>7, <1>10 DEF CtxInv, CtxTypeOK, EntriesLive
  <1>12. EntriesKeep'
    <2> SUFFICES ASSUME NEW r \in Sessions, contexts[r] # NoCtx, NEW m \in Nodes, NEW o2 \in Outputs
                 PROVE  /\ Holds(heap'[contexts[r]].tensors[m], o2, latest'[r][m][o2])
                        /\ Holds(heap'[contexts[r]].ge[m], o2, latest'[r][m][o2])
      BY <1>1 DEF EntriesKeep, Keeps
    <2>1. /\ Holds(heap[contexts[r]].tensors[m], o2, latest[r][m][o2])
          /\ Holds(heap[contexts[r]].ge[m], o2, latest[r][m][o2])
      BY DEF CtxInv, EntriesKeep, Keeps
    <2>2. contexts[r] \in Addrs /\ (contexts[r] = a => r = s)
      BY <1>3 DEF CtxInv, CtxTypeOK, EntriesApart
    <2>3. latest'[r][m][o2] = IF r = s /\ m = n /\ o2 = o THEN v ELSE latest[r][m][o2]
      BY <1>1, <1>3 DEF CtxInv, CtxTypeOK
    <2>4. CASE r # s
      <3>1. heap'[contexts[r]] = heap[contexts[r]]
        BY <1>10, <2>2, <2>4
      <3> QED
        BY <2>1, <2>3, <2>4, <3>1
    <2>5. CASE r = s
      <3>1. heap'[contexts[r]] = new /\ heap[contexts[r]] = heap[a]
        BY <1>3, <1>10, <2>5
      <3>2. o2 \in Nat
        BY ContextAssumption
      <3>3. CASE m # n
        BY <1>8, <2>1, <2>3, <3>1, <3>3
      <3>4. CASE m = n /\ o2 = o
        BY <1>5, <1>6, <1>8, <2>3, <2>5, <3>1, <3>4
      <3>5. CASE m = n /\ o2 # o
        BY <1>5, <1>6, <1>8, <2>1, <2>3, <3>1, <3>2, <3>5
      <3> QED
        BY <3>3, <3>4, <3>5
    <2> QED
      BY <2>4, <2>5
  <1> QED
    BY <1>1, <1>9, <1>11, <1>12
    DEF CtxInv, RunningOwns, OneRuns, EntriesApart, JobRuns, HeldIsOwn

LEMMA CtxNextInv == CtxInv /\ [CtxNext]_ctxVars => CtxInv'
  <1> SUFFICES ASSUME CtxInv, [CtxNext]_ctxVars PROVE CtxInv'
    OBVIOUS
  <1>1. CASE UNCHANGED ctxVars
    BY <1>1 DEF ctxVars, CtxInv, CtxTypeOK, RunningOwns, OneRuns, EntriesLive, EntriesApart, EntriesKeep,
                JobRuns, HeldIsOwn
  <1>2. CASE CtxNext
    <2>1. ASSUME NEW e \in Execs, CreateContext(e) \/ DestroyContext(e) PROVE CtxInv'
      BY <2>1, CreateKeepsCtx, DestroyKeepsCtx
    <2>2. ASSUME NEW t \in Threads, NEW e \in Execs, TakeJob(t, e) PROVE CtxInv'
      BY <2>2, TakeJobKeepsCtx
    <2>3. ASSUME NEW t \in Threads, ContextInit(t) \/ GetContext(t) \/ JobDone(t) PROVE CtxInv'
      BY <2>3, ContextInitKeepsCtx, GetContextKeepsCtx, JobDoneKeepsCtx
    <2>4. ASSUME NEW t \in Threads, NEW n \in Nodes, NEW o \in Outputs, NEW v \in Values, SetTensor(t, n, o, v)
          PROVE  CtxInv'
      BY <2>4, SetTensorKeepsCtx
    <2> QED
      BY <1>2, <2>1, <2>2, <2>3, <2>4 DEF CtxNext
  <1> QED
    BY <1>1, <1>2

(* The invariant holds what a thread may rely on.                            *)
LEMMA CtxInvServes == CtxInv => SessionsServeThemselves
  <1> SUFFICES ASSUME CtxInv PROVE SessionsServeThemselves
    OBVIOUS
  <1>1. ASSUME NEW t \in Threads, held[t] # NoCtx
        PROVE  /\ job[t] \in Execs /\ SessionOf[job[t]] \in Sessions
               /\ held[t] = contexts[SessionOf[job[t]]]
    BY <1>1, SessionOfExec DEF CtxInv, CtxTypeOK, HeldIsOwn
  <1>2. ContextOutlivesUse
    BY <1>1 DEF CtxInv, EntriesLive, ContextOutlivesUse
  <1>3. ReadsTheLatest
    <2> SUFFICES ASSUME NEW t \in Threads, NEW f \in {"tensor", "ge"}, NEW n \in Nodes, NEW o \in Outputs,
                        held[t] # NoCtx
                 PROVE  LET set == latest[SessionOf[job[t]]][n][o]
                            read == GetTensor(held[t], f, n, o)
                        IN  IF set = NullTensor THEN read \in {"failed", Default, NullTensor} ELSE read = set
      BY Zenon DEF ReadsTheLatest
    <2> DEFINE vec == IF f = "tensor" THEN heap[held[t]].tensors[n] ELSE heap[held[t]].ge[n]
    <2>1. Keeps(heap[held[t]], latest[SessionOf[job[t]]])
      BY <1>1 DEF CtxInv, EntriesKeep
    <2>2. Holds(vec, o, latest[SessionOf[job[t]]][n][o])
      BY <2>1 DEF Keeps
    <2>3. vec \in Seq(TensorVals) /\ o \in Nat
      <3>1. heap[held[t]] \in Contexts
        BY DEF CtxInv, CtxTypeOK
      <3> QED
        BY <3>1, ContextAssumption DEF Contexts
    <2>4. GetTensor(held[t], f, n, o) = IF o >= Len(vec) THEN "failed" ELSE vec[o + 1]
      BY DEF GetTensor
    <2> HIDE DEF vec
    <2> QED
      BY <2>2, <2>3, <2>4 DEF Holds
  <1> QED
    BY <1>2, <1>3, OptionsResolveAlike DEF SessionsServeThemselves

-----------------------------------------------------------------------------
(* OpRegistry.                                                               *)
AllFields == KeyFields \cup TypeFields
FieldVals == ParserFns \cup {NoFn}
Claims == OpData \X [AllFields -> FieldVals]

OpTypeOK ==
    /\ data \in [OpData -> [om : OmTypes, oris : SUBSET OriTypes, field : [AllFields -> FieldVals]]]
    /\ \A d \in OpData : data[d].om = OmTypeOf[d]
    /\ received \in SUBSET OpData
    /\ byKey \in [ParserKeys -> {Unset} \cup [KeyFields -> FieldVals]]
    /\ byType \in [OmTypes -> {Unset} \cup [TypeFields -> FieldVals]]
    /\ origin \in [OriTypes -> OmTypes \cup {NoOm}]
    /\ author \in [Entries -> {Unset} \cup Claims]

(* Under a key is all of the registration that claimed it, or nothing.       *)
IsWhole(e, fields, stored) ==
    IF stored = Unset THEN author[e] = Unset
    ELSE author[e] # Unset /\ stored = [f \in fields |-> author[e][2][f]]
KeysWhole == \A k \in ParserKeys : IsWhole(<<"key", k>>, KeyFields, byKey[k])
TypesWhole == \A t \in OmTypes : IsWhole(<<"type", t>>, TypeFields, byType[t])

(* An original type has the om type of the registration its parser key finds.*)
OriginsKnown ==
    \A o \in OriTypes : origin[o] # NoOm =>
        LET e == <<"key", GetParserKey(origin[o], o)>>
        IN  author[e] # Unset /\ OmTypeOf[author[e][1]] = origin[o]

OpInv == OpTypeOK /\ KeysWhole /\ TypesWhole /\ OriginsKnown

LEMMA KeyEntries ==
  /\ \A k \in ParserKeys : <<"key", k>> \in Entries
  /\ \A t \in OmTypes : <<"type", t>> \in Entries
  /\ \A om \in OmTypes, o \in OriTypes : GetParserKey(om, o) \in ParserKeys
  /\ \A d \in OpData : OmTypeOf[d] \in OmTypes
  BY DEF Entries, ParserKeys, OmTypes

(* What is entered is not the answer that there is nothing.                  *)
LEMMA EnteredIsSet ==
  /\ \A g \in [KeyFields -> FieldVals] : g # Unset
  /\ \A g \in [TypeFields -> FieldVals] : g # Unset
  /\ \A c \in Claims : c # Unset
  <1>1. ASSUME NEW g \in [KeyFields -> FieldVals] PROVE g # Unset
    BY DEF KeyFields, Unset
  <1>2. ASSUME NEW g \in [TypeFields -> FieldVals] PROVE g # Unset
    BY DEF TypeFields, Unset
  <1>3. ASSUME NEW c \in Claims PROVE c # Unset
    BY DEF Claims, Unset
  <1> QED
    BY <1>1, <1>2, <1>3

LEMMA OpInitInv == OpInit => OpInv
  <1> SUFFICES ASSUME OpInit PROVE OpInv
    OBVIOUS
  <1>1. OpTypeOK
    BY KeyEntries DEF OpInit, OpTypeOK, Fresh, AllFields, FieldVals
  <1>2. KeysWhole /\ TypesWhole /\ OriginsKnown
    BY KeyEntries DEF OpInit, KeysWhole, TypesWhole, OriginsKnown, IsWhole
  <1> QED
    BY <1>1, <1>2 DEF OpInv

(* The setters and the receivers do not touch the registry.                  *)
LEMMA SettersKeepOp ==
  ASSUME OpInv, NEW d \in OpData,
         \/ \E o \in OriTypes : OriginOpType(d, o)
         \/ \E f \in AllFields, fn \in ParserFns : SetField(d, f, fn)
         \/ OpReceiver(d)
  PROVE  OpInv' /\ UNCHANGED <<byKey, byType, origin, author>>
  <1>1. UNCHANGED <<byKey, byType, origin, author>>
    BY DEF OriginOpType, SetField, OpReceiver
  <1>2. OpTypeOK'
    <2>1. ASSUME NEW o \in OriTypes, OriginOpType(d, o) PROVE OpTypeOK'
      BY <1>1, <2>1 DEF OpInv, OpTypeOK, OriginOpType
    <2>2. ASSUME NEW f \in AllFields, NEW fn \in ParserFns, SetField(d, f, fn) PROVE OpTypeOK'
      BY <1>1, <2>2 DEF OpInv, OpTypeOK, SetField, FieldVals
    <2>3. CASE OpReceiver(d)
      BY <1>1, <2>3 DEF OpInv, OpTypeOK, OpReceiver
    <2> QED
      BY <2>1, <2>2, <2>3
  <1> QED
    BY <1>1, <1>2 DEF OpInv, KeysWhole, TypesWhole, OriginsKnown, IsWhole

(* Register: a claim that was made is never made again, and a key or a type  *)
(* that is claimed now gets all the fields of the one registration.          *)
LEMMA RegisterKeepsOp ==
  ASSUME OpInv, NEW d \in OpData, Register(d)
  PROVE  /\ OpInv'
         /\ \A e \in Entries : author[e] # Unset => author'[e] = author[e]
         /\ \A o \in OriTypes : origin[o] # NoOm => origin'[o] = origin[o]
  <1> USE KeyEntries, EnteredIsSet
  <1> DEFINE claim == <<d, data[d].field>>
             om == OmTypeOf[d]
             new == NewKeys(d)
  <1>1. /\ byKey' = [k \in ParserKeys |-> IF k \in new THEN FieldsOf(d, KeyFields) ELSE byKey[k]]
        /\ origin' = [o \in OriTypes |-> IF /\ o \in data[d].oris
                                            /\ GetParserKey(om, o) \in new
                                            /\ origin[o] = NoOm
                                         THEN om ELSE origin[o]]
        /\ byType' = IF byType[om] # Unset THEN byType
                     ELSE [byType EXCEPT ![om] = FieldsOf(d, TypeFields)]
        /\ author' = [e \in Entries |-> IF author[e] = Unset /\ e \in EntriesOf(d) THEN claim ELSE author[e]]
        /\ UNCHANGED <<data, received>>
    BY DEF Register, OpInv, OpTypeOK
  <1>2. claim \in Claims /\ om \in OmTypes /\ om # NoOm
    BY OpDataAssumption DEF OpInv, OpTypeOK, Claims
  <1>3. /\ FieldsOf(d, KeyFields) \in [KeyFields -> FieldVals]
        /\ FieldsOf(d, TypeFields) \in [TypeFields -> FieldVals]
        /\ FieldsOf(d, KeyFields) = [f \in KeyFields |-> claim[2][f]]
        /\ FieldsOf(d, TypeFields) = [f \in TypeFields |-> claim[2][f]]
    BY DEF FieldsOf, OpInv, OpTypeOK, AllFields
  <1>4. /\ \A k \in ParserKeys : k \in new <=> byKey[k] = Unset /\ <<"key", k>> \in EntriesOf(d)
        /\ \A t \in OmTypes : <<"type", t>> \in EntriesOf(d) <=> t = om
    BY DEF NewKeys, EntriesOf, OpInv, OpTypeOK
  <1> HIDE DEF claim, om, new
  <1>5. OpTypeOK'
    <2>1. author' \in [Entries -> {Unset} \cup Claims]
      BY <1>1, <1>2 DEF OpInv, OpTypeOK
    <2>2. byType' \in [OmTypes -> {Unset} \cup [TypeFields -> FieldVals]]
      BY <1>1, <1>2, <1>3 DEF OpInv, OpTypeOK
    <2>3. byKey' \in [ParserKeys -> {Unset} \cup [KeyFields -> FieldVals]]
      BY <1>1, <1>3 DEF OpInv, OpTypeOK
    <2>4. origin' \in [OriTypes -> OmTypes \cup {NoOm}]
      BY <1>1, <1>2 DEF OpInv, OpTypeOK
    <2> QED
      BY <1>1, <2>1, <2>2, <2>3, <2>4 DEF OpInv, OpTypeOK
  <1>6. KeysWhole'
    <2> SUFFICES ASSUME NEW k \in ParserKeys PROVE IsWhole(<<"key", k>>, KeyFields, byKey[k])'
      BY DEF KeysWhole
    <2>1. IsWhole(<<"key", k>>, KeyFields, byKey[k])
      BY DEF OpInv, KeysWhole
    <2>2. CASE k \in new
      <3>1. byKey[k] = Unset /\ author[<<"key", k>>] = Unset
        BY <1>4, <2>1, <2>2 DEF IsWhole
      <3>2. author'[<<"key", k>>] = claim /\ byKey'[k] = FieldsOf(d, KeyFields)
        BY <1>1, <1>4, <2>2, <3>1
      <3> QED
        BY <1>2, <1>3, <3>2 DEF IsWhole
    <2>3. CASE k \notin new
      <3>1. author'[<<"key", k>>] = author[<<"key", k>>] /\ byKey'[k] = byKey[k]
        BY <1>1, <1>4, <2>1, <2>3 DEF IsWhole
      <3> QED
        BY <2>1, <3>1 DEF IsWhole
    <2> QED
      BY <2>2, <2>3
  <1>7. TypesWhole'
    <2> SUFFICES ASSUME NEW t \in OmTypes PROVE IsWhole(<<"type", t>>, TypeFields, byType[t])'
      BY DEF TypesWhole
    <2>1. IsWhole(<<"type", t>>, TypeFields, byType[t])
      BY DEF OpInv, TypesWhole
    <2>2. CASE t = om /\ byType[t] = Unset
      <3>1. author[<<"type", t>>] = Unset
        BY <2>1, <2>2 DEF IsWhole
      <3>2. author'[<<"type", t>>] = claim /\ byType'[t] = FieldsOf(d, TypeFields)
        BY <1>1, <1>4, <2>2, <3>1 DEF OpInv, OpTypeOK
      <3> QED
        BY <1>2, <1>3, <3>2 DEF IsWhole
    <2>3. CASE ~(t = om /\ byType[t] = Unset)
      <3>1. author'[<<"type", t>>] = author[<<"type", t>>] /\ byType'[t] = byType[t]
        BY <1>1, <1>2, <1>4, <2>1, <2>3 DEF IsWhole, OpInv, OpTypeOK
      <3> QED
        BY <2>1, <3>1 DEF IsWhole
    <2> QED
      BY <2>2, <2>3
  <1>8. \A e \in Entries : author[e] # Unset => author'[e] = author[e]
    BY <1>1
  <1>9. \A o \in OriTypes : origin[o] # NoOm => origin'[o] = origin[o]
    BY <1>1
  <1>10. OriginsKnown'
    <2> SUFFICES ASSUME NEW o \in OriTypes, origin'[o] # NoOm
                 PROVE  LET e == <<"key", GetParserKey(origin'[o], o)>>
                        IN  author'[e] # Unset /\ OmTypeOf[author'[e][1]] = origin'[o]
      BY DEF OriginsKnown
    <2>1. CASE origin[o] # NoOm
      <3>1. GetParserKey(origin[o], o) \in ParserKeys
        BY <2>1 DEF OpInv, OpTypeOK
      <3> QED
        BY <1>8, <1>9, <2>1, <3>1 DEF OpInv, OriginsKnown
    <2>2. CASE origin[o] = NoOm
      <3>1. GetParserKey(om, o) \in new /\ origin'[o] = om /\ GetParserKey(om, o) \in ParserKeys
        BY <1>1, <1>2, <2>2
      <3>2. author[<<"key", GetParserKey(om, o)>>] = Unset
        BY <1>4, <3>1 DEF OpInv, KeysWhole, IsWhole
      <3>3. author'[<<"key", GetParserKey(om, o)>>] = claim
        BY <1>1, <1>4, <3>1, <3>2
      <3>4. OmTypeOf[claim[1]] = om
        BY DEF claim, om
      <3> QED
        BY <1>2, <3>1, <3>3, <3>4
    <2> QED
      BY <2>1, <2>2
  <1> QED
    BY <1>5, <1>6, <1>7, <1>8, <1>9, <1>10 DEF OpInv

LEMMA OpNextInv == OpInv /\ [OpNext]_opVars => OpInv'
  <1> SUFFICES ASSUME OpInv, [OpNext]_opVars PROVE OpInv'
    OBVIOUS
  <1>1. CASE UNCHANGED opVars
    BY <1>1 DEF opVars, OpInv, OpTypeOK, KeysWhole, TypesWhole, OriginsKnown, IsWhole
  <1>2. ASSUME NEW d \in OpData, Register(d) PROVE OpInv'
    BY <1>2, RegisterKeepsOp
  <1>3. ASSUME NEW d \in OpData,
               \/ \E o \in OriTypes : OriginOpType(d, o)
               \/ \E f \in AllFields, fn \in ParserFns : SetField(d, f, fn)
               \/ OpReceiver(d)
        PROVE  OpInv'
    BY <1>3, SettersKeepOp
  <1> QED
    BY <1>1, <1>2, <1>3 DEF OpNext, AddInputRemoval, SetPostFn, AllFields, KeyFields, TypeFields

(* What a lookup finds is whoever claimed the key first.                     *)
AuthorOf(e) == IF author[e] = Unset THEN "nobody" ELSE author[e][1]
Answer(e) == IF e[1] # "origin" THEN AuthorOf(e)
             ELSE IF origin[e[2]] = NoOm THEN "nobody"
             ELSE AuthorOf(<<"key", GetParserKey(origin[e[2]], e[2])>>)

LEMMA LookupsAnswer == OpInv => \A e \in OpEntries : Found(e) = Answer(e)
  <1> SUFFICES ASSUME OpInv, NEW e \in OpEntries PROVE Found(e) = Answer(e)
    OBVIOUS
  <1> USE KeyEntries
  <1>1. ASSUME NEW k \in ParserKeys PROVE FoundByKey(k) = AuthorOf(<<"key", k>>)
    BY DEF OpInv, KeysWhole, IsWhole, FoundByKey, Whole, AuthorOf
  <1>2. CASE e \in {"key"} \X ParserKeys
    <2>1. e[1] = "key" /\ e[2] \in ParserKeys /\ e = <<"key", e[2]>>
      BY <1>2
    <2>2. Found(e) = FoundByKey(e[2])
      BY <2>1 DEF Found
    <2> QED
      BY <1>1, <2>1, <2>2 DEF Answer
  <1>3. CASE e \in {"type"} \X OmTypes
    <2>1. e[1] = "type" /\ e[2] \in OmTypes /\ e = <<"type", e[2]>>
      BY <1>3
    <2>2. Found(e) = Whole(e, TypeFields, byType[e[2]])
      BY <2>1 DEF Found
    <2>3. IsWhole(e, TypeFields, byType[e[2]])
      BY <2>1 DEF OpInv, TypesWhole
    <2> QED
      BY <2>1, <2>2, <2>3 DEF Answer, AuthorOf, Whole, IsWhole
  <1>4. CASE e \in {"origin"} \X OriTypes
    <2>1. e[1] = "origin" /\ e[2] \in OriTypes
      BY <1>4
    <2>2. Found(e) = FoundByOrigin(e[2])
      BY <2>1 DEF Found
    <2>3. CASE origin[e[2]] = NoOm
      BY <2>1, <2>2, <2>3 DEF FoundByOrigin, Answer
    <2>4. CASE origin[e[2]] # NoOm
      <3> DEFINE k == GetParserKey(origin[e[2]], e[2])
      <3>1. k \in ParserKeys /\ author[<<"key", k>>] # Unset /\ OmTypeOf[author[<<"key", k>>][1]] = origin[e[2]]
        BY <2>1, <2>4 DEF OpInv, OpTypeOK, OriginsKnown
      <3>2. author[<<"key", k>>] \in Claims
        BY <3>1 DEF OpInv, OpTypeOK
      <3>3. FoundByKey(k) = author[<<"key", k>>][1] /\ FoundByKey(k) \in OpData
        BY <1>1, <3>1, <3>2 DEF AuthorOf, Claims
      <3>4. Answer(e) = FoundByKey(k)
        BY <2>1, <2>4, <3>1, <3>3 DEF Answer, AuthorOf
      <3>5. Found(e) = FoundByKey(k)
        BY <2>2, <2>4, <3>1, <3>3 DEF FoundByOrigin
      <3> QED
        BY <3>4, <3>5
    <2> QED
      BY <2>3, <2>4
  <1> QED
    BY <1>2, <1>3, <1>4 DEF OpEntries, Entries

(* Initially a lookup finds nobody.                                          *)
LEMMA OpInitRefines == OpInit => OpPromise!RegInit
  <1> SUFFICES ASSUME OpInit PROVE OpPromise!RegInit
    OBVIOUS
  <1>1. \A e \in OpEntries : Found(e) = Answer(e)
    BY OpInitInv, LookupsAnswer
  <1>2. \A e \in OpEntries : Answer(e) = "nobody"
    BY DEF OpInit, Answer, AuthorOf, OpEntries, Entries
  <1> QED
    BY <1>1, <1>2 DEF OpPromise!RegInit

(* Every step leaves each answer as it is, or answers where nobody was found.*)
LEMMA OpStepRefines ==
  OpInv /\ OpInv' /\ [OpNext]_opVars => [OpPromise!RegNext]_([e \in OpEntries |-> Found(e)])
  <1> SUFFICES ASSUME OpInv, OpInv', [OpNext]_opVars PROVE OpPromise!RegNext
    OBVIOUS
  <1>1. /\ \A e \in Entries : author[e] # Unset => author'[e] = author[e]
        /\ \A o \in OriTypes : origin[o] # NoOm => origin'[o] = origin[o]
    <2>1. CASE UNCHANGED opVars
      BY <2>1 DEF opVars
    <2>2. ASSUME NEW d \in OpData, Register(d) PROVE <1>1
      BY <2>2, RegisterKeepsOp
    <2>3. ASSUME NEW d \in OpData,
                 \/ \E o \in OriTypes : OriginOpType(d, o)
                 \/ \E f \in AllFields, fn \in ParserFns : SetField(d, f, fn)
                 \/ OpReceiver(d)
          PROVE  <1>1
      BY <2>3, SettersKeepOp
    <2> QED
      BY <2>1, <2>2, <2>3 DEF OpNext, AddInputRemoval, SetPostFn, AllFields, KeyFields, TypeFields
  <1>2. \A e \in OpEntries : Found(e) = Answer(e)
    BY LookupsAnswer
  <1>3. (\A e \in OpEntries : Found(e) = Answer(e))'
    BY LookupsAnswer, PTL
  <1>4. ASSUME NEW e \in Entries
        PROVE  IF AuthorOf(e) = "nobody" THEN AuthorOf(e)' \in OpData \cup {"nobody"}
               ELSE AuthorOf(e)' = AuthorOf(e)
    <2>1. author'[e] \in {Unset} \cup Claims /\ author[e] \in {Unset} \cup Claims
      BY DEF OpInv, OpTypeOK
    <2> QED
      BY <1>1, <2>1, OpDataAssumption DEF AuthorOf, Claims
  <1>5. ASSUME NEW e \in OpEntries
        PROVE  IF Answer(e) = "nobody" THEN Answer(e)' \in OpData \cup {"nobody"}
               ELSE Answer(e)' = Answer(e)
    <2>1. CASE e \in Entries
      <3>1. e[1] # "origin"
        BY <2>1 DEF Entries
      <3> QED
        BY <1>4, <2>1, <3>1 DEF Answer
    <2>2. CASE e \in {"origin"} \X OriTypes
      <3>1. e[1] = "origin" /\ e[2] \in OriTypes
        BY <2>2
      <3>2. /\ origin[e[2]] # NoOm => <<"key", GetParserKey(origin[e[2]], e[2])>> \in Entries
            /\ origin'[e[2]] # NoOm => <<"key", GetParserKey(origin'[e[2]], e[2])>> \in Entries
        BY <3>1, KeyEntries DEF OpInv, OpTypeOK
      <3>3. CASE origin[e[2]] # NoOm
        <4> DEFINE k == <<"key", GetParserKey(origin[e[2]], e[2])>>
        <4>1. author[k] # Unset /\ author[k] \in Claims /\ author'[k] = author[k]
          BY <1>1, <3>1, <3>2, <3>3 DEF OpInv, OpTypeOK, OriginsKnown
        <4>2. origin'[e[2]] = origin[e[2]]
          BY <1>1, <3>1, <3>3
        <4> QED
          BY <3>1, <3>3, <4>1, <4>2, OpDataAssumption DEF Answer, AuthorOf, Claims
      <3>4. CASE origin[e[2]] = NoOm
        <4>1. Answer(e) = "nobody"
          BY <3>1, <3>4 DEF Answer
        <4>2. origin'[e[2]] # NoOm => author'[<<"key", GetParserKey(origin'[e[2]], e[2])>>] \in Claims \cup {Unset}
          BY <3>2 DEF OpInv, OpTypeOK
        <4>3. Answer(e)' \in OpData \cup {"nobody"}
          BY <3>1, <4>2 DEF Answer, AuthorOf, Claims
        <4> QED
          BY <4>1, <4>3
      <3> QED
        BY <3>3, <3>4
    <2> QED
      BY <2>1, <2>2 DEF OpEntries
  <1>6. ASSUME NEW e \in OpEntries
        PROVE  IF Found(e) = "nobody" THEN Found(e)' \in OpData \cup {"nobody"} ELSE Found(e)' = Found(e)
    BY <1>2, <1>3, <1>5
  <1> QED
    BY <1>6 DEF OpPromise!RegNext, OpPromise!Stays, OpPromise!Enters

-----------------------------------------------------------------------------
(* PassRegistries.                                                           *)
MakerVals == Makers \cup {NullMaker}
MakerMaps == [Types -> MakerVals]
Items == [name : Types, pri : Int, fn : MakerVals, at : Nat]

PassTypeOK ==
    /\ factory \in [Tables -> {NullMap} \cup MakerMaps]
    /\ fusion \in [{"graph", "buffer"} -> [PassKinds -> MakerMaps]]
    /\ scopePass \in [names : Seq(Types), pack : [Types -> [fn : MakerVals, on : BOOLEAN]]]
    /\ plain \in [{"kernel", "builder", "tiling"} -> MakerMaps]
    /\ transfer \in [Formats \X Formats -> MakerVals]
    /\ custom \in Seq(Items)
    /\ ran \in Seq(Items)
    /\ running \in Nat \cup {NoRun}
    /\ since \in Nat
    /\ passCalls \in Nat

(* A scope pass is listed once, with the function it was registered with.    *)
ListedOnce == \A i, j \in 1..Len(scopePass.names) : scopePass.names[i] = scopePass.names[j] => i = j
ListedHasFn == \A i \in 1..Len(scopePass.names) : scopePass.pack[scopePass.names[i]].fn \in Makers

(* The multiset is ordered, and items are inserted at different calls.       *)
CustomSorted == \A i, j \in 1..Len(custom) : i < j => ComesBefore(custom[i], custom[j])
InsertedBefore == \A i \in 1..Len(custom) : custom[i].at < passCalls

(* The loop of Run called passes that are behind it, in their order.         *)
RanSorted == \A i, j \in 1..Len(ran) : i < j => ComesBefore(ran[i], ran[j])
RunBegan == since <= passCalls /\ running <= Len(custom)
RanIsBehind == running # NoRun => \A k \in 1..Len(ran) : \E i \in 1..running : ran[k] = custom[i]
NoneSkipped == \A i \in 1..running : custom[i].fn # NullMaker /\ custom[i].at < since
                                       => \E k \in 1..Len(ran) : ran[k] = custom[i]

PassInv == /\ PassTypeOK
           /\ ListedOnce /\ ListedHasFn
           /\ CustomSorted /\ InsertedBefore
           /\ RanSorted /\ RunBegan /\ RanIsBehind /\ NoneSkipped

(* InsertAt puts the element at the position and moves the ones behind it.   *)
LEMMA InsertAtPlaces ==
  ASSUME NEW S, NEW s \in Seq(S), NEW i \in 1..(Len(s) + 1), NEW e \in S
  PROVE  /\ InsertAt(s, i, e) \in Seq(S)
         /\ Len(InsertAt(s, i, e)) = Len(s) + 1
         /\ \A j \in 1..(Len(s) + 1) : InsertAt(s, i, e)[j] = IF j < i THEN s[j] ELSE IF j = i THEN e ELSE s[j - 1]
  <1> DEFINE front == SubSeq(s, 1, i - 1)
             back == SubSeq(s, i, Len(s))
             mid == front \o <<e>>
             all == mid \o back
  <1>1. Len(s) \in Nat /\ \A j \in 1..Len(s) : s[j] \in S
    BY ElementOfSeq, LenProperties
  <1>2. front \in Seq(S) /\ Len(front) = i - 1 /\ \A j \in 1..(i - 1) : front[j] = s[j]
    BY <1>1, SubSeqProperties
  <1>3. back \in Seq(S) /\ Len(back) = Len(s) - i + 1 /\ \A j \in 1..(Len(s) - i + 1) : back[j] = s[i + j - 1]
    BY <1>1, SubSeqProperties
  <1>4. <<e>> \in Seq(S) /\ Len(<<e>>) = 1 /\ <<e>>[1] = e
    OBVIOUS
  <1> HIDE DEF front, back
  <1>5. /\ mid \in Seq(S) /\ Len(mid) = i
        /\ \A j \in 1..i : mid[j] = IF j <= i - 1 THEN front[j] ELSE <<e>>[j - (i - 1)]
    BY <1>2, <1>4, ConcatProperties
  <1> HIDE DEF mid
  <1>6. /\ all \in Seq(S) /\ Len(all) = Len(s) + 1
        /\ \A j \in 1..(Len(s) + 1) : all[j] = IF j <= i THEN mid[j] ELSE back[j - i]
    BY <1>1, <1>3, <1>5, ConcatProperties
  <1>7. InsertAt(s, i, e) = all
    BY DEF InsertAt, mid, front, back
  <1> HIDE DEF all
  <1>8. ASSUME NEW j \in 1..(Len(s) + 1)
        PROVE  all[j] = IF j < i THEN s[j] ELSE IF j = i THEN e ELSE s[j - 1]
    <2>1. CASE j < i
      <3>1. j \in 1..(i - 1) /\ j \in 1..i /\ j <= i
        BY <1>1, <2>1
      <3> QED
        BY <1>2, <1>5, <1>6, <2>1, <3>1
    <2>2. CASE j = i
      <3>1. mid[j] = <<e>>[1]
        BY <1>5, <2>2
      <3> QED
        BY <1>4, <1>6, <2>2, <3>1
    <2>3. CASE j > i
      <3>1. j - i \in 1..(Len(s) - i + 1) /\ i + (j - i) - 1 = j - 1
        BY <1>1, <2>3
      <3>2. back[j - i] = s[j - 1]
        BY <1>3, <3>1
      <3> QED
        BY <1>1, <1>6, <2>3, <3>2
    <2>4. j < i \/ j = i \/ j > i
      BY <1>1
    <2> QED
      BY <1>1, <2>1, <2>2, <2>3, <2>4
  <1> QED
    BY <1>6, <1>7, <1>8

LEMMA PassInitInv == PassInit => PassInv
  <1> SUFFICES ASSUME PassInit PROVE PassInv
    OBVIOUS
  <1>1. EmptyMap \in MakerMaps /\ NullMaker \in MakerVals
    BY DEF EmptyMap, MakerMaps, MakerVals
  <1>2. <<>> \in Seq(Types) /\ <<>> \in Seq(Items)
    OBVIOUS
  <1>3. PassTypeOK
    BY <1>1, <1>2 DEF PassInit, PassTypeOK, NoRun
  <1>4. /\ Len(custom) = 0 /\ Len(ran) = 0 /\ Len(scopePass.names) = 0
        /\ running = NoRun /\ since = 0 /\ passCalls = 0 /\ NoRun = -1
    BY DEF PassInit, NoRun
  <1> QED
    BY <1>3, <1>4 DEF PassInv, ListedOnce, ListedHasFn, CustomSorted, InsertedBefore,
                      RanSorted, RunBegan, RanIsBehind, NoneSkipped

(* The custom passes and their run are left alone.                           *)
LEMMA CustomAlone ==
  ASSUME PassInv, PassTypeOK', UNCHANGED <<custom, running, ran, since>>, passCalls <= passCalls'
  PROVE  (CustomSorted /\ InsertedBefore /\ RanSorted /\ RunBegan /\ RanIsBehind /\ NoneSkipped)'
  <1>1. InsertedBefore' /\ RunBegan'
    <2>1. \A i \in 1..Len(custom) : custom[i].at \in Nat
      <3>1. \A i \in 1..Len(custom) : custom[i] \in Items
        BY ElementOfSeq DEF PassInv, PassTypeOK
      <3> QED
        BY <3>1 DEF Items
    <2> QED
      BY <2>1 DEF PassInv, PassTypeOK, InsertedBefore, RunBegan
  <1>2. CustomSorted' /\ RanSorted' /\ RanIsBehind' /\ NoneSkipped'
    BY DEF PassInv, CustomSorted, RanSorted, RanIsBehind, NoneSkipped, ComesBefore
  <1> QED
    BY <1>1, <1>2

(* CustomPassHelper::Insert keeps the order, also behind a loop under way.   *)
LEMMA InsertKeepsPass ==
  ASSUME PassInv, NEW name \in Types, NEW p \in Priorities, NEW fn \in MakerVals, InsertCustomPass(name, p, fn)
  PROVE  PassInv'
  <1> DEFINE item == [name |-> name, pri |-> PriorityOf(p), fn |-> fn, at |-> passCalls]
             N == Len(custom)
  <1>1. PICK i \in 1..(N + 1) :
          /\ \A j \in 1..N : j < i <=> custom[j].pri <= item.pri
          /\ custom' = InsertAt(custom, i, item)
          /\ running' = IF i <= running THEN running + 1 ELSE running
    BY DEF InsertCustomPass, Inserted
  <1>2. passCalls' = passCalls + 1 /\ UNCHANGED <<factory, fusion, scopePass, plain, transfer, ran, since>>
    BY DEF InsertCustomPass, Inserted, PassCall
  <1>3. item \in Items /\ item.at = passCalls /\ passCalls \in Nat /\ N \in Nat
    <2>1. passCalls \in Nat /\ N \in Nat
      BY LenProperties DEF PassInv, PassTypeOK
    <2>2. PriorityOf(p) \in Int
      BY PassAssumption DEF PriorityOf
    <2> QED
      BY <2>1, <2>2 DEF Items
  <1>4. \A j \in 1..N : custom[j] \in Items /\ custom[j].pri \in Int /\ custom[j].at \in Nat /\ custom[j].at < passCalls
    <2>1. \A j \in 1..N : custom[j] \in Items
      BY ElementOfSeq DEF PassInv, PassTypeOK
    <2> QED
      BY <2>1 DEF PassInv, Items, InsertedBefore
  <1> HIDE DEF item
  <1>5. /\ custom' \in Seq(Items) /\ Len(custom') = N + 1
        /\ \A j \in 1..(N + 1) : custom'[j] = IF j < i THEN custom[j] ELSE IF j = i THEN item ELSE custom[j - 1]
    <2>1. custom \in Seq(Items)
      BY DEF PassInv, PassTypeOK
    <2> DEFINE new == InsertAt(custom, i, item)
    <2>2. /\ new \in Seq(Items) /\ Len(new) = N + 1
          /\ \A j \in 1..(N + 1) : new[j] = IF j < i THEN custom[j] ELSE IF j = i THEN item ELSE custom[j - 1]
      <3>1. item \in Items /\ i \in 1..(Len(custom) + 1)
        BY <1>3
      <3>2. /\ InsertAt(custom, i, item) \in Seq(Items)
            /\ Len(InsertAt(custom, i, item)) = Len(custom) + 1
            /\ \A j \in 1..(Len(custom) + 1) : InsertAt(custom, i, item)[j] = IF j < i THEN custom[j] ELSE IF j = i THEN item ELSE custom[j - 1]
        <4> HIDE DEF N, item
        <4>1. custom \in Seq(Items) /\ i \in 1..(Len(custom) + 1) /\ item \in Items
          BY <2>1, <3>1
        <4>2. InsertAt(custom, i, item) \in Seq(Items)
          BY <4>1, InsertAtPlaces
        <4>3. Len(InsertAt(custom, i, item)) = Len(custom) + 1
          BY <4>1, InsertAtPlaces
        <4>4. \A j \in 1..(Len(custom) + 1) : InsertAt(custom, i, item)[j] = IF j < i THEN custom[j] ELSE IF j = i THEN item ELSE custom[j - 1]
          BY <4>1, InsertAtPlaces
        <4> QED
          BY <4>2, <4>3, <4>4
      <3> QED
        BY <3>2
    <2>3. custom' = new
      BY <1>1
    <2> HIDE DEF new
    <2> QED
      BY <2>2, <2>3
  <1>6. running \in Nat \cup {NoRun} /\ NoRun = -1 /\ running <= N /\ since <= passCalls /\ since \in Nat
    BY DEF PassInv, PassTypeOK, RunBegan, NoRun
  <1> HIDE DEF N
  <1>7. PassTypeOK'
    BY <1>1, <1>2, <1>3, <1>5, <1>6 DEF PassInv, PassTypeOK
  <1>8. CustomSorted'
    <2> SUFFICES ASSUME NEW j \in 1..(N + 1), NEW k \in 1..(N + 1), j < k
                 PROVE  ComesBefore(custom'[j], custom'[k])
      BY <1>5 DEF CustomSorted, ComesBefore
    <2> DEFINE J == IF j < i THEN j ELSE j - 1
               K == IF k < i THEN k ELSE k - 1
    <2>1. CASE j # i /\ k # i
      <3>1. J \in 1..N /\ K \in 1..N /\ J < K /\ custom'[j] = custom[J] /\ custom'[k] = custom[K]
        BY <1>3, <1>5, <2>1
      <3> HIDE DEF J, K
      <3>2. ComesBefore(custom[J], custom[K])
        BY <3>1 DEF PassInv, CustomSorted, N
      <3> QED
        BY <3>1, <3>2
    <2>2. CASE k = i
      <3>1. j \in 1..N /\ j < i /\ custom'[j] = custom[j] /\ custom'[k] = item
        BY <1>3, <1>5, <2>2
      <3>2. custom[j].pri <= item.pri /\ custom[j].at < item.at /\ item.pri \in Int
        BY <1>1, <1>3, <1>4, <3>1 DEF Items
      <3> QED
        BY <1>4, <3>1, <3>2 DEF ComesBefore
    <2>3. CASE j = i
      <3>1. k - 1 \in 1..N /\ ~(k - 1 < i) /\ custom'[j] = item /\ custom'[k] = custom[k - 1]
        BY <1>3, <1>5, <2>3
      <3>2. ~(custom[k - 1].pri <= item.pri) /\ item.pri \in Int
        BY <1>1, <1>3, <3>1 DEF Items
      <3> QED
        BY <1>4, <3>1, <3>2 DEF ComesBefore
    <2> QED
      BY <2>1, <2>2, <2>3
  <1>9. InsertedBefore'
    <2> SUFFICES ASSUME NEW j \in 1..(N + 1) PROVE custom'[j].at < passCalls + 1
      BY <1>2, <1>5 DEF InsertedBefore
    <2>1. CASE j < i
      BY <1>3, <1>4, <1>5, <2>1
    <2>2. CASE j = i
      BY <1>3, <1>5, <2>2
    <2>3. CASE j > i
      <3>1. j - 1 \in 1..N /\ custom'[j] = custom[j - 1]
        BY <1>3, <1>5, <2>3
      <3> QED
        BY <1>3, <1>4, <3>1
    <2> QED
      BY <1>3, <2>1, <2>2, <2>3
  <1>10. RanSorted'
    BY <1>2 DEF PassInv, RanSorted, ComesBefore
  <1>11. RunBegan'
    BY <1>1, <1>2, <1>3, <1>5, <1>6 DEF RunBegan
  <1>12. RanIsBehind'
    <2> SUFFICES ASSUME running' # NoRun, NEW k \in 1..Len(ran)
                 PROVE  \E j \in 1..running' : ran[k] = custom'[j]
      BY <1>2 DEF RanIsBehind
    <2>1. running # NoRun /\ running \in Nat
      BY <1>1, <1>6
    <2>2. PICK j \in 1..running : ran[k] = custom[j]
      BY <2>1 DEF PassInv, RanIsBehind
    <2>3. CASE j < i
      <3>1. j \in 1..running' /\ custom'[j] = custom[j]
        BY <1>1, <1>3, <1>5, <1>6, <2>1, <2>3
      <3>2. j \in 1..running' /\ ran[k] = custom'[j]
        BY <2>2, <3>1
      <3> QED
        BY <3>2
    <2>4. CASE ~(j < i)
      <3>1. j + 1 \in 1..running' /\ custom'[j + 1] = custom[j]
        <4>1. i \in Nat /\ j \in Nat /\ i <= j /\ j <= running /\ running \in Nat /\ running <= N /\ N \in Nat
          BY <1>3, <1>6, <2>1, <2>4
        <4>2. running' = running + 1
          BY <1>1, <4>1
        <4>3. j + 1 \in 1..running' /\ j + 1 \in 1..(N + 1) /\ ~(j + 1 < i) /\ j + 1 # i
          BY <4>1, <4>2
        <4>4. custom'[j + 1] = custom[(j + 1) - 1]
          BY <1>5, <4>3
        <4>5. (j + 1) - 1 = j
          BY <4>1
        <4> QED
          BY <4>3, <4>4, <4>5
      <3>2. j + 1 \in 1..running' /\ ran[k] = custom'[j + 1]
        BY <2>2, <3>1
      <3> QED
        BY <3>2
    <2> QED
      BY <2>3, <2>4
  <1>13. NoneSkipped'
    <2> SUFFICES ASSUME NEW j \in 1..running', custom'[j].fn # NullMaker, custom'[j].at < since
                 PROVE  \E k \in 1..Len(ran) : ran[k] = custom'[j]
      BY <1>2 DEF NoneSkipped
    <2> DEFINE J == IF j < i THEN j ELSE j - 1
    <2>1. j \in 1..(N + 1) /\ j # i
      BY <1>1, <1>3, <1>5, <1>6
    <2>2. J \in 1..running /\ custom'[j] = custom[J]
      BY <1>1, <1>3, <1>5, <1>6, <2>1
    <2> QED
      BY <2>2 DEF PassInv, NoneSkipped
  <1>14. ListedOnce' /\ ListedHasFn'
    BY <1>2 DEF PassInv, ListedOnce, ListedHasFn
  <1> QED
    BY <1>7, <1>8, <1>9, <1>10, <1>11, <1>12, <1>13, <1>14 DEF PassInv

(* CustomPassHelper::Run begins.                                             *)
LEMMA RunKeepsPass ==
  ASSUME PassInv, RunCustomPasses
  PROVE  PassInv'
  <1>1. /\ running' = 0 /\ ran' = <<>> /\ since' = passCalls /\ passCalls' = passCalls + 1
        /\ UNCHANGED <<factory, fusion, scopePass, plain, transfer, custom>>
    BY DEF RunCustomPasses, PassCall
  <1>2. passCalls \in Nat /\ Len(custom) \in Nat /\ Len(<<>>) = 0 /\ <<>> \in Seq(Items)
    BY LenProperties DEF PassInv, PassTypeOK
  <1>3. PassTypeOK'
    BY <1>1, <1>2 DEF PassInv, PassTypeOK
  <1>4. InsertedBefore'
    <2>1. \A i \in 1..Len(custom) : custom[i].at \in Nat
      <3>1. \A i \in 1..Len(custom) : custom[i] \in Items
        BY ElementOfSeq DEF PassInv, PassTypeOK
      <3> QED
        BY <3>1 DEF Items
    <2> QED
      BY <1>1, <1>2, <2>1 DEF PassInv, InsertedBefore
  <1>5. RanSorted' /\ RunBegan' /\ RanIsBehind' /\ NoneSkipped'
    BY <1>1, <1>2 DEF RanSorted, RunBegan, RanIsBehind, NoneSkipped, NoRun
  <1>6. CustomSorted' /\ ListedOnce' /\ ListedHasFn'
    BY <1>1 DEF PassInv, CustomSorted, ComesBefore, ListedOnce, ListedHasFn
  <1> QED
    BY <1>3, <1>4, <1>5, <1>6 DEF PassInv

(* One pass of its loop: what is called comes after all that was.            *)
LEMMA CallKeepsPass ==
  ASSUME PassInv, NEW success \in BOOLEAN, CallCustomPass(success)
  PROVE  PassInv'
  <1> DEFINE N == Len(custom)
             item == custom[running + 1]
  <1>1. running # NoRun /\ UNCHANGED <<factory, fusion, scopePass, plain, transfer, custom, since, passCalls>>
    BY DEF CallCustomPass
  <1>2. /\ running \in Nat /\ running <= N /\ N \in Nat /\ NoRun = -1 /\ since <= passCalls
        /\ ran \in Seq(Items) /\ Len(ran) \in Nat
        /\ \A i \in 1..N : custom[i] \in Items
    BY <1>1, LenProperties, ElementOfSeq DEF PassInv, PassTypeOK, RunBegan, NoRun
  <1>3. CustomSorted' /\ InsertedBefore' /\ ListedOnce' /\ ListedHasFn'
    BY <1>1 DEF PassInv, CustomSorted, InsertedBefore, ComesBefore, ListedOnce, ListedHasFn
  <1>4. CASE running' = NoRun /\ ran' = ran
    <2>1. PassTypeOK' /\ RunBegan'
      BY <1>1, <1>2, <1>4 DEF PassInv, PassTypeOK, RunBegan
    <2>2. RanSorted' /\ RanIsBehind' /\ NoneSkipped'
      <3>1. RanSorted'
        BY <1>4 DEF PassInv, RanSorted, ComesBefore
      <3>2. RanIsBehind'
        BY <1>4 DEF RanIsBehind
      <3>3. 1..running' = {}
        BY <1>2, <1>4
      <3>4. NoneSkipped'
        BY <3>3 DEF NoneSkipped
      <3> QED
        BY <3>1, <3>2, <3>4
    <2> QED
      BY <1>3, <2>1, <2>2 DEF PassInv
  <1>5. CASE running # N /\ item.fn = NullMaker /\ running' = running + 1 /\ ran' = ran
    <2>1. PassTypeOK' /\ RunBegan'
      BY <1>1, <1>2, <1>5 DEF PassInv, PassTypeOK, RunBegan
    <2>2. RanSorted'
      BY <1>5 DEF PassInv, RanSorted, ComesBefore
    <2>3. RanIsBehind'
      BY <1>1, <1>2, <1>5 DEF PassInv, RanIsBehind
    <2>4. NoneSkipped'
      <3> SUFFICES ASSUME NEW i \in 1..running', custom[i].fn # NullMaker, custom[i].at < since
                   PROVE  \E k \in 1..Len(ran) : ran[k] = custom[i]
        BY <1>1, <1>5 DEF NoneSkipped
      <3>1. i \in 1..running
        BY <1>2, <1>5
      <3> QED
        BY <3>1 DEF PassInv, NoneSkipped
    <2> QED
      BY <1>3, <2>1, <2>2, <2>3, <2>4 DEF PassInv
  <1>6. CASE /\ running # N /\ item.fn # NullMaker /\ ran' = Append(ran, item)
             /\ running' = IF success THEN running + 1 ELSE NoRun
    <2>1. running + 1 \in 1..N /\ item \in Items
      BY <1>2, <1>6
    <2> HIDE DEF N, item
    <2>2. /\ ran' \in Seq(Items) /\ Len(ran') = Len(ran) + 1 /\ ran'[Len(ran) + 1] = item
          /\ \A k \in 1..Len(ran) : ran'[k] = ran[k]
      <3> DEFINE new == Append(ran, item)
      <3>1. /\ new \in Seq(Items) /\ Len(new) = Len(ran) + 1 /\ new[Len(ran) + 1] = item
            /\ \A k \in 1..Len(ran) : new[k] = ran[k]
        BY <1>2, <2>1, AppendProperties
      <3> HIDE DEF new
      <3>2. ran' = new
        BY <1>6 DEF new
      <3> QED
        BY <3>1, <3>2
    <2>3. PassTypeOK' /\ RunBegan'
      BY <1>1, <1>2, <1>6, <2>1, <2>2 DEF PassInv, PassTypeOK, RunBegan, N
    <2>4. ASSUME NEW k \in 1..Len(ran) PROVE ComesBefore(ran[k], item)
      <3>1. PICK i \in 1..running : ran[k] = custom[i]
        BY <1>1 DEF PassInv, RanIsBehind
      <3>2. i \in 1..N /\ i < running + 1
        BY <1>2
      <3> QED
        BY <2>1, <3>1, <3>2 DEF PassInv, CustomSorted, N, item
    <2>5. RanSorted'
      <3> SUFFICES ASSUME NEW i \in 1..(Len(ran) + 1), NEW j \in 1..(Len(ran) + 1), i < j
                   PROVE  ComesBefore(ran'[i], ran'[j])
        BY <2>2 DEF RanSorted, ComesBefore
      <3>1. i \in 1..Len(ran) /\ ran'[i] = ran[i]
        BY <1>2, <2>2
      <3>2. CASE j = Len(ran) + 1
        BY <2>2, <2>4, <3>1, <3>2
      <3>3. CASE j # Len(ran) + 1
        <4>1. j \in 1..Len(ran) /\ ran'[j] = ran[j]
          BY <1>2, <2>2, <3>3
        <4> QED
          BY <3>1, <4>1 DEF PassInv, RanSorted
      <3> QED
        BY <3>2, <3>3
    <2>6. RanIsBehind'
      <3> SUFFICES ASSUME running' # NoRun, NEW k \in 1..(Len(ran) + 1)
                   PROVE  \E i \in 1..running' : ran'[k] = custom[i]
        BY <1>1, <2>2 DEF RanIsBehind
      <3>1. running' = running + 1
        BY <1>6
      <3>2. CASE k = Len(ran) + 1
        BY <1>2, <2>2, <3>1, <3>2 DEF item
      <3>3. CASE k # Len(ran) + 1
        <4>1. k \in 1..Len(ran) /\ ran'[k] = ran[k]
          BY <1>2, <2>2, <3>3
        <4>2. PICK i \in 1..running : ran[k] = custom[i]
          BY <1>1, <4>1 DEF PassInv, RanIsBehind
        <4>3. i \in 1..running'
          BY <1>2, <3>1
        <4> QED
          BY <4>1, <4>2, <4>3
      <3> QED
        BY <3>2, <3>3
    <2>7. NoneSkipped'
      <3> SUFFICES ASSUME NEW i \in 1..running', custom[i].fn # NullMaker, custom[i].at < since
                   PROVE  \E k \in 1..(Len(ran) + 1) : ran'[k] = custom[i]
        BY <1>1, <2>2 DEF NoneSkipped
      <3>1. running' = running + 1
        BY <1>2, <1>6
      <3>2. CASE i = running + 1
        BY <1>2, <2>2, <3>2 DEF item
      <3>3. CASE i # running + 1
        <4>1. i \in 1..running
          BY <1>2, <3>1, <3>3
        <4>2. PICK k \in 1..Len(ran) : ran[k] = custom[i]
          BY <4>1 DEF PassInv, NoneSkipped
        <4>3. k \in 1..(Len(ran) + 1) /\ ran'[k] = custom[i]
          BY <1>2, <2>2, <4>2
        <4> QED
          BY <4>3
      <3> QED
        BY <3>2, <3>3
    <2> QED
      BY <1>3, <2>3, <2>5, <2>6, <2>7 DEF PassInv
  <1> QED
    BY <1>4, <1>5, <1>6 DEF CallCustomPass

LEMMA NoMakerYet == NullMaker \notin Makers /\ EmptyMap \in MakerMaps /\ \A t \in Types : EmptyMap[t] = NullMaker
  BY PassAssumption DEF EmptyMap, MakerMaps, MakerVals

(* The entries each registry answers for.                                    *)
FactoryEntries == (Tables \cup {"create"}) \X Types
ScopeEntries == {"scope"} \X Types
PlainEntries == {"kernel", "builder", "tiling"} \X Types
FusionEntries == {"graph", "buffer"} \X PassKinds \X Types
TransferEntries == {"transfer"} \X Formats \X Formats

(* What a step may do to the answer of an entry, as RegistrySpec has it.     *)
Allowed(e, now, next) ==
    \/ next = now
    \/ now = NullMaker /\ next \in Makers
    \/ e \notin FirstStays /\ next \in Makers
    \/ e \in {"builder"} \X Types /\ next = NullMaker

LEMMA AllowedIsRegNext == (\A e \in PassEntries : Allowed(e, PassFound(e), PassFound(e)')) => PassPromise!RegNext
  BY DEF Allowed, PassPromise!RegNext, PassPromise!Stays, PassPromise!Enters, PassPromise!Renews, PassPromise!Leaves

(* Each entry is answered by one registry.                                   *)
ByRegistry(e) ==
    \/ e \in FactoryEntries /\ e[1] \in Tables /\ PassFound(e) = FactoryGet(e[1], e[2])
    \/ e \in FactoryEntries /\ e[1] = "create" /\ PassFound(e) = CreateOperator(e[2])
    \/ e \in ScopeEntries /\ PassFound(e) = ScopeFound(e[2])
    \/ e \in PlainEntries /\ PassFound(e) = plain[e[1]][e[2]]
    \/ e \in FusionEntries /\ PassFound(e) = fusion[e[1]][e[2]][e[3]]
    \/ /\ e \in TransferEntries
       /\ PassFound(e) = TransferAt(<<GetPrimaryFormat(e[2]), GetPrimaryFormat(e[3])>>)

LEMMA EntriesByRegistry == \A e \in PassEntries : ByRegistry(e)
  <1> SUFFICES ASSUME NEW e \in PassEntries PROVE ByRegistry(e)
    OBVIOUS
  <1> USE DEF ByRegistry
  <1>1. CASE e \in FactoryEntries
    <2>1. e[1] \in Tables \/ (e[1] \notin Tables /\ e[1] = "create")
      BY <1>1 DEF FactoryEntries, Tables
    <2>2. CASE e[1] \in Tables
      <3>1. /\ e[1] # "create" /\ e[1] # "scope" /\ e[1] # "transfer"
            /\ e[1] \notin {"kernel", "builder", "tiling"} /\ e[1] \notin {"graph", "buffer"}
        BY <2>2 DEF Tables
      <3>2. PassFound(e) = FactoryGet(e[1], e[2])
        BY <2>2, <3>1 DEF PassFound
      <3> QED
        BY <1>1, <2>2, <3>2
    <2>3. CASE e[1] \notin Tables /\ e[1] = "create"
      <3>1. PassFound(e) = CreateOperator(e[2])
        BY <2>3 DEF PassFound
      <3> QED
        BY <1>1, <2>3, <3>1
    <2> QED
      BY <2>1, <2>2, <2>3
  <1>2. CASE e \in ScopeEntries
    <2>1. e[1] = "scope" /\ e[1] \notin Tables
      BY <1>2 DEF ScopeEntries, Tables
    <2> QED
      BY <1>2, <2>1 DEF PassFound
  <1>3. CASE e \in PlainEntries
    <2>1. e[1] \in {"kernel", "builder", "tiling"} /\ e[1] \notin Tables
      BY <1>3 DEF PlainEntries, Tables
    <2>2. PassFound(e) = plain[e[1]][e[2]]
      BY <2>1 DEF PassFound
    <2> QED
      BY <1>3, <2>2
  <1>4. CASE e \in FusionEntries
    <2>1. e[1] \in {"graph", "buffer"} /\ e[1] \notin Tables
      BY <1>4 DEF FusionEntries, Tables
    <2>2. PassFound(e) = fusion[e[1]][e[2]][e[3]]
      BY <2>1 DEF PassFound, GetCreateFnByType
    <2> QED
      BY <1>4, <2>2
  <1>5. CASE e \in TransferEntries
    <2>1. e[1] = "transfer" /\ e[1] \notin Tables
      BY <1>5 DEF TransferEntries, Tables
    <2>2. PassFound(e) = IF FormatTransferExists(e[2], e[3]) THEN BuildFormatTransfer(e[2], e[3]) ELSE NullMaker
      BY <2>1 DEF PassFound
    <2> QED
      BY <1>5, <2>2 DEF FormatTransferExists, BuildFormatTransfer, TransferAt
  <1> QED
    BY <1>1, <1>2, <1>3, <1>4, <1>5
    DEF PassEntries, FactoryEntries, ScopeEntries, PlainEntries, FusionEntries, TransferEntries, Tables

LEMMA EntriesByRegistryNext == \A e \in PassEntries : ByRegistry(e)'
  <1>1. (\A e \in PassEntries : ByRegistry(e))'
    BY EntriesByRegistry, PTL
  <1> QED
    BY <1>1

(* An entry is no one else's.                                                *)
LEMMA EntriesApartByName ==
  /\ \A e \in FactoryEntries : e[1] \in Tables \cup {"create"} /\ e[2] \in Types
  /\ \A e \in ScopeEntries : e[1] = "scope" /\ e[2] \in Types
  /\ \A e \in PlainEntries : e[1] \in {"kernel", "builder", "tiling"} /\ e[2] \in Types
  /\ \A e \in FusionEntries : e[1] \in {"graph", "buffer"} /\ e[2] \in PassKinds /\ e[3] \in Types
  /\ \A e \in TransferEntries : e[1] = "transfer" /\ e[2] \in Formats /\ e[3] \in Formats
  BY DEF FactoryEntries, ScopeEntries, PlainEntries, FusionEntries, TransferEntries

(* The calls of OperatorFactoryImpl.                                         *)
LEMMA FactoryStep ==
  ASSUME PassInv, NEW table \in Tables, NEW t \in Types, NEW fn \in Makers, FactoryRegister(table, t, fn)
  PROVE  PassInv' /\ PassPromise!RegNext
  <1> USE NoMakerYet
  <1> DEFINE m == IF factory[table] = NullMap THEN EmptyMap ELSE factory[table]
             m2 == IF m[t] # NullMaker THEN m ELSE [m EXCEPT ![t] = fn]
  <1>1. /\ factory' = [factory EXCEPT ![table] = m2] /\ passCalls' = passCalls + 1
        /\ UNCHANGED <<fusion, scopePass, plain, transfer, custom, running, ran, since>>
    BY DEF FactoryRegister, PassCall
  <1>2. factory \in [Tables -> {NullMap} \cup MakerMaps] /\ passCalls \in Nat
    BY DEF PassInv, PassTypeOK
  <1>3. m \in MakerMaps /\ m2 \in MakerMaps
    BY <1>2 DEF MakerMaps, MakerVals
  <1>4. m2 # NullMap
    BY <1>3 DEF MakerMaps, NullMap
  <1>5. \A u \in Types : m2[u] = IF u = t /\ m[t] = NullMaker THEN fn ELSE m[u]
    BY <1>3 DEF MakerMaps
  <1>6. \A u \in Types : FactoryGet(table, u) = m[u]
    BY <1>2 DEF FactoryGet, InTable
  <1> HIDE DEF m, m2
  <1>7. PassTypeOK'
    BY <1>1, <1>2, <1>3 DEF PassInv, PassTypeOK
  <1>8. PassInv'
    BY <1>1, <1>2, <1>7, CustomAlone DEF PassInv, ListedOnce, ListedHasFn
  <1>9. \A u \in Types : FactoryGet(table, u)' = m2[u]
    BY <1>1, <1>2, <1>4 DEF FactoryGet, InTable
  <1>10. \A w \in Tables, u \in Types : w # table => FactoryGet(w, u)' = FactoryGet(w, u)
    BY <1>1, <1>2 DEF FactoryGet, InTable
  <1>11. ASSUME NEW w \in Tables, NEW u \in Types
         PROVE  FactoryGet(w, u)' = FactoryGet(w, u) \/ (FactoryGet(w, u) = NullMaker /\ FactoryGet(w, u)' \in Makers)
    BY <1>5, <1>6, <1>9, <1>10
  <1>12. ASSUME NEW u \in Types
         PROVE  CreateOperator(u)' = CreateOperator(u) \/ CreateOperator(u)' \in Makers
    <2>1. CreateOperator(u) = IF FactoryGet("creatorV2", u) # NullMaker THEN FactoryGet("creatorV2", u)
                              ELSE FactoryGet("creator", u)
      BY DEF CreateOperator, FactoryGet, InTable
    <2>2. CreateOperator(u)' = IF FactoryGet("creatorV2", u)' # NullMaker THEN FactoryGet("creatorV2", u)'
                               ELSE FactoryGet("creator", u)'
      BY DEF CreateOperator, FactoryGet, InTable
    <2>3. "creator" \in Tables /\ "creatorV2" \in Tables
      BY DEF Tables
    <2> QED
      BY <1>11, <2>1, <2>2, <2>3
  <1>13. ASSUME NEW e \in PassEntries PROVE Allowed(e, PassFound(e), PassFound(e)')
    <2>1. ByRegistry(e) /\ ByRegistry(e)'
      BY EntriesByRegistry, EntriesByRegistryNext
    <2>2. CASE e \in FactoryEntries
      <3>1. e[2] \in Types /\ ("create" \notin Tables)
        BY <2>2, EntriesApartByName DEF Tables
      <3>2. CASE e[1] \in Tables
        <4>1. PassFound(e) = FactoryGet(e[1], e[2]) /\ PassFound(e)' = FactoryGet(e[1], e[2])'
          BY <2>1, <2>2, <3>1, <3>2, EntriesApartByName DEF ByRegistry, Tables
        <4> QED
          BY <1>11, <3>1, <3>2, <4>1 DEF Allowed
      <3>3. CASE e[1] = "create"
        <4>1. PassFound(e) = CreateOperator(e[2]) /\ PassFound(e)' = CreateOperator(e[2])'
          BY <2>1, <2>2, <3>1, <3>3, EntriesApartByName DEF ByRegistry, Tables
        <4>2. e \notin FirstStays
          BY <3>3 DEF FirstStays
        <4> QED
          BY <1>12, <3>1, <4>1, <4>2 DEF Allowed
      <3> QED
        BY <2>2, <3>2, <3>3, EntriesApartByName
    <2>3. CASE e \notin FactoryEntries
      BY <1>1, <2>1, <2>3, EntriesApartByName DEF ByRegistry, Allowed, ScopeFound, TransferAt, Tables
    <2> QED
      BY <2>2, <2>3
  <1> QED
    BY <1>8, <1>13, AllowedIsRegNext

(* FusionPassRegistrar and BufferFusionPassRegistrar.                        *)
LEMMA FusionStep ==
  ASSUME PassInv, NEW r \in {"graph", "buffer"}, NEW kind \in PassKinds \cup {BadPassKind},
         NEW name \in Types, NEW fn \in Makers, RegisterPass(r, kind, name, fn)
  PROVE  PassInv' /\ PassPromise!RegNext
  <1> USE NoMakerYet
  <1>1. /\ fusion' = IF kind = BadPassKind \/ name = NoName THEN fusion ELSE [fusion EXCEPT ![r][kind][name] = fn]
        /\ passCalls' = passCalls + 1
        /\ UNCHANGED <<factory, scopePass, plain, transfer, custom, running, ran, since>>
    BY DEF RegisterPass, PassCall
  <1>2. passCalls \in Nat /\ fusion \in [{"graph", "buffer"} -> [PassKinds -> MakerMaps]]
    BY DEF PassInv, PassTypeOK
  <1>3. CASE fusion' = fusion
    <2>1. PassTypeOK'
      <3>1. fusion' \in [{"graph", "buffer"} -> [PassKinds -> MakerMaps]] /\ passCalls' \in Nat
        BY <1>1, <1>2, <1>3
      <3> QED
        BY <1>1, <3>1 DEF PassInv, PassTypeOK
    <2>2. PassInv'
      BY <1>1, <1>2, <2>1, CustomAlone DEF PassInv, ListedOnce, ListedHasFn
    <2>3. ASSUME NEW e \in PassEntries PROVE PassFound(e)' = PassFound(e)
      BY <1>1, <1>3 DEF PassFound, FactoryGet, InTable, CreateOperator, ScopeFound, GetCreateFnByType,
                        FormatTransferExists, BuildFormatTransfer, TransferAt
    <2> QED
      BY <2>2, <2>3, AllowedIsRegNext DEF Allowed
  <1>4. CASE kind # BadPassKind /\ name # NoName
    <2>1. fusion' = [fusion EXCEPT ![r][kind][name] = fn] /\ kind \in PassKinds
      BY <1>1, <1>4
    <2>2. fusion' \in [{"graph", "buffer"} -> [PassKinds -> MakerMaps]]
      BY <1>2, <2>1 DEF MakerMaps, MakerVals
    <2>3. PassTypeOK'
      BY <1>1, <1>2, <2>2 DEF PassInv, PassTypeOK
    <2>4. PassInv'
      BY <1>1, <1>2, <2>3, CustomAlone DEF PassInv, ListedOnce, ListedHasFn
    <2>5. \A q \in {"graph", "buffer"}, k \in PassKinds, n \in Types :
            fusion'[q][k][n] = IF q = r /\ k = kind /\ n = name THEN fn ELSE fusion[q][k][n]
      BY <1>2, <2>1 DEF MakerMaps
    <2>6. ASSUME NEW e \in PassEntries PROVE Allowed(e, PassFound(e), PassFound(e)')
      <3>1. ByRegistry(e) /\ ByRegistry(e)'
        BY EntriesByRegistry, EntriesByRegistryNext
      <3>2. CASE e \in FusionEntries
        <4>1. PassFound(e) = fusion[e[1]][e[2]][e[3]] /\ PassFound(e)' = fusion'[e[1]][e[2]][e[3]]
          BY <3>1, <3>2, EntriesApartByName DEF ByRegistry, Tables
        <4>2. e \notin FirstStays
          BY <3>2, EntriesApartByName DEF FirstStays
        <4> QED
          BY <2>5, <3>2, <4>1, <4>2, EntriesApartByName DEF Allowed
      <3>3. CASE e \notin FusionEntries
        BY <1>1, <3>1, <3>3, EntriesApartByName
        DEF ByRegistry, Allowed, ScopeFound, TransferAt, Tables, FactoryGet, InTable, CreateOperator
      <3> QED
        BY <3>2, <3>3
    <2> QED
      BY <2>4, <2>6, AllowedIsRegNext
  <1> QED
    BY <1>1, <1>3, <1>4

(* The calls on the kernels, builders and tiling functions.                  *)
LEMMA PlainStep ==
  ASSUME PassInv,
         \/ \E t \in Types, fn \in Makers : RegisterHostCpuOp(t, fn) \/ RegisterBuilder(t, fn) \/ RegisterTiling(t, fn)
         \/ \E t \in Types : Unregister(t)
         \/ UnregisterAll
  PROVE  PassInv' /\ PassPromise!RegNext
  <1> USE NoMakerYet
  <1>1. /\ passCalls' = passCalls + 1
        /\ UNCHANGED <<factory, fusion, scopePass, transfer, custom, running, ran, since>>
    BY DEF RegisterHostCpuOp, RegisterBuilder, RegisterTiling, Unregister, UnregisterAll, PassCall
  <1>2. passCalls \in Nat /\ plain \in [{"kernel", "builder", "tiling"} -> MakerMaps]
    BY DEF PassInv, PassTypeOK
  <1>3. plain' \in [{"kernel", "builder", "tiling"} -> MakerMaps]
    BY <1>2 DEF RegisterHostCpuOp, RegisterBuilder, RegisterTiling, Unregister, UnregisterAll, MakerMaps, MakerVals
  <1>4. PassTypeOK'
    BY <1>1, <1>2, <1>3 DEF PassInv, PassTypeOK
  <1>5. PassInv'
    BY <1>1, <1>2, <1>4, CustomAlone DEF PassInv, ListedOnce, ListedHasFn
  <1>6. ASSUME NEW r \in {"kernel", "builder", "tiling"}, NEW u \in Types
        PROVE  \/ plain'[r][u] = plain[r][u]
               \/ plain[r][u] = NullMaker /\ plain'[r][u] \in Makers
               \/ r = "kernel" /\ plain'[r][u] \in Makers
               \/ r = "builder" /\ plain'[r][u] = NullMaker
    BY <1>2 DEF RegisterHostCpuOp, RegisterBuilder, RegisterTiling, Unregister, UnregisterAll, MakerMaps, MakerVals
  <1>7. ASSUME NEW e \in PassEntries PROVE Allowed(e, PassFound(e), PassFound(e)')
    <2>1. ByRegistry(e) /\ ByRegistry(e)'
      BY EntriesByRegistry, EntriesByRegistryNext
    <2>2. CASE e \in PlainEntries
      <3>1. PassFound(e) = plain[e[1]][e[2]] /\ PassFound(e)' = plain'[e[1]][e[2]]
        BY <2>1, <2>2, EntriesApartByName DEF ByRegistry, Tables
      <3>2. e[1] = "kernel" => e \notin FirstStays
        BY DEF FirstStays
      <3>3. e[1] = "builder" => e \in {"builder"} \X Types
        BY <2>2 DEF PlainEntries
      <3> QED
        BY <1>6, <2>2, <3>1, <3>2, <3>3, EntriesApartByName DEF Allowed
    <2>3. CASE e \notin PlainEntries
      BY <1>1, <2>1, <2>3, EntriesApartByName
      DEF ByRegistry, Allowed, ScopeFound, TransferAt, Tables, FactoryGet, InTable, CreateOperator
    <2> QED
      BY <2>2, <2>3
  <1> QED
    BY <1>5, <1>7, AllowedIsRegNext

(* FormatTransferRegister.                                                   *)
LEMMA TransferStep ==
  ASSUME PassInv, NEW src \in Formats, NEW dst \in Formats, NEW fn \in Makers, RegisterFormatTransfer(src, dst, fn)
  PROVE  PassInv' /\ PassPromise!RegNext
  <1> USE NoMakerYet
  <1>1. /\ transfer' = [transfer EXCEPT ![<<src, dst>>] = fn] /\ passCalls' = passCalls + 1
        /\ UNCHANGED <<factory, fusion, scopePass, plain, custom, running, ran, since>>
    BY DEF RegisterFormatTransfer, PassCall
  <1>2. passCalls \in Nat /\ transfer \in [Formats \X Formats -> MakerVals]
    BY DEF PassInv, PassTypeOK
  <1>3. PassTypeOK'
    BY <1>1, <1>2 DEF PassInv, PassTypeOK, MakerVals
  <1>4. PassInv'
    BY <1>1, <1>2, <1>3, CustomAlone DEF PassInv, ListedOnce, ListedHasFn
  <1>5. ASSUME NEW p PROVE TransferAt(p)' = TransferAt(p) \/ TransferAt(p)' \in Makers
    BY <1>1, <1>2 DEF TransferAt
  <1>6. ASSUME NEW e \in PassEntries PROVE Allowed(e, PassFound(e), PassFound(e)')
    <2>1. ByRegistry(e) /\ ByRegistry(e)'
      BY EntriesByRegistry, EntriesByRegistryNext
    <2>2. CASE e \in TransferEntries
      <3> DEFINE p == <<GetPrimaryFormat(e[2]), GetPrimaryFormat(e[3])>>
      <3>1. PassFound(e) = TransferAt(p) /\ PassFound(e)' = TransferAt(p)'
        BY <2>1, <2>2, EntriesApartByName DEF ByRegistry, Tables
      <3>2. e \notin FirstStays
        BY <2>2, EntriesApartByName DEF FirstStays
      <3> QED
        BY <1>5, <3>1, <3>2 DEF Allowed
    <2>3. CASE e \notin TransferEntries
      BY <1>1, <2>1, <2>3, EntriesApartByName
      DEF ByRegistry, Allowed, ScopeFound, Tables, FactoryGet, InTable, CreateOperator
    <2> QED
      BY <2>2, <2>3
  <1> QED
    BY <1>4, <1>6, AllowedIsRegNext

(* A listed scope pass is found with its function, another is not found.     *)
LEMMA ScopeFoundIs ==
  PassInv => \A n \in Types :
    ScopeFound(n) = IF Contains(scopePass.names, n) THEN scopePass.pack[n].fn ELSE NullMaker
  <1> SUFFICES ASSUME PassInv, NEW n \in Types
               PROVE  ScopeFound(n) = IF Contains(scopePass.names, n) THEN scopePass.pack[n].fn ELSE NullMaker
    OBVIOUS
  <1> DEFINE at == {i \in 1..Len(scopePass.names) : scopePass.names[i] = n}
  <1>1. IsFiniteSet(at) /\ Cardinality(at) <= 1
    <2>1. CASE at = {}
      BY <2>1, FS_EmptySet
    <2>2. CASE at # {}
      <3>1. PICK i \in at : TRUE
        BY <2>2
      <3>2. at = {i}
        BY <3>1 DEF PassInv, ListedOnce
      <3> HIDE DEF at
      <3> QED
        <4>1. IsFiniteSet({i}) /\ Cardinality({i}) = 1
          BY FS_Singleton
        <4> QED
          BY <3>2, <4>1
    <2> QED
      BY <2>1, <2>2
  <1>2. Cardinality(at) \in Nat
    BY <1>1, FS_CardinalityType
  <1>3. ~(Cardinality(at) > 1)
    BY <1>1, <1>2
  <1> QED
    BY <1>3 DEF ScopeFound

LEMMA ScopeFoundNext ==
  PassInv' => \A n \in Types :
    ScopeFound(n)' = IF Contains(scopePass.names, n)' THEN scopePass'.pack[n].fn ELSE NullMaker
  <1>1. (PassInv => \A n \in Types :
          ScopeFound(n) = IF Contains(scopePass.names, n) THEN scopePass.pack[n].fn ELSE NullMaker)'
    BY ScopeFoundIs, PTL
  <1> QED
    BY <1>1

(* ScopeFusionPassRegistryImpl: registration and the enable flag.            *)
LEMMA ScopeStep ==
  ASSUME PassInv, NEW name \in Types, NEW fn \in MakerVals, NEW flag \in BOOLEAN,
         (fn \in Makers /\ RegisterScopeFusionPass(name, fn, flag)) \/ SetPassEnableFlag(name, flag)
  PROVE  PassInv' /\ PassPromise!RegNext
  <1> USE NoMakerYet
  <1> DEFINE names == scopePass.names
             pack == scopePass.pack
             N == Len(names)
  <1>1. /\ passCalls' = passCalls + 1
        /\ UNCHANGED <<factory, fusion, plain, transfer, custom, running, ran, since>>
    BY DEF RegisterScopeFusionPass, SetPassEnableFlag, PassCall
  <1>2. /\ passCalls \in Nat /\ names \in Seq(Types) /\ N \in Nat /\ pack \in [Types -> [fn : MakerVals, on : BOOLEAN]]
        /\ scopePass = [names |-> names, pack |-> pack]
    BY LenProperties DEF PassInv, PassTypeOK
  <1>3. Contains(names, name) <=> \E i \in 1..N : names[i] = name
    BY DEF Contains
  <1>4. \A u \in Types : Contains(names, u) => pack[u].fn \in Makers
    BY DEF PassInv, ListedHasFn, Contains
  <1>5. CASE scopePass' = scopePass
    <2>1. PassTypeOK'
      <3>1. scopePass' \in [names : Seq(Types), pack : [Types -> [fn : MakerVals, on : BOOLEAN]]] /\ passCalls' \in Nat
        BY <1>1, <1>2, <1>5
      <3> QED
        BY <1>1, <3>1 DEF PassInv, PassTypeOK
    <2>2. ListedOnce' /\ ListedHasFn'
      BY <1>5 DEF PassInv, ListedOnce, ListedHasFn
    <2>3. PassInv'
      BY <1>1, <1>2, <2>1, <2>2, CustomAlone DEF PassInv
    <2>4. ASSUME NEW e \in PassEntries PROVE PassFound(e)' = PassFound(e)
      BY <1>1, <1>5 DEF PassFound, FactoryGet, InTable, CreateOperator, ScopeFound, GetCreateFnByType,
                        FormatTransferExists, BuildFormatTransfer, TransferAt
    <2> QED
      BY <2>3, <2>4, AllowedIsRegNext DEF Allowed
  <1>6. CASE /\ ~Contains(names, name) /\ fn \in Makers
             /\ scopePass' = [names |-> Append(names, name), pack |-> [pack EXCEPT ![name] = [fn |-> fn, on |-> flag]]]
    <2> DEFINE names2 == Append(names, name)
               pack2 == [pack EXCEPT ![name] = [fn |-> fn, on |-> flag]]
    <2>1. scopePass'.names = names2 /\ scopePass'.pack = pack2
      BY <1>6
    <2>2. /\ names2 \in Seq(Types) /\ Len(names2) = N + 1 /\ names2[N + 1] = name
          /\ \A i \in 1..N : names2[i] = names[i]
      BY <1>2, AppendProperties
    <2>3. /\ pack2 \in [Types -> [fn : MakerVals, on : BOOLEAN]]
          /\ \A u \in Types : pack2[u].fn = IF u = name THEN fn ELSE pack[u].fn
      BY <1>2 DEF MakerVals
    <2>4. \A i \in 1..N : names[i] # name /\ names[i] \in Types
      BY <1>2, <1>3, <1>6, ElementOfSeq
    <2> HIDE DEF names2, pack2, N
    <2>5. ListedOnce'
      <3> SUFFICES ASSUME NEW i \in 1..(N + 1), NEW j \in 1..(N + 1), names2[i] = names2[j] PROVE i = j
        BY <2>1, <2>2 DEF ListedOnce
      <3>1. CASE i \in 1..N /\ j \in 1..N
        BY <2>2, <3>1 DEF PassInv, ListedOnce, N
      <3>2. CASE i = N + 1 \/ j = N + 1
        <4>1. CASE i = N + 1 /\ j # N + 1
          <5>1. j \in 1..N /\ names2[j] = names[j]
            BY <1>2, <2>2, <4>1
          <5> QED
            BY <2>2, <2>4, <4>1, <5>1
        <4>2. CASE i # N + 1 /\ j = N + 1
          <5>1. i \in 1..N /\ names2[i] = names[i]
            BY <1>2, <2>2, <4>2
          <5> QED
            BY <2>2, <2>4, <4>2, <5>1
        <4> QED
          BY <3>2, <4>1, <4>2
      <3> QED
        BY <1>2, <3>1, <3>2
    <2>6. ListedHasFn'
      <3> SUFFICES ASSUME NEW i \in 1..(N + 1) PROVE pack2[names2[i]].fn \in Makers
        BY <2>1, <2>2 DEF ListedHasFn
      <3>1. CASE i = N + 1
        BY <1>6, <2>2, <2>3, <3>1
      <3>2. CASE i # N + 1
        <4>1. i \in 1..N /\ names2[i] = names[i]
          BY <1>2, <2>2, <3>2
        <4>2. pack[names[i]].fn \in Makers
          BY <4>1 DEF PassInv, ListedHasFn, N
        <4> QED
          BY <2>3, <2>4, <4>1, <4>2
      <3> QED
        BY <3>1, <3>2
    <2>7. PassTypeOK'
      <3>1. scopePass' \in [names : Seq(Types), pack : [Types -> [fn : MakerVals, on : BOOLEAN]]]
        BY <1>6, <2>2, <2>3 DEF names2, pack2
      <3> QED
        BY <1>1, <1>2, <3>1 DEF PassInv, PassTypeOK
    <2>8. PassInv'
      BY <1>1, <1>2, <2>5, <2>6, <2>7, CustomAlone DEF PassInv
    <2>9. ASSUME NEW u \in Types
          PROVE  ScopeFound(u)' = ScopeFound(u) \/ (ScopeFound(u) = NullMaker /\ ScopeFound(u)' \in Makers)
      <3>1. ScopeFound(u) = IF Contains(names, u) THEN pack[u].fn ELSE NullMaker
        BY ScopeFoundIs
      <3>2. ScopeFound(u)' = IF Contains(names2, u) THEN pack2[u].fn ELSE NullMaker
        BY <2>1, <2>8, ScopeFoundNext DEF Contains
      <3>3. Contains(names2, u) <=> Contains(names, u) \/ u = name
        <4>1. Contains(names2, u) <=> \E i \in 1..(N + 1) : names2[i] = u
          BY <2>2 DEF Contains
        <4>2. Contains(names, u) <=> \E i \in 1..N : names[i] = u
          BY DEF Contains, N
        <4>3. \A i \in 1..(N + 1) : i \in 1..N \/ i = N + 1
          BY <1>2
        <4>4. (\A i \in 1..N : i \in 1..(N + 1)) /\ N + 1 \in 1..(N + 1)
          BY <1>2
        <4> QED
          BY <2>2, <4>1, <4>2, <4>3, <4>4
      <3> QED
        BY <1>6, <2>3, <3>1, <3>2, <3>3
    <2>10. ASSUME NEW e \in PassEntries PROVE Allowed(e, PassFound(e), PassFound(e)')
      <3>1. ByRegistry(e) /\ ByRegistry(e)'
        BY EntriesByRegistry, EntriesByRegistryNext
      <3>2. CASE e \in ScopeEntries
        <4>1. PassFound(e) = ScopeFound(e[2]) /\ PassFound(e)' = ScopeFound(e[2])'
          BY <3>1, <3>2, EntriesApartByName DEF ByRegistry, Tables
        <4> QED
          BY <2>9, <3>2, <4>1, EntriesApartByName DEF Allowed
      <3>3. CASE e \notin ScopeEntries
        BY <1>1, <3>1, <3>3, EntriesApartByName
        DEF ByRegistry, Allowed, TransferAt, Tables, FactoryGet, InTable, CreateOperator
      <3> QED
        BY <3>2, <3>3
    <2> QED
      BY <2>8, <2>10, AllowedIsRegNext
  <1>7. CASE Contains(names, name) /\ scopePass' = [scopePass EXCEPT !.pack[name].on = flag]
    <2> DEFINE pack2 == [pack EXCEPT ![name].on = flag]
    <2>1. scopePass' = [names |-> names, pack |-> pack2]
      BY <1>2, <1>7
    <2>2. /\ pack2 \in [Types -> [fn : MakerVals, on : BOOLEAN]]
          /\ \A u \in Types : pack2[u].fn = pack[u].fn
      BY <1>2
    <2>3. scopePass'.names = names /\ scopePass'.pack = pack2
      BY <2>1
    <2> HIDE DEF pack2
    <2>4. ListedOnce' /\ ListedHasFn'
      <3>1. \A i \in 1..N : names[i] \in Types
        BY <1>2, ElementOfSeq
      <3> QED
        BY <2>2, <2>3, <3>1 DEF PassInv, ListedOnce, ListedHasFn
    <2>5. PassTypeOK'
      <3>1. scopePass' \in [names : Seq(Types), pack : [Types -> [fn : MakerVals, on : BOOLEAN]]]
        BY <1>2, <2>1, <2>2
      <3> QED
        BY <1>1, <1>2, <3>1 DEF PassInv, PassTypeOK
    <2>6. PassInv'
      BY <1>1, <1>2, <2>4, <2>5, CustomAlone DEF PassInv
    <2>7. ASSUME NEW u \in Types PROVE ScopeFound(u)' = ScopeFound(u)
      BY <2>2, <2>3, <2>6, ScopeFoundIs, ScopeFoundNext DEF Contains
    <2>8. ASSUME NEW e \in PassEntries PROVE PassFound(e)' = PassFound(e)
      <3>1. ByRegistry(e) /\ ByRegistry(e)'
        BY EntriesByRegistry, EntriesByRegistryNext
      <3> QED
        BY <1>1, <2>7, <3>1, EntriesApartByName
        DEF ByRegistry, TransferAt, Tables, FactoryGet, InTable, CreateOperator
    <2> QED
      BY <2>6, <2>8, AllowedIsRegNext DEF Allowed
  <1> QED
    BY <1>5, <1>6, <1>7 DEF RegisterScopeFusionPass, SetPassEnableFlag

(* Every call keeps the invariant and is one that RegistrySpec allows.       *)
LEMMA PassNextInv == PassInv /\ [PassNext]_passVars => PassInv' /\ [passCalls' # passCalls => PassPromise!RegNext]_passVars
  <1> SUFFICES ASSUME PassInv, [PassNext]_passVars
               PROVE  PassInv' /\ (passCalls' # passCalls => PassPromise!RegNext)
    OBVIOUS
  <1>1. CASE UNCHANGED passVars
    <2>1. passCalls' = passCalls
      BY <1>1 DEF passVars
    <2>2. PassInv'
      BY <1>1 DEF passVars, PassInv, PassTypeOK, ListedOnce, ListedHasFn, CustomSorted, InsertedBefore, RanSorted,
                  RunBegan, RanIsBehind, NoneSkipped, ComesBefore
    <2> QED
      BY <2>1, <2>2
  <1>2. ASSUME NEW table \in Tables, NEW t \in Types, NEW fn \in Makers, Registrar(table, t, fn)
        PROVE  PassInv' /\ PassPromise!RegNext
    BY <1>2, FactoryStep DEF Registrar
  <1>3. ASSUME NEW k \in PassKinds \cup {BadPassKind}, NEW n \in Types, NEW fn \in Makers,
               RegisterGraphPass(k, n, fn) \/ RegisterBufferPass(k, n, fn)
        PROVE  PassInv' /\ PassPromise!RegNext
    BY <1>3, FusionStep DEF RegisterGraphPass, RegisterBufferPass
  <1>4. ASSUME NEW n \in Types, NEW fn \in Makers, NEW g \in BOOLEAN, ScopeRegistrar(n, fn, g)
        PROVE  PassInv' /\ PassPromise!RegNext
    BY <1>4, ScopeStep DEF ScopeRegistrar, MakerVals
  <1>5. ASSUME NEW n \in Types, NEW f \in BOOLEAN, SetPassEnableFlag(n, f)
        PROVE  PassInv' /\ PassPromise!RegNext
    <2>1. NullMaker \in MakerVals
      BY DEF MakerVals
    <2> QED
      BY <1>5, <2>1, ScopeStep
  <1>6. ASSUME NEW t \in Types, NEW fn \in Makers, RegisterHostCpuOp(t, fn) \/ RegisterBuilder(t, fn) \/ RegisterTiling(t, fn)
        PROVE  PassInv' /\ PassPromise!RegNext
    BY <1>6, PlainStep
  <1>7. ASSUME (\E t \in Types : Unregister(t)) \/ UnregisterAll
        PROVE  PassInv' /\ PassPromise!RegNext
    BY <1>7, PlainStep
  <1>8. ASSUME NEW s \in Formats, NEW d \in Formats, NEW fn \in Makers, RegisterFormatTransfer(s, d, fn)
        PROVE  PassInv' /\ PassPromise!RegNext
    BY <1>8, TransferStep
  <1>9. ASSUME \/ \E n \in Types, p \in Priorities, fn \in Makers \cup {NullMaker} : InsertCustomPass(n, p, fn)
               \/ RunCustomPasses
               \/ \E success \in BOOLEAN : CallCustomPass(success)
        PROVE  PassInv' /\ PassPromise!RegNext
    <2>1. PassInv'
      BY <1>9, InsertKeepsPass, RunKeepsPass, CallKeepsPass DEF MakerVals
    <2>2. UNCHANGED <<factory, fusion, scopePass, plain, transfer>>
      BY <1>9 DEF InsertCustomPass, Inserted, RunCustomPasses, CallCustomPass
    <2>3. ASSUME NEW e \in PassEntries PROVE PassFound(e)' = PassFound(e)
      BY <2>2 DEF PassFound, FactoryGet, InTable, CreateOperator, ScopeFound, GetCreateFnByType,
                  FormatTransferExists, BuildFormatTransfer, TransferAt
    <2> QED
      BY <2>1, <2>3, AllowedIsRegNext DEF Allowed
  <1> QED
    BY <1>1, <1>2, <1>3, <1>4, <1>5, <1>6, <1>7, <1>8, <1>9 DEF PassNext

LEMMA PassInitRefines == PassInit => PassPromise!RegInit
  <1> SUFFICES ASSUME PassInit, NEW e \in PassEntries PROVE PassFound(e) = NullMaker
    BY DEF PassPromise!RegInit
  <1>1. ByRegistry(e)
    BY EntriesByRegistry
  <1>2. e \in TransferEntries => PassFound(e) = NullMaker
    BY <1>1, EntriesApartByName DEF ByRegistry, PassInit, TransferAt, Tables
  <1>3. e \in FactoryEntries => PassFound(e) = NullMaker
    BY <1>1, EntriesApartByName DEF ByRegistry, PassInit, FactoryGet, InTable, CreateOperator, Tables
  <1>4. e \in ScopeEntries => PassFound(e) = NullMaker
    <2>1. PassInv /\ Len(scopePass.names) = 0
      BY PassInitInv DEF PassInit
    <2>2. \A n \in Types : ScopeFound(n) = NullMaker
      BY <2>1, ScopeFoundIs DEF Contains
    <2> QED
      BY <1>1, <2>2, EntriesApartByName DEF ByRegistry, Tables
  <1>5. e \in PlainEntries \cup FusionEntries => PassFound(e) = NullMaker
    BY <1>1, EntriesApartByName, NoMakerYet DEF ByRegistry, PassInit, Tables
  <1> QED
    BY <1>1, <1>2, <1>3, <1>4, <1>5 DEF ByRegistry

LEMMA PassInvInOrder == PassInv => CustomPassesInOrder
  BY DEF PassInv, RanSorted, NoneSkipped, CustomPassesInOrder

-----------------------------------------------------------------------------
(* The parts together.                                                       *)
RegistriesInv == OpInv /\ PassInv /\ CtxInv /\ StatInv
regVars == <<part, opVars, passVars, ctxVars, statVars>>

LEMMA StepOfOnePart ==
  [MCNext]_regVars => [OpNext]_opVars /\ [PassNext]_passVars /\ [CtxNext]_ctxVars /\ [StatNext]_statVars
  BY Zenon DEF MCNext, regVars

(* The inductive invariant of the four parts: what each registry holds is    *)
(* whole and of the first who claimed it, contexts belong to the executions  *)
(* that created them, counts add up (register.cpp, the pass registries,      *)
(* runtime_inference_context.cc, fusion_statistic_recorder.cc).              *)
THEOREM RegistriesInvariant == MCSpec => []RegistriesInv
  <1>1. MCInit => RegistriesInv
    BY OpInitInv, PassInitInv, CtxInitInv, StatInitInv DEF MCInit, RegistriesInv
  <1>2. RegistriesInv /\ [MCNext]_regVars => RegistriesInv'
    BY StepOfOnePart, OpNextInv, PassNextInv, CtxNextInv, StatNextInv DEF RegistriesInv
  <1> QED
    BY <1>1, <1>2, PTL DEF MCSpec, regVars

(* What threads share is exact, for any threads, executions, sessions,       *)
(* addresses, tensors, counts and width of the counters                      *)
(* (RuntimeInferenceContext, GEThreadLocalContext, FusionStatisticRecorder). *)
THEOREM SharedStateStaysExact == MCSpec => []SharedStateIsExact
  <1>1. RegistriesInv => SharedStateIsExact
    BY CtxInvServes DEF RegistriesInv, StatInv, SharedStateIsExact
  <1> QED
    BY <1>1, RegistriesInvariant, PTL

(* OpRegistry implements RegistrySpec: a lookup by key, om type or original  *)
(* type answers with one whole registration and never changes its answer,    *)
(* also when parser keys of different names coincide (register.cpp 930-1083).*)
THEOREM OpRegistryRefines == MCSpec => OpRegistryPromise
  <1>1. MCInit => OpPromise!RegInit
    BY OpInitRefines DEF MCInit
  <1>2. RegistriesInv /\ RegistriesInv' /\ [MCNext]_regVars
          => [OpPromise!RegNext]_([e \in OpEntries |-> Found(e)])
    BY StepOfOnePart, OpStepRefines DEF RegistriesInv
  <1> QED
    BY <1>1, <1>2, RegistriesInvariant, PTL DEF MCSpec, regVars, OpRegistryPromise, OpPromise!RegSpec

(* The pass registries implement RegistrySpec call by call, and a run takes  *)
(* the custom passes in their order and skips none that was there, also when *)
(* passes register others (operator_factory_impl.cc, the registries of       *)
(* passes, kernels, builders, tiling and formats, register_pass.cpp 97-116). *)
THEOREM PassesStayAsRegistered == MCSpec => PassesAsRegistered
  <1>1. MCInit => PassPromise!RegInit
    BY PassInitRefines DEF MCInit
  <1>2. RegistriesInv /\ [MCNext]_regVars => [passCalls' # passCalls => PassPromise!RegNext]_passVars
    BY StepOfOnePart, PassNextInv DEF RegistriesInv
  <1>3. RegistriesInv => CustomPassesInOrder
    BY PassInvInOrder DEF RegistriesInv
  <1> QED
    BY <1>1, <1>2, <1>3, RegistriesInvariant, PTL DEF MCSpec, regVars, PassesAsRegistered, PassRegistryPromise

-----------------------------------------------------------------------------
(* Counting.                                                                  *)
Below == OpToRel(<, Nat)

LEMMA LeastNumber ==
  ASSUME NEW S, S \subseteq Nat, S # {}
  PROVE  \E x \in S : \A y \in S : x <= y
  <1>1. IsWellFoundedOn(Below, Nat)
    BY NatLessThanWellFounded DEF Below
  <1>2. PICK x \in S : \A y \in S : ~(<<y, x>> \in Below)
    BY <1>1, WFMin
  <1>3. ASSUME NEW y \in S PROVE x <= y
    <2>1. x \in Nat /\ y \in Nat /\ ~(<<y, x>> \in Below)
      BY <1>2
    <2>2. ~(y < x)
      BY <2>1 DEF Below, OpToRel
    <2> QED
      BY <2>1, <2>2
  <1> QED
    BY <1>3

(* What holds of 0, and of a number when of the one before.                   *)
LEMMA CountUp ==
  ASSUME NEW n \in Nat, NEW A, 0 \in A, \A k \in 1..n : k - 1 \in A => k \in A
  PROVE  \A k \in 0..n : k \in A
  <1> DEFINE Rest == {k \in 0..n : k \notin A}
  <1> SUFFICES ASSUME Rest # {} PROVE FALSE
    OBVIOUS
  <1>1. Rest \subseteq Nat
    OBVIOUS
  <1>2. PICK k \in Rest : \A l \in Rest : k <= l
    <2> HIDE DEF Rest
    <2> QED
      BY <1>1, LeastNumber
  <1>3. k \in 1..n /\ k - 1 \in 0..n /\ k - 1 \notin Rest
    BY <1>2
  <1> QED
    BY <1>3

(* A recursion over 0..n whose values stay in D has a solution.               *)
Solves(f, D, n, first, F) == /\ f \in [0..n -> D] /\ f[0] = first
                             /\ \A k \in 1..n : f[k] = F[<<f[k-1], k>>]

LEMMA RunExists ==
  ASSUME NEW D, NEW n \in Nat, NEW first \in D, NEW F, \A x \in D, k \in 1..n : F[<<x, k>>] \in D
  PROVE  \E f : Solves(f, D, n, first, F)
  <1> DEFINE A == {m \in 0..n : \E f : Solves(f, D, m, first, F)}
  <1>1. 0 \in A
    <2> DEFINE a == [k \in 0..0 |-> first]
    <2>1. a \in [0..0 -> D] /\ a[0] = first /\ 1..0 = {}
      OBVIOUS
    <2> HIDE DEF a
    <2>2. Solves(a, D, 0, first, F)
      BY <2>1 DEF Solves
    <2> QED
      BY <2>2
  <1>2. ASSUME NEW m \in 1..n, m - 1 \in A PROVE m \in A
    <2>1. PICK g : Solves(g, D, m - 1, first, F)
      BY <1>2
    <2> DEFINE v == F[<<g[m-1], m>>]
               a == [k \in 0..m |-> IF k = m THEN v ELSE g[k]]
    <2>2. v \in D /\ g \in [0..m-1 -> D] /\ g[0] = first
      <3>1. m - 1 \in 0..m-1 /\ g \in [0..m-1 -> D] /\ g[0] = first
        BY <2>1 DEF Solves
      <3>2. g[m-1] \in D
        BY <3>1
      <3> QED
        BY <3>1, <3>2
    <2> HIDE DEF v
    <2>3. a \in [0..m -> D] /\ a[m] = v /\ \A k \in 0..m-1 : a[k] = g[k]
      BY <2>2
    <2> HIDE DEF a
    <2>4. a[0] = first
      <3>1. 0 \in 0..m-1
        OBVIOUS
      <3> QED
        BY <2>2, <2>3, <3>1
    <2>5. ASSUME NEW k \in 1..m PROVE a[k] = F[<<a[k-1], k>>]
      <3>0. k - 1 \in 0..m-1
        OBVIOUS
      <3>1. CASE k = m
        BY <2>3, <3>0, <3>1 DEF v
      <3>2. CASE k # m
        <4>1. k \in 1..m-1 /\ k \in 0..m-1
          BY <3>2
        <4>2. g[k] = F[<<g[k-1], k>>]
          BY <2>1, <4>1 DEF Solves
        <4>3. a[k] = g[k] /\ a[k-1] = g[k-1]
          BY <2>3, <3>0, <4>1
        <4> QED
          BY <4>2, <4>3
      <3> QED
        BY <3>1, <3>2
    <2>6. Solves(a, D, m, first, F)
      BY <2>3, <2>4, <2>5 DEF Solves
    <2> QED
      BY <2>6
  <1>3. \A m \in 0..n : m \in A
    <2> HIDE DEF A
    <2> QED
      BY <1>1, <1>2, CountUp
  <1> QED
    BY <1>3

(* What a recursion chooses is a solution: its values are in D.               *)
LEMMA RunStays ==
  ASSUME NEW D, NEW n \in Nat, NEW f, NEW F, DOMAIN f = 0..n, f = [k \in 0..n |-> f[k]], f[0] \in D,
         \A k \in 1..n : f[k-1] \in D => f[k] \in D
  PROVE  f \in [0..n -> D]
  <1> DEFINE A == {k \in 0..n : f[k] \in D}
  <1>1. 0 \in A
    OBVIOUS
  <1>2. ASSUME NEW k \in 1..n, k - 1 \in A PROVE k \in A
    BY <1>2
  <1>3. \A k \in 0..n : k \in A
    <2> HIDE DEF A
    <2> QED
      BY <1>1, <1>2, CountUp
  <1> QED
    BY <1>3


-----------------------------------------------------------------------------
(* Operator descriptions.  The names, the tensor descriptions and the ports    *)
(* of a program: every position has one name.                                  *)
PortBases == (UNION {{Ir[o][i].name : i \in DOMAIN Ir[o]} : o \in Operator}) \cup {"__input", "__output", "f"}
PortNames == {Plain(b) : b \in PortBases} \cup {Numbered(b, i) : b \in PortBases, i \in Nat}
PortDescs == [type : DataTypes \cup {"float", "undefined"}, format : DataFormats \cup {"ND", "reserved"}]
Indexes == UNION {[M -> Nat] : M \in SUBSET PortNames}
PortsRight(p) ==
    /\ \A n \in DOMAIN p.idx : p.idx[n] \in 0..Len(p.desc)-1
    /\ \A m, n \in DOMAIN p.idx : p.idx[m] = p.idx[n] => m = n
    /\ \A i \in 0..Len(p.desc)-1 : \E n \in DOMAIN p.idx : p.idx[n] = i
RightPorts == {p \in [desc : Seq(PortDescs), idx : Indexes, reg : Seq(PortNames)] : PortsRight(p)}

LEMMA NamesAre ==
  /\ \A b \in PortBases : Plain(b) \in PortNames
  /\ \A b \in PortBases, i \in Nat : Numbered(b, i) \in PortNames
  /\ \A b, c, i : Plain(b) # Numbered(c, i)
  /\ \A b, c, i, j : Numbered(b, i) = Numbered(c, j) => i = j /\ b = c
  /\ \A b, i : Numbered(b, i)[1] = b /\ Numbered(b, i)[2] = i /\ Plain(b)[1] = b
  <1>1. \A b, c, i : Plain(b) # Numbered(c, i)
    BY DEF Plain, Numbered
  <1>2. \A b, c, i, j : Numbered(b, i) = Numbered(c, j) => i = j /\ b = c
    BY DEF Numbered
  <1>3. \A b, i : Numbered(b, i)[1] = b /\ Numbered(b, i)[2] = i /\ Plain(b)[1] = b
    BY DEF Numbered, Plain
  <1> QED
    BY <1>1, <1>2, <1>3 DEF PortNames

LEMMA DescsAre ==
  DefaultDesc \in PortDescs /\ OptionalDesc \in PortDescs
  BY DEF DefaultDesc, OptionalDesc, PortDescs

LEMMA IndexIs ==
  /\ \A f \in Indexes : DOMAIN f \subseteq PortNames /\ f = [n \in DOMAIN f |-> f[n]] /\ \A n \in DOMAIN f : f[n] \in Nat
  /\ \A f : DOMAIN f \subseteq PortNames /\ f = [n \in DOMAIN f |-> f[n]] /\ (\A n \in DOMAIN f : f[n] \in Nat) => f \in Indexes
  <1>1. ASSUME NEW f \in Indexes
        PROVE  DOMAIN f \subseteq PortNames /\ f = [n \in DOMAIN f |-> f[n]] /\ \A n \in DOMAIN f : f[n] \in Nat
    <2>1. PICK M \in SUBSET PortNames : f \in [M -> Nat]
      BY DEF Indexes
    <2> QED
      BY <2>1
  <1>2. ASSUME NEW f, DOMAIN f \subseteq PortNames, f = [n \in DOMAIN f |-> f[n]], \A n \in DOMAIN f : f[n] \in Nat
        PROVE  f \in Indexes
    <2>1. f \in [DOMAIN f -> Nat]
      BY <1>2
    <2> QED
      BY <1>2, <2>1 DEF Indexes
  <1> QED
    BY <1>1, <1>2

LEMMA RightIs ==
  /\ \A p \in RightPorts :
       /\ p = [desc |-> p.desc, idx |-> p.idx, reg |-> p.reg]
       /\ p.desc \in Seq(PortDescs) /\ p.idx \in Indexes /\ p.reg \in Seq(PortNames) /\ PortsRight(p)
  /\ \A a \in Seq(PortDescs), b \in Indexes, c \in Seq(PortNames) :
       PortsRight([desc |-> a, idx |-> b, reg |-> c]) => [desc |-> a, idx |-> b, reg |-> c] \in RightPorts
  BY DEF RightPorts

-----------------------------------------------------------------------------
(* What PortsSpec says of two descriptions of ports, on the map of names.      *)
IsExtended(p, q) ==
    /\ DOMAIN p.idx \subseteq DOMAIN q.idx
    /\ \A m, n \in DOMAIN p.idx : p.idx[m] < p.idx[n] => q.idx[m] < q.idx[n]
IsKept(p, q) == \A n \in DOMAIN p.idx : q.desc[q.idx[n] + 1] = p.desc[p.idx[n] + 1]
IsGrown(p, q) == IsExtended(p, q) /\ IsKept(p, q)
IsAllowed(o, p, q) ==
    \/ IsExtended(p, q) /\ (o \in Parsed \/ IsKept(p, q))
    \/ q.idx = p.idx /\ Len(q.desc) = Len(p.desc)
    \/ q.desc = p.desc

LEMMA NameAt ==
  ASSUME NEW p \in RightPorts
  PROVE  /\ Len(p.desc) \in Nat /\ DOMAIN PortsOf(p) = 1..Len(p.desc) /\ DOMAIN p.desc = 1..Len(p.desc)
         /\ \A i \in 1..Len(p.desc) : /\ PortsOf(p)[i].desc = p.desc[i]
                                      /\ PortsOf(p)[i].name \in DOMAIN p.idx
                                      /\ p.idx[PortsOf(p)[i].name] = i - 1
         /\ \A n \in DOMAIN p.idx : /\ p.idx[n] + 1 \in 1..Len(p.desc)
                                    /\ PortsOf(p)[p.idx[n] + 1].name = n
  <1> DEFINE s == PortsOf(p)
             L == Len(p.desc)
  <1>1. /\ p.desc \in Seq(PortDescs) /\ p.idx \in Indexes /\ PortsRight(p)
    BY RightIs
  <1>2. L \in Nat /\ DOMAIN p.desc = 1..L
    BY <1>1
  <1>3. DOMAIN s = 1..L /\ \A i \in 1..L : s[i].name = GetInputNameByIndex(p, i - 1) /\ s[i].desc = p.desc[i]
    BY <1>2 DEF PortsOf
  <1> HIDE DEF L, s
  <1>4. ASSUME NEW i \in 1..L
        PROVE  s[i].name \in DOMAIN p.idx /\ p.idx[s[i].name] = i - 1
    <2>1. i - 1 \in 0..L-1
      BY <1>2
    <2>2. \E n \in DOMAIN p.idx : p.idx[n] = i - 1
      BY <1>1, <2>1 DEF PortsRight, L
    <2>3. GetInputNameByIndex(p, i - 1) = CHOOSE n \in DOMAIN p.idx : p.idx[n] = i - 1
      BY <2>2 DEF GetInputNameByIndex
    <2> QED
      BY <1>3, <2>2, <2>3
  <1>5. ASSUME NEW n \in DOMAIN p.idx
        PROVE  p.idx[n] + 1 \in 1..L /\ s[p.idx[n] + 1].name = n
    <2>1. p.idx[n] \in 0..L-1
      BY <1>1 DEF PortsRight, L
    <2>2. p.idx[n] + 1 \in 1..L /\ (p.idx[n] + 1) - 1 = p.idx[n]
      BY <1>2, <2>1
    <2>3. s[p.idx[n] + 1].name \in DOMAIN p.idx /\ p.idx[s[p.idx[n] + 1].name] = p.idx[n]
      BY <1>4, <2>2
    <2> QED
      BY <1>1, <2>2, <2>3 DEF PortsRight
  <1> QED
    BY <1>2, <1>3, <1>4, <1>5 DEF L, s

LEMMA ViewIs ==
  ASSUME NEW p \in RightPorts
  PROVE  /\ Promise!Names(PortsOf(p)) = DOMAIN p.idx
         /\ \A n \in DOMAIN p.idx : Promise!Where(PortsOf(p), n) = p.idx[n] + 1
         /\ Promise!Distinct(PortsOf(p))
  <1> DEFINE s == PortsOf(p)
             L == Len(p.desc)
  <1>1. /\ L \in Nat /\ DOMAIN s = 1..L
        /\ \A i \in 1..L : s[i].name \in DOMAIN p.idx /\ p.idx[s[i].name] = i - 1
        /\ \A n \in DOMAIN p.idx : p.idx[n] + 1 \in 1..L /\ s[p.idx[n] + 1].name = n
    BY NameAt
  <1> HIDE DEF s, L
  <1>2. Promise!Names(s) = DOMAIN p.idx
    BY <1>1 DEF Promise!Names
  <1>3. ASSUME NEW i \in 1..L, NEW j \in 1..L, s[i].name = s[j].name PROVE i = j
    <2>1. i - 1 = j - 1
      BY <1>1, <1>3
    <2> QED
      BY <1>1, <2>1
  <1>4. \A n \in DOMAIN p.idx : Promise!Where(s, n) = p.idx[n] + 1
    <2> TAKE n \in DOMAIN p.idx
    <2>1. p.idx[n] + 1 \in DOMAIN s /\ s[p.idx[n] + 1].name = n
      BY <1>1
    <2>2. \A i \in DOMAIN s : s[i].name = n => i = p.idx[n] + 1
      BY <1>1, <1>3, <2>1
    <2> QED
      BY <2>1, <2>2 DEF Promise!Where
  <1>5. Promise!Distinct(s)
    BY <1>1, <1>3 DEF Promise!Distinct
  <1> QED
    BY <1>2, <1>4, <1>5 DEF s

(* An allowed change is a step of PortsSpec.                                   *)
LEMMA AllowedIs ==
  ASSUME NEW o, NEW p \in RightPorts, NEW q \in RightPorts, IsAllowed(o, p, q)
  PROVE  LET s == PortsOf(p)
             t == PortsOf(q)
         IN  \/ Promise!Extend(s, t) /\ (o \in Parsed \/ Promise!Keep(s, t))
             \/ Promise!Describe(s, t)
             \/ Promise!Rename(s, t)
  <1> DEFINE s == PortsOf(p)
             t == PortsOf(q)
  <1>1. /\ Len(p.desc) \in Nat /\ DOMAIN s = 1..Len(p.desc)
        /\ \A i \in 1..Len(p.desc) : s[i].desc = p.desc[i] /\ s[i].name \in DOMAIN p.idx /\ p.idx[s[i].name] = i - 1
        /\ \A n \in DOMAIN p.idx : p.idx[n] + 1 \in 1..Len(p.desc) /\ s[p.idx[n] + 1].name = n
    BY NameAt
  <1>2. /\ Len(q.desc) \in Nat /\ DOMAIN t = 1..Len(q.desc)
        /\ \A i \in 1..Len(q.desc) : t[i].desc = q.desc[i] /\ t[i].name \in DOMAIN q.idx /\ q.idx[t[i].name] = i - 1
        /\ \A n \in DOMAIN q.idx : q.idx[n] + 1 \in 1..Len(q.desc) /\ t[q.idx[n] + 1].name = n
    BY NameAt
  <1>3. Len(s) = Len(p.desc) /\ Len(t) = Len(q.desc)
    BY <1>1, <1>2 DEF PortsOf
  <1>4. Promise!Names(s) = DOMAIN p.idx /\ Promise!Names(t) = DOMAIN q.idx /\ Promise!Distinct(t)
        /\ \A n \in DOMAIN q.idx : Promise!Where(t, n) = q.idx[n] + 1
    BY ViewIs
  <1>5. q.idx \in Indexes /\ p.idx \in Indexes /\ \A n \in DOMAIN q.idx : q.idx[n] \in Nat
    BY RightIs, IndexIs
  <1> HIDE DEF s, t
  <1>6. CASE IsExtended(p, q) /\ (o \in Parsed \/ IsKept(p, q))
    <2>1. Promise!Extend(s, t)
      <3>1. ASSUME NEW i \in DOMAIN s, NEW j \in 1..i-1 PROVE Promise!Where(t, s[j].name) < Promise!Where(t, s[i].name)
        <4>1. i \in 1..Len(p.desc) /\ j \in 1..Len(p.desc) /\ j - 1 < i - 1
          BY <1>1
        <4>2. s[i].name \in DOMAIN p.idx /\ s[j].name \in DOMAIN p.idx /\ p.idx[s[j].name] < p.idx[s[i].name]
          BY <1>1, <4>1
        <4>3. q.idx[s[j].name] < q.idx[s[i].name] /\ s[i].name \in DOMAIN q.idx /\ s[j].name \in DOMAIN q.idx
          BY <1>6, <4>2 DEF IsExtended
        <4> QED
          BY <1>4, <1>5, <4>3
      <3> QED
        BY <1>4, <1>6, <3>1 DEF Promise!Extend, IsExtended
    <2>2. IsKept(p, q) => Promise!Keep(s, t)
      <3> SUFFICES ASSUME IsKept(p, q), NEW i \in DOMAIN s PROVE t[Promise!Where(t, s[i].name)].desc = s[i].desc
        BY DEF Promise!Keep
      <3>1. i \in 1..Len(p.desc)
        BY <1>1
      <3> DEFINE n == s[i].name
      <3>2. n \in DOMAIN p.idx /\ p.idx[n] = i - 1 /\ s[i].desc = p.desc[i] /\ n \in DOMAIN q.idx
        BY <1>1, <1>6, <3>1 DEF IsExtended
      <3> HIDE DEF n
      <3>3. q.desc[q.idx[n] + 1] = p.desc[p.idx[n] + 1] /\ p.idx[n] + 1 = i
        BY <1>1, <3>1, <3>2 DEF IsKept
      <3>4. Promise!Where(t, n) = q.idx[n] + 1 /\ q.idx[n] + 1 \in 1..Len(q.desc)
        BY <1>2, <1>4, <3>2
      <3>5. t[q.idx[n] + 1].desc = q.desc[q.idx[n] + 1]
        BY <1>2, <3>4
      <3>6. t[Promise!Where(t, n)].desc = s[i].desc
        BY <3>2, <3>3, <3>4, <3>5
      <3> QED
        BY <3>6 DEF n
    <2> QED
      BY <1>6, <2>1, <2>2 DEF s, t
  <1>7. CASE q.idx = p.idx /\ Len(q.desc) = Len(p.desc)
    <2> SUFFICES ASSUME NEW i \in DOMAIN s PROVE t[i].name = s[i].name
      BY <1>3, <1>7 DEF Promise!Describe, s, t
    <2>1. i \in 1..Len(p.desc) /\ i \in 1..Len(q.desc)
      BY <1>1, <1>7
    <2>2. s[i].name \in DOMAIN q.idx /\ q.idx[s[i].name] + 1 = i
      BY <1>1, <1>7, <2>1
    <2> QED
      BY <1>2, <2>2
  <1>8. CASE q.desc = p.desc
    <2>1. Promise!Rename(s, t)
      BY <1>1, <1>2, <1>3, <1>4, <1>8 DEF Promise!Rename
    <2> QED
      BY <2>1 DEF s, t
  <1> QED
    BY <1>6, <1>7, <1>8 DEF IsAllowed

(* Sequences.                                                                 *)
LEMMA JoinIs ==
  ASSUME NEW S, NEW a \in Seq(S), NEW b \in Seq(S)
  PROVE  /\ a \o b \in Seq(S) /\ Len(a \o b) = Len(a) + Len(b)
         /\ (\A j \in 1..Len(a) : (a \o b)[j] = a[j]) /\ (\A j \in 1..Len(b) : (a \o b)[Len(a) + j] = b[j])
  <1>1. a \o b \in Seq(S) /\ Len(a \o b) = Len(a) + Len(b) /\ Len(a) \in Nat /\ Len(b) \in Nat
    OBVIOUS
  <1>2. \A j \in 1..Len(a) : (a \o b)[j] = a[j]
    OBVIOUS
  <1>3. ASSUME NEW j \in 1..Len(b) PROVE (a \o b)[Len(a) + j] = b[j]
    OBVIOUS
  <1> QED
    BY <1>1, <1>2, <1>3

(* One port.                                                                  *)
LEMMA RegisterIs ==
  ASSUME NEW p \in RightPorts, NEW name \in PortNames
  PROVE  LET q == AddRegisterInputName(p, name)
         IN  q \in RightPorts /\ q.desc = p.desc /\ q.idx = p.idx
  <1> DEFINE q == AddRegisterInputName(p, name)
             c == Append(p.reg, name)
             r == [desc |-> p.desc, idx |-> p.idx, reg |-> c]
  <1>1. /\ p = [desc |-> p.desc, idx |-> p.idx, reg |-> p.reg]
        /\ p.desc \in Seq(PortDescs) /\ p.idx \in Indexes /\ p.reg \in Seq(PortNames) /\ PortsRight(p)
    BY RightIs
  <1>2. c \in Seq(PortNames)
    BY <1>1
  <1>3. q = p \/ q = r
    BY <1>1 DEF AddRegisterInputName
  <1> HIDE DEF c, q
  <1>4. PortsRight(r)
    BY <1>1 DEF PortsRight
  <1>5. r \in RightPorts
    BY <1>1, <1>2, <1>4, RightIs
  <1> QED
    BY <1>3, <1>5 DEF q

LEMMA PushIs ==
  ASSUME NEW p \in RightPorts, NEW name \in PortNames, name \notin DOMAIN p.idx, NEW d \in PortDescs
  PROVE  LET q == PushPort(p, name, d)
         IN  /\ q \in RightPorts /\ IsGrown(p, q) /\ DOMAIN q.idx = DOMAIN p.idx \cup {name}
             /\ q.desc[q.idx[name] + 1] = d
  <1> DEFINE L == Len(p.desc)
             a == Append(p.desc, d)
             e == Entered(p.idx, name, L)
             r == [desc |-> a, idx |-> e, reg |-> p.reg]
             q == PushPort(p, name, d)
  <1>1. /\ p = [desc |-> p.desc, idx |-> p.idx, reg |-> p.reg]
        /\ p.desc \in Seq(PortDescs) /\ p.idx \in Indexes /\ p.reg \in Seq(PortNames) /\ PortsRight(p)
    BY RightIs
  <1>2. DOMAIN p.idx \subseteq PortNames /\ \A n \in DOMAIN p.idx : p.idx[n] \in Nat
    BY <1>1, IndexIs
  <1>3. L \in Nat /\ a \in Seq(PortDescs) /\ Len(a) = L + 1 /\ a[L + 1] = d /\ \A i \in 1..L : a[i] = p.desc[i]
    BY <1>1
  <1>4. /\ DOMAIN e = DOMAIN p.idx \cup {name} /\ e[name] = L /\ \A n \in DOMAIN p.idx : e[n] = p.idx[n]
        /\ e = [n \in DOMAIN e |-> e[n]]
    BY DEF Entered
  <1>5. q = AddRegisterInputName(r, name)
    <2> DEFINE z == [p EXCEPT !.desc = a, !.idx = e]
    <2>1. q = AddRegisterInputName(z, name)
      BY DEF PushPort, Size
    <2> HIDE DEF a, e
    <2>2. z = [p EXCEPT !.desc = a, !.idx = e]
      OBVIOUS
    <2> HIDE DEF z, q
    <2>3. z = r
      BY <1>1, <2>2
    <2> QED
      BY <2>1, <2>3
  <1>6. \A n \in DOMAIN p.idx : p.idx[n] \in 0..L-1
    BY <1>1 DEF PortsRight
  <1>7. \A m, n \in DOMAIN p.idx : p.idx[m] = p.idx[n] => m = n
    BY <1>1 DEF PortsRight
  <1>8. \A i \in 0..L-1 : \E n \in DOMAIN p.idx : p.idx[n] = i
    BY <1>1 DEF PortsRight
  <1> HIDE DEF L, a, e, q
  <1>9. e \in Indexes
    BY <1>2, <1>3, <1>4, IndexIs
  <1>10. PortsRight(r)
    <2>1. \A n \in DOMAIN e : e[n] \in 0..(L+1)-1
      BY <1>3, <1>4, <1>6
    <2>2. \A m, n \in DOMAIN e : e[m] = e[n] => m = n
      BY <1>3, <1>4, <1>6, <1>7
    <2>3. ASSUME NEW i \in 0..(L+1)-1 PROVE \E n \in DOMAIN e : e[n] = i
      <3>1. i = L \/ i \in 0..L-1
        BY <1>3
      <3> QED
        BY <1>4, <1>8, <3>1
    <2> QED
      BY <1>3, <2>1, <2>2, <2>3 DEF PortsRight
  <1>11. r \in RightPorts
    BY <1>1, <1>3, <1>9, <1>10, RightIs
  <1>12. q \in RightPorts /\ q.desc = a /\ q.idx = e
    BY <1>5, <1>11, RegisterIs
  <1>13. IsExtended(p, q)
    BY <1>4, <1>12 DEF IsExtended
  <1>14. IsKept(p, q)
    <2> SUFFICES ASSUME NEW n \in DOMAIN p.idx PROVE q.desc[q.idx[n] + 1] = p.desc[p.idx[n] + 1]
      BY DEF IsKept
    <2>1. p.idx[n] + 1 \in 1..L
      BY <1>3, <1>6
    <2> QED
      BY <1>3, <1>4, <1>12, <2>1
  <1> QED
    BY <1>3, <1>4, <1>12, <1>13, <1>14 DEF IsGrown, q

(* Descriptions that change in place.                                         *)
LEMMA DescribedIs ==
  ASSUME NEW p \in RightPorts, NEW a \in Seq(PortDescs), Len(a) = Len(p.desc),
         NEW q, q = [p EXCEPT !.desc = a]
  PROVE  q \in RightPorts /\ q.desc = a /\ q.idx = p.idx /\ q.reg = p.reg
  <1>1. /\ p = [desc |-> p.desc, idx |-> p.idx, reg |-> p.reg]
        /\ p.idx \in Indexes /\ p.reg \in Seq(PortNames) /\ PortsRight(p)
    BY RightIs
  <1>2. q = [desc |-> a, idx |-> p.idx, reg |-> p.reg]
    BY <1>1
  <1>3. PortsRight([desc |-> a, idx |-> p.idx, reg |-> p.reg])
    BY <1>1 DEF PortsRight
  <1> QED
    BY <1>1, <1>2, <1>3, RightIs

LEMMA UpdateIs ==
  ASSUME NEW p \in RightPorts, NEW name, NEW d \in PortDescs
  PROVE  LET q == UpdateInputDesc(p, name, d)
         IN  /\ q \in RightPorts /\ q.idx = p.idx /\ q.reg = p.reg /\ Len(q.desc) = Len(p.desc)
             /\ \A n \in DOMAIN p.idx : q.desc[p.idx[n] + 1] = IF n = name THEN d ELSE p.desc[p.idx[n] + 1]
  <1> DEFINE q == UpdateInputDesc(p, name, d)
             L == Len(p.desc)
             a == [p.desc EXCEPT ![p.idx[name] + 1] = d]
  <1>1. /\ p.desc \in Seq(PortDescs) /\ p.idx \in Indexes /\ PortsRight(p)
    BY RightIs
  <1>2. L \in Nat /\ DOMAIN p.desc = 1..L /\ \A n \in DOMAIN p.idx : p.idx[n] \in 0..L-1 /\ p.idx[n] \in Nat
    BY <1>1, IndexIs DEF PortsRight
  <1>3. CASE name \notin DOMAIN p.idx
    BY <1>3 DEF UpdateInputDesc, HasName
  <1>4. CASE name \in DOMAIN p.idx
    <2>1. q = [p EXCEPT !.desc = a]
      <3>1. HasName(p, name) /\ InRange(p, p.idx[name])
        BY <1>2, <1>4 DEF HasName, InRange, Size
      <3> QED
        BY <3>1 DEF UpdateInputDesc
    <2>2. p.desc \in [1..L -> PortDescs]
      BY <1>1
    <2>3. a \in [1..L -> PortDescs] /\ \A i \in 1..L : a[i] = IF i = p.idx[name] + 1 THEN d ELSE p.desc[i]
      BY <1>2, <2>2
    <2> HIDE DEF a, q
    <2>6. a \in Seq(PortDescs) /\ Len(a) = L
      BY <1>2, <2>3
    <2>4. q \in RightPorts /\ q.desc = a /\ q.idx = p.idx /\ q.reg = p.reg
      BY <2>1, <2>6, DescribedIs
    <2>5. ASSUME NEW n \in DOMAIN p.idx PROVE a[p.idx[n] + 1] = IF n = name THEN d ELSE p.desc[p.idx[n] + 1]
      <3>1. p.idx[n] + 1 \in 1..L
        BY <1>2
      <3>2. p.idx[n] + 1 = p.idx[name] + 1 => n = name
        <4>1. p.idx[n] + 1 = p.idx[name] + 1 => p.idx[n] = p.idx[name]
          BY <1>2, <1>4
        <4> QED
          BY <1>1, <1>4, <4>1 DEF PortsRight
      <3> QED
        BY <2>3, <3>1, <3>2
    <2> QED
      BY <2>4, <2>5, <2>6 DEF q
  <1> QED
    BY <1>3, <1>4

(* Ports in the middle.                                                       *)
NewPorts(p, names) ==
    /\ names \in Seq(PortNames) /\ \A k \in 1..Len(names) : names[k] \notin DOMAIN p.idx
    /\ \A k, l \in 1..Len(names) : names[k] = names[l] => k = l

LEMMA InsertIs ==
  ASSUME NEW p \in RightPorts, NEW i \in 0..Len(p.desc), NEW names, NewPorts(p, names)
  PROVE  LET q == InsertPorts(p, i, names)
         IN  /\ q \in RightPorts /\ IsGrown(p, q) /\ DOMAIN q.idx = DOMAIN p.idx \cup ToSet(names)
             /\ \A n \in DOMAIN q.idx \ DOMAIN p.idx : q.desc[q.idx[n] + 1] = DefaultDesc
             /\ q.reg = p.reg
  <1> DEFINE L == Len(p.desc)
             N == Len(names)
             b == [k \in DOMAIN names |-> DefaultDesc]
             a1 == SubSeq(p.desc, 1, i)
             a2 == SubSeq(p.desc, i + 1, Len(p.desc))
             a == a1 \o b \o a2
             x == ShiftFrom(p.idx, i, Len(names))
             e == [m \in DOMAIN x \cup ToSet(names) |->
                      IF m \in DOMAIN x THEN x[m] ELSE i + (CHOOSE k \in DOMAIN names : names[k] = m) - 1]
             q == InsertPorts(p, i, names)
             r == [desc |-> a, idx |-> e, reg |-> p.reg]
  <1>1. /\ p = [desc |-> p.desc, idx |-> p.idx, reg |-> p.reg]
        /\ p.desc \in Seq(PortDescs) /\ p.idx \in Indexes /\ p.reg \in Seq(PortNames) /\ PortsRight(p)
    BY RightIs
  <1>2. DOMAIN p.idx \subseteq PortNames /\ \A n \in DOMAIN p.idx : p.idx[n] \in Nat
    BY <1>1, IndexIs
  <1>3. /\ names \in Seq(PortNames) /\ N \in Nat /\ DOMAIN names = 1..N
        /\ \A k \in 1..N : names[k] \notin DOMAIN p.idx
        /\ \A k, l \in 1..N : names[k] = names[l] => k = l
    BY DEF NewPorts
  <1>4. L \in Nat /\ i \in Nat /\ i <= L
    BY <1>1
  <1>5. q = r
    <2>1. q = [p EXCEPT !.desc = a, !.idx = e]
      BY DEF InsertPorts
    <2> HIDE DEF a, e, q
    <2> QED
      BY <1>1, <2>1
  <1>6. /\ a1 \in Seq(PortDescs) /\ Len(a1) = i /\ (\A j \in 1..i : a1[j] = p.desc[j])
        /\ a2 \in Seq(PortDescs) /\ Len(a2) = L - i /\ (\A j \in 1..L-i : a2[j] = p.desc[i + j])
    BY <1>1, <1>4
  <1>7. b \in Seq(PortDescs) /\ Len(b) = N /\ (\A j \in 1..N : b[j] = DefaultDesc)
    <2>1. b \in [1..N -> PortDescs] /\ \A j \in 1..N : b[j] = DefaultDesc
      BY <1>3, DescsAre
    <2> HIDE DEF b
    <2> QED
      BY <1>3, <2>1
  <1>8. DOMAIN x = DOMAIN p.idx /\ \A m \in DOMAIN p.idx : x[m] = IF p.idx[m] >= i THEN p.idx[m] + N ELSE p.idx[m]
    BY DEF ShiftFrom
  <1>9. ToSet(names) = {names[k] : k \in 1..N}
    BY <1>3 DEF ToSet
  <1> HIDE DEF a1, a2, b, x
  <1> DEFINE c == a1 \o b
             M == L - i
             K == i + N
  <1>10. /\ c \in Seq(PortDescs) /\ Len(c) = K
         /\ (\A j \in 1..i : c[j] = a1[j]) /\ (\A j \in 1..N : c[i + j] = b[j])
    <2>1. a1 \in Seq(PortDescs) /\ b \in Seq(PortDescs) /\ Len(a1) = i /\ Len(b) = N
      BY <1>6, <1>7
    <2> HIDE DEF N, c
    <2>2. c \in Seq(PortDescs) /\ Len(c) = Len(a1) + Len(b)
      BY <2>1, JoinIs DEF c
    <2>3. \A j \in 1..Len(a1) : c[j] = a1[j]
      BY <2>1, JoinIs DEF c
    <2>4. \A j \in 1..Len(b) : c[Len(a1) + j] = b[j]
      BY <2>1, JoinIs DEF c
    <2> QED
      BY <2>1, <2>2, <2>3, <2>4
  <1> HIDE DEF c
  <1>11. /\ c \o a2 \in Seq(PortDescs) /\ Len(c \o a2) = K + M
         /\ (\A j \in 1..K : (c \o a2)[j] = c[j]) /\ (\A j \in 1..M : (c \o a2)[K + j] = a2[j])
    <2>1. K \in Nat /\ M \in Nat
      <3> HIDE DEF L, N
      <3> QED
        BY <1>3, <1>4
    <2>2. Len(a2) = M /\ a2 \in Seq(PortDescs)
      BY <1>6
    <2> HIDE DEF K, M
    <2>3. c \o a2 \in Seq(PortDescs) /\ Len(c \o a2) = Len(c) + Len(a2)
      BY <1>10, <2>2, JoinIs
    <2>4. \A j \in 1..Len(c) : (c \o a2)[j] = c[j]
      BY <1>10, <2>2, JoinIs
    <2>5. \A j \in 1..Len(a2) : (c \o a2)[Len(c) + j] = a2[j]
      BY <1>10, <2>2, JoinIs
    <2>6. Len(c) = K
      BY <1>10
    <2> QED
      BY <2>2, <2>3, <2>4, <2>5, <2>6
  <1>12. /\ a \in Seq(PortDescs) /\ Len(a) = L + N
         /\ \A j \in 1..i : a[j] = p.desc[j]
         /\ \A j \in i+1..i+N : a[j] = DefaultDesc
         /\ \A j \in i+1..L : a[j + N] = p.desc[j]
    <2>0. a = c \o a2
      BY <1>3 DEF c
    <2> HIDE DEF a, L, N
    <2>1. a \in Seq(PortDescs) /\ Len(a) = L + N
      <3>1. K + M = L + N
        BY <1>3, <1>4
      <3> QED
        BY <1>11, <2>0, <3>1
    <2>2. ASSUME NEW j \in 1..i PROVE a[j] = p.desc[j]
      <3>1. j \in 1..i+N
        BY <1>3, <1>4
      <3> QED
        BY <1>6, <1>10, <1>11, <2>0, <3>1
    <2>3. ASSUME NEW j \in i+1..i+N PROVE a[j] = DefaultDesc
      <3>1. j \in 1..i+N /\ j - i \in 1..N /\ i + (j - i) = j
        BY <1>3, <1>4
      <3> QED
        BY <1>7, <1>10, <1>11, <2>0, <3>1
    <2>4. ASSUME NEW j \in i+1..L PROVE a[j + N] = p.desc[j]
      <3>1. j - i \in 1..M /\ K + (j - i) = j + N /\ i + (j - i) = j
        BY <1>3, <1>4
      <3>2. a2[j - i] = p.desc[i + (j - i)]
        BY <1>6, <3>1
      <3> HIDE DEF K, M
      <3> QED
        BY <1>11, <2>0, <3>1, <3>2
    <2> QED
      BY <2>1, <2>2, <2>3, <2>4
  <1>13. /\ DOMAIN e = DOMAIN p.idx \cup ToSet(names) /\ e = [m \in DOMAIN e |-> e[m]]
         /\ \A m \in DOMAIN p.idx : e[m] = IF p.idx[m] >= i THEN p.idx[m] + N ELSE p.idx[m]
         /\ \A k \in 1..N : e[names[k]] = i + k - 1
    <2>1. DOMAIN e = DOMAIN p.idx \cup ToSet(names) /\ e = [m \in DOMAIN e |-> e[m]]
      BY <1>8
    <2>2. \A m \in DOMAIN p.idx : e[m] = IF p.idx[m] >= i THEN p.idx[m] + N ELSE p.idx[m]
      BY <1>8
    <2>3. ASSUME NEW k \in 1..N PROVE e[names[k]] = i + k - 1
      <3>1. names[k] \in ToSet(names) /\ names[k] \notin DOMAIN x
        BY <1>3, <1>8, <1>9
      <3>2. (CHOOSE l \in DOMAIN names : names[l] = names[k]) = k
        BY <1>3
      <3> QED
        BY <3>1, <3>2
    <2> QED
      BY <2>1, <2>2, <2>3
  <1> HIDE DEF a, e, q
  <1>14. \A n \in DOMAIN p.idx : p.idx[n] \in 0..L-1
    BY <1>1 DEF PortsRight
  <1>15. \A m, n \in DOMAIN p.idx : p.idx[m] = p.idx[n] => m = n
    BY <1>1 DEF PortsRight
  <1>16. \A j \in 0..L-1 : \E n \in DOMAIN p.idx : p.idx[n] = j
    BY <1>1 DEF PortsRight
  <1> HIDE DEF L, N
  <1>17. \A m \in DOMAIN p.idx : e[m] \in 0..(L+N)-1 /\ ~(e[m] \in i..(i+N)-1)
    <2> TAKE m \in DOMAIN p.idx
    <2>1. p.idx[m] \in 0..L-1
      BY <1>14
    <2> QED
      BY <1>3, <1>4, <1>13, <2>1
  <1>18. \A k \in 1..N : e[names[k]] \in i..(i+N)-1 /\ e[names[k]] \in 0..(L+N)-1
    BY <1>3, <1>4, <1>13
  <1>19. \A m, n \in DOMAIN p.idx : p.idx[m] < p.idx[n] => e[m] < e[n]
    <2> SUFFICES ASSUME NEW m \in DOMAIN p.idx, NEW n \in DOMAIN p.idx, p.idx[m] < p.idx[n] PROVE e[m] < e[n]
      OBVIOUS
    <2>1. p.idx[m] \in Nat /\ p.idx[n] \in Nat
      BY <1>2
    <2> QED
      BY <1>3, <1>4, <1>13, <2>1
  <1>20. e \in Indexes
    <2>1. \A m \in DOMAIN e : e[m] \in Nat
      <3> TAKE m \in DOMAIN e
      <3>1. e[m] \in 0..(L+N)-1
        BY <1>9, <1>13, <1>17, <1>18
      <3> QED
        BY <1>3, <1>4, <3>1
    <2>2. DOMAIN e \subseteq PortNames
      BY <1>2, <1>3, <1>9, <1>13
    <2> QED
      BY <1>13, <2>1, <2>2, IndexIs
  <1>21. PortsRight(r)
    <2>1. \A n \in DOMAIN e : e[n] \in 0..(L+N)-1
      BY <1>9, <1>13, <1>17, <1>18
    <2>2. ASSUME NEW m \in DOMAIN e, NEW n \in DOMAIN e, e[m] = e[n] PROVE m = n
      <3>1. CASE m \in DOMAIN p.idx /\ n \in DOMAIN p.idx
        <4>1. p.idx[m] \in Nat /\ p.idx[n] \in Nat
          BY <1>2, <3>1
        <4>2. e[m] \in Nat /\ e[n] \in Nat
          BY <1>20, IndexIs
        <4>3. p.idx[m] = p.idx[n]
          BY <1>19, <2>2, <3>1, <4>1, <4>2
        <4> QED
          BY <1>15, <3>1, <4>3
      <3>2. CASE m \notin DOMAIN p.idx /\ n \notin DOMAIN p.idx
        <4>1. PICK k \in 1..N : m = names[k]
          BY <1>9, <1>13, <3>2
        <4>2. PICK l \in 1..N : n = names[l]
          BY <1>9, <1>13, <3>2
        <4>3. i + k - 1 = i + l - 1
          BY <1>13, <2>2, <4>1, <4>2
        <4>4. k = l
          BY <1>3, <1>4, <4>3
        <4> QED
          BY <4>1, <4>2, <4>4
      <3>3. CASE m \in DOMAIN p.idx /\ n \notin DOMAIN p.idx
        BY <1>9, <1>13, <1>17, <1>18, <2>2, <3>3
      <3>4. CASE m \notin DOMAIN p.idx /\ n \in DOMAIN p.idx
        BY <1>9, <1>13, <1>17, <1>18, <2>2, <3>4
      <3> QED
        BY <3>1, <3>2, <3>3, <3>4
    <2>3. ASSUME NEW v \in 0..(L+N)-1 PROVE \E n \in DOMAIN e : e[n] = v
      <3>1. CASE v < i
        <4>1. v \in 0..L-1
          BY <1>4, <3>1
        <4>2. PICK n \in DOMAIN p.idx : p.idx[n] = v
          BY <1>16, <4>1
        <4>3. e[n] = v
          BY <1>2, <1>4, <1>13, <3>1, <4>2
        <4> QED
          BY <1>13, <4>3
      <3>2. CASE v >= i /\ v < i + N
        <4>1. (v - i) + 1 \in 1..N /\ i + ((v - i) + 1) - 1 = v
          BY <1>3, <1>4, <3>2
        <4>2. e[names[(v - i) + 1]] = v
          BY <1>13, <4>1
        <4>3. names[(v - i) + 1] \in DOMAIN e
          BY <1>9, <1>13, <4>1
        <4> QED
          BY <4>2, <4>3
      <3>3. CASE v >= i + N
        <4>1. v - N \in 0..L-1 /\ v - N >= i /\ (v - N) + N = v
          BY <1>3, <1>4, <3>3
        <4>2. PICK n \in DOMAIN p.idx : p.idx[n] = v - N
          BY <1>16, <4>1
        <4>3. e[n] = v
          BY <1>13, <4>1, <4>2
        <4> QED
          BY <1>13, <4>3
      <3>4. v \in Int
        BY <1>3, <1>4
      <3> QED
        BY <1>3, <1>4, <3>1, <3>2, <3>3, <3>4
    <2>4. Len(a) = L + N
      BY <1>12 DEF L, N
    <2> QED
      BY <2>1, <2>2, <2>3, <2>4 DEF PortsRight
  <1>22. q \in RightPorts /\ q.desc = a /\ q.idx = e /\ q.reg = p.reg
    BY <1>1, <1>5, <1>12, <1>20, <1>21, RightIs
  <1>23. IsExtended(p, q)
    BY <1>13, <1>19, <1>22 DEF IsExtended
  <1>24. IsKept(p, q)
    <2> SUFFICES ASSUME NEW n \in DOMAIN p.idx PROVE a[e[n] + 1] = p.desc[p.idx[n] + 1]
      BY <1>22 DEF IsKept
    <2>1. p.idx[n] \in 0..L-1 /\ p.idx[n] \in Nat
      BY <1>2, <1>14
    <2>2. CASE p.idx[n] >= i
      <3>1. p.idx[n] + 1 \in i+1..L /\ e[n] + 1 = (p.idx[n] + 1) + N
        BY <1>3, <1>4, <1>13, <2>1, <2>2
      <3> QED
        BY <1>12, <3>1 DEF L, N
    <2>3. CASE ~(p.idx[n] >= i)
      <3>1. p.idx[n] + 1 \in 1..i /\ e[n] = p.idx[n]
        BY <1>4, <1>13, <2>1, <2>3
      <3> QED
        BY <1>12, <3>1
    <2> QED
      BY <2>2, <2>3
  <1>25. ASSUME NEW n \in DOMAIN e \ DOMAIN p.idx PROVE a[e[n] + 1] = DefaultDesc
    <2>1. PICK k \in 1..N : n = names[k]
      BY <1>9, <1>13
    <2>2. e[n] + 1 \in i+1..i+N
      BY <1>3, <1>4, <1>13, <2>1
    <2> QED
      BY <1>12, <2>2 DEF N
  <1> QED
    BY <1>13, <1>22, <1>23, <1>24, <1>25 DEF IsGrown, q

(* Ports that were added have the default description.                        *)
IsAdded(p, q) ==
    /\ IsGrown(p, q)
    /\ \A n \in DOMAIN q.idx \ DOMAIN p.idx : q.desc[q.idx[n] + 1] = DefaultDesc
(* The ports with a number in their name have the default description.        *)
AsCreated(p) == \A b \in PortBases, i \in Nat :
    Numbered(b, i) \in DOMAIN p.idx => p.desc[p.idx[Numbered(b, i)] + 1] = DefaultDesc

LEMMA SameIsAdded ==
  ASSUME NEW p, NEW q, q.idx = p.idx,
         \A n \in DOMAIN p.idx : q.desc[q.idx[n] + 1] = p.desc[p.idx[n] + 1]
  PROVE  IsAdded(p, q)
  BY DEF IsAdded, IsGrown, IsExtended, IsKept

LEMMA AddedIsThrough ==
  ASSUME NEW p, NEW q, NEW r, IsAdded(p, q), IsAdded(q, r)
  PROVE  IsAdded(p, r)
  <1>1. IsExtended(p, r)
    BY DEF IsAdded, IsGrown, IsExtended
  <1>2. IsKept(p, r)
    BY DEF IsAdded, IsGrown, IsExtended, IsKept
  <1>3. ASSUME NEW n \in DOMAIN r.idx \ DOMAIN p.idx PROVE r.desc[r.idx[n] + 1] = DefaultDesc
    <2>1. CASE n \in DOMAIN q.idx
      BY <2>1 DEF IsAdded, IsGrown, IsKept
    <2>2. CASE n \notin DOMAIN q.idx
      BY <2>2 DEF IsAdded
    <2> QED
      BY <2>1, <2>2
  <1> QED
    BY <1>1, <1>2, <1>3 DEF IsAdded, IsGrown

LEMMA StaysAsCreated ==
  ASSUME NEW p, NEW q, AsCreated(p), IsAdded(p, q)
  PROVE  AsCreated(q)
  <1> SUFFICES ASSUME NEW b \in PortBases, NEW i \in Nat, Numbered(b, i) \in DOMAIN q.idx
               PROVE  q.desc[q.idx[Numbered(b, i)] + 1] = DefaultDesc
    BY DEF AsCreated
  <1>1. CASE Numbered(b, i) \in DOMAIN p.idx
    BY <1>1 DEF AsCreated, IsAdded, IsGrown, IsKept
  <1>2. CASE Numbered(b, i) \notin DOMAIN p.idx
    BY <1>2 DEF IsAdded
  <1> QED
    BY <1>1, <1>2

(* The names that a call for num ports creates.                               *)
LEMMA FreeIs ==
  ASSUME NEW p \in RightPorts, NEW b \in PortBases, NEW num \in Nat
  PROVE  /\ FreeNames(p, b, num) \in 0..num
         /\ NewPorts(p, NewNames(p, b, num)) /\ Len(NewNames(p, b, num)) = FreeNames(p, b, num)
         /\ \A k \in 1..FreeNames(p, b, num) : NewNames(p, b, num)[k] = Numbered(b, k - 1)
  <1> DEFINE S == {num} \cup {i \in 0..num-1 : HasName(p, Numbered(b, i))}
             f == FreeNames(p, b, num)
             w == NewNames(p, b, num)
  <1>1. S \subseteq Nat /\ S # {} /\ num \in S
    OBVIOUS
  <1>2. \E x \in S : \A y \in S : x =< y
    <2> HIDE DEF S
    <2> QED
      BY <1>1, LeastNumber
  <1>3. f \in S /\ \A y \in S : f =< y
    <2>1. f = CHOOSE x \in S : \A y \in S : x =< y
      BY DEF FreeNames, Min
    <2> HIDE DEF S, f
    <2> QED
      BY <1>2, <2>1
  <1>4. \A i \in 0..num-1 : HasName(p, Numbered(b, i)) => i \in S
    OBVIOUS
  <1> HIDE DEF S
  <1>5. f \in 0..num
    <2> HIDE DEF f
    <2> QED
      BY <1>1, <1>3
  <1>6. \A k \in 1..f : Numbered(b, k - 1) \notin DOMAIN p.idx
    <2> HIDE DEF f
    <2> SUFFICES ASSUME NEW k \in 1..f, HasName(p, Numbered(b, k - 1)) PROVE FALSE
      BY DEF HasName
    <2>1. k - 1 \in 0..num-1 /\ k - 1 < f
      BY <1>5
    <2>2. k - 1 \in S
      BY <1>4, <2>1
    <2> QED
      BY <1>1, <1>3, <1>5, <2>1, <2>2
  <1>7. w = [k \in 1..f |-> Numbered(b, k - 1)]
    BY DEF NewNames
  <1> HIDE DEF f, w
  <1>8. \A k \in 1..f : w[k] = Numbered(b, k - 1)
    BY <1>7
  <1>9. w \in Seq(PortNames) /\ Len(w) = f
    <2>1. \A k \in 1..f : k - 1 \in Nat
      BY <1>5
    <2>2. \A k \in 1..f : Numbered(b, k - 1) \in PortNames
      BY <2>1, NamesAre
    <2>3. w \in [1..f -> PortNames]
      BY <1>7, <2>2
    <2> QED
      BY <1>5, <2>3
  <1>10. \A k, l \in 1..f : w[k] = w[l] => k = l
    <2> SUFFICES ASSUME NEW k \in 1..f, NEW l \in 1..f, w[k] = w[l] PROVE k = l
      OBVIOUS
    <2>1. k - 1 = l - 1
      BY <1>8, NamesAre
    <2> QED
      BY <1>5, <2>1
  <1>11. NewPorts(p, w)
    BY <1>6, <1>8, <1>9, <1>10 DEF NewPorts
  <1> QED
    BY <1>5, <1>8, <1>9, <1>11 DEF f, w

LEMMA MiddleIs ==
  ASSUME NEW p \in RightPorts, NEW b \in PortBases, NEW num \in Nat, NEW i \in Nat
  PROVE  LET q == AddInputDescMiddle(p, b, num, i)
         IN  q \in RightPorts /\ IsAdded(p, q) /\ q.reg = p.reg
  <1>1. CASE i > Size(p)
    BY <1>1, SameIsAdded DEF AddInputDescMiddle
  <1>2. CASE ~(i > Size(p))
    <2>1. Len(p.desc) \in Nat
      BY RightIs
    <2>2. i \in 0..Len(p.desc)
      BY <1>2, <2>1 DEF Size
    <2>3. NewPorts(p, NewNames(p, b, num))
      BY FreeIs
    <2>4. AddInputDescMiddle(p, b, num, i) = InsertPorts(p, i, NewNames(p, b, num))
      BY <1>2 DEF AddInputDescMiddle
    <2> QED
      BY <2>2, <2>3, <2>4, InsertIs DEF IsAdded
  <1> QED
    BY <1>1, <1>2

LEMMA ForwardIs ==
  ASSUME NEW p \in RightPorts, NEW b \in PortBases, NEW num \in Nat
  PROVE  LET q == AddInputDescForward(p, b, num)
         IN  q \in RightPorts /\ IsAdded(p, q) /\ q.reg = p.reg
  <1> DEFINE w == NewNames(p, b, num)
             v == Reverse(w)
             N == Len(w)
  <1>1. NewPorts(p, w)
    BY FreeIs
  <1> HIDE DEF w
  <1>2. /\ w \in Seq(PortNames) /\ N \in Nat /\ (\A k \in 1..N : w[k] \in PortNames /\ w[k] \notin DOMAIN p.idx)
        /\ \A k, l \in 1..N : w[k] = w[l] => k = l
    BY <1>1 DEF NewPorts
  <1>3. v = [k \in 1..N |-> w[(N - k) + 1]]
    BY DEF Reverse
  <1> HIDE DEF v, N
  <1>4. \A k \in 1..N : (N - k) + 1 \in 1..N /\ v[k] = w[(N - k) + 1]
    BY <1>2, <1>3
  <1>5. v \in Seq(PortNames) /\ Len(v) = N
    <2>1. v \in [1..N -> PortNames]
      BY <1>2, <1>3, <1>4
    <2> QED
      BY <1>2, <2>1
  <1>6. \A k, l \in 1..N : v[k] = v[l] => k = l
    <2> SUFFICES ASSUME NEW k \in 1..N, NEW l \in 1..N, v[k] = v[l] PROVE k = l
      OBVIOUS
    <2>1. (N - k) + 1 = (N - l) + 1
      BY <1>2, <1>4
    <2> QED
      BY <1>2, <2>1
  <1>7. NewPorts(p, v)
    BY <1>2, <1>4, <1>5, <1>6 DEF NewPorts
  <1>8. 0 \in 0..Len(p.desc)
    BY RightIs
  <1>9. AddInputDescForward(p, b, num) = InsertPorts(p, 0, v)
    BY DEF AddInputDescForward, v, w
  <1> QED
    BY <1>7, <1>8, <1>9, InsertIs DEF IsAdded

(* An input with a number that exists gets the default description again.     *)
LEMMA AddAgainIs ==
  ASSUME NEW p \in RightPorts, AsCreated(p), NEW b \in PortBases, NEW i \in Nat
  PROVE  LET q == AddInputDesc(p, Numbered(b, i), DefaultDesc)
         IN  q \in RightPorts /\ IsAdded(p, q) /\ AsCreated(q)
  <1> DEFINE n == Numbered(b, i)
             q == AddInputDesc(p, n, DefaultDesc)
  <1>0. n \in PortNames /\ DefaultDesc \in PortDescs
    BY NamesAre, DescsAre
  <1>1. CASE HasName(p, n)
    <2>1. p.desc[p.idx[n] + 1] = DefaultDesc
      BY <1>1 DEF AsCreated, HasName
    <2> HIDE DEF n
    <2>2. q = UpdateInputDesc(p, n, DefaultDesc)
      BY <1>1 DEF AddInputDesc
    <2>3. q \in RightPorts /\ q.idx = p.idx
          /\ \A m \in DOMAIN p.idx : q.desc[p.idx[m] + 1] = IF m = n THEN DefaultDesc ELSE p.desc[p.idx[m] + 1]
      BY <1>0, <2>2, UpdateIs
    <2>4. \A m \in DOMAIN p.idx : q.desc[q.idx[m] + 1] = p.desc[p.idx[m] + 1]
      BY <2>1, <2>3
    <2>5. IsAdded(p, q)
      BY <2>3, <2>4, SameIsAdded
    <2> QED
      BY <2>3, <2>5, StaysAsCreated DEF n
  <1>2. CASE ~HasName(p, n)
    <2> HIDE DEF n
    <2>1. q = PushPort(p, n, DefaultDesc)
      BY <1>2 DEF AddInputDesc
    <2>2. q \in RightPorts /\ IsGrown(p, q) /\ DOMAIN q.idx = DOMAIN p.idx \cup {n} /\ q.desc[q.idx[n] + 1] = DefaultDesc
      BY <1>0, <1>2, <2>1, PushIs DEF HasName
    <2>3. IsAdded(p, q)
      BY <2>2 DEF IsAdded
    <2> QED
      BY <2>2, <2>3, StaysAsCreated DEF n
  <1> QED
    BY <1>1, <1>2

LEMMA AddOutIs ==
  ASSUME NEW p \in RightPorts, NEW n \in PortNames
  PROVE  LET q == AddOutputDesc(p, n, DefaultDesc)
         IN  q \in RightPorts /\ IsAdded(p, q)
  <1> DEFINE q == AddOutputDesc(p, n, DefaultDesc)
  <1>1. CASE HasName(p, n)
    BY <1>1, SameIsAdded DEF AddOutputDesc
  <1>2. CASE ~HasName(p, n)
    <2>1. q = PushPort(p, n, DefaultDesc)
      BY <1>2 DEF AddOutputDesc
    <2> HIDE DEF q
    <2>2. q \in RightPorts /\ IsGrown(p, q) /\ DOMAIN q.idx = DOMAIN p.idx \cup {n} /\ q.desc[q.idx[n] + 1] = DefaultDesc
      BY <1>2, <2>1, PushIs, DescsAre DEF HasName
    <2> QED
      BY <2>2 DEF IsAdded, q
  <1> QED
    BY <1>1, <1>2

LEMMA NamedIsAdded ==
  ASSUME NEW p, NEW q \in RightPorts, IsAdded(p, q), NEW b \in PortBases
  PROVE  LET r == AddRegisterInputName(q, Plain(b))
         IN  r \in RightPorts /\ IsAdded(p, r)
  <1> DEFINE r == AddRegisterInputName(q, Plain(b))
  <1>1. r \in RightPorts /\ r.desc = q.desc /\ r.idx = q.idx
    BY RegisterIs, NamesAre
  <1> HIDE DEF r
  <1>2. IsAdded(q, r)
    BY <1>1, SameIsAdded
  <1> QED
    BY <1>1, <1>2, AddedIsThrough DEF r

LEMMA DynamicInputIs ==
  ASSUME NEW p \in RightPorts, AsCreated(p), NEW b \in PortBases, NEW num \in Nat, NEW back \in BOOLEAN
  PROVE  LET q == AddDynamicInputDesc(p, b, num, back)
         IN  q \in RightPorts /\ IsAdded(p, q) /\ AsCreated(q)
  <1> DEFINE D == {q \in RightPorts : IsAdded(p, q) /\ AsCreated(q)}
             next(q, k) == AddInputDesc(q, Numbered(b, k - 1), DefaultDesc)
             step(g) == [k \in 0..num |-> IF k = 0 THEN p ELSE next(g[k-1], k)]
             F == [x \in D \X (1..num) |-> next(x[1], x[2])]
             c == CHOOSE g : g = step(g)
             front == AddInputDescForward(p, b, num)
  <1>1. p \in D
    BY SameIsAdded
  <1>2. ASSUME NEW q \in D, NEW k \in 1..num PROVE next(q, k) \in D
    <2>1. k - 1 \in Nat /\ q \in RightPorts /\ AsCreated(q) /\ IsAdded(p, q)
      OBVIOUS
    <2> DEFINE r == next(q, k)
    <2>2. r \in RightPorts /\ IsAdded(q, r) /\ AsCreated(r)
      BY <2>1, AddAgainIs
    <2> HIDE DEF r
    <2> QED
      BY <2>1, <2>2, AddedIsThrough DEF r
  <1> HIDE DEF D
  <1>3. \E g : g = step(g)
    <2>1. \A q \in D, k \in 1..num : F[<<q, k>>] = next(q, k)
      OBVIOUS
    <2> HIDE DEF F, next
    <2>2. \A q \in D, k \in 1..num : F[<<q, k>>] \in D
      BY <1>2, <2>1
    <2>3. PICK f : Solves(f, D, num, p, F)
      BY <1>1, <2>2, RunExists
    <2>4. f \in [0..num -> D] /\ f[0] = p /\ \A k \in 1..num : f[k] = F[<<f[k-1], k>>]
      BY <2>3 DEF Solves
    <2>5. ASSUME NEW k \in 0..num PROVE f[k] = IF k = 0 THEN p ELSE next(f[k-1], k)
      <3>1. CASE k = 0
        BY <2>4, <3>1
      <3>2. CASE k # 0
        <4>1. k \in 1..num /\ k - 1 \in 0..num
          BY <3>2
        <4>2. f[k-1] \in D
          BY <2>4, <4>1
        <4> QED
          BY <2>1, <2>4, <3>2, <4>1, <4>2
      <3> QED
        BY <3>1, <3>2
    <2>6. f = [k \in 0..num |-> f[k]]
      BY <2>4
    <2>7. f = step(f)
      BY <2>5, <2>6
    <2> QED
      BY <2>7
  <1>4. c = step(c)
    <2> HIDE DEF step
    <2> QED
      BY <1>3
  <1>5. AddDynamicInputDesc(p, b, num, back) =
          IF back THEN AddRegisterInputName(c[num], Plain(b))
          ELSE IF AllFree(p, b, num) THEN AddRegisterInputName(front, Plain(b)) ELSE front
    BY DEF AddDynamicInputDesc
  <1> HIDE DEF c
  <1>6. DOMAIN c = 0..num /\ c = [k \in 0..num |-> c[k]] /\ c[0] = p /\ \A k \in 1..num : c[k] = next(c[k-1], k)
    <2>1. DOMAIN c = 0..num /\ \A k \in 0..num : c[k] = IF k = 0 THEN p ELSE next(c[k-1], k)
      <3> HIDE DEF next
      <3> QED
        BY <1>4
    <2>2. c = [k \in 0..num |-> c[k]]
      <3> HIDE DEF next
      <3> QED
        BY <1>4
    <2>3. 0 \in 0..num /\ \A k \in 1..num : k \in 0..num /\ k # 0
      OBVIOUS
    <2> HIDE DEF next
    <2> QED
      BY <2>1, <2>2, <2>3
  <1>7. c \in [0..num -> D]
    <2> HIDE DEF next
    <2>1. \A k \in 1..num : c[k-1] \in D => c[k] \in D
      BY <1>2, <1>6
    <2> QED
      BY <1>1, <1>6, <2>1, RunStays
  <1>8. c[num] \in D
    BY <1>7
  <1>9. c[num] \in RightPorts /\ IsAdded(p, c[num])
    BY <1>8 DEF D
  <1>10. front \in RightPorts /\ IsAdded(p, front)
    BY ForwardIs
  <1> HIDE DEF front
  <1> DEFINE q == AddDynamicInputDesc(p, b, num, back)
  <1>11. q \in RightPorts /\ IsAdded(p, q)
    BY <1>5, <1>9, <1>10, NamedIsAdded
  <1> HIDE DEF q
  <1>12. AsCreated(q)
    BY <1>11, StaysAsCreated
  <1> QED
    BY <1>11, <1>12 DEF q

LEMMA DynamicOutputIs ==
  ASSUME NEW p \in RightPorts, NEW b \in PortBases, NEW num \in Nat, NEW back \in BOOLEAN
  PROVE  LET q == AddDynamicOutputDesc(p, b, num, back)
         IN  q \in RightPorts /\ IsAdded(p, q)
  <1> DEFINE m == FreeNames(p, b, num)
             D == {q \in RightPorts : IsAdded(p, q)}
             next(q, k) == AddOutputDesc(q, Numbered(b, k - 1), DefaultDesc)
             step(g) == [k \in 0..m |-> IF k = 0 THEN p ELSE next(g[k-1], k)]
             F == [x \in D \X (1..m) |-> next(x[1], x[2])]
             c == CHOOSE g : g = step(g)
             front == AddOutputDescForward(p, b, num)
  <1>0. m \in Nat
    BY FreeIs
  <1>1. p \in D
    BY SameIsAdded
  <1>2. ASSUME NEW q \in D, NEW k \in 1..m PROVE next(q, k) \in D
    <2> HIDE DEF m
    <2>1. k - 1 \in Nat /\ q \in RightPorts /\ IsAdded(p, q)
      BY <1>0
    <2>2. Numbered(b, k - 1) \in PortNames
      BY <2>1, NamesAre
    <2> DEFINE r == next(q, k)
    <2>3. r \in RightPorts /\ IsAdded(q, r)
      BY <2>1, <2>2, AddOutIs
    <2> HIDE DEF r
    <2> QED
      BY <2>1, <2>3, AddedIsThrough DEF r
  <1>5. AddDynamicOutputDesc(p, b, num, back) =
          LET q == IF back THEN c[m] ELSE front
          IN  IF AllFree(p, b, num) THEN AddRegisterInputName(q, Plain(b)) ELSE q
    BY DEF AddDynamicOutputDesc, AddRegisterOutputName
  <1> HIDE DEF D, m
  <1>3. \E g : g = step(g)
    <2>1. \A q \in D, k \in 1..m : F[<<q, k>>] = next(q, k)
      OBVIOUS
    <2> HIDE DEF F, next
    <2>2. \A q \in D, k \in 1..m : F[<<q, k>>] \in D
      BY <1>2, <2>1
    <2>3. PICK f : Solves(f, D, m, p, F)
      BY <1>0, <1>1, <2>2, RunExists
    <2>4. f \in [0..m -> D] /\ f[0] = p /\ \A k \in 1..m : f[k] = F[<<f[k-1], k>>]
      BY <2>3 DEF Solves
    <2>5. ASSUME NEW k \in 0..m PROVE f[k] = IF k = 0 THEN p ELSE next(f[k-1], k)
      <3>1. CASE k = 0
        BY <2>4, <3>1
      <3>2. CASE k # 0
        <4>1. k \in 1..m /\ k - 1 \in 0..m
          BY <1>0, <3>2
        <4>2. f[k-1] \in D
          BY <2>4, <4>1
        <4> QED
          BY <2>1, <2>4, <3>2, <4>1, <4>2
      <3> QED
        BY <3>1, <3>2
    <2>6. f = [k \in 0..m |-> f[k]]
      BY <2>4
    <2>7. f = step(f)
      BY <2>5, <2>6
    <2> QED
      BY <2>7
  <1>4. c = step(c)
    <2> HIDE DEF step
    <2> QED
      BY <1>3
  <1> HIDE DEF c
  <1>6. DOMAIN c = 0..m /\ c = [k \in 0..m |-> c[k]] /\ c[0] = p /\ \A k \in 1..m : c[k] = next(c[k-1], k)
    <2>1. DOMAIN c = 0..m /\ \A k \in 0..m : c[k] = IF k = 0 THEN p ELSE next(c[k-1], k)
      <3> HIDE DEF next
      <3> QED
        BY <1>4
    <2>2. c = [k \in 0..m |-> c[k]]
      <3> HIDE DEF next
      <3> QED
        BY <1>4
    <2>3. 0 \in 0..m /\ \A k \in 1..m : k \in 0..m /\ k # 0
      BY <1>0
    <2> HIDE DEF next
    <2> QED
      BY <2>1, <2>2, <2>3
  <1>7. c \in [0..m -> D]
    <2> HIDE DEF next
    <2>1. \A k \in 1..m : c[k-1] \in D => c[k] \in D
      BY <1>2, <1>6
    <2> QED
      BY <1>0, <1>1, <1>6, <2>1, RunStays
  <1>8. c[m] \in D
    BY <1>0, <1>7
  <1>9. c[m] \in RightPorts /\ IsAdded(p, c[m])
    BY <1>8 DEF D
  <1>10. front \in RightPorts /\ IsAdded(p, front)
    BY ForwardIs DEF AddOutputDescForward
  <1> HIDE DEF front
  <1> DEFINE q == IF back THEN c[m] ELSE front
  <1>11. q \in RightPorts /\ IsAdded(p, q)
    BY <1>9, <1>10
  <1> HIDE DEF q
  <1>12. AddRegisterInputName(q, Plain(b)) \in RightPorts /\ IsAdded(p, AddRegisterInputName(q, Plain(b)))
    BY <1>11, NamedIsAdded
  <1>13. AddDynamicOutputDesc(p, b, num, back) = IF AllFree(p, b, num) THEN AddRegisterInputName(q, Plain(b)) ELSE q
    BY <1>5 DEF q
  <1> QED
    BY <1>11, <1>12, <1>13

(* An input or an output registered with its name.                            *)
LEMMA AddPlainIs ==
  ASSUME NEW p \in RightPorts, NEW b \in PortBases, NEW d \in PortDescs
  PROVE  LET q == AddInputDesc(p, Plain(b), d)
         IN  q \in RightPorts /\ (AsCreated(p) => AsCreated(q))
  <1> DEFINE n == Plain(b)
             q == AddInputDesc(p, n, d)
  <1>0. n \in PortNames /\ \A c, i : n # Numbered(c, i)
    BY NamesAre
  <1> HIDE DEF n
  <1>1. CASE HasName(p, n)
    <2>1. q = UpdateInputDesc(p, n, d)
      BY <1>1 DEF AddInputDesc
    <2> HIDE DEF q
    <2>2. q \in RightPorts /\ q.idx = p.idx
          /\ \A m \in DOMAIN p.idx : q.desc[p.idx[m] + 1] = IF m = n THEN d ELSE p.desc[p.idx[m] + 1]
      BY <2>1, UpdateIs
    <2>3. AsCreated(p) => AsCreated(q)
      BY <1>0, <2>2 DEF AsCreated
    <2> QED
      BY <2>2, <2>3 DEF q, n
  <1>2. CASE ~HasName(p, n)
    <2>1. q = PushPort(p, n, d)
      BY <1>2 DEF AddInputDesc
    <2> HIDE DEF q
    <2>2. q \in RightPorts /\ IsGrown(p, q) /\ DOMAIN q.idx = DOMAIN p.idx \cup {n}
      BY <1>0, <1>2, <2>1, PushIs DEF HasName
    <2>3. AsCreated(p) => AsCreated(q)
      BY <1>0, <2>2 DEF AsCreated, IsGrown, IsKept
    <2> QED
      BY <2>2, <2>3 DEF q, n
  <1> QED
    BY <1>1, <1>2

LEMMA NoPortsIs ==
  NoPorts \in RightPorts /\ AsCreated(NoPorts)
  <1> DEFINE e == << >>
  <1>1. e \in Seq(PortDescs) /\ Len(e) = 0 /\ e \in Seq(PortNames)
    OBVIOUS
  <1>2. DOMAIN e = {} /\ e = [n \in DOMAIN e |-> e[n]]
    OBVIOUS
  <1>3. NoPorts = [desc |-> e, idx |-> e, reg |-> e]
    BY DEF NoPorts
  <1> HIDE DEF e
  <1>4. e \in Indexes
    BY <1>2, IndexIs
  <1>5. PortsRight([desc |-> e, idx |-> e, reg |-> e])
    BY <1>1, <1>2 DEF PortsRight
  <1>6. NoPorts \in RightPorts
    BY <1>1, <1>3, <1>4, <1>5, RightIs
  <1>7. AsCreated(NoPorts)
    BY <1>2, <1>3 DEF AsCreated
  <1> QED
    BY <1>6, <1>7

(* Operator descriptions as their classes register them.                      *)
Classes == {d \in [in : RightPorts, out : RightPorts, optional : SUBSET PortNames, isConst : {<< >>}] : AsCreated(d.in)}

LEMMA ClassIs ==
  /\ \A d \in Classes : /\ d = [in |-> d.in, out |-> d.out, optional |-> d.optional, isConst |-> d.isConst]
                        /\ d.in \in RightPorts /\ d.out \in RightPorts /\ d.optional \in SUBSET PortNames
                        /\ d.isConst = << >> /\ AsCreated(d.in)
  /\ \A p \in RightPorts, q \in RightPorts, s \in SUBSET PortNames :
        AsCreated(p) => [in |-> p, out |-> q, optional |-> s, isConst |-> << >>] \in Classes
  BY DEF Classes

LEMMA RegisteredIs ==
  ASSUME NEW d \in Classes, NEW r, r.name \in PortBases
  PROVE  RegisterOne(d, r) \in Classes
  <1> DEFINE b == r.name
             i1 == AddInputDesc(d.in, Plain(b), DefaultDesc)
             i2 == AddInputDesc(d.in, Plain(b), OptionalDesc)
             i3 == AddDynamicInputDesc(d.in, b, 0, TRUE)
             o1 == AddOutputDesc(d.out, Plain(b), DefaultDesc)
             o2 == AddDynamicOutputDesc(d.out, b, 0, TRUE)
             s  == d.optional \cup {Plain(b)}
  <1>1. /\ d = [in |-> d.in, out |-> d.out, optional |-> d.optional, isConst |-> << >>]
        /\ d.in \in RightPorts /\ d.out \in RightPorts /\ d.optional \in SUBSET PortNames /\ AsCreated(d.in)
    BY ClassIs
  <1>2. i1 \in RightPorts /\ AsCreated(i1)
    BY <1>1, AddPlainIs, DescsAre
  <1>3. i2 \in RightPorts /\ AsCreated(i2)
    BY <1>1, AddPlainIs, DescsAre
  <1>4. i3 \in RightPorts /\ AsCreated(i3)
    BY <1>1, DynamicInputIs
  <1>5. o1 \in RightPorts
    BY <1>1, AddOutIs, NamesAre
  <1>6. o2 \in RightPorts
    BY <1>1, DynamicOutputIs
  <1>7. s \in SUBSET PortNames
    BY <1>1, NamesAre
  <1> DEFINE q1 == InputRegister(d, b)
             q2 == OptionalInputRegister(d, b)
             q3 == DynamicInputRegister(d, b, 0, TRUE)
             q4 == OutputRegister(d, b)
             q5 == DynamicOutputRegister(d, b, 0, TRUE)
  <1>8. q1 = [d EXCEPT !.in = i1]
    BY DEF InputRegister
  <1>9. q2 = [d EXCEPT !.in = i2, !.optional = s]
    BY DEF OptionalInputRegister, AddOptionalInputDesc
  <1>10. q3 = [d EXCEPT !.in = i3]
    BY DEF DynamicInputRegister
  <1>11. q4 = [d EXCEPT !.out = o1]
    BY DEF OutputRegister
  <1>12. q5 = [d EXCEPT !.out = o2]
    BY DEF DynamicOutputRegister
  <1>20. RegisterOne(d, r) \in {q1, q2, q3, q4, q5, d}
    BY DEF RegisterOne
  <1> HIDE DEF i1, i2, i3, o1, o2, s, q1, q2, q3, q4, q5
  <1>13. q1 \in Classes
    <2>1. q1 = [in |-> i1, out |-> d.out, optional |-> d.optional, isConst |-> << >>]
      BY <1>1, <1>8
    <2> QED
      BY <1>1, <1>2, <2>1, ClassIs
  <1>14. q2 \in Classes
    <2>1. q2 = [in |-> i2, out |-> d.out, optional |-> s, isConst |-> << >>]
      <3> DEFINE x == d.in  y == d.out  z == d.optional  w == << >>
      <3>1. d = [in |-> x, out |-> y, optional |-> z, isConst |-> w]
        BY <1>1
      <3> HIDE DEF x, y, z, w
      <3>3. q2 = [in |-> i2, out |-> y, optional |-> s, isConst |-> w]
        BY <1>9, <3>1
      <3> QED
        BY <3>3 DEF y, w
    <2> QED
      BY <1>1, <1>3, <1>7, <2>1, ClassIs
  <1>15. q3 \in Classes
    <2>1. q3 = [in |-> i3, out |-> d.out, optional |-> d.optional, isConst |-> << >>]
      BY <1>1, <1>10
    <2> QED
      BY <1>1, <1>4, <2>1, ClassIs
  <1>16. q4 \in Classes
    <2>1. q4 = [in |-> d.in, out |-> o1, optional |-> d.optional, isConst |-> << >>]
      BY <1>1, <1>11
    <2> QED
      BY <1>1, <1>5, <2>1, ClassIs
  <1>17. q5 \in Classes
    <2>1. q5 = [in |-> d.in, out |-> o2, optional |-> d.optional, isConst |-> << >>]
      BY <1>1, <1>12
    <2> QED
      BY <1>1, <1>6, <2>1, ClassIs
  <1> QED
    BY <1>13, <1>14, <1>15, <1>16, <1>17, <1>20

LEMMA BaseIs ==
  ASSUME NEW o \in Operator, NEW i \in DOMAIN Ir[o]
  PROVE  Ir[o][i].name \in PortBases
  <1> DEFINE X == {Ir[o][j].name : j \in DOMAIN Ir[o]}
             W == {{Ir[v][j].name : j \in DOMAIN Ir[v]} : v \in Operator}
  <1>1. Ir[o][i].name \in X
    OBVIOUS
  <1>2. X \in W
    OBVIOUS
  <1>3. \A x \in UNION W : x \in PortBases
    BY DEF PortBases
  <1> HIDE DEF X, W
  <1> QED
    BY <1>1, <1>2, <1>3

LEMMA ConstructIs ==
  ASSUME NEW o \in Operator
  PROVE  Construct(Ir[o]) \in Classes
  <1> DEFINE ir == Ir[o]
             m == Len(ir)
             next(d, k) == RegisterOne(d, ir[k])
             step(g) == [k \in 0..m |-> IF k = 0 THEN NewOpDesc ELSE next(g[k-1], k)]
             F == [x \in Classes \X (1..m) |-> next(x[1], x[2])]
             c == CHOOSE g : g = step(g)
  <1>0. m \in Nat /\ DOMAIN ir = 1..m
    BY OperatorAssumption
  <1>1. NewOpDesc \in Classes
    BY NoPortsIs, ClassIs DEF NewOpDesc
  <1>2. ASSUME NEW d \in Classes, NEW k \in 1..m PROVE next(d, k) \in Classes
    <2>1. ir[k].name \in PortBases
      BY <1>0, BaseIs
    <2> QED
      BY <2>1, RegisteredIs
  <1>5. Construct(ir) = c[m]
    BY DEF Construct
  <1> HIDE DEF m, ir
  <1>3. \E g : g = step(g)
    <2>1. \A d \in Classes, k \in 1..m : F[<<d, k>>] = next(d, k)
      OBVIOUS
    <2> HIDE DEF F, next
    <2>2. \A d \in Classes, k \in 1..m : F[<<d, k>>] \in Classes
      BY <1>2, <2>1
    <2>3. PICK f : Solves(f, Classes, m, NewOpDesc, F)
      BY <1>0, <1>1, <2>2, RunExists
    <2>4. f \in [0..m -> Classes] /\ f[0] = NewOpDesc /\ \A k \in 1..m : f[k] = F[<<f[k-1], k>>]
      BY <2>3 DEF Solves
    <2>5. ASSUME NEW k \in 0..m PROVE f[k] = IF k = 0 THEN NewOpDesc ELSE next(f[k-1], k)
      <3>1. CASE k = 0
        BY <2>4, <3>1
      <3>2. CASE k # 0
        <4>1. k \in 1..m /\ k - 1 \in 0..m
          BY <1>0, <3>2
        <4>2. f[k-1] \in Classes
          BY <2>4, <4>1
        <4> QED
          BY <2>1, <2>4, <3>2, <4>1, <4>2
      <3> QED
        BY <3>1, <3>2
    <2>6. f = [k \in 0..m |-> f[k]]
      BY <2>4
    <2>7. f = step(f)
      BY <2>5, <2>6
    <2> QED
      BY <2>7
  <1>4. c = step(c)
    <2> HIDE DEF step
    <2> QED
      BY <1>3
  <1> HIDE DEF c
  <1>6. DOMAIN c = 0..m /\ c = [k \in 0..m |-> c[k]] /\ c[0] = NewOpDesc /\ \A k \in 1..m : c[k] = next(c[k-1], k)
    <2> HIDE DEF next
    <2>1. DOMAIN c = 0..m /\ \A k \in 0..m : c[k] = IF k = 0 THEN NewOpDesc ELSE next(c[k-1], k)
      BY <1>4
    <2>2. c = [k \in 0..m |-> c[k]]
      BY <1>4
    <2>3. 0 \in 0..m /\ \A k \in 1..m : k \in 0..m /\ k # 0
      BY <1>0
    <2> QED
      BY <2>1, <2>2, <2>3
  <1>7. c \in [0..m -> Classes]
    <2> HIDE DEF next
    <2>1. \A k \in 1..m : c[k-1] \in Classes => c[k] \in Classes
      BY <1>2, <1>6
    <2> QED
      BY <1>0, <1>1, <1>6, <2>1, RunStays
  <1>8. c[m] \in Classes
    BY <1>0, <1>7
  <1> QED
    BY <1>5, <1>8 DEF ir

(* Names taken over from a factory's operator.                                *)
Numbers(k) == {Numbered("f", i) : i \in 0..k-1}

LEMMA NumbersAre ==
  ASSUME NEW k \in Nat
  PROVE  IsFiniteSet(Numbers(k)) /\ Cardinality(Numbers(k)) = k
  <1> DEFINE g == [i \in 0..k-1 |-> Numbered("f", i)]
             S == 0..k-1
             T == Numbers(k)
  <1>1. IsFiniteSet(S) /\ Cardinality(S) = k
    <2>1. IsFiniteSet(0..k-1) /\ Cardinality(0..k-1) = IF 0 > k-1 THEN 0 ELSE k-1-0+1
      BY FS_Interval
    <2> QED
      BY <2>1
  <1>2. g \in [S -> T] /\ \A t \in T : \E i \in S : g[i] = t
    BY DEF Numbers
  <1>3. \A i, j \in S : g[i] = g[j] => i = j
    BY NamesAre
  <1> HIDE DEF g, S, T
  <1>4. g \in Bijection(S, T)
    BY <1>2, <1>3 DEF Bijection, Injection, Surjection, IsInjective
  <1>5. ExistsBijection(S, T)
    BY <1>4 DEF ExistsBijection
  <1>6. IsFiniteSet(T) /\ Cardinality(T) = Cardinality(S)
    BY <1>1, <1>5, FS_Bijection
  <1> QED
    BY <1>1, <1>6 DEF T

LEMMA TakenIs ==
  ASSUME NEW p \in RightPorts, NEW k \in Nat, NEW m, m = [n \in Numbers(k) |-> n[2]]
  PROVE  LET q == UpdateInputName(p, m)
         IN  q \in RightPorts /\ q.desc = p.desc
  <1> DEFINE L == Len(p.desc)
             kept == IF Size(p) < Cardinality(DOMAIN m)
                     THEN Restrict(m, {n \in DOMAIN m : m[n] < Size(p)}) ELSE m
             r == [desc |-> p.desc, idx |-> kept, reg |-> p.reg]
             q == UpdateInputName(p, m)
  <1>1. /\ p = [desc |-> p.desc, idx |-> p.idx, reg |-> p.reg]
        /\ p.desc \in Seq(PortDescs) /\ p.reg \in Seq(PortNames) /\ L \in Nat
    BY RightIs
  <1>2. DOMAIN m = Numbers(k) /\ \A i \in 0..k-1 : Numbered("f", i) \in DOMAIN m /\ m[Numbered("f", i)] = i
    BY NamesAre DEF Numbers
  <1>3. Cardinality(DOMAIN m) = k
    BY <1>2, NumbersAre
  <1>4. q = IF Cardinality(DOMAIN kept) = L THEN [p EXCEPT !.idx = kept] ELSE p
    BY DEF UpdateInputName, Size
  <1>5. "f" \in PortBases
    <2> "f" \in {"__input", "__output", "f"}
      OBVIOUS
    <2> QED
      BY DEF PortBases
  <1>6. CASE Cardinality(DOMAIN kept) = L
    <2>1. DOMAIN kept = Numbers(L) /\ kept = [n \in DOMAIN kept |-> kept[n]]
          /\ \A n \in DOMAIN kept : n \in DOMAIN m /\ kept[n] = m[n]
      <3>1. CASE L < k
        <4>1. kept = [n \in {v \in DOMAIN m : m[v] < L} |-> m[n]]
          BY <1>3, <3>1 DEF Restrict, Size
        <4>2. \A v : v \in {u \in DOMAIN m : m[u] < L} <=> v \in Numbers(L)
          <5>1. ASSUME NEW v \in DOMAIN m, m[v] < L PROVE v \in Numbers(L)
            <6>1. PICK i \in 0..k-1 : v = Numbered("f", i)
              BY <1>2 DEF Numbers
            <6>3. m[v] = i
              BY <1>2, <6>1
            <6>2. i \in 0..L-1
              <7> HIDE DEF L
              <7> QED
                BY <1>1, <5>1, <6>1, <6>3
            <6> QED
              BY <6>1, <6>2 DEF Numbers
          <5>2. ASSUME NEW v \in Numbers(L) PROVE v \in DOMAIN m /\ m[v] < L
            <6>1. PICK i \in 0..L-1 : v = Numbered("f", i)
              BY DEF Numbers
            <6>2. i \in 0..k-1 /\ i < L
              BY <1>1, <3>1
            <6> QED
              BY <1>2, <6>1, <6>2
          <5> QED
            BY <5>1, <5>2
        <4>3. {u \in DOMAIN m : m[u] < L} = Numbers(L)
          BY <4>2
        <4> HIDE DEF kept
        <4>4. DOMAIN kept = Numbers(L) /\ kept = [n \in DOMAIN kept |-> kept[n]]
          BY <4>1, <4>3
        <4>5. \A n \in Numbers(L) : n \in DOMAIN m /\ kept[n] = m[n]
          BY <4>1, <4>2
        <4> QED
          BY <4>4, <4>5
      <3>2. CASE ~(L < k)
        <4>1. kept = m
          BY <1>3, <3>2 DEF Size
        <4> HIDE DEF kept
        <4>2. k = L
          BY <1>3, <1>6, <4>1
        <4> QED
          BY <1>2, <4>1, <4>2
      <3> QED
        BY <3>1, <3>2
    <2> HIDE DEF kept
    <2>2. q = [p EXCEPT !.idx = kept]
      BY <1>4, <1>6
    <2> HIDE DEF q
    <2>3. q = r
      BY <1>1, <2>2
    <2>4. ASSUME NEW n \in DOMAIN kept
          PROVE  \E i \in 0..L-1 : n = Numbered("f", i) /\ kept[n] = i
      <3>1. PICK i \in 0..L-1 : n = Numbered("f", i)
        BY <2>1 DEF Numbers
      <3>2. PICK j \in 0..k-1 : n = Numbered("f", j)
        BY <1>2, <2>1 DEF Numbers
      <3>3. i = j
        BY <3>1, <3>2, NamesAre
      <3>4. m[Numbered("f", j)] = j /\ kept[n] = m[n]
        BY <1>2, <2>1, <3>2
      <3> QED
        BY <3>1, <3>2, <3>3, <3>4
    <2>5. kept \in Indexes
      <3>1. DOMAIN kept \subseteq PortNames
        <4> SUFFICES ASSUME NEW n \in DOMAIN kept PROVE n \in PortNames
          OBVIOUS
        <4>1. PICK i \in 0..L-1 : n = Numbered("f", i)
          BY <2>4
        <4>2. i \in Nat
          BY <1>1
        <4> QED
          BY <1>5, <4>1, <4>2, NamesAre
      <3>2. \A n \in DOMAIN kept : kept[n] \in Nat
        BY <1>1, <2>4
      <3> QED
        BY <2>1, <3>1, <3>2, IndexIs
    <2>6. PortsRight(r)
      <3>1. \A n \in DOMAIN kept : kept[n] \in 0..L-1
        BY <2>4
      <3>2. \A a, b \in DOMAIN kept : kept[a] = kept[b] => a = b
        BY <2>4
      <3>3. \A i \in 0..L-1 : \E n \in DOMAIN kept : kept[n] = i
        <4> TAKE i \in 0..L-1
        <4>1. Numbered("f", i) \in DOMAIN kept
          BY <2>1 DEF Numbers
        <4>2. PICK j \in 0..L-1 : Numbered("f", i) = Numbered("f", j) /\ kept[Numbered("f", i)] = j
          BY <2>4, <4>1
        <4>3. i = j
          BY <4>2, NamesAre
        <4> QED
          BY <4>1, <4>2, <4>3
      <3> QED
        BY <3>1, <3>2, <3>3 DEF PortsRight
    <2>7. r \in RightPorts
      BY <1>1, <2>5, <2>6, RightIs
    <2> QED
      BY <2>3, <2>7 DEF q
  <1>7. CASE Cardinality(DOMAIN kept) # L
    BY <1>4, <1>7
  <1> QED
    BY <1>6, <1>7

(* The place of a dynamic name.                                               *)
LEMMA InsetIs ==
  ASSUME NEW reg, NEW n \in Nat, DOMAIN reg = 1..n, NEW j \in 1..n,
         NEW num, \A x \in DOMAIN num : num[x] \in Nat
  PROVE  InsetIndex(reg, num, reg[j]) \in Nat
  <1> DEFINE k == CHOOSE i \in DOMAIN reg : reg[i] = reg[j]
             m == k - 1
             next(v, i) == v + Widened(num, reg[i])
             step(g) == [i \in 0..m |-> IF i = 0 THEN 0 ELSE next(g[i-1], i)]
             F == [x \in Nat \X (1..m) |-> next(x[1], x[2])]
             c == CHOOSE g : g = step(g)
  <1>0. InsetIndex(reg, num, reg[j]) = m + c[m]
    BY DEF InsetIndex
  <1>1. k \in 1..n
    OBVIOUS
  <1> HIDE DEF k
  <1>2. m \in Nat
    BY <1>1
  <1>3. ASSUME NEW v \in Nat, NEW i \in 1..m PROVE next(v, i) \in Nat
    <2>1. Widened(num, reg[i]) \in Nat
      BY DEF Widened
    <2> QED
      BY <2>1
  <1> HIDE DEF m
  <1>4. \E g : g = step(g)
    <2>1. \A v \in Nat, i \in 1..m : F[<<v, i>>] = next(v, i)
      OBVIOUS
    <2> HIDE DEF F, next
    <2>2. \A v \in Nat, i \in 1..m : F[<<v, i>>] \in Nat
      BY <1>3, <2>1
    <2>3. PICK f : Solves(f, Nat, m, 0, F)
      BY <1>2, <2>2, RunExists
    <2>4. f \in [0..m -> Nat] /\ f[0] = 0 /\ \A i \in 1..m : f[i] = F[<<f[i-1], i>>]
      BY <2>3 DEF Solves
    <2>5. ASSUME NEW i \in 0..m PROVE f[i] = IF i = 0 THEN 0 ELSE next(f[i-1], i)
      <3>1. CASE i = 0
        BY <2>4, <3>1
      <3>2. CASE i # 0
        <4>1. i \in 1..m /\ i - 1 \in 0..m
          BY <1>2, <3>2
        <4>2. f[i-1] \in Nat
          BY <2>4, <4>1
        <4> QED
          BY <2>1, <2>4, <3>2, <4>1, <4>2
      <3> QED
        BY <3>1, <3>2
    <2>6. f = [i \in 0..m |-> f[i]]
      BY <2>4
    <2>7. f = step(f)
      BY <2>5, <2>6
    <2> QED
      BY <2>7
  <1>5. c = step(c)
    <2> HIDE DEF step
    <2> QED
      BY <1>4
  <1> HIDE DEF c
  <1>6. DOMAIN c = 0..m /\ c = [i \in 0..m |-> c[i]] /\ c[0] = 0 /\ \A i \in 1..m : c[i] = next(c[i-1], i)
    <2> HIDE DEF next
    <2>1. DOMAIN c = 0..m /\ \A i \in 0..m : c[i] = IF i = 0 THEN 0 ELSE next(c[i-1], i)
      BY <1>5
    <2>2. c = [i \in 0..m |-> c[i]]
      BY <1>5
    <2>3. 0 \in 0..m /\ \A i \in 1..m : i \in 0..m /\ i # 0
      BY <1>2
    <2> QED
      BY <2>1, <2>2, <2>3
  <1>7. c \in [0..m -> Nat]
    <2> HIDE DEF next
    <2> DEFINE D == Nat
    <2>1. \A i \in 1..m : c[i-1] \in D => c[i] \in D
      BY <1>3, <1>6
    <2>2. c[0] \in D
      BY <1>6
    <2> HIDE DEF D
    <2>3. c \in [0..m -> D]
      BY <1>2, <1>6, <2>1, <2>2, RunStays
    <2> QED
      BY <2>3 DEF D
  <1>8. c[m] \in Nat
    BY <1>2, <1>7
  <1> QED
    BY <1>0, <1>2, <1>8

LEMMA DynamicPortsIs ==
  ASSUME NEW p \in RightPorts, NEW num, \A x \in DOMAIN num : num[x] \in Nat
  PROVE  LET q == AddDynamicPorts(p, num)
         IN  q \in RightPorts /\ IsAdded(p, q)
  <1> DEFINE reg == p.reg
             m == Len(reg)
             D == {q \in RightPorts : IsAdded(p, q)}
             Has(n) == n \in DOMAIN num /\ num[n] > 0
             next(q, k) == LET n == reg[k]
                           IN  IF Has(n) THEN AddInputDescMiddle(q, n[1], num[n], InsetIndex(reg, num, n)) ELSE q
             step(g) == [k \in 0..m |-> IF k = 0 THEN p ELSE next(g[k-1], k)]
             F == [x \in D \X (1..m) |-> next(x[1], x[2])]
             c == CHOOSE g : g = step(g)
  <1>0. m \in Nat /\ DOMAIN reg = 1..m /\ \A k \in 1..m : reg[k] \in PortNames
    BY RightIs
  <1>1. p \in D
    BY SameIsAdded
  <1>5. AddDynamicPorts(p, num) = c[m]
    BY DEF AddDynamicPorts
  <1>2. ASSUME NEW q \in D, NEW k \in 1..m PROVE next(q, k) \in D
    <2> DEFINE n == reg[k]
               i == InsetIndex(reg, num, n)
               b == n[1]
    <2>1. q \in RightPorts /\ IsAdded(p, q)
      OBVIOUS
    <2>2. CASE Has(n)
      <3>1. i \in Nat
        <4> HIDE DEF m, reg
        <4> QED
          BY <1>0, InsetIs
      <3>2. num[n] \in Nat
        BY <2>2
      <3>3. b \in PortBases
        <4>1. n \in PortNames
          BY <1>0
        <4> HIDE DEF n
        <4> QED
          BY <4>1, NamesAre DEF PortNames
      <3> HIDE DEF i, b
      <3> DEFINE r == AddInputDescMiddle(q, b, num[n], i)
      <3>4. r \in RightPorts /\ IsAdded(q, r)
        BY <2>1, <3>1, <3>2, <3>3, MiddleIs
      <3>5. next(q, k) = r
        BY <2>2 DEF i, b
      <3> HIDE DEF r, next
      <3> QED
        BY <2>1, <3>4, <3>5, AddedIsThrough
    <2>3. CASE ~Has(n)
      BY <2>3
    <2> QED
      BY <2>2, <2>3
  <1> HIDE DEF D, m, reg
  <1>3. \E g : g = step(g)
    <2>1. \A q \in D, k \in 1..m : F[<<q, k>>] = next(q, k)
      OBVIOUS
    <2> HIDE DEF F, next
    <2>2. \A q \in D, k \in 1..m : F[<<q, k>>] \in D
      BY <1>2, <2>1
    <2>3. PICK f : Solves(f, D, m, p, F)
      BY <1>0, <1>1, <2>2, RunExists
    <2>4. f \in [0..m -> D] /\ f[0] = p /\ \A k \in 1..m : f[k] = F[<<f[k-1], k>>]
      BY <2>3 DEF Solves
    <2>5. ASSUME NEW k \in 0..m PROVE f[k] = IF k = 0 THEN p ELSE next(f[k-1], k)
      <3>1. CASE k = 0
        BY <2>4, <3>1
      <3>2. CASE k # 0
        <4>1. k \in 1..m /\ k - 1 \in 0..m
          BY <1>0, <3>2
        <4>2. f[k-1] \in D
          BY <2>4, <4>1
        <4> QED
          BY <2>1, <2>4, <3>2, <4>1, <4>2
      <3> QED
        BY <3>1, <3>2
    <2>6. f = [k \in 0..m |-> f[k]]
      BY <2>4
    <2>7. f = step(f)
      BY <2>5, <2>6
    <2> QED
      BY <2>7
  <1>4. c = step(c)
    <2> HIDE DEF step
    <2> QED
      BY <1>3
  <1> HIDE DEF c
  <1>6. DOMAIN c = 0..m /\ c = [k \in 0..m |-> c[k]] /\ c[0] = p /\ \A k \in 1..m : c[k] = next(c[k-1], k)
    <2> HIDE DEF next
    <2>1. DOMAIN c = 0..m /\ \A k \in 0..m : c[k] = IF k = 0 THEN p ELSE next(c[k-1], k)
      BY <1>4
    <2>2. c = [k \in 0..m |-> c[k]]
      BY <1>4
    <2>3. 0 \in 0..m /\ \A k \in 1..m : k \in 0..m /\ k # 0
      BY <1>0
    <2> QED
      BY <2>1, <2>2, <2>3
  <1>7. c \in [0..m -> D]
    <2> HIDE DEF next
    <2>1. \A k \in 1..m : c[k-1] \in D => c[k] \in D
      BY <1>2, <1>6
    <2> QED
      BY <1>0, <1>1, <1>6, <2>1, RunStays
  <1>8. c[m] \in D
    BY <1>0, <1>7
  <1> QED
    BY <1>5, <1>8 DEF D

(* Every description is right, and what a program may add to before it        *)
(* connects operators has not been given other descriptions.                  *)
IsOpDesc(d) ==
    /\ d = [in |-> d.in, out |-> d.out, optional |-> d.optional, isConst |-> d.isConst]
    /\ d.in \in RightPorts /\ d.out \in RightPorts
PortsInv ==
    /\ opdesc = [o \in Operator |-> opdesc[o]]
    /\ links \in Nat
    /\ \A o \in Operator : IsOpDesc(opdesc[o]) /\ (o \notin Parsed /\ links = 0 => AsCreated(opdesc[o].in))
Moves(o, d, e) == IsOpDesc(e) /\ IsAllowed(o, d.in, e.in) /\ IsAllowed(o, d.out, e.out)

LEMMA AllMove ==
  ASSUME PortsInv, opdesc' = [o \in Operator |-> opdesc'[o]], links' \in Nat,
         \A o \in Operator : /\ Moves(o, opdesc[o], opdesc'[o])
                             /\ (o \notin Parsed /\ links' = 0 => AsCreated(opdesc'[o].in))
  PROVE  PortsInv' /\ Promise!PortsNext
  <1>1. PortsInv'
    BY DEF PortsInv, Moves
  <1>2. ASSUME NEW w \in Operator \X {"in", "out"}
        PROVE  LET p == PortsOf(IF w[2] = "in" THEN In(w[1]) ELSE Out(w[1]))
                   q == PortsOf(IF w[2] = "in" THEN opdesc'[w[1]].in ELSE opdesc'[w[1]].out)
               IN  \/ Promise!Extend(p, q) /\ (w \in Parsed \X {"in", "out"} \/ Promise!Keep(p, q))
                   \/ Promise!Describe(p, q)
                   \/ Promise!Rename(p, q)
    <2> DEFINE o == w[1]
               p == IF w[2] = "in" THEN opdesc[o].in ELSE opdesc[o].out
               q == IF w[2] = "in" THEN opdesc'[o].in ELSE opdesc'[o].out
    <2>1. o \in Operator /\ (o \in Parsed => w \in Parsed \X {"in", "out"})
      OBVIOUS
    <2>2. p \in RightPorts /\ q \in RightPorts /\ IsAllowed(o, p, q)
      BY <2>1 DEF PortsInv, Moves, IsOpDesc
    <2> HIDE DEF p, q, o
    <2>3. \/ Promise!Extend(PortsOf(p), PortsOf(q)) /\ (o \in Parsed \/ Promise!Keep(PortsOf(p), PortsOf(q)))
          \/ Promise!Describe(PortsOf(p), PortsOf(q))
          \/ Promise!Rename(PortsOf(p), PortsOf(q))
      BY <2>2, AllowedIs
    <2> QED
      BY <2>1, <2>3 DEF p, q, o, In, Out
  <1>3. Promise!PortsNext
    BY <1>2 DEF Promise!PortsNext, PortsOf, In, Out, GetInputNameByIndex
  <1> QED
    BY <1>1, <1>3

LEMMA NoMove ==
  ASSUME NEW o, NEW d, IsOpDesc(d)
  PROVE  Moves(o, d, d)
  BY DEF Moves, IsAllowed

LEMMA OneMoves ==
  ASSUME PortsInv, NEW o \in Operator, opdesc' = [v \in Operator |-> opdesc'[v]],
         \A v \in Operator \ {o} : opdesc'[v] = opdesc[v],
         Moves(o, opdesc[o], opdesc'[o]),
         links' \in Nat, links' = 0 => links = 0,
         o \notin Parsed /\ links' = 0 => AsCreated(opdesc'[o].in)
  PROVE  PortsInv' /\ Promise!PortsNext
  <1>1. ASSUME NEW v \in Operator
        PROVE  Moves(v, opdesc[v], opdesc'[v]) /\ (v \notin Parsed /\ links' = 0 => AsCreated(opdesc'[v].in))
    <2>1. CASE v = o
      BY <2>1
    <2>2. CASE v # o
      <3>1. opdesc'[v] = opdesc[v] /\ IsOpDesc(opdesc[v]) /\ (v \notin Parsed /\ links = 0 => AsCreated(opdesc[v].in))
        BY <2>2 DEF PortsInv
      <3> QED
        BY <3>1, NoMove
    <2> QED
      BY <2>1, <2>2
  <1> QED
    BY <1>1, AllMove

LEMMA InMoves ==
  ASSUME NEW o, NEW d, IsOpDesc(d), NEW q \in RightPorts, IsAllowed(o, d.in, q), NEW e, e = [d EXCEPT !.in = q]
  PROVE  Moves(o, d, e) /\ e.in = q
  <1> DEFINE x == d.in  y == d.out  z == d.optional  w == d.isConst
  <1>1. d = [in |-> x, out |-> y, optional |-> z, isConst |-> w] /\ y \in RightPorts
    BY DEF IsOpDesc
  <1> HIDE DEF x, y, z, w
  <1>2. e = [in |-> q, out |-> y, optional |-> z, isConst |-> w]
    BY <1>1
  <1>3. IsOpDesc(e) /\ e.in = q /\ e.out = y
    BY <1>1, <1>2 DEF IsOpDesc
  <1> QED
    BY <1>3 DEF Moves, IsAllowed, y

LEMMA OutMoves ==
  ASSUME NEW o, NEW d, IsOpDesc(d), NEW q \in RightPorts, IsAllowed(o, d.out, q), NEW e, e = [d EXCEPT !.out = q]
  PROVE  Moves(o, d, e) /\ e.in = d.in
  <1> DEFINE x == d.in  y == d.out  z == d.optional  w == d.isConst
  <1>1. d = [in |-> x, out |-> y, optional |-> z, isConst |-> w] /\ x \in RightPorts
    BY DEF IsOpDesc
  <1> HIDE DEF x, y, z, w
  <1>2. e = [in |-> x, out |-> q, optional |-> z, isConst |-> w]
    BY <1>1
  <1>3. IsOpDesc(e) /\ e.in = x /\ e.out = q
    BY <1>1, <1>2 DEF IsOpDesc
  <1> QED
    BY <1>3 DEF Moves, IsAllowed, x

LEMMA BothMove ==
  ASSUME NEW o, NEW d, IsOpDesc(d), NEW p \in RightPorts, NEW q \in RightPorts,
         IsAllowed(o, d.in, p), IsAllowed(o, d.out, q), NEW e, e = [d EXCEPT !.in = p, !.out = q]
  PROVE  Moves(o, d, e) /\ e.in = p
  <1> DEFINE x == d.in  y == d.out  z == d.optional  w == d.isConst
  <1>1. d = [in |-> x, out |-> y, optional |-> z, isConst |-> w]
    BY DEF IsOpDesc
  <1> HIDE DEF x, y, z, w
  <1>2. e = [in |-> p, out |-> q, optional |-> z, isConst |-> w]
    BY <1>1
  <1>3. IsOpDesc(e) /\ e.in = p /\ e.out = q
    BY <1>1, <1>2 DEF IsOpDesc
  <1> QED
    BY <1>3 DEF Moves

LEMMA AddedIsAllowed ==
  ASSUME NEW o, NEW p, NEW q, IsAdded(p, q)
  PROVE  IsAllowed(o, p, q)
  BY DEF IsAdded, IsGrown, IsAllowed

LEMMA OperatorsInitIs ==
  ASSUME OperatorsInit
  PROVE  PortsInv /\ Promise!PortsInit
  <1>1. \A o \in Operator : opdesc[o] \in Classes
    BY ConstructIs DEF OperatorsInit
  <1>2. PortsInv
    <2>1. \A o \in Operator : IsOpDesc(opdesc[o]) /\ AsCreated(opdesc[o].in)
      BY <1>1, ClassIs DEF IsOpDesc
    <2> QED
      BY <2>1 DEF PortsInv, OperatorsInit
  <1>3. ASSUME NEW w \in Operator \X {"in", "out"}
        PROVE  Promise!Distinct(PortsOf(IF w[2] = "in" THEN In(w[1]) ELSE Out(w[1])))
    <2> DEFINE p == IF w[2] = "in" THEN In(w[1]) ELSE Out(w[1])
    <2>1. p \in RightPorts
      BY <1>2 DEF PortsInv, IsOpDesc, In, Out
    <2> HIDE DEF p
    <2>2. Promise!Distinct(PortsOf(p))
      BY <2>1, ViewIs
    <2> QED
      BY <2>2 DEF p
  <1>4. Promise!PortsInit
    BY <1>3 DEF Promise!PortsInit
  <1> QED
    BY <1>2, <1>4

(* The operators that are created.                                            *)
LEMMA RegisteredBase ==
  ASSUME NEW o \in Operator, NEW reg, NEW name \in Registered(o, reg)
  PROVE  name \in PortBases
  <1>1. PICK i \in DOMAIN Ir[o] : name = Ir[o][i].name
    BY DEF Registered
  <1> QED
    BY <1>1, BaseIs

LEMMA OneChanges ==
  ASSUME PortsInv, NEW o \in Operator, NEW e, opdesc' = [opdesc EXCEPT ![o] = e], Moves(o, opdesc[o], e),
         links' = links, o \notin Parsed /\ links = 0 => AsCreated(e.in)
  PROVE  PortsInv' /\ Promise!PortsNext
  <1>1. opdesc = [v \in Operator |-> opdesc[v]] /\ links \in Nat
    BY DEF PortsInv
  <1>2. /\ opdesc' = [v \in Operator |-> opdesc'[v]] /\ opdesc'[o] = e
        /\ \A v \in Operator \ {o} : opdesc'[v] = opdesc[v]
    BY <1>1
  <1> QED
    BY <1>1, <1>2, OneMoves

LEMMA InputCreated ==
  ASSUME PortsInv, NEW o \in Operator, o \notin Parsed, links = 0, links' = links,
         NEW q \in RightPorts, IsAdded(opdesc[o].in, q), opdesc' = [opdesc EXCEPT ![o] = [opdesc[o] EXCEPT !.in = q]]
  PROVE  PortsInv' /\ Promise!PortsNext
  <1> DEFINE d == opdesc[o]
             e == [d EXCEPT !.in = q]
  <1>1. IsOpDesc(d) /\ AsCreated(d.in)
    BY DEF PortsInv
  <1>2. Moves(o, d, e) /\ e.in = q
    <2>1. IsAllowed(o, d.in, q)
      BY AddedIsAllowed
    <2>2. e = [d EXCEPT !.in = q]
      OBVIOUS
    <2> HIDE DEF e, d
    <2> QED
      BY <1>1, <2>1, <2>2, InMoves
  <1>3. AsCreated(e.in)
    BY <1>1, <1>2, StaysAsCreated
  <1>4. opdesc' = [opdesc EXCEPT ![o] = e]
    OBVIOUS
  <1> HIDE DEF e
  <1> QED
    BY <1>2, <1>3, <1>4, OneChanges

LEMMA CreateDynamicInputMoves ==
  ASSUME PortsInv, NEW o \in Operator, NEW name, NEW num \in 1..2, NEW back \in BOOLEAN,
         CreateDynamicInput(o, name, num, back)
  PROVE  PortsInv' /\ Promise!PortsNext
  <1> DEFINE q == AddDynamicInputDesc(opdesc[o].in, name, num, back)
  <1>1. /\ o \notin Parsed /\ links = 0 /\ links' = links /\ name \in Registered(o, "dynamicInput")
        /\ opdesc' = [opdesc EXCEPT ![o] = [opdesc[o] EXCEPT !.in = q]]
    BY DEF CreateDynamicInput, Creating, Created, DynamicInputRegister
  <1>2. opdesc[o].in \in RightPorts /\ AsCreated(opdesc[o].in)
    BY <1>1 DEF PortsInv, IsOpDesc
  <1>3. q \in RightPorts /\ IsAdded(opdesc[o].in, q)
    BY <1>1, <1>2, RegisteredBase, DynamicInputIs
  <1> HIDE DEF q
  <1> QED
    BY <1>1, <1>3, InputCreated

LEMMA CreateDynamicInputByIndexMoves ==
  ASSUME PortsInv, NEW o \in Operator, NEW name, NEW num \in 1..2, NEW i \in 0..Size(In(o))+1,
         CreateDynamicInputByIndex(o, name, num, i)
  PROVE  PortsInv' /\ Promise!PortsNext
  <1> DEFINE q == AddInputDescMiddle(opdesc[o].in, name, num, i)
  <1>1. /\ o \notin Parsed /\ links = 0 /\ links' = links /\ name \in Registered(o, "dynamicInput")
        /\ opdesc' = [opdesc EXCEPT ![o] = [opdesc[o] EXCEPT !.in = q]]
    BY DEF CreateDynamicInputByIndex, Creating, Created, DynamicInputRegisterByIndex
  <1>2. opdesc[o].in \in RightPorts
    BY <1>1 DEF PortsInv, IsOpDesc
  <1>3. i \in Nat
    <2>1. Len(opdesc[o].in.desc) \in Nat
      BY <1>2, RightIs
    <2> QED
      BY <2>1 DEF Size, In
  <1>4. q \in RightPorts /\ IsAdded(opdesc[o].in, q)
    BY <1>1, <1>2, <1>3, RegisteredBase, MiddleIs
  <1> HIDE DEF q
  <1> QED
    BY <1>1, <1>4, InputCreated

LEMMA CreateDynamicOutputMoves ==
  ASSUME PortsInv, NEW o \in Operator, NEW name, NEW num \in 1..2, NEW back \in BOOLEAN,
         CreateDynamicOutput(o, name, num, back)
  PROVE  PortsInv' /\ Promise!PortsNext
  <1> DEFINE d == opdesc[o]
             q == AddDynamicOutputDesc(d.out, name, num, back)
             e == [d EXCEPT !.out = q]
  <1>1. /\ o \notin Parsed /\ links = 0 /\ links' = links /\ name \in Registered(o, "dynamicOutput")
        /\ opdesc' = [opdesc EXCEPT ![o] = e]
    BY DEF CreateDynamicOutput, Creating, Created, DynamicOutputRegister
  <1>2. IsOpDesc(d) /\ d.out \in RightPorts /\ AsCreated(d.in)
    BY <1>1 DEF PortsInv, IsOpDesc
  <1>3. q \in RightPorts /\ IsAdded(d.out, q)
    <2>1. name \in PortBases /\ num \in Nat
      BY <1>1, RegisteredBase
    <2> HIDE DEF d
    <2> QED
      BY <1>2, <2>1, DynamicOutputIs
  <1>4. IsAllowed(o, d.out, q)
    BY <1>3, AddedIsAllowed
  <1>5. e = [d EXCEPT !.out = q]
    OBVIOUS
  <1> HIDE DEF q, e
  <1>6. Moves(o, opdesc[o], e) /\ AsCreated(e.in)
    <2> HIDE DEF d
    <2>1. Moves(o, d, e) /\ e.in = d.in
      BY <1>2, <1>3, <1>4, <1>5, OutMoves
    <2> QED
      BY <1>2, <2>1 DEF d
  <1> QED
    BY <1>1, <1>6, OneChanges

LEMMA AddNamelessMoves ==
  ASSUME PortsInv, NEW o \in Operator, AddNameless(o)
  PROVE  PortsInv' /\ Promise!PortsNext
  <1> DEFINE d == opdesc[o]
             p == AddInputDesc(d.in, Numbered("__input", Size(d.in)), DefaultDesc)
             q == AddOutputDesc(d.out, Numbered("__output", Size(d.out)), DefaultDesc)
             e == [d EXCEPT !.in = p, !.out = q]
  <1>0. "__input" \in PortBases /\ "__output" \in PortBases
    <2> {"__input", "__output"} \subseteq {"__input", "__output", "f"}
      OBVIOUS
    <2> QED
      BY DEF PortBases
  <1>1. o \notin Parsed /\ links = 0 /\ links' = links
    BY DEF AddNameless, Creating, Created
  <1>2. /\ IsOpDesc(d) /\ d.in \in RightPorts /\ d.out \in RightPorts /\ AsCreated(d.in)
        /\ opdesc = [v \in Operator |-> opdesc[v]]
    BY <1>1 DEF PortsInv, IsOpDesc
  <1>3. Size(d.in) \in Nat /\ Size(d.out) \in Nat
    BY <1>2, RightIs DEF Size
  <1>4. AddInputDescAt(d.in, Size(d.in), DefaultDesc) = p /\ AddNamelessOutput(d.out, DefaultDesc) = q
    <2>1. ~InRange(d.in, Size(d.in))
      BY <1>3 DEF InRange
    <2> QED
      BY <2>1 DEF AddInputDescAt, AddNamelessInput, AddNamelessOutput
  <1>5. p \in RightPorts /\ IsAdded(d.in, p) /\ AsCreated(p)
    BY <1>0, <1>2, <1>3, AddAgainIs
  <1>6. q \in RightPorts /\ IsAdded(d.out, q)
    <2>1. Numbered("__output", Size(d.out)) \in PortNames
      BY <1>0, <1>3, NamesAre
    <2> QED
      BY <1>2, <2>1, AddOutIs
  <1>7. opdesc' = [opdesc EXCEPT ![o].in = AddInputDescAt(@, Size(@), DefaultDesc), ![o].out = AddNamelessOutput(@, DefaultDesc)]
    BY DEF AddNameless
  <1>8. e = [d EXCEPT !.in = p, !.out = q]
    OBVIOUS
  <1>9. opdesc' = [opdesc EXCEPT ![o] = e]
    <2> DEFINE g == AddInputDescAt(d.in, Size(d.in), DefaultDesc)
               h == AddNamelessOutput(d.out, DefaultDesc)
    <2>1. opdesc' = [opdesc EXCEPT ![o].in = g, ![o].out = h]
      BY <1>7
    <2>2. g = p /\ h = q
      BY <1>4
    <2> HIDE DEF p, q, g, h
    <2> QED
      BY <1>2, <2>1, <2>2
  <1> HIDE DEF p, q, e
  <1>10. Moves(o, opdesc[o], e) /\ AsCreated(e.in)
    <2> HIDE DEF d
    <2>1. IsAllowed(o, d.in, p) /\ IsAllowed(o, d.out, q)
      BY <1>5, <1>6, AddedIsAllowed
    <2>3. p \in RightPorts /\ q \in RightPorts /\ IsOpDesc(d)
      BY <1>2, <1>5, <1>6
    <2>2. Moves(o, d, e)
      BY <1>8, <2>1, <2>3, BothMove
    <2>4. e.in = p
      <3>1. d = [in |-> d.in, out |-> d.out, optional |-> d.optional, isConst |-> d.isConst]
        BY <2>3 DEF IsOpDesc
      <3> QED
        BY <1>8, <3>1
    <2> QED
      BY <1>5, <2>2, <2>4 DEF d
  <1> QED
    BY <1>1, <1>9, <1>10, OneChanges

LEMMA TakeOverNamesMoves ==
  ASSUME PortsInv, NEW o \in Operator, o \in Parsed, NEW k \in Nat, TakeOverNames(o, k)
  PROVE  PortsInv' /\ Promise!PortsNext
  <1> DEFINE d == opdesc[o]
             m == [n \in {Numbered("f", i) : i \in 0..k-1} |-> n[2]]
             p == UpdateInputName(d.in, m)
             q == UpdateInputName(d.out, m)
             e == [d EXCEPT !.in = p, !.out = q]
  <1>1. links' = links /\ opdesc' = [opdesc EXCEPT ![o].in = p, ![o].out = q]
    BY DEF TakeOverNames, Created, UpdateOutputName
  <1>2. /\ IsOpDesc(d) /\ d.in \in RightPorts /\ d.out \in RightPorts
        /\ opdesc = [v \in Operator |-> opdesc[v]]
    BY <1>1 DEF PortsInv, IsOpDesc
  <1>3. m = [n \in Numbers(k) |-> n[2]]
    BY DEF Numbers
  <1> HIDE DEF m
  <1>4. p \in RightPorts /\ p.desc = d.in.desc
    BY <1>2, <1>3, TakenIs
  <1>5. q \in RightPorts /\ q.desc = d.out.desc
    BY <1>2, <1>3, TakenIs
  <1>6. e = [d EXCEPT !.in = p, !.out = q]
    OBVIOUS
  <1>7. opdesc' = [opdesc EXCEPT ![o] = e]
    <2> HIDE DEF p, q
    <2> QED
      BY <1>1, <1>2
  <1> HIDE DEF p, q, e
  <1>8. Moves(o, opdesc[o], e)
    <2>1. IsAllowed(o, d.in, p) /\ IsAllowed(o, d.out, q)
      BY <1>4, <1>5 DEF IsAllowed
    <2> HIDE DEF d
    <2>2. Moves(o, d, e)
      BY <1>2, <1>4, <1>5, <1>6, <2>1, BothMove
    <2> QED
      BY <2>2 DEF d
  <1> QED
    BY <1>1, <1>7, <1>8, OneChanges

(* Descriptions of tensors.                                                   *)
LEMMA FormatIs ==
  ASSUME NEW x \in PortDescs, NEW f \in DataFormats \cup {"ND", "reserved"}
  PROVE  [x EXCEPT !.format = f] \in PortDescs
  BY DEF PortDescs

LEMMA ReplacedIs ==
  ASSUME NEW s \in Seq(PortDescs), NEW t, t = [i \in DOMAIN s |-> t[i]], \A i \in DOMAIN s : t[i] \in PortDescs
  PROVE  t \in Seq(PortDescs) /\ Len(t) = Len(s)
  <1> DEFINE n == Len(s)
  <1>1. n \in Nat /\ DOMAIN s = 1..n
    OBVIOUS
  <1> HIDE DEF n
  <1>2. t \in [1..n -> PortDescs]
    BY <1>1
  <1> QED
    BY <1>1, <1>2 DEF n

LEMMA GetIs ==
  ASSUME NEW p \in RightPorts, NEW n
  PROVE  GetInputDesc(p, n) \in PortDescs
  <1>1. p.desc \in Seq(PortDescs)
    BY RightIs
  <1>2. CASE HasName(p, n) /\ InRange(p, p.idx[n])
    <2>1. n \in DOMAIN p.idx /\ p.idx[n] + 1 \in 1..Len(p.desc)
      BY <1>2, NameAt DEF HasName
    <2>2. p.desc[p.idx[n] + 1] \in PortDescs
      <3> DEFINE k == p.idx[n] + 1
      <3>1. k \in 1..Len(p.desc)
        BY <2>1
      <3> HIDE DEF k
      <3>2. p.desc[k] \in PortDescs
        BY <1>1, <3>1
      <3> QED
        BY <3>2 DEF k
    <2> QED
      BY <1>2, <2>2 DEF GetInputDesc
  <1>3. CASE ~(HasName(p, n) /\ InRange(p, p.idx[n]))
    BY <1>3, DescsAre DEF GetInputDesc
  <1> QED
    BY <1>2, <1>3

LEMMA LinkedIs ==
  ASSUME NEW x \in PortDescs, NEW y \in PortDescs
  PROVE  LinkedDesc(x, y) \in PortDescs
  <1> DEFINE f == IF y.format = "reserved" THEN "ND" ELSE y.format
  <1>1. f \in DataFormats \cup {"ND", "reserved"}
    BY DEF PortDescs
  <1>2. LinkedDesc(x, y) = [x EXCEPT !.format = f]
    BY DEF LinkedDesc
  <1> HIDE DEF f
  <1> QED
    BY <1>1, <1>2, FormatIs

(* A plugin maps an operator.                                                 *)
LEMMA MappedIs ==
  ASSUME NEW d, IsOpDesc(d), NEW src \in DataFormats, NEW dst \in DataFormats, NEW a, NEW b,
         \A x \in DOMAIN a : a[x] \in Nat, \A x \in DOMAIN b : b[x] \in Nat, NEW o \in Parsed,
         NEW e, e = AutoMappingByOpFnDynamic(SetOpdescInputOutputFormat(d, src, dst), a, b)
  PROVE  Moves(o, d, e)
  <1> DEFINE s == d.in.desc
             t == d.out.desc
             V == {i \in DOMAIN s : IsValidDesc(s[i])}
             s1 == [i \in DOMAIN s |-> IF i \in V THEN [s[i] EXCEPT !.format = src] ELSE s[i]]
             t1 == [i \in DOMAIN t |-> IF i \in DOMAIN t THEN [t[i] EXCEPT !.format = dst] ELSE t[i]]
             p == d.in
             q == d.out
             p1 == [p EXCEPT !.desc = s1]
             q1 == [q EXCEPT !.desc = t1]
             x == d.optional
             y == d.isConst
             c == SetOpdescInputOutputFormat(d, src, dst)
             p2 == AddDynamicPorts(p1, a)
             q2 == AddDynamicPorts(q1, b)
  <1>1. d = [in |-> p, out |-> q, optional |-> x, isConst |-> y] /\ p \in RightPorts /\ q \in RightPorts
    BY DEF IsOpDesc
  <1>2. s \in Seq(PortDescs) /\ t \in Seq(PortDescs)
    BY <1>1, RightIs
  <1>3. c = [d EXCEPT !.in.desc = s1, !.out.desc = t1]
    <2>1. s1 = [i \in DOMAIN s |-> IF IsValidDesc(s[i]) THEN [s[i] EXCEPT !.format = src] ELSE s[i]]
      OBVIOUS
    <2>2. t1 = [i \in DOMAIN t |-> [t[i] EXCEPT !.format = dst]]
      OBVIOUS
    <2> HIDE DEF s1, t1
    <2> QED
      BY <2>1, <2>2 DEF SetOpdescInputOutputFormat
  <1>4. s1 \in Seq(PortDescs) /\ Len(s1) = Len(s)
    <2>1. ASSUME NEW i \in DOMAIN s PROVE s1[i] \in PortDescs
      <3>1. s[i] \in PortDescs /\ [s[i] EXCEPT !.format = src] \in PortDescs
        BY <1>2, FormatIs
      <3> HIDE DEF s, V
      <3> QED
        BY <3>1
    <2>2. s1 = [i \in DOMAIN s |-> s1[i]]
      OBVIOUS
    <2> HIDE DEF s1, s
    <2> QED
      BY <1>2, <2>1, <2>2, ReplacedIs
  <1>5. t1 \in Seq(PortDescs) /\ Len(t1) = Len(t)
    <2>1. ASSUME NEW i \in DOMAIN t PROVE t1[i] \in PortDescs
      <3>1. [t[i] EXCEPT !.format = dst] \in PortDescs
        BY <1>2, FormatIs
      <3> HIDE DEF t
      <3> QED
        BY <3>1
    <2>2. t1 = [i \in DOMAIN t |-> t1[i]]
      OBVIOUS
    <2> HIDE DEF t1, t
    <2> QED
      BY <1>2, <2>1, <2>2, ReplacedIs
  <1> HIDE DEF s1, t1
  <1>6. p1 \in RightPorts /\ p1.idx = p.idx
    <2>1. p1 = [p EXCEPT !.desc = s1]
      OBVIOUS
    <2> HIDE DEF p1, p
    <2> QED
      BY <1>1, <1>4, <2>1, DescribedIs DEF p
  <1>7. q1 \in RightPorts /\ q1.idx = q.idx
    <2>1. q1 = [q EXCEPT !.desc = t1]
      OBVIOUS
    <2> HIDE DEF q1, q
    <2> QED
      BY <1>1, <1>5, <2>1, DescribedIs DEF q
  <1>8. c = [in |-> p1, out |-> q1, optional |-> x, isConst |-> y]
    <2>1. c = [d EXCEPT !.in = p1, !.out = q1]
      BY <1>1, <1>3
    <2> HIDE DEF c, p1, q1, p, q, x, y
    <2> QED
      BY <1>1, <2>1
  <1>9. e = [c EXCEPT !.in = AddDynamicPorts(@, a), !.out = AddDynamicPorts(@, b)]
    BY DEF AutoMappingByOpFnDynamic
  <1> HIDE DEF c, p1, q1
  <1>10. c.in = p1 /\ c.out = q1
    BY <1>8
  <1>11. e = [in |-> p2, out |-> q2, optional |-> x, isConst |-> y]
    <2>1. p2 = AddDynamicPorts(c.in, a) /\ q2 = AddDynamicPorts(c.out, b)
      BY <1>10
    <2>2. e = [c EXCEPT !.in = p2, !.out = q2]
      BY <1>9, <2>1
    <2> HIDE DEF p2, q2, x, y
    <2> QED
      BY <1>8, <2>2
  <1>12. p2 \in RightPorts /\ IsAdded(p1, p2)
    BY <1>6, DynamicPortsIs
  <1>13. q2 \in RightPorts /\ IsAdded(q1, q2)
    BY <1>7, DynamicPortsIs
  <1> HIDE DEF p2, q2
  <1>14. IsAllowed(o, p, p2)
    BY <1>6, <1>12 DEF IsAdded, IsGrown, IsExtended, IsAllowed
  <1>15. IsAllowed(o, q, q2)
    BY <1>7, <1>13 DEF IsAdded, IsGrown, IsExtended, IsAllowed
  <1>16. e.in = p2 /\ e.out = q2
    BY <1>11
  <1>17. IsOpDesc(e)
    BY <1>11, <1>12, <1>13 DEF IsOpDesc
  <1> QED
    BY <1>14, <1>15, <1>16, <1>17 DEF Moves

LEMMA AutoMappingMoves ==
  ASSUME PortsInv, NEW o \in Operator, NEW num \in Counts, NEW src \in DataFormats, NEW dst \in DataFormats,
         AutoMapping(o, num, src, dst)
  PROVE  PortsInv' /\ Promise!PortsNext
  <1> DEFINE K(reg) == {Plain(n) : n \in Registered(o, reg)}
             a == Restrict(num, K("dynamicInput"))
             b == Restrict(num, K("dynamicOutput"))
             d == opdesc[o]
             e == AutoMappingByOpFnDynamic(SetOpdescInputOutputFormat(d, src, dst), a, b)
  <1>1. o \in Parsed /\ links' = links /\ opdesc' = [opdesc EXCEPT ![o] = e]
    BY DEF AutoMapping, Created
  <1>2. IsOpDesc(d)
    BY DEF PortsInv
  <1> DEFINE P == UNION {Registered(v, "dynamicInput") \cup Registered(v, "dynamicOutput") : v \in Parsed}
  <1>3. num \in [{Plain(n) : n \in P} -> 0..2]
    BY DEF Counts
  <1>4. Registered(o, "dynamicInput") \subseteq P /\ Registered(o, "dynamicOutput") \subseteq P
    BY <1>1
  <1> HIDE DEF P
  <1>5. \A x \in DOMAIN a : a[x] \in Nat
    <2> SUFFICES ASSUME NEW x \in K("dynamicInput") PROVE num[x] \in Nat
      BY DEF Restrict
    <2>1. x \in {Plain(n) : n \in P}
      BY <1>4
    <2>2. num[x] \in 0..2
      BY <1>3, <2>1
    <2> QED
      BY <2>2
  <1>6. \A x \in DOMAIN b : b[x] \in Nat
    <2> SUFFICES ASSUME NEW x \in K("dynamicOutput") PROVE num[x] \in Nat
      BY DEF Restrict
    <2>1. x \in {Plain(n) : n \in P}
      BY <1>4
    <2>2. num[x] \in 0..2
      BY <1>3, <2>1
    <2> QED
      BY <2>2
  <1>7. e = AutoMappingByOpFnDynamic(SetOpdescInputOutputFormat(d, src, dst), a, b)
    OBVIOUS
  <1> HIDE DEF a, b, e
  <1>8. Moves(o, opdesc[o], e)
    <2> HIDE DEF d
    <2>1. Moves(o, d, e)
      BY <1>1, <1>2, <1>5, <1>6, <1>7, MappedIs
    <2> QED
      BY <2>1 DEF d
  <1> QED
    BY <1>1, <1>8, OneChanges

(* Connections: the descriptions of existing ports.                           *)
LEMMA ConnectMoves ==
  ASSUME PortsInv, NEW o \in Wired, NEW s \in Wired, NEW name, NEW sname, links' = links + 1,
         Connect(o, name, s, sname)
  PROVE  PortsInv' /\ Promise!PortsNext
  <1> DEFINE i == GetInputIndexByName(In(o), name)
             d == opdesc[o]
             x == LinkedDesc(GetOutputDesc(Out(s), sname), GetInputDesc(In(o), name))
             q == UpdateInputDesc(d.in, name, x)
             f == SetConst(d.isConst, i, TypeOf[s] = "Const")
  <1>1. /\ o \in Operator /\ s \in Operator /\ opdesc = [v \in Operator |-> opdesc[v]] /\ links \in Nat
        /\ \A v \in Operator : IsOpDesc(opdesc[v])
    BY OperatorAssumption DEF PortsInv
  <1>2. links' \in Nat /\ links' # 0
    BY <1>1
  <1>3. \/ opdesc' = opdesc
        \/ opdesc' = [opdesc EXCEPT ![o].isConst = f, ![o].in = q]
    <2> HIDE DEF i
    <2>1. CASE i < 0
      BY <2>1 DEF Connect, i
    <2>2. CASE ~(i < 0)
      BY <2>2 DEF Connect, i
    <2> QED
      BY <2>1, <2>2
  <1>4. CASE opdesc' = opdesc
    <2>1. opdesc' = [v \in Operator |-> opdesc'[v]]
      BY <1>1, <1>4
    <2>2. \A v \in Operator : Moves(v, opdesc[v], opdesc'[v])
      BY <1>1, <1>4, NoMove
    <2> QED
      BY <1>2, <2>1, <2>2, AllMove
  <1>5. CASE opdesc' = [opdesc EXCEPT ![o].isConst = f, ![o].in = q]
    <2>1. x \in PortDescs
      <3>1. In(o) \in RightPorts /\ Out(s) \in RightPorts
        BY <1>1 DEF IsOpDesc, In, Out
      <3>2. GetInputDesc(Out(s), sname) \in PortDescs /\ GetInputDesc(In(o), name) \in PortDescs
        BY <3>1, GetIs
      <3> QED
        BY <3>2, LinkedIs DEF GetOutputDesc, GetInputDesc
    <2> HIDE DEF x
    <2>2. d.in \in RightPorts
      BY <1>1 DEF IsOpDesc
    <2>3. q \in RightPorts /\ q.idx = d.in.idx /\ Len(q.desc) = Len(d.in.desc)
      BY <2>1, <2>2, UpdateIs
    <2>4. IsAllowed(o, d.in, q)
      BY <2>3 DEF IsAllowed
    <2> HIDE DEF f, q
    <2> DEFINE y == d.out
               z == d.optional
               w == d.isConst
               p == d.in
    <2>5. d = [in |-> p, out |-> y, optional |-> z, isConst |-> w] /\ y \in RightPorts
      BY <1>1 DEF IsOpDesc
    <2>6. opdesc' = [v \in Operator |-> opdesc'[v]] /\ \A v \in Operator \ {o} : opdesc'[v] = opdesc[v]
      BY <1>1, <1>5
    <2>7. opdesc'[o] = [in |-> q, out |-> y, optional |-> z, isConst |-> f]
      <3>1. opdesc'[o] = [d EXCEPT !.isConst = f, !.in = q]
        BY <1>1, <1>5
      <3> HIDE DEF d, y, z, w, p
      <3> QED
        BY <2>5, <3>1
    <2> HIDE DEF y, z, w
    <2>8. Moves(o, d, opdesc'[o])
      <3> DEFINE e == opdesc'[o]
      <3>1. e.in = q /\ e.out = y /\ IsOpDesc(e)
        BY <2>3, <2>5, <2>7 DEF IsOpDesc
      <3>2. IsAllowed(o, d.out, e.out)
        BY <3>1 DEF IsAllowed, y
      <3> QED
        BY <2>4, <3>1, <3>2 DEF Moves
    <2> QED
      BY <1>1, <1>2, <2>6, <2>8, OneMoves
  <1> QED
    BY <1>3, <1>4, <1>5

LEMMA StillMoves ==
  ASSUME PortsInv, opdesc' = opdesc, links' \in Nat, links' = 0 => links = 0
  PROVE  PortsInv' /\ Promise!PortsNext
  <1>1. opdesc' = [v \in Operator |-> opdesc'[v]]
    BY DEF PortsInv
  <1>2. \A v \in Operator : /\ Moves(v, opdesc[v], opdesc'[v])
                            /\ (v \notin Parsed /\ links' = 0 => AsCreated(opdesc'[v].in))
    BY NoMove DEF PortsInv
  <1> QED
    BY <1>1, <1>2, AllMove

LEMMA InputDescMoves ==
  ASSUME PortsInv, NEW o \in Wired, NEW n, NEW x \in PortDescs, UpdateOperatorInputDesc(o, n, x)
  PROVE  PortsInv' /\ Promise!PortsNext
  <1> DEFINE d == opdesc[o]
             q == UpdateInputDesc(d.in, n, x)
             e == [d EXCEPT !.in = q]
  <1>1. opdesc' = [opdesc EXCEPT ![o] = e] /\ links' = links + 1
    BY DEF UpdateOperatorInputDesc, Linked
  <1>2. o \in Operator /\ opdesc = [v \in Operator |-> opdesc[v]] /\ links \in Nat /\ IsOpDesc(d)
    BY OperatorAssumption DEF PortsInv
  <1>3. q \in RightPorts /\ q.idx = d.in.idx /\ Len(q.desc) = Len(d.in.desc)
    BY <1>2, UpdateIs DEF IsOpDesc
  <1>4. IsAllowed(o, d.in, q)
    BY <1>3 DEF IsAllowed
  <1>5. e = [d EXCEPT !.in = q]
    OBVIOUS
  <1> HIDE DEF q, e
  <1>6. Moves(o, opdesc[o], e)
    <2> HIDE DEF d
    <2>1. Moves(o, d, e)
      BY <1>2, <1>3, <1>4, <1>5, InMoves
    <2> QED
      BY <2>1 DEF d
  <1>7. /\ opdesc' = [v \in Operator |-> opdesc'[v]] /\ opdesc'[o] = e
        /\ \A v \in Operator \ {o} : opdesc'[v] = opdesc[v]
    BY <1>1, <1>2
  <1>8. links' \in Nat /\ links' # 0
    BY <1>1, <1>2
  <1> QED
    BY <1>2, <1>6, <1>7, <1>8, OneMoves

LEMMA OutputDescMoves ==
  ASSUME PortsInv, NEW o \in Wired, NEW n, NEW x \in PortDescs, UpdateOperatorOutputDesc(o, n, x)
  PROVE  PortsInv' /\ Promise!PortsNext
  <1> DEFINE d == opdesc[o]
             q == UpdateInputDesc(d.out, n, x)
             e == [d EXCEPT !.out = q]
             m == [opdesc EXCEPT ![o] = e]
             A == ToSet(Asked(o, n))
             Follows(v, i) == \E l \in A : l.owner = v /\ GetInputIndexByName(m[v].in, l.name) = i
             t(v) == [i \in DOMAIN m[v].in.desc |-> IF Follows(v, i - 1) THEN x ELSE m[v].in.desc[i]]
  <1>1. o \in Operator /\ opdesc = [v \in Operator |-> opdesc[v]] /\ links \in Nat /\ \A v \in Operator : IsOpDesc(opdesc[v])
    BY OperatorAssumption DEF PortsInv
  <1>2. opdesc' = [v \in DOMAIN m |-> [m[v] EXCEPT !.in.desc = t(v)]] /\ links' = links + 1
    BY DEF UpdateOperatorOutputDesc, Linked, UpdateOutputDesc, UpdateFollowers
  <1>3. q \in RightPorts /\ q.idx = d.out.idx /\ Len(q.desc) = Len(d.out.desc)
    BY <1>1, UpdateIs DEF IsOpDesc
  <1>4. IsAllowed(o, d.out, q)
    BY <1>3 DEF IsAllowed
  <1>5. e = [d EXCEPT !.out = q]
    OBVIOUS
  <1> HIDE DEF q, e, A
  <1>6. Moves(o, d, e) /\ e.in = d.in
    <2>1. IsOpDesc(d)
      BY <1>1
    <2> HIDE DEF d
    <2>2. Moves(o, d, e)
      BY <1>3, <1>4, <1>5, <2>1, OutMoves
    <2>3. e.in = d.in
      <3>1. d = [in |-> d.in, out |-> d.out, optional |-> d.optional, isConst |-> d.isConst]
        BY <2>1 DEF IsOpDesc
      <3> QED
        BY <1>5, <3>1
    <2> QED
      BY <2>2, <2>3
  <1>7. DOMAIN m = Operator /\ m[o] = e /\ \A v \in Operator \ {o} : m[v] = opdesc[v]
    BY <1>1
  <1> HIDE DEF m
  <1>8. ASSUME NEW v \in Operator
        PROVE  IsOpDesc(m[v]) /\ m[v].in = opdesc[v].in /\ IsAllowed(v, opdesc[v].out, m[v].out)
    <2>1. CASE v = o
      <3>1. IsOpDesc(e) /\ IsAllowed(o, d.out, e.out) /\ e.in = d.in
        BY <1>6 DEF Moves
      <3> QED
        BY <1>7, <2>1, <3>1
    <2>2. CASE v # o
      BY <1>1, <1>7, <2>2 DEF IsAllowed
    <2> QED
      BY <2>1, <2>2
  <1>9. ASSUME NEW v \in Operator PROVE Moves(v, opdesc[v], opdesc'[v])
    <2> DEFINE c == m[v]
               p == c.in
               y == c.out
               z == c.optional
               w == c.isConst
               s == t(v)
               r == [p EXCEPT !.desc = s]
               g == opdesc'[v]
    <2>1. IsOpDesc(c) /\ p = opdesc[v].in /\ IsAllowed(v, opdesc[v].out, y)
      BY <1>8
    <2>2. c = [in |-> p, out |-> y, optional |-> z, isConst |-> w] /\ p \in RightPorts /\ y \in RightPorts
      BY <2>1 DEF IsOpDesc
    <2>3. s \in Seq(PortDescs) /\ Len(s) = Len(p.desc)
      <3> DEFINE u == p.desc
      <3>1. u \in Seq(PortDescs)
        BY <2>2, RightIs
      <3>2. s = [i \in DOMAIN u |-> s[i]]
        OBVIOUS
      <3>3. ASSUME NEW i \in DOMAIN u PROVE s[i] \in PortDescs
        <4>1. u[i] \in PortDescs
          <5> HIDE DEF u
          <5> QED
            BY <3>1
        <4>2. s[i] = x \/ s[i] = u[i]
          OBVIOUS
        <4> HIDE DEF s, u
        <4> QED
          BY <4>1, <4>2
      <3> HIDE DEF s, u
      <3>4. s \in Seq(PortDescs) /\ Len(s) = Len(u)
        BY <3>1, <3>2, <3>3, ReplacedIs
      <3> QED
        BY <3>4 DEF u
    <2>4. g = [c EXCEPT !.in.desc = s]
      BY <1>2, <1>7
    <2> HIDE DEF s
    <2>5. g = [c EXCEPT !.in = r]
      BY <2>2, <2>4
    <2>6. r = [p EXCEPT !.desc = s]
      OBVIOUS
    <2> HIDE DEF r, g
    <2>7. r \in RightPorts /\ r.idx = p.idx /\ r.desc = s
      <3> HIDE DEF p
      <3> QED
        BY <2>2, <2>3, <2>6, DescribedIs
    <2>8. IsAllowed(v, p, r)
      BY <2>3, <2>7 DEF IsAllowed
    <2>9. g = [in |-> r, out |-> y, optional |-> z, isConst |-> w]
      <3> HIDE DEF c, p, y, z, w
      <3> QED
        BY <2>2, <2>5
    <2> HIDE DEF p, y, z, w
    <2>10. IsOpDesc(g) /\ g.in = r /\ g.out = y
      BY <2>2, <2>7, <2>9 DEF IsOpDesc
    <2>11. Moves(v, opdesc[v], g)
      BY <2>1, <2>8, <2>10 DEF Moves
    <2> QED
      BY <2>11 DEF g
  <1>10. opdesc' = [v \in Operator |-> opdesc'[v]]
    BY <1>2, <1>7
  <1>11. links' \in Nat /\ links' # 0
    BY <1>1, <1>2
  <1> QED
    BY <1>9, <1>10, <1>11, AllMove

LEMMA CreateMoves ==
  ASSUME PortsInv, CreateNext
  PROVE  PortsInv' /\ Promise!PortsNext
  <1>1. Parsed \subseteq Operator
    BY OperatorAssumption
  <1>2. CASE \E o \in Operator, num \in 1..2 :
               \/ \E name \in Registered(o, "dynamicInput") :
                    \/ \E back \in BOOLEAN : CreateDynamicInput(o, name, num, back)
                    \/ \E i \in 0..Size(In(o))+1 : CreateDynamicInputByIndex(o, name, num, i)
               \/ \E name \in Registered(o, "dynamicOutput"), back \in BOOLEAN : CreateDynamicOutput(o, name, num, back)
    BY <1>2, CreateDynamicInputMoves, CreateDynamicInputByIndexMoves, CreateDynamicOutputMoves
  <1>3. CASE \E o \in Operator : AddNameless(o)
    BY <1>3, AddNamelessMoves
  <1>4. CASE \E o \in Parsed, k \in 1..4 : TakeOverNames(o, k)
    <2>1. PICK o \in Parsed, k \in 1..4 : TakeOverNames(o, k)
      BY <1>4
    <2>2. o \in Operator /\ k \in Nat
      BY <1>1
    <2> QED
      BY <2>1, <2>2, TakeOverNamesMoves
  <1>5. CASE \E o \in Parsed, num \in Counts, f, g \in DataFormats : AutoMapping(o, num, f, g)
    BY <1>1, <1>5, AutoMappingMoves
  <1>6. CASE \E o \in Operator, g \in Instances : \E n \in DOMAIN subs[o].builder : SetSubgraphBuilder(o, n, g)
    <2>1. opdesc' = opdesc /\ links' = links
      BY <1>6 DEF SetSubgraphBuilder, Created
    <2> QED
      BY <2>1, StillMoves DEF PortsInv
  <1> QED
    BY <1>2, <1>3, <1>4, <1>5, <1>6 DEF CreateNext

LEMMA LinkMoves ==
  ASSUME PortsInv, LinkNext
  PROVE  PortsInv' /\ Promise!PortsNext
  <1>1. ASSUME opdesc' = opdesc, links' = links + 1 PROVE PortsInv' /\ Promise!PortsNext
    <2>1. links \in Nat /\ links' \in Nat /\ links' # 0
      BY <1>1 DEF PortsInv
    <2> QED
      BY <1>1, <2>1, StillMoves
  <1>2. ASSUME NEW o \in Wired, NEW s \in Wired, NEW name, SetInput(o, name, s)
        PROVE  PortsInv' /\ Promise!PortsNext
    <2>1. links' = links + 1
      BY <1>2 DEF SetInput, Linked
    <2>2. CASE Size(Out(s)) = 1
      <3>1. Connect(o, name, s, GetOutputNameByIndex(Out(s), 0))
        BY <1>2, <2>2 DEF SetInput
      <3> QED
        BY <2>1, <3>1, ConnectMoves
    <2>3. CASE Size(Out(s)) # 1
      <3>1. opdesc' = opdesc
        BY <1>2, <2>3 DEF SetInput
      <3> QED
        BY <1>1, <2>1, <3>1
    <2> QED
      BY <2>2, <2>3
  <1>3. ASSUME NEW o \in Wired, NEW s \in Wired, NEW name, NEW i, SetInputByIndex(o, name, s, i)
        PROVE  PortsInv' /\ Promise!PortsNext
    <2>1. links' = links + 1 /\ Connect(o, name, s, GetOutput(s, i))
      BY <1>3 DEF SetInputByIndex, Linked
    <2> QED
      BY <2>1, ConnectMoves
  <1>4. ASSUME NEW o, NEW s, AddControlInput(o, s) PROVE PortsInv' /\ Promise!PortsNext
    <2>1. opdesc' = opdesc /\ links' = links + 1
      BY <1>4 DEF AddControlInput, Linked
    <2> QED
      BY <1>1, <2>1
  <1>5. ASSUME NEW t \in DataTypes, NEW f \in DataFormats PROVE [type |-> t, format |-> f] \in PortDescs
    BY DEF PortDescs
  <1>6. ASSUME NEW o \in Wired, NEW t \in DataTypes, NEW f \in DataFormats, NEW n,
               UpdateOperatorOutputDesc(o, n, [type |-> t, format |-> f])
        PROVE  PortsInv' /\ Promise!PortsNext
    <2> DEFINE x == [type |-> t, format |-> f]
    <2>1. x \in PortDescs
      BY <1>5
    <2>2. UpdateOperatorOutputDesc(o, n, x)
      BY <1>6
    <2> HIDE DEF x
    <2> QED
      BY <2>1, <2>2, OutputDescMoves
  <1>7. ASSUME NEW o \in Wired, NEW t \in DataTypes, NEW f \in DataFormats, NEW n,
               UpdateOperatorInputDesc(o, n, [type |-> t, format |-> f])
        PROVE  PortsInv' /\ Promise!PortsNext
    <2> DEFINE x == [type |-> t, format |-> f]
    <2>1. x \in PortDescs
      BY <1>5
    <2>2. UpdateOperatorInputDesc(o, n, x)
      BY <1>7
    <2> HIDE DEF x
    <2> QED
      BY <2>1, <2>2, InputDescMoves
  <1> QED
    BY <1>2, <1>3, <1>4, <1>6, <1>7 DEF LinkNext

LEMMA OperatorsMove ==
  ASSUME PortsInv, [OperatorsNext]_vars
  PROVE  PortsInv' /\ (Promise!PortsNext \/ UNCHANGED opdesc)
  <1>1. CASE CreateNext
    BY <1>1, CreateMoves
  <1>2. CASE LinkNext
    BY <1>2, LinkMoves
  <1>3. ASSUME opdesc' = opdesc, links' = links PROVE PortsInv' /\ UNCHANGED opdesc
    BY <1>3, StillMoves DEF PortsInv
  <1>4. CASE BuildNext
    <2>1. opdesc' = opdesc /\ links' = links
      BY <1>4 DEF BuildNext, Build, BreakConnect
    <2> QED
      BY <1>3, <2>1
  <1>5. CASE UNCHANGED vars
    BY <1>3, <1>5 DEF vars
  <1> QED
    BY <1>1, <1>2, <1>4, <1>5 DEF OperatorsNext

(* Whatever the order in which a program registers, creates, renames and maps *)
(* the ports of its operators and connects them, the vectors and the name     *)
(* maps of op_desc.cc keep what PortsSpec promises.                           *)
THEOREM OpDescPromiseAlways == OperatorsSpec => OpDescPromise
  <1>1. OperatorsInit => PortsInv /\ Promise!PortsInit
    BY OperatorsInitIs
  <1>2. PortsInv /\ [OperatorsNext]_vars => PortsInv'
    BY OperatorsMove
  <1>3. PortsInv /\ [OperatorsNext]_vars
          => [Promise!PortsNext]_([w \in Operator \X {"in", "out"} |-> PortsOf(IF w[2] = "in" THEN In(w[1]) ELSE Out(w[1]))])
    <2> DEFINE view == [w \in Operator \X {"in", "out"} |-> PortsOf(IF w[2] = "in" THEN In(w[1]) ELSE Out(w[1]))]
    <2>1. opdesc' = opdesc => view' = view
      BY DEF PortsOf, GetInputNameByIndex, In, Out
    <2> QED
      BY <2>1, OperatorsMove
  <1> QED
    BY <1>1, <1>2, <1>3, PTL DEF OperatorsSpec, OpDescPromise, Promise!PortsSpec
=============================================================================
