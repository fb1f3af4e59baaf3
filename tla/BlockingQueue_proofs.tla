------------------------ MODULE BlockingQueue_proofs ------------------------
(* Proofs about BlockingQueue for any finite set of threads, any max_size_ *)
(* and any number of items.                                                *)
EXTENDS BlockingQueue, FiniteSetTheorems, SequenceTheorems, TLAPS

(* The sets of threads the invariants count are finite. *)
LEMMA AtFinite ==
  ASSUME NEW v
  PROVE  IsFiniteSet(At(v)) /\ Cardinality(At(v)) \in Nat
  <1>1. At(v) \subseteq Threads
    BY DEF At
  <1>2. IsFiniteSet(At(v))
    BY <1>1, ThreadsAssumption, FS_Subset
  <1> QED
    BY <1>2, FS_CardinalityType

(* Initially every variable has its type. *)
LEMMA InitTypeOK == Init => TypeOK
  <1> SUFFICES ASSUME Init PROVE TypeOK
    OBVIOUS
  <1>1. pc \in [Threads -> PcValues]
    BY DEF Init, PcValues
  <1>2. queue \in Seq(Nat) /\ Len(queue) <= MaxSize /\ delivered \in Seq(Nat)
    BY SizeAssumption DEF Init
  <1> QED
    BY <1>1, <1>2 DEF Init, TypeOK

(* Every step keeps the types and the bound max_size_ of the queue. *)
LEMMA NextTypeOK == TypeOK /\ [Next]_vars => TypeOK'
  <1> SUFFICES ASSUME TypeOK, [Next]_vars PROVE TypeOK'
    OBVIOUS
  <1> USE SizeAssumption
  <1>1. ASSUME NEW t \in Threads, Pop(t) PROVE TypeOK'
    <2>1. pc' \in [Threads -> PcValues]
      BY <1>1 DEF Pop, LeaveAndWake, At, TypeOK, PcValues
    <2>2. bypassed' \subseteq At("pushWait")'
      BY <1>1, <2>1 DEF Pop, At, TypeOK
    <2>3. /\ queue' \in Seq(Nat) /\ Len(queue') <= MaxSize
          /\ delivered' \in Seq(Nat)
      <3>1. CASE queue # << >> /\ queue' = Tail(queue)
                 /\ delivered' = Append(delivered, Head(queue))
        BY <3>1 DEF TypeOK
      <3>2. CASE UNCHANGED <<queue, delivered>>
        BY <3>2 DEF TypeOK
      <3> QED
        BY <1>1, <3>1, <3>2 DEF Pop, PopFront
    <2> QED
      BY <1>1, <2>1, <2>2, <2>3 DEF Pop, TypeOK
  <1>2. ASSUME NEW t \in Threads, NEW w \in BOOLEAN, Push(t, w) PROVE TypeOK'
    <2>1. pc' \in [Threads -> PcValues]
      BY <1>2 DEF Push, LeaveAndWake, At, TypeOK, PcValues
    <2>2. bypassed' \subseteq At("pushWait")'
      BY <1>2, <2>1 DEF Push, LeaveAndWake, At, TypeOK
    <2>3. queue' \in Seq(Nat) /\ Len(queue') <= MaxSize /\ accepted' \in Nat
      <3>1. CASE UNCHANGED <<queue, accepted>>
        BY <3>1 DEF TypeOK
      <3>2. CASE /\ Len(queue) < MaxSize
                 /\ accepted' = accepted + 1
                 /\ queue' = Append(queue, accepted')
        <4>1. accepted' \in Nat
          BY <3>2 DEF TypeOK
        <4>2. Append(queue, accepted') \in Seq(Nat)
          BY <4>1 DEF TypeOK
        <4>3. Len(Append(queue, accepted')) = Len(queue) + 1
          BY DEF TypeOK
        <4> QED
          BY <3>2, <4>1, <4>2, <4>3 DEF TypeOK
      <3>3. ~IsFull => Len(queue) < MaxSize
        BY DEF IsFull, TypeOK
      <3> QED
        BY <1>2, <3>1, <3>2, <3>3 DEF Push
    <2> QED
      BY <1>2, <2>1, <2>2, <2>3 DEF Push, TypeOK
  <1>3. ASSUME NEW t \in Threads, Stop(t) PROVE TypeOK'
    BY <1>3 DEF Stop, TypeOK, PcValues, At, hist
  <1>4. ASSUME NEW t \in Threads, StopNotifyFull(t) PROVE TypeOK'
    BY <1>4 DEF StopNotifyFull, WakeAll, TypeOK, PcValues, At, hist
  <1>5. ASSUME NEW t \in Threads, StopNotifyEmpty(t) PROVE TypeOK'
    BY <1>5 DEF StopNotifyEmpty, WakeAll, TypeOK, PcValues, At, hist
  <1>6. ASSUME NEW t \in Threads, Restart(t) PROVE TypeOK'
    BY <1>6 DEF Restart, TypeOK, At, hist
  <1>7. ASSUME NEW t \in Threads, GetRemainItems(t) PROVE TypeOK'
    <2>1. {queue[i] : i \in 1..Len(queue)} \subseteq Nat
      BY DEF TypeOK
    <2> QED
      BY <1>7, <2>1 DEF GetRemainItems, TypeOK, At
  <1>8. ASSUME NEW t \in Threads, Clear(t) PROVE TypeOK'
    <2>1. {queue[i] : i \in 1..Len(queue)} \subseteq Nat
      BY DEF TypeOK
    <2>2. queue' \in Seq(Nat) /\ Len(queue') <= MaxSize
      BY <1>8 DEF Clear
    <2> QED
      BY <1>8, <2>1, <2>2 DEF Clear, TypeOK, At
  <1>9. ASSUME NEW t \in Threads, SpuriousWake(t) PROVE TypeOK'
    BY <1>9 DEF SpuriousWake, TypeOK, PcValues, At
  <1>10. CASE UNCHANGED vars
    BY <1>10 DEF vars, TypeOK, At
  <1> QED
    BY <1>1, <1>2, <1>3, <1>4, <1>5, <1>6, <1>7, <1>8, <1>9, <1>10 DEF Next

(* The queue keeps its types and never holds more than max_size_ items. *)
THEOREM TypeCorrect == Spec => []TypeOK
  BY InitTypeOK, NextTypeOK, PTL DEF Spec
-----------------------------------------------------------------------------
(* Stop() and the sleepers. *)

LEMMA NextStopReachesSleepers ==
  TypeOK /\ StopReachesSleepers /\ [Next]_vars => StopReachesSleepers'
  <1> SUFFICES ASSUME TypeOK, StopReachesSleepers, [Next]_vars
               PROVE  StopReachesSleepers'
    OBVIOUS
  <1> USE DEF StopReachesSleepers, TypeOK, At
  <1>1. ASSUME NEW t \in Threads, Pop(t) PROVE StopReachesSleepers'
    BY <1>1 DEF Pop, LeaveAndWake
  <1>2. ASSUME NEW t \in Threads, NEW w \in BOOLEAN, Push(t, w)
        PROVE  StopReachesSleepers'
    BY <1>2 DEF Push, LeaveAndWake
  <1>3. ASSUME NEW t \in Threads, Stop(t) PROVE StopReachesSleepers'
    BY <1>3 DEF Stop
  <1>4. ASSUME NEW t \in Threads, StopNotifyFull(t) PROVE StopReachesSleepers'
    BY <1>4 DEF StopNotifyFull, WakeAll
  <1>5. ASSUME NEW t \in Threads, StopNotifyEmpty(t) PROVE StopReachesSleepers'
    BY <1>5 DEF StopNotifyEmpty, WakeAll
  <1>6. ASSUME NEW t \in Threads, Restart(t) PROVE StopReachesSleepers'
    BY <1>6 DEF Restart
  <1>7. ASSUME NEW t \in Threads, GetRemainItems(t) PROVE StopReachesSleepers'
    BY <1>7 DEF GetRemainItems
  <1>8. ASSUME NEW t \in Threads, Clear(t) PROVE StopReachesSleepers'
    BY <1>8 DEF Clear
  <1>9. ASSUME NEW t \in Threads, SpuriousWake(t) PROVE StopReachesSleepers'
    BY <1>9 DEF SpuriousWake
  <1>10. CASE UNCHANGED vars
    BY <1>10 DEF vars
  <1> QED
    BY <1>1, <1>2, <1>3, <1>4, <1>5, <1>6, <1>7, <1>8, <1>9, <1>10 DEF Next

(* No thread stays asleep on a stopped queue once every Stop() has returned. *)
THEOREM StopReachesSleepersAlways == Spec => []StopReachesSleepers
  <1>1. Init => StopReachesSleepers
    BY DEF Init, StopReachesSleepers
  <1> QED
    BY <1>1, TypeCorrect, NextStopReachesSleepers, PTL DEF Spec

-----------------------------------------------------------------------------
(* Wake-ups are counted. *)

LEMMA CardinalityOneMore ==
  ASSUME NEW S, NEW T, IsFiniteSet(T), NEW x, x \notin S, S \cup {x} \subseteq T
  PROVE  Cardinality(T) >= Cardinality(S) + 1 /\ Cardinality(S) \in Nat
  <1>1. IsFiniteSet(S)
    BY FS_Subset
  <1>2. IsFiniteSet(S \cup {x}) /\ Cardinality(S \cup {x}) = Cardinality(S) + 1
    BY <1>1, FS_AddElement
  <1>3. Cardinality(S \cup {x}) <= Cardinality(T)
    BY FS_Subset
  <1> QED
    BY <1>1, <1>2, <1>3, FS_CardinalityType

LEMMA CardinalityOneLess ==
  ASSUME NEW S, IsFiniteSet(S), NEW T, IsFiniteSet(T), NEW x, S \ {x} \subseteq T
  PROVE  Cardinality(T) >= Cardinality(S) - 1 /\ Cardinality(S) \in Nat
  <1>1. IsFiniteSet(S \ {x})
    BY FS_Subset
  <1>2. Cardinality(S \ {x}) >= Cardinality(S) - 1
    <2>1. Cardinality(S \ {x}) = IF x \in S THEN Cardinality(S) - 1
                                             ELSE Cardinality(S)
      BY FS_RemoveElement
    <2>2. Cardinality(S) \in Nat
      BY FS_CardinalityType
    <2> QED
      BY <2>1, <2>2
  <1>3. Cardinality(S \ {x}) <= Cardinality(T)
    BY FS_Subset
  <1> QED
    BY <1>1, <1>2, <1>3, FS_CardinalityType

LEMMA AtFiniteNext ==
  ASSUME NEW v
  PROVE  IsFiniteSet(At(v)') /\ Cardinality(At(v)') \in Nat
  <1>1. At(v)' \subseteq Threads
    BY DEF At
  <1>2. IsFiniteSet(At(v)')
    BY <1>1, ThreadsAssumption, FS_Subset
  <1> QED
    BY <1>2, FS_CardinalityType

LEMMA NextNoLostConsumerWakeup ==
  TypeOK /\ StopReachesSleepers /\ NoLostConsumerWakeup /\ [Next]_vars
    => NoLostConsumerWakeup'
  <1> SUFFICES ASSUME TypeOK, StopReachesSleepers, NoLostConsumerWakeup, [Next]_vars
               PROVE  NoLostConsumerWakeup'
    OBVIOUS
  <1> DEFINE W == At("popWait")
             K == At("popWoken")
             S == At("stopFull") \cup At("stopEmpty")
  <1>q. queue \in Seq(Nat) /\ Len(queue) \in Nat
    BY DEF TypeOK
  <1>f. /\ IsFiniteSet(K) /\ Cardinality(K) \in Nat
        /\ IsFiniteSet(K') /\ Cardinality(K') \in Nat
    BY AtFinite, AtFiniteNext
  <1>same. ASSUME UNCHANGED <<queue, pc>> PROVE NoLostConsumerWakeup'
    BY <1>same DEF NoLostConsumerWakeup, At
  <1>zero. ASSUME queue' = << >> PROVE NoLostConsumerWakeup'
    BY <1>zero, <1>f DEF NoLostConsumerWakeup
  <1>1. ASSUME NEW t \in Threads, Pop(t) PROVE NoLostConsumerWakeup'
    <2>1. CASE stopped
      <3>1. W' \subseteq W /\ S \subseteq S'
        BY <1>1, <2>1 DEF Pop, At, TypeOK
      <3> QED
        BY <2>1, <3>1 DEF StopReachesSleepers, NoLostConsumerWakeup
    <2>2. CASE ~stopped /\ queue = << >>
      BY <1>1, <2>2, <1>zero DEF Pop
    <2>3. CASE ~stopped /\ queue # << >>
      <3>1. W' \subseteq W /\ S \subseteq S' /\ K \ {t} \subseteq K'
        BY <1>1, <2>3 DEF Pop, LeaveAndWake, At, TypeOK
      <3>2. Cardinality(K') >= Cardinality(K) - 1
        BY <3>1, <1>f, CardinalityOneLess
      <3>3. Len(queue') = Len(queue) - 1
        BY <1>1, <2>3, <1>q DEF Pop, PopFront
      <3> QED
        BY <1>q, <1>f, <3>1, <3>2, <3>3 DEF NoLostConsumerWakeup
    <2> QED
      BY <2>1, <2>2, <2>3
  <1>2. ASSUME NEW t \in Threads, NEW w \in BOOLEAN, Push(t, w)
        PROVE  NoLostConsumerWakeup'
    <2>1. CASE queue' = queue
      <3>1. W' = W /\ S \subseteq S' /\ K' = K
        <4>1. CASE /\ pc[t] \in {"idle", "pushWoken"}
                   /\ \E v \in {"idle", "pushWait"} : pc' = [pc EXCEPT ![t] = v]
          BY <4>1 DEF At, TypeOK
        <4>2. Append(queue, accepted') # queue
          BY <1>q
        <4> QED
          BY <1>2, <2>1, <4>1, <4>2 DEF Push
      <3> QED
        BY <2>1, <3>1 DEF NoLostConsumerWakeup
    <2>2. CASE /\ queue' = Append(queue, accepted')
               /\ LeaveAndWake(t, "popWait", "popWoken")
      <3>1. S \subseteq S'
        BY <1>2, <2>2 DEF Push, LeaveAndWake, At, TypeOK
      <3>2. CASE W = {}
        BY <1>2, <2>2, <3>2 DEF LeaveAndWake, At, TypeOK, NoLostConsumerWakeup
      <3>3. CASE W # {}
        <4>1. PICK u \in W : pc' = [pc EXCEPT ![t] = "idle", ![u] = "popWoken"]
          BY <2>2, <3>3 DEF LeaveAndWake
        <4>2. u \notin K /\ K \cup {u} \subseteq K'
          BY <1>2, <4>1 DEF Push, At, TypeOK
        <4>3. Cardinality(K') >= Cardinality(K) + 1
          BY <4>2, <1>f, CardinalityOneMore
        <4>4. Len(queue') = Len(queue) + 1
          BY <2>2, <1>q
        <4> QED
          BY <1>q, <1>f, <3>1, <3>3, <4>3, <4>4 DEF NoLostConsumerWakeup
      <3> QED
        BY <3>2, <3>3
    <2> QED
      BY <1>2, <2>1, <2>2 DEF Push
  <1>3. ASSUME NEW t \in Threads, Stop(t) PROVE NoLostConsumerWakeup'
    BY <1>3 DEF Stop, NoLostConsumerWakeup, At, TypeOK
  <1>4. ASSUME NEW t \in Threads, StopNotifyFull(t) PROVE NoLostConsumerWakeup'
    BY <1>4 DEF StopNotifyFull, WakeAll, NoLostConsumerWakeup, At, TypeOK
  <1>5. ASSUME NEW t \in Threads, StopNotifyEmpty(t) PROVE NoLostConsumerWakeup'
    BY <1>5 DEF StopNotifyEmpty, WakeAll, NoLostConsumerWakeup, At, TypeOK
  <1>6. ASSUME NEW t \in Threads, Restart(t) PROVE NoLostConsumerWakeup'
    BY <1>6, <1>same DEF Restart
  <1>7. ASSUME NEW t \in Threads, GetRemainItems(t) PROVE NoLostConsumerWakeup'
    BY <1>7, <1>same DEF GetRemainItems
  <1>8. ASSUME NEW t \in Threads, Clear(t) PROVE NoLostConsumerWakeup'
    BY <1>8, <1>zero DEF Clear
  <1>9. ASSUME NEW t \in Threads, SpuriousWake(t) PROVE NoLostConsumerWakeup'
    <2>1. W' \subseteq W /\ S \subseteq S' /\ K \subseteq K'
      BY <1>9 DEF SpuriousWake, At, TypeOK
    <2>2. Cardinality(K) <= Cardinality(K')
      BY <2>1, <1>f, FS_Subset
    <2> QED
      BY <1>9, <1>q, <1>f, <2>1, <2>2 DEF SpuriousWake, NoLostConsumerWakeup
  <1>10. CASE UNCHANGED vars
    BY <1>10, <1>same DEF vars
  <1> QED
    BY <1>1, <1>2, <1>3, <1>4, <1>5, <1>6, <1>7, <1>8, <1>9, <1>10 DEF Next

(* No notify_one() of Push is lost, whatever the interleaving of Stop and    *)
(* Restart: an item never waits in the queue beside consumers that all sleep.*)
THEOREM NoLostConsumerWakeupAlways == Spec => []NoLostConsumerWakeup
  <1>1. Init => NoLostConsumerWakeup
    BY DEF Init, NoLostConsumerWakeup, At
  <1> QED
    BY <1>1, TypeCorrect, StopReachesSleepersAlways, NextNoLostConsumerWakeup, PTL
       DEF Spec

LEMMA NextNoLostProducerWakeup ==
  TypeOK /\ StopReachesSleepers /\ NoLostProducerWakeup /\ [Next]_vars
    => NoLostProducerWakeup'
  <1> SUFFICES ASSUME TypeOK, StopReachesSleepers, NoLostProducerWakeup, [Next]_vars
               PROVE  NoLostProducerWakeup'
    OBVIOUS
  <1> DEFINE W == At("pushWait")
             K == At("pushWoken")
             S == At("stopFull")
  <1>q. queue \in Seq(Nat) /\ Len(queue) \in Nat /\ MaxSize \in Nat
    BY SizeAssumption DEF TypeOK
  <1>f. /\ IsFiniteSet(K) /\ Cardinality(K) \in Nat
        /\ IsFiniteSet(K') /\ Cardinality(K') \in Nat
    BY AtFinite, AtFiniteNext
  <1>same. ASSUME queue' = queue, W' = W, bypassed' = bypassed, K' = K, S \subseteq S'
           PROVE  NoLostProducerWakeup'
    BY <1>same DEF NoLostProducerWakeup
  <1>1. ASSUME NEW t \in Threads, Pop(t) PROVE NoLostProducerWakeup'
    <2>1. CASE UNCHANGED queue
      <3>1. W' = W /\ K' = K /\ S \subseteq S'
        <4>1. CASE /\ pc[t] \in {"idle", "popWoken"}
                   /\ \E v \in {"idle", "popWait"} : pc' = [pc EXCEPT ![t] = v]
          BY <4>1 DEF At, TypeOK
        <4>2. queue # << >> => Tail(queue) # queue
          BY <1>q
        <4> QED
          BY <1>1, <2>1, <4>1, <4>2 DEF Pop, PopFront
      <3>2. bypassed' = bypassed
        BY <1>1, <3>1 DEF Pop, At, TypeOK
      <3> QED
        BY <2>1, <3>1, <3>2, <1>same
    <2>2. CASE /\ queue # << >>
               /\ queue' = Tail(queue)
               /\ LeaveAndWake(t, "pushWait", "pushWoken")
      <3>1. S \subseteq S'
        BY <1>1, <2>2 DEF Pop, LeaveAndWake, At, TypeOK
      <3>2. CASE W = {}
        BY <1>1, <2>2, <3>2 DEF LeaveAndWake, At, TypeOK, NoLostProducerWakeup
      <3>3. CASE W # {}
        <4>1. PICK u \in W : pc' = [pc EXCEPT ![t] = "idle", ![u] = "pushWoken"]
          BY <2>2, <3>3 DEF LeaveAndWake
        <4>2. u \notin K /\ K \cup {u} \subseteq K' /\ W' \subseteq W
          BY <1>1, <4>1 DEF Pop, At, TypeOK
        <4>3. W \subseteq bypassed => W' \subseteq bypassed'
          BY <1>1, <4>2 DEF Pop, At
        <4>4. Cardinality(K') >= Cardinality(K) + 1
          BY <4>2, <1>f, CardinalityOneMore
        <4>5. Len(queue') = Len(queue) - 1
          BY <2>2, <1>q
        <4> QED
          BY <1>q, <1>f, <3>1, <4>3, <4>4, <4>5 DEF NoLostProducerWakeup
      <3> QED
        BY <3>2, <3>3
    <2> QED
      BY <1>1, <2>1, <2>2 DEF Pop, PopFront
  <1>2. ASSUME NEW t \in Threads, NEW w \in BOOLEAN, Push(t, w)
        PROVE  NoLostProducerWakeup'
    <2>1. CASE stopped
      <3>1. W' = W /\ S \subseteq S'
        BY <1>2, <2>1 DEF Push, At, TypeOK
      <3> QED
        BY <2>1, <3>1 DEF StopReachesSleepers, NoLostProducerWakeup
    <2>2. CASE ~stopped /\ IsFull
      <3>1. queue' = queue
        BY <1>2, <2>2 DEF Push
      <3>2. MaxSize - Len(queue') <= 0
        BY <2>2, <3>1, <1>q DEF IsFull
      <3> QED
        BY <1>q, <1>f, <3>1, <3>2 DEF NoLostProducerWakeup
    <2>3. CASE ~stopped /\ ~IsFull
      <3>1. W' = W /\ S \subseteq S' /\ K \ {t} \subseteq K' /\ bypassed' = bypassed
        BY <1>2, <2>3 DEF Push, LeaveAndWake, At, TypeOK
      <3>2. Cardinality(K') >= Cardinality(K) - 1
        BY <3>1, <1>f, CardinalityOneLess
      <3>3. Len(queue') = Len(queue) + 1
        BY <1>2, <2>3, <1>q DEF Push
      <3> QED
        BY <1>q, <1>f, <3>1, <3>2, <3>3 DEF NoLostProducerWakeup
    <2> QED
      BY <2>1, <2>2, <2>3
  <1>3. ASSUME NEW t \in Threads, Stop(t) PROVE NoLostProducerWakeup'
    BY <1>3 DEF Stop, NoLostProducerWakeup, At, TypeOK
  <1>4. ASSUME NEW t \in Threads, StopNotifyFull(t) PROVE NoLostProducerWakeup'
    <2>1. W' = {}
      BY <1>4 DEF StopNotifyFull, WakeAll, At, TypeOK
    <2> QED
      BY <2>1 DEF NoLostProducerWakeup
  <1>5. ASSUME NEW t \in Threads, StopNotifyEmpty(t) PROVE NoLostProducerWakeup'
    <2>1. W' = W /\ K' = K /\ S \subseteq S'
      BY <1>5 DEF StopNotifyEmpty, WakeAll, At, TypeOK
    <2> QED
      BY <1>5, <2>1, <1>same DEF StopNotifyEmpty, hist
  <1>6. ASSUME NEW t \in Threads, Restart(t) PROVE NoLostProducerWakeup'
    BY <1>6, <1>same DEF Restart, At, hist
  <1>7. ASSUME NEW t \in Threads, GetRemainItems(t) PROVE NoLostProducerWakeup'
    BY <1>7, <1>same DEF GetRemainItems, At
  <1>8. ASSUME NEW t \in Threads, Clear(t) PROVE NoLostProducerWakeup'
    <2>1. W' = W /\ bypassed' = W
      BY <1>8 DEF Clear, At
    <2> QED
      BY <2>1 DEF NoLostProducerWakeup
  <1>9. ASSUME NEW t \in Threads, SpuriousWake(t) PROVE NoLostProducerWakeup'
    <2>1. W' \subseteq W \ {t} /\ S \subseteq S' /\ K \subseteq K'
      BY <1>9 DEF SpuriousWake, At, TypeOK
    <2>2. Cardinality(K) <= Cardinality(K')
      BY <2>1, <1>f, FS_Subset
    <2>3. W \subseteq bypassed => W' \subseteq bypassed'
      BY <1>9, <2>1 DEF SpuriousWake
    <2> QED
      BY <1>9, <1>q, <1>f, <2>1, <2>2, <2>3 DEF SpuriousWake, NoLostProducerWakeup
  <1>10. CASE UNCHANGED vars
    BY <1>10, <1>same DEF vars, At
  <1> QED
    BY <1>1, <1>2, <1>3, <1>4, <1>5, <1>6, <1>7, <1>8, <1>9, <1>10 DEF Next

(* No notify_one() of Pop is lost: a producer that sleeps beside free places *)
(* was passed over by a Clear(), which notifies nobody.                      *)
THEOREM NoLostProducerWakeupAlways == Spec => []NoLostProducerWakeup
  <1>1. Init => NoLostProducerWakeup
    BY DEF Init, NoLostProducerWakeup, At
  <1> QED
    BY <1>1, TypeCorrect, StopReachesSleepersAlways, NextNoLostProducerWakeup, PTL
       DEF Spec

-----------------------------------------------------------------------------
(* Items are neither lost, nor duplicated, nor reordered. *)

(* Moving the head of q to the end of d leaves d \o q as it is. *)
LEMMA MoveHead ==
  ASSUME NEW d \in Seq(Nat), NEW q \in Seq(Nat), q # << >>
  PROVE  Append(d, Head(q)) \o Tail(q) = d \o q
  <1> DEFINE l == Append(d, Head(q)) \o Tail(q)
             r == d \o q
  <1>1. Len(q) \in Nat /\ Len(q) > 0 /\ Len(d) \in Nat /\ Head(q) \in Nat
    OBVIOUS
  <1>2. Tail(q) \in Seq(Nat) /\ Len(Tail(q)) = Len(q) - 1
    OBVIOUS
  <1>3. Append(d, Head(q)) \in Seq(Nat) /\ Len(Append(d, Head(q))) = Len(d) + 1
    BY <1>1
  <1>4. l \in Seq(Nat) /\ r \in Seq(Nat) /\ Len(l) = Len(r)
    BY <1>1, <1>2, <1>3
  <1>5. ASSUME NEW i \in 1..Len(l) PROVE l[i] = r[i]
    <2>1. CASE i <= Len(d)
      BY <1>1, <1>2, <1>3, <2>1
    <2>2. CASE i = Len(d) + 1
      BY <1>1, <1>2, <1>3, <2>2
    <2>3. CASE i > Len(d) + 1
      <3>1. l[i] = Tail(q)[i - (Len(d) + 1)]
        BY <1>1, <1>2, <1>3, <1>4, <2>3
      <3>2. Tail(q)[i - (Len(d) + 1)] = q[i - Len(d)]
        BY <1>1, <1>2, <1>3, <1>4, <2>3
      <3> QED
        BY <1>1, <1>4, <2>3, <3>1, <3>2
    <2> QED
      BY <1>1, <2>1, <2>2, <2>3
  <1> HIDE DEF l, r
  <1>6. l = r
    BY <1>4, <1>5, SeqEqual
  <1> QED
    BY <1>6 DEF l, r

(* Appending to q appends to d \o q. *)
LEMMA AppendMoves ==
  ASSUME NEW d \in Seq(Nat), NEW q \in Seq(Nat), NEW e \in Nat
  PROVE  d \o Append(q, e) = Append(d \o q, e)
  OBVIOUS

(* The items of a concatenation are those of its two parts. *)
LEMMA ItemsOfConcat ==
  ASSUME NEW d \in Seq(Nat), NEW q \in Seq(Nat)
  PROVE  {(d \o q)[i] : i \in 1..Len(d \o q)}
           = {d[i] : i \in 1..Len(d)} \cup {q[i] : i \in 1..Len(q)}
  <1> DEFINE r == d \o q
  <1>1. Len(d) \in Nat /\ Len(q) \in Nat /\ Len(r) = Len(d) + Len(q)
    OBVIOUS
  <1>2. ASSUME NEW i \in 1..Len(r)
        PROVE  \/ i \in 1..Len(d) /\ r[i] = d[i]
               \/ i - Len(d) \in 1..Len(q) /\ r[i] = q[i - Len(d)]
    BY <1>1
  <1>3. ASSUME NEW i \in 1..Len(d) PROVE i \in 1..Len(r) /\ r[i] = d[i]
    BY <1>1
  <1>4. ASSUME NEW i \in 1..Len(q)
        PROVE  Len(d) + i \in 1..Len(r) /\ r[Len(d) + i] = q[i]
    BY <1>1
  <1> HIDE DEF r
  <1>5. {r[i] : i \in 1..Len(r)}
          = {d[i] : i \in 1..Len(d)} \cup {q[i] : i \in 1..Len(q)}
    <2> DEFINE D == {d[i] : i \in 1..Len(d)}
               Q == {q[i] : i \in 1..Len(q)}
               R == {r[i] : i \in 1..Len(r)}
    <2>1. \A x \in R : x \in D \cup Q
      BY <1>2, Zenon
    <2>2. \A x \in D : x \in R
      BY <1>3, Zenon
    <2>3. \A x \in Q : x \in R
      BY <1>4, Zenon
    <2> HIDE DEF D, Q, R
    <2>4. R = D \cup Q
      BY <2>1, <2>2, <2>3
    <2> QED
      BY <2>4 DEF D, Q, R
  <1> QED
    BY <1>5 DEF r

LEMMA NextExactlyOnceInOrder ==
  TypeOK /\ ExactlyOnceInOrder /\ [Next]_vars => ExactlyOnceInOrder'
  <1> SUFFICES ASSUME TypeOK, ExactlyOnceInOrder, [Next]_vars
               PROVE  ExactlyOnceInOrder'
    OBVIOUS
  <1> DEFINE line == delivered \o queue
             items(s) == {s[i] : i \in 1..Len(s)}
  <1>t. /\ delivered \in Seq(Nat) /\ queue \in Seq(Nat) /\ line \in Seq(Nat)
        /\ accepted \in Nat /\ Len(delivered) \in Nat /\ Len(queue) \in Nat
        /\ Len(line) = Len(delivered) + Len(queue)
    BY DEF TypeOK
  <1>same. ASSUME line' = line, UNCHANGED <<accepted, dropped>>
           PROVE  ExactlyOnceInOrder'
    BY <1>same DEF ExactlyOnceInOrder
  <1>1. ASSUME NEW t \in Threads, Pop(t) PROVE ExactlyOnceInOrder'
    <2>1. CASE UNCHANGED <<queue, delivered>>
      BY <1>1, <2>1, <1>same DEF Pop
    <2>2. CASE /\ queue # << >> /\ queue' = Tail(queue)
               /\ delivered' = Append(delivered, Head(queue))
      <3>1. line' = line
        BY <2>2, <1>t, MoveHead
      <3> QED
        BY <1>1, <3>1, <1>same DEF Pop
    <2> QED
      BY <1>1, <2>1, <2>2 DEF Pop, PopFront
  <1>2. ASSUME NEW t \in Threads, NEW w \in BOOLEAN, Push(t, w)
        PROVE  ExactlyOnceInOrder'
    <2>1. CASE UNCHANGED <<queue, accepted>>
      BY <1>2, <2>1, <1>same DEF Push
    <2>2. CASE accepted' = accepted + 1 /\ queue' = Append(queue, accepted')
      <3>1. line' = Append(line, accepted + 1)
        BY <1>2, <2>2, <1>t, AppendMoves DEF Push
      <3>2. /\ Len(line') = Len(line) + 1 /\ line'[Len(line) + 1] = accepted + 1
            /\ \A i \in 1..Len(line) : line'[i] = line[i]
        BY <3>1, <1>t
      <3>3. items(line)' = items(line) \cup {accepted + 1}
        <4>1. 1..Len(line') = 1..Len(line) \cup {Len(line) + 1}
          BY <3>2, <1>t
        <4> HIDE DEF line
        <4> QED
          BY <3>2, <4>1
      <3>4. /\ \A i, j \in 1..Len(line) : i < j => line[i] < line[j]
            /\ items(line) \cap dropped = {}
            /\ items(line) \cup dropped = 1..accepted
        BY DEF ExactlyOnceInOrder
      <3>5. \A i \in 1..Len(line) : line[i] \in 1..accepted
        BY <3>4
      <3>6. \A i, j \in 1..Len(line') : i < j => line'[i] < line'[j]
        <4> SUFFICES ASSUME NEW i \in 1..Len(line'), NEW j \in 1..Len(line'), i < j
                     PROVE  line'[i] < line'[j]
          OBVIOUS
        <4>1. i \in 1..Len(line) /\ (j \in 1..Len(line) \/ j = Len(line) + 1)
          BY <3>2, <1>t
        <4>2. line[i] < accepted + 1
          BY <3>5, <4>1, <1>t
        <4> QED
          BY <3>2, <3>4, <4>1, <4>2
      <3>7. 1..accepted' = 1..accepted \cup {accepted + 1}
        BY <2>2, <1>t
      <3>8. dropped' = dropped /\ accepted + 1 \notin dropped
        BY <1>2, <3>4, <1>t DEF Push
      <3>9. items(line)' \cap dropped' = {} /\ items(line)' \cup dropped' = 1..accepted'
        BY <3>3, <3>4, <3>7, <3>8
      <3> QED
        BY <3>6, <3>9 DEF ExactlyOnceInOrder
    <2> QED
      BY <1>2, <2>1, <2>2 DEF Push
  <1>3. ASSUME NEW t \in Threads, Stop(t) PROVE ExactlyOnceInOrder'
    BY <1>3, <1>same DEF Stop, hist
  <1>4. ASSUME NEW t \in Threads, StopNotifyFull(t) PROVE ExactlyOnceInOrder'
    BY <1>4, <1>same DEF StopNotifyFull
  <1>5. ASSUME NEW t \in Threads, StopNotifyEmpty(t) PROVE ExactlyOnceInOrder'
    BY <1>5, <1>same DEF StopNotifyEmpty, hist
  <1>6. ASSUME NEW t \in Threads, Restart(t) PROVE ExactlyOnceInOrder'
    BY <1>6, <1>same DEF Restart, hist
  <1>7. ASSUME NEW t \in Threads, GetRemainItems(t) PROVE ExactlyOnceInOrder'
    BY <1>7, <1>same DEF GetRemainItems
  <1>8. ASSUME NEW t \in Threads, Clear(t) PROVE ExactlyOnceInOrder'
    <2>1. line' = delivered
      BY <1>8, <1>t DEF Clear
    <2>2. /\ \A i \in 1..Len(delivered) : line[i] = delivered[i]
          /\ \A i \in 1..Len(queue) : line[Len(delivered) + i] = queue[i]
      BY <1>t
    <2>4. items(line) = items(delivered) \cup items(queue)
      BY <1>t, ItemsOfConcat
    <2>5. \A i \in 1..Len(delivered), j \in 1..Len(queue) : delivered[i] # queue[j]
      <3> SUFFICES ASSUME NEW i \in 1..Len(delivered), NEW j \in 1..Len(queue)
                   PROVE  delivered[i] < queue[j]
        BY <1>t
      <3>1. /\ i \in 1..Len(line) /\ Len(delivered) + j \in 1..Len(line)
            /\ i < Len(delivered) + j
        BY <1>t
      <3> QED
        BY <2>2, <3>1 DEF ExactlyOnceInOrder
    <2>6. \A i, j \in 1..Len(delivered) : i < j => delivered[i] < delivered[j]
      <3> SUFFICES ASSUME NEW i \in 1..Len(delivered), NEW j \in 1..Len(delivered), i < j
                   PROVE  delivered[i] < delivered[j]
        OBVIOUS
      <3>1. i \in 1..Len(line) /\ j \in 1..Len(line)
        BY <1>t
      <3> QED
        BY <2>2, <3>1 DEF ExactlyOnceInOrder
    <2>7. dropped' = dropped \cup items(queue) /\ accepted' = accepted
      BY <1>8 DEF Clear
    <2>8. items(line) \cap dropped = {} /\ items(line) \cup dropped = 1..accepted
      BY DEF ExactlyOnceInOrder
    <2>9. items(delivered) \cap items(queue) = {}
      BY <2>5
    <2>10. /\ items(delivered) \cap dropped' = {}
           /\ items(delivered) \cup dropped' = 1..accepted'
      <3> HIDE DEF items, line
      <3> QED
        BY <2>4, <2>7, <2>8, <2>9
    <2> QED
      BY <2>1, <2>6, <2>10 DEF ExactlyOnceInOrder
  <1>9. ASSUME NEW t \in Threads, SpuriousWake(t) PROVE ExactlyOnceInOrder'
    BY <1>9, <1>same DEF SpuriousWake
  <1>10. CASE UNCHANGED vars
    BY <1>10, <1>same DEF vars
  <1> QED
    BY <1>1, <1>2, <1>3, <1>4, <1>5, <1>6, <1>7, <1>8, <1>9, <1>10 DEF Next

(* Every accepted item is queued, delivered in order or cleared, once. *)
THEOREM ExactlyOnceInOrderAlways == Spec => []ExactlyOnceInOrder
  <1>1. Init => ExactlyOnceInOrder
    BY DEF Init, ExactlyOnceInOrder
  <1> QED
    BY <1>1, TypeCorrect, NextExactlyOnceInOrder, PTL DEF Spec

(* No wake-up is lost, for any number of threads and places. *)
THEOREM NoLostWakeupAlways == Spec => []NoLostWakeup
  <1>1. StopReachesSleepers /\ NoLostConsumerWakeup /\ NoLostProducerWakeup => NoLostWakeup
    BY DEF NoLostWakeup
  <1> QED
    BY <1>1, StopReachesSleepersAlways, NoLostConsumerWakeupAlways, NoLostProducerWakeupAlways, PTL
=============================================================================
