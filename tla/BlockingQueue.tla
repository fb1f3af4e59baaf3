--------------------------- MODULE BlockingQueue ---------------------------
(***************************************************************************)
(* The bounded queue template of inc/common/blocking_queue.h: a list, one  *)
(* mutex, two condition variables and a stop flag.                         *)
(*                                                                         *)
(* A call holds mutex_ from its first line to its return or to a wait(),   *)
(* so each of those stretches is one atomic step.  Stop() is the exception:*)
(* it sets the flag under the lock and notifies after it has let go of it, *)
(* one condition variable after the other, hence three steps.              *)
(*                                                                         *)
(* Items are numbered in the order in which Push accepts them; what they   *)
(* carry is irrelevant.                                                    *)
(***************************************************************************)
EXTENDS Integers, Sequences, FiniteSets

CONSTANTS
    Threads,    \* the threads that call the queue; each may call anything
    MaxSize,    \* max_size_, the constructor's argument
    MaxItems    \* bound of the model: how many items are ever accepted

ASSUME ThreadsAssumption == IsFiniteSet(Threads)
ASSUME SizeAssumption    == MaxSize \in Nat /\ MaxItems \in Nat

VARIABLES
    queue,      \* queue_
    stopped,    \* is_stoped_
    pc,         \* where each thread is
    accepted,   \* history: how many items Push accepted
    delivered,  \* history: what Pop handed out, in order
    dropped,    \* history: what Clear destroyed
    released,   \* history: what GetRemainItems handed out
    bypassed    \* history: producers asleep on full_cond_ when Clear ran

vars == <<queue, stopped, pc, accepted, delivered, dropped, released, bypassed>>
hist == <<accepted, delivered, dropped, released, bypassed>>

\* "pushWait"/"popWait": asleep in full_cond_/empty_cond_.wait();
\* "pushWoken"/"popWoken": woken, about to take the mutex and test the loop again;
\* "stopFull"/"stopEmpty": Stop() has yet to notify full_cond_/empty_cond_.
PcValues == {"idle", "pushWait", "pushWoken", "popWait", "popWoken",
             "stopFull", "stopEmpty"}

At(v) == {t \in Threads : pc[t] = v}

Init ==
    /\ queue = << >>
    /\ stopped = FALSE
    /\ pc = [t \in Threads |-> "idle"]
    /\ accepted = 0
    /\ delivered = << >>
    /\ dropped = {}
    /\ released = {}
    /\ bypassed = {}

-----------------------------------------------------------------------------
LeaveAndWakeNobody(t, from, to) == pc' = [pc EXCEPT ![t] = "idle"]

(* notify_one(): t leaves its call, one thread asleep at `from' is woken.   *)
LeaveAndWake(t, from, to) ==
    IF At(from) = {}
    THEN pc' = [pc EXCEPT ![t] = "idle"]
    ELSE \E w \in At(from) : pc' = [pc EXCEPT ![t] = "idle", ![w] = to]

WakeJustOne(t, next, from, to) ==
    IF At(from) = {}
    THEN pc' = [pc EXCEPT ![t] = next]
    ELSE \E w \in At(from) : pc' = [pc EXCEPT ![t] = next, ![w] = to]

(* notify_all(): everyone asleep at `from' is woken, t goes on to `next'.   *)
WakeAll(t, next, from, to) ==
    pc' = [u \in Threads |-> IF u = t THEN next
                             ELSE IF pc[u] = from THEN to ELSE pc[u]]

IsFullOffByOne == Len(queue) > MaxSize
IsFull == Len(queue) >= MaxSize

PopFrontKeeps == queue
PopFront == Tail(queue)

-----------------------------------------------------------------------------
(* Pop, called or resumed after a wake-up. *)
Pop(t) ==
    /\ pc[t] \in {"idle", "popWoken"}
    /\ \/ /\ stopped
          /\ pc' = [pc EXCEPT ![t] = "idle"]
          /\ UNCHANGED <<queue, delivered>>
       \/ /\ ~stopped
          /\ queue = << >>
          /\ pc' = [pc EXCEPT ![t] = "popWait"]
          /\ UNCHANGED <<queue, delivered>>
       \/ /\ ~stopped
          /\ queue # << >>
          /\ delivered' = Append(delivered, Head(queue))
          /\ queue' = PopFront
          /\ LeaveAndWake(t, "pushWait", "pushWoken")
    /\ bypassed' = {u \in bypassed : pc'[u] = "pushWait"}
    /\ UNCHANGED <<stopped, accepted, dropped, released>>

(* Push, both overloads, called or resumed after a wake-up.  Only a call    *)
(* with is_wait = TRUE is ever resumed.                                     *)
Push(t, is_wait) ==
    /\ pc[t] = "idle" \/ (pc[t] = "pushWoken" /\ is_wait)
    /\ \/ /\ stopped
          /\ pc' = [pc EXCEPT ![t] = "idle"]
          /\ UNCHANGED <<queue, accepted>>
       \/ /\ ~stopped
          /\ IsFull
          /\ pc' = [pc EXCEPT ![t] = IF is_wait THEN "pushWait" ELSE "idle"]
          /\ UNCHANGED <<queue, accepted>>
       \/ /\ ~stopped
          /\ ~IsFull
          /\ accepted < MaxItems
          /\ accepted' = accepted + 1
          /\ queue' = Append(queue, accepted')
          /\ LeaveAndWake(t, "popWait", "popWoken")
    /\ UNCHANGED <<stopped, delivered, dropped, released, bypassed>>

(* Stop: the flag under the lock, then the two notify_all() without it. *)
Stop(t) ==
    /\ pc[t] = "idle"
    /\ stopped' = TRUE
    /\ pc' = [pc EXCEPT ![t] = "stopFull"]
    /\ UNCHANGED <<queue, hist>>

StopNotifyFull(t) ==
    /\ pc[t] = "stopFull"
    /\ WakeAll(t, "stopEmpty", "pushWait", "pushWoken")
    /\ bypassed' = {u \in bypassed : pc'[u] = "pushWait"}
    /\ UNCHANGED <<queue, stopped, accepted, delivered, dropped, released>>

StopNotifyEmpty(t) ==
    /\ pc[t] = "stopEmpty"
    /\ WakeAll(t, "idle", "popWait", "popWoken")
    /\ UNCHANGED <<queue, stopped, hist>>

Restart(t) ==
    /\ pc[t] = "idle"
    /\ stopped' = FALSE
    /\ UNCHANGED <<queue, pc, hist>>

(* GetRemainItems returns a copy of queue_ once the queue is stopped. *)
GetRemainItems(t) ==
    /\ pc[t] = "idle"
    /\ stopped
    /\ released' = released \cup {queue[i] : i \in 1..Len(queue)}
    /\ UNCHANGED <<queue, stopped, pc, accepted, delivered, dropped, bypassed>>

(* Clear empties queue_ and notifies nobody. *)
Clear(t) ==
    /\ pc[t] = "idle"
    /\ dropped' = dropped \cup {queue[i] : i \in 1..Len(queue)}
    /\ queue' = << >>
    /\ bypassed' = At("pushWait")
    /\ UNCHANGED <<stopped, pc, accepted, delivered, released>>

(* A condition variable may wake a thread nobody notified. *)
SpuriousWake(t) ==
    /\ \/ /\ pc[t] = "pushWait"
          /\ pc' = [pc EXCEPT ![t] = "pushWoken"]
       \/ /\ pc[t] = "popWait"
          /\ pc' = [pc EXCEPT ![t] = "popWoken"]
    /\ bypassed' = bypassed \ {t}
    /\ UNCHANGED <<queue, stopped, accepted, delivered, dropped, released>>

Next ==
    \E t \in Threads :
        \/ Pop(t)
        \/ \E is_wait \in BOOLEAN : Push(t, is_wait)
        \/ Stop(t)
        \/ StopNotifyFull(t)
        \/ StopNotifyEmpty(t)
        \/ Restart(t)
        \/ GetRemainItems(t)
        \/ Clear(t)
        \/ SpuriousWake(t)

Spec == Init /\ [][Next]_vars

(* A thread that holds or contends for the mutex runs on: the operating     *)
(* system schedules it.  Nothing obliges a caller to make another call, and *)
(* spurious wake-ups are never owed.                                        *)
Resume(t) ==
    \/ pc[t] = "popWoken" /\ Pop(t)
    \/ pc[t] = "pushWoken" /\ Push(t, TRUE)
    \/ StopNotifyFull(t)
    \/ StopNotifyEmpty(t)

FairSpec == Spec /\ \A t \in Threads : WF_vars(Resume(t))

-----------------------------------------------------------------------------
(* Every variable stays in its type; the queue never outgrows max_size_. *)
TypeOK ==
    /\ queue \in Seq(Nat)
    /\ Len(queue) <= MaxSize
    /\ stopped \in BOOLEAN
    /\ pc \in [Threads -> PcValues]
    /\ accepted \in Nat
    /\ delivered \in Seq(Nat)
    /\ dropped \in SUBSET Nat
    /\ released \in SUBSET Nat
    /\ bypassed \in SUBSET At("pushWait")

(* Everything Push accepted is in the queue, was handed out by Pop or was   *)
(* destroyed by Clear, in exactly one of the three places, and the items    *)
(* handed out and those still queued are in the order of acceptance.        *)
ExactlyOnceInOrder ==
    LET line == delivered \o queue IN
    /\ \A i, j \in 1..Len(line) : i < j => line[i] < line[j]
    /\ {line[i] : i \in 1..Len(line)} \cap dropped = {}
    /\ {line[i] : i \in 1..Len(line)} \cup dropped = 1..accepted

(* Nobody sleeps on a stopped queue unless Stop() still owes the            *)
(* notification, although Stop() notifies after unlocking, another thread   *)
(* may Restart() in between, and several threads may stop at once.          *)
StopReachesSleepers ==
    /\ stopped /\ At("pushWait") # {} => At("stopFull") # {}
    /\ stopped /\ At("popWait") # {} => At("stopFull") \cup At("stopEmpty") # {}

(* Push's notify_one() is never lost: while a consumer sleeps, every queued *)
(* item has a woken consumer of its own on the way, or a Stop() is about to *)
(* wake them all.                                                           *)
NoLostConsumerWakeup ==
    \/ At("popWait") = {}
    \/ Len(queue) <= Cardinality(At("popWoken"))
    \/ At("stopFull") \cup At("stopEmpty") # {}

(* Pop's notify_one() is never lost either: a producer sleeps only while    *)
(* every free place has a woken producer on the way or a Stop() is about to *)
(* wake them all.  The exception is Clear(), which frees places and         *)
(* notifies nobody: the producers asleep at that moment (bypassed) may stay *)
(* asleep on an empty queue.                                                *)
NoLostProducerWakeup ==
    \/ At("pushWait") \subseteq bypassed
    \/ MaxSize - Len(queue) <= Cardinality(At("pushWoken"))
    \/ At("stopFull") # {}

(* An item that GetRemainItems handed out for release is not handed out a   *)
(* second time by Pop.                                                      *)
RemainItemsAreReleased ==
    \A i \in 1..Len(delivered) : delivered[i] \notin released

(* A thread asleep on a queue that is stopped and not restarted returns.    *)
StopUnblocks ==
    \A t \in Threads :
        (stopped /\ pc[t] \in {"pushWait", "popWait"})
            ~> (~stopped \/ pc[t] = "idle")

(* While a consumer sleeps, a non-empty queue is not left alone: an item    *)
(* leaves it, everyone is awake, or the queue is stopped.                   *)
ItemsAreServed ==
    \A n \in 1..MaxItems :
        (queue # << >> /\ Head(queue) = n /\ At("popWait") # {})
            ~> (queue = << >> \/ Head(queue) # n \/ At("popWait") = {} \/ stopped)

(* The notify_one() of Push and Pop and the late notify_all() of Stop are   *)
(* never lost: nobody sleeps beside what was meant to wake him.             *)
NoLostWakeup == StopReachesSleepers /\ NoLostConsumerWakeup /\ NoLostProducerWakeup

(* Push and Pop return once the queue is stopped, and an item does not stay *)
(* while a consumer sleeps.                                                 *)
SleepersAreServed == StopUnblocks /\ ItemsAreServed
=============================================================================
