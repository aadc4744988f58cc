----------------------------- MODULE EventQueue -----------------------------
(***************************************************************************)
(* util/queue/queue.c: the bounded event queue every active object owns.   *)
(* Any number of threads push (the event bus, timer notifications, UART    *)
(* completions, other objects); the thread of the object pops.             *)
(*                                                                         *)
(* A call is broken at every point where another thread can run: before    *)
(* the mutex is taken, between the check of the size and the update it     *)
(* permits, inside osal_cond_wait (which releases the mutex and takes it   *)
(* again), and before the signal.  Nothing but the mutex keeps two threads *)
(* out of the ring at once: no action tests it except those that lock it.  *)
(***************************************************************************)
EXTENDS Naturals, Sequences, FiniteSets

CONSTANTS Producers, Consumers, Events, Capacity, NoEvent

Threads == Producers \cup Consumers

(* capacity # 0 is checked by util_queue_init; a thread pops or pushes.    *)
ASSUME QueueAssumption ==
  /\ Capacity \in Nat \ {0}
  /\ Producers \cap Consumers = {}
  /\ NoEvent \notin Events
  /\ NoEvent \notin Threads
  /\ "pop" \notin Events /\ NoEvent # "pop"

VARIABLES buffer,   \* buffer[0 .. Capacity-1]: the ring
          head,     \* next slot to pop
          tail,     \* next slot to push into
          size,     \* number of queued events
          mutex,    \* the thread that holds queue->mutex, or NoEvent
          pc,       \* pc[t]: where in push or pop t is
          elem,     \* elem[t]: the argument of t's push
          result    \* result[t]: what t's last call returned

vars == <<buffer, head, tail, size, mutex, pc, elem, result>>

ring == <<buffer, head, tail, size>>

Init ==
  /\ buffer = [i \in 0 .. Capacity - 1 |-> NoEvent]
  /\ head = 0
  /\ tail = 0
  /\ size = 0
  /\ mutex  = NoEvent
  /\ pc     = [t \in Threads |-> "idle"]
  /\ elem   = [t \in Threads |-> NoEvent]
  /\ result = [t \in Threads |-> NoEvent]

Goto(t, from, to) ==
  /\ pc[t] = from
  /\ pc' = [pc EXCEPT ![t] = to]

Lock(t) ==
  /\ mutex = NoEvent
  /\ mutex' = t

Unlock == mutex' = NoEvent

Advance(slot) == (slot + 1) % Capacity

-----------------------------------------------------------------------------
(* util_queue_push *)

PushCall(p, e) ==
  /\ Goto(p, "idle", "push_lock")
  /\ elem'   = [elem EXCEPT ![p] = e]
  /\ result' = [result EXCEPT ![p] = NoEvent]
  /\ UNCHANGED <<ring, mutex>>

PushLock(p) ==
  /\ Goto(p, "push_lock", "push_check")
  /\ Lock(p)
  /\ UNCHANGED <<ring, elem, result>>

(* Mutant: the last slot counts as no room.                                *)
PushFullEarly(p) ==
  /\ Goto(p, "push_check", "idle")
  /\ size >= Capacity - 1
  /\ result' = [result EXCEPT ![p] = "eSTATUS_ACTION_FAILED"]
  /\ Unlock
  /\ UNCHANGED <<ring, elem>>

PushFull(p) ==
  /\ Goto(p, "push_check", "idle")
  /\ size = Capacity
  /\ result' = [result EXCEPT ![p] = "eSTATUS_ACTION_FAILED"]
  /\ Unlock
  /\ UNCHANGED <<ring, elem>>

PushRoom(p) ==
  /\ Goto(p, "push_check", "push_insert")
  /\ size # Capacity
  /\ UNCHANGED <<ring, mutex, elem, result>>

PushInsert(p) ==
  /\ Goto(p, "push_insert", "push_signal")
  /\ buffer' = [buffer EXCEPT ![tail] = elem[p]]
  /\ tail'   = Advance(tail)
  /\ size'   = size + 1
  /\ result' = [result EXCEPT ![p] = "eSTATUS_SUCCESSFUL"]
  /\ UNCHANGED <<head, mutex, elem>>

Waiting == {c \in Consumers : pc[c] = "pop_wait"}

(* Mutant: the push does not signal.                                       *)
PushSignalNobody(p) ==
  /\ Goto(p, "push_signal", "idle")
  /\ Unlock
  /\ UNCHANGED <<ring, elem, result>>

(* osal_cond_signal wakes one waiter, if there is one, and the mutex is    *)
(* released; the waiter must take the mutex again before it goes on.       *)
PushSignal(p) ==
  /\ pc[p] = "push_signal"
  /\ \/ \E c \in Waiting : pc' = [pc EXCEPT ![p] = "idle", ![c] = "pop_relock"]
     \/ Waiting = {} /\ pc' = [pc EXCEPT ![p] = "idle"]
  /\ Unlock
  /\ UNCHANGED <<ring, elem, result>>

-----------------------------------------------------------------------------
(* util_queue_pop *)

PopCall(c) ==
  /\ Goto(c, "idle", "pop_lock")
  /\ result' = [result EXCEPT ![c] = NoEvent]
  /\ UNCHANGED <<ring, mutex, elem>>

PopLock(c) ==
  /\ Goto(c, "pop_lock", "pop_check")
  /\ Lock(c)
  /\ UNCHANGED <<ring, elem, result>>

PopWait(c) ==
  /\ Goto(c, "pop_check", "pop_wait")
  /\ size = 0
  /\ Unlock
  /\ UNCHANGED <<ring, elem, result>>

(* POSIX lets pthread_cond_wait return without a signal.                   *)
SpuriousWakeup(c) ==
  /\ Goto(c, "pop_wait", "pop_relock")
  /\ UNCHANGED <<ring, mutex, elem, result>>

(* Mutant: an if instead of the while: the size is not checked again.      *)
PopRelockUnchecked(c) ==
  /\ Goto(c, "pop_relock", "pop_extract")
  /\ Lock(c)
  /\ UNCHANGED <<ring, elem, result>>

PopRelock(c) ==
  /\ Goto(c, "pop_relock", "pop_check")
  /\ Lock(c)
  /\ UNCHANGED <<ring, elem, result>>

PopSome(c) ==
  /\ Goto(c, "pop_check", "pop_extract")
  /\ size # 0
  /\ UNCHANGED <<ring, mutex, elem, result>>

PopExtract(c) ==
  /\ Goto(c, "pop_extract", "idle")
  /\ result' = [result EXCEPT ![c] = buffer[head]]
  /\ head'   = Advance(head)
  /\ size'   = size - 1
  /\ Unlock
  /\ UNCHANGED <<buffer, tail, elem>>

-----------------------------------------------------------------------------
PushStep(p) ==
  \/ PushLock(p) \/ PushFull(p) \/ PushRoom(p) \/ PushInsert(p) \/ PushSignal(p)

PopStep(c) ==
  \/ PopLock(c) \/ PopWait(c) \/ PopRelock(c) \/ PopSome(c) \/ PopExtract(c)

Next ==
  \/ \E p \in Producers : (\E e \in Events : PushCall(p, e)) \/ PushStep(p)
  \/ \E c \in Consumers : PopCall(c) \/ SpuriousWakeup(c) \/ PopStep(c)

Spec == Init /\ [][Next]_vars

(* A thread inside a call keeps running.  Taking a contended mutex is      *)
(* strongly fair: posters hold it for a few instructions and post at the   *)
(* rate of devices and timers, so it is free again and again.  Nobody is   *)
(* obliged to push.                                                        *)
Fairness ==
  /\ \A p \in Producers : WF_vars(PushStep(p)) /\ SF_vars(PushLock(p))
  /\ \A c \in Consumers :
       /\ WF_vars(PopStep(c))
       /\ SF_vars(PopLock(c))
       /\ SF_vars(PopRelock(c))

FairSpec == Spec /\ Fairness
-----------------------------------------------------------------------------
PushPc == {"idle", "push_lock", "push_check", "push_insert", "push_signal"}
PopPc  == {"idle", "pop_lock", "pop_check", "pop_wait", "pop_relock", "pop_extract"}
Status == {"eSTATUS_SUCCESSFUL", "eSTATUS_ACTION_FAILED"}

TypeOK ==
  /\ buffer \in [0 .. Capacity - 1 -> Events \cup {NoEvent}]
  /\ head \in 0 .. Capacity - 1
  /\ tail \in 0 .. Capacity - 1
  /\ size \in 0 .. Capacity
  /\ mutex \in Threads \cup {NoEvent}
  /\ pc \in [Threads -> PushPc \cup PopPc]
  /\ \A p \in Producers : pc[p] \in PushPc
  /\ \A c \in Consumers : pc[c] \in PopPc
  /\ elem \in [Threads -> Events \cup {NoEvent}]
  /\ result \in [Threads -> Events \cup Status \cup {NoEvent}]

(* The k-th queued event, k counted from 0, is in Slot(k).                 *)
Slot(k) == IF head + k < Capacity THEN head + k ELSE head + k - Capacity

InCritical(t) ==
  pc[t] \in {"push_check", "push_insert", "push_signal", "pop_check", "pop_extract"}

(* The mutex is held exactly by the one thread inside a critical section.  *)
MutexInv == \A t \in Threads : InCritical(t) <=> mutex = t

(* What a thread learned from its check of the size still holds when it    *)
(* acts on it (queue.c:48-57 and 75-83), and head, tail and size describe  *)
(* the same ring.                                                          *)
RingInv ==
  /\ tail = IF head + size < Capacity THEN head + size ELSE head + size - Capacity
  /\ \A t \in Threads : pc[t] = "push_insert" => size < Capacity
  /\ \A t \in Threads : pc[t] = "pop_extract" => size > 0
  /\ \A k \in 0 .. Capacity - 1 : k < size => buffer[Slot(k)] \in Events
  /\ \A p \in Producers : pc[p] # "idle" => elem[p] \in Events

(* Whatever the interleaving, one thread at a time is in the ring, and it  *)
(* acts on what is still so.                                               *)
Inv == TypeOK /\ MutexInv /\ RingInv

(* A consumer never sleeps over events nobody will hand it: as long as one *)
(* is asleep and no push is about to signal, every queued event has a      *)
(* consumer already on its way back to the queue (queue.c:60 and 75-78).   *)
NoLostWakeup ==
  Waiting # {} /\ (\A p \in Producers : pc[p] # "push_signal") =>
    size <= Cardinality({c \in Consumers :
                          pc[c] \in {"pop_relock", "pop_check", "pop_extract"}})

-----------------------------------------------------------------------------
(* The refinement mapping: the abstract queue is the ring read from head,  *)
(* and a call is answered at the step that inserts, refuses or extracts.   *)

queued == [k \in 1 .. size |-> buffer[Slot(k - 1)]]

pending ==
  [t \in Threads |->
     CASE pc[t] \in {"push_lock", "push_check", "push_insert"} -> elem[t]
       [] pc[t] \in PopPc \ {"idle"} -> "pop"
       [] OTHER -> NoEvent]

Fifo == INSTANCE BoundedFifo WITH queue <- queued, call <- pending

(* The ring, its mutex and its condition variable behave as a bounded      *)
(* FIFO: no event is lost, duplicated or reordered, a push fails only on a *)
(* full queue (queue.h: util_queue_push, util_queue_pop).                  *)
ImplementsFifo == Fifo!Spec

(* ... and while a consumer is inside util_queue_pop and events are        *)
(* queued, one is delivered: no wakeup is lost for good.                   *)
ImplementsFairFifo == Fifo!FairSpec
=============================================================================
