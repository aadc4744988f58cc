-------------------------- MODULE EventQueueProofs --------------------------
(***************************************************************************)
(* For every number of producers and consumers, every set of events and    *)
(* every capacity: the invariants of EventQueue, that it implements        *)
(* BoundedFifo, and that no consumer sleeps over an event.                 *)
(***************************************************************************)
EXTENDS EventQueue, FiniteSetTheorems, TLAPS

(* The code's (slot + 1) % capacity stays in the ring and wraps only at    *)
(* its end (queue.c:56 and 82).                                            *)
LEMMA AdvanceLemma ==
  ASSUME NEW slot \in 0 .. Capacity - 1
  PROVE  /\ Advance(slot) \in 0 .. Capacity - 1
         /\ Advance(slot) = IF slot + 1 = Capacity THEN 0 ELSE slot + 1
BY QueueAssumption DEF Advance

(* The slots of the first Capacity positions are distinct slots of the     *)
(* ring, and tail is the slot after the last queued event.                 *)
LEMMA SlotLemma ==
  ASSUME TypeOK, RingInv
  PROVE  /\ \A k \in 0 .. Capacity - 1 : Slot(k) \in 0 .. Capacity - 1
         /\ \A i, j \in 0 .. Capacity - 1 : Slot(i) = Slot(j) => i = j
         /\ size < Capacity => tail = Slot(size)
BY QueueAssumption DEF TypeOK, RingInv, Slot

(* Once head has advanced, the k-th position is what was the next one.     *)
LEMMA ShiftLemma ==
  ASSUME NEW h \in 0 .. Capacity - 1, NEW k \in 0 .. Capacity - 1,
         k + 1 \in 0 .. Capacity - 1,
         NEW h1, h1 = IF h + 1 = Capacity THEN 0 ELSE h + 1
  PROVE  (IF h1 + k < Capacity THEN h1 + k ELSE h1 + k - Capacity) =
         (IF h + (k + 1) < Capacity THEN h + (k + 1) ELSE h + (k + 1) - Capacity)
<1>1. CASE h + 1 = Capacity
  BY <1>1, QueueAssumption
<1>2. CASE h + 1 # Capacity
  BY <1>2, QueueAssumption
<1>3. QED
  BY <1>1, <1>2

(* An empty ring satisfies the invariant.                                  *)
LEMMA InitInv == Init => Inv
<1> SUFFICES ASSUME Init PROVE Inv
  OBVIOUS
<1> USE QueueAssumption DEF Init
<1>1. TypeOK
  BY DEF TypeOK, Threads, PushPc, PopPc
<1>2. MutexInv
  BY DEF MutexInv, InCritical
<1>3. RingInv
  BY DEF RingInv, Threads
<1>4. QED
  BY <1>1, <1>2, <1>3 DEF Inv

-----------------------------------------------------------------------------
(* A thread holds the mutex throughout its critical section and only       *)
(* there, so two threads are never between a check of the size and the     *)
(* update it permits (queue.c:47-61 and 74-85).                            *)
LEMMA StepType == Inv /\ [Next]_vars => TypeOK'
<1> SUFFICES ASSUME Inv, [Next]_vars PROVE TypeOK'
  OBVIOUS
<1> USE QueueAssumption DEF Inv, TypeOK, Threads, PushPc, PopPc, Status
<1>1. ASSUME NEW p \in Producers, NEW e \in Events, PushCall(p, e) PROVE TypeOK'
  BY <1>1 DEF PushCall, Goto, ring
<1>2. ASSUME NEW p \in Producers, PushLock(p) PROVE TypeOK'
  BY <1>2 DEF PushLock, Goto, Lock, ring
<1>3. ASSUME NEW p \in Producers, PushFull(p) PROVE TypeOK'
  BY <1>3 DEF PushFull, Goto, Unlock, ring
<1>4. ASSUME NEW p \in Producers, PushRoom(p) PROVE TypeOK'
  BY <1>4 DEF PushRoom, Goto, ring
<1>5. ASSUME NEW p \in Producers, PushInsert(p) PROVE TypeOK'
  <2>1. size < Capacity
    BY <1>5 DEF PushInsert, Goto, RingInv
  <2>2. Advance(tail) \in 0 .. Capacity - 1
    BY AdvanceLemma
  <2>3. QED
    BY <1>5, <2>1, <2>2 DEF PushInsert, Goto
<1>6. ASSUME NEW p \in Producers, PushSignal(p) PROVE TypeOK'
  BY <1>6 DEF PushSignal, Waiting, Unlock, ring
<1>7. ASSUME NEW c \in Consumers, PopCall(c) PROVE TypeOK'
  BY <1>7 DEF PopCall, Goto, ring
<1>8. ASSUME NEW c \in Consumers, PopLock(c) PROVE TypeOK'
  BY <1>8 DEF PopLock, Goto, Lock, ring
<1>9. ASSUME NEW c \in Consumers, PopWait(c) PROVE TypeOK'
  BY <1>9 DEF PopWait, Goto, Unlock, ring
<1>10. ASSUME NEW c \in Consumers, SpuriousWakeup(c) PROVE TypeOK'
  BY <1>10 DEF SpuriousWakeup, Goto, ring
<1>11. ASSUME NEW c \in Consumers, PopRelock(c) PROVE TypeOK'
  BY <1>11 DEF PopRelock, Goto, Lock, ring
<1>12. ASSUME NEW c \in Consumers, PopSome(c) PROVE TypeOK'
  BY <1>12 DEF PopSome, Goto, ring
<1>13. ASSUME NEW c \in Consumers, PopExtract(c) PROVE TypeOK'
  <2>1. size > 0
    BY <1>13 DEF PopExtract, Goto, RingInv
  <2>2. Advance(head) \in 0 .. Capacity - 1
    BY AdvanceLemma
  <2>3. QED
    BY <1>13, <2>1, <2>2 DEF PopExtract, Goto, Unlock
<1>14. CASE UNCHANGED vars
  BY <1>14 DEF vars
<1>15. QED
  BY <1>1, <1>2, <1>3, <1>4, <1>5, <1>6, <1>7, <1>8, <1>9, <1>10, <1>11,
     <1>12, <1>13, <1>14 DEF Next, PushStep, PopStep

(* Locking, unlocking and waiting keep the mutex with one thread.          *)
LEMMA StepMutex == Inv /\ [Next]_vars => MutexInv'
<1> SUFFICES ASSUME Inv, [Next]_vars PROVE MutexInv'
  OBVIOUS
<1> USE QueueAssumption DEF Inv, TypeOK, Threads, MutexInv, InCritical
<1>1. ASSUME NEW p \in Producers, NEW e \in Events, PushCall(p, e) PROVE MutexInv'
  BY <1>1 DEF PushCall, Goto, ring
<1>2. ASSUME NEW p \in Producers, PushLock(p) PROVE MutexInv'
  BY <1>2 DEF PushLock, Goto, Lock, ring
<1>3. ASSUME NEW p \in Producers, PushFull(p) PROVE MutexInv'
  BY <1>3 DEF PushFull, Goto, Unlock, ring
<1>4. ASSUME NEW p \in Producers, PushRoom(p) PROVE MutexInv'
  BY <1>4 DEF PushRoom, Goto, ring
<1>5. ASSUME NEW p \in Producers, PushInsert(p) PROVE MutexInv'
  BY <1>5 DEF PushInsert, Goto
<1>6. ASSUME NEW p \in Producers, PushSignal(p) PROVE MutexInv'
  BY <1>6 DEF PushSignal, Waiting, Unlock, ring
<1>7. ASSUME NEW c \in Consumers, PopCall(c) PROVE MutexInv'
  BY <1>7 DEF PopCall, Goto, ring
<1>8. ASSUME NEW c \in Consumers, PopLock(c) PROVE MutexInv'
  BY <1>8 DEF PopLock, Goto, Lock, ring
<1>9. ASSUME NEW c \in Consumers, PopWait(c) PROVE MutexInv'
  BY <1>9 DEF PopWait, Goto, Unlock, ring
<1>10. ASSUME NEW c \in Consumers, SpuriousWakeup(c) PROVE MutexInv'
  BY <1>10 DEF SpuriousWakeup, Goto, ring
<1>11. ASSUME NEW c \in Consumers, PopRelock(c) PROVE MutexInv'
  BY <1>11 DEF PopRelock, Goto, Lock, ring
<1>12. ASSUME NEW c \in Consumers, PopSome(c) PROVE MutexInv'
  BY <1>12 DEF PopSome, Goto, ring
<1>13. ASSUME NEW c \in Consumers, PopExtract(c) PROVE MutexInv'
  BY <1>13 DEF PopExtract, Goto, Unlock
<1>14. CASE UNCHANGED vars
  BY <1>14 DEF vars
<1>15. QED
  BY <1>1, <1>2, <1>3, <1>4, <1>5, <1>6, <1>7, <1>8, <1>9, <1>10, <1>11,
     <1>12, <1>13, <1>14 DEF Next, PushStep, PopStep

(* The ring: two checks (<1>5, <1>13) change it, the others leave it alone. *)
LEMMA StepRing == Inv /\ [Next]_vars => RingInv'
<1> SUFFICES ASSUME Inv, [Next]_vars PROVE RingInv'
  OBVIOUS
<1> USE QueueAssumption DEF Inv, TypeOK, Threads
<1>1. ASSUME NEW p \in Producers, NEW e \in Events, PushCall(p, e) PROVE RingInv'
  <2>1. \A q \in Producers : pc'[q] # "idle" => elem'[q] \in Events
    BY <1>1 DEF PushCall, Goto, RingInv
  <2>2. QED
    BY <1>1, <2>1 DEF PushCall, Goto, ring, RingInv, Slot
<1>2. ASSUME NEW p \in Producers, PushLock(p) PROVE RingInv'
  BY <1>2 DEF PushLock, Goto, ring, RingInv, Slot
<1>3. ASSUME NEW p \in Producers, PushFull(p) PROVE RingInv'
  BY <1>3 DEF PushFull, Goto, ring, RingInv, Slot
<1>4. ASSUME NEW p \in Producers, PushRoom(p) PROVE RingInv'
  BY <1>4 DEF PushRoom, Goto, ring, RingInv, Slot
<1>5. ASSUME NEW p \in Producers, PushInsert(p) PROVE RingInv'
  <2>1. /\ size < Capacity
        /\ elem[p] \in Events
        /\ tail = Slot(size)
    BY <1>5, SlotLemma DEF PushInsert, Goto, RingInv
  <2>2. tail' = IF head' + size' < Capacity
                THEN head' + size' ELSE head' + size' - Capacity
    <3>1. Advance(tail) = IF tail + 1 = Capacity THEN 0 ELSE tail + 1
      BY AdvanceLemma
    <3>2. /\ tail' = Advance(tail)
          /\ size' = size + 1
          /\ head' = head
      BY <1>5 DEF PushInsert
    <3>3. QED
      BY <2>1, <3>1, <3>2 DEF RingInv
  <2>3. \A t \in Threads : pc'[t] \notin {"push_insert", "pop_extract"}
    \* p leaves its critical section's middle and nobody else is inside one
    BY <1>5 DEF PushInsert, Goto, MutexInv, InCritical
  <2>4. ASSUME NEW k \in 0 .. Capacity - 1, k < size' PROVE buffer'[Slot(k)] \in Events
    <3>1. CASE k = size
      BY <1>5, <2>1, <3>1 DEF PushInsert
    <3>2. CASE k < size
      BY <1>5, <2>1, <3>2, SlotLemma DEF PushInsert, RingInv
    <3>3. QED
      BY <1>5, <2>4, <3>1, <3>2 DEF PushInsert
  <2>5. \A q \in Producers : pc'[q] # "idle" => elem'[q] \in Events
    BY <1>5 DEF PushInsert, Goto, RingInv
  <2>6. \A k : Slot(k)' = Slot(k)
    BY <1>5 DEF PushInsert, Slot
  <2>7. QED
    BY <2>2, <2>3, <2>4, <2>5, <2>6 DEF RingInv
<1>6. ASSUME NEW p \in Producers, PushSignal(p) PROVE RingInv'
  BY <1>6 DEF PushSignal, Waiting, ring, RingInv, Slot
<1>7. ASSUME NEW c \in Consumers, PopCall(c) PROVE RingInv'
  BY <1>7 DEF PopCall, Goto, ring, RingInv, Slot
<1>8. ASSUME NEW c \in Consumers, PopLock(c) PROVE RingInv'
  BY <1>8 DEF PopLock, Goto, ring, RingInv, Slot
<1>9. ASSUME NEW c \in Consumers, PopWait(c) PROVE RingInv'
  BY <1>9 DEF PopWait, Goto, ring, RingInv, Slot
<1>10. ASSUME NEW c \in Consumers, SpuriousWakeup(c) PROVE RingInv'
  BY <1>10 DEF SpuriousWakeup, Goto, ring, RingInv, Slot
<1>11. ASSUME NEW c \in Consumers, PopRelock(c) PROVE RingInv'
  BY <1>11 DEF PopRelock, Goto, ring, RingInv, Slot
<1>12. ASSUME NEW c \in Consumers, PopSome(c) PROVE RingInv'
  BY <1>12 DEF PopSome, Goto, ring, RingInv, Slot
<1>13. ASSUME NEW c \in Consumers, PopExtract(c) PROVE RingInv'
  <2>1. size > 0
    BY <1>13 DEF PopExtract, Goto, RingInv
  <2>7. /\ head' = IF head + 1 = Capacity THEN 0 ELSE head + 1
        /\ size' = size - 1
        /\ tail' = tail
    <3>1. Advance(head) = IF head + 1 = Capacity THEN 0 ELSE head + 1
      BY AdvanceLemma
    <3>2. QED
      BY <1>13, <3>1 DEF PopExtract
  <2>2. tail' = IF head' + size' < Capacity
                THEN head' + size' ELSE head' + size' - Capacity
    BY <2>1, <2>7 DEF RingInv
  <2>3. \A t \in Threads : pc'[t] \notin {"push_insert", "pop_extract"}
    BY <1>13 DEF PopExtract, Goto, MutexInv, InCritical
  <2>4. ASSUME NEW k \in 0 .. Capacity - 1, k < size' PROVE buffer'[Slot(k)'] \in Events
    <3>1. /\ k + 1 \in 0 .. Capacity - 1
          /\ k + 1 < size
      BY <1>13, <2>1, <2>4 DEF PopExtract
    <3>2. Slot(k)' = Slot(k + 1)
      BY <2>7, <3>1, ShiftLemma, SMTT(30) DEF Slot
    <3>3. QED
      BY <1>13, <3>1, <3>2 DEF PopExtract, RingInv
  <2>5. \A q \in Producers : pc'[q] # "idle" => elem'[q] \in Events
    BY <1>13 DEF PopExtract, Goto, RingInv
  <2>6. QED
    BY <2>2, <2>3, <2>4, <2>5 DEF RingInv
<1>14. CASE UNCHANGED vars
  BY <1>14 DEF vars, RingInv, Slot
<1>15. QED
  BY <1>1, <1>2, <1>3, <1>4, <1>5, <1>6, <1>7, <1>8, <1>9, <1>10, <1>11,
     <1>12, <1>13, <1>14 DEF Next, PushStep, PopStep

-----------------------------------------------------------------------------
(* In every state of util_queue: the variables have their types, the mutex *)
(* is held exactly by the thread in a critical section, and no two threads *)
(* act on the ring at once, so that head, tail, size and the slots between *)
(* them always describe one queue.                                         *)
THEOREM QueueInvariant == Spec => []Inv
<1>1. Inv /\ [Next]_vars => Inv'
  BY StepType, StepMutex, StepRing DEF Inv
<1>2. QED
  BY InitInv, <1>1, PTL DEF Spec

(* Type correctness of the queue of queue.c.                               *)
THEOREM TypeCorrect == Spec => []TypeOK
BY QueueInvariant, PTL DEF Inv

(* The mutex of queue.c excludes: whoever is between its check and its     *)
(* update is alone.                                                        *)
THEOREM MutualExclusion == Spec => []MutexInv
BY QueueInvariant, PTL DEF Inv

(* The ring stays one ring, and no thread acts on a stale check of size.   *)
THEOREM RingCorrect == Spec => []RingInv
BY QueueInvariant, PTL DEF Inv

-----------------------------------------------------------------------------
(* The refinement.  pending is the abstract call of each thread.           *)
LEMMA PendingLemma ==
  ASSUME TypeOK
  PROVE  /\ pending \in [Threads -> Events \cup {NoEvent, "pop"}]
         /\ \A p \in Producers :
              /\ pc[p] \in {"push_lock", "push_check", "push_insert"} => pending[p] = elem[p]
              /\ pc[p] \in {"idle", "push_signal"} => pending[p] = NoEvent
         /\ \A c \in Consumers :
              /\ pc[c] # "idle" => pending[c] = "pop"
              /\ pc[c] = "idle" => pending[c] = NoEvent
BY DEF TypeOK, pending, Threads, PushPc, PopPc

(* A step that moves nobody into or out of a call leaves pending alone.    *)
LEMMA PendingSame ==
  ASSUME TypeOK, UNCHANGED elem,
         \A t \in Threads :
           \/ pc'[t] = pc[t]
           \/ {pc[t], pc'[t]} \subseteq {"push_lock", "push_check", "push_insert"}
           \/ {pc[t], pc'[t]} \subseteq {"push_signal", "idle"}
           \/ {pc[t], pc'[t]} \subseteq PopPc \ {"idle"}
  PROVE  pending' = pending
BY DEF pending, PopPc

(* The abstract queue, slot by slot: what lies between head and tail.      *)
LEMMA QueuedLemma ==
  ASSUME TypeOK, RingInv
  PROVE  /\ queued \in Seq(Events)
         /\ Len(queued) = size
         /\ \A k \in 1 .. size : queued[k] = buffer[Slot(k - 1)]
<1>1. \A k \in 1 .. size : buffer[Slot(k - 1)] \in Events
  BY QueueAssumption DEF TypeOK, RingInv
<1>2. queued \in [1 .. size -> Events]
  BY <1>1 DEF queued
<1>3. size \in Nat
  BY QueueAssumption DEF TypeOK
<1>4. QED
  BY <1>2, <1>3 DEF queued

(* A step that leaves the ring alone leaves the abstract queue alone.      *)
LEMMA QueuedSame == UNCHANGED ring => queued' = queued
BY DEF ring, queued, Slot

(* The initial state is an initial state of the abstract FIFO.             *)
LEMMA InitRefines == Init => Fifo!Init
<1> SUFFICES ASSUME Init PROVE Fifo!Init
  OBVIOUS
<1>1. queued = <<>>
  BY DEF Init, queued
<1>2. pending = [t \in Threads |-> NoEvent]
  BY DEF Init, pending, PopPc
<1>3. QED
  BY <1>1, <1>2 DEF Init, Fifo!Init, Threads, Fifo!Threads

(* An insert under the mutex is an abstract Accept.                        *)
LEMMA InsertAccepts ==
  ASSUME Inv, Inv', NEW p \in Producers, PushInsert(p)
  PROVE  Fifo!Accept(p)
<1> USE DEF Inv
<1>1. /\ size < Capacity
      /\ elem[p] \in Events
      /\ tail = Slot(size)
      /\ size \in 0 .. Capacity
      /\ tail \in 0 .. Capacity - 1
  BY SlotLemma DEF PushInsert, Goto, RingInv, TypeOK, Threads
<1>2. pending[p] = elem[p]
  BY PendingLemma DEF PushInsert, Goto
<1>3. pending' = [pending EXCEPT ![p] = NoEvent]
  BY QueueAssumption DEF PushInsert, Goto, pending, TypeOK, Threads, PopPc
<1>4. queued' = Append(queued, elem[p])
  <2>1. /\ size' = size + 1
        /\ buffer' = [buffer EXCEPT ![tail] = elem[p]]
        /\ \A k : Slot(k)' = Slot(k)
    BY DEF PushInsert, Slot
  <2>2. \A k \in 1 .. size + 1 :
          buffer'[Slot(k - 1)] = IF k = size + 1 THEN elem[p] ELSE buffer[Slot(k - 1)]
    <3> SUFFICES ASSUME NEW k \in 1 .. size + 1
                 PROVE  buffer'[Slot(k - 1)] =
                          IF k = size + 1 THEN elem[p] ELSE buffer[Slot(k - 1)]
      OBVIOUS
    <3>1. k - 1 \in 0 .. Capacity - 1 /\ size \in 0 .. Capacity - 1
      BY <1>1, QueueAssumption
    <3>2. Slot(k - 1) \in 0 .. Capacity - 1 /\ (Slot(k - 1) = Slot(size) => k - 1 = size)
      BY <3>1, SlotLemma
    <3>3. QED
      BY <1>1, <2>1, <3>2 DEF TypeOK
  <2>3. queued \in Seq(Events) /\ Len(queued) = size
    BY QueuedLemma
  <2>4. queued' = [k \in 1 .. size + 1 |->
                     IF k = size + 1 THEN elem[p] ELSE buffer[Slot(k - 1)]]
    BY <2>1, <2>2 DEF queued
  <2>5. Append(queued, elem[p]) =
          [k \in 1 .. size + 1 |-> IF k = size + 1 THEN elem[p] ELSE queued[k]]
    BY <1>1, <2>3
  <2>6. \A k \in 1 .. size : queued[k] = buffer[Slot(k - 1)]
    BY QueuedLemma
  <2>7. QED
    BY <1>1, <2>4, <2>5, <2>6
<1>5. Len(queued) < Capacity
  BY <1>1, QueuedLemma
<1>6. result' = [result EXCEPT ![p] = "eSTATUS_SUCCESSFUL"]
  BY DEF PushInsert
<1>7. pending[p] # NoEvent
  BY <1>1, <1>2, QueueAssumption
<1>8. QED
  BY <1>2, <1>3, <1>4, <1>5, <1>6, <1>7 DEF Fifo!Accept, Fifo!Answer, Fifo!Accepted

(* A sequence is the function from its indices to its elements.            *)
LEMMA SeqIsFunction ==
  ASSUME NEW S, NEW s \in Seq(S)
  PROVE  s = [k \in 1 .. Len(s) |-> s[k]]
OBVIOUS

(* An extraction under the mutex is an abstract Deliver of the oldest.     *)
LEMMA ExtractDelivers ==
  ASSUME Inv, Inv', NEW c \in Consumers, PopExtract(c)
  PROVE  Fifo!Deliver(c)
<1> USE DEF Inv
<1>1. /\ size > 0
      /\ size \in 1 .. Capacity
      /\ head \in 0 .. Capacity - 1
  BY QueueAssumption DEF PopExtract, Goto, RingInv, TypeOK, Threads
<1>2. pending[c] = "pop"
  BY PendingLemma DEF PopExtract, Goto
<1>3. pending' = [pending EXCEPT ![c] = NoEvent]
  BY QueueAssumption DEF PopExtract, Goto, pending, TypeOK, Threads, PopPc
<1>4. queued \in Seq(Events) /\ Len(queued) = size /\ queued # <<>>
  BY <1>1, QueuedLemma
<1>5. Head(queued) = buffer[head]
  <2>1. Slot(0) = head
    BY <1>1, QueueAssumption DEF Slot
  <2>2. queued[1] = buffer[Slot(0)]
    BY <1>1, QueuedLemma
  <2>3. QED
    BY <1>4, <2>1, <2>2
<1>6. queued' = Tail(queued)
  <2>1. /\ size' = size - 1
        /\ buffer' = buffer
        /\ head' = IF head + 1 = Capacity THEN 0 ELSE head + 1
    <3>1. Advance(head) = IF head + 1 = Capacity THEN 0 ELSE head + 1
      BY <1>1, AdvanceLemma
    <3>2. QED
      BY <3>1 DEF PopExtract
  <2>2. \A k \in 1 .. size - 1 : Slot(k - 1)' = Slot(k)
    BY <1>1, <2>1, QueueAssumption DEF Slot
  <2>3. queued' = [k \in 1 .. size - 1 |-> buffer[Slot(k)]]
    BY <2>1, <2>2 DEF queued
  <2>4. Tail(queued) = [k \in 1 .. size - 1 |-> queued[k + 1]]
    <3>1. Tail(queued) \in Seq(Events) /\ Len(Tail(queued)) = size - 1
      BY <1>4
    <3>2. \A k \in 1 .. size - 1 : Tail(queued)[k] = queued[k + 1]
      BY <1>4
    <3>3. Tail(queued) = [k \in 1 .. Len(Tail(queued)) |-> Tail(queued)[k]]
      BY <3>1, SeqIsFunction
    <3>4. QED
      BY <3>1, <3>2, <3>3
  <2>5. \A k \in 1 .. size - 1 : queued[k + 1] = buffer[Slot(k)]
    <3> SUFFICES ASSUME NEW k \in 1 .. size - 1 PROVE queued[k + 1] = buffer[Slot(k)]
      OBVIOUS
    <3>1. k + 1 \in 1 .. size /\ (k + 1) - 1 = k
      BY <1>1
    <3>2. queued[k + 1] = buffer[Slot((k + 1) - 1)]
      BY <3>1, QueuedLemma
    <3>3. QED
      BY <3>1, <3>2
  <2>6. QED
    BY <2>3, <2>4, <2>5
<1>7. result' = [result EXCEPT ![c] = buffer[head]]
  BY DEF PopExtract
<1>8. QED
  BY <1>2, <1>3, <1>4, <1>5, <1>6, <1>7 DEF Fifo!Deliver, Fifo!Answer, Fifo!Pop

(* Each step of the queue is a step of the FIFO, or none.                  *)
LEMMA StepRefines ==
  Inv /\ Inv' /\ [Next]_vars => [Fifo!Next]_<<queued, pending, result>>
<1> SUFFICES ASSUME Inv, Inv', [Next]_vars
             PROVE  Fifo!Next \/ UNCHANGED <<queued, pending, result>>
  OBVIOUS
<1> USE QueueAssumption DEF Inv
<1>1. ASSUME NEW p \in Producers, NEW e \in Events, PushCall(p, e) PROVE Fifo!Begin(p, e)
  <2>1. pending[p] = NoEvent
    BY <1>1, PendingLemma DEF PushCall, Goto
  <2>2. pending' = [pending EXCEPT ![p] = e]
    BY <1>1 DEF PushCall, Goto, pending, TypeOK, Threads, PopPc
  <2>3. queued' = queued
    BY <1>1, QueuedSame DEF PushCall
  <2>4. QED
    BY <1>1, <2>1, <2>2, <2>3 DEF PushCall, Fifo!Begin
<1>2. ASSUME NEW p \in Producers, PushLock(p) \/ PushRoom(p) \/ PushSignal(p)
      PROVE  UNCHANGED <<queued, pending, result>>
  <2>1. UNCHANGED <<ring, elem, result>>
    BY <1>2 DEF PushLock, PushRoom, PushSignal
  <2>2. pending' = pending
    BY <1>2, <2>1, PendingSame
    DEF PushLock, PushRoom, PushSignal, Waiting, Goto, TypeOK, Threads, PopPc
  <2>3. QED
    BY <2>1, <2>2, QueuedSame
<1>3. ASSUME NEW p \in Producers, PushFull(p) PROVE Fifo!Refuse(p)
  <2>1. pending[p] = elem[p] /\ elem[p] \in Events
    BY <1>3, PendingLemma DEF PushFull, Goto, RingInv
  <2>2. pending' = [pending EXCEPT ![p] = NoEvent]
    BY <1>3 DEF PushFull, Goto, pending, TypeOK, Threads, PopPc
  <2>3. queued' = queued /\ Len(queued) = Capacity
    BY <1>3, QueuedSame, QueuedLemma DEF PushFull
  <2>4. QED
    BY <1>3, <2>1, <2>2, <2>3 DEF PushFull, Fifo!Refuse, Fifo!Answer, Fifo!Refused
<1>4. ASSUME NEW p \in Producers, PushInsert(p) PROVE Fifo!Accept(p)
  BY <1>4, InsertAccepts
<1>5. ASSUME NEW c \in Consumers, PopCall(c) PROVE Fifo!Begin(c, "pop")
  <2>1. pending[c] = NoEvent
    BY <1>5, PendingLemma DEF PopCall, Goto
  <2>2. pending' = [pending EXCEPT ![c] = "pop"]
    BY <1>5 DEF PopCall, Goto, pending, TypeOK, Threads, PopPc
  <2>3. queued' = queued
    BY <1>5, QueuedSame DEF PopCall
  <2>4. QED
    BY <1>5, <2>1, <2>2, <2>3 DEF PopCall, Fifo!Begin
<1>6. ASSUME NEW c \in Consumers,
             \/ PopLock(c) \/ PopWait(c) \/ SpuriousWakeup(c)
             \/ PopRelock(c) \/ PopSome(c)
      PROVE  UNCHANGED <<queued, pending, result>>
  <2>1. UNCHANGED <<ring, elem, result>>
    BY <1>6 DEF PopLock, PopWait, SpuriousWakeup, PopRelock, PopSome
  <2>2. pending' = pending
    BY <1>6, <2>1, PendingSame
    DEF PopLock, PopWait, SpuriousWakeup, PopRelock, PopSome, Goto, TypeOK, Threads, PopPc
  <2>3. QED
    BY <2>1, <2>2, QueuedSame
<1>7. ASSUME NEW c \in Consumers, PopExtract(c) PROVE Fifo!Deliver(c)
  BY <1>7, ExtractDelivers
<1>8. CASE UNCHANGED vars
  BY <1>8, QueuedSame DEF vars, ring, pending
<1>9. QED
  BY <1>1, <1>2, <1>3, <1>4, <1>5, <1>6, <1>7, <1>8
  DEF Next, PushStep, PopStep, Fifo!Next, Fifo!Pop

(* The ring with its lock is a bounded FIFO: whatever the capacity and     *)
(* however many threads push and pop, accepted events are delivered once   *)
(* each and in order, and a push is refused only when Capacity events are  *)
(* queued (util_queue_push and util_queue_pop).                            *)
THEOREM QueueIsFifo == Spec => ImplementsFifo
<1>1. Inv /\ Inv' /\ [Next]_vars => [Fifo!Next]_Fifo!absVars
  BY StepRefines DEF Fifo!absVars
<1>2. QED
  BY InitRefines, QueueInvariant, <1>1, PTL DEF Spec, ImplementsFifo, Fifo!Spec

-----------------------------------------------------------------------------
(* No wake-up is lost.  While a consumer sleeps, each queued event is      *)
(* matched by a consumer on its way back to the queue, or is the one that  *)
(* the push inside the critical section is about to signal.                *)

Active == {c \in Consumers : pc[c] \in {"pop_relock", "pop_check", "pop_extract"}}

Signalling == \E p \in Producers : pc[p] = "push_signal"

WakeupInv ==
  Waiting # {} =>
    size <= Cardinality(Active) + (IF Signalling THEN 1 ELSE 0)

(* How the number of consumers on their way changes with one of them.      *)
LEMMA ActiveLemma ==
  ASSUME IsFiniteSet(Consumers), NEW c \in Consumers
  PROVE  /\ Cardinality(Active) \in Nat
         /\ Active' = Active => Cardinality(Active') = Cardinality(Active)
         /\ c \notin Active /\ Active' = Active \cup {c} =>
              Cardinality(Active') = Cardinality(Active) + 1
         /\ c \in Active /\ Active' = Active \ {c} =>
              Cardinality(Active') = Cardinality(Active) - 1
<1>1. IsFiniteSet(Active)
  BY FS_Subset DEF Active
<1>2. QED
  BY <1>1, FS_CardinalityType, FS_AddElement, FS_RemoveElement

(* A step of a producer that neither inserts nor signals.                  *)
LEMMA ProducerMoves ==
  ASSUME Inv, NEW p \in Producers, NEW from, NEW to,
         from # "push_signal", to # "push_signal", to \in PushPc, Goto(p, from, to)
  PROVE  Active' = Active /\ Waiting' = Waiting /\ (Signalling' <=> Signalling)
<1>1. p \notin Consumers /\ pc \in [Threads -> PushPc \cup PopPc] /\ p \in Threads
  BY QueueAssumption DEF Inv, TypeOK, Threads
<1>2. \A t \in Threads : t # p => pc'[t] = pc[t]
  BY <1>1 DEF Goto
<1>3. Active' = Active /\ Waiting' = Waiting
  BY <1>1, <1>2 DEF Active, Waiting, Threads
<1>4. pc[p] # "push_signal" /\ pc'[p] # "push_signal"
  BY <1>1 DEF Goto
<1>5. Signalling' <=> Signalling
  BY <1>2, <1>4 DEF Signalling, Threads
<1>6. QED
  BY <1>3, <1>5

(* A step of a consumer.                                                   *)
LEMMA ConsumerMoves ==
  ASSUME Inv, NEW c \in Consumers, NEW from, NEW to, to # "push_signal", Goto(c, from, to)
  PROVE  /\ Active' = IF to \in {"pop_relock", "pop_check", "pop_extract"}
                        THEN Active \cup {c} ELSE Active \ {c}
         /\ to # "pop_wait" => Waiting' = Waiting \ {c}
         /\ Signalling' <=> Signalling
<1>1. c \notin Producers /\ pc \in [Threads -> PushPc \cup PopPc] /\ c \in Threads
  BY QueueAssumption DEF Inv, TypeOK, Threads
<1>2. pc'[c] = to /\ \A t \in Threads : t # c => pc'[t] = pc[t]
  BY <1>1 DEF Goto
<1>3. QED
  BY <1>1, <1>2 DEF Active, Waiting, Signalling, Threads

LEMMA StepWakeup ==
  ASSUME IsFiniteSet(Consumers)
  PROVE  Inv /\ WakeupInv /\ [Next]_vars => WakeupInv'
<1> SUFFICES ASSUME Inv, WakeupInv, [Next]_vars, Waiting' # {}
             PROVE  size' <= Cardinality(Active') + (IF Signalling' THEN 1 ELSE 0)
  BY DEF WakeupInv
<1>0. size \in Nat /\ Cardinality(Active) \in Nat /\ IsFiniteSet(Active)
  <2>1. IsFiniteSet(Active)
    BY FS_Subset DEF Active
  <2>2. QED
    BY <2>1, FS_CardinalityType, QueueAssumption DEF Inv, TypeOK
<1>1. ASSUME NEW p \in Producers,
             (\E e \in Events : PushCall(p, e)) \/ PushLock(p) \/ PushFull(p) \/ PushRoom(p)
      PROVE  size' <= Cardinality(Active') + (IF Signalling' THEN 1 ELSE 0)
  <2>1. size' = size
    BY <1>1 DEF PushCall, PushLock, PushFull, PushRoom, ring
  <2>2. PICK from \in PushPc, to \in PushPc :
          from # "push_signal" /\ to # "push_signal" /\ Goto(p, from, to)
    BY <1>1 DEF PushCall, PushLock, PushFull, PushRoom, PushPc
  <2>3. Active' = Active /\ Waiting' = Waiting /\ (Signalling' <=> Signalling)
    BY <2>2, ProducerMoves
  <2>4. QED
    BY <2>1, <2>3 DEF WakeupInv
<1>2. ASSUME NEW p \in Producers, PushInsert(p)
      PROVE  size' <= Cardinality(Active') + (IF Signalling' THEN 1 ELSE 0)
  <2>1. p \notin Consumers /\ pc \in [Threads -> PushPc \cup PopPc] /\ p \in Threads
    BY QueueAssumption DEF Inv, TypeOK, Threads
  <2>2. pc'[p] = "push_signal" /\ \A t \in Threads : t # p => pc'[t] = pc[t]
    BY <1>2, <2>1 DEF PushInsert, Goto
  <2>3. Active' = Active /\ Waiting' = Waiting /\ Signalling'
    BY <2>1, <2>2 DEF Active, Waiting, Signalling, Threads
  <2>4. ~Signalling
    BY <1>2 DEF PushInsert, Goto, Signalling, Inv, MutexInv, InCritical, Threads
  <2>5. size <= Cardinality(Active)
    BY <1>0, <2>3, <2>4 DEF WakeupInv
  <2>6. size' = size + 1
    BY <1>2 DEF PushInsert
  <2>7. QED
    BY <1>0, <2>3, <2>5, <2>6
<1>3. ASSUME NEW p \in Producers, PushSignal(p)
      PROVE  size' <= Cardinality(Active') + (IF Signalling' THEN 1 ELSE 0)
  <2>1. p \notin Consumers /\ pc \in [Threads -> PushPc \cup PopPc] /\ p \in Threads
    BY QueueAssumption DEF Inv, TypeOK, Threads
  <2>2. Waiting # {}
    BY <1>3, <2>1 DEF PushSignal, Waiting, Threads
  <2>3. PICK c \in Waiting : pc' = [pc EXCEPT ![p] = "idle", ![c] = "pop_relock"]
    BY <1>3, <2>2 DEF PushSignal
  <2>4. c \in Consumers /\ c # p /\ c \in Threads /\ c \notin Active
    BY <2>1 DEF Waiting, Active, Threads
  <2>5. pc'[c] = "pop_relock" /\ \A t \in Threads : t # p /\ t # c => pc'[t] = pc[t]
    BY <2>1, <2>3, <2>4
  <2>6. Active' = Active \cup {c}
    BY <2>1, <2>4, <2>5 DEF Active, Threads
  <2>7. Cardinality(Active') = Cardinality(Active) + 1
    BY <2>4, <2>6, ActiveLemma
  <2>8. size <= Cardinality(Active) + 1 /\ size' = size
    BY <1>0, <1>3, <2>2 DEF WakeupInv, PushSignal, ring
  <2>9. QED
    BY <1>0, <2>7, <2>8
<1>4. ASSUME NEW c \in Consumers, PopCall(c) \/ PopLock(c) \/ SpuriousWakeup(c) \/ PopRelock(c)
                                  \/ PopSome(c)
      PROVE  size' <= Cardinality(Active') + (IF Signalling' THEN 1 ELSE 0)
  <2>1. size' = size
    BY <1>4 DEF PopCall, PopLock, SpuriousWakeup, PopRelock, PopSome, ring
  <2>2. PICK from \in PopPc, to \in PopPc \ {"pop_wait"} :
          /\ Goto(c, from, to)
          /\ to = "pop_lock" => from = "idle"
          /\ to \in {"pop_lock", "pop_check", "pop_relock", "pop_extract"}
    BY <1>4 DEF PopCall, PopLock, SpuriousWakeup, PopRelock, PopSome, PopPc
  <2>3. to # "push_signal"
    BY DEF PopPc
  <2>4. Waiting # {} /\ (Signalling' <=> Signalling)
    BY <2>2, <2>3, ConsumerMoves
  <2>5. Active' = Active \/ (c \notin Active /\ Active' = Active \cup {c})
    <3>1. Active' = IF to \in {"pop_relock", "pop_check", "pop_extract"}
                      THEN Active \cup {c} ELSE Active \ {c}
      BY <2>2, <2>3, ConsumerMoves
    <3>2. CASE to = "pop_lock"
      BY <2>2, <3>1, <3>2 DEF Active, Goto
    <3>3. CASE to # "pop_lock"
      BY <2>2, <3>1, <3>3
    <3>4. QED
      BY <3>2, <3>3
  <2>6. Cardinality(Active') \in {Cardinality(Active), Cardinality(Active) + 1}
    BY <2>5, ActiveLemma
  <2>7. QED
    BY <1>0, <2>1, <2>4, <2>6 DEF WakeupInv
<1>5. ASSUME NEW c \in Consumers, PopWait(c)
      PROVE  size' <= Cardinality(Active') + (IF Signalling' THEN 1 ELSE 0)
  <2>1. size' = 0
    BY <1>5 DEF PopWait, ring
  <2>2. Active' = Active \ {c} /\ IsFiniteSet(Active \ {c})
    BY <1>0, <1>5, ConsumerMoves, FS_Subset DEF PopWait
  <2>3. Cardinality(Active') \in Nat
    BY <2>2, FS_CardinalityType
  <2>4. QED
    BY <2>1, <2>3
<1>6. ASSUME NEW c \in Consumers, PopExtract(c)
      PROVE  size' <= Cardinality(Active') + (IF Signalling' THEN 1 ELSE 0)
  <2>1. size' = size - 1
    BY <1>6 DEF PopExtract
  <2>2. Active' = Active \ {c} /\ Waiting # {} /\ (Signalling' <=> Signalling)
    BY <1>6, ConsumerMoves DEF PopExtract
  <2>3. c \in Active
    BY <1>6 DEF PopExtract, Goto, Active
  <2>4. Cardinality(Active') = Cardinality(Active) - 1
    BY <2>2, <2>3, ActiveLemma
  <2>5. QED
    BY <1>0, <2>1, <2>2, <2>4 DEF WakeupInv
<1>7. CASE UNCHANGED vars
  <2>1. size' = size /\ Active' = Active /\ Waiting' = Waiting /\ (Signalling' <=> Signalling)
    BY <1>7 DEF vars, Active, Waiting, Signalling
  <2>2. QED
    BY <2>1 DEF WakeupInv
<1>8. QED
  BY <1>1, <1>2, <1>3, <1>4, <1>5, <1>6, <1>7 DEF Next, PushStep, PopStep

(* No consumer sleeps over an event that nobody will hand it, however many *)
(* threads push and pop and whatever wakes them (queue.c:60 and 75-78).    *)
THEOREM NoWakeupLost ==
  ASSUME IsFiniteSet(Consumers)
  PROVE  Spec => []NoLostWakeup
<1>1. Init => WakeupInv
  BY DEF Init, WakeupInv, Waiting, Threads
<1>2. Inv /\ WakeupInv => NoLostWakeup
  <2>1. SUFFICES ASSUME Inv, WakeupInv, Waiting # {}, ~Signalling
                 PROVE  size <= Cardinality(Active)
    BY DEF NoLostWakeup, Active, Signalling
  <2>2. size <= Cardinality(Active) + 0
    BY <2>1 DEF WakeupInv
  <2>3. Cardinality(Active) \in Nat
    BY FS_Subset, FS_CardinalityType DEF Active
  <2>4. QED
    BY <2>2, <2>3
<1>3. Inv /\ WakeupInv /\ [Next]_vars => WakeupInv'
  BY StepWakeup
<1>4. QED
  BY <1>1, <1>2, <1>3, QueueInvariant, PTL DEF Spec
=============================================================================
