--------------------------- MODULE HalUartProofs ---------------------------
(***************************************************************************)
(* The UART driver for every number of devices, slots and submission       *)
(* entries: no slot stays taken without an operation that will free it,    *)
(* whatever is aborted or fails to be submitted; and a completion calls    *)
(* its own callback as long as nothing has been.                           *)
(***************************************************************************)
EXTENDS HalUart, SequenceTheorems, FiniteSetTheorems, TLAPS

CompletionType == [op : OpType, data : BOOLEAN]

(* The operations whose completions are posted.                            *)
Done(q) == {q[i].op : i \in DOMAIN q}

(* Reads and writes are numbered as they are started, and only they        *)
(* transfer data.                                                          *)
NumbersInv ==
  /\ IsFiniteSet(pending)
  /\ \A op \in Underway : op.id <= ops
  /\ \A i \in DOMAIN completed : completed[i].data => completed[i].op.id # NoOp

UartIInv == TypeOK /\ NumbersInv /\ NoSlotLeak

-----------------------------------------------------------------------------
(* Queues of completions *)

LEMMA DoneAppend ==
  ASSUME NEW q \in Seq(CompletionType), NEW c \in CompletionType
  PROVE  /\ Append(q, c) \in Seq(CompletionType)
         /\ DOMAIN Append(q, c) = DOMAIN q \cup {Len(q) + 1}
         /\ \A i \in DOMAIN q : i # Len(q) + 1 /\ Append(q, c)[i] = q[i]
         /\ Append(q, c)[Len(q) + 1] = c
         /\ Done(Append(q, c)) = Done(q) \cup {c.op}
<1>1. /\ Append(q, c) \in Seq(CompletionType)
      /\ DOMAIN Append(q, c) = DOMAIN q \cup {Len(q) + 1}
      /\ \A i \in DOMAIN q : i # Len(q) + 1 /\ Append(q, c)[i] = q[i]
      /\ Append(q, c)[Len(q) + 1] = c
  OBVIOUS
<1>2. QED
  BY <1>1 DEF Done

LEMMA DoneTail ==
  ASSUME NEW q \in Seq(CompletionType), q # <<>>
  PROVE  /\ Head(q) \in CompletionType /\ 1 \in DOMAIN q /\ q[1] = Head(q)
         /\ Tail(q) \in Seq(CompletionType)
         /\ \A i \in DOMAIN Tail(q) :
              i + 1 \in DOMAIN q /\ i + 1 # 1 /\ Tail(q)[i] = q[i + 1]
         /\ \A i, j \in DOMAIN Tail(q) : i + 1 = j + 1 => i = j
         /\ Done(q) = Done(Tail(q)) \cup {Head(q).op}
<1>1. /\ Head(q) \in CompletionType /\ 1 \in DOMAIN q /\ q[1] = Head(q)
      /\ Tail(q) \in Seq(CompletionType)
      /\ \A i \in DOMAIN Tail(q) :
           i + 1 \in DOMAIN q /\ i + 1 # 1 /\ Tail(q)[i] = q[i + 1]
      /\ \A i, j \in DOMAIN Tail(q) : i + 1 = j + 1 => i = j
  OBVIOUS
<1>2. \A i \in DOMAIN q : i = 1 \/ (i - 1 \in DOMAIN Tail(q) /\ Tail(q)[i - 1] = q[i])
  OBVIOUS
<1>3. Done(Tail(q)) \subseteq Done(q) /\ Head(q).op \in Done(q)
  BY <1>1 DEF Done
<1>4. ASSUME NEW i \in DOMAIN q PROVE q[i].op \in Done(Tail(q)) \cup {Head(q).op}
  BY <1>1, <1>2 DEF Done
<1>5. Done(q) \subseteq Done(Tail(q)) \cup {Head(q).op}
  BY <1>4 DEF Done
<1>6. QED
  BY <1>1, <1>3, <1>5

LEMMA AppendTwo ==
  ASSUME NEW S, NEW q \in Seq(S), NEW a \in S, NEW b \in S
  PROVE  q \o <<a, b>> = Append(Append(q, a), b)
<1> DEFINE l == q \o <<a, b>>
           r == Append(Append(q, a), b)
<1>1. l \in Seq(S) /\ r \in Seq(S) /\ Len(l) = Len(q) + 2 /\ Len(r) = Len(q) + 2
  OBVIOUS
<1>2. \A i \in 1 .. Len(q) + 2 : l[i] = r[i]
  OBVIOUS
<1>3. QED
  BY <1>1, <1>2

LEMMA UnderwayType == TypeOK => Underway \subseteq OpType
<1> SUFFICES ASSUME TypeOK PROVE Underway \subseteq OpType
  OBVIOUS
<1>1. completed \in Seq(CompletionType) /\ pending \subseteq OpType /\ flight \subseteq OpType
  BY DEF TypeOK, CompletionType
<1>2. \A i \in DOMAIN completed : completed[i] \in CompletionType
  BY <1>1
<1>3. QED
  BY <1>1, <1>2 DEF Underway, CompletionType

-----------------------------------------------------------------------------
(* What the actions do to the operations under way *)

(* Submitting, or failing to, puts the operation under way.                *)
LEMMA SubmitUnderway ==
  ASSUME NEW op, Submitted(op) \/ SubmitFails(op), completed' = completed
  PROVE  Underway' = Underway \cup {op}
BY DEF Submitted, SubmitFails, Underway

(* It keeps the types, an entry being left for it.                         *)
LEMMA SubmitType ==
  ASSUME UartIInv, NEW op \in OpType, Submitted(op) \/ SubmitFails(op), EntryLeft
  PROVE  /\ pending' \subseteq OpType /\ Cardinality(pending') <= Entries
         /\ flight' \subseteq OpType /\ failures' \in 0 .. MaxSubmitFailures
         /\ IsFiniteSet(pending')
<1>1. /\ pending \subseteq OpType /\ flight \subseteq OpType /\ IsFiniteSet(pending)
      /\ failures \in 0 .. MaxSubmitFailures /\ Entries \in Nat \ {0}
  BY UartAssumption DEF UartIInv, TypeOK, NumbersInv
<1>2. CASE Submitted(op)
  <2>1. pending' = {} /\ IsFiniteSet({}) /\ Cardinality({}) = 0
    BY <1>2, FS_EmptySet DEF Submitted
  <2>2. QED
    BY <1>1, <1>2, <2>1 DEF Submitted
<1>3. CASE SubmitFails(op)
  <2>1. pending' = pending \cup {op}
    BY <1>3 DEF SubmitFails
  <2>2. IsFiniteSet(pending') /\ Cardinality(pending) \in Nat
    BY <1>1, <2>1, FS_AddElement, FS_CardinalityType
  <2>3. Cardinality(pending') = Cardinality(pending) \/ Cardinality(pending') = Cardinality(pending) + 1
    BY <1>1, <2>1, FS_AddElement
  <2>4. Cardinality(pending') <= Entries
    BY <1>1, <2>2, <2>3 DEF EntryLeft
  <2>5. failures' \in 0 .. MaxSubmitFailures
    BY <1>1, <1>3, UartAssumption DEF SubmitFails
  <2>6. QED
    BY <1>1, <1>3, <2>1, <2>2, <2>4, <2>5 DEF SubmitFails
<1>4. QED
  BY <1>2, <1>3

(* The next entry stays in the circle.                                     *)
LEMMA EntryType ==
  ASSUME nextEntry \in 0 .. Entries - 1
  PROVE  EntryAfter \in 0 .. Entries - 1
BY UartAssumption DEF EntryAfter

(* A slot that is taken is a free one of its device.                       *)
LEMMA FreeType == ASSUME NEW dev, NEW s \in FirstFree(dev) PROVE s \in Slots /\ ~slots[s].used
BY DEF FirstFree, FreeSlots

-----------------------------------------------------------------------------
LEMMA UartStart == Init => UartIInv
<1> SUFFICES ASSUME Init PROVE UartIInv
  OBVIOUS
<1> USE UartAssumption DEF Init
<1>1. IsFiniteSet(pending) /\ Cardinality(pending) = 0
  BY FS_EmptySet
<1>2. /\ slots \in [Slots -> [used : BOOLEAN, callback : 0 .. MaxOps]]
      /\ userData \in [0 .. Entries - 1 -> Slots \cup {Null}]
      /\ nextEntry \in 0 .. Entries - 1
  BY DEF NoOp
<1>3. completed \in Seq([op : OpType, data : BOOLEAN])
  <2>1. <<>> \in Seq([op : OpType, data : BOOLEAN])
    OBVIOUS
  <2>2. QED
    BY <2>1
<1>4. /\ ops \in 0 .. MaxOps /\ aborts \in 0 .. MaxAborts /\ failures \in 0 .. MaxSubmitFailures
      /\ Cardinality(pending) <= Entries
  BY <1>1
<1>5. TypeOK
  BY <1>1, <1>2, <1>3, <1>4 DEF TypeOK
<1>6. Underway = {}
  BY DEF Underway
<1>7. NumbersInv /\ NoSlotLeak
  BY <1>1, <1>6 DEF NumbersInv, NoSlotLeak
<1>8. QED
  BY <1>5, <1>7 DEF UartIInv

(* A read or write is numbered, takes a slot and names it, or frees it     *)
(* again when its submission fails.                                        *)
LEMMA StartStep == UartIInv /\ (\E dev \in Devices : Start(dev)) => UartIInv'
<1> SUFFICES ASSUME UartIInv, NEW dev \in Devices, Start(dev) PROVE UartIInv'
  OBVIOUS
<1> USE UartAssumption
<1>1. PICK s \in FirstFree(dev) :
        /\ userData' = [userData EXCEPT ![nextEntry] = s]
        /\ \/ /\ Submitted(Op(ops', 0, dev, s))
              /\ slots' = [slots EXCEPT ![s] = [used |-> TRUE, callback |-> ops']]
           \/ /\ SubmitFails(Op(ops', 0, dev, s))
              /\ slots' = [slots EXCEPT ![s] = [used |-> FALSE, callback |-> ops']]
  BY DEF Start
<1>2. /\ ops' = ops + 1 /\ ops < MaxOps /\ nextEntry' = EntryAfter /\ EntryLeft
      /\ UNCHANGED <<completed, aborts, calls, running, thread>>
  BY DEF Start
<1>3. s \in Slots /\ ~slots[s].used
  BY <1>1, FreeType
<1>4. ops' \in 0 .. MaxOps
  BY <1>2 DEF UartIInv, TypeOK
<1> DEFINE op == Op(ops', 0, dev, s)
<1>5. op \in OpType /\ op.id = ops' /\ op.data = s
  BY <1>3, <1>4 DEF Op, OpType
<1>6. Submitted(op) \/ SubmitFails(op)
  BY <1>1
<1> HIDE DEF op
<1>7. Underway' = Underway \cup {op}
  BY <1>2, <1>6, SubmitUnderway
<1>8. TypeOK'
  <2>1. slots' \in [Slots -> [used : BOOLEAN, callback : 0 .. MaxOps]]
    <3>1. \A u \in BOOLEAN : [used |-> u, callback |-> ops'] \in [used : BOOLEAN, callback : 0 .. MaxOps]
      BY <1>4
    <3>2. slots \in [Slots -> [used : BOOLEAN, callback : 0 .. MaxOps]]
      BY DEF UartIInv, TypeOK
    <3>3. QED
      BY <1>1, <1>3, <3>1, <3>2
  <2>2. userData' \in [0 .. Entries - 1 -> Slots \cup {Null}]
    BY <1>1, <1>3 DEF UartIInv, TypeOK
  <2>3. nextEntry' \in 0 .. Entries - 1
    BY <1>2, EntryType DEF UartIInv, TypeOK
  <2>4. /\ pending' \subseteq OpType /\ Cardinality(pending') <= Entries
        /\ flight' \subseteq OpType /\ failures' \in 0 .. MaxSubmitFailures
    BY <1>2, <1>5, <1>6, SubmitType
  <2>5. QED
    BY <1>2, <1>4, <2>1, <2>2, <2>3, <2>4 DEF UartIInv, TypeOK
<1>9. NumbersInv'
  <2>1. IsFiniteSet(pending')
    BY <1>2, <1>5, <1>6, SubmitType
  <2>2. \A o \in Underway : o.id <= ops'
    <3>1. \A o \in Underway : o.id \in Nat /\ o.id <= ops /\ ops \in Nat
      BY UnderwayType, SMTT(30) DEF UartIInv, NumbersInv, TypeOK, OpType
    <3>2. QED
      BY <1>2, <3>1
  <2>3. QED
    BY <1>2, <1>4, <1>5, <1>7, <2>1, <2>2 DEF UartIInv, NumbersInv
<1>10. NoSlotLeak'
  <2>1. \A t \in Slots : t # s => slots'[t] = slots[t]
    BY <1>1 DEF UartIInv, TypeOK
  <2>2. QED
    BY <1>5, <1>7, <2>1 DEF UartIInv, NoSlotLeak
<1>11. QED
  BY <1>8, <1>9, <1>10 DEF UartIInv

(* A refused one leaves its callback in a slot that stays free.            *)
LEMMA StartWithoutEntryStep ==
  UartIInv /\ (\E dev \in Devices : StartWithoutEntry(dev)) => UartIInv'
<1> SUFFICES ASSUME UartIInv, NEW dev \in Devices, StartWithoutEntry(dev) PROVE UartIInv'
  OBVIOUS
<1>1. PICK s \in FirstFree(dev) :
        slots' = [slots EXCEPT ![s] = [used |-> FALSE, callback |-> ops']]
  BY DEF StartWithoutEntry
<1>2. /\ ops' = ops + 1 /\ ops < MaxOps
      /\ UNCHANGED <<userData, nextEntry, pending, flight, completed, aborts, failures,
                     calls, running, thread>>
  BY DEF StartWithoutEntry
<1>3. s \in Slots
  BY FreeType
<1>4. ops' \in 0 .. MaxOps /\ ops \in Nat
  BY <1>2, UartAssumption DEF UartIInv, TypeOK
<1>5. slots' \in [Slots -> [used : BOOLEAN, callback : 0 .. MaxOps]]
  <2>1. [used |-> FALSE, callback |-> ops'] \in [used : BOOLEAN, callback : 0 .. MaxOps]
    BY <1>4
  <2>2. QED
    BY <1>1, <2>1 DEF UartIInv, TypeOK
<1>6. TypeOK'
  BY <1>2, <1>4, <1>5 DEF UartIInv, TypeOK
<1>7. Underway' = Underway
  BY <1>2 DEF Underway
<1>8. NumbersInv'
  <2>1. \A o \in Underway : o.id \in Nat /\ o.id <= ops
    BY UnderwayType DEF UartIInv, NumbersInv, OpType
  <2>2. \A o \in Underway : o.id <= ops'
    BY <1>2, <1>4, <2>1
  <2>3. QED
    BY <1>2, <1>7, <2>2 DEF UartIInv, NumbersInv
<1>9. \A t \in Slots : slots'[t].used => slots[t].used
  BY <1>1, <1>3 DEF UartIInv, TypeOK
<1>10. NoSlotLeak'
  BY <1>7, <1>9 DEF UartIInv, NoSlotLeak
<1>11. QED
  BY <1>6, <1>8, <1>10 DEF UartIInv

(* An abort and the wake-up of a cleanup name whatever slot their entry    *)
(* named, and take none.                                                   *)
LEMMA UnslottedStep ==
  ASSUME UartIInv, NEW op \in OpType, op.id = NoOp, Submitted(op) \/ SubmitFails(op), EntryLeft,
         nextEntry' = EntryAfter, aborts' \in 0 .. MaxAborts, running' \in BOOLEAN,
         UNCHANGED <<slots, userData, completed, ops, calls, thread>>
  PROVE  UartIInv'
<1>1. Underway' = Underway \cup {op}
  BY SubmitUnderway
<1>2. /\ pending' \subseteq OpType /\ Cardinality(pending') <= Entries
      /\ flight' \subseteq OpType /\ failures' \in 0 .. MaxSubmitFailures
      /\ IsFiniteSet(pending')
  BY SubmitType
<1>3. nextEntry' \in 0 .. Entries - 1
  BY EntryType DEF UartIInv, TypeOK
<1>4. TypeOK'
  BY <1>2, <1>3 DEF UartIInv, TypeOK
<1>5. NoOp <= ops
  BY UartAssumption DEF NoOp, UartIInv, TypeOK
<1>6. NumbersInv'
  BY <1>1, <1>2, <1>5 DEF UartIInv, NumbersInv
<1>7. NoSlotLeak'
  BY <1>1 DEF UartIInv, NoSlotLeak
<1>8. QED
  BY <1>4, <1>6, <1>7 DEF UartIInv

(* The user data an abort keeps is that of some slot, or none.             *)
LEMMA AbortStep == UartIInv /\ (\E dev \in Devices : Abort(dev)) => UartIInv'
<1> SUFFICES ASSUME UartIInv, NEW dev \in Devices, Abort(dev) PROVE UartIInv'
  OBVIOUS
<1> DEFINE op == Op(NoOp, aborts + 1, dev, userData[nextEntry])
<1>1. aborts' \in 0 .. MaxAborts /\ aborts' = aborts + 1 /\ running' \in BOOLEAN
  BY UartAssumption DEF Abort, UartIInv, TypeOK
<1>2. userData[nextEntry] \in Slots \cup {Null}
  BY DEF UartIInv, TypeOK
<1>3. op \in OpType /\ op.id = NoOp
  BY <1>1, <1>2, UartAssumption DEF Op, OpType, NoOp
<1>4. /\ Submitted(op) \/ SubmitFails(op)
      /\ EntryLeft /\ nextEntry' = EntryAfter
      /\ UNCHANGED <<slots, userData, completed, ops, calls, thread>>
  BY DEF Abort
<1>5. QED
  BY <1>1, <1>3, <1>4, UnslottedStep

LEMMA CleanupStep == UartIInv /\ Cleanup => UartIInv'
<1> SUFFICES ASSUME UartIInv, Cleanup PROVE UartIInv'
  OBVIOUS
<1> DEFINE op == Op(NoOp, 0, "none", userData[nextEntry])
<1>1. /\ aborts' \in 0 .. MaxAborts /\ running' \in BOOLEAN
      /\ UNCHANGED <<slots, userData, completed, ops, calls, thread>>
  BY DEF Cleanup, UartIInv, TypeOK
<1>2. userData[nextEntry] \in Slots \cup {Null}
  BY DEF UartIInv, TypeOK
<1>3. op \in OpType /\ op.id = NoOp
  BY <1>2, UartAssumption DEF Op, OpType, NoOp
<1>4. CASE EntryLeft /\ nextEntry' = EntryAfter /\ (Submitted(op) \/ SubmitFails(op))
  BY <1>1, <1>3, <1>4, UnslottedStep
<1>5. CASE UNCHANGED <<nextEntry, pending, flight, failures>>
  BY <1>1, <1>5 DEF UartIInv, TypeOK, NumbersInv, NoSlotLeak, Underway
<1>6. QED
  BY <1>4, <1>5 DEF Cleanup

(* The kernel moves operations from flight to their completions.           *)
LEMMA KernelStep ==
  UartIInv /\ (\E op \in flight : KernelCompletes(op) \/ KernelCancels(op)) => UartIInv'
<1> SUFFICES ASSUME UartIInv, NEW op \in flight, KernelCompletes(op) \/ KernelCancels(op)
             PROVE  UartIInv'
  OBVIOUS
<1>1. /\ completed \in Seq(CompletionType) /\ flight \subseteq OpType
      /\ UNCHANGED <<slots, userData, nextEntry, pending, ops, aborts, failures, calls, running, thread>>
  BY DEF UartIInv, TypeOK, CompletionType, KernelCompletes, KernelCancels, counters
<1>2. CASE \E data \in BOOLEAN :
             /\ completed' = Append(completed, Completion(op, data))
             /\ data => op.id # NoOp
             /\ flight' = flight \ {op}
  <2>1. PICK data \in BOOLEAN : /\ completed' = Append(completed, Completion(op, data))
                                /\ data => op.id # NoOp
                                /\ flight' = flight \ {op}
    BY <1>2
  <2>2. /\ Completion(op, data) \in CompletionType
        /\ Completion(op, data).op = op /\ Completion(op, data).data = data
    BY <1>1 DEF Completion, CompletionType
  <2>3. /\ completed' \in Seq(CompletionType) /\ Done(completed') = Done(completed) \cup {op}
        /\ \A i \in DOMAIN completed' :
             \/ i \in DOMAIN completed /\ completed'[i] = completed[i]
             \/ completed'[i] = Completion(op, data)
    BY <1>1, <2>1, <2>2, DoneAppend
  <2>4. Underway' = Underway
    BY <1>1, <2>1, <2>3 DEF Underway, Done
  <2>5. TypeOK'
    BY <1>1, <2>1, <2>3 DEF UartIInv, TypeOK, CompletionType
  <2>6. NumbersInv'
    BY <1>1, <2>1, <2>2, <2>3, <2>4 DEF UartIInv, NumbersInv
  <2>7. QED
    BY <1>1, <2>4, <2>5, <2>6 DEF UartIInv, NoSlotLeak
<1>3. CASE \E o \in flight :
             /\ completed' = completed \o <<Completion(o, FALSE), Completion(op, FALSE)>>
             /\ flight' = flight \ {o, op}
  <2>1. PICK o \in flight :
          /\ completed' = completed \o <<Completion(o, FALSE), Completion(op, FALSE)>>
          /\ flight' = flight \ {o, op}
    BY <1>3
  <2> DEFINE c1 == Completion(o, FALSE)
             c2 == Completion(op, FALSE)
             one == Append(completed, c1)
  <2>2. /\ c1 \in CompletionType /\ c1.op = o /\ ~c1.data
        /\ c2 \in CompletionType /\ c2.op = op /\ ~c2.data
    BY <1>1, <2>1 DEF Completion, CompletionType
  <2>3. completed' = completed \o <<c1, c2>>
    BY <2>1
  <2> HIDE DEF c1, c2
  <2>4. completed' = Append(one, c2)
    BY <1>1, <2>2, <2>3, AppendTwo
  <2>5. /\ one \in Seq(CompletionType) /\ Done(one) = Done(completed) \cup {o}
        /\ \A i \in DOMAIN one : (i \in DOMAIN completed /\ one[i] = completed[i]) \/ one[i] = c1
    BY <1>1, <2>2, DoneAppend
  <2> HIDE DEF one
  <2>6. /\ Append(one, c2) \in Seq(CompletionType)
         /\ Done(Append(one, c2)) = Done(one) \cup {c2.op}
         /\ \A i \in DOMAIN Append(one, c2) :
              (i \in DOMAIN one /\ Append(one, c2)[i] = one[i]) \/ Append(one, c2)[i] = c2
    <3>1. /\ Append(one, c2) \in Seq(CompletionType)
          /\ DOMAIN Append(one, c2) = DOMAIN one \cup {Len(one) + 1}
          /\ \A i \in DOMAIN one : i # Len(one) + 1 /\ Append(one, c2)[i] = one[i]
          /\ Append(one, c2)[Len(one) + 1] = c2
          /\ Done(Append(one, c2)) = Done(one) \cup {c2.op}
      BY <2>2, <2>5, DoneAppend
    <3>2. QED
      BY <3>1
  <2>7. /\ completed' \in Seq(CompletionType) /\ Done(completed') = Done(one) \cup {op}
         /\ \A i \in DOMAIN completed' : (i \in DOMAIN one /\ completed'[i] = one[i]) \/ completed'[i] = c2
    BY <2>2, <2>4, <2>6
  <2>8. Underway' = Underway
    BY <1>1, <2>1, <2>5, <2>7 DEF Underway, Done
  <2>9. TypeOK'
    BY <1>1, <2>1, <2>7 DEF UartIInv, TypeOK, CompletionType
  <2>10. \A i \in DOMAIN completed' : completed'[i].data => completed'[i].op.id # NoOp
    BY <2>2, <2>5, <2>7 DEF UartIInv, NumbersInv
  <2>11. QED
    BY <1>1, <2>8, <2>9, <2>10 DEF UartIInv, NumbersInv, NoSlotLeak
<1>4. QED
  BY <1>2, <1>3 DEF KernelCompletes, KernelCancels

(* A completion frees the slot its user data names and no other.           *)
LEMMA HandleStep == UartIInv /\ HandleCompletion => UartIInv'
<1> SUFFICES ASSUME UartIInv, HandleCompletion PROVE UartIInv'
  OBVIOUS
<1> DEFINE c == Head(completed)
<1>1. /\ completed # <<>> /\ completed' = Tail(completed) /\ thread' = "check"
      /\ calls' = IF c.op.data # Null /\ c.data
                  THEN calls \cup {[op |-> c.op.id, callback |-> slots[c.op.data].callback]}
                  ELSE calls
      /\ slots' = IF c.op.data # Null
                  THEN [slots EXCEPT ![c.op.data].used = FALSE]
                  ELSE slots
      /\ UNCHANGED <<userData, nextEntry, pending, flight, ops, aborts, failures, running>>
  BY DEF HandleCompletion, counters
<1>2. completed \in Seq(CompletionType)
  BY DEF UartIInv, TypeOK, CompletionType
<1>3. /\ c \in CompletionType /\ 1 \in DOMAIN completed /\ completed[1] = c
      /\ completed' \in Seq(CompletionType)
      /\ \A i \in DOMAIN completed' : i + 1 \in DOMAIN completed /\ completed'[i] = completed[i + 1]
      /\ Done(completed) = Done(completed') \cup {c.op}
  BY <1>1, <1>2, DoneTail
<1> HIDE DEF c
<1>4. /\ c.op.id \in 0 .. MaxOps /\ c.op.data \in Slots \cup {Null} /\ c.data \in BOOLEAN
      /\ c.data => c.op.id # NoOp
  BY <1>3 DEF CompletionType, OpType, UartIInv, NumbersInv
<1>5. Underway = Underway' \cup {c.op}
  BY <1>1, <1>3 DEF Underway, Done
<1>6. TypeOK'
  <2>1. slots' \in [Slots -> [used : BOOLEAN, callback : 0 .. MaxOps]]
    BY <1>1, <1>4 DEF UartIInv, TypeOK
  <2>2. calls' \subseteq [op : 1 .. MaxOps, callback : 0 .. MaxOps]
    <3>1. CASE c.op.data # Null /\ c.data
      <4>1. slots[c.op.data].callback \in 0 .. MaxOps /\ c.op.id \in 1 .. MaxOps
        BY <1>4, <3>1, UartAssumption, SMTT(30) DEF UartIInv, TypeOK, NoOp
      <4>2. QED
        BY <1>1, <3>1, <4>1 DEF UartIInv, TypeOK
    <3>2. CASE ~(c.op.data # Null /\ c.data)
      BY <1>1, <3>2 DEF UartIInv, TypeOK
    <3>3. QED
      BY <3>1, <3>2
  <2>3. QED
    BY <1>1, <1>3, <2>1, <2>2 DEF UartIInv, TypeOK, CompletionType
<1>7. NumbersInv'
  BY <1>1, <1>3, <1>5 DEF UartIInv, NumbersInv
<1>8. NoSlotLeak'
  <2>1. SUFFICES ASSUME NEW s \in Slots, slots'[s].used
                 PROVE  \E op \in Underway' : op.data = s
    BY DEF NoSlotLeak
  <2>2. slots[s].used /\ s # c.op.data
    <3>1. slots \in [Slots -> [used : BOOLEAN, callback : 0 .. MaxOps]]
      BY DEF UartIInv, TypeOK
    <3>2. CASE c.op.data = Null
      <4>1. slots' = slots
        BY <1>1, <3>2
      <4>2. s # Null
        BY DEF Slots, Null
      <4>3. QED
        BY <2>1, <3>2, <4>1, <4>2
    <3>3. CASE c.op.data # Null
      <4>1. slots' = [slots EXCEPT ![c.op.data].used = FALSE] /\ c.op.data \in Slots
        BY <1>1, <1>4, <3>3
      <4>2. s # c.op.data
        BY <2>1, <3>1, <4>1
      <4>3. QED
        BY <2>1, <3>1, <4>1, <4>2
    <3>4. QED
      BY <3>2, <3>3
  <2>3. PICK op \in Underway : op.data = s
    BY <2>2 DEF UartIInv, NoSlotLeak
  <2>4. QED
    BY <1>5, <2>2, <2>3
<1>9. QED
  BY <1>6, <1>7, <1>8 DEF UartIInv

LEMMA UartStep == UartIInv /\ [Next]_vars => UartIInv'
<1> SUFFICES ASSUME UartIInv, [Next]_vars PROVE UartIInv'
  OBVIOUS
<1>1. CASE ThreadChecks
  BY <1>1 DEF ThreadChecks, counters, UartIInv, TypeOK, NumbersInv, NoSlotLeak, Underway
<1>2. CASE UNCHANGED vars
  BY <1>2 DEF vars, UartIInv, TypeOK, NumbersInv, NoSlotLeak, Underway
<1>3. QED
  BY <1>1, <1>2, StartStep, StartWithoutEntryStep, AbortStep, CleanupStep, KernelStep, HandleStep
  DEF Next

(* No slot is lost: while one is taken, an operation that names it is with *)
(* the driver, the kernel or the completion thread, and its completion     *)
(* frees the slot (hal_uart.c: allocate_slot, the completion thread, and   *)
(* the paths on which a submission fails), whatever aborts and stale user  *)
(* data do.                                                                *)
THEOREM SlotsComeBack == Spec => []Inv
<1>1. UartIInv => Inv
  BY DEF UartIInv, Inv
<1>2. QED
  BY <1>1, UartStart, UartStep, PTL DEF Spec

-----------------------------------------------------------------------------
(* Without aborts and failing submissions *)

(* An operation is in one place only.                                      *)
ApartIn(f, q) ==
  /\ \A a, b \in f : a.id = b.id /\ a.id # NoOp => a = b
  /\ \A a \in f, i \in DOMAIN q : a.id # NoOp => a.id # q[i].op.id
  /\ \A i, j \in DOMAIN q : q[i].op.id = q[j].op.id /\ q[i].op.id # NoOp => i = j

Apart == ApartIn(flight, completed)

(* A read or write under way has its callback in its slot; the slot is     *)
(* taken, until a wake-up with stale user data has been sent.              *)
InItsSlot(op) == op.data \in Slots /\ slots[op.data].callback = op.id

Unaborted ==
  /\ pending = {}
  /\ \A op \in Underway : op.id # NoOp => InItsSlot(op)
  /\ running => \A op \in Underway : op.id # NoOp /\ slots[op.data].used
  /\ Apart
  /\ CallbackIsOwn

OwnInv == aborts = 0 /\ failures = 0 => Unaborted

OwnIInv == UartIInv /\ OwnInv

LEMMA OwnStart == Init => OwnIInv
<1> SUFFICES ASSUME Init PROVE OwnIInv
  OBVIOUS
<1>1. UartIInv
  BY UartStart
<1>2. Underway = {}
  BY DEF Init, Underway
<1>3. Unaborted
  BY <1>2 DEF Init, Unaborted, Apart, ApartIn, CallbackIsOwn
<1>4. QED
  BY <1>1, <1>3 DEF OwnIInv, OwnInv

(* A new operation has a new number and a slot nobody else uses.           *)
LEMMA OwnStartStep ==
  ASSUME OwnIInv, NEW dev \in Devices, Start(dev), aborts' = 0, failures' = 0
  PROVE  Unaborted'
<1>1. /\ running /\ running' = running /\ ops' = ops + 1 /\ ops \in Nat
      /\ UNCHANGED <<completed, aborts, calls>>
  BY DEF Start, OwnIInv, UartIInv, TypeOK
<1>2. PICK s \in FirstFree(dev) :
        /\ userData' = [userData EXCEPT ![nextEntry] = s]
        /\ \/ /\ Submitted(Op(ops', 0, dev, s))
              /\ slots' = [slots EXCEPT ![s] = [used |-> TRUE, callback |-> ops']]
           \/ /\ SubmitFails(Op(ops', 0, dev, s))
              /\ slots' = [slots EXCEPT ![s] = [used |-> FALSE, callback |-> ops']]
  BY DEF Start
<1> DEFINE op == Op(ops', 0, dev, s)
<1>3. ~SubmitFails(op)
  BY DEF SubmitFails, OwnIInv, UartIInv, TypeOK
<1>4. /\ Submitted(op) /\ failures' = failures
      /\ slots' = [slots EXCEPT ![s] = [used |-> TRUE, callback |-> ops']]
  BY <1>2, <1>3 DEF Submitted
<1>5. s \in Slots /\ ~slots[s].used /\ op.id = ops' /\ op.data = s
  BY FreeType DEF Op
<1> HIDE DEF op
<1>6. Unaborted
  BY <1>1, <1>4 DEF OwnIInv, OwnInv
<1>7. /\ pending' = {} /\ flight' = flight \cup {op}
      /\ Underway' = Underway \cup {op}
  BY <1>1, <1>4, <1>6, SubmitUnderway DEF Submitted, Unaborted
<1>8. /\ \A t \in Slots : t # s => slots'[t] = slots[t]
      /\ slots'[s].used /\ slots'[s].callback = ops'
  BY <1>4, <1>5 DEF OwnIInv, UartIInv, TypeOK
<1>9. \A o \in Underway : /\ o.id # ops' /\ o.id # NoOp /\ o.data # s
                          /\ InItsSlot(o) /\ slots[o.data].used
  <2>1. \A o \in Underway : o.id \in Nat /\ o.id <= ops
    BY UnderwayType DEF OwnIInv, UartIInv, NumbersInv, OpType
  <2>2. QED
    BY <1>1, <1>5, <1>6, <2>1 DEF Unaborted
<1>10. ops' # NoOp
  BY <1>1 DEF NoOp
<1>11. \A o \in Underway' : o.id # NoOp /\ InItsSlot(o)' /\ slots'[o.data].used
  BY <1>5, <1>7, <1>8, <1>9, <1>10 DEF InItsSlot
<1>12. Apart'
  <2>1. \A o \in flight : o.id # ops'
    BY <1>9 DEF Underway
  <2>2. \A i \in DOMAIN completed : completed[i].op.id # ops'
    BY <1>9 DEF Underway
  <2>3. Apart
    BY <1>6 DEF Unaborted
  <2>4. completed' = completed
    BY <1>1
  <2>5. QED
    BY <1>5, <1>7, <2>1, <2>2, <2>3, <2>4 DEF Apart, ApartIn
<1>13. CallbackIsOwn'
  BY <1>1, <1>6 DEF Unaborted, CallbackIsOwn
<1>14. QED
  BY <1>7, <1>11, <1>12, <1>13 DEF Unaborted

(* Only the wake-up of a cleanup bears no number.                          *)
LEMMA OwnCleanupStep ==
  ASSUME OwnIInv, Cleanup, aborts' = 0, failures' = 0
  PROVE  Unaborted'
<1>1. ~running' /\ UNCHANGED <<slots, completed, aborts, calls>>
  BY DEF Cleanup
<1>2. PICK nop : /\ nop.id = NoOp
                 /\ \/ Submitted(nop) \/ SubmitFails(nop)
                    \/ UNCHANGED <<pending, flight, failures>>
  <2>1. Op(NoOp, 0, "none", userData[nextEntry]).id = NoOp
    BY DEF Op
  <2>2. QED
    BY <2>1 DEF Cleanup
<1>3. ~SubmitFails(nop)
  BY DEF SubmitFails, OwnIInv, UartIInv, TypeOK
<1>4. failures = 0
  BY <1>2, <1>3 DEF Submitted
<1>5. Unaborted
  BY <1>1, <1>4 DEF OwnIInv, OwnInv
<1>6. pending' = {} /\ flight' \subseteq flight \cup {nop} /\ Underway' \subseteq Underway \cup {nop}
  BY <1>1, <1>2, <1>3, <1>5 DEF Submitted, Unaborted, Underway
<1>7. \A o \in Underway' : o.id # NoOp => InItsSlot(o)'
  BY <1>1, <1>2, <1>5, <1>6 DEF Unaborted, InItsSlot
<1>8. Apart'
  BY <1>1, <1>2, <1>5, <1>6 DEF Unaborted, Apart, ApartIn
<1>9. CallbackIsOwn'
  BY <1>1, <1>5 DEF Unaborted, CallbackIsOwn
<1>10. QED
  BY <1>1, <1>6, <1>7, <1>8, <1>9 DEF Unaborted

(* An operation that moves from flight to the completions stays apart.     *)
LEMMA ApartMove ==
  ASSUME NEW f, NEW q \in Seq(CompletionType), ApartIn(f, q),
         NEW c \in CompletionType, c.op \in f
  PROVE  ApartIn(f \ {c.op}, Append(q, c))
<1>1. /\ DOMAIN Append(q, c) = DOMAIN q \cup {Len(q) + 1}
      /\ \A i \in DOMAIN q : i # Len(q) + 1 /\ Append(q, c)[i] = q[i]
      /\ Append(q, c)[Len(q) + 1] = c
  BY DoneAppend
<1> DEFINE r == Append(q, c)
           k == Len(q) + 1
<1>2. DOMAIN r = DOMAIN q \cup {k} /\ r[k] = c /\ \A i \in DOMAIN q : i # k /\ r[i] = q[i]
  BY <1>1
<1> HIDE DEF r, k
<1>3. ApartIn(f \ {c.op}, r)
  BY <1>2 DEF ApartIn
<1>4. QED
  BY <1>3 DEF r

LEMMA OwnKernelStep ==
  ASSUME OwnIInv, NEW op \in flight, KernelCompletes(op) \/ KernelCancels(op),
         aborts' = 0, failures' = 0
  PROVE  Unaborted'
<1>1. /\ completed \in Seq(CompletionType) /\ flight \subseteq OpType
      /\ UNCHANGED <<slots, pending, aborts, failures, calls, running>>
  BY DEF OwnIInv, UartIInv, TypeOK, CompletionType, KernelCompletes, KernelCancels, counters
<1>2. Unaborted
  BY <1>1 DEF OwnIInv, OwnInv
<1>3. \A o \in flight, data \in BOOLEAN :
        /\ Completion(o, data) \in CompletionType /\ Completion(o, data).op = o
  BY <1>1 DEF Completion, CompletionType
<1>4. Apart' /\ Underway' \subseteq Underway
  <2>1. CASE \E data \in BOOLEAN : /\ completed' = Append(completed, Completion(op, data))
                                   /\ flight' = flight \ {op}
    <3>1. PICK data \in BOOLEAN : /\ completed' = Append(completed, Completion(op, data))
                                  /\ flight' = flight \ {op}
      BY <2>1
    <3> DEFINE c == Completion(op, data)
    <3>2. c \in CompletionType /\ c.op = op /\ completed' = Append(completed, c)
      BY <1>3, <3>1
    <3> HIDE DEF c
    <3>3. ApartIn(flight \ {c.op}, Append(completed, c))
      BY <1>1, <1>2, <3>2, ApartMove DEF Unaborted, Apart
    <3>4. Done(completed') = Done(completed) \cup {op}
      BY <1>1, <3>2, DoneAppend
    <3>5. QED
      BY <1>1, <3>1, <3>2, <3>3, <3>4 DEF Apart, Underway, Done
  <2>2. CASE \E o \in flight :
               /\ o # op
               /\ completed' = completed \o <<Completion(o, FALSE), Completion(op, FALSE)>>
               /\ flight' = flight \ {o, op}
    <3>1. PICK o \in flight :
            /\ o # op
            /\ completed' = completed \o <<Completion(o, FALSE), Completion(op, FALSE)>>
            /\ flight' = flight \ {o, op}
      BY <2>2
    <3> DEFINE c1 == Completion(o, FALSE)
               c2 == Completion(op, FALSE)
               one == Append(completed, c1)
    <3>2. /\ c1 \in CompletionType /\ c1.op = o /\ c2 \in CompletionType /\ c2.op = op
          /\ completed' = completed \o <<c1, c2>>
      BY <1>3, <3>1
    <3> HIDE DEF c1, c2
    <3>3. completed' = Append(one, c2)
      BY <1>1, <3>2, AppendTwo
    <3>4. one \in Seq(CompletionType) /\ Done(one) = Done(completed) \cup {o}
      BY <1>1, <3>2, DoneAppend
    <3>5. ApartIn(flight \ {c1.op}, one)
      BY <1>1, <1>2, <3>2, ApartMove DEF Unaborted, Apart
    <3> HIDE DEF one
    <3>6. ApartIn((flight \ {c1.op}) \ {c2.op}, Append(one, c2))
      <4> DEFINE f == flight \ {c1.op}
      <4>1. c2.op \in f /\ ApartIn(f, one)
        BY <3>1, <3>2, <3>5
      <4> HIDE DEF f
      <4>2. ApartIn(f \ {c2.op}, Append(one, c2))
        BY <3>2, <3>4, <4>1, ApartMove
      <4>3. QED
        BY <4>2 DEF f
    <3>7. Done(Append(one, c2)) = Done(one) \cup {c2.op}
      BY <3>2, <3>4, DoneAppend
    <3>8. (flight \ {c1.op}) \ {c2.op} = flight'
      BY <3>1, <3>2
    <3>9. Apart'
      BY <3>3, <3>6, <3>8 DEF Apart
    <3>10. Done(completed') = Done(completed) \cup {o, op}
      BY <3>2, <3>3, <3>4, <3>7
    <3>11. QED
      BY <1>1, <3>1, <3>9, <3>10 DEF Underway, Done
  <2>3. QED
    BY <2>1, <2>2 DEF KernelCompletes, KernelCancels
<1>5. QED
  BY <1>1, <1>2, <1>4 DEF Unaborted, InItsSlot, CallbackIsOwn

(* A completion calls the callback its slot holds, and frees no slot of    *)
(* another operation as long as no wake-up is under way.                   *)
LEMMA OwnHandleStep ==
  ASSUME OwnIInv, HandleCompletion, aborts' = 0, failures' = 0
  PROVE  Unaborted'
<1> DEFINE c == Head(completed)
<1>1. /\ completed # <<>> /\ completed' = Tail(completed)
      /\ calls' = IF c.op.data # Null /\ c.data
                  THEN calls \cup {[op |-> c.op.id, callback |-> slots[c.op.data].callback]}
                  ELSE calls
      /\ slots' = IF c.op.data # Null
                  THEN [slots EXCEPT ![c.op.data].used = FALSE]
                  ELSE slots
      /\ UNCHANGED <<pending, flight, aborts, failures, running>>
  BY DEF HandleCompletion, counters
<1>2. /\ completed \in Seq(CompletionType) /\ Unaborted
      /\ slots \in [Slots -> [used : BOOLEAN, callback : 0 .. MaxOps]]
  BY <1>1 DEF OwnIInv, OwnInv, UartIInv, TypeOK, CompletionType
<1>3. /\ c \in CompletionType /\ 1 \in DOMAIN completed /\ completed[1] = c
      /\ \A i \in DOMAIN completed' :
           i + 1 \in DOMAIN completed /\ i + 1 # 1 /\ completed'[i] = completed[i + 1]
      /\ \A i, j \in DOMAIN completed' : i + 1 = j + 1 => i = j
      /\ Done(completed) = Done(completed') \cup {c.op}
  BY <1>1, <1>2, DoneTail
<1> HIDE DEF c
<1>4. c.op.data \in Slots \cup {Null} /\ (c.data => c.op.id # NoOp) /\ c.op \in Underway
  BY <1>3 DEF CompletionType, OpType, OwnIInv, UartIInv, NumbersInv, Underway
<1>5. \A s \in Slots : /\ slots'[s].callback = slots[s].callback
                       /\ s # c.op.data => slots'[s].used = slots[s].used
  BY <1>1, <1>2, <1>4
<1>6. Underway' \subseteq Underway
  BY <1>1, <1>3 DEF Underway, Done
<1>7. Apart'
  BY <1>1, <1>2, <1>3 DEF Unaborted, Apart, ApartIn
<1>8. \A o \in Underway' : o.id # NoOp => o.id # c.op.id
  <2>1. \A o \in flight : o.id # NoOp => o.id # c.op.id
    BY <1>2, <1>3 DEF Unaborted, Apart, ApartIn
  <2>2. \A i \in DOMAIN completed' : completed'[i].op.id # NoOp => completed'[i].op.id # c.op.id
    BY <1>2, <1>3 DEF Unaborted, Apart, ApartIn
  <2>3. QED
    BY <1>1, <1>2, <2>1, <2>2 DEF Underway, Unaborted
<1>9. \A o \in Underway' : o.id # NoOp => InItsSlot(o)'
  BY <1>2, <1>5, <1>6 DEF Unaborted, InItsSlot
<1>10. ASSUME running', NEW o \in Underway' PROVE o.id # NoOp /\ slots'[o.data].used
  <2>1. /\ o.id # NoOp /\ InItsSlot(o) /\ slots[o.data].used
        /\ c.op.id # NoOp /\ InItsSlot(c.op)
    BY <1>1, <1>2, <1>4, <1>6, <1>10 DEF Unaborted
  <2>2. o.data # c.op.data
    BY <1>8, <2>1 DEF InItsSlot
  <2>3. QED
    BY <1>5, <2>1, <2>2 DEF InItsSlot
<1>11. CallbackIsOwn'
  <2>1. CASE c.op.data # Null /\ c.data
    <3>1. InItsSlot(c.op)
      BY <1>2, <1>4, <2>1 DEF Unaborted
    <3>2. QED
      BY <1>1, <1>2, <2>1, <3>1 DEF Unaborted, CallbackIsOwn, InItsSlot
  <2>2. CASE ~(c.op.data # Null /\ c.data)
    BY <1>1, <1>2, <2>2 DEF Unaborted, CallbackIsOwn
  <2>3. QED
    BY <2>1, <2>2
<1>12. QED
  BY <1>1, <1>2, <1>7, <1>9, <1>10, <1>11 DEF Unaborted

LEMMA OwnStep == OwnIInv /\ [Next]_vars => OwnIInv'
<1> SUFFICES ASSUME OwnIInv, [Next]_vars PROVE OwnIInv'
  OBVIOUS
<1>1. UartIInv'
  BY UartStep DEF OwnIInv
<1>2. SUFFICES ASSUME aborts' = 0, failures' = 0 PROVE Unaborted'
  BY <1>1 DEF OwnIInv, OwnInv
<1>3. CASE ThreadChecks \/ UNCHANGED vars
  <2>1. UNCHANGED <<slots, pending, flight, completed, aborts, failures, calls, running>>
    BY <1>3 DEF ThreadChecks, counters, vars
  <2>2. Unaborted
    BY <1>2, <2>1 DEF OwnIInv, OwnInv
  <2>3. QED
    BY <2>1, <2>2 DEF Unaborted, Underway, InItsSlot, Apart, CallbackIsOwn
<1>4. ASSUME NEW dev \in Devices PROVE ~Abort(dev)
  BY <1>2 DEF Abort, OwnIInv, UartIInv, TypeOK
<1>5. ASSUME NEW dev \in Devices PROVE ~StartWithoutEntry(dev)
  <2> SUFFICES ASSUME StartWithoutEntry(dev) PROVE FALSE
    OBVIOUS
  <2>1. pending = {} /\ ~EntryLeft
    BY <1>2 DEF StartWithoutEntry, OwnIInv, OwnInv, Unaborted
  <2>2. Cardinality(pending) = 0
    BY <2>1, FS_EmptySet
  <2>3. QED
    BY <2>1, <2>2, UartAssumption DEF EntryLeft
<1>6. QED
  BY <1>2, <1>3, <1>4, <1>5, OwnStartStep, OwnCleanupStep, OwnKernelStep, OwnHandleStep DEF Next

(* Until something is aborted or cannot be submitted, every callback is    *)
(* called for the operation it was passed with (hal_uart.c: allocate_slot, *)
(* the user data of the entries and the completion thread), on every       *)
(* device, in whatever order the kernel completes.                         *)
THEOREM CallbacksAreOwn == Spec => []UnabortedCallbackIsOwn
<1>1. OwnIInv => UnabortedCallbackIsOwn
  BY DEF OwnIInv, OwnInv, Unaborted, UnabortedCallbackIsOwn
<1>2. QED
  BY <1>1, OwnStart, OwnStep, PTL DEF Spec
=============================================================================
