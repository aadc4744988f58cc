------------------------------ MODULE HalUart ------------------------------
(***************************************************************************)
(* The UART driver, hal/uart/hal_uart.c.  Reads, writes and aborts of all  *)
(* devices go through one io_uring: a caller takes a slot of its device,   *)
(* stores its callback there, fills the next submission entry, whose user  *)
(* data is the slot, and submits; the kernel runs the operations, and one  *)
(* completion thread calls the callbacks and frees the slots.  Everything  *)
(* a caller or the completion thread does with slots and entries is under  *)
(* uart_mutex and is one step here.                                        *)
(*                                                                         *)
(* Submission entries are used in a circle and liburing leaves their user  *)
(* data alone, so an abort, which sets none, keeps that of the entry's     *)
(* last use; an entry whose submission failed goes out with the next one.  *)
(***************************************************************************)
EXTENDS Naturals, Sequences, FiniteSets

CONSTANTS
  Devices,            \* the UART devices
  SlotsPerDevice,     \* eUART_MAX_QUEUED_OPERATIONS
  Entries,            \* entries of the submission queue
  MaxOps,             \* bound: reads and writes started
  MaxAborts,          \* bound: aborts
  MaxSubmitFailures   \* bound: failing io_uring_submit calls

ASSUME UartAssumption ==
  /\ IsFiniteSet(Devices)
  /\ {SlotsPerDevice, Entries} \subseteq Nat \ {0}
  /\ {MaxOps, MaxAborts, MaxSubmitFailures} \subseteq Nat

VARIABLES
  slots,       \* per slot: is it used, and whose callback it holds
  userData,    \* per submission entry: the slot its user data names, or Null
  nextEntry,   \* the entry io_uring_get_sqe gives next
  pending,     \* operations filled in and not submitted
  flight,      \* operations the kernel has
  completed,   \* completions the kernel has posted, oldest first
  ops,         \* reads and writes started so far; they are numbered
  aborts,      \* aborts so far
  failures,    \* failed submissions so far
  calls,       \* callbacks called: for which operation, and whose it was
  running,     \* uart_running
  thread       \* the completion thread

vars == <<slots, userData, nextEntry, pending, flight, completed, ops, aborts,
          failures, calls, running, thread>>
counters == <<ops, aborts, failures>>

Slots == Devices \X (1 .. SlotsPerDevice)
Null  == <<>>
NoOp  == 0         \* names no operation: an abort, or an unset callback

(* An operation: its number if it is a read or write, which abort it is if *)
(* it is one, its device, and the slot its user data names.                *)
Op(id, abort, dev, data) == [id |-> id, abort |-> abort, dev |-> dev, data |-> data]

Init ==
  /\ slots = [s \in Slots |-> [used |-> FALSE, callback |-> NoOp]]
  /\ userData = [e \in 0 .. Entries - 1 |-> Null]
  /\ nextEntry = 0
  /\ pending = {}
  /\ flight = {}
  /\ completed = <<>>
  /\ ops = 0
  /\ aborts = 0
  /\ failures = 0
  /\ calls = {}
  /\ running = TRUE
  /\ thread = "check"

-----------------------------------------------------------------------------
(* The callers *)

FreeSlots(dev) == {s \in Slots : s[1] = dev /\ ~slots[s].used}

(* The slot allocate_slot takes: the first free one, if there is any.      *)
FirstFree(dev) == {s \in FreeSlots(dev) : \A t \in FreeSlots(dev) : s[2] <= t[2]}

EntryAfter == (nextEntry + 1) % Entries

(* io_uring_get_sqe fails only when every entry waits to be submitted.     *)
EntryLeft == Cardinality(pending) < Entries

Submitted(op) ==
  /\ flight' = flight \cup pending \cup {op}
  /\ pending' = {}
  /\ UNCHANGED failures

SubmitFails(op) ==
  /\ failures < MaxSubmitFailures
  /\ failures' = failures + 1
  /\ pending' = pending \cup {op}
  /\ UNCHANGED flight

(* Mutant: the slot found is not marked as taken.                          *)
StartUnmarked(dev) ==
  /\ running
  /\ ops < MaxOps
  /\ EntryLeft
  /\ ops' = ops + 1
  /\ nextEntry' = EntryAfter
  /\ \E s \in FirstFree(dev) :
       /\ userData' = [userData EXCEPT ![nextEntry] = s]
       /\ slots' = [slots EXCEPT ![s].callback = ops']
       /\ Submitted(Op(ops', 0, dev, s))
  /\ UNCHANGED <<completed, aborts, calls, running, thread>>

(* hal_uart_read and hal_uart_write; refused without a slot.               *)
Start(dev) ==
  /\ running
  /\ ops < MaxOps
  /\ EntryLeft
  /\ ops' = ops + 1
  /\ nextEntry' = EntryAfter
  /\ \E s \in FirstFree(dev) :
       /\ userData' = [userData EXCEPT ![nextEntry] = s]
       /\ \/ /\ Submitted(Op(ops', 0, dev, s))
             /\ slots' = [slots EXCEPT ![s] = [used |-> TRUE, callback |-> ops']]
          \/ /\ SubmitFails(Op(ops', 0, dev, s))
             /\ slots' = [slots EXCEPT ![s] = [used |-> FALSE, callback |-> ops']]
  /\ UNCHANGED <<completed, aborts, calls, running, thread>>

(* Without an entry they are refused and the slot is free again, but the   *)
(* callback is stored in it, where stale user data may still find it.      *)
StartWithoutEntry(dev) ==
  /\ running
  /\ ops < MaxOps
  /\ ~EntryLeft
  /\ ops' = ops + 1
  /\ \E s \in FirstFree(dev) :
       slots' = [slots EXCEPT ![s] = [used |-> FALSE, callback |-> ops']]
  /\ UNCHANGED <<userData, nextEntry, pending, flight, completed, aborts, failures,
                 calls, running, thread>>

(* hal_uart_abort: the entry keeps the user data it had.                   *)
Abort(dev) ==
  LET op == Op(NoOp, aborts + 1, dev, userData[nextEntry])
  IN  /\ running
      /\ aborts < MaxAborts
      /\ EntryLeft
      /\ aborts' = aborts + 1
      /\ nextEntry' = EntryAfter
      /\ Submitted(op) \/ SubmitFails(op)
      /\ UNCHANGED <<slots, userData, completed, ops, calls, running, thread>>

-----------------------------------------------------------------------------
(* The kernel *)

Completion(op, data) == [op |-> op, data |-> data]

(* A read or write ends, with data transferred (res > 0) or not.           *)
KernelCompletes(op) ==
  /\ op \in flight
  /\ op.id # NoOp
  /\ flight' = flight \ {op}
  /\ \E data \in BOOLEAN : completed' = Append(completed, Completion(op, data))
  /\ UNCHANGED <<slots, userData, nextEntry, pending, counters, calls, running, thread>>

(* A cancellation ends; it has ended one operation of the device early,    *)
(* or found none it could.                                                 *)
KernelCancels(cancel) ==
  /\ cancel \in flight
  /\ cancel.id = NoOp
  /\ \/ /\ completed' = Append(completed, Completion(cancel, FALSE))
        /\ flight' = flight \ {cancel}
     \/ \E op \in flight :
          /\ op.id # NoOp
          /\ op.dev = cancel.dev
          /\ completed' = completed \o
               <<Completion(op, FALSE), Completion(cancel, FALSE)>>
          /\ flight' = flight \ {op, cancel}
  /\ UNCHANGED <<slots, userData, nextEntry, pending, counters, calls, running, thread>>

-----------------------------------------------------------------------------
(* The completion thread.  It tests uart_running without the mutex, waits  *)
(* for a completion, and handles it under the mutex.                       *)

ThreadChecks ==
  /\ thread = "check"
  /\ thread' = IF running THEN "wait" ELSE "ended"
  /\ UNCHANGED <<slots, userData, nextEntry, pending, flight, completed, counters,
                 calls, running>>

(* Mutant: the slot is freed only when the callback is called.             *)
FreedIfCalled ==
  /\ thread = "wait"
  /\ completed # <<>>
  /\ LET c == Head(completed) IN
       /\ calls' = IF c.op.data # Null /\ c.data
                   THEN calls \cup {[op |-> c.op.id, callback |-> slots[c.op.data].callback]}
                   ELSE calls
       /\ slots' = IF c.op.data # Null /\ c.data
                   THEN [slots EXCEPT ![c.op.data].used = FALSE]
                   ELSE slots
  /\ completed' = Tail(completed)
  /\ thread' = "check"
  /\ UNCHANGED <<userData, nextEntry, pending, flight, counters, running>>

HandleCompletion ==
  /\ thread = "wait"
  /\ completed # <<>>
  /\ LET c == Head(completed) IN
       /\ calls' = IF c.op.data # Null /\ c.data
                   THEN calls \cup {[op |-> c.op.id, callback |-> slots[c.op.data].callback]}
                   ELSE calls
       /\ slots' = IF c.op.data # Null
                   THEN [slots EXCEPT ![c.op.data].used = FALSE]
                   ELSE slots
  /\ completed' = Tail(completed)
  /\ thread' = "check"
  /\ UNCHANGED <<userData, nextEntry, pending, flight, counters, running>>
-----------------------------------------------------------------------------
(* Mutant: the thread is not woken.                                        *)
CleanupSilent ==
  /\ running
  /\ running' = FALSE
  /\ UNCHANGED <<slots, userData, nextEntry, pending, flight, completed, counters,
                 calls, thread>>

(* hal_uart_cleanup, up to the join: an empty operation wakes the thread;  *)
(* its entry, too, keeps the user data it had.                             *)
Cleanup ==
  /\ running
  /\ running' = FALSE
  /\ \/ /\ EntryLeft
        /\ nextEntry' = EntryAfter
        /\ LET nop == Op(NoOp, 0, "none", userData[nextEntry]) IN
             Submitted(nop) \/ SubmitFails(nop)
     \/ ~EntryLeft /\ UNCHANGED <<nextEntry, pending, flight, failures>>
  /\ UNCHANGED <<slots, userData, completed, ops, aborts, calls, thread>>

Next ==
  \/ \E dev \in Devices : Start(dev) \/ StartWithoutEntry(dev) \/ Abort(dev)
  \/ \E op \in flight : KernelCompletes(op) \/ KernelCancels(op)
  \/ ThreadChecks \/ HandleCompletion \/ Cleanup

Spec == Init /\ [][Next]_vars

(* The thread runs and the kernel ends what needs no device: a read of a   *)
(* silent device may stay for ever.                                        *)
FairSpec ==
  /\ Spec
  /\ WF_vars(ThreadChecks)
  /\ WF_vars(HandleCompletion)
  /\ WF_vars(\E op \in flight : KernelCancels(op))

-----------------------------------------------------------------------------
OpType ==
  [id : 0 .. MaxOps, abort : 0 .. MaxAborts, dev : Devices \cup {"none"},
   data : Slots \cup {Null}]

TypeOK ==
  /\ slots \in [Slots -> [used : BOOLEAN, callback : 0 .. MaxOps]]
  /\ userData \in [0 .. Entries - 1 -> Slots \cup {Null}]
  /\ nextEntry \in 0 .. Entries - 1
  /\ pending \subseteq OpType /\ Cardinality(pending) <= Entries
  /\ flight \subseteq OpType
  /\ completed \in Seq([op : OpType, data : BOOLEAN])
  /\ ops \in 0 .. MaxOps /\ aborts \in 0 .. MaxAborts
  /\ failures \in 0 .. MaxSubmitFailures
  /\ calls \subseteq [op : 1 .. MaxOps, callback : 0 .. MaxOps]
  /\ running \in BOOLEAN
  /\ thread \in {"check", "wait", "ended"}

Underway == pending \cup flight \cup {completed[i].op : i \in DOMAIN completed}

(* A used slot always has an operation under way that will free it: the    *)
(* device never runs out of slots for good, aborts, failing submissions    *)
(* and slots freed twice included.                                         *)
NoSlotLeak ==
  \A s \in Slots : slots[s].used => \E op \in Underway : op.data = s

Inv == TypeOK /\ NoSlotLeak

(* hal_uart.h:28 and :49, the callback is "the function that should be     *)
(* called upon" completion: a completed operation calls its own callback   *)
(* and none that was passed with another one.                              *)
CallbackIsOwn == \A c \in calls : c.callback = c.op

(* Without aborts and failing submissions it is so, a slot that is freed   *)
(* and taken again while the other device's operations go on included.     *)
UnabortedCallbackIsOwn == aborts = 0 /\ failures = 0 => CallbackIsOwn

(* hal_uart_cleanup, which joins the thread, returns if its wake-up could  *)
(* be submitted; the thread reads uart_running without the mutex, and may  *)
(* have to handle a completion before it looks at it again.                *)
CleanupEnds == (~running /\ failures = 0) ~> thread = "ended"
=============================================================================
