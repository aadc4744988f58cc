----------------------------- MODULE SensorRead -----------------------------
(***************************************************************************)
(* The reading protocol of the UART sensors, as ddl/distance/distance_fsm.c*)
(* runs it (ddl/gps/gps_fsm.c runs the same one, see GpsSensor): a READ    *)
(* request writes a command, starts an asynchronous read of the answer into*)
(* one static buffer and arms a one-shot timer.  The read ends in a        *)
(* FRAME_RECEIVED event posted by the UART completion thread, the timer in *)
(* a TIMEOUT event posted by a notification thread of its own; either may  *)
(* be under way, or in the queue, when the other one is handled.           *)
(*                                                                         *)
(* Five parties run at once: the thread of the active object, the timer,   *)
(* the completion thread, the kernel (which writes the buffer) and the     *)
(* sensor.  The queue of the object is the bounded FIFO that EventQueue    *)
(* implements; the slots of the UART driver are in HalUart, which shows    *)
(* what `mixed' stands for here.                                           *)
(***************************************************************************)
EXTENDS Naturals, Sequences, FiniteSets

CONSTANTS
  QueueCapacity,   \* eDISTANCE_QUEUE_CAPACITY
  RetryMax,        \* eDISTANCE_READ_RETRY_MAX
  MaxInFlight,     \* bound: operations of the device submitted and not yet seen
  MaxAnswers,      \* bound: answers the sensor ever gives
  MaxQueuedReads,  \* bound: READ requests queued at once (see README, timing)
  MaxLate          \* bound: expirations under way when the timer fires again

ASSUME SensorAssumption ==
  /\ QueueCapacity \in Nat \ {0}
  /\ RetryMax \in Nat \ {0}
  /\ {MaxInFlight, MaxAnswers, MaxQueuedReads, MaxLate} \subseteq Nat

VARIABLES
  state,       \* the state of the FSM; UPDATE and COPY are inside one handler
  inbox,       \* the events queued for the active object
  retry,       \* aobj->retry
  systemTime,  \* aobj->system_time: the sensor time of the last accepted answer
  frame,       \* aobj->frame: valid, and the two halves last copied into it
  timer,       \* is the one-shot timer armed
  late,        \* expirations whose handler has not posted yet
  uart,        \* operations on the device: reads and writes in flight,
               \* completions that will call the handler and that will not
  mixed,       \* has an abort been submitted: its completion frees a slot it
               \* does not own, and operations may then share one
  resp,        \* resp_frame: its two halves
  asked,       \* commands the sensor has received and not answered
  line,        \* halves of answers received and not yet read
  answered     \* answers given so far: the sensor's clock

aoVars     == <<state, retry, systemTime, frame>>
sensorVars == <<asked, line, answered>>
vars       == <<state, inbox, retry, systemTime, frame, timer, late,
                uart, mixed, resp, asked, line, answered>>

-----------------------------------------------------------------------------
(* An answer is two pieces, because a read of the serial line ends as soon *)
(* as some bytes are there (hal_uart.c:188, VMIN = 1).  Piece 0 stands for *)
(* bytes garbled on the line, or for what the buffer holds at start.       *)

Piece(t, part) == [time |-> t, part |-> part]
Junk   == Piece(0, "junk")
Pieces == {Junk} \cup {Piece(t, h) : t \in 1 .. MaxAnswers, h \in {"head", "tail"}}

Whole(buf) ==
  /\ buf[1].part = "head"
  /\ buf[2].part = "tail"
  /\ buf[1].time = buf[2].time

(* Mutant: the comparison with the last accepted time is missing.          *)
ReplayAccepted(buf, oldTime) == Whole(buf)

(* is_frame_valid: header, mark, identifier and checksum hold exactly for  *)
(* an answer received whole, and its time differs from the last accepted.  *)
IsFrameValid(buf, oldTime) == Whole(buf) /\ buf[1].time # oldTime

NoOps == [reads |-> 0, writes |-> 0, data |-> 0, other |-> 0]

InUse(u) == u.reads + u.writes + u.data + u.other

(* util_active_object_post: refused, and the event lost, on a full queue.  *)
Posted(q, e) == IF Len(q) < QueueCapacity THEN Append(q, e) ELSE q

(* hal_uart_write and hal_uart_read: with no slot or submission entry left *)
(* the operation is not started; the caller does not look.                 *)
Started(u, op) ==
  {u} \cup (IF InUse(u) < MaxInFlight THEN {[u EXCEPT ![op] = @ + 1]} ELSE {})

(* hal_uart_abort: the kernel cancels one operation of the device, unless  *)
(* the one it finds is already completing.                                 *)
Aborted(u) ==
  {u} \cup {[u EXCEPT ![op] = @ - 1, !.other = @ + 1] :
              op \in {o \in {"reads", "writes"} : u[o] > 0}}

InitIn(first) ==
  /\ state = first
  /\ inbox = <<>>
  /\ retry = 0
  /\ systemTime = 0
  /\ frame = [valid |-> FALSE, data |-> <<Junk, Junk>>]
  /\ timer = FALSE
  /\ late = 0
  /\ uart = NoOps
  /\ mixed = FALSE
  /\ resp = <<Junk, Junk>>
  /\ asked = 0
  /\ line = <<>>
  /\ answered = 0

Init == InitIn("IDLE")

-----------------------------------------------------------------------------
(* The thread of the active object *)

Take(e) ==
  /\ inbox # <<>>
  /\ Head(inbox) = e
  /\ inbox' = Tail(inbox)

(* Mutant: the timer is armed for the first attempt only.                  *)
ArmedOnce(ops) ==
  /\ state' = "READ"
  /\ uart' \in UNION {Started(w, "reads") : w \in UNION {Started(u, "writes") : u \in ops}}
  /\ timer' = (state = "IDLE")

(* Entry of READ: write the command, start the read, arm the timer.        *)
EnterRead(ops) ==
  /\ state' = "READ"
  /\ uart' \in UNION {Started(w, "reads") : w \in UNION {Started(u, "writes") : u \in ops}}
  /\ timer' = TRUE

(* Entry of IDLE, from a state whose exit has disarmed the timer.          *)
EnterIdle(ops) ==
  /\ state' = "IDLE"
  /\ retry' = 0
  /\ uart' \in ops
  /\ timer' = FALSE

(* Mutant: a retry is not counted.                                         *)
RetryUncounted(ops) ==
  /\ EnterRead(ops)
  /\ UNCHANGED <<retry, frame>>

RetryHandler(ops) ==
  \/ /\ retry + 1 < RetryMax
     /\ retry' = retry + 1
     /\ EnterRead(ops)
     /\ UNCHANGED frame
  \/ /\ retry + 1 >= RetryMax
     /\ frame' = [frame EXCEPT !.valid = FALSE]
     /\ EnterIdle(ops)

IdleRead ==
  /\ state = "IDLE"
  /\ Take("READ")
  /\ EnterRead({uart})
  /\ UNCHANGED <<retry, systemTime, frame, late, mixed, resp, sensorVars>>

(* Events that reach a state which has no case for them are dropped.       *)
Ignore ==
  /\ \/ state = "IDLE" /\ (Take("TIMEOUT") \/ Take("FRAME_RECEIVED"))
     \/ state = "READ" /\ Take("READ")
  /\ UNCHANGED <<aoVars, timer, late, uart, mixed, resp, sensorVars>>

ReadFrameReceived ==
  /\ state = "READ"
  /\ Take("FRAME_RECEIVED")
  /\ state' = "UPDATE"
  /\ timer' = FALSE
  /\ UNCHANGED <<retry, systemTime, frame, late, uart, mixed, resp, sensorVars>>

ReadTimeout ==
  /\ state = "READ"
  /\ Take("TIMEOUT")
  /\ RetryHandler(Aborted(uart))
  /\ mixed' = TRUE
  /\ UNCHANGED <<systemTime, late, resp, sensorVars>>

(* The check of resp_frame and the copy out of it are apart: a second read *)
(* in flight may write the buffer between them.                            *)
UpdateValid ==
  /\ state = "UPDATE"
  /\ IsFrameValid(resp, systemTime)
  /\ state' = "COPY"
  /\ UNCHANGED <<inbox, retry, systemTime, frame, timer, late, uart, mixed, resp, sensorVars>>

UpdateInvalid ==
  /\ state = "UPDATE"
  /\ ~IsFrameValid(resp, systemTime)
  /\ RetryHandler({uart})
  /\ UNCHANGED <<inbox, systemTime, late, mixed, resp, sensorVars>>

UpdateCopy ==
  /\ state = "COPY"
  /\ frame' = [valid |-> TRUE, data |-> resp]
  /\ systemTime' = resp[1].time
  /\ EnterIdle({uart})
  /\ UNCHANGED <<inbox, late, mixed, resp, sensorVars>>

-----------------------------------------------------------------------------
(* The scheduler, the timer, the completion thread, the kernel, the sensor *)

QueuedReads == Cardinality({i \in DOMAIN inbox : inbox[i] = "READ"})

RequestRead ==
  /\ QueuedReads < MaxQueuedReads
  /\ inbox' = Posted(inbox, "READ")
  /\ UNCHANGED <<aoVars, timer, late, uart, mixed, resp, sensorVars>>

TimerExpires ==
  /\ timer
  /\ late < MaxLate
  /\ timer' = FALSE
  /\ late' = late + 1
  /\ UNCHANGED <<aoVars, inbox, uart, mixed, resp, sensorVars>>

TimeoutHandler ==
  /\ late > 0
  /\ late' = late - 1
  /\ inbox' = Posted(inbox, "TIMEOUT")
  /\ UNCHANGED <<aoVars, timer, uart, mixed, resp, sensorVars>>

(* A completion with res > 0 calls the callback of its slot; every         *)
(* completion frees the slot.                                              *)
CompletionThread ==
  /\ \/ /\ uart.data > 0
        /\ uart' = [uart EXCEPT !.data = @ - 1]
        /\ inbox' = Posted(inbox, "FRAME_RECEIVED")
     \/ /\ uart.other > 0
        /\ uart' = [uart EXCEPT !.other = @ - 1]
        /\ UNCHANGED inbox
  /\ UNCHANGED <<aoVars, timer, late, mixed, resp, sensorVars>>

(* A completed operation: a read calls the handler and a write has none,   *)
(* until slots are shared, when either finds what the other one left.      *)
Completes(op, own) ==
  /\ uart[op] > 0
  /\ \E kind \in {own} \cup (IF mixed THEN {"data", "other"} ELSE {}) :
       uart' = [uart EXCEPT ![op] = @ - 1, ![kind] = @ + 1]

(* The command leaves; the sensor gets it or it is garbled.                *)
WriteCompletes ==
  /\ Completes("writes", "other")
  /\ asked' \in {asked, IF asked < MaxAnswers THEN asked + 1 ELSE asked}
  /\ UNCHANGED <<aoVars, inbox, timer, late, mixed, resp, line, answered>>

(* The kernel moves what has arrived into the buffer, which may be less    *)
(* than the whole answer; the rest of the buffer keeps what it held.       *)
ReadCompletes ==
  /\ Completes("reads", "data")
  /\ \E n \in 1 .. 2 :
       /\ n <= Len(line)
       /\ resp' = [i \in 1 .. 2 |-> IF i <= n THEN line[i] ELSE resp[i]]
       /\ line' = SubSeq(line, n + 1, Len(line))
  /\ UNCHANGED <<aoVars, inbox, timer, late, mixed, asked, answered>>

ReadFails ==
  /\ uart.reads > 0
  /\ uart' = [uart EXCEPT !.reads = @ - 1, !.other = @ + 1]
  /\ UNCHANGED <<aoVars, inbox, timer, late, mixed, resp, sensorVars>>

SensorAnswers ==
  /\ asked > 0
  /\ answered < MaxAnswers
  /\ asked' = asked - 1
  /\ answered' = answered + 1
  /\ LET head == Piece(answered + 1, "head")
         tail == Piece(answered + 1, "tail")
     IN  line' \in {line \o <<head, tail>>, line \o <<head, Junk>>}
  /\ UNCHANGED <<aoVars, inbox, timer, late, uart, mixed, resp>>

-----------------------------------------------------------------------------
AOStep ==
  \/ IdleRead \/ Ignore \/ ReadFrameReceived \/ ReadTimeout
  \/ UpdateValid \/ UpdateInvalid \/ UpdateCopy

Next ==
  \/ AOStep \/ RequestRead \/ TimerExpires \/ TimeoutHandler \/ CompletionThread
  \/ WriteCompletes \/ ReadCompletes \/ ReadFails \/ SensorAnswers

Spec == Init /\ [][Next]_vars

-----------------------------------------------------------------------------
TypeOK ==
  /\ state \in {"IDLE", "READ", "UPDATE", "COPY"}
  /\ inbox \in Seq({"READ", "TIMEOUT", "FRAME_RECEIVED"}) /\ Len(inbox) <= QueueCapacity
  /\ retry \in 0 .. RetryMax - 1
  /\ systemTime \in 0 .. MaxAnswers
  /\ frame \in [valid : BOOLEAN, data : [1 .. 2 -> Pieces]]
  /\ timer \in BOOLEAN
  /\ late \in 0 .. MaxLate
  /\ uart \in [{"reads", "writes", "data", "other"} -> 0 .. MaxInFlight]
  /\ InUse(uart) <= MaxInFlight
  /\ mixed \in BOOLEAN
  /\ resp \in [1 .. 2 -> Pieces]
  /\ asked \in 0 .. MaxAnswers
  /\ line \in Seq(Pieces)
  /\ answered \in 0 .. MaxAnswers

InInbox(e) == \E i \in DOMAIN inbox : inbox[i] = e

(* Whatever becomes of the read, something is on its way that ends it:     *)
(* the armed timer, its notification, or a queued event (the read state    *)
(* never looks at the results of the UART calls, distance_fsm.c:247-249).  *)
ReadCanEnd ==
  state = "READ" => timer \/ late > 0 \/ InInbox("TIMEOUT") \/ InInbox("FRAME_RECEIVED")

(* An answer of the sensor is accepted at most once and never after a      *)
(* later one, stale FRAME_RECEIVED events included (is_frame_valid's       *)
(* comparison with the last accepted time).                                *)
NoReplay ==
  [][state = "UPDATE" /\ state' = "COPY" => resp[1].time > systemTime]_vars

(* Every request ends: the object is idle again, whatever the sensor does, *)
(* as long as its thread, its timer and the timer's handler run.           *)
RequestEnds == (state = "READ") ~> (state = "IDLE")
=============================================================================
