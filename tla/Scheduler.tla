----------------------------- MODULE Scheduler -----------------------------
(***************************************************************************)
(* The scheduler (app/scheduler) and the event bus through which it wakes  *)
(* the other active objects (util/event_bus).  In RUN a repeating timer    *)
(* posts TICK events to the scheduler's own queue; each one moves it to    *)
(* the next slot, whose event it publishes.  Publishing takes the mutex of *)
(* the bus and posts into the queue of every matching subscriber, which    *)
(* may be full.  main publishes START through the same bus, a user of      *)
(* app_post posts START and STOP past it, and the subscribers take their   *)
(* events at a pace of their own.                                          *)
(***************************************************************************)
EXTENDS Integers, Sequences, FiniteSets

CONSTANTS
  SlotCount,         \* eSCHEDULER_SUBSCRIBERS_MAX
  Active,            \* the slots app_init has subscribed a module to
  QueueCapacity,     \* eSCHEDULER_QUEUE_CAPACITY
  InboxCapacity,     \* the capacity of a subscriber's queue
  MaxLate            \* bound: expirations of the timer not yet posted

ASSUME SchedulerAssumption ==
  /\ SlotCount \in Nat \ {0}
  /\ Active \subseteq 0 .. SlotCount - 1
  /\ 0 \in Active
  /\ {QueueCapacity, InboxCapacity} \subseteq Nat \ {0}
  /\ MaxLate \in Nat

VARIABLES
  state,      \* the state of the FSM
  slot,       \* the slot to publish, or None: the handler waits for the bus
  tick,       \* aobj->tick
  inbox,      \* the events queued for the scheduler
  timer,      \* is the repeating timer armed
  late,       \* expirations whose handler has not posted yet
  bus,        \* who holds bus_mutex
  queued,     \* per subscriber: its events waiting in its queue
  main,       \* what main has still to do: publish START, or nothing
  last        \* the slot last published in this run, or None

vars == <<state, slot, tick, inbox, timer, late, bus, queued, main, last>>
timerVars == <<timer, late>>

None == -1
Slots == 0 .. SlotCount - 1

Init ==
  /\ state = "IDLE"
  /\ slot = None
  /\ tick = 0
  /\ inbox = <<>>
  /\ timer = FALSE
  /\ late = 0
  /\ bus = "free"
  /\ queued = [s \in Active |-> 0]
  /\ main = "publish"
  /\ last = None

Posted(q, e) == IF Len(q) < QueueCapacity THEN Append(q, e) ELSE q

-----------------------------------------------------------------------------
(* The thread of the scheduler; it takes an event when no publish is open. *)

Take(e) ==
  /\ slot = None
  /\ inbox # <<>>
  /\ Head(inbox) = e
  /\ inbox' = Tail(inbox)

(* Entry of RUN: arm the timer, publish slot 0.                            *)
IdleStart ==
  /\ state = "IDLE"
  /\ Take("START")
  /\ state' = "RUN"
  /\ timer' = TRUE
  /\ slot' = 0
  /\ UNCHANGED <<tick, late, bus, queued, main, last>>

(* Mutant: IDLE is entered without resetting tick.                         *)
StopKeepsTick ==
  /\ state = "RUN"
  /\ Take("STOP")
  /\ state' = "IDLE"
  /\ timer' = FALSE
  /\ last' = None
  /\ UNCHANGED <<slot, tick, late, bus, queued, main>>

(* Exit of RUN disarms the timer, entry of IDLE resets tick.               *)
RunStop ==
  /\ state = "RUN"
  /\ Take("STOP")
  /\ state' = "IDLE"
  /\ timer' = FALSE
  /\ tick' = 0
  /\ last' = None
  /\ UNCHANGED <<slot, late, bus, queued, main>>

(* Mutant: the slots do not go round.                                      *)
TickNoWrap ==
  /\ state = "RUN"
  /\ Take("TICK")
  /\ tick' = tick + 1
  /\ slot' = IF tick' \in Active THEN tick' ELSE None
  /\ UNCHANGED <<state, timerVars, bus, queued, main, last>>

RunTick ==
  /\ state = "RUN"
  /\ Take("TICK")
  /\ tick' = (tick + 1) % SlotCount
  /\ slot' = IF tick' \in Active THEN tick' ELSE None
  /\ UNCHANGED <<state, timerVars, bus, queued, main, last>>

Ignore ==
  /\ \/ state = "IDLE" /\ (Take("STOP") \/ Take("TICK"))
     \/ state = "RUN" /\ Take("START")
  /\ UNCHANGED <<state, slot, tick, timerVars, bus, queued, main, last>>

(* util_event_bus_publish, under the mutex of the bus.                     *)
PublishLock ==
  /\ slot # None
  /\ bus = "free"
  /\ bus' = "scheduler"
  /\ UNCHANGED <<state, slot, tick, inbox, timerVars, queued, main, last>>

(* The subscription matches, the result of its post_fn is dropped.         *)
Publish ==
  /\ bus = "scheduler"
  /\ bus' = "free"
  /\ slot' = None
  /\ last' = slot
  /\ queued' = [queued EXCEPT ![slot] = IF @ < InboxCapacity THEN @ + 1 ELSE @]
  /\ UNCHANGED <<state, tick, inbox, timerVars, main>>

-----------------------------------------------------------------------------
(* Mutant: the timer is armed for one expiration only.                     *)
ExpiresOnce ==
  /\ timer
  /\ late < MaxLate
  /\ late' = late + 1
  /\ timer' = FALSE
  /\ UNCHANGED <<state, slot, tick, inbox, bus, queued, main, last>>

(* The timer: disarming does not call back expirations under way.          *)
TimerExpires ==
  /\ timer
  /\ late < MaxLate
  /\ late' = late + 1
  /\ UNCHANGED <<state, slot, tick, inbox, timer, bus, queued, main, last>>

TickHandler ==
  /\ late > 0
  /\ late' = late - 1
  /\ inbox' = Posted(inbox, "TICK")
  /\ UNCHANGED <<state, slot, tick, timer, bus, queued, main, last>>

(* main publishes START to the scheduler's subscription.                   *)
MainLock ==
  /\ main = "publish"
  /\ bus = "free"
  /\ main' = "join"
  /\ bus' = "main"
  /\ UNCHANGED <<state, slot, tick, inbox, timerVars, queued, last>>

MainPublish ==
  /\ bus = "main"
  /\ bus' = "free"
  /\ inbox' = Posted(inbox, "START")
  /\ UNCHANGED <<state, slot, tick, timerVars, queued, main, last>>

(* app_post to the scheduler, past the bus.                                *)
AppPost ==
  /\ \E e \in {"START", "STOP"} : inbox' = Posted(inbox, e)
  /\ UNCHANGED <<state, slot, tick, timerVars, bus, queued, main, last>>

SubscriberTakes(s) ==
  /\ queued[s] > 0
  /\ queued' = [queued EXCEPT ![s] = @ - 1]
  /\ UNCHANGED <<state, slot, tick, inbox, timerVars, bus, main, last>>

-----------------------------------------------------------------------------
SchedulerStep ==
  IdleStart \/ RunStop \/ RunTick \/ Ignore \/ PublishLock \/ Publish

Next ==
  \/ SchedulerStep \/ TimerExpires \/ TickHandler \/ MainLock \/ MainPublish \/ AppPost
  \/ \E s \in Active : SubscriberTakes(s)

Spec == Init /\ [][Next]_vars

(* The threads and the timer run, main included.  Nothing is asked of the  *)
(* users of app_post nor of the subscribers.                               *)
FairSpec ==
  /\ Spec
  /\ WF_vars(SchedulerStep)
  /\ WF_vars(TimerExpires)
  /\ WF_vars(TickHandler)
  /\ WF_vars(MainPublish)

-----------------------------------------------------------------------------
TypeOK ==
  /\ state \in {"IDLE", "RUN"}
  /\ slot \in Active \cup {None}
  /\ tick \in Slots
  /\ inbox \in Seq({"START", "STOP", "TICK"}) /\ Len(inbox) <= QueueCapacity
  /\ timer \in BOOLEAN
  /\ late \in 0 .. MaxLate
  /\ bus \in {"free", "scheduler", "main"}
  /\ queued \in [Active -> 0 .. InboxCapacity]
  /\ main \in {"publish", "join"}
  /\ last \in Active \cup {None}

(* The first active slot after s, going round.                             *)
NextActive(s) ==
  LET steps == CHOOSE d \in 1 .. SlotCount :
                 /\ (s + d) % SlotCount \in Active
                 /\ \A e \in 1 .. d - 1 : (s + e) % SlotCount \notin Active
  IN  (s + steps) % SlotCount

(* Whatever was stopped, restarted, dropped or left over from an earlier   *)
(* run: a run publishes slot 0 first and then the subscribed slots in turn,*)
(* none skipped and none twice (scheduler.h:19, "an array of time slots it *)
(* triggers").                                                             *)
SlotsInTurn ==
  [][bus = "scheduler" /\ bus' = "free" =>
       last' = IF last = None THEN 0 ELSE NextActive(last)]_vars

(* A scheduler that keeps running, and is not flooded with commands for    *)
(* ever, serves every subscribed slot again and again, although ticks may  *)
(* be dropped, the bus is shared and subscribers may have stopped taking   *)
(* their events.                                                           *)
EverySlotServed ==
  <>[](state = "RUN") /\ <>[][~AppPost]_vars => \A s \in Active : []<>(last = s)
=============================================================================
