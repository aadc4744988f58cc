-------------------------- MODULE SchedulerProofs --------------------------
(***************************************************************************)
(* The scheduler for every number of slots, every choice of subscribed     *)
(* slots and every capacity: its types, and that a run serves the slots in *)
(* turn whatever is stopped, restarted, dropped or late.                   *)
(***************************************************************************)
EXTENDS Scheduler, TLAPS

(* The slot d places after slot s.                                         *)
Place(s, d) == IF s + d < SlotCount THEN s + d ELSE s + d - SlotCount

(* The tick is d places after the slot published last, and none of the     *)
(* slots between is subscribed; nor is the tick's, unless it is that slot  *)
(* or the one about to be published.                                       *)
After(d) ==
  /\ tick = Place(last, d)
  /\ \A e \in 1 .. d - 1 : Place(last, e) \notin Active
  /\ slot # None => d # 0
  /\ slot = None => d = 0 \/ tick \notin Active

TurnInv ==
  /\ state = "IDLE" => slot = None /\ tick = 0 /\ last = None
  /\ slot # None => slot = tick
  /\ state = "RUN" /\ last = None => slot = 0
  /\ last # None => \E d \in 0 .. SlotCount : After(d)
  /\ bus = "scheduler" => slot # None

SchedulerIInv == TypeOK /\ TurnInv

-----------------------------------------------------------------------------
(* What % computes in one turn of the slots.                               *)
LEMMA PlaceLemma ==
  ASSUME NEW s \in Slots, NEW d \in 0 .. SlotCount
  PROVE  /\ (s + d) % SlotCount = Place(s, d)
         /\ Place(s, d) \in Slots
<1>1. CASE s + d < SlotCount
  BY <1>1, SchedulerAssumption DEF Place, Slots
<1>2. CASE s + d >= SlotCount
  <2>1. s + d = SlotCount * 1 + (s + d - SlotCount)
    BY SchedulerAssumption DEF Slots
  <2>2. s + d - SlotCount \in 0 .. SlotCount - 1
    BY <1>2, SchedulerAssumption DEF Slots
  <2>3. QED
    BY <1>2, <2>1, <2>2, SchedulerAssumption DEF Place, Slots
<1>3. QED
  BY <1>1, <1>2, SchedulerAssumption DEF Slots

(* scheduler_fsm.c moves the tick by one: one place further.               *)
LEMMA TickLemma ==
  ASSUME NEW s \in Slots, NEW d \in 0 .. SlotCount - 1
  PROVE  /\ (Place(s, d) + 1) % SlotCount = Place(s, d + 1)
         /\ Place(s, 0) = s
         /\ Place(s, SlotCount) = s
<1>1. Place(s, d) \in Slots
  BY PlaceLemma, SchedulerAssumption
<1>2. (Place(s, d) + 1) % SlotCount = Place(Place(s, d), 1)
  BY <1>1, PlaceLemma, SchedulerAssumption
<1>3. Place(Place(s, d), 1) = Place(s, d + 1)
  BY SchedulerAssumption DEF Place, Slots
<1>4. QED
  BY <1>2, <1>3, SchedulerAssumption DEF Place, Slots

(* The first subscribed slot after s is the one CHOOSE finds.              *)
LEMMA NextActiveLemma ==
  ASSUME NEW s \in Slots, NEW d \in 1 .. SlotCount, Place(s, d) \in Active,
         \A e \in 1 .. d - 1 : Place(s, e) \notin Active
  PROVE  NextActive(s) = Place(s, d)
<1> DEFINE First(x) == /\ (s + x) % SlotCount \in Active
                       /\ \A e \in 1 .. x - 1 : (s + e) % SlotCount \notin Active
<1>1. \A x \in 1 .. SlotCount : (s + x) % SlotCount = Place(s, x)
  BY PlaceLemma, SchedulerAssumption
<1>2. First(d)
  BY <1>1, SchedulerAssumption
<1>3. \A x \in 1 .. SlotCount : First(x) => x = d
  <2> SUFFICES ASSUME NEW x \in 1 .. SlotCount, First(x) PROVE x = d
    OBVIOUS
  <2>1. ~(x < d)
    <3> SUFFICES ASSUME x < d PROVE FALSE
      OBVIOUS
    <3>1. x \in 1 .. d - 1
      OBVIOUS
    <3>2. QED
      BY <1>2, <3>1
  <2>2. ~(d < x)
    <3> SUFFICES ASSUME d < x PROVE FALSE
      OBVIOUS
    <3>1. d \in 1 .. x - 1
      OBVIOUS
    <3>2. QED
      BY <1>2, <3>1
  <2>3. QED
    BY <2>1, <2>2
<1>4. (CHOOSE x \in 1 .. SlotCount : First(x)) = d
  <2> HIDE DEF First
  <2>1. QED
    BY <1>2, <1>3
<1>5. QED
  BY <1>1, <1>4 DEF NextActive

-----------------------------------------------------------------------------
LEMMA PostedLemma ==
  ASSUME NEW E, NEW q \in Seq(E), NEW e \in E, Len(q) <= QueueCapacity
  PROVE  Posted(q, e) \in Seq(E) /\ Len(Posted(q, e)) <= QueueCapacity
BY SchedulerAssumption DEF Posted

LEMMA TakeLemma ==
  ASSUME TypeOK, NEW e, Take(e)
  PROVE  /\ slot = None
         /\ inbox' \in Seq({"START", "STOP", "TICK"}) /\ Len(inbox') <= QueueCapacity
BY SchedulerAssumption DEF TypeOK, Take

LEMMA InitInv == Init => SchedulerIInv
BY SchedulerAssumption DEF Init, SchedulerIInv, TypeOK, TurnInv, Slots, None

(* Each step keeps the types; the one that needs an argument is the tick,  *)
(* which goes round.                                                       *)
LEMMA StepType == SchedulerIInv /\ [Next]_vars => TypeOK'
<1> SUFFICES ASSUME SchedulerIInv, [Next]_vars PROVE TypeOK'
  OBVIOUS
<1> USE SchedulerAssumption DEF SchedulerIInv, TypeOK, timerVars, None
<1>1. CASE IdleStart
  BY <1>1, TakeLemma DEF IdleStart
<1>2. CASE RunStop
  <2>1. 0 \in Slots
    BY DEF Slots
  <2>2. QED
    BY <1>2, <2>1, TakeLemma DEF RunStop
<1>3. CASE RunTick
  <2>1. tick' \in Slots
    <3>1. (tick + 1) % SlotCount \in Slots
      BY PlaceLemma
    <3>2. QED
      BY <1>3, <3>1 DEF RunTick
  <2>2. QED
    BY <1>3, <2>1, TakeLemma DEF RunTick
<1>4. CASE Ignore
  BY <1>4, TakeLemma DEF Ignore
<1>5. CASE PublishLock \/ MainLock
  BY <1>5 DEF PublishLock, MainLock
<1>6. CASE Publish
  BY <1>6 DEF Publish, TurnInv
<1>7. CASE TimerExpires
  BY <1>7 DEF TimerExpires
<1>8. CASE TickHandler
  BY <1>8, PostedLemma DEF TickHandler
<1>9. CASE MainPublish
  BY <1>9, PostedLemma DEF MainPublish
<1>10. CASE AppPost
  BY <1>10, PostedLemma DEF AppPost
<1>11. CASE \E s \in Active : SubscriberTakes(s)
  BY <1>11 DEF SubscriberTakes
<1>12. CASE UNCHANGED vars
  BY <1>12 DEF vars
<1>13. QED
  BY <1>1, <1>2, <1>3, <1>4, <1>5, <1>6, <1>7, <1>8, <1>9, <1>10, <1>11, <1>12
  DEF Next, SchedulerStep

(* A tick moves one place on; a publish makes its slot the last one.       *)
LEMMA StepTurn == SchedulerIInv /\ [Next]_vars => TurnInv'
<1> SUFFICES ASSUME SchedulerIInv, [Next]_vars PROVE TurnInv'
  OBVIOUS
<1> USE DEF SchedulerIInv
<1>1. CASE IdleStart
  BY <1>1, SchedulerAssumption DEF IdleStart, Take, TurnInv, TypeOK, None
<1>2. CASE RunStop
  BY <1>2 DEF RunStop, Take, TurnInv, TypeOK
<1>3. CASE RunTick
  <2>1. /\ state = "RUN" /\ slot = None /\ last' = last /\ bus' = bus /\ state' = state
        /\ tick' = (tick + 1) % SlotCount
        /\ slot' = IF tick' \in Active THEN tick' ELSE None
    BY <1>3 DEF RunTick, Take
  <2>2. last # None /\ last \in Slots /\ last \in Active
    BY <2>1, SchedulerAssumption DEF TurnInv, TypeOK, None, Slots
  <2>3. PICK d \in 0 .. SlotCount : After(d)
    BY <2>2 DEF TurnInv
  <2>4. d # SlotCount
    BY <2>1, <2>2, <2>3, TickLemma, SchedulerAssumption DEF After
  <2>5. d \in 0 .. SlotCount - 1 /\ d + 1 \in 0 .. SlotCount
    BY <2>3, <2>4, SchedulerAssumption
  <2>6. tick' = Place(last, d + 1)
    BY <2>1, <2>2, <2>3, <2>5, TickLemma DEF After
  <2>7. \A e \in 1 .. (d + 1) - 1 : Place(last, e) \notin Active
    BY <2>1, <2>3, <2>5 DEF After
  <2>8. After(d + 1)'
    <3>1. \A e : Place(last, e)' = Place(last, e)
      BY <2>1 DEF Place
    <3>2. /\ tick' = Place(last, d + 1)'
          /\ \A e \in 1 .. (d + 1) - 1 : Place(last, e)' \notin Active
      BY <2>6, <2>7, <3>1
    <3>3. d + 1 # 0 /\ (slot' = None => tick' \notin Active)
      BY <2>1, <2>5, SchedulerAssumption DEF None
    <3>4. QED
      BY <3>2, <3>3 DEF After
  <2>9. QED
    BY <2>1, <2>2, <2>5, <2>8 DEF TurnInv
<1>4. CASE Publish
  <2>1. /\ slot # None /\ slot = tick /\ slot \in Active /\ slot \in Slots
        /\ last' = slot /\ slot' = None /\ tick' = tick /\ state' = state /\ bus' = "free"
    BY <1>4, SchedulerAssumption DEF Publish, TurnInv, TypeOK, Slots
  <2>2. tick' = Place(last', 0)
    BY <2>1, TickLemma, SchedulerAssumption
  <2>3. After(0)'
    BY <2>1, <2>2 DEF After
  <2>4. 0 \in 0 .. SlotCount
    BY SchedulerAssumption
  <2>5. state' = "RUN"
    BY <2>1 DEF TurnInv, TypeOK
  <2>6. QED
    BY <2>1, <2>3, <2>4, <2>5 DEF TurnInv
<1>5. CASE Ignore
  BY <1>5 DEF Ignore, Take, TurnInv, After, Place
<1>6. CASE PublishLock \/ MainLock \/ MainPublish
  BY <1>6 DEF PublishLock, MainLock, MainPublish, TurnInv, After, Place
<1>7. CASE TimerExpires \/ TickHandler
  BY <1>7 DEF TimerExpires, TickHandler, TurnInv, After, Place
<1>8. CASE AppPost \/ \E s \in Active : SubscriberTakes(s)
  BY <1>8 DEF AppPost, SubscriberTakes, timerVars, TurnInv, After, Place
<1>9. CASE UNCHANGED vars
  BY <1>9 DEF vars, TurnInv, After, Place
<1>10. QED
  BY <1>1, <1>2, <1>3, <1>4, <1>5, <1>6, <1>7, <1>8, <1>9 DEF Next, SchedulerStep

THEOREM SchedulerInvariant == Spec => []SchedulerIInv
<1>1. SchedulerIInv /\ [Next]_vars => SchedulerIInv'
  BY StepType, StepTurn DEF SchedulerIInv
<1>2. QED
  BY InitInv, <1>1, PTL DEF Spec

(* The tick stays a slot of the array of subscribers                       *)
(* (scheduler_fsm.c), and a subscriber's queue is never overfilled.        *)
THEOREM TypeCorrect == Spec => []TypeOK
BY SchedulerInvariant, PTL DEF SchedulerIInv

(* A run publishes slot 0 first and then the subscribed slots in turn:     *)
(* none is skipped and none served twice, whatever ticks are dropped, late *)
(* or left over from an earlier run (scheduler_fsm.c: the entry of RUN,    *)
(* TICK, and the reset of the tick by the entry of IDLE).                  *)
THEOREM InTurn == Spec => SlotsInTurn
<1>1. ASSUME SchedulerIInv, [Next]_vars, bus = "scheduler", bus' = "free"
      PROVE  last' = IF last = None THEN 0 ELSE NextActive(last)
  <2>1. Publish
    BY <1>1 DEF Next, SchedulerStep, IdleStart, RunStop, RunTick, Ignore, PublishLock,
       TimerExpires, TickHandler, MainLock, MainPublish, AppPost, SubscriberTakes, vars
  <2>2. /\ last' = slot /\ slot # None /\ slot = tick /\ slot \in Active /\ state = "RUN"
    BY <1>1, <2>1 DEF Publish, SchedulerIInv, TurnInv, TypeOK
  <2>3. CASE last = None
    BY <1>1, <2>2, <2>3 DEF SchedulerIInv, TurnInv
  <2>4. CASE last # None
    <3>1. last \in Slots
      BY <1>1, <2>4, SchedulerAssumption DEF SchedulerIInv, TypeOK, Slots
    <3>2. PICK d \in 0 .. SlotCount : After(d)
      BY <1>1, <2>4 DEF SchedulerIInv, TurnInv
    <3>3. d \in 1 .. SlotCount /\ slot = Place(last, d)
          /\ \A e \in 1 .. d - 1 : Place(last, e) \notin Active
      BY <2>2, <3>2, SchedulerAssumption DEF After
    <3>4. NextActive(last) = Place(last, d)
      BY <2>2, <3>1, <3>3, NextActiveLemma
    <3>5. QED
      BY <2>2, <2>4, <3>3, <3>4
  <2>5. QED
    BY <2>3, <2>4
<1>2. SchedulerIInv /\ [Next]_vars =>
        [bus = "scheduler" /\ bus' = "free" =>
           last' = IF last = None THEN 0 ELSE NextActive(last)]_vars
  BY <1>1
<1>3. QED
  BY <1>2, SchedulerInvariant, PTL DEF Spec, SlotsInTurn
=============================================================================
