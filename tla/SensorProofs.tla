---------------------------- MODULE SensorProofs ----------------------------
(***************************************************************************)
(* The UART sensors for every capacity of the queue, number of retries, of *)
(* operations in flight, of answers and of READ requests.                  *)
(*                                                                         *)
(* First the reading protocol (SensorRead): its types, that a pending read *)
(* can always end, and that no answer is accepted twice or after a later   *)
(* one.                                                                    *)
(*                                                                         *)
(* Then the configuration of the GPS receiver (GpsSensor), for every       *)
(* number of messages and failing writes as well: no read is ever started  *)
(* before the receiver has been sent the whole sequence, each message once *)
(* and in order, out of the one buffer they share.  From then on the       *)
(* object takes steps of SensorRead only, so that what is shown of the     *)
(* distance sensor holds of it too.                                        *)
(***************************************************************************)
EXTENDS GpsSensor, FunctionTheorems, SequenceTheorems, FiniteSetTheorems, TLAPS

-----------------------------------------------------------------------------
(* The reading protocol *)

EventTypes == {"READ", "TIMEOUT", "FRAME_RECEIVED"}
Ops        == {"reads", "writes", "data", "other"}
Uarts      == {u \in [Ops -> 0 .. MaxInFlight] : InUse(u) <= MaxInFlight}

(* Where the READ requests of a queue are.                                 *)
Reads(q) == {i \in DOMAIN q : q[i] = "READ"}

-----------------------------------------------------------------------------
(* Queues *)

LEMMA ReadsFinite ==
  ASSUME NEW S, NEW q \in Seq(S)
  PROVE  IsFiniteSet(Reads(q)) /\ Cardinality(Reads(q)) \in Nat
<1>1. IsFiniteSet(1 .. Len(q))
  BY FS_Interval
<1>2. Reads(q) \in SUBSET (1 .. Len(q))
  BY DEF Reads
<1>3. IsFiniteSet(Reads(q))
  BY <1>1, <1>2, FS_Subset
<1>4. QED
  BY <1>3, FS_CardinalityType

(* Taking an event leaves no more READ requests than there were.           *)
LEMMA ReadsTail ==
  ASSUME NEW S, NEW q \in Seq(S), q # <<>>
  PROVE  Cardinality(Reads(Tail(q))) <= Cardinality(Reads(q))
<1> DEFINE shift == [i \in Reads(Tail(q)) |-> i + 1]
<1>1. shift \in [Reads(Tail(q)) -> Reads(q)]
  BY DEF Reads
<1>2. \A i, j \in Reads(Tail(q)) : shift[i] = shift[j] => i = j
  BY DEF Reads
<1>3. shift \in Injection(Reads(Tail(q)), Reads(q))
  BY <1>1, <1>2, Fun_IsInj
<1>4. QED
  BY <1>3, ReadsFinite, FS_Injection

(* Posting an event adds a READ request only if it is one.                 *)
LEMMA ReadsAppendOther ==
  ASSUME NEW S, NEW q \in Seq(S), NEW e \in S, e # "READ"
  PROVE  Reads(Append(q, e)) = Reads(q)
BY DEF Reads

(* Posting a READ request adds one.                                        *)
LEMMA ReadsAppendRead ==
  ASSUME NEW S, NEW q \in Seq(S), "READ" \in S
  PROVE  Cardinality(Reads(Append(q, "READ"))) = Cardinality(Reads(q)) + 1
<1>1. Reads(Append(q, "READ")) = Reads(q) \cup {Len(q) + 1}
  BY DEF Reads
<1>2. Len(q) + 1 \notin Reads(q)
  BY DEF Reads
<1>3. IsFiniteSet(Reads(q))
  BY ReadsFinite
<1>4. Cardinality(Reads(q) \cup {Len(q) + 1}) = Cardinality(Reads(q)) + 1
  BY <1>2, <1>3, FS_AddElement
<1>5. QED
  BY <1>1, <1>4

(* A queue with fewer READ requests than events holds an event of another  *)
(* kind.                                                                   *)
LEMMA NotOnlyReads ==
  ASSUME NEW q \in Seq(EventTypes), Cardinality(Reads(q)) < Len(q)
  PROVE  \E i \in DOMAIN q : q[i] \in {"TIMEOUT", "FRAME_RECEIVED"}
<1> SUFFICES ASSUME \A i \in DOMAIN q : q[i] \notin {"TIMEOUT", "FRAME_RECEIVED"}
             PROVE  FALSE
  OBVIOUS
<1>1. Reads(q) = 1 .. Len(q)
  BY DEF Reads, EventTypes
<1>2. Len(q) \in Nat /\ 1 \in Int /\ Len(q) \in Int
  OBVIOUS
<1>3. Cardinality(1 .. Len(q)) = IF 1 > Len(q) THEN 0 ELSE Len(q) - 1 + 1
  BY <1>2, FS_Interval
<1>4. QED
  BY <1>1, <1>2, <1>3

-----------------------------------------------------------------------------
(* The UART operations *)

LEMMA StartedType ==
  ASSUME NEW u \in Uarts, NEW op \in Ops
  PROVE  Started(u, op) \subseteq Uarts
BY SensorAssumption DEF Started, Uarts, Ops, InUse

(* An operation that moves on stays within the bounds.                     *)
LEMMA MovedType ==
  ASSUME NEW u \in Uarts, NEW from \in Ops, NEW to \in Ops, u[from] > 0
  PROVE  [u EXCEPT ![from] = @ - 1, ![to] = @ + 1] \in Uarts
BY SensorAssumption DEF Uarts, Ops, InUse

(* Aborting moves one operation to the others, and takes no slot.          *)
LEMMA AbortedType ==
  ASSUME NEW u \in Uarts
  PROVE  Aborted(u) \subseteq Uarts
<1> SUFFICES ASSUME NEW op \in {"reads", "writes"}, u[op] > 0
             PROVE  [u EXCEPT ![op] = @ - 1, !.other = @ + 1] \in Uarts
  BY DEF Aborted
<1>1. op \in Ops /\ "other" \in Ops
  BY DEF Ops
<1>2. QED
  BY <1>1, MovedType

(* A completion frees a slot.                                              *)
LEMMA RemovedType ==
  ASSUME NEW u \in Uarts, NEW from \in Ops, u[from] > 0
  PROVE  [u EXCEPT ![from] = @ - 1] \in Uarts
BY SensorAssumption DEF Uarts, Ops, InUse

(* Posting keeps a queue within its capacity.                              *)
LEMMA PostedType ==
  ASSUME NEW q \in Seq(EventTypes), Len(q) <= QueueCapacity, NEW e \in EventTypes
  PROVE  Posted(q, e) \in Seq(EventTypes) /\ Len(Posted(q, e)) <= QueueCapacity
BY SensorAssumption DEF Posted

(* The state in which IDLE is entered first has its types.                 *)
LEMMA InitType == Init => TypeOK
<1> SUFFICES ASSUME Init PROVE TypeOK
  OBVIOUS
<1> USE SensorAssumption DEF Init, InitIn
<1>1. NoOps \in [Ops -> 0 .. MaxInFlight] /\ InUse(NoOps) <= MaxInFlight
  BY DEF NoOps, Ops, InUse
<1>2. <<Junk, Junk>> \in [1 .. 2 -> Pieces]
  BY DEF Pieces
<1>3. inbox \in Seq(EventTypes) /\ Len(inbox) <= QueueCapacity
  OBVIOUS
<1>4. /\ retry \in 0 .. RetryMax - 1
      /\ systemTime \in 0 .. MaxAnswers /\ late \in 0 .. MaxLate
      /\ asked \in 0 .. MaxAnswers /\ answered \in 0 .. MaxAnswers
  OBVIOUS
<1>5. line \in Seq(Pieces)
  OBVIOUS
<1>6. frame \in [valid : BOOLEAN, data : [1 .. 2 -> Pieces]]
  BY <1>2
<1>7. QED
  BY <1>1, <1>2, <1>3, <1>4, <1>5, <1>6 DEF TypeOK, Ops, EventTypes

-----------------------------------------------------------------------------
(* The parts of the handlers *)

LEMMA EnterReadType ==
  ASSUME NEW ops \in SUBSET Uarts, EnterRead(ops)
  PROVE  state' = "READ" /\ uart' \in Uarts /\ timer' = TRUE
<1>1. \A u \in ops : Started(u, "writes") \in SUBSET Uarts
  BY StartedType DEF Ops
<1>2. \A u \in ops : \A w \in Started(u, "writes") : Started(w, "reads") \in SUBSET Uarts
  BY <1>1, StartedType DEF Ops
<1>3. QED
  BY <1>2 DEF EnterRead

(* retry_handler counts no further than the number of attempts.            *)
LEMMA RetryType ==
  ASSUME TypeOK, NEW ops \in SUBSET Uarts, RetryHandler(ops)
  PROVE  /\ retry' \in 0 .. RetryMax - 1
         /\ frame' \in [valid : BOOLEAN, data : [1 .. 2 -> Pieces]]
         /\ uart' \in Uarts
         /\ timer' \in BOOLEAN
         /\ state' \in {"IDLE", "READ"}
         /\ state' = "READ" => timer' = TRUE
<1>1. CASE /\ retry + 1 < RetryMax
           /\ retry' = retry + 1
           /\ EnterRead(ops)
           /\ UNCHANGED frame
  <2>1. state' = "READ" /\ uart' \in Uarts /\ timer' = TRUE
    BY <1>1, EnterReadType
  <2>2. retry' \in 0 .. RetryMax - 1
    BY <1>1, SensorAssumption DEF TypeOK
  <2>3. QED
    BY <1>1, <2>1, <2>2 DEF TypeOK
<1>2. CASE /\ retry + 1 >= RetryMax
           /\ frame' = [frame EXCEPT !.valid = FALSE]
           /\ EnterIdle(ops)
  <2>1. state' = "IDLE" /\ retry' = 0 /\ uart' \in Uarts /\ timer' = FALSE
    BY <1>2 DEF EnterIdle
  <2>2. 0 \in 0 .. RetryMax - 1
    BY SensorAssumption
  <2>3. frame' \in [valid : BOOLEAN, data : [1 .. 2 -> Pieces]]
    BY <1>2 DEF TypeOK
  <2>4. QED
    BY <2>1, <2>2, <2>3
<1>3. QED
  BY <1>1, <1>2 DEF RetryHandler

(* Taking an event keeps the queue within its capacity.                    *)
LEMMA TakeType ==
  ASSUME TypeOK, NEW e, Take(e)
  PROVE  inbox' \in Seq(EventTypes) /\ Len(inbox') <= QueueCapacity
BY SensorAssumption DEF TypeOK, Take, EventTypes

(* So does posting one to the object.                                      *)
LEMMA PostType ==
  ASSUME TypeOK, NEW e \in EventTypes, inbox' = Posted(inbox, e)
  PROVE  inbox' \in Seq(EventTypes) /\ Len(inbox') <= QueueCapacity
BY PostedType DEF TypeOK, EventTypes

-----------------------------------------------------------------------------
(* The serial line *)

LEMMA LineRest ==
  ASSUME NEW s \in Seq(Pieces), NEW n \in 1 .. 2, n <= Len(s)
  PROVE  /\ SubSeq(s, n + 1, Len(s)) \in Seq(Pieces)
         /\ Len(SubSeq(s, n + 1, Len(s))) = Len(s) - n
         /\ \A i \in 1 .. Len(s) - n : SubSeq(s, n + 1, Len(s))[i] = s[n + i]
<1>1. \A i \in n + 1 .. Len(s) : s[i] \in Pieces
  OBVIOUS
<1>2. n + 1 \in Int /\ Len(s) \in Int
  OBVIOUS
<1>3. QED
  BY <1>1, <1>2, SubSeqProperties

(* Two pieces more on the line, behind what is there.                      *)
LEMMA LineMore ==
  ASSUME NEW s \in Seq(Pieces), NEW a \in Pieces, NEW b \in Pieces
  PROVE  /\ s \o <<a, b>> \in Seq(Pieces)
         /\ Len(s \o <<a, b>>) = Len(s) + 2
         /\ \A i \in 1 .. Len(s) : (s \o <<a, b>>)[i] = s[i]
         /\ (s \o <<a, b>>)[Len(s) + 1] = a
         /\ (s \o <<a, b>>)[Len(s) + 2] = b
OBVIOUS

-----------------------------------------------------------------------------
(* Every step keeps the types: UART operations are only started below      *)
(* their bound, retries only counted below RetryMax.                       *)
LEMMA StepType == TypeOK /\ [Next]_vars => TypeOK'
<1> SUFFICES ASSUME TypeOK, [Next]_vars PROVE TypeOK'
  OBVIOUS
<1> USE SensorAssumption
<1>u. uart \in Uarts
  BY DEF TypeOK, Uarts, Ops
<1>t. /\ \A u : u \in Uarts => /\ u \in [{"reads", "writes", "data", "other"} -> 0 .. MaxInFlight]
                              /\ InUse(u) <= MaxInFlight
  BY DEF Uarts, Ops
<1>1. CASE IdleRead
  <2>1. state' = "READ" /\ uart' \in Uarts /\ timer' = TRUE
    BY <1>1, <1>u, EnterReadType DEF IdleRead
  <2>2. inbox' \in Seq(EventTypes) /\ Len(inbox') <= QueueCapacity
    BY <1>1, TakeType DEF IdleRead
  <2>3. QED
    BY <1>1, <1>t, <2>1, <2>2 DEF IdleRead, TypeOK, sensorVars, EventTypes
<1>2. CASE Ignore
  <2>1. inbox' \in Seq(EventTypes) /\ Len(inbox') <= QueueCapacity
    BY <1>2, TakeType DEF Ignore
  <2>2. QED
    BY <1>2, <2>1 DEF Ignore, TypeOK, aoVars, sensorVars, EventTypes
<1>3. CASE ReadFrameReceived
  <2>1. inbox' \in Seq(EventTypes) /\ Len(inbox') <= QueueCapacity
    BY <1>3, TakeType DEF ReadFrameReceived
  <2>2. QED
    BY <1>3, <2>1 DEF ReadFrameReceived, TypeOK, sensorVars, EventTypes
<1>4. CASE ReadTimeout
  <2>1. Aborted(uart) \in SUBSET Uarts
    BY <1>u, AbortedType
  <2>2. /\ retry' \in 0 .. RetryMax - 1
        /\ frame' \in [valid : BOOLEAN, data : [1 .. 2 -> Pieces]]
        /\ uart' \in Uarts /\ timer' \in BOOLEAN /\ state' \in {"IDLE", "READ"}
    BY <1>4, <2>1, RetryType DEF ReadTimeout
  <2>3. inbox' \in Seq(EventTypes) /\ Len(inbox') <= QueueCapacity
    BY <1>4, TakeType DEF ReadTimeout
  <2>4. QED
    BY <1>4, <1>t, <2>2, <2>3 DEF ReadTimeout, TypeOK, sensorVars, EventTypes
<1>5. CASE UpdateValid
  BY <1>5 DEF UpdateValid, TypeOK, sensorVars
<1>6. CASE UpdateInvalid
  <2>1. /\ retry' \in 0 .. RetryMax - 1
        /\ frame' \in [valid : BOOLEAN, data : [1 .. 2 -> Pieces]]
        /\ uart' \in Uarts /\ timer' \in BOOLEAN /\ state' \in {"IDLE", "READ"}
    BY <1>6, <1>u, RetryType DEF UpdateInvalid
  <2>2. QED
    BY <1>6, <1>t, <2>1 DEF UpdateInvalid, TypeOK, sensorVars
<1>7. CASE UpdateCopy
  <2>1. resp[1].time \in 0 .. MaxAnswers
    BY SMTT(30) DEF TypeOK, Pieces, Junk, Piece
  <2>2. frame' \in [valid : BOOLEAN, data : [1 .. 2 -> Pieces]]
    BY <1>7 DEF UpdateCopy, TypeOK
  <2>3. uart' = uart
    BY <1>7 DEF UpdateCopy, EnterIdle
  <2>4. /\ state' = "IDLE" /\ retry' = 0 /\ timer' = FALSE
        /\ systemTime' = resp[1].time
        /\ UNCHANGED <<inbox, late, mixed, resp, sensorVars>>
    BY <1>7 DEF UpdateCopy, EnterIdle
  <2>5. 0 \in 0 .. RetryMax - 1
    OBVIOUS
  <2>6. QED
    BY <2>1, <2>2, <2>3, <2>4, <2>5 DEF TypeOK, sensorVars
<1>8. CASE RequestRead
  <2>1. inbox' \in Seq(EventTypes) /\ Len(inbox') <= QueueCapacity
    BY <1>8, PostType DEF RequestRead, EventTypes
  <2>2. UNCHANGED <<aoVars, timer, late, uart, mixed, resp, sensorVars>>
    BY <1>8 DEF RequestRead
  <2>3. QED
    BY <2>1, <2>2 DEF TypeOK, aoVars, sensorVars, EventTypes
<1>9. CASE TimerExpires
  <2>1. late' \in 0 .. MaxLate
    BY <1>9, SMTT(30) DEF TimerExpires, TypeOK
  <2>2. QED
    BY <1>9, <2>1 DEF TimerExpires, TypeOK, aoVars, sensorVars
<1>10. CASE TimeoutHandler
  <2>1. inbox' \in Seq(EventTypes) /\ Len(inbox') <= QueueCapacity
    BY <1>10, PostType DEF TimeoutHandler, EventTypes
  <2>2. QED
    BY <1>10, <2>1, SMTT(30) DEF TimeoutHandler, TypeOK, aoVars, sensorVars, EventTypes
<1>11. CASE CompletionThread
  <2>1. uart' \in Uarts
    BY <1>11, <1>u, RemovedType DEF CompletionThread, Ops
  <2>2. inbox' \in Seq(EventTypes) /\ Len(inbox') <= QueueCapacity
    <3>1. "FRAME_RECEIVED" \in EventTypes
      BY DEF EventTypes
    <3>2. inbox' = Posted(inbox, "FRAME_RECEIVED") \/ inbox' = inbox
      BY <1>11 DEF CompletionThread
    <3>3. QED
      BY <3>1, <3>2, PostType DEF TypeOK, EventTypes
  <2>3. QED
    BY <1>11, <1>t, <2>1, <2>2 DEF CompletionThread, TypeOK, aoVars, sensorVars, EventTypes
<1>12. ASSUME NEW op \in Ops, NEW own \in Ops, Completes(op, own)
       PROVE  uart' \in Uarts
  BY <1>12, <1>u, MovedType, ZenonT(60) DEF Completes, Ops
<1>13. CASE WriteCompletes
  <2>1. uart' \in Uarts
    BY <1>12, <1>13 DEF WriteCompletes, Ops
  <2>2. asked' \in 0 .. MaxAnswers
    BY <1>13, SMTT(30) DEF WriteCompletes, TypeOK
  <2>3. QED
    BY <1>13, <1>t, <2>1, <2>2 DEF WriteCompletes, TypeOK, aoVars
<1>14. CASE ReadCompletes
  <2>1. uart' \in Uarts
    BY <1>12, <1>14 DEF ReadCompletes, Ops
  <2>2. PICK n \in 1 .. 2 :
          /\ n <= Len(line)
          /\ resp' = [i \in 1 .. 2 |-> IF i <= n THEN line[i] ELSE resp[i]]
          /\ line' = SubSeq(line, n + 1, Len(line))
    BY <1>14 DEF ReadCompletes
  <2>3. resp' \in [1 .. 2 -> Pieces]
    <3>1. line \in Seq(Pieces) /\ resp \in [1 .. 2 -> Pieces]
      BY DEF TypeOK
    <3>2. \A i \in 1 .. 2 : i <= n => line[i] \in Pieces
      BY <2>2, <3>1
    <3>3. QED
      BY <2>2, <3>1, <3>2
  <2>4. line' \in Seq(Pieces)
    BY <2>2, LineRest DEF TypeOK
  <2>5. QED
    BY <1>14, <1>t, <2>1, <2>3, <2>4 DEF ReadCompletes, TypeOK, aoVars
<1>15. CASE ReadFails
  <2>1. uart' \in Uarts
    BY <1>15, <1>u, MovedType DEF ReadFails, Ops
  <2>2. QED
    BY <1>15, <1>t, <2>1 DEF ReadFails, TypeOK, aoVars, sensorVars
<1>16. CASE SensorAnswers
  <2>1. line' \in Seq(Pieces)
    <3>1. answered + 1 \in 1 .. MaxAnswers
      BY <1>16, SMTT(30) DEF SensorAnswers, TypeOK
    <3>2. {Piece(answered + 1, "head"), Piece(answered + 1, "tail"), Junk} \subseteq Pieces
      BY <3>1 DEF Pieces
    <3>3. line \in Seq(Pieces)
      BY DEF TypeOK
    <3>4. /\ line \o <<Piece(answered + 1, "head"), Piece(answered + 1, "tail")>> \in Seq(Pieces)
          /\ line \o <<Piece(answered + 1, "head"), Junk>> \in Seq(Pieces)
      BY <3>2, <3>3, LineMore
    <3>5. QED
      BY <1>16, <3>4 DEF SensorAnswers
  <2>2. asked' \in 0 .. MaxAnswers /\ answered' \in 0 .. MaxAnswers
    <3>1. asked > 0 /\ answered < MaxAnswers /\ asked' = asked - 1 /\ answered' = answered + 1
      BY <1>16 DEF SensorAnswers
    <3>2. asked \in 0 .. MaxAnswers /\ answered \in 0 .. MaxAnswers
      BY DEF TypeOK
    <3>3. QED
      BY <3>1, <3>2
  <2>3. UNCHANGED <<aoVars, inbox, timer, late, uart, mixed, resp>>
    BY <1>16 DEF SensorAnswers
  <2>4. QED
    BY <2>1, <2>2, <2>3 DEF TypeOK, aoVars
<1>17. CASE UNCHANGED vars
  BY <1>17 DEF vars, TypeOK
<1>18. QED
  BY <1>1, <1>2, <1>3, <1>4, <1>5, <1>6, <1>7, <1>8, <1>9, <1>10, <1>11, <1>13, <1>14,
     <1>15, <1>16, <1>17 DEF Next, AOStep

(* Every value has its type, for every capacity of the queue, number of    *)
(* attempts and of operations in flight: in particular retry_handler       *)
(* (distance_fsm.c:146) counts no further than its maximum, and the UART's *)
(* slots (hal_uart.c:77) are never overdrawn.                              *)
THEOREM TypeCorrect == Spec => []TypeOK
BY InitType, StepType, PTL DEF Spec

-----------------------------------------------------------------------------
(* A pending read can end.  The one event that would be missed, the TIMEOUT*)
(* of an expired timer, is refused only by a full queue, and a full queue  *)
(* holds another event that ends the read: it is never full of READ        *)
(* requests alone.                                                         *)

ReadsBounded == Cardinality(Reads(inbox)) <= MaxQueuedReads

(* What a step does to the queue.                                          *)
LEMMA InboxStep ==
  ASSUME [Next]_vars
  PROVE  \/ inbox' = inbox
         \/ inbox # <<>> /\ inbox' = Tail(inbox)
         \/ \E e \in {"TIMEOUT", "FRAME_RECEIVED"} : inbox' = Posted(inbox, e)
         \/ Cardinality(Reads(inbox)) < MaxQueuedReads /\ inbox' = Posted(inbox, "READ")
<1>1. CASE AOStep
  BY <1>1 DEF AOStep, IdleRead, Ignore, ReadFrameReceived, ReadTimeout, UpdateValid,
              UpdateInvalid, UpdateCopy, Take
<1>2. CASE RequestRead
  BY <1>2 DEF RequestRead, QueuedReads, Reads
<1>3. CASE TimeoutHandler \/ CompletionThread
  BY <1>3 DEF TimeoutHandler, CompletionThread
<1>4. CASE \/ TimerExpires \/ WriteCompletes \/ ReadCompletes \/ ReadFails
           \/ SensorAnswers \/ UNCHANGED vars
  BY <1>4 DEF TimerExpires, WriteCompletes, ReadCompletes, ReadFails, SensorAnswers, vars
<1>5. QED
  BY <1>1, <1>2, <1>3, <1>4 DEF Next

(* No step queues more READ requests than the scheduler may have waiting.  *)
LEMMA StepReads == TypeOK /\ ReadsBounded /\ [Next]_vars => ReadsBounded'
<1> SUFFICES ASSUME TypeOK, ReadsBounded, [Next]_vars PROVE ReadsBounded'
  OBVIOUS
<1>q. inbox \in Seq(EventTypes) /\ MaxQueuedReads \in Nat
  BY SensorAssumption DEF TypeOK, EventTypes
<1>c. Cardinality(Reads(inbox)) \in Nat
  BY <1>q, ReadsFinite
<1>1. CASE inbox' = inbox
  BY <1>1 DEF ReadsBounded
<1>2. CASE inbox # <<>> /\ inbox' = Tail(inbox)
  <2>1. Tail(inbox) \in Seq(EventTypes)
    BY <1>2, <1>q
  <2>2. Cardinality(Reads(Tail(inbox))) \in Nat
    BY <2>1, ReadsFinite
  <2>3. QED
    BY <1>2, <1>q, <1>c, <2>2, ReadsTail DEF ReadsBounded
<1>3. CASE \E e \in {"TIMEOUT", "FRAME_RECEIVED"} : inbox' = Posted(inbox, e)
  <2>1. \A e \in {"TIMEOUT", "FRAME_RECEIVED"} : Reads(Append(inbox, e)) = Reads(inbox)
    BY <1>q, ReadsAppendOther DEF EventTypes
  <2>2. QED
    BY <1>3, <2>1 DEF ReadsBounded, Posted
<1>4. CASE Cardinality(Reads(inbox)) < MaxQueuedReads /\ inbox' = Posted(inbox, "READ")
  <2>1. Cardinality(Reads(Append(inbox, "READ"))) = Cardinality(Reads(inbox)) + 1
    BY <1>q, ReadsAppendRead DEF EventTypes
  <2>2. QED
    BY <1>4, <1>q, <1>c, <2>1 DEF ReadsBounded, Posted
<1>5. QED
  BY <1>1, <1>2, <1>3, <1>4, InboxStep

(* An event stays in the queue until it is taken.                          *)
LEMMA TakeKeeps ==
  ASSUME TypeOK, NEW e \in EventTypes, InInbox(e), NEW d, d # e, Take(d)
  PROVE  InInbox(e)'
<1>1. inbox \in Seq(EventTypes) /\ inbox # <<>> /\ Head(inbox) = d /\ inbox' = Tail(inbox)
  BY DEF Take, TypeOK, EventTypes
<1>2. PICK i \in DOMAIN inbox : inbox[i] = e
  BY DEF InInbox
<1>3. i \in 2 .. Len(inbox)
  BY <1>1, <1>2
<1>4. i - 1 \in 1 .. Len(Tail(inbox)) /\ Tail(inbox)[i - 1] = inbox[i]
  BY <1>1, <1>3
<1>5. QED
  BY <1>1, <1>2, <1>4 DEF InInbox

(* Posting removes nothing from the queue.                                 *)
LEMMA PostKeeps ==
  ASSUME TypeOK, NEW e \in EventTypes, InInbox(e), NEW d \in EventTypes, inbox' = Posted(inbox, d)
  PROVE  InInbox(e)'
<1>1. inbox \in Seq(EventTypes)
  BY DEF TypeOK, EventTypes
<1>2. PICK i \in DOMAIN inbox : inbox[i] = e
  BY DEF InInbox
<1>3. i \in DOMAIN Append(inbox, d) /\ Append(inbox, d)[i] = inbox[i]
  BY <1>1, <1>2
<1>4. QED
  BY <1>2, <1>3 DEF InInbox, Posted

(* A queue with room takes the event.                                      *)
LEMMA PostArrives ==
  ASSUME TypeOK, NEW d \in EventTypes, inbox' = Posted(inbox, d), Len(inbox) < QueueCapacity
  PROVE  InInbox(d)'
<1>1. inbox \in Seq(EventTypes)
  BY DEF TypeOK, EventTypes
<1>2. Len(inbox) + 1 \in DOMAIN Append(inbox, d) /\ Append(inbox, d)[Len(inbox) + 1] = d
  BY <1>1
<1>3. QED
  BY <1>2 DEF InInbox, Posted

(* Whether a TIMEOUT or FRAME_RECEIVED is posted or refused, the queue then*)
(* holds an event that ends a read.                                        *)
LEMMA PostEnds ==
  ASSUME MaxQueuedReads < QueueCapacity, TypeOK, ReadsBounded,
         NEW d \in {"TIMEOUT", "FRAME_RECEIVED"}, inbox' = Posted(inbox, d)
  PROVE  InInbox("TIMEOUT")' \/ InInbox("FRAME_RECEIVED")'
<1>1. CASE Len(inbox) < QueueCapacity
  BY <1>1, PostArrives DEF EventTypes
<1>2. CASE ~(Len(inbox) < QueueCapacity)
  <2>1. inbox \in Seq(EventTypes) /\ Len(inbox) = QueueCapacity
    BY <1>2, SensorAssumption DEF TypeOK, EventTypes
  <2>2. Cardinality(Reads(inbox)) < Len(inbox)
    BY <2>1, ReadsFinite, SensorAssumption DEF ReadsBounded
  <2>3. \E i \in DOMAIN inbox : inbox[i] \in {"TIMEOUT", "FRAME_RECEIVED"}
    BY <2>1, <2>2, NotOnlyReads
  <2>4. inbox' = inbox
    BY <1>2 DEF Posted
  <2>5. QED
    BY <2>3, <2>4 DEF InInbox
<1>3. QED
  BY <1>1, <1>2

(* Every step leaves a read something on its way that ends it: posting     *)
(* removes nothing, the TIMEOUT is lost only to a full queue, which is not *)
(* full of READ requests alone, and a taken event ends the read or starts  *)
(* another attempt.                                                        *)
LEMMA StepReadCanEnd ==
  ASSUME MaxQueuedReads < QueueCapacity
  PROVE  TypeOK /\ ReadsBounded /\ ReadCanEnd /\ [Next]_vars => ReadCanEnd'
<1> SUFFICES ASSUME TypeOK, ReadsBounded, ReadCanEnd, [Next]_vars PROVE ReadCanEnd'
  OBVIOUS
<1>u. uart \in Uarts
  BY DEF TypeOK, Uarts, Ops
<1>1. CASE IdleRead
  BY <1>1, <1>u, EnterReadType DEF IdleRead, ReadCanEnd
<1>2. CASE Ignore
  <2>1. SUFFICES ASSUME state = "READ", Take("READ"), UNCHANGED <<state, timer, late>>
                 PROVE  ReadCanEnd'
    BY <1>2 DEF Ignore, aoVars, ReadCanEnd
  <2>2. CASE timer \/ late > 0
    BY <2>1, <2>2 DEF ReadCanEnd
  <2>3. CASE InInbox("TIMEOUT") \/ InInbox("FRAME_RECEIVED")
    BY <2>1, <2>3, TakeKeeps DEF ReadCanEnd, EventTypes
  <2>4. QED
    BY <2>1, <2>2, <2>3 DEF ReadCanEnd
<1>3. CASE ReadFrameReceived \/ UpdateValid \/ UpdateCopy
  BY <1>3 DEF ReadFrameReceived, UpdateValid, UpdateCopy, EnterIdle, ReadCanEnd
<1>4. CASE ReadTimeout
  BY <1>4, <1>u, AbortedType, RetryType DEF ReadTimeout, ReadCanEnd
<1>5. CASE UpdateInvalid
  BY <1>5, <1>u, RetryType DEF UpdateInvalid, ReadCanEnd
<1>6. CASE RequestRead
  <2>1. inbox' = Posted(inbox, "READ") /\ UNCHANGED <<state, timer, late>>
    BY <1>6 DEF RequestRead, aoVars
  <2>2. CASE InInbox("TIMEOUT") \/ InInbox("FRAME_RECEIVED")
    BY <2>1, <2>2, PostKeeps DEF ReadCanEnd, EventTypes
  <2>3. QED
    BY <2>1, <2>2 DEF ReadCanEnd
<1>7. CASE TimerExpires
  BY <1>7 DEF TimerExpires, ReadCanEnd, TypeOK
<1>8. CASE TimeoutHandler
  BY <1>8, PostEnds DEF TimeoutHandler, ReadCanEnd
<1>9. CASE CompletionThread
  <2>1. inbox' = Posted(inbox, "FRAME_RECEIVED") \/ inbox' = inbox
    BY <1>9 DEF CompletionThread
  <2>2. CASE inbox' = Posted(inbox, "FRAME_RECEIVED")
    BY <2>2, PostEnds DEF ReadCanEnd
  <2>3. CASE inbox' = inbox
    BY <1>9, <2>3 DEF CompletionThread, aoVars, ReadCanEnd, InInbox
  <2>4. QED
    BY <2>1, <2>2, <2>3
<1>10. CASE WriteCompletes \/ ReadCompletes \/ ReadFails \/ SensorAnswers \/ UNCHANGED vars
  BY <1>10 DEF WriteCompletes, ReadCompletes, ReadFails, SensorAnswers, vars, aoVars,
               ReadCanEnd, InInbox
<1>11. QED
  BY <1>1, <1>2, <1>3, <1>4, <1>5, <1>6, <1>7, <1>8, <1>9, <1>10 DEF Next, AOStep

(* A pending read can always end, provided the READ requests that may be   *)
(* waiting do not fill the queue by themselves: timeout_handler            *)
(* (distance_fsm.c:161) drops its TIMEOUT only when the queue is full, and *)
(* then the queue holds another event that ends the read.                  *)
THEOREM ReadEndable ==
  ASSUME MaxQueuedReads < QueueCapacity
  PROVE  Spec => []ReadCanEnd
<1>1. Init => ReadsBounded
  <2> SUFFICES ASSUME Init PROVE ReadsBounded
    OBVIOUS
  <2>1. Reads(inbox) = {}
    BY DEF Init, InitIn, Reads
  <2>2. QED
    BY <2>1, FS_EmptySet, SensorAssumption DEF ReadsBounded
<1>2. Init => ReadCanEnd
  BY DEF Init, InitIn, ReadCanEnd
<1>3. QED
  BY <1>1, <1>2, InitType, StepType, StepReads, StepReadCanEnd, PTL DEF Spec

-----------------------------------------------------------------------------
(* No answer is accepted twice.  The times of what is on the line, in the  *)
(* buffer and in the object are in order, stale, garbled and partial       *)
(* answers included: a head that can still arrive is later than all that   *)
(* was accepted or is in the buffer.                                       *)

TimesInOrder ==
  /\ systemTime <= answered /\ resp[1].time <= answered
  /\ resp[1].part = "head" => systemTime <= resp[1].time
  /\ \A i \in DOMAIN line :
       /\ line[i].time <= answered
       /\ line[i].part = "head" => systemTime < line[i].time /\ resp[1].time < line[i].time
  /\ \A i, j \in DOMAIN line : i < j /\ line[j].part = "head" => line[i].time < line[j].time

(* The types the times of answers are read at.                             *)
LEMMA Times ==
  ASSUME TypeOK
  PROVE  /\ line \in Seq(Pieces) /\ systemTime \in Nat /\ answered \in Nat
         /\ resp \in [1 .. 2 -> Pieces] /\ resp[1] \in Pieces
         /\ \A p \in Pieces : p.time \in Nat
BY SensorAssumption, SMTT(30) DEF TypeOK, Pieces, Piece, Junk

(* What is on the line, or read from it, was answered later than what was  *)
(* accepted, or is what was accepted last.                                 *)
LEMMA StepTimes == TypeOK /\ TimesInOrder /\ [Next]_vars => TimesInOrder'
<1> SUFFICES ASSUME TypeOK, TimesInOrder, [Next]_vars PROVE TimesInOrder'
  OBVIOUS
<1>1. CASE UpdateCopy
  <2>1. systemTime' = resp[1].time /\ UNCHANGED <<resp, line, answered>>
    BY <1>1 DEF UpdateCopy, sensorVars
  <2>2. QED
    BY <2>1, Times DEF TimesInOrder
<1>2. CASE ReadCompletes
  <2>1. PICK n \in 1 .. 2 :
          /\ n <= Len(line)
          /\ resp' = [i \in 1 .. 2 |-> IF i <= n THEN line[i] ELSE resp[i]]
          /\ line' = SubSeq(line, n + 1, Len(line))
    BY <1>2 DEF ReadCompletes
  <2>2. UNCHANGED <<systemTime, answered>>
    BY <1>2 DEF ReadCompletes, aoVars
  <2>3. resp'[1] = line[1] /\ 1 \in DOMAIN line
    BY <2>1, Times
  <2>4. /\ DOMAIN line' = 1 .. Len(line) - n
        /\ \A i \in DOMAIN line' : /\ line'[i] = line[n + i]
                                  /\ n + i \in DOMAIN line
                                  /\ 1 < n + i
    <3>1. line \in Seq(Pieces) /\ Len(line) \in Nat
      BY Times
    <3>2. /\ line' \in Seq(Pieces) /\ Len(line') = Len(line) - n
          /\ \A i \in 1 .. Len(line) - n : line'[i] = line[n + i]
      BY <2>1, <3>1, LineRest
    <3>3. DOMAIN line' = 1 .. Len(line) - n
      BY <3>2
    <3>4. \A i \in 1 .. Len(line) - n : n + i \in 1 .. Len(line) /\ 1 < n + i
      BY <2>1, <3>1
    <3>5. QED
      BY <3>1, <3>2, <3>3, <3>4
  <2>5. \A i, j \in DOMAIN line' : i < j => n + i < n + j
    BY <2>1, <2>4, Times
  <2>6. QED
    BY <2>2, <2>3, <2>4, <2>5, Times, SMTT(30) DEF TimesInOrder
<1>3. CASE SensorAnswers
  <2>1. PICK b \in {Piece(answered + 1, "tail"), Junk} :
          line' = line \o <<Piece(answered + 1, "head"), b>>
    BY <1>3 DEF SensorAnswers
  <2>2. answered' = answered + 1 /\ answered < MaxAnswers /\ UNCHANGED <<systemTime, resp>>
    BY <1>3 DEF SensorAnswers, aoVars
  <2>3. Piece(answered + 1, "head") \in Pieces /\ b \in Pieces
    BY <2>1, <2>2, Times, SensorAssumption, SMTT(30) DEF Pieces
  <2>4. b.part # "head" /\ b.time <= answered + 1
    BY Times DEF Piece, Junk
  <2>5. Piece(answered + 1, "head").time = answered + 1
    BY DEF Piece
  <2>6. /\ DOMAIN line' = 1 .. Len(line) + 2
        /\ \A i \in 1 .. Len(line) : line'[i] = line[i]
        /\ line'[Len(line) + 1] = Piece(answered + 1, "head")
        /\ line'[Len(line) + 2] = b
    BY <2>1, <2>3, LineMore, Times
  <2>7. \A i \in DOMAIN line' : i \in DOMAIN line \/ i = Len(line) + 1 \/ i = Len(line) + 2
    <3>1. DOMAIN line = 1 .. Len(line) /\ Len(line) \in Nat
      BY Times
    <3>2. QED
      BY <2>6, <3>1
  <2>8. \A i \in DOMAIN line' :
          /\ line'[i].time <= answered'
          /\ line'[i].part = "head" => systemTime' < line'[i].time /\ resp'[1].time < line'[i].time
    BY <2>2, <2>4, <2>5, <2>6, <2>7, Times, SMTT(30) DEF TimesInOrder
  <2>9. \A i, j \in DOMAIN line' : i < j /\ line'[j].part = "head" => line'[i].time < line'[j].time
    <3>1. DOMAIN line = 1 .. Len(line) /\ Len(line) \in Nat /\ answered \in Nat
      BY Times
    <3>2. SUFFICES ASSUME NEW i \in DOMAIN line', NEW j \in DOMAIN line', i < j, line'[j].part = "head"
                   PROVE  line'[i].time < line'[j].time
      OBVIOUS
    <3>3. CASE j \in DOMAIN line
      BY <2>6, <3>1, <3>2, <3>3 DEF TimesInOrder
    <3>4. CASE j = Len(line) + 1
      <4>1. i \in DOMAIN line
        BY <2>6, <3>1, <3>2, <3>4
      <4>2. line'[i].time <= answered /\ line'[i].time \in Nat
        BY <2>6, <3>1, <4>1, Times DEF TimesInOrder
      <4>3. QED
        BY <2>5, <2>6, <3>1, <3>4, <4>2
    <3>5. CASE j = Len(line) + 2
      BY <2>4, <2>6, <3>2, <3>5
    <3>6. QED
      BY <2>7, <3>3, <3>4, <3>5
  <2>10. QED
    BY <2>2, <2>8, <2>9, Times DEF TimesInOrder
<1>4. CASE \/ IdleRead \/ Ignore \/ ReadFrameReceived \/ ReadTimeout \/ UpdateValid \/ UpdateInvalid
           \/ RequestRead \/ TimerExpires \/ TimeoutHandler \/ CompletionThread
           \/ WriteCompletes \/ ReadFails \/ UNCHANGED vars
  <2>1. UNCHANGED <<systemTime, resp, line, answered>>
    BY <1>4 DEF IdleRead, Ignore, ReadFrameReceived, ReadTimeout, UpdateValid, UpdateInvalid,
                RequestRead, TimerExpires, TimeoutHandler, CompletionThread, WriteCompletes,
                ReadFails, vars, aoVars, sensorVars
  <2>2. QED
    BY <2>1 DEF TimesInOrder
<1>5. QED
  BY <1>1, <1>2, <1>3, <1>4 DEF Next, AOStep

(* The guard of is_frame_valid refuses what was accepted last; what        *)
(* remains is later.                                                       *)
LEMMA StepNoReplay ==
  TypeOK /\ TimesInOrder /\ [Next]_vars =>
    [state = "UPDATE" /\ state' = "COPY" => resp[1].time > systemTime]_vars
<1> SUFFICES ASSUME TypeOK, TimesInOrder, [Next]_vars, state = "UPDATE", state' = "COPY"
             PROVE  resp[1].time > systemTime
  OBVIOUS
<1>1. UpdateValid
  <2>1. CASE UpdateInvalid
    BY <2>1 DEF UpdateInvalid, RetryHandler, EnterRead, EnterIdle
  <2>2. QED
    BY <2>1 DEF Next, AOStep, IdleRead, Ignore, ReadFrameReceived, ReadTimeout, UpdateCopy,
                EnterIdle, RequestRead, TimerExpires, TimeoutHandler, CompletionThread,
                WriteCompletes, ReadCompletes, ReadFails, SensorAnswers, vars, aoVars
<1>2. resp[1].part = "head" /\ resp[1].time # systemTime
  BY <1>1 DEF UpdateValid, IsFrameValid, Whole
<1>3. QED
  BY <1>2, Times DEF TimesInOrder

(* The stale-response guard (distance_fsm.c:109-113 and gps_fsm.c:213) is  *)
(* enough, for any number of reads in flight and of answers.               *)
THEOREM ReplayFree == Spec => NoReplay
<1>1. Init => TimesInOrder
  BY DEF Init, InitIn, TimesInOrder, Junk, Piece
<1>2. QED
  BY <1>1, InitType, StepType, StepTimes, StepNoReplay, PTL DEF Spec, NoReplay


-----------------------------------------------------------------------------
(* The configuration of the GPS receiver *)

GpsEvents == {"READ", "TIMEOUT", "FRAME_RECEIVED", "CONFIGURED"}
Inboxes   == {q \in Seq(GpsEvents) : Len(q) <= QueueCapacity}
Quiet     == {"INIT", "ERROR"}

(* The messages up to the n-th, in order.                                  *)
Steps(n) == [i \in 1 .. n |-> i]

(* Until the receiver is configured nothing of the reading protocol is     *)
(* under way.                                                              *)
NothingRead == state \in Quiet => ~timer /\ late = 0 /\ uart = NoOps /\ asked = 0

(* The completion of a write is in one place at a time: with the kernel,   *)
(* with the completion thread, or in the queue; and what has been sent     *)
(* when it is there.                                                       *)
OneMessage ==
  /\ InInbox("CONFIGURED") => state = "INIT" /\ configWrite = "none"
  /\ configWrite # "none" => state = "INIT"
  /\ \A i, j \in DOMAIN inbox : inbox[i] = "CONFIGURED" /\ inbox[j] = "CONFIGURED" => i = j

SentInOrder ==
  /\ state = "INIT" => configStep <= ConfigSteps
  /\ configWrite = "submitted" => transmitBuf = configStep /\ sent = Steps(configStep - 1)
  /\ configWrite = "sent" \/ InInbox("CONFIGURED") => sent = Steps(configStep)
  /\ state \notin Quiet => sent = Steps(ConfigSteps)

GpsIInv == GpsTypeOK /\ NothingRead /\ OneMessage /\ SentInOrder

-----------------------------------------------------------------------------
(* Queues *)

(* Taking an event brings no event into the queue; if there was only one   *)
(* CONFIGURED and it has been taken, none is left.                         *)
LEMMA TailEvents ==
  ASSUME NEW q \in Inboxes, q # <<>>
  PROVE  /\ Tail(q) \in Inboxes
         /\ \A i \in DOMAIN Tail(q) : i + 1 \in DOMAIN q /\ Tail(q)[i] = q[i + 1] /\ i + 1 # 1
         /\ 1 \in DOMAIN q /\ Head(q) = q[1]
         /\ \A i, j \in DOMAIN Tail(q) : i + 1 = j + 1 => i = j
BY GpsAssumption, SensorAssumption DEF Inboxes

(* Posting adds at most the event posted.                                  *)
LEMMA PostedEvents ==
  ASSUME NEW q \in Inboxes, NEW e \in GpsEvents
  PROVE  /\ Posted(q, e) \in Inboxes
         /\ \A i \in DOMAIN Posted(q, e) :
              \/ i \in DOMAIN q /\ Posted(q, e)[i] = q[i]
              \/ i = Len(q) + 1 /\ Posted(q, e)[i] = e
BY SensorAssumption DEF Inboxes, Posted

(* What Steps says of one message more.                                    *)
LEMMA OneMore ==
  ASSUME NEW n \in Nat \ {0}
  PROVE  Append(Steps(n - 1), n) = Steps(n)
<1>1. Steps(n - 1) \in Seq(Nat) /\ Len(Steps(n - 1)) = n - 1
  BY DEF Steps
<1>2. /\ Append(Steps(n - 1), n) \in Seq(Nat) /\ Steps(n) \in Seq(Nat)
      /\ Len(Append(Steps(n - 1), n)) = n /\ Len(Steps(n)) = n
  BY <1>1 DEF Steps
<1>3. \A i \in 1 .. n : Append(Steps(n - 1), n)[i] = Steps(n)[i]
  BY <1>1 DEF Steps
<1>4. QED
  BY <1>2, <1>3

-----------------------------------------------------------------------------
(* The first message is sent, or refused, or there is no timer.            *)
LEMMA GpsStart == GpsInit => GpsIInv
<1> SUFFICES ASSUME GpsInit PROVE GpsIInv
  OBVIOUS
<1> USE GpsAssumption, SensorAssumption DEF GpsInit, InitIn
<1>1. GpsTypeOK
  <2>1. inbox \in Seq(GpsEvents) /\ Len(inbox) <= QueueCapacity /\ sent \in Seq(1 .. ConfigSteps)
    <3>1. inbox = <<>> /\ sent = <<>>
      OBVIOUS
    <3>2. <<>> \in Seq(GpsEvents) /\ <<>> \in Seq(1 .. ConfigSteps) /\ Len(<<>>) = 0
      OBVIOUS
    <3>3. 0 <= QueueCapacity
      OBVIOUS
    <3>4. QED
      BY <3>1, <3>2, <3>3
  <2>2. /\ retry \in 0 .. RetryMax - 1 /\ configStep \in 1 .. ConfigSteps + 1
        /\ transmitBuf \in 1 .. ConfigSteps /\ failures \in 0 .. ConfigFailures
    OBVIOUS
  <2>3. /\ state \in {"INIT", "ERROR", "IDLE", "READ", "UPDATE", "COPY"}
        /\ configWrite \in {"none", "submitted", "sent", "failed"}
    OBVIOUS
  <2>4. QED
    BY <2>1, <2>2, <2>3 DEF GpsTypeOK, GpsEvents
<1>2. NothingRead
  BY DEF NothingRead, Quiet
<1>3. inbox = <<>> /\ ~InInbox("CONFIGURED")
  BY DEF InInbox
<1>4. OneMessage
  BY <1>3 DEF OneMessage
<1>5. sent = Steps(0)
  BY DEF Steps
<1>6. SentInOrder
  BY <1>3, <1>5 DEF SentInOrder, Quiet
<1>7. QED
  BY <1>1, <1>2, <1>4, <1>6 DEF GpsIInv

-----------------------------------------------------------------------------
(* The configuration *)

(* Sending a message while no other is under way, the ones before it sent. *)
LEMMA ConfiguredStep == GpsIInv /\ InitConfigured => GpsIInv'
<1> SUFFICES ASSUME GpsIInv, InitConfigured PROVE GpsIInv'
  OBVIOUS
<1> USE GpsAssumption, SensorAssumption
<1>q. inbox \in Inboxes
  BY DEF GpsIInv, GpsTypeOK, Inboxes, GpsEvents
<1>1. inbox # <<>> /\ inbox[1] = "CONFIGURED" /\ inbox' = Tail(inbox) /\ state = "INIT"
  BY <1>q, TailEvents DEF InitConfigured, Take
<1>2. InInbox("CONFIGURED")
  BY <1>1, <1>q, TailEvents DEF InInbox
<1>3. configWrite = "none" /\ sent = Steps(configStep) /\ configStep \in 1 .. ConfigSteps
  BY <1>1, <1>2 DEF GpsIInv, GpsTypeOK, OneMessage, SentInOrder
<1>4. ~InInbox("CONFIGURED")' /\ inbox' \in Inboxes
  BY <1>1, <1>q, TailEvents DEF InInbox, GpsIInv, OneMessage
<1>5. configStep' = configStep + 1 /\ sent' = sent /\ configStep' - 1 = configStep
  BY <1>3 DEF InitConfigured
<1>6. UNCHANGED <<timer, late, uart, asked>>
  BY DEF InitConfigured, sensorVars
<1>7. CASE configStep' <= ConfigSteps /\ ConfigSendCurrentStep(configStep') /\ UNCHANGED <<state, retry>>
  <2>1. /\ transmitBuf' = configStep'
        /\ \/ configWrite' = "submitted" /\ failures' = failures
           \/ failures < ConfigFailures /\ failures' = failures + 1 /\ configWrite' = "none"
    BY <1>7 DEF ConfigSendCurrentStep
  <2>2. GpsTypeOK'
    BY <1>3, <1>4, <1>5, <1>7, <2>1, SMTT(30) DEF GpsIInv, GpsTypeOK, Inboxes, GpsEvents
  <2>3. NothingRead'
    BY <1>6, <1>7 DEF GpsIInv, NothingRead
  <2>4. OneMessage'
    BY <1>1, <1>4, <1>7 DEF OneMessage, InInbox
  <2>5. SentInOrder'
    BY <1>1, <1>3, <1>4, <1>5, <1>7, <2>1 DEF SentInOrder, Quiet
  <2>6. QED
    BY <2>2, <2>3, <2>4, <2>5 DEF GpsIInv
<1>8. CASE /\ configStep' > ConfigSteps /\ state' = "IDLE" /\ retry' = 0
           /\ UNCHANGED <<configWrite, transmitBuf, failures>>
  <2>1. configStep = ConfigSteps
    BY <1>3, <1>5, <1>8
  <2>2. GpsTypeOK'
    BY <1>3, <1>4, <1>5, <1>8, <2>1, SMTT(30) DEF GpsIInv, GpsTypeOK, Inboxes, GpsEvents
  <2>3. NothingRead'
    BY <1>8 DEF NothingRead, Quiet
  <2>4. OneMessage'
    BY <1>3, <1>4, <1>8 DEF OneMessage, InInbox
  <2>5. SentInOrder'
    BY <1>3, <1>4, <1>5, <1>8, <2>1 DEF SentInOrder, Quiet
  <2>6. QED
    BY <2>2, <2>3, <2>4, <2>5 DEF GpsIInv
<1>9. QED
  BY <1>7, <1>8 DEF InitConfigured

(* The kernel sends what the buffer holds: the message it was filled with. *)
LEMMA WriteStep == GpsIInv /\ ConfigWriteCompletes => GpsIInv'
<1> SUFFICES ASSUME GpsIInv, ConfigWriteCompletes PROVE GpsIInv'
  OBVIOUS
<1> USE GpsAssumption, SensorAssumption
<1>1. /\ configWrite = "submitted" /\ state = "INIT" /\ ~InInbox("CONFIGURED")
      /\ transmitBuf = configStep /\ sent = Steps(configStep - 1) /\ configStep \in 1 .. ConfigSteps
  BY DEF ConfigWriteCompletes, GpsIInv, GpsTypeOK, OneMessage, SentInOrder
<1>2. UNCHANGED <<state, inbox, retry, timer, late, uart, asked, configStep, transmitBuf>>
  BY DEF ConfigWriteCompletes, vars
<1>3. \/ configWrite' = "sent" /\ sent' = Append(sent, transmitBuf) /\ failures' = failures
      \/ /\ configWrite' = "failed" /\ sent' = sent
         /\ failures < ConfigFailures /\ failures' = failures + 1
  BY DEF ConfigWriteCompletes
<1>4. configWrite' = "sent" => sent' = Steps(configStep)
  <2>1. configStep \in Nat \ {0}
    BY <1>1
  <2>2. Append(sent, transmitBuf) = Steps(configStep)
    BY <1>1, <2>1, OneMore
  <2>3. QED
    BY <1>3, <2>2
<1>5. GpsTypeOK'
  <2>1. sent' \in Seq(1 .. ConfigSteps)
    <3>1. sent \in Seq(1 .. ConfigSteps) /\ transmitBuf \in 1 .. ConfigSteps
      BY DEF GpsIInv, GpsTypeOK
    <3>2. Append(sent, transmitBuf) \in Seq(1 .. ConfigSteps)
      BY <3>1
    <3>3. QED
      BY <1>3, <3>1, <3>2
  <2>2. failures' \in 0 .. ConfigFailures /\ configWrite' \in {"none", "submitted", "sent", "failed"}
    BY <1>3 DEF GpsIInv, GpsTypeOK
  <2>3. QED
    BY <1>2, <2>1, <2>2 DEF GpsIInv, GpsTypeOK
<1>6. NothingRead'
  BY <1>2 DEF GpsIInv, NothingRead
<1>7. OneMessage'
  BY <1>1, <1>2 DEF GpsIInv, OneMessage, InInbox
<1>8. SentInOrder'
  BY <1>1, <1>2, <1>3, <1>4 DEF SentInOrder, InInbox, Quiet
<1>9. QED
  BY <1>5, <1>6, <1>7, <1>8 DEF GpsIInv

(* The completion thread passes the write on, or drops a failed one.       *)
LEMMA DoneStep == GpsIInv /\ ConfigStepDone => GpsIInv'
<1> SUFFICES ASSUME GpsIInv, ConfigStepDone PROVE GpsIInv'
  OBVIOUS
<1> USE GpsAssumption, SensorAssumption
<1>q. inbox \in Inboxes
  BY DEF GpsIInv, GpsTypeOK, Inboxes, GpsEvents
<1>1. configWrite \in {"sent", "failed"} /\ state = "INIT" /\ ~InInbox("CONFIGURED")
  BY DEF ConfigStepDone, GpsIInv, OneMessage
<1>2. /\ UNCHANGED <<state, retry, timer, late, uart, asked>>
      /\ UNCHANGED <<configStep, transmitBuf, sent, failures>>
      /\ configWrite' = "none"
  BY DEF ConfigStepDone, aoVars, sensorVars
<1>3. \/ configWrite = "sent" /\ inbox' = Posted(inbox, "CONFIGURED")
      \/ inbox' = inbox
  BY DEF ConfigStepDone
<1>4. inbox' \in Inboxes
  BY <1>3, <1>q, PostedEvents DEF GpsEvents
<1>5. \A i \in DOMAIN inbox : inbox[i] # "CONFIGURED"
  BY <1>1 DEF InInbox
<1>6. \A i \in DOMAIN inbox' : inbox'[i] = "CONFIGURED" => i = Len(inbox) + 1 /\ configWrite = "sent"
  BY <1>3, <1>5, <1>q, PostedEvents DEF GpsEvents
<1>7. GpsTypeOK'
  BY <1>2, <1>4 DEF GpsIInv, GpsTypeOK, Inboxes, GpsEvents
<1>8. NothingRead'
  BY <1>2 DEF GpsIInv, NothingRead
<1>9. OneMessage'
  BY <1>1, <1>2, <1>6 DEF OneMessage, InInbox
<1>10. SentInOrder'
  <2>1. InInbox("CONFIGURED")' => configWrite = "sent"
    BY <1>6 DEF InInbox
  <2>2. QED
    BY <1>1, <1>2, <2>1 DEF GpsIInv, SentInOrder, Quiet
<1>11. QED
  BY <1>7, <1>8, <1>9, <1>10 DEF GpsIInv

-----------------------------------------------------------------------------
(* A step that leaves the configuration alone and puts no CONFIGURED into  *)
(* the queue keeps the invariant: of the rest it is enough to know that    *)
(* the types hold and that nothing is read in INIT or ERROR.               *)
LEMMA Elsewhere ==
  ASSUME GpsIInv, UNCHANGED gpsVars, GpsTypeOK', NothingRead',
         state' = state \/ (state \notin Quiet /\ state' \notin Quiet),
         \/ inbox' = inbox
         \/ inbox # <<>> /\ inbox' = Tail(inbox)
         \/ \E e \in GpsEvents \ {"CONFIGURED"} : inbox' = Posted(inbox, e)
  PROVE  GpsIInv'
<1> USE GpsAssumption, SensorAssumption
<1>q. inbox \in Inboxes
  BY DEF GpsIInv, GpsTypeOK, Inboxes, GpsEvents
<1>1. InInbox("CONFIGURED")' => InInbox("CONFIGURED")
  BY <1>q, TailEvents, PostedEvents DEF InInbox
<1>2. \A i, j \in DOMAIN inbox' : inbox'[i] = "CONFIGURED" /\ inbox'[j] = "CONFIGURED" => i = j
  <2>1. CASE inbox' = inbox
    BY <2>1 DEF GpsIInv, OneMessage
  <2>2. CASE inbox # <<>> /\ inbox' = Tail(inbox)
    BY <2>2, <1>q, TailEvents DEF GpsIInv, OneMessage
  <2>3. CASE \E e \in GpsEvents \ {"CONFIGURED"} : inbox' = Posted(inbox, e)
    BY <2>3, <1>q, PostedEvents DEF GpsIInv, OneMessage
  <2>4. QED
    BY <2>1, <2>2, <2>3
<1>3. OneMessage'
  BY <1>1, <1>2 DEF GpsIInv, OneMessage, gpsVars, Quiet
<1>4. SentInOrder'
  BY <1>1 DEF GpsIInv, SentInOrder, gpsVars, Quiet
<1>5. QED
  BY <1>3, <1>4 DEF GpsIInv

(* The types of a step that leaves the configuration alone.                *)
LEMMA TypesElsewhere ==
  ASSUME GpsIInv, UNCHANGED gpsVars,
         state' \in {"INIT", "ERROR", "IDLE", "READ", "UPDATE", "COPY"},
         retry' \in 0 .. RetryMax - 1,
         \/ inbox' = inbox
         \/ inbox # <<>> /\ inbox' = Tail(inbox)
         \/ \E e \in GpsEvents \ {"CONFIGURED"} : inbox' = Posted(inbox, e)
  PROVE  GpsTypeOK'
<1>1. inbox \in Inboxes
  BY DEF GpsIInv, GpsTypeOK, Inboxes, GpsEvents
<1>2. inbox' \in Inboxes
  <2>1. inbox # <<>> => Tail(inbox) \in Inboxes
    BY <1>1, TailEvents
  <2>2. \A e \in GpsEvents : Posted(inbox, e) \in Inboxes
    BY <1>1, PostedEvents
  <2>3. QED
    BY <1>1, <2>1, <2>2
<1>3. QED
  BY <1>2 DEF GpsIInv, GpsTypeOK, gpsVars, Inboxes, GpsEvents

(* READ requests in INIT and ERROR are dropped.                            *)
LEMMA IgnoreStep == GpsIInv /\ InitIgnore => GpsIInv'
<1> SUFFICES ASSUME GpsIInv, InitIgnore PROVE GpsIInv'
  OBVIOUS
<1>1. /\ UNCHANGED <<state, retry, timer, late, uart, asked>> /\ UNCHANGED gpsVars
      /\ inbox # <<>> /\ inbox' = Tail(inbox)
  BY DEF InitIgnore, Take, aoVars, sensorVars
<1>2. GpsTypeOK'
  BY <1>1, TypesElsewhere DEF GpsIInv, GpsTypeOK
<1>3. NothingRead'
  BY <1>1 DEF GpsIInv, NothingRead
<1>4. QED
  BY <1>1, <1>2, <1>3, Elsewhere

(* The states that read are left and entered among themselves only.        *)
LEMMA ReadingStep == GpsIInv /\ (Reading \/ CheckFrame \/ UpdateGpsFrame) => GpsIInv'
<1> SUFFICES ASSUME GpsIInv, Reading \/ CheckFrame \/ UpdateGpsFrame PROVE GpsIInv'
  OBVIOUS
<1>1. /\ AOStep /\ UNCHANGED gpsVars
  BY DEF Reading, CheckFrame, UpdateGpsFrame, AOStep
<1>2. state \in {"IDLE", "READ", "UPDATE", "COPY"} /\ state' \in {"IDLE", "READ", "UPDATE", "COPY"}
  BY <1>1 DEF AOStep, IdleRead, Ignore, ReadFrameReceived, ReadTimeout, UpdateValid,
              UpdateInvalid, UpdateCopy, RetryHandler, EnterRead, EnterIdle, aoVars
<1>3. inbox' = inbox \/ (inbox # <<>> /\ inbox' = Tail(inbox))
  BY <1>1 DEF AOStep, IdleRead, Ignore, ReadFrameReceived, ReadTimeout, UpdateValid,
              UpdateInvalid, UpdateCopy, Take
<1>4. retry' \in 0 .. RetryMax - 1
  <2>1. retry' = retry \/ retry' = 0 \/ (retry' = retry + 1 /\ retry + 1 < RetryMax)
    BY <1>1 DEF AOStep, IdleRead, Ignore, ReadFrameReceived, ReadTimeout, UpdateValid,
                UpdateInvalid, UpdateCopy, RetryHandler, EnterIdle, aoVars
  <2>2. QED
    BY <2>1, SensorAssumption DEF GpsIInv, GpsTypeOK
<1>5. GpsTypeOK'
  BY <1>1, <1>2, <1>3, <1>4, TypesElsewhere
<1>6. NothingRead'
  BY <1>2 DEF NothingRead, Quiet
<1>7. QED
  BY <1>1, <1>2, <1>3, <1>5, <1>6, Elsewhere DEF Quiet

(* Of the environment only a READ request is there before the receiver is  *)
(* configured.                                                             *)
LEMMA QuietAround == NothingRead /\ state \in Quiet /\ Around => RequestRead
<1> SUFFICES ASSUME NothingRead, state \in Quiet, Around PROVE RequestRead
  OBVIOUS
<1>1. ~timer /\ ~(late > 0) /\ ~(asked > 0) /\ uart = NoOps
  BY DEF NothingRead
<1>2. \A op \in Ops : ~(uart[op] > 0)
  BY <1>1 DEF NoOps, Ops
<1>3. QED
  BY <1>1, <1>2 DEF Around, TimerExpires, TimeoutHandler, CompletionThread, WriteCompletes,
                    ReadCompletes, ReadFails, SensorAnswers, Completes, Ops

(* A step of the environment keeps the invariant.                          *)
LEMMA AroundStep == GpsIInv /\ Around => GpsIInv'
<1> SUFFICES ASSUME GpsIInv, Around PROVE GpsIInv'
  OBVIOUS
<1>1. UNCHANGED gpsVars /\ state' = state /\ retry' = retry
  BY DEF Around, RequestRead, TimerExpires, TimeoutHandler, CompletionThread, WriteCompletes,
         ReadCompletes, ReadFails, SensorAnswers, aoVars
<1>2. inbox' = inbox \/ \E e \in GpsEvents \ {"CONFIGURED"} : inbox' = Posted(inbox, e)
  BY DEF Around, RequestRead, TimerExpires, TimeoutHandler, CompletionThread, WriteCompletes,
         ReadCompletes, ReadFails, SensorAnswers, GpsEvents
<1>3. GpsTypeOK'
  BY <1>1, <1>2, TypesElsewhere DEF GpsIInv, GpsTypeOK
<1>4. NothingRead'
  <2> SUFFICES ASSUME state \in Quiet PROVE UNCHANGED <<timer, late, uart, asked>> /\ NothingRead
    BY <1>1 DEF NothingRead
  <2>1. RequestRead /\ NothingRead
    BY QuietAround DEF GpsIInv
  <2>2. QED
    BY <2>1 DEF RequestRead, sensorVars
<1>5. QED
  BY <1>1, <1>2, <1>3, <1>4, Elsewhere

-----------------------------------------------------------------------------
LEMMA GpsStep == GpsIInv /\ [GpsNext]_allVars => GpsIInv'
<1> SUFFICES ASSUME GpsIInv, [GpsNext]_allVars PROVE GpsIInv'
  OBVIOUS
<1>1. CASE UNCHANGED allVars
  BY <1>1 DEF allVars, vars, gpsVars, GpsIInv, GpsTypeOK, NothingRead, OneMessage, SentInOrder,
              InInbox
<1>2. QED
  BY <1>1, ConfiguredStep, WriteStep, DoneStep, IgnoreStep, ReadingStep, AroundStep DEF GpsNext

(* A receiver that is read has been configured: config_step_done_handler   *)
(* and the CONFIGURED case of gps_init_state send the messages one by one  *)
(* out of config_transmit_buf, none skipped, repeated or overwritten while *)
(* it was being sent, for any number of messages and READ requests.        *)
THEOREM ReceiverConfigured == GpsSpec => []GpsInv
<1>1. GpsIInv => GpsInv
  <2>1. Steps(ConfigSteps) = [i \in 1 .. ConfigSteps |-> i]
    BY DEF Steps
  <2>2. QED
    BY <2>1 DEF GpsIInv, SentInOrder, Quiet, GpsInv, ReadsOnlyConfigured
<1>2. QED
  BY <1>1, GpsStart, GpsStep, PTL DEF GpsSpec

-----------------------------------------------------------------------------
(* Reading.  The variables of SensorRead have its types from the start;    *)
(* its whole TypeOK holds when the receiver is configured.                 *)

RestOK ==
  /\ systemTime \in 0 .. MaxAnswers
  /\ frame \in [valid : BOOLEAN, data : [1 .. 2 -> Pieces]]
  /\ timer \in BOOLEAN /\ late \in 0 .. MaxLate
  /\ uart \in [Ops -> 0 .. MaxInFlight] /\ InUse(uart) <= MaxInFlight
  /\ mixed \in BOOLEAN
  /\ resp \in [1 .. 2 -> Pieces]
  /\ asked \in 0 .. MaxAnswers /\ line \in Seq(Pieces) /\ answered \in 0 .. MaxAnswers

restVars == <<systemTime, frame, timer, late, uart, mixed, resp, asked, line, answered>>

ReadingIInv ==
  /\ GpsIInv
  /\ RestOK
  /\ ReadsBounded
  /\ MaxQueuedReads < QueueCapacity => ReadCanEnd
  /\ TimesInOrder

LEMMA AsSensor == GpsIInv /\ RestOK /\ state \notin Quiet => TypeOK
<1> SUFFICES ASSUME GpsIInv, RestOK, state \notin Quiet PROVE TypeOK
  OBVIOUS
<1>1. inbox \in Seq(GpsEvents) /\ \A i \in DOMAIN inbox : inbox[i] # "CONFIGURED"
  BY DEF GpsIInv, GpsTypeOK, OneMessage, InInbox, Quiet, GpsEvents
<1>2. \A i \in 1 .. Len(inbox) : inbox[i] \in EventTypes
  BY <1>1 DEF GpsEvents, EventTypes
<1>3. inbox \in Seq(EventTypes)
  BY <1>1, <1>2
<1>4. QED
  BY <1>3 DEF GpsIInv, GpsTypeOK, RestOK, TypeOK, EventTypes, Ops, Quiet

(* A configured receiver: every step is one of SensorRead, or none to it.  *)
LEMMA ConfiguredSteps == GpsIInv /\ state \notin Quiet /\ [GpsNext]_allVars => [Next]_vars
<1> SUFFICES ASSUME GpsIInv, state \notin Quiet, [GpsNext]_allVars PROVE [Next]_vars
  OBVIOUS
<1>1. configWrite = "none"
  BY DEF GpsIInv, OneMessage, Quiet
<1>2. ~InitConfigured /\ ~InitIgnore /\ ~ConfigWriteCompletes /\ ~ConfigStepDone
  BY <1>1 DEF InitConfigured, InitIgnore, ConfigWriteCompletes, ConfigStepDone, Quiet
<1>3. CASE Reading \/ CheckFrame \/ UpdateGpsFrame \/ Around
  BY <1>3 DEF Reading, CheckFrame, UpdateGpsFrame, Around, Next, AOStep
<1>4. CASE UNCHANGED allVars
  BY <1>4 DEF allVars
<1>5. QED
  BY <1>2, <1>3, <1>4 DEF GpsNext

(* Before, only the configuration and the queue change.                    *)
LEMMA QuietSteps ==
  ASSUME GpsIInv, state \in Quiet, [GpsNext]_allVars
  PROVE  /\ UNCHANGED restVars
         /\ state' \in Quiet \cup {"IDLE"}
         /\ \/ inbox' = inbox
            \/ inbox # <<>> /\ inbox' = Tail(inbox)
            \/ inbox' = Posted(inbox, "CONFIGURED")
            \/ QueuedReads < MaxQueuedReads /\ inbox' = Posted(inbox, "READ")
<1>1. CASE InitConfigured
  BY <1>1 DEF InitConfigured, Take, restVars, sensorVars, Quiet
<1>2. CASE InitIgnore
  BY <1>2 DEF InitIgnore, Take, restVars, aoVars, sensorVars, Quiet
<1>3. CASE ConfigWriteCompletes
  BY <1>3 DEF ConfigWriteCompletes, restVars, vars, Quiet
<1>4. CASE ConfigStepDone
  BY <1>4 DEF ConfigStepDone, restVars, aoVars, sensorVars, Quiet
<1>5. CASE Around
  <2>1. RequestRead
    BY <1>5, QuietAround DEF GpsIInv
  <2>2. QED
    BY <2>1 DEF RequestRead, restVars, aoVars, sensorVars, Quiet
<1>6. CASE UNCHANGED allVars
  BY <1>6 DEF allVars, vars, restVars, Quiet
<1>7. ~(Reading \/ CheckFrame \/ UpdateGpsFrame)
  BY DEF Reading, CheckFrame, UpdateGpsFrame, IdleRead, Ignore, ReadFrameReceived, ReadTimeout,
         UpdateValid, UpdateInvalid, UpdateCopy, Quiet
<1>8. QED
  BY <1>1, <1>2, <1>3, <1>4, <1>5, <1>6, <1>7 DEF GpsNext

(* READ requests that come during the configuration are as few as later.   *)
LEMMA QuietReads ==
  ASSUME GpsIInv, ReadsBounded, state \in Quiet, [GpsNext]_allVars
  PROVE  ReadsBounded'
<1>q. inbox \in Seq(GpsEvents) /\ MaxQueuedReads \in Nat
  BY SensorAssumption DEF GpsIInv, GpsTypeOK, GpsEvents
<1>c. Cardinality(Reads(inbox)) \in Nat
  BY <1>q, ReadsFinite
<1>1. CASE inbox' = inbox
  BY <1>1 DEF ReadsBounded
<1>2. CASE inbox # <<>> /\ inbox' = Tail(inbox)
  <2>1. Tail(inbox) \in Seq(GpsEvents)
    BY <1>2, <1>q
  <2>2. Cardinality(Reads(Tail(inbox))) \in Nat
    BY <2>1, ReadsFinite
  <2>3. QED
    BY <1>2, <1>q, <1>c, <2>2, ReadsTail DEF ReadsBounded
<1>3. CASE inbox' = Posted(inbox, "CONFIGURED")
  <2>1. Reads(Append(inbox, "CONFIGURED")) = Reads(inbox)
    BY <1>q, ReadsAppendOther DEF GpsEvents
  <2>2. QED
    BY <1>3, <2>1 DEF ReadsBounded, Posted
<1>4. CASE QueuedReads < MaxQueuedReads /\ inbox' = Posted(inbox, "READ")
  <2>1. Cardinality(Reads(Append(inbox, "READ"))) = Cardinality(Reads(inbox)) + 1
    BY <1>q, ReadsAppendRead DEF GpsEvents
  <2>2. Cardinality(Reads(inbox)) < MaxQueuedReads
    BY <1>4 DEF QueuedReads, Reads
  <2>3. QED
    BY <1>4, <1>q, <1>c, <2>1, <2>2 DEF ReadsBounded, Posted
<1>5. QED
  BY <1>1, <1>2, <1>3, <1>4, QuietSteps

(* The steps before and after the configuration.                           *)
LEMMA ReadingInvStep == ReadingIInv /\ [GpsNext]_allVars => ReadingIInv'
<1> SUFFICES ASSUME ReadingIInv, [GpsNext]_allVars PROVE ReadingIInv'
  OBVIOUS
<1>1. GpsIInv'
  BY GpsStep DEF ReadingIInv
<1>2. CASE state \in Quiet
  <2>1. UNCHANGED restVars /\ state' # "READ"
    BY <1>2, QuietSteps DEF ReadingIInv, Quiet
  <2>2. ReadsBounded'
    BY <1>2, QuietReads DEF ReadingIInv
  <2>3. RestOK' /\ TimesInOrder'
    BY <2>1 DEF restVars, ReadingIInv, RestOK, TimesInOrder
  <2>4. QED
    BY <1>1, <2>1, <2>2, <2>3 DEF ReadingIInv, ReadCanEnd
<1>3. CASE state \notin Quiet
  <2>1. TypeOK /\ [Next]_vars
    BY <1>3, AsSensor, ConfiguredSteps DEF ReadingIInv
  <2>2. TypeOK' /\ ReadsBounded' /\ TimesInOrder'
    BY <2>1, StepType, StepReads, StepTimes DEF ReadingIInv
  <2>3. RestOK'
    BY <2>2 DEF RestOK, TypeOK, Ops
  <2>4. MaxQueuedReads < QueueCapacity => ReadCanEnd'
    BY <2>1, StepReadCanEnd DEF ReadingIInv
  <2>5. QED
    BY <1>1, <2>2, <2>3, <2>4 DEF ReadingIInv
<1>4. QED
  BY <1>2, <1>3

LEMMA ReadingStart == GpsInit => ReadingIInv
<1> SUFFICES ASSUME GpsInit PROVE ReadingIInv
  OBVIOUS
<1>1. PICK first \in {"INIT", "ERROR"} : InitIn(first)
  BY DEF GpsInit
<1>2. RestOK
  <2>1. <<Junk, Junk>> \in [1 .. 2 -> Pieces]
    BY DEF Pieces
  <2>2. NoOps \in [Ops -> 0 .. MaxInFlight] /\ InUse(NoOps) <= MaxInFlight
    BY SensorAssumption DEF NoOps, Ops, InUse
  <2>3. /\ systemTime \in 0 .. MaxAnswers /\ asked \in 0 .. MaxAnswers
        /\ answered \in 0 .. MaxAnswers /\ late \in 0 .. MaxLate
    BY <1>1, SensorAssumption DEF InitIn
  <2>4. line \in Seq(Pieces)
    BY <1>1 DEF InitIn
  <2>5. QED
    BY <1>1, <2>1, <2>2, <2>3, <2>4 DEF InitIn, RestOK
<1>3. ReadsBounded
  <2>1. Reads(inbox) = {}
    BY <1>1 DEF InitIn, Reads
  <2>2. QED
    BY <2>1, FS_EmptySet, SensorAssumption DEF ReadsBounded
<1>4. ReadCanEnd /\ TimesInOrder
  BY <1>1 DEF InitIn, ReadCanEnd, TimesInOrder, Junk, Piece
<1>5. QED
  BY <1>2, <1>3, <1>4, GpsStart DEF ReadingIInv

(* A pending read of the receiver can always end, READ requests that were  *)
(* left over from the configuration included (gps_fsm.c, the read state).  *)
THEOREM GpsReadEndable ==
  ASSUME MaxQueuedReads < QueueCapacity
  PROVE  GpsSpec => []ReadCanEnd
<1>1. ReadingIInv => ReadCanEnd
  BY DEF ReadingIInv
<1>2. QED
  BY <1>1, ReadingStart, ReadingInvStep, PTL DEF GpsSpec

(* No answer of the receiver is accepted twice or after a later one        *)
(* (gps_fsm.c:213, the comparison of i_tow).                               *)
THEOREM GpsReplayFree == GpsSpec => NoReplay
<1>1. ReadingIInv /\ [GpsNext]_allVars =>
        [state = "UPDATE" /\ state' = "COPY" => resp[1].time > systemTime]_vars
  <2> SUFFICES ASSUME ReadingIInv, [GpsNext]_allVars, state = "UPDATE", state' = "COPY"
               PROVE  resp[1].time > systemTime
    OBVIOUS
  <2>1. TypeOK /\ [Next]_vars /\ vars' # vars
    BY AsSensor, ConfiguredSteps DEF ReadingIInv, Quiet, vars
  <2>2. QED
    BY <2>1, StepNoReplay DEF ReadingIInv
<1>2. QED
  BY <1>1, ReadingStart, ReadingInvStep, PTL DEF GpsSpec, NoReplay
=============================================================================
