-------------------------- MODULE StreamingProofs --------------------------
(***************************************************************************)
(* The streaming server, for every value of the constants.  First the      *)
(* WebSocket server by itself, which implements LossySession; then the     *)
(* whole program, every step of which is a step of the WebSocket server or *)
(* none to it, and its safety invariants, from one inductive invariant     *)
(* that says what is known at each point of main; last the Unix socket by  *)
(* itself, at the level of bytes.                                          *)
(***************************************************************************)
EXTENDS Streaming, Ipc, SequenceTheorems, TLAPS

-----------------------------------------------------------------------------
(***************************************************************************)
(* The WebSocket server.  The steps are proved about WsNext, so that they  *)
(* also hold of whatever takes its steps: no message that waits is         *)
(* forgotten, and the server implements LossySession.                      *)
(***************************************************************************)

(* The slot i places after slot t.                                         *)
Place(t, i) == IF t + i < QueueSize THEN t + i ELSE t + i - QueueSize

(* head is where tail and count say; only an open socket is registered,    *)
(* and nothing is left over from a session that has ended.                 *)
WsIInv ==
  /\ WsTypeOK
  /\ queue_head = Place(queue_tail, queue_count)
  /\ Connected => sock[client_wsi] = "open"
  /\ ~Connected => last = NoMessage
  /\ NoStrandedMessage

-----------------------------------------------------------------------------
(* The code's (i + 1) % WS_QUEUE_SIZE stays in the ring.                   *)
LEMMA AfterLemma ==
  ASSUME NEW i \in 0 .. QueueSize - 1
  PROVE  /\ After(i) \in 0 .. QueueSize - 1
         /\ After(i) = IF i + 1 = QueueSize THEN 0 ELSE i + 1
BY WsAssumption DEF After

(* Places within the ring: what % computes, and no two the same.           *)
LEMMA PlaceLemma ==
  ASSUME NEW t \in 0 .. QueueSize - 1
  PROVE  /\ \A i \in 0 .. QueueSize - 1 : Place(t, i) \in 0 .. QueueSize - 1
         /\ \A i \in 0 .. QueueSize - 1 : (t + i) % QueueSize = Place(t, i)
         /\ \A i, j \in 0 .. QueueSize - 1 : Place(t, i) = Place(t, j) => i = j
         /\ Place(t, QueueSize) = t
         /\ Place(t, 0) = t
<1>1. \A i \in 0 .. QueueSize - 1 : (t + i) % QueueSize = Place(t, i)
  <2> SUFFICES ASSUME NEW i \in 0 .. QueueSize - 1
               PROVE  (t + i) % QueueSize = Place(t, i)
    OBVIOUS
  <2>1. CASE t + i < QueueSize
    BY <2>1, WsAssumption DEF Place
  <2>2. CASE t + i >= QueueSize
    <3>1. t + i = QueueSize * 1 + (t + i - QueueSize)
      BY WsAssumption
    <3>2. t + i - QueueSize \in 0 .. QueueSize - 1
      BY <2>2, WsAssumption
    <3>3. QED
      BY <2>2, <3>1, <3>2, WsAssumption DEF Place
  <2>3. QED
    BY <2>1, <2>2, WsAssumption
<1>2. QED
  BY <1>1, WsAssumption DEF Place

(* The first n places from t on, as Waiting numbers them.                  *)
LEMMA PlacesLemma ==
  ASSUME NEW t \in 0 .. QueueSize - 1, NEW n \in 0 .. QueueSize, NEW i \in 1 .. n
  PROVE  /\ (t + i - 1) % QueueSize = Place(t, i - 1)
         /\ Place(t, i - 1) \in 0 .. QueueSize - 1
<1>1. i - 1 \in 0 .. QueueSize - 1
  BY WsAssumption
<1>2. t + i - 1 = t + (i - 1)
  BY WsAssumption
<1>3. QED
  BY <1>1, <1>2, PlaceLemma

(* The messages that wait are the slots from tail on.                      *)
LEMMA WaitingLemma ==
  ASSUME WsTypeOK
  PROVE  /\ Waiting = [i \in 1 .. queue_count |-> queue[Place(queue_tail, i - 1)]]
         /\ Waiting \in Seq(Messages \cup {NoMessage})
         /\ Len(Waiting) = queue_count
         /\ queue_count = 0 <=> Waiting = <<>>
<1>1. \A i \in 1 .. queue_count :
        /\ (queue_tail + i - 1) % QueueSize = Place(queue_tail, i - 1)
        /\ Place(queue_tail, i - 1) \in 0 .. QueueSize - 1
  BY PlacesLemma DEF WsTypeOK
<1>2. Waiting = [i \in 1 .. queue_count |-> queue[Place(queue_tail, i - 1)]]
  BY <1>1 DEF Waiting
<1>3. queue_count \in Nat
  BY WsAssumption DEF WsTypeOK
<1>4. Waiting \in [1 .. queue_count -> Messages \cup {NoMessage}]
  BY <1>1, <1>2 DEF WsTypeOK
<1>5. Waiting \in Seq(Messages \cup {NoMessage}) /\ Len(Waiting) = queue_count
  BY <1>3, <1>4
<1>6. queue_count = 0 <=> Waiting = <<>>
  <2>1. queue_count = 0 => Waiting = <<>>
    BY <1>2
  <2>2. Waiting = <<>> => Len(Waiting) = 0
    OBVIOUS
  <2>3. QED
    BY <1>5, <2>1, <2>2
<1>7. QED
  BY <1>2, <1>5, <1>6

-----------------------------------------------------------------------------
LEMMA WsInitInv == WsInit => WsIInv
BY WsAssumption DEF WsInit, WsIInv, WsTypeOK, Place, Connected, NoStrandedMessage

LEMMA EstablishedInv ==
  ASSUME WsIInv, NEW c \in Conns, Established(c)
  PROVE  WsIInv'
BY WsAssumption DEF WsIInv, WsTypeOK, Established, Register, ClearQueue, Place,
  Connected, NoStrandedMessage, ring

LEMMA ClosedInv ==
  ASSUME WsIInv, NEW c \in Conns, Closed(c)
  PROVE  WsIInv'
BY WsAssumption DEF WsIInv, WsTypeOK, Closed, ClearQueue, Place, Connected,
  NoStrandedMessage, ring

LEMMA WriteableInv ==
  ASSUME WsIInv, NEW c \in Conns, Writeable(c)
  PROVE  WsIInv'
<1>1. CASE queue_count > 0
  <2>1. After(queue_tail) \in 0 .. QueueSize - 1
    BY AfterLemma DEF WsIInv, WsTypeOK
  <2>2. queue_head' = Place(queue_tail', queue_count')
    <3>1. /\ queue_tail' = IF queue_tail + 1 = QueueSize THEN 0 ELSE queue_tail + 1
          /\ queue_count' = queue_count - 1
          /\ queue_head' = queue_head
      BY <1>1, AfterLemma DEF WsIInv, WsTypeOK, Writeable, TakeMessage
    <3>2. queue_head = Place(queue_tail, queue_count)
      BY DEF WsIInv
    <3>3. queue_tail \in 0 .. QueueSize - 1 /\ queue_count \in 1 .. QueueSize
      BY <1>1, WsAssumption DEF WsIInv, WsTypeOK
    <3>4. QED
      BY <3>1, <3>2, <3>3, WsAssumption DEF Place
  <2>3. WsTypeOK'
    BY <1>1, <2>1, WsAssumption DEF WsIInv, WsTypeOK, Writeable, TakeMessage
  <2>4. NoStrandedMessage'
    BY <1>1, WsAssumption
    DEF WsIInv, WsTypeOK, Writeable, TakeMessage, NoStrandedMessage, Connected
  <2>5. (Connected => sock[client_wsi] = "open")' /\ (~Connected => last = NoMessage)'
    BY <1>1 DEF WsIInv, Writeable, TakeMessage, NoStrandedMessage, Connected
  <2>6. QED
    BY <2>2, <2>3, <2>4, <2>5 DEF WsIInv
<1>2. CASE ~(queue_count > 0)
  BY <1>2, WsAssumption
  DEF WsIInv, WsTypeOK, Writeable, NoStrandedMessage, Connected, ring, Place
<1>3. QED
  BY <1>1, <1>2

LEMMA QueueMessageInv ==
  ASSUME WsIInv, NEW m \in Messages, QueueMessage(m)
  PROVE  WsIInv'
<1>1. CASE Connected
  <2>1. After(queue_head) \in 0 .. QueueSize - 1 /\ After(queue_tail) \in 0 .. QueueSize - 1
    BY AfterLemma DEF WsIInv, WsTypeOK
  <2>2. queue_head' = Place(queue_tail', queue_count')
    BY <1>1, AfterLemma, WsAssumption, SMTT(30) DEF WsIInv, WsTypeOK, QueueMessage, Place
  <2>3. WsTypeOK'
    BY <1>1, <2>1, WsAssumption DEF WsIInv, WsTypeOK, QueueMessage, Connected
  <2>4. QED
    BY <1>1, <2>2, <2>3 DEF WsIInv, QueueMessage, NoStrandedMessage, Connected
<1>2. CASE ~Connected
  BY <1>2 DEF WsIInv, WsTypeOK, QueueMessage, NoStrandedMessage, Connected, Place, wsVars, ring
<1>3. QED
  BY <1>1, <1>2

LEMMA WsCleanupInv ==
  ASSUME WsIInv, WsCleanup
  PROVE  WsIInv'
BY WsAssumption DEF WsIInv, WsTypeOK, WsCleanup, ClearQueue, Place, Connected, NoStrandedMessage

LEMMA WsUnchangedInv ==
  ASSUME WsIInv, UNCHANGED wsVars
  PROVE  WsIInv'
BY DEF WsIInv, WsTypeOK, NoStrandedMessage, Connected, Place, wsVars, ring

LEMMA WsStepInv ==
  ASSUME WsIInv, [WsNext]_wsVars
  PROVE  WsIInv'
BY EstablishedInv, ClosedInv, WriteableInv, QueueMessageInv, WsCleanupInv, WsUnchangedInv
DEF WsNext

(* The messages that wait for a client are never forgotten.                *)
THEOREM WsInvariant == WsSpec => []WsIInv
<1>1. WsIInv /\ [WsNext]_wsVars => WsIInv'
  BY WsStepInv
<1>2. QED
  BY <1>1, WsInitInv, PTL DEF WsSpec

-----------------------------------------------------------------------------
(* The refinement                                                          *)

LEMMA SessionInit == WsInit => Session!Init
BY DEF WsInit, Session!Init, Waiting

LEMMA WaitingSame == UNCHANGED ring => Waiting' = Waiting
BY DEF ring, Waiting

LEMMA WaitingCleared == ClearQueue => Waiting' = <<>>
BY DEF ClearQueue, Waiting

LEMMA EmptyUnlessConnected ==
  ASSUME WsIInv, ~Connected
  PROVE  Waiting = <<>>
<1>1. queue_count = 0
  BY WsAssumption DEF WsIInv, WsTypeOK, NoStrandedMessage
<1>2. QED
  BY <1>1, WaitingLemma DEF WsIInv

(* A connection, by eviction or not, is a new session.                     *)
LEMMA EstablishedConnects ==
  ASSUME WsIInv, NEW c \in Conns, Established(c)
  PROVE  Session!Connect(c)
<1>1. c # client_wsi
  BY WsAssumption DEF WsIInv, Established, Connected
<1>2. Waiting' = <<>>
  <2>1. CASE Connected
    BY <2>1, WaitingCleared DEF Established
  <2>2. CASE ~Connected
    BY <2>2, WaitingSame, EmptyUnlessConnected DEF Established
  <2>3. QED
    BY <2>1, <2>2
<1>3. QED
  BY <1>1, <1>2 DEF Established, Register, Session!Connect, Session!Begins

LEMMA ClosedDisconnects ==
  ASSUME WsIInv, NEW c \in Conns, Closed(c)
  PROVE  Session!Disconnect \/ UNCHANGED Session!absVars
<1>1. CASE c = client_wsi
  BY <1>1, WaitingCleared, WsAssumption
  DEF Closed, Session!Disconnect, Session!Begins
<1>2. CASE c # client_wsi
  BY <1>2, WaitingSame DEF Closed, Session!absVars
<1>3. QED
  BY <1>1, <1>2

LEMMA CleanupDisconnects ==
  ASSUME WsIInv, WsCleanup
  PROVE  Session!Disconnect \/ UNCHANGED Session!absVars
<1>1. CASE Connected
  BY <1>1, WaitingCleared DEF WsCleanup, Connected, Session!Disconnect, Session!Begins
<1>2. CASE ~Connected
  BY <1>2, WaitingCleared, EmptyUnlessConnected
  DEF WsIInv, WsCleanup, Connected, Session!absVars
<1>3. QED
  BY <1>1, <1>2

(* A sequence is the function from its indices to its elements.            *)
LEMMA SeqIsFunction ==
  ASSUME NEW S, NEW s \in Seq(S)
  PROVE  s = [k \in 1 .. Len(s) |-> s[k]]
OBVIOUS

LEMMA TailLemma ==
  ASSUME NEW S, NEW s \in Seq(S), s # <<>>
  PROVE  /\ Tail(s) = [k \in 1 .. Len(s) - 1 |-> s[k + 1]]
         /\ Tail(s) \in Seq(S)
         /\ Len(Tail(s)) = Len(s) - 1
<1>1. Tail(s) \in Seq(S) /\ Len(Tail(s)) = Len(s) - 1
  OBVIOUS
<1>2. \A k \in 1 .. Len(s) - 1 : Tail(s)[k] = s[k + 1]
  OBVIOUS
<1>3. Tail(s) = [k \in 1 .. Len(Tail(s)) |-> Tail(s)[k]]
  BY <1>1, SeqIsFunction
<1>4. QED
  BY <1>1, <1>2, <1>3

(* Taking a message advances tail: what waited second waits first.         *)
LEMMA TakeIsTail ==
  ASSUME WsIInv, WsIInv', NEW c \in Conns, queue_count > 0, TakeMessage(c)
  PROVE  /\ Waiting # <<>>
         /\ Head(Waiting) = queue[queue_tail]
         /\ Waiting' = Tail(Waiting)
<1> DEFINE M == Messages \cup {NoMessage}
<1>1. /\ queue_tail \in 0 .. QueueSize - 1
      /\ queue_count \in 1 .. QueueSize
      /\ queue \in [0 .. QueueSize - 1 -> M]
  BY WsAssumption DEF WsIInv, WsTypeOK
<1>2. /\ Waiting = [i \in 1 .. queue_count |-> queue[Place(queue_tail, i - 1)]]
      /\ Waiting \in Seq(M)
      /\ Len(Waiting) = queue_count
      /\ Waiting # <<>>
  BY <1>1, WaitingLemma DEF WsIInv
<1>3. Head(Waiting) = queue[queue_tail]
  <2>1. Head(Waiting) = Waiting[1]
    BY <1>2
  <2>2. Waiting[1] = queue[Place(queue_tail, 0)]
    BY <1>1, <1>2
  <2>3. QED
    BY <1>1, <2>1, <2>2, PlaceLemma
<1>4. /\ queue_count' = queue_count - 1
      /\ queue_tail' = IF queue_tail + 1 = QueueSize THEN 0 ELSE queue_tail + 1
      /\ queue' = [queue EXCEPT ![queue_tail] = NoMessage]
  BY <1>1, AfterLemma DEF TakeMessage
<1>5. Waiting' = [i \in 1 .. queue_count - 1 |-> queue'[Place(queue_tail', i - 1)]]
  <2>1. queue_tail' \in 0 .. QueueSize - 1 /\ queue_count' \in 0 .. QueueSize
    BY DEF WsIInv, WsTypeOK
  <2>2. \A i \in 1 .. queue_count' :
          (queue_tail' + i - 1) % QueueSize = Place(queue_tail', i - 1)
    BY <2>1, PlacesLemma
  <2>3. Waiting' = [i \in 1 .. queue_count' |-> queue'[(queue_tail' + i - 1) % QueueSize]]
    BY DEF Waiting
  <2>4. QED
    BY <1>4, <2>2, <2>3
<1>6. \A i \in 1 .. queue_count - 1 : queue'[Place(queue_tail', i - 1)] = Waiting[i + 1]
  <2> SUFFICES ASSUME NEW i \in 1 .. queue_count - 1
               PROVE  queue'[Place(queue_tail', i - 1)] = Waiting[i + 1]
    OBVIOUS
  <2>1. i \in 0 .. QueueSize - 1 /\ i # 0 /\ i + 1 \in 1 .. queue_count
    BY <1>1, WsAssumption
  <2>2. Place(queue_tail', i - 1) = Place(queue_tail, i)
    BY <1>1, <1>4, <2>1, WsAssumption DEF Place
  <2>3. Place(queue_tail, i) \in 0 .. QueueSize - 1 /\ Place(queue_tail, i) # queue_tail
    BY <1>1, <2>1, WsAssumption DEF Place
  <2>4. queue'[Place(queue_tail, i)] = queue[Place(queue_tail, i)]
    BY <1>1, <1>4, <2>3
  <2>5. Waiting[i + 1] = queue[Place(queue_tail, (i + 1) - 1)]
    BY <1>2, <2>1
  <2>6. (i + 1) - 1 = i
    BY <2>1
  <2>7. QED
    BY <2>2, <2>4, <2>5, <2>6
<1>7. Tail(Waiting) = [i \in 1 .. queue_count - 1 |-> Waiting[i + 1]]
  <2>1. Waiting \in Seq(M) /\ Waiting # <<>> /\ Len(Waiting) = queue_count
    BY <1>2
  <2>2. Tail(Waiting) = [i \in 1 .. Len(Waiting) - 1 |-> Waiting[i + 1]]
    BY <2>1, TailLemma, Zenon
  <2>3. QED
    BY <2>1, <2>2, Zenon
<1>8. Waiting' = [i \in 1 .. queue_count - 1 |-> Waiting[i + 1]]
  BY <1>5, <1>6
<1>9. QED
  BY <1>2, <1>3, <1>7, <1>8

LEMMA WriteableDelivers ==
  ASSUME WsIInv, WsIInv', NEW c \in Conns, Writeable(c)
  PROVE  Session!Deliver \/ Session!Lose \/ UNCHANGED Session!absVars
<1>1. CASE queue_count > 0
  BY <1>1, TakeIsTail DEF Writeable, TakeMessage, Session!Deliver, Session!Lose
<1>2. CASE ~(queue_count > 0)
  BY <1>2, WaitingSame DEF Writeable, Session!absVars
<1>3. QED
  BY <1>1, <1>2

LEMMA AppendLemma ==
  ASSUME NEW S, NEW s \in Seq(S), NEW e \in S
  PROVE  Append(s, e) = [k \in 1 .. Len(s) + 1 |-> IF k = Len(s) + 1 THEN e ELSE s[k]]
<1>1. Append(s, e) \in Seq(S) /\ Len(Append(s, e)) = Len(s) + 1
  OBVIOUS
<1>2. \A k \in 1 .. Len(s) + 1 : Append(s, e)[k] = IF k = Len(s) + 1 THEN e ELSE s[k]
  OBVIOUS
<1>3. Append(s, e) = [k \in 1 .. Len(Append(s, e)) |-> Append(s, e)[k]]
  BY <1>1, SeqIsFunction
<1>4. QED
  BY <1>1, <1>2, <1>3

(* What waits after a message has been queued, slot by slot.               *)
LEMMA WaitingNext ==
  ASSUME WsIInv'
  PROVE  Waiting' = [i \in 1 .. queue_count' |-> queue'[Place(queue_tail', i - 1)]]
<1>1. queue_tail' \in 0 .. QueueSize - 1 /\ queue_count' \in 0 .. QueueSize
  BY DEF WsIInv, WsTypeOK
<1>2. \A i \in 1 .. queue_count' :
        (queue_tail' + i - 1) % QueueSize = Place(queue_tail', i - 1)
  BY <1>1, PlacesLemma
<1>3. Waiting' = [i \in 1 .. queue_count' |-> queue'[(queue_tail' + i - 1) % QueueSize]]
  BY DEF Waiting
<1>4. QED
  BY <1>2, <1>3

(* There is room: the message goes behind those that wait.                 *)
LEMMA QueueAppends ==
  ASSUME WsIInv, WsIInv', NEW m \in Messages, QueueMessage(m), Connected,
         queue_count < QueueSize
  PROVE  Waiting' = Append(Waiting, m)
<1> DEFINE M == Messages \cup {NoMessage}
<1>1. /\ queue_tail \in 0 .. QueueSize - 1
      /\ queue_count \in 0 .. QueueSize - 1
      /\ queue \in [0 .. QueueSize - 1 -> M]
      /\ queue_head = Place(queue_tail, queue_count)
  BY WsAssumption DEF WsIInv, WsTypeOK
<1>2. /\ Waiting = [i \in 1 .. queue_count |-> queue[Place(queue_tail, i - 1)]]
      /\ Waiting \in Seq(M)
      /\ Len(Waiting) = queue_count
  BY WaitingLemma DEF WsIInv
<1>3. /\ queue_count' = queue_count + 1
      /\ queue_tail' = queue_tail
      /\ queue' = [queue EXCEPT ![queue_head] = m]
  BY <1>1, WsAssumption DEF QueueMessage
<1>4. \A i \in 1 .. queue_count + 1 :
        queue'[Place(queue_tail, i - 1)] = IF i = queue_count + 1 THEN m ELSE Waiting[i]
  <2> SUFFICES ASSUME NEW i \in 1 .. queue_count + 1
               PROVE  queue'[Place(queue_tail, i - 1)] =
                        IF i = queue_count + 1 THEN m ELSE Waiting[i]
    OBVIOUS
  <2>1. i - 1 \in 0 .. QueueSize - 1
    BY <1>1, WsAssumption
  <2>2. /\ Place(queue_tail, i - 1) \in 0 .. QueueSize - 1
        /\ Place(queue_tail, i - 1) = queue_head => i - 1 = queue_count
    BY <1>1, <2>1, PlaceLemma
  <2>3. CASE i = queue_count + 1
    BY <1>1, <1>3, <2>2, <2>3
  <2>4. CASE i # queue_count + 1
    <3>1. i \in 1 .. queue_count /\ i - 1 # queue_count
      BY <1>1, <2>4
    <3>2. queue'[Place(queue_tail, i - 1)] = queue[Place(queue_tail, i - 1)]
      BY <1>1, <1>3, <2>2, <3>1
    <3>3. QED
      BY <1>2, <2>4, <3>1, <3>2
  <2>5. QED
    BY <2>3, <2>4
<1>5. Waiting' = [i \in 1 .. queue_count + 1 |->
                    IF i = queue_count + 1 THEN m ELSE Waiting[i]]
  BY <1>3, <1>4, WaitingNext
<1>6. m \in M
  OBVIOUS
<1>7. Append(Waiting, m) = [k \in 1 .. Len(Waiting) + 1 |->
                              IF k = Len(Waiting) + 1 THEN m ELSE Waiting[k]]
  <2>1. Waiting \in Seq(M)
    BY <1>2
  <2> HIDE DEF M
  <2>2. QED
    BY <2>1, <1>6, AppendLemma
<1>8. QED
  BY <1>2, <1>5, <1>7

(* The ring is full: head is at tail, and the oldest message makes room.   *)
LEMMA QueueReplaces ==
  ASSUME WsIInv, WsIInv', NEW m \in Messages, QueueMessage(m), Connected,
         queue_count = QueueSize
  PROVE  Waiting' = Append(Tail(Waiting), m)
<1> DEFINE M == Messages \cup {NoMessage}
<1>1. /\ queue_tail \in 0 .. QueueSize - 1
      /\ queue_count \in 1 .. QueueSize
      /\ queue \in [0 .. QueueSize - 1 -> M]
      /\ queue_head = queue_tail
  BY PlaceLemma, WsAssumption DEF WsIInv, WsTypeOK
<1>2. /\ Waiting = [i \in 1 .. QueueSize |-> queue[Place(queue_tail, i - 1)]]
      /\ Waiting \in Seq(M)
      /\ Len(Waiting) = QueueSize
      /\ Waiting # <<>>
  BY <1>1, WaitingLemma DEF WsIInv
<1>3. /\ queue_count' = QueueSize
      /\ queue_tail' = IF queue_tail + 1 = QueueSize THEN 0 ELSE queue_tail + 1
      /\ queue' = [queue EXCEPT ![queue_tail] = m]
  BY <1>1, AfterLemma, WsAssumption DEF QueueMessage
<1>4. /\ Tail(Waiting) = [k \in 1 .. QueueSize - 1 |-> Waiting[k + 1]]
      /\ Tail(Waiting) \in Seq(M)
      /\ Len(Tail(Waiting)) = QueueSize - 1
  <2>1. /\ Tail(Waiting) = [k \in 1 .. Len(Waiting) - 1 |-> Waiting[k + 1]]
        /\ Tail(Waiting) \in Seq(M)
        /\ Len(Tail(Waiting)) = Len(Waiting) - 1
    <3>1. Waiting \in Seq(M) /\ Waiting # <<>>
      BY <1>2
    <3> HIDE DEF M
    <3>2. QED
      BY <3>1, TailLemma
  <2>2. QED
    BY <1>2, <2>1
<1>5. \A i \in 1 .. QueueSize :
        queue'[Place(queue_tail', i - 1)] = IF i = QueueSize THEN m ELSE Tail(Waiting)[i]
  <2> SUFFICES ASSUME NEW i \in 1 .. QueueSize
               PROVE  queue'[Place(queue_tail', i - 1)] =
                        IF i = QueueSize THEN m ELSE Tail(Waiting)[i]
    OBVIOUS
  <2>1. CASE i = QueueSize
    <3>1. Place(queue_tail', i - 1) = queue_tail
      BY <1>1, <1>3, <2>1, WsAssumption DEF Place
    <3>2. QED
      BY <1>1, <1>3, <2>1, <3>1
  <2>2. CASE i # QueueSize
    <3>1. i \in 1 .. QueueSize - 1 /\ i + 1 \in 1 .. QueueSize /\ (i + 1) - 1 = i
      BY <2>2, WsAssumption
    <3>2. /\ Place(queue_tail', i - 1) = Place(queue_tail, i)
          /\ Place(queue_tail, i) \in 0 .. QueueSize - 1
          /\ Place(queue_tail, i) # queue_tail
      BY <1>1, <1>3, <3>1, WsAssumption DEF Place
    <3>3. queue'[Place(queue_tail, i)] = queue[Place(queue_tail, i)]
      BY <1>1, <1>3, <3>2
    <3>4. Tail(Waiting)[i] = Waiting[i + 1]
      BY <1>4, <3>1
    <3>5. Waiting[i + 1] = queue[Place(queue_tail, i)]
      BY <1>2, <3>1
    <3>6. QED
      BY <2>2, <3>2, <3>3, <3>4, <3>5
  <2>3. QED
    BY <2>1, <2>2
<1>6. Waiting' = [i \in 1 .. QueueSize |-> IF i = QueueSize THEN m ELSE Tail(Waiting)[i]]
  BY <1>3, <1>5, WaitingNext
<1>7. m \in M
  OBVIOUS
<1>8. Append(Tail(Waiting), m) =
        [k \in 1 .. Len(Tail(Waiting)) + 1 |->
           IF k = Len(Tail(Waiting)) + 1 THEN m ELSE Tail(Waiting)[k]]
  <2>1. Tail(Waiting) \in Seq(M)
    BY <1>4
  <2> HIDE DEF M
  <2>2. \A s \in Seq(M) :
          Append(s, m) = [k \in 1 .. Len(s) + 1 |-> IF k = Len(s) + 1 THEN m ELSE s[k]]
    BY <1>7, AppendLemma
  <2>3. QED
    BY <2>1, <2>2, Zenon
<1>9. Len(Tail(Waiting)) + 1 = QueueSize
  BY <1>4, WsAssumption
<1>10. QED
  BY <1>6, <1>8, <1>9

LEMMA QueueMessageSends ==
  ASSUME WsIInv, WsIInv', NEW m \in Messages, QueueMessage(m)
  PROVE  Session!Send(m) \/ UNCHANGED Session!absVars
<1>1. CASE Connected
  <2>1. Waiting' = Append(IF Len(Waiting) = QueueSize THEN Tail(Waiting) ELSE Waiting, m)
    <3>1. Len(Waiting) = queue_count /\ queue_count \in 0 .. QueueSize
      BY WaitingLemma DEF WsIInv, WsTypeOK
    <3>2. queue_count = QueueSize \/ queue_count < QueueSize
      BY <3>1, WsAssumption
    <3>3. CASE queue_count = QueueSize
      BY <1>1, <3>1, <3>3, QueueReplaces
    <3>4. CASE queue_count < QueueSize
      BY <1>1, <3>1, <3>4, QueueAppends, WsAssumption
    <3>5. QED
      BY <3>2, <3>3, <3>4
  <2>2. QED
    BY <1>1, <2>1 DEF QueueMessage, Connected, Session!Send
<1>2. CASE ~Connected
  BY <1>2, WaitingSame DEF QueueMessage, wsVars, Session!absVars
<1>3. QED
  BY <1>1, <1>2

(* Every step is a step of the session, or none.                           *)
LEMMA WsStepRefines ==
  ASSUME WsIInv, WsIInv', [WsNext]_wsVars
  PROVE  [Session!Next]_Session!absVars
<1>1. ASSUME NEW c \in Conns, Established(c) PROVE [Session!Next]_Session!absVars
  BY <1>1, EstablishedConnects DEF Session!Next
<1>2. ASSUME NEW c \in Conns, Closed(c) PROVE [Session!Next]_Session!absVars
  BY <1>2, ClosedDisconnects DEF Session!Next
<1>3. ASSUME NEW c \in Conns, Writeable(c) PROVE [Session!Next]_Session!absVars
  BY <1>3, WriteableDelivers DEF Session!Next
<1>4. ASSUME NEW m \in Messages, QueueMessage(m) PROVE [Session!Next]_Session!absVars
  BY <1>4, QueueMessageSends DEF Session!Next
<1>5. ASSUME WsCleanup PROVE [Session!Next]_Session!absVars
  BY <1>5, CleanupDisconnects DEF Session!Next
<1>6. ASSUME UNCHANGED wsVars PROVE [Session!Next]_Session!absVars
  BY <1>6, WaitingSame DEF wsVars, Session!absVars
<1>7. QED
  BY <1>1, <1>2, <1>3, <1>4, <1>5, <1>6 DEF WsNext

(* The server keeps one session at a time: its messages in order, the      *)
(* oldest lost when the ring is full, and nothing of an earlier session.   *)
THEOREM WsRefines == WsSpec => ImplementsSession
<1>1. WsIInv /\ WsIInv' /\ [WsNext]_wsVars => [Session!Next]_Session!absVars
  BY WsStepRefines
<1>2. QED
  BY <1>1, WsInvariant, SessionInit, PTL DEF WsSpec, ImplementsSession, Session!Spec

-----------------------------------------------------------------------------
(***************************************************************************)
(* The whole program: main, the clients, the children and the detector.    *)
(***************************************************************************)

(* The detector is idle, or will be when it has read its commands.         *)
Quiet ==
  IF commands = <<>> THEN detector \notin {"opening", "session"}
                     ELSE commands[Len(commands)] = "stop"

CommandsOK ==
  /\ commands \in Seq({"start", "stop"}) /\ Len(commands) <= CommandRoom
  /\ NoStartSwallowed
  /\ detector = "gone" => commands = <<>>

(* No FFmpeg runs but the one the process manager knows.                   *)
PmOK ==
  /\ ffmpeg_pid \in Pids \cup {NoPid}
  /\ ffmpeg \in [Pids -> {"none", "opening", "publishing"}]
  /\ NoStrayFfmpeg

NoFfmpeg == \A p \in Pids : ffmpeg[p] = "none"

(* The rest of AppTypeOK.                                                  *)
MainTypeOK ==
  /\ phase \in Boot \cup Loop \cup Starting \cup Ending
  /\ attempt \in 0 .. MaxTries
  /\ path \in {"fifo", "file", "nothing"}
  /\ loop_video \in BOOLEAN /\ g_running \in BOOLEAN /\ mediamtx \in BOOLEAN
  /\ python_connected \in BOOLEAN /\ android_connected \in BOOLEAN
  /\ streaming_active \in BOOLEAN
  /\ detector \in {"absent", "idle", "opening", "session", "gone"}

(* What is known where main is.                                            *)
PhaseInv ==
  /\ android_connected = Connected
  /\ streaming_active => python_connected
  /\ ~IsFifo /\ ~Connected => ~streaming_active
  /\ phase \in Boot =>
       /\ ~Connected /\ ~python_connected
       /\ commands = <<>> /\ detector \in {"absent", "idle", "gone"}
  /\ phase \in {"load", "probe", "validate", "mediamtx", "exited"} => ~mediamtx
  /\ phase \in {"cam_begin", "cam_spawn", "cam_start", "cam_verify"} => IsFifo /\ python_connected
  /\ phase \in {"file_start", "file_spawn"} => ~IsFifo /\ Connected /\ python_connected
  /\ phase \in {"cam_spawn", "cam_start", "cam_verify", "file_spawn"} => ~streaming_active
  /\ phase \in {"cam_spawn", "cam_start", "cam_verify"} => attempt # 0
  /\ phase = "ready" => Connected /\ streaming_active

(* FFmpeg runs only while something is streamed or the camera is started.  *)
FfmpegInv ==
  /\ ~streaming_active /\ phase \notin {"cam_start", "cam_verify"} => NoFfmpeg
  /\ phase = "exited" => NoFfmpeg

(* Before a START is sent, and in the loop without a stream, the detector  *)
(* is quiet.                                                               *)
QuietInv ==
  /\ ~streaming_active
  /\ \/ phase \in Loop \cup {"cam_begin", "cam_start", "file_start"}
     \/ phase = "cam_spawn" /\ attempt = 1
  => Quiet

AppInv == MainTypeOK /\ PmOK /\ CommandsOK /\ PhaseInv /\ FfmpegInv /\ QuietInv

StreamingIInv == WsIInv /\ AppInv

-----------------------------------------------------------------------------
(* Every step of the program is one of the WebSocket server, or none.      *)
LEMMA StartupWs == Startup => UNCHANGED wsVars
BY DEF Startup, ConfigLoad, ConfigProbeVideo, ConfigValidate, PmStartMediamtx,
  PmWaitForMediamtxReady, Starts, StartWs, StartBridge, IpcServerInit, IpcAcceptClient

LEMMA StartStreamWs == StartStream => [WsNext]_wsVars
<1>1. SendStreamReady => \E m \in Messages : QueueMessage(m)
  BY StreamingAssumption DEF SendStreamReady
<1>2. CamBegin \/ CamSpawn \/ CamStart \/ CamVerify \/ FileStart \/ FileSpawn => UNCHANGED wsVars
  BY DEF CamBegin, CamSpawn, CamStart, CamVerify, FileStart, FileSpawn
<1>3. QED
  BY <1>1, <1>2 DEF StartStream, WsNext

LEMMA IterateWs == Iterate => [WsNext]_wsVars
<1>1. ForwardDetection \/ DdlBridgeTick => UNCHANGED wsVars \/ \E m \in Messages : QueueMessage(m)
  BY StreamingAssumption DEF ForwardDetection, DdlBridgeTick
<1>2. PythonDisconnected \/ NothingReceived \/ CheckPlayback => UNCHANGED wsVars
  BY DEF PythonDisconnected, NothingReceived, CheckPlayback
<1>3. QED
  BY <1>1, <1>2 DEF Iterate, WsNext

LEMMA OthersWs == End \/ Service \/ ServiceReturns \/ Signal \/ Children => [WsNext]_wsVars
<1>1. End => [WsNext]_wsVars
  BY DEF End, Shutdown, CloseServers, PmCleanup, WsNext
<1>2. Service => [WsNext]_wsVars
  BY DEF Service, Connects, Disconnects, Writes, WsNext
<1>3. ServiceReturns \/ Signal => UNCHANGED wsVars
  BY DEF ServiceReturns, Signal
<1>4. Children => UNCHANGED wsVars
  BY DEF Children, MediamtxExits, FfmpegPublishes, FfmpegExits
<1>5. QED
  BY <1>1, <1>2, <1>3, <1>4

LEMMA DetectorWs == Detector => UNCHANGED wsVars
BY DEF Detector, DetectorConnects, DetectorReadsCommand, DetectorOpens, DetectorAtEnd,
  DetectorDies, around

LEMMA StepWs == [Next]_vars => [WsNext]_wsVars
<1>1. Next => [WsNext]_wsVars
  BY StartupWs, StartStreamWs, IterateWs, OthersWs, DetectorWs DEF Next, Main
<1>2. UNCHANGED vars => UNCHANGED wsVars
  BY DEF vars
<1>3. QED
  BY <1>1, <1>2

LEMMA StreamingIsWs == Spec => WsSpec
<1>1. Init => WsInit
  BY DEF Init
<1>2. QED
  BY <1>1, StepWs, PTL DEF Spec, WsSpec

(* The program gives its clients lossy sessions, one at a time.            *)
THEOREM StreamingRefines == Spec => ImplementsSession
BY StreamingIsWs, WsRefines

-----------------------------------------------------------------------------
(* What the commands in the socket come to.                                *)
LEMMA SendStopLemma ==
  ASSUME CommandsOK, Send("stop"), UNCHANGED detector
  PROVE  CommandsOK' /\ Quiet'
<1>1. CASE detector = "gone"
  BY <1>1 DEF CommandsOK, NoStartSwallowed, Quiet, Send
<1>2. CASE detector # "gone"
  <2>1. /\ commands' \in Seq({"start", "stop"})
        /\ Len(commands') = Len(commands) + 1 /\ Len(commands') <= CommandRoom
        /\ commands'[Len(commands')] = "stop"
        /\ commands' # <<>>
        /\ \A i \in DOMAIN commands : commands'[i] = commands[i]
    BY <1>2, StreamingAssumption, SMTT(30) DEF CommandsOK, Send
  <2>2. NoStartSwallowed'
    <3> SUFFICES ASSUME NEW i \in DOMAIN commands', commands'[i] = "start"
                 PROVE  IF i = 1 THEN detector' \notin {"opening", "session"}
                                 ELSE commands'[i - 1] = "stop"
      BY DEF NoStartSwallowed
    <3>1. i \in DOMAIN commands
      BY <2>1 DEF CommandsOK
    <3>2. commands[i] = "start"
      BY <2>1, <3>1
    <3>3. i # 1 => i - 1 \in DOMAIN commands
      BY <3>1 DEF CommandsOK
    <3>4. QED
      BY <2>1, <3>1, <3>2, <3>3 DEF CommandsOK, NoStartSwallowed
  <2>3. QED
    BY <1>2, <2>1, <2>2 DEF CommandsOK, Quiet
<1>3. QED
  BY <1>1, <1>2

LEMMA SendStartLemma ==
  ASSUME CommandsOK, Quiet, Send("start"), UNCHANGED detector
  PROVE  CommandsOK'
<1>1. CASE detector = "gone"
  BY <1>1 DEF CommandsOK, NoStartSwallowed, Send
<1>2. CASE detector # "gone"
  <2>1. /\ commands' \in Seq({"start", "stop"})
        /\ Len(commands') = Len(commands) + 1 /\ Len(commands') <= CommandRoom
        /\ \A i \in DOMAIN commands : commands'[i] = commands[i]
    BY <1>2, StreamingAssumption DEF CommandsOK, Send
  <2>2. NoStartSwallowed'
    <3> SUFFICES ASSUME NEW i \in DOMAIN commands', commands'[i] = "start"
                 PROVE  IF i = 1 THEN detector' \notin {"opening", "session"}
                                 ELSE commands'[i - 1] = "stop"
      BY DEF NoStartSwallowed
    <3>1. CASE i = Len(commands) + 1
      <4>1. CASE commands = <<>>
        BY <3>1, <4>1 DEF Quiet
      <4>2. CASE commands # <<>>
        <5>1. i - 1 = Len(commands) /\ i - 1 \in DOMAIN commands
          BY <3>1, <4>2 DEF CommandsOK
        <5>2. QED
          BY <2>1, <4>2, <5>1 DEF Quiet, CommandsOK
      <4>3. QED
        BY <4>1, <4>2
    <3>2. CASE i \in DOMAIN commands
      <4>1. commands[i] = "start"
        BY <2>1, <3>2
      <4>2. i # 1 => i - 1 \in DOMAIN commands
        BY <3>2 DEF CommandsOK
      <4>3. QED
        BY <2>1, <3>2, <4>1, <4>2 DEF CommandsOK, NoStartSwallowed
    <3>3. QED
      BY <2>1, <3>1, <3>2 DEF CommandsOK
  <2>3. QED
    BY <1>2, <2>1, <2>2 DEF CommandsOK
<1>3. QED
  BY <1>1, <1>2

(* A detector that reads keeps the order, and stays quiet if it was.       *)
LEMMA ReadsLemma ==
  ASSUME CommandsOK, AppTypeOK, DetectorReadsCommand
  PROVE  CommandsOK' /\ (Quiet => Quiet')
<1>1. /\ commands \in Seq({"start", "stop"}) /\ commands # <<>> /\ commands' = Tail(commands)
      /\ Head(commands) = commands[1]
  BY DEF CommandsOK, DetectorReadsCommand
<1>2. /\ commands' \in Seq({"start", "stop"})
      /\ Len(commands') = Len(commands) - 1
      /\ \A i \in 1 .. Len(commands') : commands'[i] = commands[i + 1]
  BY <1>1
<1>3. /\ commands[1] = "stop" => detector' = "idle"
      /\ detector' \in {"idle", "opening", "session"}
  BY <1>1 DEF DetectorReadsCommand, AppTypeOK, IsFifo
<1>4. NoStartSwallowed'
  <2> SUFFICES ASSUME NEW i \in DOMAIN commands', commands'[i] = "start"
               PROVE  IF i = 1 THEN detector' \notin {"opening", "session"}
                               ELSE commands'[i - 1] = "stop"
    BY DEF NoStartSwallowed
  <2>1. i \in 1 .. Len(commands') /\ i + 1 \in DOMAIN commands /\ commands[i + 1] = "start"
    BY <1>1, <1>2
  <2>2. commands[i] = "stop"
    <3>1. i + 1 # 1 /\ (i + 1) - 1 = i
      BY <1>2, <2>1
    <3>2. IF i + 1 = 1 THEN detector \notin {"opening", "session"}
                       ELSE commands[(i + 1) - 1] = "stop"
      BY <2>1 DEF CommandsOK, NoStartSwallowed
    <3>3. QED
      BY <3>1, <3>2
  <2>3. CASE i = 1
    BY <1>3, <2>2, <2>3
  <2>4. CASE i # 1
    <3>1. i - 1 \in 1 .. Len(commands') /\ (i - 1) + 1 = i
      BY <1>2, <2>1, <2>4
    <3>2. QED
      BY <1>2, <2>2, <2>4, <3>1
  <2>5. QED
    BY <2>3, <2>4
<1>5. ASSUME Quiet PROVE Quiet'
  <2>1. commands[Len(commands)] = "stop"
    BY <1>1, <1>5 DEF Quiet
  <2>2. CASE commands' = <<>>
    <3>1. Len(commands) = 1
      <4>1. Len(commands') = 0
        BY <2>2
      <4>2. QED
        BY <1>1, <1>2, <4>1
    <3>2. QED
      BY <1>3, <2>1, <2>2, <3>1 DEF Quiet
  <2>3. CASE commands' # <<>>
    <3>1. commands'[Len(commands')] = commands[Len(commands)]
      BY <1>1, <1>2, <2>3
    <3>2. QED
      BY <2>1, <2>3, <3>1 DEF Quiet
  <2>4. QED
    BY <2>2, <2>3
<1>6. QED
  BY <1>1, <1>2, <1>3, <1>4, <1>5, StreamingAssumption DEF CommandsOK

(* The detector changes, its commands do not: it opens or ends.            *)
LEMMA DetectorLemma ==
  ASSUME CommandsOK, UNCHANGED commands, detector' # "gone",
         detector' \in {"opening", "session"} => detector \in {"opening", "session"}
  PROVE  CommandsOK' /\ (Quiet => Quiet')
BY DEF CommandsOK, NoStartSwallowed, Quiet

LEMMA SameCommandsLemma ==
  ASSUME CommandsOK, UNCHANGED <<commands, detector>>
  PROVE  CommandsOK' /\ (Quiet => Quiet')
BY DEF CommandsOK, NoStartSwallowed, Quiet

LEMMA GoneIsQuiet ==
  ASSUME CommandsOK, detector = "gone"
  PROVE  Quiet
BY DEF CommandsOK, Quiet

-----------------------------------------------------------------------------
(* What the process manager leaves behind.                                 *)
LEMMA PmStopLemma ==
  ASSUME PmOK, PmStopFfmpeg
  PROVE  PmOK' /\ NoFfmpeg'
BY DEF PmOK, PmStopFfmpeg, NoStrayFfmpeg, NoFfmpeg

LEMMA PmStartLemma ==
  ASSUME PmOK, PmStartFfmpeg
  PROVE  PmOK'
<1>1. CASE ffmpeg_pid # NoPid
  BY <1>1 DEF PmOK, PmStartFfmpeg, FfmpegForked, NoStrayFfmpeg
<1>2. CASE ffmpeg_pid = NoPid
  <2>1. PICK p \in Pids : ffmpeg_pid' = p /\ ffmpeg' = [ffmpeg EXCEPT ![p] = "opening"]
    BY <1>2 DEF PmStartFfmpeg, FfmpegForked
  <2>2. \A q \in Pids : ffmpeg[q] = "none"
    BY <1>2 DEF PmOK, NoStrayFfmpeg, NoPid, Pids
  <2>3. QED
    BY <2>1, <2>2 DEF PmOK, NoStrayFfmpeg
<1>3. QED
  BY <1>1, <1>2

LEMMA PmCheckLemma ==
  ASSUME PmOK, PmCheckProcesses
  PROVE  PmOK' /\ (~PmFfmpegIsRunning => NoFfmpeg') /\ (NoFfmpeg => NoFfmpeg')
<1>1. CASE PmFfmpegIsRunning
  BY <1>1 DEF PmOK, PmCheckProcesses, NoStrayFfmpeg, NoFfmpeg
<1>2. CASE ~PmFfmpegIsRunning
  <2>1. \A q \in Pids : ffmpeg[q] = "none"
    BY <1>2 DEF PmOK, PmFfmpegIsRunning, NoStrayFfmpeg, NoPid, Pids
  <2>2. QED
    BY <1>2, <2>1 DEF PmOK, PmCheckProcesses, NoStrayFfmpeg, NoFfmpeg
<1>3. QED
  BY <1>1, <1>2

LEMMA PmSameLemma ==
  ASSUME PmOK, UNCHANGED <<ffmpeg_pid, ffmpeg>>
  PROVE  PmOK' /\ (NoFfmpeg => NoFfmpeg')
BY DEF PmOK, NoStrayFfmpeg, NoFfmpeg

-----------------------------------------------------------------------------
(* One lemma per action.                                                   *)
LEMMA AppInvType == AppInv => AppTypeOK
BY DEF AppInv, MainTypeOK, PmOK, CommandsOK, AppTypeOK

LEMMA ConfigLoadInv ==
  ASSUME AppInv, WsTypeOK, ConfigLoad
  PROVE  AppInv'
BY SameCommandsLemma, PmSameLemma, WsAssumption, StreamingAssumption
DEF ConfigLoad, AppInv, MainTypeOK, PhaseInv, FfmpegInv, QuietInv, IsFifo,
  Boot, Loop, Starting, Ending, Connected, config, app, pm, peer, wsVars, GoTo

LEMMA ConfigProbeVideoInv ==
  ASSUME AppInv, WsTypeOK, ConfigProbeVideo
  PROVE  AppInv'
BY SameCommandsLemma, PmSameLemma, WsAssumption, StreamingAssumption
DEF ConfigProbeVideo, AppInv, MainTypeOK, PhaseInv, FfmpegInv, QuietInv,
  IsFifo, Boot, Loop, Starting, Ending, Connected, config, app, pm, peer,
  wsVars, GoTo

LEMMA ConfigValidateInv ==
  ASSUME AppInv, WsTypeOK, ConfigValidate
  PROVE  AppInv'
BY SameCommandsLemma, PmSameLemma, WsAssumption, StreamingAssumption
DEF ConfigValidate, AppInv, MainTypeOK, PhaseInv, FfmpegInv, QuietInv, IsFifo,
  Boot, Loop, Starting, Ending, Connected, config, app, pm, peer, wsVars, GoTo

LEMMA PmStartMediamtxInv ==
  ASSUME AppInv, WsTypeOK, PmStartMediamtx
  PROVE  AppInv'
<1>1. MainTypeOK'
  BY WsAssumption, StreamingAssumption
  DEF AppInv, MainTypeOK, PmStartMediamtx, GoTo, PhaseInv, IsFifo, Boot,
    Loop, Starting, Ending, config, app, pm, peer, wsVars
<1>2. PmOK' /\ CommandsOK'
  BY SameCommandsLemma, PmSameLemma
  DEF AppInv, PhaseInv, QuietInv, PmStartMediamtx, GoTo, IsFifo, Boot, Loop,
    Starting, Ending, config, app, pm, peer, wsVars
<1>3. PhaseInv'
  BY WsAssumption
  DEF AppInv, MainTypeOK, PhaseInv, Connected, PmStartMediamtx, GoTo,
    IsFifo, Boot, Loop, Starting, Ending, config, app, pm, peer, wsVars
<1>4. FfmpegInv'
  BY SameCommandsLemma, PmSameLemma
  DEF AppInv, FfmpegInv, PhaseInv, PmStartMediamtx, GoTo, IsFifo, Boot,
    Loop, Starting, Ending, config, app, pm, peer, wsVars
<1>5. QuietInv'
  BY SameCommandsLemma, PmSameLemma
  DEF AppInv, MainTypeOK, QuietInv, PhaseInv, PmStartMediamtx, GoTo, IsFifo,
    Boot, Loop, Starting, Ending, config, app, pm, peer, wsVars
<1>6. QED
  BY <1>1, <1>2, <1>3, <1>4, <1>5 DEF AppInv

LEMMA PmWaitForMediamtxReadyInv ==
  ASSUME AppInv, WsTypeOK, PmWaitForMediamtxReady
  PROVE  AppInv'
BY SameCommandsLemma, PmSameLemma, WsAssumption, StreamingAssumption
DEF PmWaitForMediamtxReady, AppInv, MainTypeOK, PhaseInv, FfmpegInv, QuietInv,
  IsFifo, Boot, Loop, Starting, Ending, Connected, config, app, pm, peer,
  wsVars, GoTo

LEMMA StartsInv ==
  ASSUME AppInv, WsTypeOK,
         NEW p, NEW next, Starts(p, next),
         <<p, next>> \in {<<"ws_init", "bridge">>, <<"bridge", "ipc_init">>, <<"ipc_init", "accept">>}
  PROVE  AppInv'
BY SameCommandsLemma, PmSameLemma, WsAssumption, StreamingAssumption
DEF Starts, AppInv, MainTypeOK, PhaseInv, FfmpegInv, QuietInv, IsFifo,
  Boot, Loop, Starting, Ending, Connected, config, app, pm, peer, wsVars, GoTo

LEMMA IpcAcceptClientInv ==
  ASSUME AppInv, WsTypeOK, IpcAcceptClient
  PROVE  AppInv'
<1>1. MainTypeOK'
  BY WsAssumption, StreamingAssumption
  DEF AppInv, MainTypeOK, IpcAcceptClient, GoTo, LoopHead, PhaseInv, IsFifo,
    Boot, Loop, Starting, Ending, config, app, pm, peer, wsVars
<1>2. PmOK' /\ CommandsOK'
  BY SameCommandsLemma, PmSameLemma
  DEF AppInv, PhaseInv, QuietInv, IpcAcceptClient, GoTo, LoopHead, IsFifo,
    Boot, Loop, Starting, Ending, config, app, pm, peer, wsVars
<1>3. PhaseInv'
  BY WsAssumption
  DEF AppInv, MainTypeOK, PhaseInv, Connected, IpcAcceptClient, GoTo,
    LoopHead, IsFifo, Boot, Loop, Starting, Ending, config, app, pm, peer,
    wsVars
<1>4. FfmpegInv'
  BY SameCommandsLemma, PmSameLemma
  DEF AppInv, FfmpegInv, PhaseInv, IpcAcceptClient, GoTo, LoopHead, IsFifo,
    Boot, Loop, Starting, Ending, config, app, pm, peer, wsVars
<1>5. QuietInv'
  <2>1. Quiet
    BY DEF AppInv, PhaseInv, Quiet, IpcAcceptClient, Boot
  <2>2. Quiet'
    BY <2>1, SameCommandsLemma DEF AppInv, IpcAcceptClient, peer
  <2>3. QED
    BY <2>2 DEF QuietInv
<1>6. QED
  BY <1>1, <1>2, <1>3, <1>4, <1>5 DEF AppInv

LEMMA CamBeginInv ==
  ASSUME AppInv, WsTypeOK, CamBegin
  PROVE  AppInv'
BY SameCommandsLemma, PmStopLemma, PmSameLemma, WsAssumption,
  StreamingAssumption
DEF CamBegin, AppInv, MainTypeOK, PhaseInv, FfmpegInv, QuietInv, IsFifo, Boot,
  Loop, Starting, Ending, Connected, config, app, pm, peer, wsVars, Return,
  LoopHead

LEMMA CamSpawnInv ==
  ASSUME AppInv, WsTypeOK, CamSpawn
  PROVE  AppInv'
<1>1. MainTypeOK'
  BY WsAssumption, StreamingAssumption
  DEF AppInv, MainTypeOK, CamSpawn, Return, LoopHead, GoTo, IpcSendStop,
    PhaseInv, IsFifo, Boot, Loop, Starting, Ending, config, app, pm, peer,
    wsVars
<1>2. PmOK' /\ CommandsOK'
  BY SendStopLemma, SameCommandsLemma, PmStartLemma, PmSameLemma
  DEF AppInv, PhaseInv, QuietInv, CamSpawn, Return, LoopHead, GoTo,
    IpcSendStop, IsFifo, Boot, Loop, Starting, Ending, config, app, pm,
    peer, wsVars
<1>3. PhaseInv'
  BY WsAssumption
  DEF AppInv, MainTypeOK, PhaseInv, Connected, CamSpawn, Return, LoopHead,
    GoTo, IpcSendStop, IsFifo, Boot, Loop, Starting, Ending, config, app,
    pm, peer, wsVars
<1>4. FfmpegInv'
  BY SendStopLemma, SameCommandsLemma, PmStartLemma, PmSameLemma
  DEF AppInv, FfmpegInv, PhaseInv, CamSpawn, Return, LoopHead, GoTo,
    IpcSendStop, IsFifo, Boot, Loop, Starting, Ending, config, app, pm,
    peer, wsVars
<1>5. QuietInv'
  BY SendStopLemma, SameCommandsLemma, PmStartLemma, PmSameLemma
  DEF AppInv, MainTypeOK, QuietInv, PhaseInv, CamSpawn, Return, LoopHead,
    GoTo, IpcSendStop, IsFifo, Boot, Loop, Starting, Ending, config, app,
    pm, peer, wsVars
<1>6. QED
  BY <1>1, <1>2, <1>3, <1>4, <1>5 DEF AppInv

LEMMA CamStartInv ==
  ASSUME AppInv, WsTypeOK, CamStart
  PROVE  AppInv'
<1>1. MainTypeOK'
  BY WsAssumption, StreamingAssumption
  DEF AppInv, MainTypeOK, CamStart, Return, LoopHead, GoTo, PhaseInv,
    IsFifo, Boot, Loop, Starting, Ending, config, app, pm, peer, wsVars
<1>2. PmOK' /\ CommandsOK'
  BY SendStartLemma, GoneIsQuiet, PmStopLemma, PmSameLemma
  DEF AppInv, PhaseInv, QuietInv, CamStart, Return, LoopHead, GoTo, IsFifo,
    Boot, Loop, Starting, Ending, config, app, pm, peer, wsVars
<1>3. PhaseInv'
  BY WsAssumption
  DEF AppInv, MainTypeOK, PhaseInv, Connected, CamStart, Return, LoopHead,
    GoTo, IsFifo, Boot, Loop, Starting, Ending, config, app, pm, peer,
    wsVars
<1>4. FfmpegInv'
  BY SendStartLemma, GoneIsQuiet, PmStopLemma, PmSameLemma
  DEF AppInv, FfmpegInv, PhaseInv, CamStart, Return, LoopHead, GoTo, IsFifo,
    Boot, Loop, Starting, Ending, config, app, pm, peer, wsVars
<1>5. QuietInv'
  <2>1. CASE detector = "gone"
    <3>1. Quiet'
      BY <2>1, GoneIsQuiet, SameCommandsLemma DEF AppInv, CamStart, Send
    <3>2. QED
      BY <3>1 DEF QuietInv
  <2>2. CASE detector # "gone"
    BY <2>2 DEF QuietInv, CamStart, GoTo, Loop
  <2>3. QED
    BY <2>1, <2>2
<1>6. QED
  BY <1>1, <1>2, <1>3, <1>4, <1>5 DEF AppInv

LEMMA CamVerifyInv ==
  ASSUME AppInv, WsTypeOK, CamVerify
  PROVE  AppInv'
<1>1. MainTypeOK'
  <2>1. phase' \in Boot \cup Loop \cup Starting \cup Ending
    BY DEF CamVerify, Return, LoopHead, Loop, Starting, Ending
  <2>2. attempt' \in 0 .. MaxTries
    BY StreamingAssumption DEF AppInv, MainTypeOK, CamVerify, Return
  <2>3. streaming_active' \in BOOLEAN
    BY DEF AppInv, MainTypeOK, CamVerify
  <2>4. QED
    BY <2>1, <2>2, <2>3 DEF AppInv, MainTypeOK, CamVerify, config
<1>2. PmOK' /\ CommandsOK'
  BY SendStopLemma, SameCommandsLemma, PmCheckLemma
  DEF AppInv, PhaseInv, QuietInv, CamVerify, Return, LoopHead, IpcSendStop,
    IsFifo, Boot, Loop, Starting, Ending, config, app, pm, peer, wsVars
<1>3. PhaseInv'
  BY WsAssumption
  DEF AppInv, MainTypeOK, PhaseInv, Connected, CamVerify, Return, LoopHead,
    IpcSendStop, IsFifo, Boot, Loop, Starting, Ending, config, app, pm,
    peer, wsVars
<1>4. FfmpegInv'
  BY SendStopLemma, SameCommandsLemma, PmCheckLemma
  DEF AppInv, FfmpegInv, PhaseInv, CamVerify, Return, LoopHead, IpcSendStop,
    IsFifo, Boot, Loop, Starting, Ending, config, app, pm, peer, wsVars
<1>5. QuietInv'
  BY SendStopLemma, SameCommandsLemma, PmCheckLemma
  DEF AppInv, MainTypeOK, QuietInv, PhaseInv, CamVerify, Return, LoopHead,
    IpcSendStop, IsFifo, Boot, Loop, Starting, Ending, config, app, pm,
    peer, wsVars
<1>6. QED
  BY <1>1, <1>2, <1>3, <1>4, <1>5 DEF AppInv

LEMMA FileStartInv ==
  ASSUME AppInv, WsTypeOK, FileStart
  PROVE  AppInv'
<1>1. MainTypeOK'
  BY WsAssumption, StreamingAssumption
  DEF AppInv, MainTypeOK, FileStart, Return, LoopHead, GoTo, PhaseInv,
    IsFifo, Boot, Loop, Starting, Ending, config, app, pm, peer, wsVars
<1>2. PmOK' /\ CommandsOK'
  BY SendStartLemma, GoneIsQuiet, SameCommandsLemma, PmStopLemma,
    PmSameLemma
  DEF AppInv, PhaseInv, QuietInv, FileStart, Return, LoopHead, GoTo, IsFifo,
    Boot, Loop, Starting, Ending, config, app, pm, peer, wsVars
<1>3. PhaseInv'
  BY WsAssumption
  DEF AppInv, MainTypeOK, PhaseInv, Connected, FileStart, Return, LoopHead,
    GoTo, IsFifo, Boot, Loop, Starting, Ending, config, app, pm, peer,
    wsVars
<1>4. FfmpegInv'
  BY SendStartLemma, GoneIsQuiet, SameCommandsLemma, PmStopLemma,
    PmSameLemma
  DEF AppInv, FfmpegInv, PhaseInv, FileStart, Return, LoopHead, GoTo,
    IsFifo, Boot, Loop, Starting, Ending, config, app, pm, peer, wsVars
<1>5. QuietInv'
  <2>1. CASE detector = "gone"
    <3>1. Quiet'
      BY <2>1, GoneIsQuiet, SameCommandsLemma DEF AppInv, FileStart, Send
    <3>2. QED
      BY <3>1 DEF QuietInv
  <2>2. CASE streaming_active \/ ~python_connected
    <3>1. Quiet => Quiet'
      BY <2>2, SameCommandsLemma DEF AppInv, FileStart
    <3>2. QED
      BY <2>2, <3>1 DEF AppInv, QuietInv, FileStart, app
  <2>3. CASE detector # "gone" /\ ~(streaming_active \/ ~python_connected)
    BY <2>3 DEF QuietInv, FileStart, GoTo, Loop
  <2>4. QED
    BY <2>1, <2>2, <2>3
<1>6. QED
  BY <1>1, <1>2, <1>3, <1>4, <1>5 DEF AppInv

LEMMA FileSpawnInv ==
  ASSUME AppInv, WsTypeOK, FileSpawn
  PROVE  AppInv'
<1>1. MainTypeOK'
  <2>1. phase' \in Boot \cup Loop \cup Starting \cup Ending
    BY DEF FileSpawn, Return, LoopHead, Loop, Starting, Ending
  <2>2. attempt' \in 0 .. MaxTries
    BY StreamingAssumption DEF FileSpawn, Return
  <2>3. streaming_active' \in BOOLEAN
    BY DEF AppInv, MainTypeOK, FileSpawn
  <2>4. QED
    BY <2>1, <2>2, <2>3 DEF AppInv, MainTypeOK, FileSpawn, config
<1>2. PmOK' /\ CommandsOK'
  BY SendStopLemma, SameCommandsLemma, PmStartLemma, PmSameLemma
  DEF AppInv, PhaseInv, QuietInv, FileSpawn, Return, LoopHead, GoTo,
    IpcSendStop, IsFifo, Boot, Loop, Starting, Ending, config, app, pm,
    peer, wsVars
<1>3. PhaseInv'
  BY WsAssumption
  DEF AppInv, MainTypeOK, PhaseInv, Connected, FileSpawn, Return, LoopHead,
    GoTo, IpcSendStop, IsFifo, Boot, Loop, Starting, Ending, config, app,
    pm, peer, wsVars
<1>4. FfmpegInv'
  BY SendStopLemma, SameCommandsLemma, PmStartLemma, PmSameLemma
  DEF AppInv, FfmpegInv, PhaseInv, FileSpawn, Return, LoopHead, GoTo,
    IpcSendStop, IsFifo, Boot, Loop, Starting, Ending, config, app, pm,
    peer, wsVars
<1>5. QuietInv'
  BY SendStopLemma, SameCommandsLemma, PmStartLemma, PmSameLemma
  DEF AppInv, MainTypeOK, QuietInv, PhaseInv, FileSpawn, Return, LoopHead,
    GoTo, IpcSendStop, IsFifo, Boot, Loop, Starting, Ending, config, app,
    pm, peer, wsVars
<1>6. QED
  BY <1>1, <1>2, <1>3, <1>4, <1>5 DEF AppInv

LEMMA SendStreamReadyInv ==
  ASSUME AppInv, WsTypeOK, SendStreamReady
  PROVE  AppInv'
BY SameCommandsLemma, PmSameLemma, WsAssumption, StreamingAssumption
DEF SendStreamReady, AppInv, MainTypeOK, PhaseInv, FfmpegInv, QuietInv,
  IsFifo, Boot, Loop, Starting, Ending, Connected, config, app, pm, peer,
  wsVars, QueueMessage, GoTo

LEMMA ConnectsInv ==
  ASSUME AppInv, WsTypeOK, NEW c \in Conns, Connects(c)
  PROVE  AppInv'
<1>1. MainTypeOK'
  BY StreamingAssumption
  DEF AppInv, MainTypeOK, Connects, Established, Register,
    OnAndroidDisconnect, SendStopIfConnected, IpcSendStop, GoTo, config,
    app, pm, peer, wsVars, IsFifo, Boot, Loop, Starting, Ending
<1>2. PmOK' /\ CommandsOK'
  BY SendStopLemma, SameCommandsLemma, PmStopLemma, PmSameLemma
  DEF AppInv, PhaseInv, Connects, Established, Register,
    OnAndroidDisconnect, SendStopIfConnected, IpcSendStop, GoTo, config,
    app, pm, peer, wsVars, IsFifo, Boot, Loop, Starting, Ending
<1>3. PhaseInv'
  BY WsAssumption
  DEF AppInv, MainTypeOK, PhaseInv, Connected, Connects, Established,
    Register, OnAndroidDisconnect, SendStopIfConnected, IpcSendStop, GoTo,
    config, app, pm, peer, wsVars, IsFifo, Boot, Loop, Starting, Ending
<1>4. FfmpegInv'
  BY SendStopLemma, SameCommandsLemma, PmStopLemma, PmSameLemma
  DEF AppInv, FfmpegInv, PhaseInv, Connects, Established, Register,
    OnAndroidDisconnect, SendStopIfConnected, IpcSendStop, GoTo, config,
    app, pm, peer, wsVars, IsFifo, Boot, Loop, Starting, Ending
<1>5. QuietInv'
  BY SendStopLemma, SameCommandsLemma, PmStopLemma, PmSameLemma
  DEF AppInv, MainTypeOK, QuietInv, PhaseInv, Connects, Established,
    Register, OnAndroidDisconnect, SendStopIfConnected, IpcSendStop, GoTo,
    config, app, pm, peer, wsVars, IsFifo, Boot, Loop, Starting, Ending
<1>6. QED
  BY <1>1, <1>2, <1>3, <1>4, <1>5 DEF AppInv

LEMMA DisconnectsInv ==
  ASSUME AppInv, WsTypeOK, NEW c \in Conns, Disconnects(c)
  PROVE  AppInv'
<1>1. MainTypeOK'
  BY StreamingAssumption
  DEF AppInv, MainTypeOK, Disconnects, Closed, OnAndroidDisconnect,
    SendStopIfConnected, IpcSendStop, config, app, pm, peer, wsVars, IsFifo,
    Boot, Loop, Starting, Ending
<1>2. PmOK' /\ CommandsOK'
  BY SendStopLemma, SameCommandsLemma, PmStopLemma, PmSameLemma
  DEF AppInv, PhaseInv, Disconnects, Closed, OnAndroidDisconnect,
    SendStopIfConnected, IpcSendStop, config, app, pm, peer, wsVars, IsFifo,
    Boot, Loop, Starting, Ending
<1>3. PhaseInv'
  BY WsAssumption
  DEF AppInv, MainTypeOK, PhaseInv, Connected, Disconnects, Closed,
    OnAndroidDisconnect, SendStopIfConnected, IpcSendStop, config, app, pm,
    peer, wsVars, IsFifo, Boot, Loop, Starting, Ending
<1>4. FfmpegInv'
  BY SendStopLemma, SameCommandsLemma, PmStopLemma, PmSameLemma
  DEF AppInv, FfmpegInv, PhaseInv, Disconnects, Closed, OnAndroidDisconnect,
    SendStopIfConnected, IpcSendStop, config, app, pm, peer, wsVars, IsFifo,
    Boot, Loop, Starting, Ending
<1>5. QuietInv'
  BY SendStopLemma, SameCommandsLemma, PmStopLemma, PmSameLemma
  DEF AppInv, MainTypeOK, QuietInv, PhaseInv, Disconnects, Closed,
    OnAndroidDisconnect, SendStopIfConnected, IpcSendStop, config, app, pm,
    peer, wsVars, IsFifo, Boot, Loop, Starting, Ending
<1>6. QED
  BY <1>1, <1>2, <1>3, <1>4, <1>5 DEF AppInv

LEMMA WritesInv ==
  ASSUME AppInv, WsTypeOK, NEW c \in Conns, Writes(c)
  PROVE  AppInv'
BY SameCommandsLemma, PmSameLemma, WsAssumption, StreamingAssumption
DEF Writes, AppInv, MainTypeOK, PhaseInv, FfmpegInv, QuietInv, IsFifo, Boot,
  Loop, Starting, Ending, Connected, config, app, pm, peer, wsVars, Writeable

LEMMA ServiceReturnsInv ==
  ASSUME AppInv, WsTypeOK, ServiceReturns
  PROVE  AppInv'
BY SameCommandsLemma, PmSameLemma, WsAssumption, StreamingAssumption
DEF ServiceReturns, AppInv, MainTypeOK, PhaseInv, FfmpegInv, QuietInv, IsFifo,
  Boot, Loop, Starting, Ending, Connected, config, app, pm, peer, wsVars, GoTo

LEMMA ForwardDetectionInv ==
  ASSUME AppInv, WsTypeOK, ForwardDetection
  PROVE  AppInv'
BY SameCommandsLemma, PmSameLemma, WsAssumption, StreamingAssumption
DEF ForwardDetection, AppInv, MainTypeOK, PhaseInv, FfmpegInv, QuietInv,
  IsFifo, Boot, Loop, Starting, Ending, Connected, config, app, pm, peer,
  wsVars, QueueMessage, GoTo

LEMMA PythonDisconnectedInv ==
  ASSUME AppInv, WsTypeOK, PythonDisconnected
  PROVE  AppInv'
BY SameCommandsLemma, GoneIsQuiet, PmStopLemma, PmSameLemma, WsAssumption,
  StreamingAssumption
DEF PythonDisconnected, AppInv, MainTypeOK, PhaseInv, FfmpegInv, QuietInv,
  IsFifo, Boot, Loop, Starting, Ending, Connected, config, app, pm, peer,
  wsVars, GoTo

LEMMA NothingReceivedInv ==
  ASSUME AppInv, WsTypeOK, NothingReceived
  PROVE  AppInv'
BY SameCommandsLemma, PmSameLemma, WsAssumption, StreamingAssumption
DEF NothingReceived, AppInv, MainTypeOK, PhaseInv, FfmpegInv, QuietInv,
  IsFifo, Boot, Loop, Starting, Ending, Connected, config, app, pm, peer,
  wsVars, GoTo

LEMMA DdlBridgeTickInv ==
  ASSUME AppInv, WsTypeOK, DdlBridgeTick
  PROVE  AppInv'
BY SameCommandsLemma, PmSameLemma, WsAssumption, StreamingAssumption
DEF DdlBridgeTick, AppInv, MainTypeOK, PhaseInv, FfmpegInv, QuietInv, IsFifo,
  Boot, Loop, Starting, Ending, Connected, config, app, pm, peer, wsVars,
  QueueMessage, GoTo

LEMMA CheckPlaybackInv ==
  ASSUME AppInv, WsTypeOK, CheckPlayback
  PROVE  AppInv'
<1>1. MainTypeOK'
  BY StreamingAssumption
  DEF AppInv, MainTypeOK, CheckPlayback, GoTo, LoopHead,
    SendStopIfConnected, IpcSendStop, config, app, pm, peer, wsVars, IsFifo,
    Boot, Loop, Starting, Ending
<1>2. PmOK' /\ CommandsOK'
  BY SendStopLemma, SameCommandsLemma, PmCheckLemma, PmSameLemma
  DEF AppInv, PhaseInv, CheckPlayback, GoTo, LoopHead, SendStopIfConnected,
    IpcSendStop, config, app, pm, peer, wsVars, IsFifo, Boot, Loop,
    Starting, Ending
<1>3. PhaseInv'
  BY WsAssumption
  DEF AppInv, MainTypeOK, PhaseInv, Connected, CheckPlayback, GoTo,
    LoopHead, SendStopIfConnected, IpcSendStop, config, app, pm, peer,
    wsVars, IsFifo, Boot, Loop, Starting, Ending
<1>4. FfmpegInv'
  BY SendStopLemma, SameCommandsLemma, PmCheckLemma, PmSameLemma
  DEF AppInv, FfmpegInv, PhaseInv, CheckPlayback, GoTo, LoopHead,
    SendStopIfConnected, IpcSendStop, config, app, pm, peer, wsVars, IsFifo,
    Boot, Loop, Starting, Ending
<1>5. QuietInv'
  BY SendStopLemma, SameCommandsLemma, PmCheckLemma, PmSameLemma
  DEF AppInv, MainTypeOK, QuietInv, PhaseInv, CheckPlayback, GoTo, LoopHead,
    SendStopIfConnected, IpcSendStop, config, app, pm, peer, wsVars, IsFifo,
    Boot, Loop, Starting, Ending
<1>6. QED
  BY <1>1, <1>2, <1>3, <1>4, <1>5 DEF AppInv

LEMMA ShutdownInv ==
  ASSUME AppInv, WsTypeOK, Shutdown
  PROVE  AppInv'
BY SendStopLemma, SameCommandsLemma, PmStopLemma, PmSameLemma, WsAssumption,
  StreamingAssumption
DEF Shutdown, AppInv, MainTypeOK, PhaseInv, FfmpegInv, QuietInv, IsFifo, Boot,
  Loop, Starting, Ending, Connected, config, app, pm, peer, wsVars, GoTo,
  SendStopIfConnected, IpcSendStop

LEMMA CloseServersInv ==
  ASSUME AppInv, WsTypeOK, CloseServers
  PROVE  AppInv'
BY SameCommandsLemma, PmStopLemma, PmSameLemma, WsAssumption,
  StreamingAssumption, ZenonT(60)
DEF CloseServers, AppInv, MainTypeOK, PhaseInv, FfmpegInv, QuietInv, IsFifo,
  Boot, Loop, Starting, Ending, Connected, config, app, pm, peer, wsVars,
  WsCleanup, GoTo

LEMMA PmCleanupInv ==
  ASSUME AppInv, WsTypeOK, PmCleanup
  PROVE  AppInv'
BY SameCommandsLemma, PmStopLemma, WsAssumption, StreamingAssumption, ZenonT(60)
DEF PmCleanup, PmStopMediamtx, AppInv, MainTypeOK, PhaseInv, FfmpegInv, QuietInv, IsFifo,
  Boot, Loop, Starting, Ending, Connected, config, app, pm, peer, wsVars, GoTo

LEMMA SignalInv ==
  ASSUME AppInv, WsTypeOK, Signal
  PROVE  AppInv'
<1>1. MainTypeOK'
  <2>1. mediamtx' \in BOOLEAN /\ g_running' \in BOOLEAN
    BY Zenon DEF AppInv, MainTypeOK, Signal, pm
  <2>2. UNCHANGED <<phase, attempt, path, loop_video, python_connected, android_connected,
                    streaming_active, detector>>
    BY Zenon DEF Signal, config, app, peer
  <2>3. QED
    BY <2>1, <2>2, Zenon DEF AppInv, MainTypeOK
<1>2. PmOK' /\ CommandsOK'
  BY SameCommandsLemma, PmSameLemma
  DEF AppInv, PhaseInv, QuietInv, Signal, IsFifo, Boot, Loop, Starting,
    Ending, config, app, pm, peer, wsVars
<1>3. PhaseInv'
  BY WsAssumption
  DEF AppInv, MainTypeOK, PhaseInv, Connected, Signal, IsFifo, Boot, Loop,
    Starting, Ending, config, app, pm, peer, wsVars
<1>4. FfmpegInv'
  BY SameCommandsLemma, PmSameLemma
  DEF AppInv, FfmpegInv, PhaseInv, Signal, IsFifo, Boot, Loop, Starting,
    Ending, config, app, pm, peer, wsVars
<1>5. QuietInv'
  BY SameCommandsLemma, PmSameLemma
  DEF AppInv, MainTypeOK, QuietInv, PhaseInv, Signal, IsFifo, Boot, Loop,
    Starting, Ending, config, app, pm, peer, wsVars
<1>6. QED
  BY <1>1, <1>2, <1>3, <1>4, <1>5 DEF AppInv

LEMMA FfmpegPublishesInv ==
  ASSUME AppInv, WsTypeOK, NEW p \in Pids, FfmpegPublishes(p)
  PROVE  AppInv'
BY SameCommandsLemma, WsAssumption, StreamingAssumption
DEF FfmpegPublishes, AppInv, MainTypeOK, PhaseInv, FfmpegInv, QuietInv,
  IsFifo, Boot, Loop, Starting, Ending, Connected, config, app, pm, peer,
  wsVars, PmOK, NoStrayFfmpeg, NoFfmpeg

LEMMA FfmpegExitsInv ==
  ASSUME AppInv, WsTypeOK, NEW p \in Pids, FfmpegExits(p)
  PROVE  AppInv'
BY SameCommandsLemma, WsAssumption, StreamingAssumption
DEF FfmpegExits, AppInv, MainTypeOK, PhaseInv, FfmpegInv, QuietInv, IsFifo,
  Boot, Loop, Starting, Ending, Connected, config, app, pm, peer, wsVars,
  PmOK, NoStrayFfmpeg, NoFfmpeg

LEMMA MediamtxExitsInv ==
  ASSUME AppInv, WsTypeOK, MediamtxExits
  PROVE  AppInv'
<1>1. MainTypeOK'
  <2>1. mediamtx' \in BOOLEAN /\ g_running' \in BOOLEAN
    BY Zenon DEF AppInv, MainTypeOK, MediamtxExits, pm
  <2>2. UNCHANGED <<phase, attempt, path, loop_video, python_connected, android_connected,
                    streaming_active, detector>>
    BY Zenon DEF MediamtxExits, config, app, peer
  <2>3. QED
    BY <2>1, <2>2, Zenon DEF AppInv, MainTypeOK
<1>2. PmOK' /\ CommandsOK'
  BY SameCommandsLemma, PmSameLemma
  DEF AppInv, PhaseInv, QuietInv, MediamtxExits, IsFifo, Boot, Loop,
    Starting, Ending, config, app, pm, peer, wsVars
<1>3. PhaseInv'
  BY WsAssumption
  DEF AppInv, MainTypeOK, PhaseInv, Connected, MediamtxExits, IsFifo, Boot,
    Loop, Starting, Ending, config, app, pm, peer, wsVars
<1>4. FfmpegInv'
  BY SameCommandsLemma, PmSameLemma
  DEF AppInv, FfmpegInv, PhaseInv, MediamtxExits, IsFifo, Boot, Loop,
    Starting, Ending, config, app, pm, peer, wsVars
<1>5. QuietInv'
  BY SameCommandsLemma, PmSameLemma
  DEF AppInv, MainTypeOK, QuietInv, PhaseInv, MediamtxExits, IsFifo, Boot,
    Loop, Starting, Ending, config, app, pm, peer, wsVars
<1>6. QED
  BY <1>1, <1>2, <1>3, <1>4, <1>5 DEF AppInv

LEMMA DetectorConnectsInv ==
  ASSUME AppInv, WsTypeOK, DetectorConnects
  PROVE  AppInv'
BY DetectorLemma, PmSameLemma, WsAssumption, StreamingAssumption
DEF DetectorConnects, AppInv, MainTypeOK, PhaseInv, FfmpegInv, QuietInv,
  IsFifo, Boot, Loop, Starting, Ending, Connected, config, app, pm, peer,
  wsVars, around

LEMMA DetectorReadsCommandInv ==
  ASSUME AppInv, WsTypeOK, DetectorReadsCommand
  PROVE  AppInv'
BY ReadsLemma, AppInvType, PmSameLemma, WsAssumption, StreamingAssumption
DEF DetectorReadsCommand, AppInv, MainTypeOK, PhaseInv, FfmpegInv, QuietInv,
  IsFifo, Boot, Loop, Starting, Ending, Connected, config, app, pm, peer,
  wsVars, around

LEMMA DetectorOpensInv ==
  ASSUME AppInv, WsTypeOK, DetectorOpens
  PROVE  AppInv'
BY DetectorLemma, PmSameLemma, WsAssumption, StreamingAssumption
DEF DetectorOpens, AppInv, MainTypeOK, PhaseInv, FfmpegInv, QuietInv, IsFifo,
  Boot, Loop, Starting, Ending, Connected, config, app, pm, peer, wsVars,
  around

LEMMA DetectorAtEndInv ==
  ASSUME AppInv, WsTypeOK, DetectorAtEnd
  PROVE  AppInv'
BY DetectorLemma, PmSameLemma, WsAssumption, StreamingAssumption
DEF DetectorAtEnd, AppInv, MainTypeOK, PhaseInv, FfmpegInv, QuietInv, IsFifo,
  Boot, Loop, Starting, Ending, Connected, config, app, pm, peer, wsVars,
  around

LEMMA DetectorDiesInv ==
  ASSUME AppInv, WsTypeOK, DetectorDies
  PROVE  AppInv'
BY PmSameLemma, WsAssumption, StreamingAssumption
DEF DetectorDies, AppInv, MainTypeOK, PhaseInv, FfmpegInv, QuietInv, IsFifo,
  Boot, Loop, Starting, Ending, Connected, config, app, pm, peer, wsVars,
  around, CommandsOK, NoStartSwallowed, Quiet

LEMMA AppUnchanged ==
  ASSUME AppInv, UNCHANGED vars
  PROVE  AppInv'
<1>1. PmOK' /\ CommandsOK' /\ (Quiet => Quiet') /\ (NoFfmpeg => NoFfmpeg')
  BY PmSameLemma, SameCommandsLemma DEF AppInv, vars, pm, peer
<1>2. MainTypeOK' /\ PhaseInv'
  BY DEF AppInv, MainTypeOK, PhaseInv, IsFifo, Connected, vars, config, app, pm, peer, wsVars
<1>3. FfmpegInv' /\ QuietInv'
  BY <1>1 DEF AppInv, FfmpegInv, QuietInv, vars, app
<1>4. QED
  BY <1>1, <1>2, <1>3 DEF AppInv

LEMMA AppInitInv == Init => AppInv
<1> SUFFICES ASSUME Init PROVE AppInv
  OBVIOUS
<1>1. MainTypeOK
  <2>1. phase \in Boot /\ attempt \in 0 .. MaxTries /\ path \in {"fifo", "file", "nothing"}
    BY StreamingAssumption DEF Init, Boot
  <2>2. {loop_video, g_running, python_connected, android_connected, streaming_active,
         mediamtx} \subseteq BOOLEAN
    BY DEF Init
  <2>3. detector \in {"absent", "idle", "opening", "session", "gone"}
    BY DEF Init
  <2>4. QED
    BY <2>1, <2>2, <2>3 DEF MainTypeOK
<1>2. PmOK /\ NoFfmpeg
  BY DEF Init, PmOK, NoStrayFfmpeg, NoFfmpeg
<1>3. CommandsOK
  BY StreamingAssumption DEF Init, CommandsOK, NoStartSwallowed
<1>4. PhaseInv
  BY DEF Init, WsInit, PhaseInv, Connected, Boot
<1>5. FfmpegInv /\ QuietInv
  BY <1>2 DEF Init, FfmpegInv, QuietInv, Quiet
<1>6. QED
  BY <1>1, <1>2, <1>3, <1>4, <1>5 DEF AppInv

LEMMA AppNextInv ==
  ASSUME AppInv, WsTypeOK, Next
  PROVE  AppInv'
<1>1. CASE Startup
  BY <1>1, ConfigLoadInv, ConfigProbeVideoInv, ConfigValidateInv, PmStartMediamtxInv,
    PmWaitForMediamtxReadyInv, StartsInv, IpcAcceptClientInv
  DEF Startup, StartWs, StartBridge, IpcServerInit
<1>2. CASE StartStream
  BY <1>2, CamBeginInv, CamSpawnInv, CamStartInv, CamVerifyInv, FileStartInv, FileSpawnInv,
    SendStreamReadyInv DEF StartStream
<1>3. CASE Iterate
  BY <1>3, ForwardDetectionInv, PythonDisconnectedInv, NothingReceivedInv, DdlBridgeTickInv,
    CheckPlaybackInv DEF Iterate
<1>4. CASE End
  BY <1>4, ShutdownInv, CloseServersInv, PmCleanupInv DEF End
<1>5. CASE Service
  BY <1>5, ConnectsInv, DisconnectsInv, WritesInv DEF Service
<1>6. CASE ServiceReturns \/ Signal
  BY <1>6, ServiceReturnsInv, SignalInv
<1>7. CASE Children
  BY <1>7, MediamtxExitsInv, FfmpegPublishesInv, FfmpegExitsInv DEF Children
<1>8. CASE Detector
  BY <1>8, DetectorConnectsInv, DetectorReadsCommandInv, DetectorOpensInv, DetectorAtEndInv,
    DetectorDiesInv DEF Detector
<1>9. QED
  BY <1>1, <1>2, <1>3, <1>4, <1>5, <1>6, <1>7, <1>8 DEF Next, Main

-----------------------------------------------------------------------------
(* The invariant: what is known at each point of main, with the ring's.    *)
THEOREM StreamingInvariant == Spec => []StreamingIInv
<1>1. Init => StreamingIInv
  BY AppInitInv, WsInitInv DEF Init, StreamingIInv
<1>2. StreamingIInv /\ [Next]_vars => StreamingIInv'
  <2> SUFFICES ASSUME StreamingIInv, [Next]_vars PROVE StreamingIInv'
    OBVIOUS
  <2>1. WsIInv'
    BY StepWs, WsStepInv DEF StreamingIInv
  <2>2. AppInv'
    BY AppNextInv, AppUnchanged DEF StreamingIInv, WsIInv
  <2>3. QED
    BY <2>1, <2>2 DEF StreamingIInv
<1>3. QED
  BY <1>1, <1>2, PTL DEF Spec

(* No message that waits for the registered client is forgotten.           *)
THEOREM StreamingTypesAndRequests == Spec => []Inv
<1>1. StreamingIInv => Inv
  BY AppInvType DEF StreamingIInv, WsIInv, Inv, TypeOK
<1>2. QED
  BY <1>1, StreamingInvariant, PTL

(* No FFmpeg runs that the process manager does not know of.               *)
THEOREM OneFfmpeg == Spec => []NoStrayFfmpeg
<1>1. StreamingIInv => NoStrayFfmpeg
  BY DEF StreamingIInv, AppInv, PmOK
<1>2. QED
  BY <1>1, StreamingInvariant, PTL

(* The program leaves no child behind, wherever it fails or ends.          *)
THEOREM ChildrenEndFirst == Spec => []NoChildLeft
<1>1. StreamingIInv => NoChildLeft
  BY DEF StreamingIInv, AppInv, PhaseInv, FfmpegInv, NoFfmpeg, NoChildLeft
<1>2. QED
  BY <1>1, StreamingInvariant, PTL

(* A START comes to a detector that is idle or after a STOP.               *)
THEOREM StartsAreHeard == Spec => []NoStartSwallowed
<1>1. StreamingIInv => NoStartSwallowed
  BY DEF StreamingIInv, AppInv, CommandsOK
<1>2. QED
  BY <1>1, StreamingInvariant, PTL

(* Between callbacks a stream has its detector, a played file its client.  *)
THEOREM StreamsHavePeers == Spec => []StreamHasItsPeers
<1>1. StreamingIInv => StreamHasItsPeers
  BY DEF StreamingIInv, AppInv, PhaseInv, FfmpegInv, QuietInv, Quiet, NoFfmpeg, Loop,
    StreamHasItsPeers
<1>2. QED
  BY <1>1, StreamingInvariant, PTL

-----------------------------------------------------------------------------
(***************************************************************************)
(* The Unix socket: what is returned are the lines that were sent, in      *)
(* order, for every length of lines, size of the buffers and room of the   *)
(* socket.                                                                 *)
(***************************************************************************)

(* What the detector sends is one stream of bytes.  start says where in it *)
(* each line begins, and where the next one will.                          *)
Layout(start) ==
  /\ start \in [1 .. Len(lens) + 1 -> Nat]
  /\ start[1] = 0
  /\ \A a \in DOMAIN lens : start[a + 1] = start[a] + lens[a] + 1
  /\ \A a \in DOMAIN lens, b \in 1 .. Len(lens) + 1 : a < b => start[a] + lens[a] + 1 <= start[b]

(* Byte p of the stream is x.                                              *)
ByteIs(start, p, x) ==
  \E k \in DOMAIN lens :
    /\ start[k] <= p /\ p <= start[k] + lens[k]
    /\ x = IF p = start[k] + lens[k] THEN Newline ELSE k

(* The bytes sent so far, up to a point within the last line.              *)
SentBytes(start) == IF lens = <<>> THEN 0 ELSE start[Len(lens)] + offset

OffsetInv ==
  /\ offset \in Nat
  /\ client = "sending" => lens # <<>> /\ offset <= lens[Len(lens)]
  /\ client = "idle" /\ lens # <<>> => offset = lens[Len(lens)] + 1

(* A buffer b of length n, which begins with byte p of the stream: its     *)
(* first NUL is at g, and only bytes of the stream are before it.  Unless  *)
(* the NUL is inside the buffer, the socket s goes on where it ends, up to *)
(* the last byte sent.                                                     *)
Holds(start, p, b, n, g, s) ==
  /\ g \in 0 .. n
  /\ b[g] = Nul
  /\ \A i \in 0 .. g - 1 : ByteIs(start, p + i, b[i])
  /\ g = n => /\ \A i \in DOMAIN s : ByteIs(start, p + g + i - 1, s[i])
              /\ p + g + Len(s) = SentBytes(start)

(* The buffer begins with the first line that has not been returned.       *)
StreamInv ==
  \E start, g :
    /\ Layout(start)
    /\ Holds(start, start[Len(received) + 1], recv_buffer, recv_len, g, socket)

(* What the code returns for every line, also for one that does not fit.   *)
LinesCut ==
  \A k \in DOMAIN received :
    k <= Len(lens) /\ received[k] = [i \in 1 .. Min({lens[k], BuffSize - 1}) |-> k]

ReceivedInv == LinesCut /\ received \in Seq(Seq(Nat)) /\ Len(received) <= Len(lens)

IpcIInv == IpcTypeOK /\ OffsetInv /\ ReceivedInv /\ StreamInv

-----------------------------------------------------------------------------
(* Operators *)

LEMMA MinIs ==
  ASSUME NEW S \in SUBSET Int, NEW m \in S, \A y \in S : m <= y
  PROVE  Min(S) = m
<1>1. Min(S) \in S /\ \A y \in S : Min(S) <= y
  BY DEF Min
<1>2. Min(S) <= m /\ m <= Min(S) /\ Min(S) \in Int /\ m \in Int
  BY <1>1
<1>3. QED
  BY <1>2

LEMMA MinOfTwo ==
  ASSUME NEW a \in Int, NEW b \in Int
  PROVE  Min({a, b}) = IF a <= b THEN a ELSE b
<1>1. CASE a <= b
  BY <1>1, MinIs
<1>2. CASE ~(a <= b)
  BY <1>2, MinIs
<1>3. QED
  BY <1>1, <1>2

LEMMA Sizes ==
  /\ MaxLines \in Nat /\ BuffSize \in Nat /\ RecvSize \in Nat /\ SocketRoom \in Nat
  /\ UnreadRoom \in Nat /\ MaxCommands \in Nat
  /\ 0 < BuffSize /\ BuffSize < RecvSize /\ 0 < UnreadRoom
  /\ \A l \in LineLengths : l \in Nat /\ l # 0
BY IpcAssumption

LEMMA LineFacts ==
  ASSUME IpcTypeOK
  PROVE  /\ Len(lens) \in Nat /\ DOMAIN lens = 1 .. Len(lens) /\ Len(lens) <= MaxLines
         /\ \A k \in DOMAIN lens : lens[k] \in Nat /\ lens[k] # 0
<1>1. lens \in Seq(LineLengths) /\ Len(lens) <= MaxLines
  BY DEF IpcTypeOK
<1>2. QED
  BY <1>1, Sizes, LenProperties

(* What a line contributes is at or after where it begins, and the last    *)
(* byte of a line is its newline.                                          *)
LEMMA ByteOfLine ==
  ASSUME IpcTypeOK, NEW start, Layout(start), NEW k \in DOMAIN lens,
         NEW p \in Nat, NEW x, ByteIs(start, p, x),
         start[k] <= p, p <= start[k] + lens[k]
  PROVE  x = IF p = start[k] + lens[k] THEN Newline ELSE k
<1>1. PICK j \in DOMAIN lens :
        /\ start[j] <= p /\ p <= start[j] + lens[j]
        /\ x = IF p = start[j] + lens[j] THEN Newline ELSE j
  BY DEF ByteIs
<1>2. /\ start[j] \in Nat /\ start[k] \in Nat /\ lens[j] \in Nat /\ lens[k] \in Nat
      /\ j \in 1 .. Len(lens) /\ k \in 1 .. Len(lens) /\ Len(lens) \in Nat
  BY LineFacts DEF Layout
<1>3. ~(j < k)
  <2>1. SUFFICES ASSUME j < k PROVE FALSE
    OBVIOUS
  <2>2. start[j] + lens[j] + 1 <= start[k]
    BY <1>2, <2>1 DEF Layout
  <2>3. QED
    BY <1>1, <1>2, <2>2
<1>4. ~(k < j)
  <2>1. SUFFICES ASSUME k < j PROVE FALSE
    OBVIOUS
  <2>2. start[k] + lens[k] + 1 <= start[j]
    BY <1>2, <2>1 DEF Layout
  <2>3. QED
    BY <1>1, <1>2, <2>2
<1>5. j = k
  BY <1>2, <1>3, <1>4
<1>6. QED
  BY <1>1, <1>5

LEMMA ByteValue ==
  ASSUME IpcTypeOK, NEW start, NEW p, NEW x, ByteIs(start, p, x)
  PROVE  x \in 0 .. MaxLines
BY LineFacts, Sizes DEF ByteIs, Newline

(* The first newline before the first NUL of a buffer that begins with a   *)
(* line is that line's.                                                    *)
LEMMA FirstNewline ==
  ASSUME IpcTypeOK, NEW start, Layout(start), NEW k \in 1 .. Len(lens) + 1,
         NEW n \in 0 .. RecvSize - 1, NEW b, DOMAIN b = 0 .. RecvSize - 1, NEW g, NEW s,
         Holds(start, start[k], b, n, g, s),
         NewlinesIn(b) # {}
  PROVE  /\ k \in DOMAIN lens
         /\ Min(NewlinesIn(b)) = lens[k] /\ lens[k] < g
         /\ \A i \in 0 .. lens[k] - 1 : b[i] = k
<1>1. Len(lens) \in Nat /\ DOMAIN lens = 1 .. Len(lens) /\ start[k] \in Nat /\ RecvSize \in Nat
  BY LineFacts, Sizes DEF Layout
<1>2. g \in 0 .. n /\ b[g] = Nul /\ \A i \in 0 .. g - 1 : ByteIs(start, start[k] + i, b[i])
  BY DEF Holds
<1>3. PICK i \in NewlinesIn(b) : TRUE
  OBVIOUS
<1>4. \A m \in NewlinesIn(b) : m \in 0 .. g - 1 /\ b[m] = Newline
  <2> TAKE m \in NewlinesIn(b)
  <2>1. m \in 0 .. RecvSize - 1 /\ b[m] = Newline /\ \A j \in 0 .. m : b[j] # Nul
    BY DEF NewlinesIn
  <2>2. ~(g <= m)
    BY <1>1, <1>2, <2>1
  <2>3. QED
    BY <1>1, <1>2, <2>1, <2>2
<1>5. k \in DOMAIN lens /\ \A m \in NewlinesIn(b) : lens[k] <= m
  <2>1. SUFFICES ASSUME NEW m \in NewlinesIn(b) PROVE k \in DOMAIN lens /\ lens[k] <= m
    BY <1>3
  <2>2. ByteIs(start, start[k] + m, Newline) /\ m \in Nat
    BY <1>2, <1>4
  <2>3. PICK j \in DOMAIN lens :
          /\ start[j] <= start[k] + m /\ start[k] + m <= start[j] + lens[j]
          /\ Newline = IF start[k] + m = start[j] + lens[j] THEN Newline ELSE j
    BY <2>2 DEF ByteIs
  <2>4. start[k] + m = start[j] + lens[j]
    BY <1>1, <2>3 DEF Newline
  <2>5. start[j] \in Nat /\ lens[j] \in Nat /\ lens[j] # 0
    BY <1>1, LineFacts DEF Layout
  <2>6. ~(j < k)
    <3>1. SUFFICES ASSUME j < k PROVE FALSE
      OBVIOUS
    <3>2. start[j] + lens[j] + 1 <= start[k]
      BY <3>1 DEF Layout
    <3>3. QED
      BY <1>1, <2>2, <2>4, <2>5, <3>2, SMTT(30)
  <2>7. k \in DOMAIN lens
    BY <1>1, <2>6
  <2>8. lens[k] \in Nat
    BY <2>7, LineFacts
  <2>9. CASE k = j
    BY <1>1, <2>2, <2>4, <2>5, <2>7, <2>9
  <2>10. CASE k < j
    <3>1. start[k] + lens[k] + 1 <= start[j]
      BY <1>1, <2>7, <2>10 DEF Layout
    <3>2. start[k] \in Nat /\ m \in Nat
      BY <1>1, <2>2
    <3>3. lens[k] <= m
      BY <2>4, <2>5, <2>8, <3>1, <3>2, SMTT(30)
    <3>4. QED
      BY <2>7, <3>3
  <2>11. k = j \/ k < j
    BY <1>1, <2>6, <2>7
  <2>12. QED
    BY <2>7, <2>9, <2>10, <2>11
<1>6. lens[k] \in Nat /\ lens[k] < g /\ g \in Nat
  BY <1>1, <1>2, <1>3, <1>4, <1>5, LineFacts
<1>7. \A m \in 0 .. lens[k] : b[m] = IF m = lens[k] THEN Newline ELSE k
  <2> TAKE m \in 0 .. lens[k]
  <2>1. ByteIs(start, start[k] + m, b[m])
    BY <1>2, <1>6
  <2>2. start[k] + m \in Nat /\ start[k] <= start[k] + m /\ start[k] + m <= start[k] + lens[k]
    BY <1>1, <1>6
  <2>3. b[m] = IF start[k] + m = start[k] + lens[k] THEN Newline ELSE k
    BY <1>5, <2>1, <2>2, ByteOfLine
  <2>4. QED
    BY <1>1, <1>6, <2>3
<1>8. lens[k] \in NewlinesIn(b)
  <2>1. lens[k] \in DOMAIN b /\ b[lens[k]] = Newline
    BY <1>1, <1>2, <1>6, <1>7
  <2>2. \A j \in 0 .. lens[k] : b[j] # Nul
    BY <1>1, <1>5, <1>6, <1>7 DEF Nul, Newline
  <2>3. QED
    BY <2>1, <2>2 DEF NewlinesIn
<1>9. Min(NewlinesIn(b)) = lens[k]
  BY <1>4, <1>5, <1>8, MinIs
<1>10. QED
  BY <1>5, <1>6, <1>7, <1>9

LEMMA RestOfSeq ==
  ASSUME NEW S, NEW q \in Seq(S), NEW t \in 0 .. Len(q)
  PROVE  LET r == SubSeq(q, t + 1, Len(q))
         IN  /\ r \in Seq(S) /\ Len(r) = Len(q) - t /\ DOMAIN r = 1 .. Len(q) - t
             /\ \A i \in DOMAIN r : i + t \in DOMAIN q /\ r[i] = q[i + t]
<1> DEFINE r == SubSeq(q, t + 1, Len(q))
           n == Len(q)
<1>1. n \in Nat /\ t \in Nat /\ t <= n /\ t + 1 \in Int /\ DOMAIN q = 1 .. n
  BY LenProperties
<1>2. \A i \in t + 1 .. n : q[i] \in S
  BY <1>1
<1>3. /\ r \in Seq(S)
      /\ Len(r) = IF t + 1 <= n THEN n - (t + 1) + 1 ELSE 0
      /\ \A i \in 1 .. n - (t + 1) + 1 : r[i] = q[t + 1 + i - 1]
  BY <1>1, <1>2, SubSeqProperties
<1>30. Len(r) = IF t + 1 <= n THEN n - (t + 1) + 1 ELSE 0
  BY <1>3
<1>31. r \in Seq(S)
  BY <1>3
<1> HIDE DEF r, n
<1>4. Len(r) = n - t
  BY <1>1, <1>30
<1>5. DOMAIN r = 1 .. n - t
  BY <1>31, <1>4, LenProperties
<1>6. \A i \in DOMAIN r : i + t \in DOMAIN q /\ r[i] = q[i + t]
  <2> TAKE i \in DOMAIN r
  <2>1. i \in 1 .. n - t
    BY <1>5
  <2>2. i \in 1 .. n - (t + 1) + 1 /\ i + t \in 1 .. n /\ t + 1 + i - 1 = i + t
    BY <1>1, <2>1
  <2>3. QED
    BY <1>1, <1>3, <2>2
<1>7. QED
  BY <1>31, <1>4, <1>5, <1>6 DEF r, n

-----------------------------------------------------------------------------
(* Receiving *)

LEMMA TakenFits ==
  ASSUME IpcTypeOK
  PROVE  /\ Taken \in 0 .. Len(socket) /\ recv_len + Taken \in 0 .. RecvSize - 1
         /\ recv_len \in Nat /\ Taken \in Nat
<1>1. Len(socket) \in Nat /\ recv_len \in 0 .. RecvSize - 1 /\ RecvSize \in Nat
  BY LenProperties, Sizes DEF IpcTypeOK
<1>2. Room \in Int /\ Room = RecvSize - 1 - recv_len
  BY <1>1 DEF Room
<1>3. Taken = IF Room <= Len(socket) THEN Room ELSE Len(socket)
  BY <1>1, <1>2, MinOfTwo DEF Taken
<1>4. QED
  BY <1>1, <1>2, <1>3

(* recv appends to the good bytes, or behind the NUL that ends them.       *)
LEMMA AfterRecvHolds ==
  ASSUME IpcTypeOK, NEW start, NEW p \in Nat, NEW g,
         Holds(start, p, recv_buffer, recv_len, g, socket)
  PROVE  LET rest == SubSeq(socket, Taken + 1, Len(socket))
         IN  /\ AfterRecv \in [0 .. RecvSize - 1 -> Junk .. MaxLines]
             /\ rest \in Seq(0 .. MaxLines) /\ Len(rest) <= SocketRoom
             /\ \E h : Holds(start, p, AfterRecv, recv_len + Taken, h, rest)
<1> DEFINE rest == SubSeq(socket, Taken + 1, Len(socket))
           n == recv_len + Taken
           b == AfterRecv
<1>1. /\ Taken \in 0 .. Len(socket) /\ n \in 0 .. RecvSize - 1 /\ n = recv_len + Taken
      /\ recv_len \in Nat /\ Taken \in Nat /\ RecvSize \in Nat /\ MaxLines \in Nat
  BY TakenFits, Sizes
<1>2. socket \in Seq(0 .. MaxLines) /\ Len(socket) \in Nat /\ Len(socket) <= SocketRoom /\ SocketRoom \in Nat
      /\ DOMAIN socket = 1 .. Len(socket) /\ \A i \in 1 .. Len(socket) : socket[i] \in 0 .. MaxLines
  BY Sizes, LenProperties DEF IpcTypeOK
<1>3. /\ rest \in Seq(0 .. MaxLines) /\ Len(rest) = Len(socket) - Taken
      /\ DOMAIN rest = 1 .. Len(socket) - Taken
      /\ \A i \in DOMAIN rest : i + Taken \in DOMAIN socket /\ rest[i] = socket[i + Taken]
  BY <1>1, <1>2, RestOfSeq
<1>4. recv_buffer \in [0 .. RecvSize - 1 -> Junk .. MaxLines]
  BY DEF IpcTypeOK
<1>5. b = [i \in 0 .. RecvSize - 1 |->
             IF i < recv_len THEN recv_buffer[i]
             ELSE IF i < n THEN socket[i - recv_len + 1]
             ELSE IF Taken > 0 /\ i = n THEN Nul
             ELSE recv_buffer[i]]
  BY DEF AfterRecv
<1> HIDE DEF rest, n, b
<1>6. b \in [0 .. RecvSize - 1 -> Junk .. MaxLines]
  <2>1. \A i \in 0 .. RecvSize - 1 : b[i] \in Junk .. MaxLines
    <3> TAKE i \in 0 .. RecvSize - 1
    <3>1. recv_buffer[i] \in Junk .. MaxLines /\ Nul \in Junk .. MaxLines
      BY <1>1, <1>4 DEF Nul, Junk
    <3>2. recv_len <= i /\ i < n => socket[i - recv_len + 1] \in Junk .. MaxLines
      <4>1. recv_len <= i /\ i < n => i - recv_len + 1 \in 1 .. Len(socket)
        BY <1>1, <1>2
      <4>2. 0 .. MaxLines \subseteq Junk .. MaxLines
        BY <1>1 DEF Junk
      <4>3. QED
        BY <1>2, <4>1, <4>2
    <3>3. b[i] = IF i < recv_len THEN recv_buffer[i]
                 ELSE IF i < n THEN socket[i - recv_len + 1]
                 ELSE IF Taken > 0 /\ i = n THEN Nul
                 ELSE recv_buffer[i]
      BY <1>5
    <3>4. QED
      BY <1>1, <3>1, <3>2, <3>3
  <2>2. QED
    BY <1>5, <2>1
<1>7. /\ g \in 0 .. recv_len /\ recv_buffer[g] = Nul
      /\ \A i \in 0 .. g - 1 : ByteIs(start, p + i, recv_buffer[i])
      /\ g = recv_len => /\ \A i \in DOMAIN socket : ByteIs(start, p + g + i - 1, socket[i])
                         /\ p + g + Len(socket) = SentBytes(start)
  BY DEF Holds
<1>8. \A i \in 0 .. g - 1 : b[i] = recv_buffer[i]
  BY <1>1, <1>5, <1>7
<1>9. g < recv_len => \E h : Holds(start, p, b, n, h, rest)
  <2>0. SUFFICES ASSUME g < recv_len PROVE \E h : Holds(start, p, b, n, h, rest)
    OBVIOUS
  <2>1. b[g] = Nul /\ g \in 0 .. n /\ g # n
    BY <1>1, <1>5, <1>7, <2>0
  <2>2. Holds(start, p, b, n, g, rest)
    BY <1>7, <1>8, <2>1 DEF Holds
  <2>3. QED
    BY <2>2
<1>10. g = recv_len => \E h : Holds(start, p, b, n, h, rest)
  <2>0. SUFFICES ASSUME g = recv_len PROVE \E h : Holds(start, p, b, n, h, rest)
    OBVIOUS
  <2>1. b[n] = Nul
    <3>1. CASE Taken > 0
      BY <1>1, <1>5, <3>1
    <3>2. CASE Taken = 0
      BY <1>1, <1>5, <1>7, <2>0, <3>2
    <3>3. QED
      BY <1>1, <3>1, <3>2
  <2>2. \A i \in 0 .. n - 1 : ByteIs(start, p + i, b[i])
    <3> TAKE i \in 0 .. n - 1
    <3>1. CASE i < recv_len
      <4>1. i \in 0 .. g - 1
        BY <1>1, <2>0, <3>1
      <4>2. QED
        BY <1>7, <1>8, <4>1
    <3>2. CASE recv_len <= i
      <4>1. i - recv_len + 1 \in DOMAIN socket /\ p + g + (i - recv_len + 1) - 1 = p + i
        BY <1>1, <1>2, <2>0, <3>2
      <4>2. b[i] = socket[i - recv_len + 1]
        BY <1>1, <1>5, <3>2
      <4>3. ByteIs(start, p + g + (i - recv_len + 1) - 1, socket[i - recv_len + 1])
        BY <1>7, <2>0, <4>1
      <4>4. QED
        BY <4>1, <4>2, <4>3
    <3>3. QED
      BY <1>1, <3>1, <3>2
  <2>3. \A i \in DOMAIN rest : ByteIs(start, p + n + i - 1, rest[i])
    <3> TAKE i \in DOMAIN rest
    <3>1. i + Taken \in DOMAIN socket /\ rest[i] = socket[i + Taken] /\ i \in Nat
      BY <1>1, <1>2, <1>3
    <3>2. p + g + (i + Taken) - 1 = p + n + i - 1
      BY <1>1, <2>0, <3>1
    <3>3. ByteIs(start, p + g + (i + Taken) - 1, socket[i + Taken])
      BY <1>7, <2>0, <3>1
    <3>4. QED
      BY <3>1, <3>2, <3>3
  <2>4. p + n + Len(rest) = SentBytes(start)
    BY <1>1, <1>2, <1>3, <1>7, <2>0
  <2>5. n \in 0 .. n
    BY <1>1
  <2>6. Holds(start, p, b, n, n, rest)
    BY <2>1, <2>2, <2>3, <2>4, <2>5 DEF Holds
  <2>7. QED
    BY <2>6
<1>11. g < recv_len \/ g = recv_len
  BY <1>1, <1>7
<1>12. (\E h : Holds(start, p, b, n, h, rest)) /\ Len(rest) <= SocketRoom
  <2>1. Len(rest) <= SocketRoom
    BY <1>1, <1>2, <1>3
  <2>2. QED
    BY <1>9, <1>10, <1>11, <2>1
<1>13. QED
  BY <1>3, <1>6, <1>12 DEF rest, n, b

(* Cutting the first line off, be it as a whole or short of its end.       *)
LEMMA CutHolds ==
  ASSUME IpcTypeOK, NEW start, Layout(start), NEW k \in DOMAIN lens,
         NEW b \in [0 .. RecvSize - 1 -> Junk .. MaxLines], NEW n \in 0 .. RecvSize - 1,
         NEW g, NEW s, Holds(start, start[k], b, n, g, s), lens[k] < g,
         NEW m \in 0 .. lens[k]
  PROVE  LET r == n - (m + 1)
             c == [i \in DOMAIN b |-> IF i < r THEN Moved(b, lens[k] + 1 + i)
                                      ELSE IF i = r THEN Nul ELSE b[i]]
         IN  /\ r \in 0 .. RecvSize - 1
             /\ c \in [0 .. RecvSize - 1 -> Junk .. MaxLines]
             /\ \E h : Holds(start, start[k + 1], c, r, h, s)
<1> DEFINE nl == lens[k]
           h == g - nl - 1
           r == n - (m + 1)
           c == [i \in DOMAIN b |-> IF i < r THEN Moved(b, nl + 1 + i)
                                    ELSE IF i = r THEN Nul ELSE b[i]]
<1>1. /\ nl \in Nat /\ m \in Nat /\ m <= nl /\ n \in Nat /\ n < RecvSize /\ RecvSize \in Nat
      /\ MaxLines \in Nat /\ start[k] \in Nat /\ start[k + 1] = start[k] + nl + 1
      /\ DOMAIN b = 0 .. RecvSize - 1
  BY LineFacts, Sizes DEF Layout
<1>2. /\ g \in 0 .. n /\ b[g] = Nul /\ nl < g
      /\ \A i \in 0 .. g - 1 : ByteIs(start, start[k] + i, b[i])
      /\ g = n => /\ \A i \in DOMAIN s : ByteIs(start, start[k] + g + i - 1, s[i])
                  /\ start[k] + g + Len(s) = SentBytes(start)
  BY DEF Holds
<1>3. /\ c = [i \in 0 .. RecvSize - 1 |-> IF i < r THEN Moved(b, nl + 1 + i)
                                          ELSE IF i = r THEN Nul ELSE b[i]]
  BY <1>1
<1> HIDE DEF nl, c
<1>4. /\ g \in Nat /\ g <= n /\ h \in Nat /\ h = g - nl - 1 /\ r \in Nat /\ r = n - (m + 1)
      /\ h <= r /\ r < RecvSize /\ (h = r <=> g = n /\ m = nl)
  <2>1. g \in Nat /\ g <= n /\ nl < g
    BY <1>1, <1>2
  <2>2. QED
    BY <1>1, <2>1
<1> HIDE DEF h, r
<1>5. c \in [0 .. RecvSize - 1 -> Junk .. MaxLines]
  <2>1. ASSUME NEW i \in 0 .. RecvSize - 1 PROVE Moved(b, nl + 1 + i) \in Junk .. MaxLines
    <3>1. nl + 1 + i \in Nat /\ Junk \in Junk .. MaxLines
      BY <1>1 DEF Junk
    <3>2. nl + 1 + i < RecvSize => nl + 1 + i \in 0 .. RecvSize - 1
      BY <1>1, <3>1
    <3>3. QED
      BY <3>1, <3>2 DEF Moved
  <2>2. Nul \in Junk .. MaxLines
    BY <1>1 DEF Nul, Junk
  <2>3. QED
    BY <1>3, <2>1, <2>2
<1>6. \A i \in 0 .. h - 1 : c[i] = b[nl + 1 + i] /\ nl + 1 + i \in 0 .. g - 1
  <2> TAKE i \in 0 .. h - 1
  <2>1. i < r /\ nl + 1 + i < RecvSize /\ nl + 1 + i \in 0 .. g - 1 /\ i \in 0 .. RecvSize - 1
    BY <1>1, <1>4
  <2>2. QED
    BY <1>3, <2>1 DEF Moved
<1>7. c[h] = Nul
  <2>1. CASE h = r
    <3>1. r \in 0 .. RecvSize - 1 /\ ~(r < r)
      BY <1>1, <1>4
    <3>2. c[r] = Nul
      BY <1>3, <3>1
    <3>3. QED
      BY <2>1, <3>2
  <2>2. CASE h < r
    <3>1. nl + 1 + h = g /\ g < RecvSize /\ h \in 0 .. RecvSize - 1
      BY <1>1, <1>4
    <3>2. c[h] = Moved(b, nl + 1 + h)
      BY <1>3, <2>2, <3>1
    <3>3. QED
      BY <1>2, <3>1, <3>2 DEF Moved
  <2>3. QED
    BY <1>4, <2>1, <2>2
<1>8. \A i \in 0 .. h - 1 : ByteIs(start, start[k + 1] + i, c[i])
  <2> TAKE i \in 0 .. h - 1
  <2>1. start[k] + (nl + 1 + i) = start[k + 1] + i
    BY <1>1
  <2>2. ByteIs(start, start[k] + (nl + 1 + i), b[nl + 1 + i])
    BY <1>2, <1>6
  <2>3. QED
    BY <1>6, <2>1, <2>2
<1>9. h = r => /\ \A i \in DOMAIN s : ByteIs(start, start[k + 1] + h + i - 1, s[i])
               /\ start[k + 1] + h + Len(s) = SentBytes(start)
  <2>1. start[k + 1] + h = start[k] + g
    <3>1. start[k] \in Nat /\ nl \in Nat /\ start[k + 1] = start[k] + nl + 1
      BY <1>1
    <3>2. g \in Nat /\ h = g - nl - 1
      BY <1>4
    <3>3. QED
      BY <3>1, <3>2
  <2>2. QED
    BY <1>2, <1>4, <2>1
<1>10. Holds(start, start[k + 1], c, r, h, s)
  BY <1>1, <1>4, <1>7, <1>8, <1>9 DEF Holds
<1>11. r \in 0 .. RecvSize - 1
  BY <1>1, <1>4
<1>12. QED
  BY <1>5, <1>10, <1>11 DEF nl, r, c

-----------------------------------------------------------------------------
(* The steps *)

LEMMA IpcStart == IpcInit => IpcIInv
<1> SUFFICES ASSUME IpcInit PROVE IpcIInv
  OBVIOUS
<1> DEFINE start == [i \in 1 .. 1 |-> 0]
<1>1. lens = <<>> /\ offset = 0 /\ client = "idle" /\ socket = <<>> /\ received = <<>> /\ recv_len = 0
  BY DEF IpcInit
<1>2. recv_buffer = [i \in 0 .. RecvSize - 1 |-> Nul] /\ recv_buffer[0] = Nul
  BY Sizes DEF IpcInit
<1>3. IpcTypeOK
  <2>1. Nul \in Junk .. MaxLines /\ 0 \in 0 .. RecvSize - 1 /\ 0 \in 0 .. UnreadRoom /\ 0 \in 0 .. MaxCommands
    BY Sizes DEF Nul, Junk
  <2>2. lens \in Seq(LineLengths) /\ Len(lens) = 0 /\ socket \in Seq(0 .. MaxLines) /\ Len(socket) = 0
    BY <1>1
  <2>3. QED
    BY <1>1, <1>2, <2>1, <2>2, Sizes DEF IpcTypeOK, IpcInit
<1>4. OffsetInv
  BY <1>1 DEF OffsetInv
<1>5. ReceivedInv
  <2>1. received \in Seq(Seq(Nat)) /\ Len(received) = 0 /\ DOMAIN received = {} /\ Len(lens) = 0
    BY <1>1
  <2>2. QED
    BY <2>1 DEF ReceivedInv, LinesCut
<1>6. Layout(start)
  <2>1. Len(lens) = 0 /\ DOMAIN lens = {}
    BY <1>1
  <2>2. QED
    BY <2>1 DEF Layout
<1>7. Holds(start, start[Len(received) + 1], recv_buffer, recv_len, 0, socket)
  <2>1. Len(received) + 1 = 1 /\ start[1] = 0 /\ SentBytes(start) = 0 /\ DOMAIN socket = {} /\ Len(socket) = 0
    BY <1>1 DEF SentBytes
  <2>2. QED
    BY <1>1, <1>2, <2>1 DEF Holds
<1>8. StreamInv
  BY <1>6, <1>7 DEF StreamInv
<1>9. QED
  BY <1>3, <1>4, <1>5, <1>8 DEF IpcIInv

(* A step of neither end on the stream.                                    *)
LEMMA QuietStep ==
  ASSUME IpcIInv, client' \in {client, "closed"},
         UNCHANGED <<lens, offset, socket, recv_buffer, recv_len, received>>
  PROVE  (OffsetInv /\ ReceivedInv /\ StreamInv)'
<1>1. OffsetInv'
  BY DEF IpcIInv, OffsetInv
<1>2. ReceivedInv'
  BY DEF IpcIInv, ReceivedInv, LinesCut
<1>3. PICK start, g : Layout(start) /\ Holds(start, start[Len(received) + 1], recv_buffer, recv_len, g, socket)
  BY DEF IpcIInv, StreamInv
<1>4. Layout(start)'
  BY <1>3 DEF Layout
<1>5. SentBytes(start)' = SentBytes(start)
  BY DEF SentBytes
<1>6. ASSUME NEW q, NEW x PROVE ByteIs(start, q, x)' <=> ByteIs(start, q, x)
  BY DEF ByteIs
<1>7. Holds(start, start[Len(received) + 1], recv_buffer, recv_len, g, socket)'
  BY <1>3, <1>5, <1>6 DEF Holds
<1>8. StreamInv'
  BY <1>4, <1>7 DEF StreamInv
<1>9. QED
  BY <1>1, <1>2, <1>8

LEMMA SendDetectionStep ==
  ASSUME IpcIInv, SendDetection
  PROVE  IpcIInv'
<1> DEFINE L == Len(lens)
<1>1. L \in Nat /\ DOMAIN lens = 1 .. L /\ L < MaxLines /\ MaxLines \in Nat
      /\ lens \in Seq(LineLengths) /\ \A k \in 1 .. L : lens[k] \in Nat
  BY LineFacts, Sizes DEF IpcIInv, IpcTypeOK, SendDetection
<1>2. PICK l \in LineLengths : lens' = Append(lens, l)
  BY DEF SendDetection
<1>3. /\ l \in Nat /\ lens' \in Seq(LineLengths) /\ Len(lens') = L + 1 /\ DOMAIN lens' = 1 .. L + 1
      /\ lens'[L + 1] = l /\ \A k \in 1 .. L : lens'[k] = lens[k]
  BY <1>1, <1>2, Sizes, AppendProperties
<1>4. /\ client = "idle" /\ client' = "sending" /\ offset' = 0
      /\ UNCHANGED <<socket, recv_buffer, recv_len, client_fd, received, server, unread, sentCommands>>
  BY DEF SendDetection, recvVars, cmdVars
<1> HIDE DEF L
<1>5. IpcTypeOK'
  <2>1. L + 1 <= MaxLines
    BY <1>1
  <2>2. QED
    BY <1>3, <1>4, <2>1 DEF IpcIInv, IpcTypeOK
<1>6. OffsetInv'
  <2>1. lens' # <<>> /\ 0 <= lens'[Len(lens')]
    BY <1>1, <1>3
  <2>2. QED
    BY <1>4, <2>1 DEF OffsetInv
<1>7. received \in Seq(Seq(Nat)) /\ Len(received) \in Nat /\ DOMAIN received = 1 .. Len(received) /\ Len(received) <= L
  BY LenProperties DEF IpcIInv, ReceivedInv, L
<1>8. ReceivedInv'
  <2>1. \A k \in DOMAIN received : k <= L + 1 /\ k \in 1 .. L
    BY <1>1, <1>7
  <2>2. LinesCut'
    BY <1>3, <1>4, <2>1 DEF IpcIInv, ReceivedInv, LinesCut
  <2>3. Len(received) <= L + 1
    BY <1>1, <1>7
  <2>4. QED
    BY <1>3, <1>4, <1>7, <2>2, <2>3 DEF ReceivedInv
<1>9. PICK start, g : Layout(start) /\ Holds(start, start[Len(received) + 1], recv_buffer, recv_len, g, socket)
  BY DEF IpcIInv, StreamInv
<1>10. /\ start \in [1 .. L + 1 -> Nat] /\ start[1] = 0
       /\ \A a \in 1 .. L : start[a + 1] = start[a] + lens[a] + 1
       /\ \A a \in 1 .. L, b \in 1 .. L + 1 : a < b => start[a] + lens[a] + 1 <= start[b]
  BY <1>1, <1>9 DEF Layout, L
<1>11. PICK next :
         /\ next \in [1 .. L + 2 -> Nat] /\ \A i \in 1 .. L + 1 : next[i] = start[i]
         /\ next[L + 2] = start[L + 1] + l + 1
  <2> DEFINE f == [i \in 1 .. L + 2 |-> IF i <= L + 1 THEN start[i] ELSE start[L + 1] + l + 1]
  <2>1. /\ f \in [1 .. L + 2 -> Nat] /\ \A i \in 1 .. L + 1 : f[i] = start[i]
        /\ f[L + 2] = start[L + 1] + l + 1
    BY <1>1, <1>3, <1>10
  <2>2. QED
    BY <2>1
<1>12. Layout(next)'
  <2>1. next[1] = 0 /\ (L + 1) + 1 = L + 2
    BY <1>1, <1>10, <1>11
  <2>2. ASSUME NEW a \in 1 .. L + 1 PROVE next[a + 1] = next[a] + lens'[a] + 1
    <3>1. CASE a \in 1 .. L
      <4>1. a + 1 \in 1 .. L + 1 /\ a \in 1 .. L + 1
        BY <1>1, <3>1
      <4>2. QED
        BY <1>3, <1>10, <1>11, <3>1, <4>1
    <3>2. CASE a = L + 1
      <4>1. a + 1 = L + 2 /\ a \in 1 .. L + 1
        BY <1>1, <3>2
      <4>2. QED
        BY <1>3, <1>11, <3>2, <4>1
    <3>3. QED
      BY <1>1, <3>1, <3>2
  <2>3. ASSUME NEW a \in 1 .. L + 1, NEW b \in 1 .. L + 2, a < b
        PROVE  next[a] + lens'[a] + 1 <= next[b]
    <3>1. CASE b \in 1 .. L + 1
      <4>1. a \in 1 .. L
        BY <1>1, <2>3, <3>1
      <4>2. QED
        BY <1>3, <1>10, <1>11, <2>3, <3>1, <4>1
    <3>2. CASE b = L + 2 /\ a = L + 1
      BY <1>3, <1>11, <3>2, <2>2
    <3>3. CASE b = L + 2 /\ a \in 1 .. L
      <4>1. L + 1 \in 1 .. L + 1 /\ a < L + 1
        BY <1>1, <3>3
      <4>2. start[a] + lens[a] + 1 <= start[L + 1]
        BY <1>10, <3>3, <4>1
      <4>3. /\ next[a] = start[a] /\ lens'[a] = lens[a] /\ next[b] = start[L + 1] + l + 1
            /\ start[a] \in Nat /\ lens[a] \in Nat /\ start[L + 1] \in Nat
        BY <1>1, <1>3, <1>10, <1>11, <3>3, <4>1
      <4>4. QED
        BY <1>3, <4>2, <4>3
    <3>4. b \in 1 .. L + 1 \/ (b = L + 2 /\ a = L + 1) \/ (b = L + 2 /\ a \in 1 .. L)
      BY <1>1
    <3>5. QED
      BY <3>1, <3>2, <3>3, <3>4
  <2>4. Len(lens') + 1 = L + 2
    BY <1>1, <1>3
  <2>5. QED
    BY <1>3, <1>11, <2>1, <2>2, <2>3, <2>4 DEF Layout
<1>13. ASSUME NEW p, NEW x, ByteIs(start, p, x) PROVE ByteIs(next, p, x)'
  <2>1. PICK k \in 1 .. L :
          /\ start[k] <= p /\ p <= start[k] + lens[k]
          /\ x = IF p = start[k] + lens[k] THEN Newline ELSE k
    BY <1>1, <1>13 DEF ByteIs
  <2>2. k \in DOMAIN lens' /\ k \in 1 .. L + 1 /\ next[k] = start[k] /\ lens'[k] = lens[k]
    BY <1>1, <1>3, <1>11
  <2>3. QED
    BY <2>1, <2>2 DEF ByteIs
<1>14. SentBytes(next)' = SentBytes(start)
  <2>1. SentBytes(next)' = start[L + 1]
    <3>1. lens' # <<>> /\ L + 1 \in 1 .. L + 1
      BY <1>1, <1>3
    <3>2. SentBytes(next)' = next[L + 1] + 0
      BY <1>3, <1>4, <3>1 DEF SentBytes
    <3>3. QED
      BY <1>10, <1>11, <3>1, <3>2
  <2>2. CASE lens = <<>>
    <3>1. L = 0
      BY <2>2 DEF L
    <3>2. QED
      BY <1>10, <2>1, <2>2, <3>1 DEF SentBytes
  <2>3. CASE lens # <<>>
    <3>1. L \in 1 .. L
      BY <1>1, <2>3, EmptySeq DEF L
    <3>2. SentBytes(start) = start[L] + (lens[L] + 1)
      BY <1>4, <2>3 DEF IpcIInv, OffsetInv, SentBytes, L
    <3>3. start[L] \in Nat /\ lens[L] \in Nat /\ start[L + 1] = start[L] + lens[L] + 1
      BY <1>1, <1>10, <3>1
    <3>4. QED
      BY <2>1, <3>2, <3>3
  <2>4. QED
    BY <2>2, <2>3
<1>15. next[Len(received) + 1] = start[Len(received) + 1]
  <2>1. Len(received) + 1 \in 1 .. L + 1
    BY <1>1, <1>7
  <2>2. QED
    BY <1>11, <2>1
<1>16. Holds(next, next[Len(received) + 1], recv_buffer, recv_len, g, socket)'
  BY <1>4, <1>9, <1>13, <1>14, <1>15 DEF Holds
<1>17. StreamInv'
  BY <1>12, <1>16 DEF StreamInv
<1>18. QED
  BY <1>5, <1>6, <1>8, <1>17 DEF IpcIInv

(* What is handed to the kernel goes on where the last send stopped.       *)
LEMMA SendBytesStep ==
  ASSUME IpcIInv, SendBytes
  PROVE  IpcIInv'
<1> DEFINE L == Len(lens)
           l == lens[L]
           q == Len(socket)
           ByteAt(i) == IF i <= l THEN L ELSE Newline
<1>1. /\ client = "sending" /\ offset \in Nat /\ lens # <<>> /\ offset <= l
  BY DEF IpcIInv, OffsetInv, SendBytes
<1>2. L \in 1 .. MaxLines /\ DOMAIN lens = 1 .. L /\ l \in Nat /\ MaxLines \in Nat
  <2>1. L \in Nat /\ L # 0 /\ L <= MaxLines /\ DOMAIN lens = 1 .. L /\ MaxLines \in Nat
    BY <1>1, LineFacts, Sizes, EmptySeq DEF IpcIInv, IpcTypeOK
  <2>2. L \in DOMAIN lens
    BY <2>1
  <2>3. l \in Nat
    BY <2>2, LineFacts DEF IpcIInv
  <2>4. QED
    BY <2>1, <2>3
<1>3. socket \in Seq(0 .. MaxLines) /\ q \in Nat /\ DOMAIN socket = 1 .. q /\ q <= SocketRoom /\ SocketRoom \in Nat
  BY LenProperties, Sizes DEF IpcIInv, IpcTypeOK
<1>4. PICK n \in 1 .. Min({SocketRoom - q, l + 1 - offset}) :
        /\ socket' = socket \o [i \in 1 .. n |-> ByteAt(offset + i)]
        /\ offset' = offset + n
        /\ client' = IF offset' = l + 1 THEN "idle" ELSE "sending"
  BY DEF SendBytes
<1>5. UNCHANGED <<lens, recv_buffer, recv_len, client_fd, received, server, unread, sentCommands>>
  BY DEF SendBytes, recvVars, cmdVars
<1> HIDE DEF L, l, q
<1>6. n \in Nat /\ 1 <= n /\ n <= SocketRoom - q /\ n <= l + 1 - offset
  <2>1. SocketRoom - q \in Int /\ l + 1 - offset \in Int
    BY <1>1, <1>2, <1>3
  <2>2. Min({SocketRoom - q, l + 1 - offset}) = IF SocketRoom - q <= l + 1 - offset THEN SocketRoom - q ELSE l + 1 - offset
    BY <2>1, MinOfTwo
  <2>3. n \in 1 .. (IF SocketRoom - q <= l + 1 - offset THEN SocketRoom - q ELSE l + 1 - offset)
    BY <2>2
  <2>4. QED
    BY <2>1, <2>3
<1> DEFINE more == [i \in 1 .. n |-> ByteAt(offset + i)]
<1>7. more \in Seq(0 .. MaxLines) /\ Len(more) = n /\ \A i \in 1 .. n : more[i] = ByteAt(offset + i)
  <2>1. \A i \in 1 .. n : ByteAt(offset + i) \in 0 .. MaxLines
    BY <1>2 DEF Newline
  <2>2. more \in [1 .. n -> 0 .. MaxLines]
    BY <2>1
  <2>3. more \in Seq(0 .. MaxLines)
    BY <1>6, <2>2, SeqDef
  <2>4. Len(more) = n
    BY <1>6, <2>2, <2>3, LenProperties
  <2>5. QED
    BY <2>3, <2>4
<1>8. /\ socket' \in Seq(0 .. MaxLines) /\ Len(socket') = q + n /\ DOMAIN socket' = 1 .. q + n
      /\ \A i \in 1 .. q + n : socket'[i] = IF i <= q THEN socket[i] ELSE more[i - q]
  <2>1. socket' = socket \o more
    BY <1>4
  <2> HIDE DEF more
  <2>2. socket' \in Seq(0 .. MaxLines) /\ Len(socket') = q + n
    BY <1>3, <1>7, <2>1, ConcatProperties DEF q
  <2>3. \A i \in 1 .. q + n : socket'[i] = IF i <= q THEN socket[i] ELSE more[i - q]
    BY <1>3, <1>7, <2>1, ConcatProperties DEF q
  <2>4. QED
    BY <2>2, <2>3, LenProperties
<1> HIDE DEF more, ByteAt
<1>9. IpcTypeOK'
  <2>1. q + n <= SocketRoom
    BY <1>3, <1>6
  <2>2. client' \in {"idle", "sending", "closed"}
    BY <1>4
  <2>3. QED
    BY <1>5, <1>8, <2>1, <2>2 DEF IpcIInv, IpcTypeOK
<1>10. OffsetInv'
  <2>1. offset' \in Nat /\ (offset' # l + 1 => offset' <= l) /\ offset' = offset + n
    BY <1>1, <1>2, <1>4, <1>6
  <2>2. (offset' = l + 1 /\ client' = "idle") \/ (offset' # l + 1 /\ client' = "sending")
    BY <1>4
  <2>3. lens' = lens /\ lens[Len(lens)] = l
    BY <1>5 DEF l, L
  <2>4. QED
    BY <1>1, <2>1, <2>2, <2>3 DEF OffsetInv
<1>11. ReceivedInv'
  BY <1>5 DEF IpcIInv, ReceivedInv, LinesCut
<1>12. PICK start, g : Layout(start) /\ Holds(start, start[Len(received) + 1], recv_buffer, recv_len, g, socket)
  BY DEF IpcIInv, StreamInv
<1>13. Layout(start)'
  BY <1>5, <1>12 DEF Layout
<1>14. ASSUME NEW j, NEW x PROVE ByteIs(start, j, x)' <=> ByteIs(start, j, x)
  BY <1>5 DEF ByteIs
<1>15. start[L] \in Nat /\ SentBytes(start) = start[L] + offset /\ SentBytes(start)' = start[L] + offset + n
  <2>1. start[L] \in Nat
    BY <1>2, <1>12 DEF Layout, L
  <2>2. SentBytes(start) = start[L] + offset /\ SentBytes(start)' = start[L] + (offset + n)
    BY <1>1, <1>4, <1>5 DEF SentBytes, L
  <2>3. QED
    BY <1>1, <1>6, <2>1, <2>2
<1>16. \A i \in 1 .. n : ByteIs(start, start[L] + offset + i - 1, ByteAt(offset + i))
  <2> TAKE i \in 1 .. n
  <2>1. /\ start[L] <= start[L] + offset + i - 1 /\ start[L] + offset + i - 1 <= start[L] + l
        /\ (offset + i <= l) <=> (start[L] + offset + i - 1 # start[L] + l)
    BY <1>1, <1>2, <1>6, <1>15
  <2>2. ByteAt(offset + i) = IF start[L] + offset + i - 1 = start[L] + l THEN Newline ELSE L
    BY <2>1 DEF ByteAt
  <2>3. L \in DOMAIN lens /\ lens[L] = l
    BY <1>2 DEF l
  <2>4. QED
    BY <2>1, <2>2, <2>3 DEF ByteIs
<1> DEFINE p == start[Len(received) + 1]
<1>17. /\ g \in 0 .. recv_len /\ recv_buffer[g] = Nul
       /\ \A i \in 0 .. g - 1 : ByteIs(start, p + i, recv_buffer[i])
       /\ g = recv_len => /\ \A i \in 1 .. q : ByteIs(start, p + g + i - 1, socket[i])
                          /\ p + g + q = start[L] + offset
  BY <1>3, <1>12, <1>15 DEF Holds, q
<1>18. p \in Nat /\ g \in Nat
  <2>1. Len(received) + 1 \in 1 .. L + 1 /\ recv_len \in Nat
    <3>1. Len(received) \in Nat /\ Len(received) <= L /\ recv_len \in 0 .. RecvSize - 1 /\ RecvSize \in Nat
      BY LenProperties, Sizes DEF IpcIInv, ReceivedInv, IpcTypeOK, L
    <3>2. QED
      BY <1>2, <3>1
  <2>2. QED
    BY <1>12, <1>17, <2>1 DEF Layout, L
<1>19. ASSUME g = recv_len
       PROVE  /\ \A i \in 1 .. q + n : ByteIs(start, p + g + i - 1, socket'[i])
              /\ p + g + (q + n) = start[L] + offset + n
  <2>1. ASSUME NEW i \in 1 .. q + n PROVE ByteIs(start, p + g + i - 1, socket'[i])
    <3>1. CASE i <= q
      BY <1>3, <1>8, <1>17, <1>19, <3>1
    <3>2. CASE ~(i <= q)
      <4>1. i - q \in 1 .. n /\ p + g + i - 1 = (p + g + q) + (i - q) - 1
        BY <1>3, <1>6, <1>18, <3>2
      <4>2. p + g + i - 1 = start[L] + offset + (i - q) - 1
        BY <1>17, <1>19, <4>1
      <4>3. socket'[i] = ByteAt(offset + (i - q))
        BY <1>7, <1>8, <3>2, <4>1
      <4>4. QED
        BY <1>16, <4>1, <4>2, <4>3
    <3>3. QED
      BY <3>1, <3>2
  <2>2. p + g + (q + n) = (p + g + q) + n
    BY <1>3, <1>6, <1>18
  <2>3. QED
    BY <1>17, <1>19, <2>1, <2>2
<1>20. Holds(start, start[Len(received) + 1], recv_buffer, recv_len, g, socket)'
  BY <1>5, <1>8, <1>14, <1>15, <1>17, <1>19 DEF Holds
<1>21. StreamInv'
  BY <1>13, <1>20 DEF StreamInv
<1>22. QED
  BY <1>9, <1>10, <1>11, <1>21 DEF IpcIInv

(* What recv has added, and the line that is returned, if any.             *)
LEMMA RecvMessageStep ==
  ASSUME IpcIInv, RecvMessage
  PROVE  IpcIInv'
<1> DEFINE b == AfterRecv
           n == recv_len + Taken
           rest == SubSeq(socket, Taken + 1, Len(socket))
           k == Len(received) + 1
<1>1. /\ socket' = rest
      /\ UNCHANGED <<lens, offset, client, client_fd, server, unread, sentCommands>>
  BY DEF RecvMessage, clientVars, cmdVars
<1>2. /\ IpcTypeOK /\ OffsetInv /\ LinesCut /\ received \in Seq(Seq(Nat)) /\ Len(received) <= Len(lens)
  BY DEF IpcIInv, ReceivedInv
<1>3. /\ Len(lens) \in Nat /\ DOMAIN lens = 1 .. Len(lens) /\ Len(received) \in Nat
      /\ DOMAIN received = 1 .. Len(received) /\ k \in 1 .. Len(lens) + 1
      /\ BuffSize \in Nat /\ 0 < BuffSize /\ RecvSize \in Nat
  <2>1. Len(lens) \in Nat /\ DOMAIN lens = 1 .. Len(lens)
    BY <1>2, LineFacts
  <2>2. Len(received) \in Nat /\ DOMAIN received = 1 .. Len(received)
    BY <1>2, LenProperties
  <2>3. k \in 1 .. Len(lens) + 1
    BY <1>2, <2>1, <2>2
  <2>4. QED
    BY <2>1, <2>2, <2>3, Sizes
<1>4. PICK start, g : Layout(start) /\ Holds(start, start[k], recv_buffer, recv_len, g, socket)
  BY DEF IpcIInv, StreamInv
<1>5. start[k] \in Nat
  BY <1>3, <1>4 DEF Layout
<1>6. /\ b \in [0 .. RecvSize - 1 -> Junk .. MaxLines]
      /\ rest \in Seq(0 .. MaxLines) /\ Len(rest) <= SocketRoom
      /\ \E h : Holds(start, start[k], b, n, h, rest)
  BY <1>2, <1>4, <1>5, AfterRecvHolds
<1>7. n \in 0 .. RecvSize - 1
  BY <1>2, TakenFits
<1>8. PICK h : Holds(start, start[k], b, n, h, rest)
  BY <1>6
<1>9. OffsetInv'
  BY <1>1, <1>2 DEF OffsetInv
<1>10. Layout(start)' /\ SentBytes(start)' = SentBytes(start)
  BY <1>1, <1>4 DEF Layout, SentBytes
<1>11. ASSUME NEW j, NEW x PROVE ByteIs(start, j, x)' <=> ByteIs(start, j, x)
  BY <1>1 DEF ByteIs
<1>12. ASSUME recv_buffer' \in [0 .. RecvSize - 1 -> Junk .. MaxLines], recv_len' \in 0 .. RecvSize - 1
       PROVE  IpcTypeOK'
  BY <1>1, <1>2, <1>6, <1>12 DEF IpcTypeOK
<1>13. ASSUME \E i : Holds(start, start[Len(received') + 1], recv_buffer', recv_len', i, rest)
       PROVE  StreamInv'
  <2>1. PICK i : Holds(start, start[Len(received') + 1], recv_buffer', recv_len', i, rest)
    BY <1>13
  <2>2. Holds(start, start[Len(received) + 1], recv_buffer, recv_len, i, socket)'
    BY <1>1, <1>10, <1>11, <2>1 DEF Holds
  <2>3. QED
    BY <1>10, <2>2 DEF StreamInv
<1>14. CASE NewlinesIn(b) = {}
  <2>1. recv_buffer' = b /\ recv_len' = n /\ received' = received
    BY <1>14 DEF RecvMessage
  <2>2. ReceivedInv'
    BY <1>1, <1>2, <2>1 DEF ReceivedInv, LinesCut
  <2>3. StreamInv'
    BY <1>8, <1>13, <2>1
  <2>4. IpcTypeOK'
    BY <1>6, <1>7, <1>12, <2>1
  <2>5. QED
    BY <1>9, <2>2, <2>3, <2>4 DEF IpcIInv
<1>15. CASE NewlinesIn(b) # {}
  <2> DEFINE m == IF Min(NewlinesIn(b)) >= BuffSize THEN BuffSize - 1 ELSE Min(NewlinesIn(b))
             line == [i \in 1 .. m |-> b[i - 1]]
             r == n - (m + 1)
             c == [i \in DOMAIN b |-> IF i < r THEN Moved(b, lens[k] + 1 + i)
                                      ELSE IF i = r THEN Nul ELSE b[i]]
  <2>1. DOMAIN b = 0 .. RecvSize - 1
    BY <1>6
  <2>2. /\ k \in DOMAIN lens /\ Min(NewlinesIn(b)) = lens[k] /\ lens[k] < h
        /\ \A i \in 0 .. lens[k] - 1 : b[i] = k
    <3> HIDE DEF b, n, rest, k
    <3>1. QED
      BY <1>2, <1>3, <1>4, <1>7, <1>8, <1>15, <2>1, FirstNewline
  <2>3. lens[k] \in Nat
    BY <1>2, <2>2, LineFacts
  <2>4. m \in 0 .. lens[k] /\ m = Min({lens[k], BuffSize - 1})
    <3>1. BuffSize - 1 \in Int
      BY <1>3
    <3>2. Min({lens[k], BuffSize - 1}) = IF lens[k] <= BuffSize - 1 THEN lens[k] ELSE BuffSize - 1
      BY <2>3, <3>1, MinOfTwo
    <3>3. m = IF lens[k] >= BuffSize THEN BuffSize - 1 ELSE lens[k]
      BY <2>2
    <3>4. QED
      BY <1>3, <2>3, <3>2, <3>3
  <2>5. received' = Append(received, line) /\ CutMessage(b, n, Min(NewlinesIn(b)), m)
    BY <1>15 DEF RecvMessage
  <2>6. recv_len' = r /\ recv_buffer' = c
    BY <2>2, <2>5 DEF CutMessage
  <2>7. /\ r \in 0 .. RecvSize - 1
        /\ c \in [0 .. RecvSize - 1 -> Junk .. MaxLines]
        /\ \E i : Holds(start, start[k + 1], c, r, i, rest)
    <3> HIDE DEF b, n, rest, k, m
    <3>1. QED
      BY <1>2, <1>4, <1>6, <1>7, <1>8, <2>2, <2>4, CutHolds, ZenonT(60)
  <2> HIDE DEF b, n, rest, r, c, m
  <2>8. line = [i \in 1 .. Min({lens[k], BuffSize - 1}) |-> k] /\ line \in Seq(Nat)
    <3>1. \A i \in 1 .. m : i - 1 \in 0 .. lens[k] - 1
      BY <2>3, <2>4
    <3>2. \A i \in 1 .. m : b[i - 1] = k
      BY <2>2, <3>1
    <3>3. line = [i \in 1 .. m |-> k]
      BY <3>2
    <3>4. m \in Nat /\ k \in Nat
      BY <1>3, <2>3, <2>4
    <3>5. line \in [1 .. m -> Nat]
      <4> HIDE DEF k
      <4>1. QED
        BY <3>3, <3>4
    <3>6. line \in Seq(Nat)
      BY <3>4, <3>5, SeqDef
    <3>7. QED
      BY <2>4, <3>3, <3>6
  <2> HIDE DEF line
  <2>9. /\ received' \in Seq(Seq(Nat)) /\ Len(received') = k /\ DOMAIN received' = 1 .. k
        /\ received'[k] = line /\ \A j \in DOMAIN received : received'[j] = received[j]
    BY <1>2, <1>3, <2>5, <2>8, AppendProperties
  <2>10. ReceivedInv'
    <3>1. ASSUME NEW j \in 1 .. k
          PROVE  j <= Len(lens) /\ received'[j] = [i \in 1 .. Min({lens[j], BuffSize - 1}) |-> j]
      <4>1. CASE j = k
        BY <1>3, <2>2, <2>8, <2>9, <4>1
      <4>2. CASE j # k
        <5>1. j \in DOMAIN received
          BY <1>3, <4>2
        <5>2. QED
          BY <1>2, <2>9, <5>1 DEF LinesCut
      <4>3. QED
        BY <4>1, <4>2
    <3>2. k <= Len(lens)
      BY <1>3, <2>2
    <3>3. LinesCut'
      BY <1>1, <2>9, <3>1 DEF LinesCut
    <3>4. QED
      BY <1>1, <2>9, <3>2, <3>3 DEF ReceivedInv
  <2>11. StreamInv'
    BY <1>13, <2>6, <2>7, <2>9
  <2>12. IpcTypeOK'
    BY <1>12, <2>6, <2>7
  <2>13. QED
    BY <1>9, <2>10, <2>11, <2>12 DEF IpcIInv
<1>16. QED
  BY <1>14, <1>15

LEMMA IpcStep == IpcIInv /\ [IpcNext]_ipcVars => IpcIInv'
<1> SUFFICES ASSUME IpcIInv, [IpcNext]_ipcVars PROVE IpcIInv'
  OBVIOUS
<1> USE DEF clientVars, recvVars, cmdVars
<1>1. IpcTypeOK
  BY DEF IpcIInv
<1>2. ASSUME IpcTypeOK', client' \in {client, "closed"},
             UNCHANGED <<lens, offset, socket, recv_buffer, recv_len, received>>
      PROVE  IpcIInv'
  BY <1>2, QuietStep DEF IpcIInv
<1>3. CASE SendDetection
  BY <1>3, SendDetectionStep
<1>4. CASE SendBytes
  BY <1>4, SendBytesStep
<1>5. CASE SendFails
  <2>1. IpcTypeOK'
    BY <1>1, <1>5, Sizes DEF SendFails, IpcTypeOK
  <2>2. QED
    BY <1>2, <1>5, <2>1 DEF SendFails
<1>6. CASE ReadCommand
  <2>1. unread - 1 \in 0 .. UnreadRoom
    BY <1>1, <1>6, Sizes DEF ReadCommand, IpcTypeOK
  <2>2. IpcTypeOK'
    BY <1>1, <1>6, <2>1 DEF ReadCommand, IpcTypeOK
  <2>3. QED
    BY <1>2, <1>6, <2>2 DEF ReadCommand
<1>7. CASE Exit
  <2>1. IpcTypeOK'
    BY <1>1, <1>7, Sizes DEF Exit, IpcTypeOK
  <2>2. QED
    BY <1>2, <1>7, <2>1 DEF Exit
<1>8. CASE SendCommand
  <2>1. sentCommands + 1 \in 0 .. MaxCommands
    BY <1>1, <1>8, Sizes DEF SendCommand, IpcTypeOK
  <2>2. IpcTypeOK'
    BY <1>1, <1>8, <2>1 DEF SendCommand, IpcTypeOK
  <2>3. QED
    BY <1>2, <1>8, <2>2 DEF SendCommand
<1>9. CASE Sendall
  <2>1. unread' \in 0 .. UnreadRoom
    BY <1>1, <1>9, Sizes DEF Sendall, IpcTypeOK
  <2>2. IpcTypeOK'
    BY <1>1, <1>9, <2>1 DEF Sendall, IpcTypeOK
  <2>3. QED
    BY <1>2, <1>9, <2>2 DEF Sendall
<1>10. CASE Disconnected
  <2>1. IpcTypeOK'
    BY <1>1, <1>10 DEF Disconnected, IpcTypeOK
  <2>2. QED
    BY <1>2, <1>10, <2>1 DEF Disconnected
<1>11. CASE RecvMessage
  BY <1>11, RecvMessageStep
<1>12. CASE UNCHANGED ipcVars
  <2>1. IpcTypeOK'
    BY <1>1, <1>12 DEF ipcVars, IpcTypeOK
  <2>2. QED
    BY <1>2, <1>12, <2>1 DEF ipcVars
<1>13. QED
  BY <1>3, <1>4, <1>5, <1>6, <1>7, <1>8, <1>9, <1>10, <1>11, <1>12 DEF IpcNext

(* The server gets the detector's lines, from the first on, none twice     *)
(* (ipc_recv_message, unix_socket.c:206-278), and each line that fits      *)
(* complete and unmixed, however the bytes are split, whatever the sizes   *)
(* of the buffers and even behind a line that does not fit.                *)
THEOREM LinesStayInOrder == IpcSpec => []IpcInv
<1>1. IpcInit => IpcIInv
  BY IpcStart
<1>2. IpcIInv /\ [IpcNext]_ipcVars => IpcIInv'
  BY IpcStep
<1>3. IpcIInv => IpcInv
  <2> SUFFICES ASSUME IpcIInv PROVE IpcInv
    OBVIOUS
  <2>1. IpcTypeOK /\ LinesCut /\ Len(received) <= Len(lens)
    BY DEF IpcIInv, ReceivedInv
  <2>2. ASSUME NEW k \in DOMAIN received, lens[k] < BuffSize
        PROVE  received[k] = [i \in 1 .. lens[k] |-> k]
    <3>1. lens[k] \in Nat /\ BuffSize - 1 \in Int
      <4>1. Len(received) \in Nat /\ DOMAIN received = 1 .. Len(received)
        BY LenProperties DEF IpcIInv, ReceivedInv
      <4>2. k \in DOMAIN lens
        BY <2>1, <4>1, LineFacts
      <4>3. QED
        BY <2>1, <4>2, LineFacts, Sizes
    <3>2. Min({lens[k], BuffSize - 1}) = lens[k]
      BY <2>2, <3>1, Sizes, MinOfTwo
    <3>3. QED
      BY <2>1, <3>2 DEF LinesCut
  <2>3. QED
    BY <2>1, <2>2 DEF IpcInv, LinesInOrder, LinesCut
<1>4. QED
  BY <1>1, <1>2, <1>3, PTL DEF IpcSpec
=============================================================================
