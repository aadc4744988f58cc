---------------------------- MODULE BoundedFifo ----------------------------
(***************************************************************************)
(* What util/queue promises its callers, without its lock, its condition   *)
(* variable or its ring: a FIFO of at most Capacity events.  A push is     *)
(* accepted while there is room and refused, at once, while there is none; *)
(* a pop is answered with the oldest event and waits as long as there is   *)
(* none (queue.h).  EventQueue is shown to implement this module.          *)
(***************************************************************************)
EXTENDS Naturals, Sequences

CONSTANTS Producers,  \* threads that push
          Consumers,  \* threads that pop
          Events,     \* the elements pushed
          Capacity,   \* the largest number of queued elements
          NoEvent     \* "nothing": no call under way, no answer yet

VARIABLES queue,      \* the accepted events not yet delivered, oldest first
          call,       \* call[t]: what t is waiting for: an event to push, or a pop
          result      \* result[t]: the answer to t's last call

absVars == <<queue, call, result>>

Threads  == Producers \cup Consumers
Pop      == "pop"
Accepted == "eSTATUS_SUCCESSFUL"
Refused  == "eSTATUS_ACTION_FAILED"

Init ==
  /\ queue  = <<>>
  /\ call   = [t \in Threads |-> NoEvent]
  /\ result = [t \in Threads |-> NoEvent]

Begin(t, what) ==
  /\ call[t] = NoEvent
  /\ call'   = [call EXCEPT ![t] = what]
  /\ result' = [result EXCEPT ![t] = NoEvent]
  /\ UNCHANGED queue

Answer(t, with) ==
  /\ call'   = [call EXCEPT ![t] = NoEvent]
  /\ result' = [result EXCEPT ![t] = with]

Accept(p) ==
  /\ call[p] # NoEvent
  /\ Len(queue) < Capacity
  /\ queue' = Append(queue, call[p])
  /\ Answer(p, Accepted)

Refuse(p) ==
  /\ call[p] # NoEvent
  /\ Len(queue) = Capacity
  /\ Answer(p, Refused)
  /\ UNCHANGED queue

Deliver(c) ==
  /\ call[c] = Pop
  /\ queue # <<>>
  /\ queue' = Tail(queue)
  /\ Answer(c, Head(queue))

Next ==
  \/ \E p \in Producers : \/ \E e \in Events : Begin(p, e)
                          \/ Accept(p)
                          \/ Refuse(p)
  \/ \E c \in Consumers : Begin(c, Pop) \/ Deliver(c)

Spec == Init /\ [][Next]_absVars

(* While a consumer waits and there is something to deliver, something is  *)
(* delivered: what the condition variable is there for.                    *)
FairSpec == Spec /\ WF_absVars(\E c \in Consumers : Deliver(c))
=============================================================================
