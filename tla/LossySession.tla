---------------------------- MODULE LossySession ----------------------------
(***************************************************************************)
(* What the streaming server may expect of its WebSocket: at most one      *)
(* session at a time; the messages queued in a session come to its client  *)
(* in the order they were queued; messages may be lost, the oldest one     *)
(* when there is no room; the client of a session sees nothing of another  *)
(* one.  What a client of an earlier session is still sent is not seen     *)
(* here: for the session it is taken from it is lost.                      *)
(***************************************************************************)
EXTENDS Naturals, Sequences

CONSTANTS
  Clients,     \* those who may connect
  NoClient,    \* nobody
  Messages,    \* what may be sent
  NoMessage,   \* nothing
  Capacity     \* the most messages that wait

VARIABLES
  current,     \* the client of the session, or NoClient
  pending,     \* the messages that wait, oldest first
  delivered    \* the last message the client has received in this session

absVars == <<current, pending, delivered>>

Begins(c) == current' = c /\ pending' = <<>> /\ delivered' = NoMessage

Init == current = NoClient /\ pending = <<>> /\ delivered = NoMessage

Connect(c) == c # current /\ Begins(c)

Disconnect == current # NoClient /\ Begins(NoClient)

Send(m) ==
  /\ current # NoClient
  /\ pending' = Append(IF Len(pending) = Capacity THEN Tail(pending) ELSE pending, m)
  /\ UNCHANGED <<current, delivered>>

Deliver ==
  /\ pending # <<>>
  /\ pending' = Tail(pending)
  /\ delivered' = Head(pending)
  /\ UNCHANGED current

Lose ==
  /\ pending # <<>>
  /\ pending' = Tail(pending)
  /\ UNCHANGED <<current, delivered>>

Next ==
  \/ \E c \in Clients : Connect(c)
  \/ Disconnect
  \/ \E m \in Messages : Send(m)
  \/ Deliver \/ Lose

Spec == Init /\ [][Next]_absVars
=============================================================================
