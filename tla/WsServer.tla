------------------------------ MODULE WsServer ------------------------------
(***************************************************************************)
(* The WebSocket server, pi-streaming/websocket_server.c, over             *)
(* libwebsockets: one registered client, which a newer connection evicts,  *)
(* and one ring of messages for whoever is registered.  Everything runs on *)
(* the thread of the main loop; libwebsockets calls ws_callback from       *)
(* ws_service, and calls a socket for which lws_callback_on_writable was   *)
(* requested when it can be written, be it the registered one or not.      *)
(***************************************************************************)
EXTENDS Naturals, Sequences

CONSTANTS
  Conns,        \* sockets
  NoConn,       \* a NULL socket
  Messages,     \* what is sent
  NoMessage,    \* nothing
  QueueSize     \* WS_QUEUE_SIZE

ASSUME WsAssumption ==
  NoConn \notin Conns /\ NoMessage \notin Messages /\ QueueSize \in Nat \ {0}

VARIABLES
  client_wsi,    \* the registered client; NoConn when client_connected is false
  queue, queue_head, queue_tail, queue_count,   \* the ring of messages
  sock,          \* per socket: "closed", "open" or "evicted"
  requested,     \* the sockets a WRITEABLE callback is requested for
  last           \* the last message the registered client has received

ring == <<queue, queue_head, queue_tail, queue_count>>
wsVars == <<client_wsi, ring, sock, requested, last>>

(* ws_init                                                                 *)
WsInit ==
  /\ client_wsi = NoConn
  /\ queue = [i \in 0 .. QueueSize - 1 |-> NoMessage]
  /\ queue_head = 0 /\ queue_tail = 0 /\ queue_count = 0
  /\ sock = [c \in Conns |-> "closed"]
  /\ requested = {}
  /\ last = NoMessage

Connected == client_wsi # NoConn

After(i) == (i + 1) % QueueSize

(* A slot that has been taken or cleared shows NoMessage: the code leaves  *)
(* the bytes there and does not read them before it has written the slot.  *)
ClearQueue ==
  /\ queue_head' = 0 /\ queue_tail' = 0 /\ queue_count' = 0
  /\ queue' = [i \in DOMAIN queue |-> NoMessage]

Register(c) ==
  /\ sock' = [d \in Conns |-> CASE d = c -> "open"
                                [] d # c /\ d = client_wsi -> "evicted"
                                [] OTHER -> sock[d]]
  /\ client_wsi' = c
  /\ last' = NoMessage
  /\ UNCHANGED requested

(* Mutant: an eviction leaves the messages of the old client in the ring.  *)
EvictUncleared(c) == sock[c] = "closed" /\ Register(c) /\ UNCHANGED ring

(* LWS_CALLBACK_ESTABLISHED: a client still registered is evicted, to be   *)
(* closed later; a WRITEABLE requested for it stays requested.             *)
Established(c) ==
  /\ sock[c] = "closed"
  /\ Register(c)
  /\ IF Connected THEN ClearQueue ELSE UNCHANGED ring

(* LWS_CALLBACK_CLOSED: the server forgets the registered client only.     *)
Closed(c) ==
  /\ sock[c] # "closed"
  /\ sock' = [sock EXCEPT ![c] = "closed"]
  /\ requested' = requested \ {c}
  /\ IF c = client_wsi
       THEN client_wsi' = NoConn /\ last' = NoMessage /\ ClearQueue
       ELSE UNCHANGED <<client_wsi, last, ring>>

(* A message leaves the ring at its tail: to the socket that is called,    *)
(* whichever that is, and nowhere if the write fails.  What the callback   *)
(* of an evicted socket takes goes to the wrong client; for the session it *)
(* belongs to it is lost.                                                  *)
TakeMessage(c) ==
  /\ queue' = [queue EXCEPT ![queue_tail] = NoMessage]
  /\ queue_tail' = After(queue_tail)
  /\ queue_count' = queue_count - 1
  /\ \/ c = client_wsi /\ last' = queue[queue_tail]
     \/ UNCHANGED last
  /\ UNCHANGED queue_head

(* Mutant: no further callback is requested while messages are left.       *)
WriteableOnce(c) ==
  /\ c \in requested
  /\ requested' = requested \ {c}
  /\ IF queue_count > 0 THEN TakeMessage(c) ELSE UNCHANGED <<ring, last>>
  /\ UNCHANGED <<client_wsi, sock>>

(* LWS_CALLBACK_SERVER_WRITEABLE                                           *)
Writeable(c) ==
  /\ c \in requested
  /\ requested' = IF queue_count > 1 THEN requested ELSE requested \ {c}
  /\ IF queue_count > 0 THEN TakeMessage(c) ELSE UNCHANGED <<ring, last>>
  /\ UNCHANGED <<client_wsi, sock>>

(* ws_queue_message: refused without a client; a full ring loses its       *)
(* oldest message.                                                         *)
QueueMessage(m) ==
  IF Connected
    THEN /\ queue' = [queue EXCEPT ![queue_head] = m]
         /\ queue_head' = After(queue_head)
         /\ IF queue_count >= QueueSize
              THEN queue_tail' = After(queue_tail) /\ UNCHANGED queue_count
              ELSE queue_count' = queue_count + 1 /\ UNCHANGED queue_tail
         /\ requested' = requested \cup {client_wsi}
         /\ UNCHANGED <<client_wsi, sock, last>>
    ELSE UNCHANGED wsVars

(* ws_cleanup: destroying the context closes every socket.                 *)
WsCleanup ==
  /\ client_wsi' = NoConn
  /\ last' = NoMessage
  /\ ClearQueue
  /\ sock' = [c \in Conns |-> "closed"]
  /\ requested' = {}

-----------------------------------------------------------------------------
WsNext ==
  \/ \E c \in Conns : Established(c) \/ Closed(c) \/ Writeable(c)
  \/ \E m \in Messages : QueueMessage(m)
  \/ WsCleanup

WsSpec == WsInit /\ [][WsNext]_wsVars

-----------------------------------------------------------------------------
WsTypeOK ==
  /\ client_wsi \in Conns \cup {NoConn}
  /\ queue \in [0 .. QueueSize - 1 -> Messages \cup {NoMessage}]
  /\ queue_head \in 0 .. QueueSize - 1 /\ queue_tail \in 0 .. QueueSize - 1
  /\ queue_count \in 0 .. QueueSize
  /\ sock \in [Conns -> {"closed", "open", "evicted"}]
  /\ requested \subseteq Conns
  /\ last \in Messages \cup {NoMessage}

(* A client that has messages waiting will be called: neither an evicted   *)
(* socket that takes some of them in its stead nor a callback that finds   *)
(* the ring empty uses up the request that is needed                       *)
(* (websocket_server.c:110-145, 287).                                      *)
NoStrandedMessage == queue_count > 0 => Connected /\ client_wsi \in requested

(* The ring read from its tail is what waits for the client.               *)
Waiting == [i \in 1 .. queue_count |-> queue[(queue_tail + i - 1) % QueueSize]]

Session == INSTANCE LossySession
  WITH Clients <- Conns, NoClient <- NoConn, Capacity <- QueueSize,
       current <- client_wsi, pending <- Waiting, delivered <- last

(* One session at a time, its messages in order and nothing of an earlier  *)
(* client's, although evicted sockets are still called and the ring is     *)
(* shared (websocket_server.c:48-146).                                     *)
ImplementsSession == Session!Spec
=============================================================================
