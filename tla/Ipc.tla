-------------------------------- MODULE Ipc --------------------------------
(***************************************************************************)
(* The Unix socket between the server (unix_socket.c) and the detector     *)
(* (ipc_client.py).  The detector sends lines of bytes, which the server   *)
(* cuts out of its receive buffer by string functions; the server sends    *)
(* commands.  Either end may be blocked by a full socket: the detector for *)
(* five seconds, after which it closes the connection, the server for as   *)
(* long as it takes.  A byte of a line is the line's number.               *)
(***************************************************************************)
EXTENDS Integers, Sequences, FiniteSetsExt

CONSTANTS
  LineLengths,   \* how long a detection may be, without its newline
  MaxLines,      \* bound: lines in a behaviour
  BuffSize,      \* sizeof(msg_buffer), MAX_MSG_SIZE
  RecvSize,      \* sizeof(recv_buffer), RECV_BUFFER_SIZE
  SocketRoom,    \* bytes the socket holds towards the server
  UnreadRoom,    \* commands it holds towards the detector
  MaxCommands    \* bound: commands in a behaviour

ASSUME IpcAssumption ==
  /\ {MaxLines, BuffSize, RecvSize, SocketRoom, UnreadRoom, MaxCommands} \subseteq Nat \ {0}
  /\ LineLengths \subseteq Nat \ {0}
  /\ BuffSize < RecvSize

VARIABLES
  lens,          \* the lengths of the lines the detector has begun to send
  offset,        \* the bytes of the last one that are sent
  client,        \* the detector: "idle", "sending" or "closed"
  socket,        \* the bytes under way to the server
  recv_buffer, recv_len,
  client_fd,     \* is the descriptor open
  received,      \* the messages ipc_recv_message has returned
  server,        \* the main loop: in its "loop" or "blocked" in sendall
  unread,        \* commands the detector has not read yet
  sentCommands   \* commands sent so far

clientVars == <<lens, offset, client>>
recvVars == <<recv_buffer, recv_len, client_fd, received>>
cmdVars == <<server, unread, sentCommands>>
ipcVars == <<clientVars, socket, recvVars, cmdVars>>

Newline == 0
Nul == -1
Junk == -2        \* what follows recv_buffer in memory

(* ipc_accept_client, and connect of the detector.                         *)
IpcInit ==
  /\ lens = <<>> /\ offset = 0 /\ client = "idle"
  /\ socket = <<>>
  /\ recv_buffer = [i \in 0 .. RecvSize - 1 |-> Nul] /\ recv_len = 0
  /\ client_fd = TRUE /\ received = <<>>
  /\ server = "loop" /\ unread = 0 /\ sentCommands = 0

-----------------------------------------------------------------------------
(* The detector                                                            *)

SendDetection ==
  /\ client = "idle" /\ Len(lens) < MaxLines
  /\ \E l \in LineLengths : lens' = Append(lens, l)
  /\ offset' = 0
  /\ client' = "sending"
  /\ UNCHANGED <<socket, recvVars, cmdVars>>

(* sendall hands the kernel what there is room for; the newline is last.   *)
SendBytes ==
  LET l == lens[Len(lens)]
      ByteAt(i) == IF i <= l THEN Len(lens) ELSE Newline
  IN
  /\ client = "sending" /\ client_fd
  /\ \E n \in 1 .. Min({SocketRoom - Len(socket), l + 1 - offset}) :
       /\ socket' = socket \o [i \in 1 .. n |-> ByteAt(offset + i)]
       /\ offset' = offset + n
       /\ client' = IF offset' = l + 1 THEN "idle" ELSE "sending"
  /\ UNCHANGED <<lens, recvVars, cmdVars>>

(* Mutant: a send has no timeout.                                          *)
SendWaits ==
  /\ client = "sending"
  /\ ~client_fd
  /\ client' = "closed"
  /\ unread' = 0
  /\ UNCHANGED <<lens, offset, socket, recvVars, server, sentCommands>>

(* A send that has waited for room for five seconds, or has found the      *)
(* socket closed, makes the detector close the connection.                 *)
SendFails ==
  /\ client = "sending"
  /\ Len(socket) = SocketRoom \/ ~client_fd
  /\ client' = "closed"
  /\ unread' = 0
  /\ UNCHANGED <<lens, offset, socket, recvVars, server, sentCommands>>

(* The detector reads commands between its sends: check_for_command.       *)
ReadCommand ==
  /\ client = "idle" /\ unread > 0
  /\ unread' = unread - 1
  /\ UNCHANGED <<clientVars, socket, recvVars, server, sentCommands>>

Exit ==
  /\ client # "closed"
  /\ client' = "closed"
  /\ unread' = 0
  /\ UNCHANGED <<lens, offset, socket, recvVars, server, sentCommands>>

-----------------------------------------------------------------------------
(* The server                                                              *)

(* ipc_send_start and ipc_send_stop: sendall tries again until there is    *)
(* room, and gives up when the detector has closed.                        *)
SendCommand ==
  /\ server = "loop" /\ client_fd /\ sentCommands < MaxCommands
  /\ sentCommands' = sentCommands + 1
  /\ server' = "blocked"
  /\ UNCHANGED <<clientVars, socket, recvVars, unread>>

Sendall ==
  /\ server = "blocked"
  /\ \/ client = "closed" /\ UNCHANGED unread
     \/ client # "closed" /\ unread < UnreadRoom /\ unread' = unread + 1
  /\ server' = "loop"
  /\ UNCHANGED <<clientVars, socket, recvVars, sentCommands>>

-----------------------------------------------------------------------------
(* ipc_recv_message.  First recv, unless the buffer is full; b and len are *)
(* the buffer and its length after it.                                     *)

Room == RecvSize - 1 - recv_len

(* recv returns 0.                                                         *)
AtEnd == Room > 0 /\ socket = <<>> /\ client = "closed"

(* What the buffer still holds is lost.                                    *)
Disconnected ==
  /\ server = "loop" /\ client_fd
  /\ AtEnd
  /\ client_fd' = FALSE
  /\ UNCHANGED <<clientVars, socket, recv_buffer, recv_len, received, cmdVars>>

(* Mutant: nothing is received before the buffer is used up.               *)
TakenIfEmpty == IF recv_len = 0 THEN Min({Room, Len(socket)}) ELSE 0

Taken == Min({Room, Len(socket)})

AfterRecv ==
  [i \in 0 .. RecvSize - 1 |->
     IF i < recv_len THEN recv_buffer[i]
     ELSE IF i < recv_len + Taken THEN socket[i - recv_len + 1]
     ELSE IF Taken > 0 /\ i = recv_len + Taken THEN Nul
     ELSE recv_buffer[i]]

(* strchr: the newlines before the first NUL.                              *)
NewlinesIn(b) == {i \in DOMAIN b : b[i] = Newline /\ \A j \in 0 .. i : b[j] # Nul}

Moved(b, i) == IF i < RecvSize THEN b[i] ELSE Junk

(* Mutant: the NUL behind the data is not written.                         *)
CutUnterminated(b, len, nl, msg_len) ==
  LET remaining == len - (msg_len + 1) IN
    /\ recv_len' = remaining
    /\ recv_buffer' = [i \in DOMAIN b |-> IF i < remaining THEN Moved(b, nl + 1 + i) ELSE b[i]]

(* The message is cut off and the rest moved to the front.  For a line     *)
(* that does not fit, msg_len is not its length, and what is moved         *)
(* includes the NUL behind the data and what follows it.                   *)
CutMessage(b, len, nl, msg_len) ==
  LET remaining == len - (msg_len + 1) IN
    /\ recv_len' = remaining
    /\ recv_buffer' = [i \in DOMAIN b |-> IF i < remaining THEN Moved(b, nl + 1 + i)
                                          ELSE IF i = remaining THEN Nul ELSE b[i]]

RecvMessage ==
  /\ server = "loop" /\ client_fd
  /\ ~AtEnd
  /\ socket' = SubSeq(socket, Taken + 1, Len(socket))
  /\ LET b == AfterRecv
         len == recv_len + Taken
     IN IF NewlinesIn(b) = {}
          THEN recv_buffer' = b /\ recv_len' = len /\ UNCHANGED received
          ELSE LET nl == Min(NewlinesIn(b))
                   msg_len == IF nl >= BuffSize THEN BuffSize - 1 ELSE nl
               IN /\ received' = Append(received, [i \in 1 .. msg_len |-> b[i - 1]])
                  /\ CutMessage(b, len, nl, msg_len)
  /\ UNCHANGED <<clientVars, client_fd, cmdVars>>

IpcNext ==
  \/ SendDetection \/ SendBytes \/ SendFails \/ ReadCommand \/ Exit
  \/ SendCommand \/ Sendall
  \/ Disconnected \/ RecvMessage

IpcSpec == IpcInit /\ [][IpcNext]_ipcVars

(* The main loop runs.  The detector's sends go on or time out, and it     *)
(* reads its commands; it never has to send anything.                      *)
IpcFairSpec ==
  /\ IpcSpec
  /\ WF_ipcVars(Sendall)
  /\ WF_ipcVars(Disconnected \/ RecvMessage)
  /\ WF_ipcVars(SendBytes)
  /\ WF_ipcVars(SendFails)
  /\ SF_ipcVars(ReadCommand)

-----------------------------------------------------------------------------
IpcTypeOK ==
  /\ lens \in Seq(LineLengths) /\ Len(lens) <= MaxLines
  /\ client \in {"idle", "sending", "closed"}
  /\ socket \in Seq(0 .. MaxLines) /\ Len(socket) <= SocketRoom
  /\ recv_buffer \in [0 .. RecvSize - 1 -> Junk .. MaxLines]
  /\ recv_len \in 0 .. RecvSize - 1
  /\ client_fd \in BOOLEAN
  /\ server \in {"loop", "blocked"}
  /\ unread \in 0 .. UnreadRoom /\ sentCommands \in 0 .. MaxCommands

(* What is returned are the lines, from the first on, none twice, and each *)
(* line that fits is complete (unix_socket.h:85): none is mixed with       *)
(* another and none is made of stale bytes, however the bytes are split    *)
(* and even after a line that did not fit has left stale bytes in the      *)
(* buffer (unix_socket.c:255-275).  Nothing is claimed of what is returned *)
(* for a line that does not fit: the comment at unix_socket.c:259 says it  *)
(* is discarded, the code returns its first bytes.                         *)
LinesInOrder ==
  \A k \in DOMAIN received :
    /\ k <= Len(lens)
    /\ lens[k] < BuffSize => received[k] = [i \in 1 .. lens[k] |-> k]

IpcInv == IpcTypeOK /\ LinesInOrder

AllFit == \A k \in DOMAIN lens : lens[k] < BuffSize
IsSent(k) == k < Len(lens) \/ (k = Len(lens) /\ client = "idle")

(* As long as every line fits, a line that has been sent is returned       *)
(* unless the detector closes, and a detector that closes is noticed.  A   *)
(* line that does not fit ends reception for good: a NUL is then part of   *)
(* the buffer (unix_socket.c:267).                                         *)
ReceptionGoesOn ==
  /\ \A k \in 1 .. MaxLines :
       AllFit /\ IsSent(k) ~> Len(received) >= k \/ client = "closed" \/ ~AllFit
  /\ AllFit /\ client = "closed" ~> ~client_fd

(* sendall comes back, even if the detector is itself blocked by the       *)
(* server that does not receive meanwhile (unix_socket.c:36-60).           *)
SendallEnds == server = "blocked" ~> server = "loop"
=============================================================================
