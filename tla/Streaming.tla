----------------------------- MODULE Streaming -----------------------------
(***************************************************************************)
(* The streaming server, pi-streaming/main.c with process_manager.c and    *)
(* config.c: one thread that starts mediaMTX and FFmpeg, sends START and   *)
(* STOP to the detector (person_streamer.py), forwards its detections to   *)
(* the app and stops everything at a signal, while FFmpeg, mediaMTX, the   *)
(* detector and the clients of WsServer come and go.  The video is a FIFO  *)
(* fed by the camera, streamed from the start, or a file, streamed while a *)
(* client is there.  Waits are steps that take any time.                   *)
(***************************************************************************)
EXTENDS WsServer

CONSTANTS
  MaxPid,        \* bound: processes FFmpeg may be running in at a time
  MaxTries,      \* MAX_FFMPEG_TRIES
  CommandRoom    \* commands that fit into the socket to the detector

ASSUME StreamingAssumption ==
  /\ {MaxPid, MaxTries, CommandRoom} \subseteq Nat \ {0}
  /\ {"stream_ready", "frame"} \subseteq Messages

Pids == 1 .. MaxPid
NoPid == 0

VARIABLES
  phase,              \* where the thread of main is
  attempt,            \* attempt in start_camera_stream
  path,               \* what config.video_path names: "fifo", "file" or "nothing"
  loop_video,         \* config.loop_video
  g_running,
  python_connected, android_connected, streaming_active,   \* of AppState
  ffmpeg_pid,         \* the FFmpeg the process manager knows (ffmpeg_running: is there one)
  ffmpeg,             \* per pid: "none", "opening" its input or "publishing"
  mediamtx,           \* is mediaMTX running
  detector,           \* "absent", "idle", "opening" the FIFO, in a "session" or "gone"
  commands            \* sent to the detector and not read yet

config == <<path, loop_video>>
app == <<python_connected, android_connected, streaming_active>>
pm == <<ffmpeg_pid, ffmpeg, mediamtx>>
peer == <<detector, commands>>
vars == <<wsVars, phase, attempt, config, g_running, app, pm, peer>>

Boot == {"load", "probe", "validate", "mediamtx", "wait", "ws_init", "bridge", "ipc_init", "accept"}
Loop == {"recv", "service", "tick", "check"}
Starting == {"cam_begin", "cam_spawn", "cam_start", "cam_verify", "file_start", "file_spawn", "ready"}
Ending == {"shutdown", "close", "cleanup", "exited"}

Init ==
  /\ WsInit
  /\ phase = "load" /\ attempt = 0
  /\ path \in {"fifo", "file", "nothing"} /\ loop_video = FALSE
  /\ g_running = TRUE
  /\ python_connected = FALSE /\ android_connected = FALSE /\ streaming_active = FALSE
  /\ ffmpeg_pid = NoPid /\ ffmpeg = [p \in Pids |-> "none"] /\ mediamtx = FALSE
  /\ detector = "absent" /\ commands = <<>>

GoTo(p) == phase' = p /\ UNCHANGED attempt

IsFifo == path = "fifo"     \* config_is_fifo, of the path as it is now

LoopHead == IF g_running THEN "recv" ELSE "shutdown"

-----------------------------------------------------------------------------
(* process_manager.c.  SIGCHLD is ignored, so a child that exits is gone   *)
(* at once; whether it is there is asked with kill(pid, 0).                *)

PmFfmpegIsRunning == ffmpeg_pid # NoPid /\ ffmpeg[ffmpeg_pid] # "none"

(* pm_check_processes forgets an FFmpeg that is gone.                      *)
PmCheckProcesses ==
  /\ ffmpeg_pid' = IF PmFfmpegIsRunning THEN ffmpeg_pid ELSE NoPid
  /\ UNCHANGED ffmpeg

(* Mutant: FFmpeg is forgotten, and not killed.                            *)
PmForgetFfmpeg == ffmpeg_pid' = NoPid /\ UNCHANGED ffmpeg

(* pm_stop_ffmpeg returns when the process has ended or has been killed.   *)
PmStopFfmpeg ==
  /\ ffmpeg' = [p \in Pids |-> IF p = ffmpeg_pid THEN "none" ELSE ffmpeg[p]]
  /\ ffmpeg_pid' = NoPid

PmStopMediamtx == mediamtx' = FALSE

FfmpegForked(p) ==
  /\ ffmpeg_pid' = p
  /\ ffmpeg' = [ffmpeg EXCEPT ![p] = "opening"]

(* pm_start_ffmpeg, the child's exec included; nothing if one is running.  *)
PmStartFfmpeg ==
  IF ffmpeg_pid # NoPid
    THEN UNCHANGED <<ffmpeg_pid, ffmpeg>>
    ELSE \E p \in Pids :
           /\ ffmpeg[p] = "none" /\ \A q \in Pids : q < p => ffmpeg[q] # "none"
           /\ FfmpegForked(p)

-----------------------------------------------------------------------------
(* unix_socket.c towards the detector: sendall waits for room, and fails   *)
(* when the detector is gone (libwebsockets has SIGPIPE ignored).          *)

Send(c) ==
  IF detector = "gone"
    THEN UNCHANGED commands
    ELSE Len(commands) < CommandRoom /\ commands' = Append(commands, c)

IpcSendStop == Send("stop")

SendStopIfConnected == IF python_connected THEN IpcSendStop ELSE UNCHANGED commands

-----------------------------------------------------------------------------
(* main, up to the loop                                                    *)

ConfigLoad ==
  /\ phase = "load"
  /\ \/ GoTo("exited") /\ UNCHANGED loop_video
     \/ GoTo("probe") /\ loop_video' \in BOOLEAN
  /\ UNCHANGED <<wsVars, path, g_running, app, pm, peer>>

(* ffprobe looks at a file and may fail; a FIFO is taken as it is.         *)
ConfigProbeVideo ==
  /\ phase = "probe"
  /\ \/ ~IsFifo /\ GoTo("exited")
     \/ path # "nothing" /\ GoTo("validate")
  /\ UNCHANGED <<wsVars, config, g_running, app, pm, peer>>

ConfigValidate ==
  /\ phase = "validate"
  /\ GoTo("exited") \/ GoTo("mediamtx")
  /\ UNCHANGED <<wsVars, config, g_running, app, pm, peer>>

PmStartMediamtx ==
  /\ phase = "mediamtx"
  /\ \/ GoTo("exited") /\ UNCHANGED mediamtx
     \/ GoTo("wait") /\ mediamtx' = TRUE
  /\ UNCHANGED <<wsVars, config, g_running, app, ffmpeg_pid, ffmpeg, peer>>

(* Whoever listens on the port is taken for mediaMTX.                      *)
PmWaitForMediamtxReady ==
  /\ phase = "wait"
  /\ GoTo("cleanup") \/ GoTo("ws_init")
  /\ UNCHANGED <<wsVars, config, g_running, app, pm, peer>>

Starts(p, next) ==
  /\ phase = p
  /\ GoTo(next) \/ GoTo("cleanup")
  /\ UNCHANGED <<wsVars, config, g_running, app, pm, peer>>

StartWs == Starts("ws_init", "bridge")

StartBridge == Starts("bridge", "ipc_init")

(* Mutant: the failure leaves mediaMTX running.                            *)
IpcInitLeaves ==
  /\ phase = "ipc_init"
  /\ GoTo("accept") \/ GoTo("exited")
  /\ UNCHANGED <<wsVars, config, g_running, app, pm, peer>>

IpcServerInit == Starts("ipc_init", "accept")

(* accept blocks, whatever signals come; the camera is started at once.    *)
IpcAcceptClient ==
  /\ phase = "accept" /\ detector # "absent"
  /\ \/ GoTo("cleanup") /\ UNCHANGED python_connected
     \/ python_connected' = TRUE /\ GoTo(IF IsFifo THEN "cam_begin" ELSE LoopHead)
  /\ UNCHANGED <<wsVars, config, g_running, android_connected, streaming_active, pm, peer>>

Startup ==
  \/ ConfigLoad \/ ConfigProbeVideo \/ ConfigValidate
  \/ PmStartMediamtx \/ PmWaitForMediamtxReady
  \/ StartWs \/ StartBridge \/ IpcServerInit \/ IpcAcceptClient

-----------------------------------------------------------------------------
(* start_camera_stream and start_file_stream return to on_android_connect, *)
(* which follows with stream_ready, or to main before its loop, when no    *)
(* client can be registered yet.                                           *)

Return(ok) ==
  /\ attempt' = 0
  /\ phase' = IF ~Connected THEN LoopHead ELSE IF ok THEN "ready" ELSE "service"

(* The FIFO is made anew; when that fails it is gone, or the old one could *)
(* not be removed.                                                         *)
CamBegin ==
  /\ phase = "cam_begin"
  /\ IF streaming_active \/ ~python_connected
       THEN Return(streaming_active) /\ UNCHANGED <<path, ffmpeg_pid, ffmpeg>>
       ELSE /\ PmStopFfmpeg
            /\ \/ path' = "fifo" /\ phase' = "cam_spawn" /\ attempt' = 1
               \/ path' \in {"fifo", "nothing"} /\ Return(FALSE)
  /\ UNCHANGED <<wsVars, loop_video, g_running, app, mediamtx, peer>>

CamSpawn ==
  /\ phase = "cam_spawn"
  /\ \/ /\ IpcSendStop
        /\ Return(FALSE)
        /\ UNCHANGED <<ffmpeg_pid, ffmpeg>>
     \/ /\ PmStartFfmpeg
        /\ GoTo(IF attempt = 1 THEN "cam_start" ELSE "cam_verify")
        /\ UNCHANGED commands
  /\ UNCHANGED <<wsVars, config, g_running, app, mediamtx, detector>>

CamStart ==
  /\ phase = "cam_start"
  /\ Send("start")
  /\ IF detector = "gone"
       THEN PmStopFfmpeg /\ Return(FALSE)
       ELSE GoTo("cam_verify") /\ UNCHANGED <<ffmpeg_pid, ffmpeg>>
  /\ UNCHANGED <<wsVars, config, g_running, app, mediamtx, detector>>

(* Mutant: the tries are not counted.                                      *)
CamVerifyForever ==
  /\ phase = "cam_verify"
  /\ PmCheckProcesses
  /\ \/ /\ PmFfmpegIsRunning
        /\ streaming_active' = TRUE
        /\ Return(TRUE)
     \/ /\ ~PmFfmpegIsRunning
        /\ GoTo("cam_spawn")
        /\ UNCHANGED streaming_active
  /\ UNCHANGED <<wsVars, config, g_running, python_connected, android_connected, mediamtx, peer>>

(* An FFmpeg that is still there is taken to be publishing.                *)
CamVerify ==
  /\ phase = "cam_verify"
  /\ PmCheckProcesses
  /\ \/ /\ PmFfmpegIsRunning
        /\ streaming_active' = TRUE
        /\ Return(TRUE)
        /\ UNCHANGED commands
     \/ /\ ~PmFfmpegIsRunning
        /\ attempt < MaxTries
        /\ attempt' = attempt + 1
        /\ phase' = "cam_spawn"
        /\ UNCHANGED <<streaming_active, commands>>
     \/ /\ ~PmFfmpegIsRunning
        /\ attempt = MaxTries
        /\ IpcSendStop
        /\ Return(FALSE)
        /\ UNCHANGED streaming_active
  /\ UNCHANGED <<wsVars, config, g_running, python_connected, android_connected, mediamtx, detector>>

FileStart ==
  /\ phase = "file_start"
  /\ IF streaming_active \/ ~python_connected
       THEN Return(streaming_active) /\ UNCHANGED <<ffmpeg_pid, ffmpeg, commands>>
       ELSE /\ PmStopFfmpeg
            /\ Send("start")
            /\ IF detector = "gone" THEN Return(FALSE) ELSE GoTo("file_spawn")
  /\ UNCHANGED <<wsVars, config, g_running, app, mediamtx, detector>>

(* Mutant: no STOP for the START when FFmpeg cannot be started.            *)
FileSpawnNoStop ==
  /\ phase = "file_spawn"
  /\ \/ /\ Return(FALSE)
        /\ UNCHANGED <<commands, streaming_active, ffmpeg_pid, ffmpeg>>
     \/ /\ PmStartFfmpeg
        /\ streaming_active' = TRUE
        /\ Return(TRUE)
        /\ UNCHANGED commands
  /\ UNCHANGED <<wsVars, config, g_running, python_connected, android_connected, mediamtx, detector>>

FileSpawn ==
  /\ phase = "file_spawn"
  /\ \/ /\ IpcSendStop
        /\ Return(FALSE)
        /\ UNCHANGED <<streaming_active, ffmpeg_pid, ffmpeg>>
     \/ /\ PmStartFfmpeg
        /\ streaming_active' = TRUE
        /\ Return(TRUE)
        /\ UNCHANGED commands
  /\ UNCHANGED <<wsVars, config, g_running, python_connected, android_connected, mediamtx, detector>>

(* send_stream_ready; its call of ws_service is the last thing the         *)
(* callback does, and the service it is nested in goes on after it.        *)
SendStreamReady ==
  /\ phase = "ready"
  /\ QueueMessage("stream_ready")
  /\ GoTo("service")
  /\ UNCHANGED <<config, g_running, app, pm, peer>>

StartStream ==
  \/ CamBegin \/ CamSpawn \/ CamStart \/ CamVerify
  \/ FileStart \/ FileSpawn \/ SendStreamReady

-----------------------------------------------------------------------------
(* The callbacks of ws_service                                             *)

(* on_android_disconnect: a file is no longer streamed, the camera is.     *)
OnAndroidDisconnect ==
  IF ~IsFifo /\ streaming_active
    THEN SendStopIfConnected /\ PmStopFfmpeg /\ streaming_active' = FALSE
    ELSE UNCHANGED <<commands, ffmpeg_pid, ffmpeg, streaming_active>>

(* ESTABLISHED: on_android_disconnect for an evicted client, then          *)
(* on_android_connect.                                                     *)
Connects(c) ==
  /\ phase = "service"
  /\ Established(c)
  /\ IF Connected THEN OnAndroidDisconnect ELSE UNCHANGED <<commands, ffmpeg_pid, ffmpeg, streaming_active>>
  /\ android_connected' = TRUE
  /\ GoTo(IF ~python_connected THEN "service" ELSE IF IsFifo THEN "cam_begin" ELSE "file_start")
  /\ UNCHANGED <<config, g_running, python_connected, mediamtx, detector>>

(* CLOSED                                                                  *)
Disconnects(c) ==
  /\ phase = "service"
  /\ Closed(c)
  /\ IF c = client_wsi
       THEN OnAndroidDisconnect /\ android_connected' = FALSE
       ELSE UNCHANGED <<commands, ffmpeg_pid, ffmpeg, streaming_active, android_connected>>
  /\ UNCHANGED <<phase, attempt, config, g_running, python_connected, mediamtx, detector>>

Writes(c) ==
  /\ phase = "service"
  /\ Writeable(c)
  /\ UNCHANGED <<phase, attempt, config, g_running, app, pm, peer>>

ServiceReturns ==
  /\ phase = "service"
  /\ GoTo("tick")
  /\ UNCHANGED <<wsVars, config, g_running, app, pm, peer>>

Service == \E c \in Conns : Connects(c) \/ Disconnects(c) \/ Writes(c)

-----------------------------------------------------------------------------
(* The rest of the loop                                                    *)

(* A batch of detections is forwarded.  Ipc says which lines are received; *)
(* here, as the socket may hold some, there may be one as long as nobody   *)
(* has noticed the end of the connection.                                  *)
ForwardDetection ==
  /\ phase = "recv" /\ python_connected
  /\ IF android_connected THEN QueueMessage("frame") ELSE UNCHANGED wsVars
  /\ GoTo("service")
  /\ UNCHANGED <<config, g_running, app, pm, peer>>

(* Mutant: the stream stays active without the detector.                   *)
PythonGoneStaysActive ==
  /\ phase \in {"recv", "service"} /\ python_connected
  /\ detector = "gone"
  /\ python_connected' = FALSE
  /\ PmStopFfmpeg
  /\ GoTo("service")
  /\ UNCHANGED <<wsVars, config, g_running, android_connected, streaming_active, mediamtx, peer>>

(* A detector that is gone is noticed, and no other is accepted; when it   *)
(* has left a batch, that is forwarded and serviced first.                 *)
PythonDisconnected ==
  /\ phase \in {"recv", "service"} /\ python_connected
  /\ detector = "gone"
  /\ python_connected' = FALSE
  /\ IF streaming_active
       THEN PmStopFfmpeg /\ streaming_active' = FALSE
       ELSE UNCHANGED <<ffmpeg_pid, ffmpeg, streaming_active>>
  /\ GoTo("service")
  /\ UNCHANGED <<wsVars, config, g_running, android_connected, mediamtx, peer>>

(* A full receive buffer hides the end of the connection, so a detector    *)
(* that is gone need not be noticed (unix_socket.c:220).                   *)
NothingReceived ==
  /\ phase = "recv"
  /\ GoTo("service")
  /\ UNCHANGED <<wsVars, config, g_running, app, pm, peer>>

(* ddl_bridge_tick: a frame of the sensors when one is due.                *)
DdlBridgeTick ==
  /\ phase = "tick"
  /\ QueueMessage("frame") \/ UNCHANGED wsVars
  /\ GoTo("check")
  /\ UNCHANGED <<config, g_running, app, pm, peer>>

(* A file that has been played to its end is stopped.                      *)
CheckPlayback ==
  /\ phase = "check"
  /\ IF streaming_active /\ ~loop_video /\ ~IsFifo
       THEN /\ PmCheckProcesses
            /\ IF PmFfmpegIsRunning
                 THEN UNCHANGED <<commands, streaming_active>>
                 ELSE SendStopIfConnected /\ streaming_active' = FALSE
       ELSE UNCHANGED <<ffmpeg_pid, ffmpeg, commands, streaming_active>>
  /\ GoTo(LoopHead)
  /\ UNCHANGED <<wsVars, config, g_running, python_connected, android_connected, mediamtx, detector>>

Iterate == ForwardDetection \/ PythonDisconnected \/ NothingReceived \/ DdlBridgeTick \/ CheckPlayback

-----------------------------------------------------------------------------
(* The end.  ddl_bridge_stop, between the stream's stop and the closing of *)
(* the servers, is Lifecycle's: StopEnds says when it returns, and here it *)
(* is taken to.                                                            *)

Shutdown ==
  /\ phase = "shutdown"
  /\ IF streaming_active
       THEN SendStopIfConnected /\ PmStopFfmpeg
       ELSE UNCHANGED <<commands, ffmpeg_pid, ffmpeg>>
  /\ GoTo("close")
  /\ UNCHANGED <<wsVars, config, g_running, app, mediamtx, detector>>

(* ipc_cleanup, and ws_cleanup, which calls CLOSED for the client.         *)
CloseServers ==
  /\ phase = "close"
  /\ WsCleanup
  /\ android_connected' = FALSE
  /\ IF Connected /\ ~IsFifo /\ streaming_active
       THEN PmStopFfmpeg /\ streaming_active' = FALSE
       ELSE UNCHANGED <<ffmpeg_pid, ffmpeg, streaming_active>>
  /\ GoTo("cleanup")
  /\ UNCHANGED <<config, g_running, python_connected, mediamtx, peer>>

PmCleanup ==
  /\ phase = "cleanup"
  /\ PmStopFfmpeg
  /\ PmStopMediamtx
  /\ GoTo("exited")
  /\ UNCHANGED <<wsVars, config, g_running, app, peer>>

End == Shutdown \/ CloseServers \/ PmCleanup

(* signal_handler                                                          *)
Signal ==
  /\ g_running /\ phase # "exited"
  /\ g_running' = FALSE
  /\ UNCHANGED <<wsVars, phase, attempt, config, app, pm, peer>>

-----------------------------------------------------------------------------
(* The children.  FFmpeg publishes when its input gives it a stream: the   *)
(* FIFO once the detector writes to it.                                    *)

FfmpegPublishes(p) ==
  /\ ffmpeg[p] = "opening" /\ mediamtx
  /\ path = "file" \/ (IsFifo /\ detector = "session")
  /\ ffmpeg' = [ffmpeg EXCEPT ![p] = "publishing"]
  /\ UNCHANGED <<wsVars, phase, attempt, config, g_running, app, ffmpeg_pid, mediamtx, peer>>

FfmpegExits(p) ==
  /\ ffmpeg[p] # "none"
  /\ ffmpeg' = [ffmpeg EXCEPT ![p] = "none"]
  /\ UNCHANGED <<wsVars, phase, attempt, config, g_running, app, ffmpeg_pid, mediamtx, peer>>

MediamtxExits ==
  /\ mediamtx
  /\ mediamtx' = FALSE
  /\ UNCHANGED <<wsVars, phase, attempt, config, g_running, app, ffmpeg_pid, ffmpeg, peer>>

Children == MediamtxExits \/ \E p \in Pids : FfmpegPublishes(p) \/ FfmpegExits(p)

-----------------------------------------------------------------------------
(* The detector: main of person_streamer.py and its two kinds of session.  *)

around == <<wsVars, phase, attempt, config, g_running, app, pm>>

DetectorConnects ==
  /\ phase = "accept" /\ detector = "absent"
  /\ detector' = "idle"
  /\ UNCHANGED <<around, commands>>

(* A START that cannot be served leaves it idle; for a camera it looks for *)
(* the FIFO for some time, also when there is none.  In a session anything *)
(* but STOP is read and forgotten.                                         *)
DetectorReadsCommand ==
  /\ detector \in {"idle", "session"}
  /\ commands # <<>>
  /\ commands' = Tail(commands)
  /\ \/ Head(commands) = "stop" /\ detector' = "idle"
     \/ /\ Head(commands) = "start"
        /\ detector' \in CASE detector = "session" -> {"session"}
                           [] detector = "idle" /\ path = "file" -> {"idle", "session"}
                           [] detector = "idle" /\ path # "file" -> {"idle", "opening"}
  /\ UNCHANGED around

(* _open_fifo_for_writing finds a reader, or gives up.                     *)
DetectorOpens ==
  /\ detector = "opening"
  /\ \/ IsFifo /\ (\E p \in Pids : ffmpeg[p] # "none") /\ detector' = "session"
     \/ detector' = "idle"
  /\ UNCHANGED <<around, commands>>

DetectorAtEnd ==
  /\ detector = "session" /\ path = "file" /\ ~loop_video
  /\ detector' = "idle"
  /\ UNCHANGED <<around, commands>>

DetectorDies ==
  /\ detector \notin {"absent", "gone"}
  /\ detector' = "gone"
  /\ commands' = <<>>
  /\ UNCHANGED around

Detector ==
  \/ DetectorConnects \/ DetectorReadsCommand \/ DetectorOpens
  \/ DetectorAtEnd \/ DetectorDies

-----------------------------------------------------------------------------
Main == Startup \/ StartStream \/ Iterate \/ End

Next == Main \/ Service \/ ServiceReturns \/ Signal \/ Children \/ Detector

Spec == Init /\ [][Next]_vars

(* The thread of main runs; ws_service returns, however many callbacks it  *)
(* finds to call; a detector that is there reads its commands.             *)
FairSpec ==
  /\ Spec
  /\ WF_vars(Main)
  /\ SF_vars(ServiceReturns)
  /\ WF_vars(DetectorReadsCommand)
  /\ WF_vars(DetectorOpens)

-----------------------------------------------------------------------------
AppTypeOK ==
  /\ phase \in Boot \cup Loop \cup Starting \cup Ending
  /\ attempt \in 0 .. MaxTries
  /\ path \in {"fifo", "file", "nothing"}
  /\ {loop_video, g_running, python_connected, android_connected, streaming_active,
      mediamtx} \subseteq BOOLEAN
  /\ ffmpeg_pid \in Pids \cup {NoPid}
  /\ ffmpeg \in [Pids -> {"none", "opening", "publishing"}]
  /\ detector \in {"absent", "idle", "opening", "session", "gone"}
  /\ commands \in Seq({"start", "stop"}) /\ Len(commands) <= CommandRoom

TypeOK == WsTypeOK /\ AppTypeOK

(* The messages that wait are never forgotten, whatever the callbacks of   *)
(* WsServer are interleaved with.                                          *)
Inv == TypeOK /\ NoStrandedMessage

(* No FFmpeg runs that the process manager does not know of: at no moment  *)
(* of a start, a retry, an eviction or a failure can two of them publish   *)
(* under one name, or one outlive the server (main.c:106, 119, 184).       *)
NoStrayFfmpeg == \A p \in Pids : ffmpeg[p] # "none" => p = ffmpeg_pid

(* When main returns, from whichever of its points, no child is left       *)
(* (start.sh:13-16 tells what an FFmpeg left behind does to the next run). *)
NoChildLeft == phase = "exited" => ~mediamtx /\ \A p \in Pids : ffmpeg[p] = "none"

(* In a session the detector forgets a START it reads                      *)
(* (person_streamer.py:461), so none may come before a STOP.               *)
NoStartSwallowed ==
  \A i \in DOMAIN commands : commands[i] = "start" =>
    IF i = 1 THEN detector \notin {"opening", "session"} ELSE commands[i - 1] = "stop"

(* Between the callbacks: what is streamed has a detector, and a file has  *)
(* a client; without a client no FFmpeg plays a file and the detector has  *)
(* been told to stop (main.c:240-259, 470-487, 506-524).                   *)
StreamHasItsPeers ==
  phase \in Loop =>
    /\ android_connected = Connected
    /\ streaming_active => python_connected
    /\ ~IsFifo /\ ~Connected =>
         /\ ~streaming_active
         /\ \A p \in Pids : ffmpeg[p] = "none"
         /\ IF commands = <<>> THEN detector \notin {"opening", "session"}
                               ELSE commands[Len(commands)] = "stop"

(* A signal ends the program once the detector has connected and provided  *)
(* that ddl_bridge_stop returns, whatever clients, children and the        *)
(* detector do (main.c:436, 530-551).                                      *)
ShutdownEnds == ~g_running /\ detector # "absent" ~> phase = "exited"
=============================================================================
