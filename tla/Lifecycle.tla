----------------------------- MODULE Lifecycle -----------------------------
(***************************************************************************)
(* How the firmware is started and stopped by the streaming server         *)
(* (ddl_bridge_start, ddl_bridge_stop), over app.c, ddl.c, hal.c, the      *)
(* active objects and the event bus.  The bridge brings up the drivers,    *)
(* the bus and one thread with its queue per module; it stops by posting   *)
(* END to every module, joining every thread and freeing every queue and   *)
(* timer, while the threads, the timers' callbacks and the completions of  *)
(* the UART go on.  What a module computes is left to the other            *)
(* specifications: here an event may arm or disarm its timer, start a UART *)
(* operation, and, in the scheduler, publish an event to another module.   *)
(***************************************************************************)
EXTENDS Integers, Sequences, Functions

CONSTANTS
  Drivers,         \* hal_drivers, in order
  DdlModules,      \* ddl_modules, in order
  AppModules,      \* app_modules, in order
  Scheduler,       \* the module whose handler publishes to the others
  Uart,            \* the driver whose completions call modules back
  Timed,           \* the modules with a timer
  UartUsers,       \* the modules that start UART operations
  QueueCapacity    \* the capacity of the modules' queues

InitOrder == DdlModules \o AppModules    \* app_init
EndOrder == AppModules \o DdlModules     \* app_end, app_join, app_delete
Modules == Range(InitOrder)

ASSUME LifecycleAssumption ==
  /\ \A s \in {Drivers, DdlModules, AppModules} : s \in Seq(Range(s))
  /\ IsInjective(Drivers) /\ IsInjective(InitOrder)
  /\ Drivers # <<>> /\ DdlModules # <<>> /\ AppModules # <<>>
  /\ Uart \in Range(Drivers)
  /\ Scheduler \in Range(AppModules) \cap Timed
  /\ UartUsers \subseteq Timed /\ Timed \subseteq Modules
  /\ QueueCapacity \in Nat \ {0}

VARIABLES
  phase,     \* what the thread of the bridge is doing
  k,         \* the index of the driver or module it is at
  appUp,     \* b->app_up
  refused,   \* has a full queue refused an END
  hal,       \* the drivers that are up
  bus,       \* is the event bus up
  queue,     \* per module: "none", "open" or "deleted"
  inbox,     \* per module: the events queued
  thread,    \* per module: "none", "created", "running" or "ended"
  timer,     \* per module: "none", "idle", "armed" or "gone"
  late,      \* the modules with an expiration whose handler has not posted yet
  uart       \* the modules with a UART operation under way

bridgeVars == <<phase, k, appUp, refused>>
resources == <<hal, bus, queue>>
sources == <<timer, late, uart>>
vars == <<bridgeVars, resources, inbox, thread, sources>>

Init ==
  /\ phase = "hal_init" /\ k = 1
  /\ appUp = FALSE /\ refused = FALSE
  /\ hal = {} /\ bus = FALSE
  /\ queue = [m \in Modules |-> "none"]
  /\ inbox = [m \in Modules |-> <<>>]
  /\ thread = [m \in Modules |-> "none"]
  /\ timer = [m \in Modules |-> "none"]
  /\ late = {} /\ uart = {}

(* Mutant: the queue takes one event more than it has slots.               *)
OneMore(m) == Len(inbox[m]) > QueueCapacity

(* util_active_object_post: a full queue refuses the event.                *)
Full(m) == Len(inbox[m]) >= QueueCapacity
Post(m, e) == inbox' = IF Full(m) THEN inbox ELSE [inbox EXCEPT ![m] = Append(@, e)]

GoTo(p) == phase' = p /\ k' = 1

(* Go round the loop over s once more, or leave it for phase p.            *)
NextOf(s, p) == IF k < Len(s) THEN k' = k + 1 /\ UNCHANGED phase ELSE GoTo(p)

-----------------------------------------------------------------------------
(* ddl_bridge_start.  A driver that fails ends it without hal_cleanup; a   *)
(* bus or a module that fails goes through ddl_bridge_stop, which skips    *)
(* what is not marked as up.                                               *)

HalInit ==
  /\ phase = "hal_init"
  /\ \/ hal' = hal \cup {Drivers[k]} /\ NextOf(Drivers, "bus_init")
     \/ UNCHANGED hal /\ GoTo("null")
  /\ UNCHANGED <<appUp, refused, bus, queue, inbox, thread, sources>>

BusInit ==
  /\ phase = "bus_init"
  /\ \/ bus' = TRUE /\ GoTo("app_init")
     \/ UNCHANGED bus /\ GoTo("hal_cleanup")
  /\ UNCHANGED <<appUp, refused, hal, queue, inbox, thread, sources>>

AppInit ==
  /\ phase = "app_init"
  /\ LET m == InitOrder[k] IN
       \/ /\ queue' = [queue EXCEPT ![m] = "open"]
          /\ thread' = [thread EXCEPT ![m] = "created"]
          /\ NextOf(InitOrder, "publish")
          /\ appUp' = (k = Len(InitOrder))
       \/ /\ GoTo("bus_delete")
          /\ UNCHANGED <<appUp, queue, thread>>
  /\ UNCHANGED <<refused, hal, bus, inbox, sources>>

PublishStart ==
  /\ phase = "publish"
  /\ GoTo("started")
  /\ Post(Scheduler, "START")
  /\ UNCHANGED <<appUp, refused, resources, thread, sources>>

-----------------------------------------------------------------------------
(* ddl_bridge_stop                                                         *)

Stop ==
  /\ phase = "started"
  /\ GoTo("end")
  /\ UNCHANGED <<appUp, refused, resources, inbox, thread, sources>>

(* Mutant: app_end does not call ddl_end.                                  *)
EndAppOnly ==
  /\ phase = "end"
  /\ LET m == EndOrder[k] IN
       /\ Post(m, "END")
       /\ refused' = Full(m)
       /\ IF Full(m) THEN GoTo("join") ELSE NextOf(AppModules, "join")
  /\ UNCHANGED <<appUp, resources, thread, sources>>

(* app_end, ddl_end: the first module that refuses END is the last asked.  *)
EndModule ==
  /\ phase = "end"
  /\ LET m == EndOrder[k] IN
       /\ Post(m, "END")
       /\ refused' = Full(m)
       /\ IF Full(m) THEN GoTo("join") ELSE NextOf(EndOrder, "join")
  /\ UNCHANGED <<appUp, resources, thread, sources>>

(* Mutant: the modules of ddl are not joined.                              *)
JoinAppOnly ==
  /\ phase = "join"
  /\ thread[EndOrder[k]] = "ended"
  /\ NextOf(AppModules, "delete")
  /\ UNCHANGED <<appUp, refused, resources, inbox, thread, sources>>

(* app_join, ddl_join                                                      *)
JoinModule ==
  /\ phase = "join"
  /\ thread[EndOrder[k]] = "ended"
  /\ NextOf(EndOrder, "delete")
  /\ UNCHANGED <<appUp, refused, resources, inbox, thread, sources>>

(* app_delete, ddl_delete: the queue goes first, the timer after it.       *)
DeleteModule ==
  /\ phase = "delete"
  /\ LET m == EndOrder[k] IN
       /\ queue' = [queue EXCEPT ![m] = "deleted"]
       /\ IF m \in Timed THEN phase' = "destroy" /\ UNCHANGED k
                         ELSE NextOf(EndOrder, "bus_delete")
  /\ UNCHANGED <<appUp, refused, hal, bus, inbox, thread, sources>>

(* Mutant: the timer is not destroyed.                                     *)
LeaveTimer ==
  /\ phase = "destroy"
  /\ UNCHANGED timer
  /\ IF k < Len(EndOrder) THEN phase' = "delete" /\ k' = k + 1 ELSE GoTo("bus_delete")
  /\ UNCHANGED <<appUp, refused, resources, inbox, thread, late, uart>>

(* A destroyed timer may have left a callback behind.                      *)
DestroyTimer ==
  /\ phase = "destroy"
  /\ timer' = [timer EXCEPT ![EndOrder[k]] = "gone"]
  /\ IF k < Len(EndOrder) THEN phase' = "delete" /\ k' = k + 1 ELSE GoTo("bus_delete")
  /\ UNCHANGED <<appUp, refused, resources, inbox, thread, late, uart>>

BusDelete ==
  /\ phase = "bus_delete"
  /\ bus' = FALSE
  /\ GoTo("hal_cleanup")
  /\ UNCHANGED <<appUp, refused, hal, queue, inbox, thread, sources>>

(* Cleaning up the UART joins the thread that calls modules back.          *)
HalCleanup ==
  /\ phase = "hal_cleanup"
  /\ hal' = hal \ {Drivers[k]}
  /\ uart' = IF Drivers[k] = Uart THEN {} ELSE uart
  /\ NextOf(Drivers, IF appUp THEN "freed" ELSE "null")
  /\ UNCHANGED <<appUp, refused, bus, queue, inbox, thread, timer, late>>

Bridge ==
  \/ HalInit \/ BusInit \/ AppInit \/ PublishStart
  \/ EndModule \/ JoinModule \/ DeleteModule \/ DestroyTimer \/ BusDelete \/ HalCleanup

-----------------------------------------------------------------------------
(* The threads of the modules: active_entry                                *)

(* A handler starts a UART operation only while the driver is up.          *)
MayStartUart(m) ==
  \/ m \in UartUsers /\ Uart \in hal /\ uart' = uart \cup {m}
  \/ UNCHANGED uart

(* util_fsm_init: INIT creates the timer, or fails to and goes to ERROR.   *)
Begin(m) ==
  /\ thread[m] = "created"
  /\ thread' = [thread EXCEPT ![m] = "running"]
  /\ \/ m \in Timed /\ timer' = [timer EXCEPT ![m] = "idle"] /\ MayStartUart(m)
     \/ UNCHANGED <<timer, uart>>
  /\ UNCHANGED <<bridgeVars, resources, inbox, late>>

(* END leaves the loop; the FSM is not told, so an armed timer stays so.   *)
EndThread(m) ==
  /\ thread[m] = "running"
  /\ inbox[m] # <<>> /\ Head(inbox[m]) = "END"
  /\ thread' = [thread EXCEPT ![m] = "ended"]
  /\ inbox' = [inbox EXCEPT ![m] = Tail(@)]
  /\ UNCHANGED <<bridgeVars, resources, sources>>

(* START arms the repeating timer, and each event publishes to a module;  *)
(* ERROR, which has no timer, ignores its events.                          *)
HandleScheduler ==
  /\ thread[Scheduler] = "running"
  /\ inbox[Scheduler] # <<>> /\ Head(inbox[Scheduler]) # "END"
  /\ LET rest == [inbox EXCEPT ![Scheduler] = Tail(@)] IN
       \/ /\ timer[Scheduler] # "none"
          /\ timer' = [timer EXCEPT ![Scheduler] = "armed"]
          /\ \E m \in Modules \ {Scheduler} :
               inbox' = IF Full(m) THEN rest ELSE [rest EXCEPT ![m] = Append(@, "EVENT")]
       \/ /\ timer[Scheduler] = "none"
          /\ inbox' = rest
          /\ UNCHANGED timer
  /\ UNCHANGED <<bridgeVars, resources, thread, late, uart>>

Handle(m) ==
  /\ m # Scheduler
  /\ thread[m] = "running"
  /\ inbox[m] # <<>> /\ Head(inbox[m]) # "END"
  /\ inbox' = [inbox EXCEPT ![m] = Tail(@)]
  /\ \/ /\ timer[m] # "none"
        /\ \E t \in {"idle", "armed"} : timer' = [timer EXCEPT ![m] = t]
        /\ MayStartUart(m)
     \/ UNCHANGED <<timer, uart>>
  /\ UNCHANGED <<bridgeVars, resources, thread, late>>

Thread(m) == Begin(m) \/ EndThread(m) \/ Handle(m) \/ (m = Scheduler /\ HandleScheduler)

-----------------------------------------------------------------------------
(* The timers and the UART, whose callbacks post to the modules.           *)

TimerExpires(m) ==
  /\ timer[m] = "armed"
  /\ late' = late \cup {m}
  /\ timer' = IF m = Scheduler THEN timer ELSE [timer EXCEPT ![m] = "idle"]
  /\ UNCHANGED <<bridgeVars, resources, inbox, thread, uart>>

(* What a post to a deleted queue does is undefined; here it is lost.      *)
CallBack(m) == IF queue[m] = "open" THEN Post(m, "EVENT") ELSE UNCHANGED inbox

TimeoutHandler(m) ==
  /\ m \in late
  /\ late' = late \ {m}
  /\ CallBack(m)
  /\ UNCHANGED <<bridgeVars, resources, thread, timer, uart>>

UartCompletes(m) ==
  /\ m \in uart
  /\ uart' = uart \ {m}
  /\ CallBack(m)
  /\ UNCHANGED <<bridgeVars, resources, thread, timer, late>>

Next ==
  \/ Bridge
  \/ Stop
  \/ \E m \in Modules : Thread(m)
  \/ \E m \in Timed : TimerExpires(m) \/ TimeoutHandler(m)
  \/ \E m \in UartUsers : UartCompletes(m)

Spec == Init /\ [][Next]_vars

(* The thread of the bridge and the threads of the modules run; nobody has *)
(* to stop the bridge, no timer has to expire and no device to answer.     *)
FairSpec ==
  /\ Spec
  /\ WF_vars(Bridge)
  /\ \A m \in Modules : WF_vars(Thread(m))

-----------------------------------------------------------------------------
Phases ==
  {"hal_init", "bus_init", "app_init", "publish", "started", "end", "join", "delete",
   "destroy", "bus_delete", "hal_cleanup", "freed", "null"}

TypeOK ==
  /\ phase \in Phases
  /\ k \in 1 .. Len(Drivers) + Len(InitOrder)
  /\ appUp \in BOOLEAN /\ refused \in BOOLEAN
  /\ hal \subseteq Range(Drivers)
  /\ bus \in BOOLEAN
  /\ queue \in [Modules -> {"none", "open", "deleted"}]
  /\ inbox \in [Modules -> Seq({"START", "EVENT", "END"})]
  /\ \A m \in Modules : Len(inbox[m]) <= QueueCapacity
  /\ thread \in [Modules -> {"none", "created", "running", "ended"}]
  /\ timer \in [Modules -> {"none", "idle", "armed", "gone"}]
  /\ late \subseteq Timed
  /\ uart \subseteq UartUsers

Alive(m) == thread[m] \in {"created", "running"}

(* While any thread of a started system is alive, whatever it may use is   *)
(* there: every module's queue (the scheduler posts to the others through  *)
(* the bus), the bus and every driver.  app_end, app_join, app_delete and  *)
(* the order of ddl_bridge_stop have to see to it at every moment of a     *)
(* stop, one that a full queue has cut short included (app.c:137).         *)
ResourcesOutliveThreads ==
  appUp /\ (\E m \in Modules : Alive(m)) =>
    /\ \A m \in Modules : queue[m] = "open"
    /\ bus
    /\ hal = Range(Drivers)

(* A stop in which every module accepts END comes to an end, whatever is   *)
(* queued before the ENDs, however the timers and the devices behave, and  *)
(* although the scheduler goes on publishing until its own END.            *)
StopEnds == phase = "end" ~> (phase = "freed" \/ refused)

(* ddl_bridge.h:19-20: "NULL on failure (the bridge has fully cleaned up   *)
(* after itself on failure)".  A failing app_init leaves the threads of    *)
(* the modules before it running, a failing hal_init its earlier drivers.  *)
CleanedUpOnFailure ==
  phase = "null" => hal = {} /\ ~bus /\ \A m \in Modules : ~Alive(m)

(* Once app_delete has freed every module, no callback is added to those   *)
(* under way: no timer is left to expire and no thread to start a UART     *)
(* operation, an armed timer that END has passed over included.  Those     *)
(* under way may still post to a queue that has been freed (see README).   *)
NoNewCallbacks ==
  [][appUp /\ phase \in {"bus_delete", "hal_cleanup", "freed"} =>
       late' \subseteq late /\ uart' \subseteq uart]_vars
=============================================================================
