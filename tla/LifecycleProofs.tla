--------------------------- MODULE LifecycleProofs ---------------------------
(***************************************************************************)
(* Starting and stopping the firmware for any list of drivers and modules  *)
(* and any capacity of their queues: the types, and that nothing a living  *)
(* thread of a started system may use is freed before it has been joined.  *)
(***************************************************************************)
EXTENDS Lifecycle, SequenceTheorems, TLAPS

Events == {"START", "EVENT", "END"}

(* Where the bridge is in the life of the system.                          *)
Starting == {"hal_init", "bus_init", "app_init"}
Serving  == {"publish", "started", "end", "join"}
Freeing  == {"delete", "destroy", "bus_delete", "hal_cleanup", "freed"}

(* The loops of the bridge stay within their arrays.                       *)
IndexInRange ==
  /\ phase \in {"hal_init", "hal_cleanup"} => k <= Len(Drivers)
  /\ phase \in {"app_init", "end", "join", "delete", "destroy"} => k <= Len(InitOrder)

(* app_up is set once every module has been created.                       *)
UpAfterInit ==
  /\ phase \in Starting \cup {"null"} => ~appUp
  /\ phase \in Serving \cup {"delete", "destroy"} => appUp

(* What the loops of the start have brought up so far.                     *)
BroughtUp ==
  /\ phase = "hal_init" => \A i \in 1 .. k - 1 : Drivers[i] \in hal
  /\ phase \in {"bus_init", "app_init"} \cup Serving => hal = Range(Drivers)
  /\ phase \in {"app_init"} \cup Serving => bus
  /\ phase = "app_init" => \A i \in 1 .. k - 1 : queue[InitOrder[i]] = "open"
  /\ phase \in Serving => \A m \in Modules : queue[m] = "open"

(* Whom the loop of the joins has waited for so far.                       *)
JoinedSoFar ==
  /\ phase = "join" => \A i \in 1 .. k - 1 : thread[EndOrder[i]] = "ended"
  /\ phase \in Freeing /\ appUp => \A m \in Modules : thread[m] = "ended"

IInv == TypeOK /\ IndexInRange /\ UpAfterInit /\ BroughtUp /\ JoinedSoFar

-----------------------------------------------------------------------------
(* The range of a sequence, by its indices.                                *)
LEMMA ElementsOfSeq ==
  ASSUME NEW S, NEW s \in Seq(S)
  PROVE  /\ \A i \in 1 .. Len(s) : s[i] \in Range(s)
         /\ \A x \in Range(s) : \E i \in 1 .. Len(s) : x = s[i]
BY DEF Range

(* The arrays of app.c, ddl.c and hal.c: the order of the stop has the     *)
(* modules of the order of the start.                                      *)
LEMMA Orders ==
  /\ Len(Drivers) \in Nat \ {0} /\ Len(InitOrder) \in Nat \ {0}
  /\ Len(EndOrder) = Len(InitOrder)
  /\ \A i \in 1 .. Len(Drivers) : Drivers[i] \in Range(Drivers)
  /\ \A d \in Range(Drivers) : \E i \in 1 .. Len(Drivers) : d = Drivers[i]
  /\ \A i \in 1 .. Len(InitOrder) : InitOrder[i] \in Modules
  /\ \A m \in Modules : \E i \in 1 .. Len(InitOrder) : m = InitOrder[i]
  /\ \A i \in 1 .. Len(EndOrder) : EndOrder[i] \in Modules
  /\ \A m \in Modules : \E i \in 1 .. Len(EndOrder) : m = EndOrder[i]
<1> DEFINE S == Range(DdlModules) \cup Range(AppModules)
<1>1. /\ Drivers \in Seq(Range(Drivers)) /\ Drivers # <<>>
      /\ DdlModules \in Seq(Range(DdlModules)) /\ DdlModules # <<>>
      /\ AppModules \in Seq(Range(AppModules)) /\ AppModules # <<>>
  BY LifecycleAssumption
<1>2. DdlModules \in Seq(S) /\ AppModules \in Seq(S)
  BY <1>1
<1> HIDE DEF S
<1>3. /\ InitOrder \in Seq(S) /\ Len(InitOrder) = Len(DdlModules) + Len(AppModules)
      /\ EndOrder \in Seq(S) /\ Len(EndOrder) = Len(AppModules) + Len(DdlModules)
  BY <1>2 DEF InitOrder, EndOrder
<1>4. /\ Len(DdlModules) \in Nat \ {0} /\ Len(AppModules) \in Nat \ {0}
      /\ Len(Drivers) \in Nat \ {0}
  BY <1>1
<1>5. Modules = Range(InitOrder) /\ Modules = Range(EndOrder)
  <2>1. Range(InitOrder) = Range(DdlModules) \cup Range(AppModules)
    BY <1>2, RangeConcatenation DEF InitOrder
  <2>2. Range(EndOrder) = Range(AppModules) \cup Range(DdlModules)
    BY <1>2, RangeConcatenation DEF EndOrder
  <2>3. QED
    BY <2>1, <2>2 DEF Modules
<1>6. /\ \A i \in 1 .. Len(Drivers) : Drivers[i] \in Range(Drivers)
      /\ \A d \in Range(Drivers) : \E i \in 1 .. Len(Drivers) : d = Drivers[i]
  BY <1>1, ElementsOfSeq
<1>7. /\ \A i \in 1 .. Len(InitOrder) : InitOrder[i] \in Range(InitOrder)
      /\ \A m \in Range(InitOrder) : \E i \in 1 .. Len(InitOrder) : m = InitOrder[i]
  BY <1>3, ElementsOfSeq
<1>8. /\ \A i \in 1 .. Len(EndOrder) : EndOrder[i] \in Range(EndOrder)
      /\ \A m \in Range(EndOrder) : \E i \in 1 .. Len(EndOrder) : m = EndOrder[i]
  BY <1>3, ElementsOfSeq
<1>9. Len(EndOrder) = Len(InitOrder) /\ Len(InitOrder) \in Nat \ {0}
  BY <1>3, <1>4
<1>10. QED
  BY <1>4, <1>5, <1>6, <1>7, <1>8, <1>9

(* The arrays are not empty, and a stop goes over as many modules as a     *)
(* start.                                                                  *)
LEMMA Lengths ==
  /\ Len(Drivers) \in Nat \ {0}
  /\ Len(InitOrder) \in Nat \ {0}
  /\ Len(EndOrder) = Len(InitOrder)
BY Orders

(* Every module with a timer or a UART is a module.                        *)
LEMMA SchedulerIsModule == Scheduler \in Modules /\ Timed \subseteq Modules /\ UartUsers \subseteq Timed
BY LifecycleAssumption

(* A post to a module keeps every queue within its capacity.               *)
LEMMA PostType ==
  ASSUME NEW m \in Modules, NEW e \in Events,
         inbox \in [Modules -> Seq(Events)],
         \A n \in Modules : Len(inbox[n]) <= QueueCapacity,
         Post(m, e)
  PROVE  /\ inbox' \in [Modules -> Seq(Events)]
         /\ \A n \in Modules : Len(inbox'[n]) <= QueueCapacity
<1>1. CASE Full(m)
  BY <1>1 DEF Post
<1>2. CASE ~Full(m)
  <2>1. Len(inbox[m]) < QueueCapacity
    BY <1>2, LifecycleAssumption DEF Full
  <2>2. inbox' = [inbox EXCEPT ![m] = Append(inbox[m], e)]
    BY <1>2 DEF Post
  <2>3. Append(inbox[m], e) \in Seq(Events) /\ Len(Append(inbox[m], e)) = Len(inbox[m]) + 1
    OBVIOUS
  <2>4. QED
    BY <2>1, <2>2, <2>3, LifecycleAssumption
<1>3. QED
  BY <1>1, <1>2

(* Taking the first event of a module does, too.                           *)
LEMMA TakeType ==
  ASSUME NEW m \in Modules,
         inbox \in [Modules -> Seq(Events)], inbox[m] # <<>>,
         \A n \in Modules : Len(inbox[n]) <= QueueCapacity
  PROVE  LET rest == [inbox EXCEPT ![m] = Tail(@)] IN
         /\ rest \in [Modules -> Seq(Events)]
         /\ \A n \in Modules : Len(rest[n]) <= QueueCapacity
<1>1. Tail(inbox[m]) \in Seq(Events) /\ Len(Tail(inbox[m])) = Len(inbox[m]) - 1
  OBVIOUS
<1>2. Len(inbox[m]) - 1 <= QueueCapacity
  BY LifecycleAssumption
<1>3. QED
  BY <1>1, <1>2

-----------------------------------------------------------------------------
(* The module the loops of a stop are at.                                  *)
LEMMA AtModule ==
  ASSUME IInv, phase \in {"end", "join", "delete", "destroy"}
  PROVE  k \in Nat \ {0} /\ k <= Len(EndOrder) /\ EndOrder[k] \in Modules /\ appUp
<1>1. k \in 1 .. Len(Drivers) + Len(InitOrder) /\ k <= Len(InitOrder)
  BY DEF IInv, TypeOK, IndexInRange
<1>2. k \in Nat \ {0} /\ k <= Len(EndOrder)
  BY <1>1, Lengths
<1>3. k \in 1 .. Len(EndOrder)
  BY <1>2, Lengths
<1>4. EndOrder[k] \in Modules
  BY <1>3, Orders
<1>5. appUp
  BY DEF IInv, UpAfterInit, Serving
<1>6. QED
  BY <1>2, <1>4, <1>5

(* A step of a module, a timer or the UART leaves what the bridge relies   *)
(* on alone, and nobody who has ended lives again.                         *)
LEMMA BridgeUnmoved ==
  ASSUME IInv, UNCHANGED <<bridgeVars, resources>>,
         \A m \in Modules : thread[m] = "ended" => thread'[m] = "ended"
  PROVE  IndexInRange' /\ UpAfterInit' /\ BroughtUp' /\ JoinedSoFar'
<1> USE DEF IInv, bridgeVars, resources
<1>1. IndexInRange' /\ UpAfterInit'
  BY DEF IndexInRange, UpAfterInit, Starting, Serving
<1>2. BroughtUp'
  BY DEF BroughtUp, Serving
<1>3. JoinedSoFar'
  <2>1. ASSUME phase = "join", NEW i \in 1 .. k - 1
        PROVE  thread'[EndOrder[i]] = "ended"
    <3>1. EndOrder[i] \in Modules
      BY <2>1, Orders DEF IndexInRange, TypeOK
    <3>2. QED
      BY <2>1, <3>1 DEF JoinedSoFar
  <2>2. QED
    BY <2>1 DEF JoinedSoFar, Freeing
<1>4. QED
  BY <1>1, <1>2, <1>3

(* Before hal_init nothing is up.                                          *)
LEMMA Initial == Init => IInv
<1> SUFFICES ASSUME Init PROVE IInv
  OBVIOUS
<1>1. k \in 1 .. Len(Drivers) + Len(InitOrder) /\ k <= Len(Drivers)
  BY Orders DEF Init
<1>2. inbox \in [Modules -> Seq(Events)] /\ \A m \in Modules : Len(inbox[m]) <= QueueCapacity
  BY LifecycleAssumption DEF Init
<1>3. TypeOK
  BY <1>1, <1>2 DEF Init, TypeOK, Phases, Events
<1>4. IndexInRange /\ UpAfterInit /\ BroughtUp /\ JoinedSoFar
  BY <1>1 DEF Init, IndexInRange, UpAfterInit, BroughtUp, JoinedSoFar, Starting, Serving, Freeing
<1>5. QED
  BY <1>3, <1>4 DEF IInv

(* The loops of the bridge over its arrays, and the end of each.           *)
LEMMA NextOfLoop ==
  ASSUME NEW s, NEW p, Len(s) \in Nat \ {0}, k \in Nat \ {0}, k <= Len(s), NextOf(s, p)
  PROVE  \/ k < Len(s) /\ k' = k + 1 /\ phase' = phase
         \/ k = Len(s) /\ k' = 1 /\ phase' = p
BY DEF NextOf, GoTo

(* hal_init: the drivers before the k-th are up, or the start ends.        *)
LEMMA HalInitStep == IInv /\ HalInit => IInv'
<1> SUFFICES ASSUME IInv, HalInit PROVE IInv'
  OBVIOUS
<1> USE Orders DEF IInv, HalInit
<1>1. k \in Nat \ {0} /\ k <= Len(Drivers) /\ Drivers[k] \in Range(Drivers)
  BY DEF TypeOK, IndexInRange
<1>2. CASE hal' = hal \cup {Drivers[k]} /\ NextOf(Drivers, "bus_init")
  <2>1. \/ k < Len(Drivers) /\ k' = k + 1 /\ phase' = phase
        \/ k = Len(Drivers) /\ k' = 1 /\ phase' = "bus_init"
    BY <1>1, <1>2, NextOfLoop
  <2>2. \A i \in 1 .. k : Drivers[i] \in hal'
    BY <1>1, <1>2 DEF BroughtUp
  <2>3. hal' \subseteq Range(Drivers)
    BY <1>1, <1>2 DEF TypeOK
  <2>4. phase' = "bus_init" => hal' = Range(Drivers)
    BY <2>1, <2>2, <2>3
  <2>5. BroughtUp'
    BY <1>1, <2>1, <2>2, <2>4 DEF BroughtUp, Serving
  <2>6. TypeOK'
    BY <1>1, <2>1, <2>3 DEF TypeOK, Phases, sources
  <2>7. IndexInRange' /\ UpAfterInit' /\ JoinedSoFar'
    BY <1>1, <2>1 DEF IndexInRange, UpAfterInit, JoinedSoFar, Starting, Serving, Freeing
  <2>8. QED
    BY <2>5, <2>6, <2>7
<1>3. CASE UNCHANGED hal /\ GoTo("null")
  <2>1. TypeOK'
    BY <1>3 DEF TypeOK, Phases, sources, GoTo
  <2>2. IndexInRange' /\ UpAfterInit' /\ JoinedSoFar' /\ BroughtUp'
    BY <1>3 DEF GoTo, IndexInRange, UpAfterInit, JoinedSoFar, BroughtUp, Starting, Serving, Freeing
  <2>3. QED
    BY <2>1, <2>2
<1>4. QED
  BY <1>2, <1>3

(* util_event_bus_init, after which the modules may be created.            *)
LEMMA BusInitStep == IInv /\ BusInit => IInv'
<1> SUFFICES ASSUME IInv, BusInit PROVE IInv'
  OBVIOUS
<1> USE Orders DEF IInv, BusInit, GoTo
<1>1. TypeOK'
  <2>1. k' \in 1 .. Len(Drivers) + Len(InitOrder)
    OBVIOUS
  <2>2. bus' \in BOOLEAN
    BY DEF TypeOK
  <2>3. QED
    BY <2>1, <2>2 DEF TypeOK, Phases, sources
<1>2. IndexInRange' /\ UpAfterInit' /\ JoinedSoFar'
  BY DEF IndexInRange, UpAfterInit, JoinedSoFar, Starting, Serving, Freeing
<1>3. BroughtUp'
  BY DEF BroughtUp, Serving
<1>4. QED
  BY <1>1, <1>2, <1>3

(* app_init: the queues of the modules before the k-th are open; app_up is *)
(* set with the last.                                                      *)
LEMMA AppInitStep == IInv /\ AppInit => IInv'
<1> SUFFICES ASSUME IInv, AppInit PROVE IInv'
  OBVIOUS
<1> USE Orders DEF IInv
<1> DEFINE m == InitOrder[k]
<1>1. k \in Nat \ {0} /\ k <= Len(InitOrder) /\ m \in Modules /\ ~appUp /\ phase = "app_init"
  BY DEF TypeOK, IndexInRange, UpAfterInit, AppInit, Starting
<1>2. CASE /\ queue' = [queue EXCEPT ![m] = "open"]
           /\ thread' = [thread EXCEPT ![m] = "created"]
           /\ NextOf(InitOrder, "publish")
           /\ appUp' = (k = Len(InitOrder))
  <2>0. appUp' \in BOOLEAN /\ (appUp' <=> k = Len(InitOrder))
    BY <1>2, Zenon
  <2>1. \/ k < Len(InitOrder) /\ k' = k + 1 /\ phase' = "app_init"
        \/ k = Len(InitOrder) /\ k' = 1 /\ phase' = "publish"
    BY <1>1, <1>2, NextOfLoop
  <2>2. \A i \in 1 .. k : queue'[InitOrder[i]] = "open"
    BY <1>1, <1>2, SMTT(30) DEF BroughtUp, TypeOK
  <2>3. phase' = "publish" => \A n \in Modules : queue'[n] = "open"
    BY <2>1, <2>2
  <2>4. TypeOK'
    <3>1. k' \in 1 .. Len(Drivers) + Len(InitOrder) /\ phase' \in Phases
      BY <1>1, <2>1, SMTT(30) DEF Phases
    <3>2. /\ queue' \in [Modules -> {"none", "open", "deleted"}]
          /\ thread' \in [Modules -> {"none", "created", "running", "ended"}]
      BY <1>1, <1>2 DEF TypeOK
    <3>3. QED
      BY <2>0, <3>1, <3>2 DEF TypeOK, sources, AppInit
  <2>5. IndexInRange' /\ UpAfterInit' /\ JoinedSoFar'
    <3>1. \/ phase' = "app_init" /\ ~appUp'
          \/ phase' = "publish" /\ appUp'
      BY <1>1, <2>0, <2>1
    <3>2. IndexInRange'
      <4>1. k' <= Len(InitOrder)
        BY <1>1, <2>1, Lengths
      <4>2. QED
        BY <3>1, <4>1 DEF IndexInRange
    <3>3. UpAfterInit' /\ JoinedSoFar'
      BY <3>1 DEF UpAfterInit, JoinedSoFar, Starting, Serving, Freeing
    <3>4. QED
      BY <3>2, <3>3
  <2>6. BroughtUp'
    <3>1. hal' = Range(Drivers) /\ bus'
      BY <1>1 DEF BroughtUp, AppInit
    <3>2. phase' = "app_init" => \A i \in 1 .. k' - 1 : queue'[InitOrder[i]] = "open"
      <4>1. phase' = "app_init" => k' - 1 = k
        BY <1>1, <2>1
      <4>2. QED
        BY <2>2, <4>1
    <3>3. QED
      BY <1>1, <2>1, <2>3, <3>1, <3>2 DEF BroughtUp, Serving
  <2>7. QED
    BY <2>4, <2>5, <2>6
<1>3. CASE GoTo("bus_delete") /\ UNCHANGED <<appUp, queue, thread>>
  <2>1. TypeOK'
    BY <1>3 DEF TypeOK, Phases, sources, GoTo, AppInit
  <2>2. IndexInRange' /\ UpAfterInit' /\ JoinedSoFar' /\ BroughtUp'
    BY <1>1, <1>3 DEF GoTo, IndexInRange, UpAfterInit, JoinedSoFar, BroughtUp, Starting,
                      Serving, Freeing
  <2>3. QED
    BY <2>1, <2>2
<1>4. QED
  BY <1>2, <1>3 DEF AppInit

(* START is posted; everything is up.                                      *)
LEMMA PublishStartStep == IInv /\ PublishStart => IInv'
<1> SUFFICES ASSUME IInv, PublishStart PROVE IInv'
  OBVIOUS
<1> USE Orders DEF IInv, PublishStart, GoTo
<1>1. /\ inbox' \in [Modules -> Seq(Events)]
      /\ \A n \in Modules : Len(inbox'[n]) <= QueueCapacity
  BY PostType, SchedulerIsModule DEF TypeOK, Events
<1>2. k' \in 1 .. Len(Drivers) + Len(InitOrder)
  OBVIOUS
<1>3. TypeOK'
  BY <1>1, <1>2 DEF TypeOK, Phases, sources, resources, Events
<1>4. IndexInRange' /\ UpAfterInit' /\ JoinedSoFar' /\ BroughtUp'
  BY DEF IndexInRange, UpAfterInit, JoinedSoFar, BroughtUp, Starting, Serving, Freeing, resources
<1>5. QED
  BY <1>3, <1>4

(* ddl_bridge_stop is called; nothing is freed yet.                        *)
LEMMA StopStep == IInv /\ Stop => IInv'
<1> SUFFICES ASSUME IInv, Stop PROVE IInv'
  OBVIOUS
<1> USE Orders DEF IInv, Stop, GoTo
<1>1. k' \in 1 .. Len(Drivers) + Len(InitOrder) /\ k' <= Len(InitOrder)
  OBVIOUS
<1>2. TypeOK'
  BY <1>1 DEF TypeOK, Phases, sources, resources
<1>3. IndexInRange' /\ UpAfterInit' /\ JoinedSoFar' /\ BroughtUp'
  BY <1>1 DEF IndexInRange, UpAfterInit, JoinedSoFar, BroughtUp, Starting, Serving, Freeing, resources
<1>4. QED
  BY <1>2, <1>3

(* app_end frees nothing, and goes on to the joins even when END is        *)
(* refused.                                                                *)
LEMMA EndModuleStep == IInv /\ EndModule => IInv'
<1> SUFFICES ASSUME IInv, EndModule PROVE IInv'
  OBVIOUS
<1> USE DEF IInv
<1> DEFINE m == EndOrder[k]
<1>1. k \in Nat \ {0} /\ k <= Len(EndOrder) /\ m \in Modules /\ phase = "end"
  BY AtModule DEF EndModule
<1>2. /\ inbox' \in [Modules -> Seq(Events)]
      /\ \A n \in Modules : Len(inbox'[n]) <= QueueCapacity
  BY <1>1, PostType DEF TypeOK, Events, EndModule
<1>3. \/ k < Len(EndOrder) /\ k' = k + 1 /\ phase' = "end"
      \/ k' = 1 /\ phase' = "join"
  <2>1. GoTo("join") \/ NextOf(EndOrder, "join")
    BY DEF EndModule
  <2>2. QED
    BY <1>1, <2>1, NextOfLoop DEF GoTo
<1>4. k' \in 1 .. Len(Drivers) + Len(InitOrder) /\ k' <= Len(InitOrder)
  BY <1>1, <1>3, Lengths
<1>5. refused' \in BOOLEAN
  <2>1. refused' = Full(m)
    BY DEF EndModule
  <2>2. (Full(m) = TRUE) \/ (Full(m) = FALSE)
    BY SMT DEF Full
  <2>3. QED
    BY <2>1, <2>2, Zenon
<1>6. TypeOK'
  BY <1>2, <1>3, <1>4, <1>5 DEF TypeOK, Phases, sources, resources, Events, EndModule
<1>7. appUp' = appUp /\ UNCHANGED <<resources, thread>>
  BY DEF EndModule
<1>8. IndexInRange' /\ UpAfterInit' /\ BroughtUp'
  BY <1>1, <1>3, <1>4, <1>7 DEF IndexInRange, UpAfterInit, BroughtUp, Starting, Serving, resources
<1>9. JoinedSoFar'
  BY <1>1, <1>3, <1>7 DEF JoinedSoFar, Freeing
<1>10. QED
  BY <1>6, <1>8, <1>9

(* app_join leaves its loop only when every thread has ended.              *)
LEMMA JoinModuleStep == IInv /\ JoinModule => IInv'
<1> SUFFICES ASSUME IInv, JoinModule PROVE IInv'
  OBVIOUS
<1> USE DEF IInv
<1>1. k \in Nat \ {0} /\ k <= Len(EndOrder) /\ EndOrder[k] \in Modules /\ phase = "join"
  BY AtModule DEF JoinModule
<1>2. \/ k < Len(EndOrder) /\ k' = k + 1 /\ phase' = "join"
      \/ k = Len(EndOrder) /\ k' = 1 /\ phase' = "delete"
  BY <1>1, NextOfLoop DEF JoinModule
<1>3. UNCHANGED <<appUp, refused, resources, inbox, thread, sources>>
  BY DEF JoinModule
<1>4. \A i \in 1 .. k : thread[EndOrder[i]] = "ended"
  <2>1. \A i \in 1 .. k : i \in 1 .. k - 1 \/ i = k
    BY <1>1
  <2>2. QED
    BY <1>1, <2>1 DEF JoinModule, JoinedSoFar
<1>5. k' \in 1 .. Len(Drivers) + Len(InitOrder) /\ k' <= Len(InitOrder)
  BY <1>1, <1>2, Lengths
<1>6. TypeOK'
  BY <1>2, <1>3, <1>5 DEF TypeOK, Phases, sources, resources
<1>7. IndexInRange' /\ UpAfterInit' /\ BroughtUp'
  BY <1>1, <1>2, <1>3, <1>5 DEF IndexInRange, UpAfterInit, BroughtUp, Starting, Serving, resources
<1>8. JoinedSoFar'
  <2>1. phase' = "join" => k' - 1 = k
    BY <1>1, <1>2, Lengths
  <2>2. phase' = "delete" => \A m \in Modules : thread[m] = "ended"
    <3>1. phase' = "delete" => \A i \in 1 .. Len(EndOrder) : thread[EndOrder[i]] = "ended"
      BY <1>2, <1>4
    <3>2. \A m \in Modules : \E i \in 1 .. Len(EndOrder) : m = EndOrder[i]
      BY Orders
    <3>3. QED
      BY <3>1, <3>2, Zenon
  <2>3. QED
    BY <1>2, <1>3, <1>4, <2>1, <2>2 DEF JoinedSoFar, Freeing
<1>9. QED
  BY <1>6, <1>7, <1>8

(* The steps that free: every thread of a started system has been joined.  *)
LEMMA DeleteModuleStep == IInv /\ DeleteModule => IInv'
<1> SUFFICES ASSUME IInv, DeleteModule PROVE IInv'
  OBVIOUS
<1> USE DEF IInv
<1> DEFINE m == EndOrder[k]
<1>1. k \in Nat \ {0} /\ k <= Len(EndOrder) /\ m \in Modules /\ phase = "delete" /\ appUp
  BY AtModule DEF DeleteModule
<1>2. \/ phase' = "destroy" /\ k' = k
      \/ k < Len(EndOrder) /\ k' = k + 1 /\ phase' = "delete"
      \/ k' = 1 /\ phase' = "bus_delete"
  <2>1. (phase' = "destroy" /\ UNCHANGED k) \/ NextOf(EndOrder, "bus_delete")
    BY DEF DeleteModule
  <2>2. QED
    BY <1>1, <2>1, NextOfLoop
<1>3. queue' = [queue EXCEPT ![m] = "deleted"]
      /\ UNCHANGED <<appUp, refused, hal, bus, inbox, thread, sources>>
  BY DEF DeleteModule
<1>4. k' \in 1 .. Len(Drivers) + Len(InitOrder) /\ k' <= Len(InitOrder)
  BY <1>1, <1>2, Lengths
<1>5. queue' \in [Modules -> {"none", "open", "deleted"}]
  BY <1>1, <1>3 DEF TypeOK
<1>6. TypeOK'
  BY <1>2, <1>3, <1>4, <1>5 DEF TypeOK, Phases, sources
<1>7. IndexInRange' /\ UpAfterInit' /\ BroughtUp' /\ JoinedSoFar'
  BY <1>1, <1>2, <1>3, <1>4 DEF IndexInRange, UpAfterInit, BroughtUp, JoinedSoFar, Starting,
                                Serving, Freeing
<1>8. QED
  BY <1>6, <1>7

(* The timer of a module goes after its queue; its thread has ended.       *)
LEMMA DestroyTimerStep == IInv /\ DestroyTimer => IInv'
<1> SUFFICES ASSUME IInv, DestroyTimer PROVE IInv'
  OBVIOUS
<1> USE DEF IInv
<1> DEFINE m == EndOrder[k]
<1>1. k \in Nat \ {0} /\ k <= Len(EndOrder) /\ m \in Modules /\ phase = "destroy" /\ appUp
  BY AtModule DEF DestroyTimer
<1>2. \/ k < Len(EndOrder) /\ k' = k + 1 /\ phase' = "delete"
      \/ k' = 1 /\ phase' = "bus_delete"
  BY <1>1 DEF DestroyTimer, GoTo
<1>3. timer' = [timer EXCEPT ![m] = "gone"]
      /\ UNCHANGED <<appUp, refused, resources, inbox, thread, late, uart>>
  BY DEF DestroyTimer
<1>4. k' \in 1 .. Len(Drivers) + Len(InitOrder) /\ k' <= Len(InitOrder)
  BY <1>1, <1>2, Lengths
<1>5. timer' \in [Modules -> {"none", "idle", "armed", "gone"}]
  BY <1>1, <1>3 DEF TypeOK
<1>6. TypeOK'
  BY <1>2, <1>3, <1>4, <1>5 DEF TypeOK, Phases, resources
<1>7. IndexInRange' /\ UpAfterInit' /\ BroughtUp' /\ JoinedSoFar'
  BY <1>1, <1>2, <1>3, <1>4 DEF IndexInRange, UpAfterInit, BroughtUp, JoinedSoFar, Starting,
                                Serving, Freeing, resources
<1>8. QED
  BY <1>6, <1>7

(* The bus goes when no thread is left, or when app_up was never set.      *)
LEMMA BusDeleteStep == IInv /\ BusDelete => IInv'
<1> SUFFICES ASSUME IInv, BusDelete PROVE IInv'
  OBVIOUS
<1> USE DEF IInv, BusDelete, GoTo
<1>1. k' \in 1 .. Len(Drivers) + Len(InitOrder) /\ k' <= Len(Drivers)
  BY Lengths
<1>2. TypeOK'
  BY <1>1 DEF TypeOK, Phases, sources
<1>3. IndexInRange' /\ UpAfterInit' /\ BroughtUp' /\ JoinedSoFar'
  BY <1>1 DEF IndexInRange, UpAfterInit, BroughtUp, JoinedSoFar, Starting, Serving, Freeing
<1>4. QED
  BY <1>2, <1>3

(* So do the drivers.                                                      *)
LEMMA HalCleanupStep == IInv /\ HalCleanup => IInv'
<1> SUFFICES ASSUME IInv, HalCleanup PROVE IInv'
  OBVIOUS
<1> USE DEF IInv
<1> DEFINE next == IF appUp THEN "freed" ELSE "null"
<1>1. k \in Nat \ {0} /\ k <= Len(Drivers) /\ phase = "hal_cleanup"
  BY Lengths DEF TypeOK, IndexInRange, HalCleanup
<1>2. \/ k < Len(Drivers) /\ k' = k + 1 /\ phase' = "hal_cleanup"
      \/ k' = 1 /\ phase' = next
  BY <1>1, Lengths, NextOfLoop DEF HalCleanup
<1>3. k' \in 1 .. Len(Drivers) + Len(InitOrder) /\ k' <= Len(Drivers)
  BY <1>1, <1>2, Lengths
<1>4. /\ hal' = hal \ {Drivers[k]}
      /\ uart' \in {{}, uart}
      /\ UNCHANGED <<appUp, refused, bus, queue, inbox, thread, timer, late>>
  BY DEF HalCleanup
<1>5. TypeOK'
  BY <1>2, <1>3, <1>4 DEF TypeOK, Phases
<1>6. IndexInRange' /\ UpAfterInit'
  BY <1>1, <1>2, <1>3, <1>4 DEF IndexInRange, UpAfterInit, Starting, Serving
<1>7. BroughtUp' /\ JoinedSoFar'
  BY <1>1, <1>2, <1>4 DEF BroughtUp, JoinedSoFar, Serving, Freeing
<1>8. QED
  BY <1>5, <1>6, <1>7

-----------------------------------------------------------------------------
(* The steps of the modules, the timers and the UART.                      *)

LEMMA UartType ==
  ASSUME NEW m \in Modules, IInv, MayStartUart(m)
  PROVE  uart' \subseteq UartUsers
BY DEF IInv, TypeOK, MayStartUart

(* A thread begins, with its timer or in ERROR.                            *)
LEMMA BeginStep == ASSUME NEW m \in Modules, IInv, Begin(m) PROVE IInv'
<1>1. /\ thread[m] = "created"
      /\ thread' = [thread EXCEPT ![m] = "running"]
      /\ UNCHANGED <<bridgeVars, resources, inbox, late>>
  BY DEF Begin
<1>2. \A n \in Modules : thread[n] = "ended" => thread'[n] = "ended"
  BY <1>1 DEF IInv, TypeOK
<1>3. timer' \in [Modules -> {"none", "idle", "armed", "gone"}] /\ uart' \subseteq UartUsers
  BY UartType DEF Begin, IInv, TypeOK
<1>4. TypeOK'
  BY <1>1, <1>3 DEF IInv, TypeOK, bridgeVars, resources
<1>5. QED
  BY <1>1, <1>2, <1>4, BridgeUnmoved DEF IInv

(* A thread takes END and never comes back.                                *)
LEMMA EndThreadStep == ASSUME NEW m \in Modules, IInv, EndThread(m) PROVE IInv'
<1>1. /\ thread' = [thread EXCEPT ![m] = "ended"]
      /\ inbox[m] # <<>> /\ inbox' = [inbox EXCEPT ![m] = Tail(@)]
      /\ UNCHANGED <<bridgeVars, resources, sources>>
  BY DEF EndThread
<1>2. \A n \in Modules : thread[n] = "ended" => thread'[n] = "ended"
  BY <1>1 DEF IInv, TypeOK
<1>3. /\ inbox' \in [Modules -> Seq(Events)]
      /\ \A n \in Modules : Len(inbox'[n]) <= QueueCapacity
  BY <1>1, TakeType DEF IInv, TypeOK, Events
<1>4. TypeOK'
  BY <1>1, <1>3 DEF IInv, TypeOK, Events, bridgeVars, resources, sources
<1>5. QED
  BY <1>1, <1>2, <1>4, BridgeUnmoved DEF IInv

(* The scheduler publishes into the queues of others, within their         *)
(* capacity.                                                               *)
LEMMA HandleSchedulerStep == ASSUME IInv, HandleScheduler PROVE IInv'
<1> DEFINE rest == [inbox EXCEPT ![Scheduler] = Tail(@)]
<1>1. inbox[Scheduler] # <<>> /\ UNCHANGED <<bridgeVars, resources, thread, late, uart>>
  BY DEF HandleScheduler
<1>2. rest \in [Modules -> Seq(Events)] /\ \A n \in Modules : Len(rest[n]) <= QueueCapacity
  BY <1>1, TakeType, SchedulerIsModule DEF IInv, TypeOK, Events
<1>3. timer' \in [Modules -> {"none", "idle", "armed", "gone"}]
  BY SchedulerIsModule DEF HandleScheduler, IInv, TypeOK
<1>4. /\ inbox' \in [Modules -> Seq(Events)]
      /\ \A n \in Modules : Len(inbox'[n]) <= QueueCapacity
  <2>1. CASE inbox' = rest
    BY <1>2, <2>1
  <2>2. ASSUME NEW m \in Modules \ {Scheduler}, ~Full(m),
               inbox' = [rest EXCEPT ![m] = Append(@, "EVENT")]
        PROVE  /\ inbox' \in [Modules -> Seq(Events)]
               /\ \A n \in Modules : Len(inbox'[n]) <= QueueCapacity
    <3>1. rest[m] = inbox[m] /\ inbox[m] \in Seq(Events) /\ Len(inbox[m]) < QueueCapacity
      BY <2>2, LifecycleAssumption DEF Full, IInv, TypeOK, Events
    <3>2. Append(rest[m], "EVENT") \in Seq(Events) /\ Len(Append(rest[m], "EVENT")) <= QueueCapacity
      BY <3>1, LifecycleAssumption DEF Events
    <3>3. QED
      BY <1>2, <2>2, <3>2
  <2>3. \/ inbox' = rest
        \/ \E m \in Modules \ {Scheduler} :
             ~Full(m) /\ inbox' = [rest EXCEPT ![m] = Append(@, "EVENT")]
    BY DEF HandleScheduler
  <2>4. QED
    BY <2>1, <2>2, <2>3
<1>5. TypeOK'
  BY <1>1, <1>3, <1>4 DEF IInv, TypeOK, Events, bridgeVars, resources
<1>6. QED
  BY <1>1, <1>5, BridgeUnmoved DEF IInv

(* Another module handles an event.                                        *)
LEMMA HandleStep == ASSUME NEW m \in Modules, IInv, Handle(m) PROVE IInv'
<1>1. /\ inbox[m] # <<>> /\ inbox' = [inbox EXCEPT ![m] = Tail(@)]
      /\ UNCHANGED <<bridgeVars, resources, thread, late>>
  BY DEF Handle
<1>2. /\ inbox' \in [Modules -> Seq(Events)]
      /\ \A n \in Modules : Len(inbox'[n]) <= QueueCapacity
  BY <1>1, TakeType DEF IInv, TypeOK, Events
<1>3. timer' \in [Modules -> {"none", "idle", "armed", "gone"}] /\ uart' \subseteq UartUsers
  BY UartType DEF Handle, IInv, TypeOK
<1>4. TypeOK'
  BY <1>1, <1>2, <1>3 DEF IInv, TypeOK, Events, bridgeVars, resources
<1>5. QED
  BY <1>1, <1>4, BridgeUnmoved DEF IInv

(* An expiration leaves a callback to run.                                 *)
LEMMA TimerExpiresStep == ASSUME NEW m \in Timed, IInv, TimerExpires(m) PROVE IInv'
<1>1. /\ late' = late \cup {m}
      /\ timer' = IF m = Scheduler THEN timer ELSE [timer EXCEPT ![m] = "idle"]
      /\ UNCHANGED <<bridgeVars, resources, inbox, thread, uart>>
  BY DEF TimerExpires
<1>2. TypeOK'
  BY <1>1, SchedulerIsModule DEF IInv, TypeOK, bridgeVars, resources
<1>3. QED
  BY <1>1, <1>2, BridgeUnmoved DEF IInv

(* A callback of a timer or of the UART posts, if there is a queue.        *)
LEMMA CallBackStep ==
  ASSUME NEW m \in Modules, IInv, CallBack(m), late' \subseteq late, uart' \subseteq uart,
         UNCHANGED <<bridgeVars, resources, thread, timer>>
  PROVE  IInv'
<1>1. /\ inbox' \in [Modules -> Seq(Events)]
      /\ \A n \in Modules : Len(inbox'[n]) <= QueueCapacity
  BY PostType DEF CallBack, IInv, TypeOK, Events
<1>2. TypeOK'
  BY <1>1 DEF IInv, TypeOK, Events, bridgeVars, resources
<1>3. QED
  BY <1>2, BridgeUnmoved DEF IInv

-----------------------------------------------------------------------------
(* Every step keeps the invariant.                                         *)
LEMMA Invariance == IInv /\ [Next]_vars => IInv'
<1> SUFFICES ASSUME IInv, [Next]_vars PROVE IInv'
  OBVIOUS
<1>1. CASE Bridge \/ Stop
  BY <1>1, HalInitStep, BusInitStep, AppInitStep, PublishStartStep, StopStep, EndModuleStep,
     JoinModuleStep, DeleteModuleStep, DestroyTimerStep, BusDeleteStep, HalCleanupStep DEF Bridge
<1>2. ASSUME NEW m \in Modules, Thread(m) PROVE IInv'
  BY <1>2, BeginStep, EndThreadStep, HandleStep, HandleSchedulerStep DEF Thread
<1>3. ASSUME NEW m \in Timed, TimerExpires(m) PROVE IInv'
  BY <1>3, TimerExpiresStep
<1>4. ASSUME NEW m \in Timed, TimeoutHandler(m) \/ UartCompletes(m) PROVE IInv'
  <2>1. /\ CallBack(m) /\ late' \subseteq late /\ uart' \subseteq uart
        /\ UNCHANGED <<bridgeVars, resources, thread, timer>>
    BY <1>4 DEF TimeoutHandler, UartCompletes
  <2>2. QED
    BY <2>1, CallBackStep, SchedulerIsModule
<1>5. CASE UNCHANGED vars
  BY <1>5 DEF vars, bridgeVars, resources, sources, IInv, TypeOK, IndexInRange, UpAfterInit,
              BroughtUp, JoinedSoFar
<1>6. QED
  BY <1>1, <1>2, <1>3, <1>4, <1>5, SchedulerIsModule DEF Next

(* Every step of a start and a stop keeps the types: in particular the     *)
(* loops of hal.c, app.c and ddl.c never leave their arrays.               *)
THEOREM TypeCorrect == Spec => []TypeOK
<1>1. IInv => TypeOK
  BY DEF IInv
<1>2. QED
  BY <1>1, Initial, Invariance, PTL DEF Spec

(* ddl_bridge_stop, app_end, app_join and app_delete in any order of the   *)
(* modules, with ENDs refused by full queues (app.c:137): while a thread   *)
(* of a started system is alive, every queue, the bus and every driver is  *)
(* still there.                                                            *)
THEOREM ResourcesOutlive == Spec => []ResourcesOutliveThreads
<1>1. ASSUME IInv PROVE ResourcesOutliveThreads
  <2>1. SUFFICES ASSUME appUp, NEW m \in Modules, Alive(m)
                 PROVE  phase \in Serving
    BY <1>1 DEF IInv, BroughtUp, ResourcesOutliveThreads, Serving
  <2>2. thread[m] # "ended"
    BY <2>1 DEF Alive
  <2>3. phase \notin Freeing
    BY <1>1, <2>1, <2>2 DEF IInv, JoinedSoFar
  <2>4. phase \notin Starting \cup {"null"}
    BY <1>1, <2>1 DEF IInv, UpAfterInit
  <2>5. QED
    BY <1>1, <2>3, <2>4 DEF IInv, TypeOK, Phases, Starting, Serving, Freeing
<1>2. QED
  BY <1>1, Initial, Invariance, PTL DEF Spec

-----------------------------------------------------------------------------
(* The callbacks.  app_delete destroys the timer of every module that has  *)
(* one before it comes to the bus, and by then no thread is left to create *)
(* one, to arm one, or to start a UART operation.                          *)

TimersGone ==
  /\ phase \in {"delete", "destroy"} =>
       \A i \in 1 .. k - 1 : EndOrder[i] \in Timed => timer[EndOrder[i]] = "gone"
  /\ phase \in {"bus_delete", "hal_cleanup", "freed"} /\ appUp =>
       \A m \in Timed : timer[m] = "gone"

(* No thread acts while the bridge frees a started system.                 *)
LEMMA NoThreadActs ==
  ASSUME IInv, phase \in Freeing, appUp, NEW m \in Modules
  PROVE  ~Thread(m)
<1>1. thread[m] = "ended" /\ thread[Scheduler] = "ended"
  BY SchedulerIsModule DEF IInv, JoinedSoFar
<1>2. QED
  BY <1>1 DEF Thread, Begin, EndThread, Handle, HandleScheduler

(* A loop over the modules that has come to its end has seen them all.     *)
LEMMA AllSeen ==
  ASSUME NEW S, \A i \in 1 .. Len(EndOrder) : EndOrder[i] \in Timed => EndOrder[i] \in S
  PROVE  \A m \in Timed : m \in S
<1> SUFFICES ASSUME NEW m \in Timed PROVE m \in S
  OBVIOUS
<1>1. m \in Modules
  BY SchedulerIsModule
<1>2. PICK i \in 1 .. Len(EndOrder) : m = EndOrder[i]
  BY <1>1, Orders
<1>3. QED
  BY <1>2

LEMMA TimersGoneStep == IInv /\ TimersGone /\ [Next]_vars => TimersGone'
<1> SUFFICES ASSUME IInv, TimersGone, [Next]_vars PROVE TimersGone'
  OBVIOUS
<1>0. /\ k \in Nat \ {0} /\ Len(EndOrder) \in Nat \ {0}
      /\ timer \in [Modules -> {"none", "idle", "armed", "gone"}]
      /\ phase \in {"delete", "destroy"} => appUp /\ k <= Len(EndOrder)
  BY Lengths DEF IInv, TypeOK, UpAfterInit, IndexInRange
<1>1. CASE HalInit \/ BusInit \/ PublishStart \/ Stop \/ EndModule
  BY <1>1 DEF HalInit, BusInit, PublishStart, Stop, EndModule, NextOf, GoTo, TimersGone, IInv,
              UpAfterInit, Starting, Serving
<1>2. CASE AppInit
  BY <1>2 DEF AppInit, NextOf, GoTo, TimersGone, IInv, UpAfterInit, Starting
<1>3. CASE JoinModule
  BY <1>3 DEF JoinModule, NextOf, GoTo, TimersGone
<1>4. CASE DeleteModule
  <2>1. phase = "delete" /\ UNCHANGED timer
    BY <1>4 DEF DeleteModule, sources
  <2>2. CASE EndOrder[k] \in Timed
    BY <1>4, <2>1, <2>2 DEF DeleteModule, TimersGone
  <2>3. CASE EndOrder[k] \notin Timed
    <3>1. \A i \in 1 .. k : EndOrder[i] \in Timed => timer[EndOrder[i]] = "gone"
      BY <1>0, <2>1, <2>3 DEF TimersGone
    <3>2. CASE k < Len(EndOrder)
      BY <1>0, <1>4, <2>1, <2>3, <3>1, <3>2 DEF DeleteModule, NextOf, TimersGone
    <3>3. CASE ~(k < Len(EndOrder))
      <4> DEFINE Gone == {m \in Timed : timer[m] = "gone"}
      <4>0. k = Len(EndOrder)
        BY <1>0, <2>1, <3>3
      <4>1. \A i \in 1 .. Len(EndOrder) : EndOrder[i] \in Timed => EndOrder[i] \in Gone
        BY <4>0, <3>1
      <4> HIDE DEF Gone
      <4>t. \A m \in Timed : m \in Gone
        BY <4>1, AllSeen
      <4>2. \A m \in Timed : timer[m] = "gone"
        BY <4>t DEF Gone
      <4>3. phase' = "bus_delete"
        BY <1>4, <2>3, <3>3 DEF DeleteModule, NextOf, GoTo
      <4>4. QED
        BY <2>1, <4>2, <4>3 DEF TimersGone
    <3>4. QED
      BY <3>2, <3>3
  <2>4. QED
    BY <2>2, <2>3
<1>5. CASE DestroyTimer
  <2>1. phase = "destroy" /\ timer' = [timer EXCEPT ![EndOrder[k]] = "gone"]
    BY <1>5 DEF DestroyTimer
  <2>2. \A i \in 1 .. k : EndOrder[i] \in Timed => timer'[EndOrder[i]] = "gone"
    <3>1. SUFFICES ASSUME NEW i \in 1 .. k, EndOrder[i] \in Timed
                   PROVE  timer'[EndOrder[i]] = "gone"
      OBVIOUS
    <3>2. EndOrder[i] \in Modules
      BY <3>1, SchedulerIsModule
    <3>3. CASE i = k
      BY <1>0, <2>1, <3>2, <3>3
    <3>4. CASE i # k
      <4>1. i \in 1 .. k - 1
        BY <1>0, <3>4
      <4>2. timer[EndOrder[i]] = "gone"
        BY <2>1, <3>1, <4>1 DEF TimersGone
      <4>3. QED
        BY <1>0, <2>1, <3>2, <4>2
    <3>5. QED
      BY <3>3, <3>4
  <2>3. CASE k < Len(EndOrder)
    BY <1>0, <1>5, <2>1, <2>2, <2>3 DEF DestroyTimer, TimersGone
  <2>4. CASE ~(k < Len(EndOrder))
    <3> DEFINE Gone == {m \in Timed : timer'[m] = "gone"}
    <3>0. k = Len(EndOrder)
      BY <1>0, <2>1, <2>4
    <3>1. \A i \in 1 .. Len(EndOrder) : EndOrder[i] \in Timed => EndOrder[i] \in Gone
      BY <3>0, <2>2
    <3> HIDE DEF Gone
    <3>t. \A m \in Timed : m \in Gone
      BY <3>1, AllSeen
    <3>2. \A m \in Timed : timer'[m] = "gone"
      BY <3>t DEF Gone
    <3>3. phase' = "bus_delete"
      BY <1>5, <2>4 DEF DestroyTimer, GoTo
    <3>4. QED
      BY <3>2, <3>3 DEF TimersGone
  <2>5. QED
    BY <2>3, <2>4
<1>6. CASE BusDelete \/ HalCleanup
  BY <1>6 DEF BusDelete, HalCleanup, NextOf, GoTo, TimersGone, sources
<1>7. ASSUME NEW m \in Modules, Thread(m) PROVE TimersGone'
  <2>1. UNCHANGED <<phase, k, appUp>>
    BY <1>7 DEF Thread, Begin, EndThread, Handle, HandleScheduler, bridgeVars
  <2>2. ~(phase \in Freeing /\ appUp)
    BY <1>7, NoThreadActs
  <2>3. QED
    BY <1>0, <2>1, <2>2 DEF TimersGone, Freeing
<1>8. ASSUME NEW m \in Timed, TimerExpires(m) PROVE TimersGone'
  <2>1. /\ UNCHANGED <<phase, k, appUp>>
        /\ timer[m] = "armed"
        /\ timer' = timer \/ timer' = [timer EXCEPT ![m] = "idle"]
    BY <1>8 DEF TimerExpires, bridgeVars
  <2>2. \A n \in Modules : timer[n] = "gone" => timer'[n] = "gone"
    BY <1>0, <2>1
  <2>3. QED
    BY <1>0, <2>1, <2>2, Orders, SchedulerIsModule DEF TimersGone
<1>9. ASSUME NEW m \in Timed, TimeoutHandler(m) \/ UartCompletes(m) PROVE TimersGone'
  BY <1>9 DEF TimeoutHandler, UartCompletes, bridgeVars, TimersGone
<1>10. CASE UNCHANGED vars
  BY <1>10 DEF vars, bridgeVars, sources, TimersGone
<1>11. QED
  BY <1>1, <1>2, <1>3, <1>4, <1>5, <1>6, <1>7, <1>8, <1>9, <1>10, SchedulerIsModule
     DEF Next, Bridge

(* Once every module is deleted no callback is added to those under way,   *)
(* although END disarms no timer and cancels no UART operation.            *)
THEOREM CallbacksStop == Spec => NoNewCallbacks
<1>1. ASSUME IInv, TimersGone, [Next]_vars,
             appUp, phase \in {"bus_delete", "hal_cleanup", "freed"}
      PROVE  late' \subseteq late /\ uart' \subseteq uart
  <2>1. phase \in Freeing
    BY <1>1 DEF Freeing
  <2>2. CASE Bridge \/ Stop
    BY <1>1, <2>2 DEF Bridge, Stop, HalInit, BusInit, AppInit, PublishStart, EndModule,
       JoinModule, DeleteModule, DestroyTimer, BusDelete, HalCleanup, sources
  <2>3. ASSUME NEW m \in Modules, Thread(m) PROVE FALSE
    BY <1>1, <2>1, <2>3, NoThreadActs
  <2>4. ASSUME NEW m \in Timed, TimerExpires(m) PROVE FALSE
    BY <1>1, <2>4 DEF TimerExpires, TimersGone
  <2>5. ASSUME NEW m \in Timed, TimeoutHandler(m) \/ UartCompletes(m)
        PROVE  late' \subseteq late /\ uart' \subseteq uart
    BY <2>5 DEF TimeoutHandler, UartCompletes
  <2>6. CASE UNCHANGED vars
    BY <2>6 DEF vars, sources
  <2>7. QED
    BY <1>1, <2>2, <2>3, <2>4, <2>5, <2>6, SchedulerIsModule DEF Next
<1>2. IInv /\ TimersGone /\ [Next]_vars =>
        [appUp /\ phase \in {"bus_delete", "hal_cleanup", "freed"} =>
           late' \subseteq late /\ uart' \subseteq uart]_vars
  BY <1>1
<1>3. Init => TimersGone
  BY DEF Init, TimersGone
<1>4. QED
  BY <1>2, <1>3, Initial, Invariance, TimersGoneStep, PTL DEF Spec, NoNewCallbacks
=============================================================================
