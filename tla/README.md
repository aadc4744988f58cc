# SnipeIt: a verification project

TLA+ specifications of the SnipeIt firmware (`src/src`) and of the streaming
server it runs in (`src/pi-streaming`), the TLC runs that check them on small
instances, and proofs, checked by TLAPS, of what matters most for every
instance.

Contents: 1 the system, 2 what is hard in it, 3 the modules and the code they
model, 4 the runs, 5 fairness, 6 the proofs, 7 disagreements with the
documentation and other observations, 8 what is not modelled, 9 the plan.

## 1. The system

A Raspberry Pi carries a distance sensor and a GPS receiver (both on UARTs), a
temperature and humidity sensor (one GPIO line), two servos (I2C) and a camera.
The firmware reads the sensors and moves the servos; the streaming server is one
process that contains the firmware and, besides, serves an Android app over a
WebSocket, runs FFmpeg and mediaMTX as children, and exchanges messages with a
Python detector over a Unix socket.

    pi-streaming: main, websocket_server, unix_socket, process_manager, config
    main.c / ddl_bridge.c
      app    scheduler, broadcaster                     active objects
      ddl    distance, servo, temperature_humidity, gps active objects
      util   event_bus, active_object, fsm, queue, log
      osal   threads, mutexes, condition variables, timers
      hal    gpio, uart (io_uring), i2c

An **active object** is a thread with a bounded queue of events and a state
machine. A post to a full queue is refused and hardly any caller looks. Timers
run their handler on a thread of its own (`SIGEV_THREAD`), UART completions on
the one completion thread; both post events.

| Component | State | Operations | What makes it correct |
|---|---|---|---|
| `util/queue` | ring, head, tail, size, mutex, condition | push (refuses when full), pop (waits when empty) | a FIFO: nothing lost, doubled or reordered; no consumer asleep over an event |
| `util/active_object` | thread, queue, FSM | init, post, end, join, delete | the thread ends after END and nothing it uses is freed before it has been joined |
| `util/fsm` | current state | send event, transition (exit, then entry) | entry and exit actions of a transition belong to one handler |
| `util/event_bus` | up to 32 subscriptions, one mutex | init, subscribe, publish, delete | a publish reaches the queue of every matching subscriber that has room |
| `osal` | none of its own | mutexes, conditions, threads, timers | |
| `hal/uart` | per device 4 operation slots, one io_uring, completion thread | read, write, abort, cleanup | a slot is freed by its own completion; callbacks are called for their own operation; cleanup ends |
| `hal/i2c`, `hal/gpio` | file descriptors, pins | transfers; read, write, direction | |
| `ddl/distance` | FSM INIT, IDLE, READ, UPDATE, ERROR; retry, last sensor time, one-shot timer, one static answer buffer | READ event; TIMEOUT and FRAME_RECEIVED from its timer and the UART | every read ends; an answer is accepted once |
| `ddl/gps` | the same, and the position in the configuration sequence and one transmit buffer | the same, and CONFIGURED | reads only a fully configured receiver; becomes ready |
| `ddl/servo` | FSM INIT, IDLE, SCAN, NOISE_SCAN, TARGET_LOCK, ERROR; registers of the PWM chip; scan angle and direction; target registry under a mutex; one-shot timer | set-up; DIRECTIONS, NOISE_DETECTED, LOCK, SCAN, ROTATION_TIMEOUT; set target from any thread | the chip is set up before it drives; no angle out of range; all positions scanned; no mixed target; a target that is set is followed; the rotation is waited for |
| `ddl/temperature_humidity` | FSM, retry, time of the last good read | READ | wrong bits are not published; a valid frame has a bounded age |
| `app/scheduler` | FSM IDLE, RUN; tick; six slots; repeating timer | START, STOP, TICK | the slots are served in turn, for ever |
| `app/broadcaster` | source and destination frame | UPDATE | the snapshot is made of measured values of bounded age |
| `app`, `ddl`, `hal` | tables of modules and drivers | init, post, end, join, delete, cleanup | bring-up and shutdown in an order that leaves nothing running without what it uses |
| `pi-streaming/ddl_bridge` | what is up, time of the last message | start, tick, stop | cleans up after itself on failure; stops |
| `websocket_server` | one registered client, a ring of 256 messages | connect (evicts an older client), close, writeable, send | messages of a session go to its client, in order |
| `unix_socket`, `ipc_client.py` | connection, receive buffer | accept, send start or stop, receive a line | framing: every line delivered once and whole; neither end blocks the other for good |
| `process_manager` | pids and flags of two children | start, stop, check | the flags follow the processes; no child is forgotten |
| `pi-streaming/main` | streaming, app and detector connected | start stream, connect, disconnect, main loop, shutdown | what is streamed has its peers; a START is heard; a signal ends it |
| `person_streamer.py` | in a session or not | START, STOP, end of the file | |
| Android client | flows of status, frames and detections; tracker | connect, messages, pacer, staleness check, disconnect | what is shown belongs to the current connection |

How they interact. The scheduler's timer posts TICK to it every 333 ms; each
TICK publishes the event of one of six slots through the bus: slot 0 READ to
distance, 1 DIRECTIONS to the servos, 2 READ to temperature_humidity, 3 READ to
gps, 4 UPDATE to the broadcaster, 5 empty; a cycle takes 1998 ms. The sensors
write their frame of one shared structure in place, without a lock; the
broadcaster copies it to the snapshot, without a lock; the main loop of the
server reads the snapshot in `ddl_bridge_tick` and queues it for the app. The
same loop receives detections from the detector, queues them for the app, calls
libwebsockets, which calls back `ws_callback` and through it the app's connect
and disconnect, and looks after the children. With a camera the stream is
started once and stays; a file is streamed while an app is connected.
`main.c` publishes START and never ends the modules; only `ddl_bridge_stop`
does. STOP, LOCK, SCAN and NOISE_DETECTED are published by nothing in the
repository yet: the specifications let a user of `app_post`, or of the bus,
post them at any moment.

## 2. What is hard in it

`PROJECT.json` lists the hazards one by one with their lines. The kinds:

* **Stale events.** Events carry no attempt number. A TIMEOUT, FRAME_RECEIVED,
  TICK or ROTATION_TIMEOUT may be queued, or its notification thread may not
  have posted it yet, when the state machine has moved on.
* **Refused events.** The queues hold four events. What if the refused event is
  the only one that ends a state?
* **Shared buffers and slots.** One answer buffer per sensor, one transmit
  buffer for the configuration, operation slots reused at once, submission
  entries that keep the data of their last use, frames copied without a lock.
* **Partial failure.** Two I2C transfers of which one fails, a chip set up
  halfway, a configuration write that fails, initialisation that fails halfway,
  an END that is refused, each step of starting a stream.
* **Order of shutdown.** Queues, timers, the bus, the UART and the threads that
  use all of them.
* **Time.** A gate of 2000 ms on events every 1998 ms; a host that is preempted
  while it measures microseconds.
* **Peers of the server.** A client evicted by a newer one and still called
  back, full rings, lines split anywhere, two ends that both block in a send,
  children and a detector that exit at any moment, a detector that hears START
  only between two sessions.

## 3. The modules and the code they model

Every definition that models code is listed with its lines in the `map` of
`PROJECT.json`.

### The firmware

**`EventQueue`** (`util/queue/queue.c`). One step per lock, check of the size,
update of the ring, wait, wake-up and signal, so that every interleaving of any
number of threads is there; `pc` is where a thread is. `osal_cond_wait` gives up
the mutex and waits in one step, may wake up spuriously and takes the mutex
again. A signal wakes one waiter, or nobody. **`BoundedFifo`** is what callers
rely on: a sequence, accepted and refused pushes, delivered pops.
`EventQueue` states its refinement with `INSTANCE BoundedFifo WITH queue <- ...`:
the abstract queue is the ring read from `head`.

**`SensorRead`** (`ddl/distance/distance_fsm.c`). The actions `IdleRead`,
`ReadFrameReceived`, `ReadTimeout`, `UpdateValid`, `UpdateInvalid`, `UpdateCopy`
and `Ignore` are the handlers of the object's thread; `UPDATE` and `COPY` are
two points inside one handler, apart because the kernel may write `resp_frame`
between the check and the copy. `TimerExpires` and `TimeoutHandler` are the
expiration and the notification thread; `CompletionThread` calls
`uart_rx_complete_handler`; `WriteCompletes`, `ReadCompletes`, `ReadFails` are
the kernel, `SensorAnswers` the sensor. An answer has two halves (a read ends
when some bytes are there) that may arrive garbled and are joined wrongly; it
is valid exactly when both halves come from one answer and its time differs from
the last accepted one, which stands for header, checksum and `system_time`. An
abort cancels some operation of the device, or none, and from then on a
completion may do what another one should have done: `mixed`, the effect that
`HalUart` explains.

**`GpsSensor`** (`ddl/gps/gps_fsm.c`) EXTENDS `SensorRead` and adds the states
INIT and ERROR: one buffer, one configuration write at a time, CONFIGURED posted
by the completion thread when the write transferred anything, writes that are
refused or fail, READ requests that arrive meanwhile and are dropped; without a
timer the object stays in ERROR. The states IDLE, READ and UPDATE of the two
sensors have the same structure; what differs (the frames and the constants) is
abstract in `SensorRead`.

**`Scheduler`** (`app/scheduler`, `util/event_bus`). The handlers of IDLE and
RUN; a publish takes `bus_mutex` (`PublishLock`), posts and releases it
(`Publish`). `main` publishes START through the same mutex. `late` counts
expirations whose handler has not posted. `last` is the slot the current run has
published last.

**`HalUart`** (`hal/uart/hal_uart.c`). `Start` is a read or write under
`uart_mutex`: the first free slot, the next submission entry, its user data, the
submission, which may fail and then leaves the entry for the next one;
`StartWithoutEntry` is the refusal when no entry is left, which has stored its
callback in the slot by then.
`Abort` and `Cleanup` take an entry and set no user data, so it keeps what it had
(liburing, modelled from its use, does not clear it). `ThreadChecks` reads
`uart_running` without the mutex; `HandleCompletion` is the body of the loop.

**`Servo`** (`ddl/servo/servo_fsm.c`). INIT sets the PCA9685 up, one transfer
after another, from registers (`pca`) an earlier run may have left with any
contents; a transfer that fails ends in ERROR. `servo_init_angles`, on the entry
of IDLE, writes the target registry in three steps (`ResetHor`, `ResetVer`,
`EnterIdle`) without its mutex. `SetTargetHor`, `SetTargetVer` and `SetTargetSeq`
are the three assignments of `servo_fsm_set_target` under the mutex; it is admitted
from the moment the mutex is made (`MutexMade`), so it can race that reset. The
sequence number it stores is the one it has read, plus one (`setting.next`), and
`raced` remembers whether the reset wrote during the call that set the current
target. `TargetReadable` is the mutex seen from the FSM. The handlers of the four
working states follow. Angles are whole units; `ReadBack` is an angle computed from the PWM counts,
off by at most one unit. A transfer may fail: before the first servo, or
between the two.

**`Am2302`** (`temperature_humidity_fsm.c`, the read). The waveform is a
sequence of phases, the host a sequence of waits for a level; undisturbed,
wait *n* ends in phase *n*. `Delay` takes the host off the processor for any
number of phases, after which a wait may see a later phase, or a pulse may be
measured wrongly. Reading the level and taking its time are two steps at the fall
of a pulse (`ReadBitFall`, `ReadBitTime`): a delay between them makes this pulse
too long and the next one too short, so that two neighbouring bits may be wrong.
At a rise a delay between them shortens the same pulse as a delay after them. Bits, bytes, sign and sum are computed as in the code, for
bytes of `Width` bits; powers of two are the recursive function `TwoTo`.

**`TempHumidity`** (`temperature_humidity_fsm.c`, the FSM in time). Ticks; a READ
per cycle, the gate, reads that succeed or fail (any outcome of `Am2302`), three
attempts, the two fields of the frame written one after the other, their ages.
**`Snapshot`** (`app/broadcaster`) EXTENDS it with the copy: UPDATE once per
cycle, `valid`, humidity and temperature copied one by one while the owner writes.

**`Lifecycle`** (`ddl_bridge.c`, `app.c`, `ddl.c`, `hal.c`, `active_object.c`).
`phase` and `k` are where the bridge's thread is: which loop, which driver or
module. Each iteration is a step, so that the modules' threads, their timers and
the UART act between any two. A module's handler is abstract: it may arm or
disarm its timer, start a UART operation, and, in the scheduler, publish. An END
refused by a full queue ends `app_end`, as in the code. `DeleteModule` frees the
queue, `DestroyTimer` the timer after it. What a post to a freed queue does is
undefined; the model loses it. **`MCLifecycle`** and **`MCServo`** name the
instances.

### The streaming server

**`WsServer`** (`websocket_server.c`). Everything runs on one thread; the actions
are the callbacks of libwebsockets (external: which socket it calls when is free)
and `ws_send`. `requested` are the sockets a WRITEABLE callback is owed to,
`sock` tells an evicted socket from the registered one. **`LossySession`** is what
the rest of the server may rely on: one session at a time, its messages in order,
some lost, and its client sees none of another session. What an evicted client's
socket takes from the new session counts as lost there; that the old client sees it
is below what `LossySession` says (section 7). The refinement takes the ring, read
from `queue_tail`, for `pending`.

**`Ipc`** (`unix_socket.c`, `ipc_client.py`). Bytes: `SendBytes` moves any number
that fits into the socket, `RecvMessage` appends what there is to `recv_buffer`,
looks for a newline as `strchr` does (a NUL ends the search), copies at most
`BuffSize - 1` bytes and moves the rest to the front with the lengths the code
computes: a line that does not fit is returned cut. `Sendall` retries in place when
the socket is full; the detector's send gives up after its five seconds
(`SendFails`) and closes.

**`Streaming`** (`main.c`, `process_manager.c`, `config.c`, `person_streamer.py`)
EXTENDS `WsServer`. `phase` is where `main` is: the steps of the start, each of
which may fail, the four parts of the loop, the two ways to start a stream with
their retries, the shutdown. `Service` are the callbacks, which in the code run
inside `ws_service`: a connect, with the eviction of an older client, and a
disconnect call back into main.c in the same step. `ffmpeg` is the state of every
process FFmpeg may run in, `ffmpeg_pid` the one the process manager knows.
`Detector` reads commands, opens the FIFO, ends its session at the end of a file,
or dies.

### Composition

`SensorRead`, `Scheduler`, `Servo` and `Lifecycle` use a queue as the bounded FIFO
of `BoundedFifo`, which `EventQueue` is proved to implement. `GpsSensor` reuses
the actions of `SensorRead`, `Snapshot` those of `TempHumidity`, `Streaming` those
of `WsServer`; `Streaming` takes lines and commands as wholes, which `Ipc`
justifies, and the bridge's start as one step that succeeds or fails, which
`Lifecycle` has in detail. Properties of one module justify the environment of
another: `EverySlotServed` of `Scheduler` is why `Servo` may assume DIRECTIONS
again and again; `RequestEnds` of the sensors is why one queued READ per sensor is
enough (section 4); `SendallEnds` of `Ipc` is why a send to a detector that is
there returns in `Streaming`.

## 4. The runs

| Run | Question | Bounds |
|---|---|---|
| `event_queue` | Is the queue a FIFO, with one thread in the ring and no lost wake-up? | 2 producers, 2 consumers, 2 events, ring of 2 |
| `gps_sensor` | Is the receiver configured before it is read; can a read always end and does every request end; is no answer accepted twice? | 3 configuration messages, 1 failing write, queue 2, 2 attempts, 2 operations, 2 answers, 1 late expiration |
| `scheduler` | Are the slots served in turn and for ever? | 4 slots, one empty; queue 2; 2 late expirations |
| `hal_uart` | Can a slot leak, does a callback go astray before any abort or failure, does cleanup end? | 2 devices of 1 slot, 2 entries, 2 operations, 1 abort, 2 failing submissions |
| `servo` | Is the chip set up whenever it drives; are scanning, locking and turning right under any interleaving of targets; does the frame come to agree with the servos again? | any registers at the start, grid of 2 by 3, 2 targets, one off the grid, 2 calls, 1 failing transfer |
| `am2302` | Is a read that was delayed once, anywhere, ever wrong? | bytes of 2 bits, every measurement, 1 delay |
| `snapshot` | How old may a valid frame be, and a valid snapshot? | cycle 6, gate 7, 3 attempts of 1 tick, latency 1, copy 1 |
| `lifecycle` | Does anything running lose what it uses; does a stop end; does a callback begin after its module is gone? | 3 drivers, 4 modules, queues of 2 |
| `streaming` | Is there ever a second or a forgotten FFmpeg, a START nobody hears, a stream without its peers, a message stranded or out of its session; does a signal end the server? | 2 sockets, 2 messages, ring of 2, 2 processes, 2 tries, 2 commands |
| `ipc` | Are the lines returned in order and, if they fit, complete; do reception and `sendall` go on? | 3 lines of 1, 2 or 4 bytes, message buffer 3, receive buffer 6, socket 3, 1 command of room, 2 commands |
| `hal_uart_abort`, `bridge_cleanup` | section 7 | as `hal_uart` with 3 operations; as `lifecycle` |

Why the bounds are enough.

* *Queues of 2 instead of 4.* What matters is that a queue is empty, has room,
  or is full while something wants to post; 2 gives all of them and makes the full
  queue frequent. The proofs of section 6 hold for every capacity.
* *Two operations in flight* (`gps_sensor`): the write and the read of an attempt,
  or one of them and an operation an abort has left over, while the other is
  refused; the proofs about `SensorRead` are for every number. The submission
  entries of `hal_uart` are as many as the slots, not twice as many: they go round
  sooner, which only brings stale user data about sooner.
* *Two answers and two attempts*: a stale answer and a current one, a first try
  and a last one.
* *`MaxQueuedReads = 1`.* A READ comes every 1998 ms and a request takes at most
  three times 100 ms (distance) or 300 ms (gps), so at most one is queued. This is
  an assumption about time, and it matters: with as many READ requests as the
  queue has slots, the one TIMEOUT of a silent sensor could be refused and READ
  would never be left, and CONFIGURED could be refused and INIT never left.
  `ReadEndable` is proved from `MaxQueuedReads < QueueCapacity` for this reason.
  `MaxQueued = 1` in `servo` is the same assumption: a rotation takes 500 ms and
  DIRECTIONS come every 1998 ms; commands of a user would have to fill the queue
  within the rotation. The configuration itself is proved for any number of READ
  requests.
* *Late expirations*: one notification under way while the timer is armed again;
  two for the repeating timer.
* *Four slots*: two active neighbours, an empty one, and going round.
* *A grid of 2 by 3 and an off-grid target*: a row ends at both sides, the
  direction turns, the scan starts at 0 degrees outside the grid and resumes from
  an angle that is no multiple of the step. The two targets differ in both angles
  from each other, and each in at least one from the start, so that a mixture is
  seen; two calls are enough for one to race the reset and another to follow it.
* *Bytes of two bits*: all 240 measurements, sign and carry of the sum included.
  The properties are about missed phases and wrong bits, and a sum of four
  two-bit bytes is weaker than one of eight bits.
* *Ticks of `snapshot`*: the cycle is one tick shorter than the gate, as 1998 is
  to 2000; the starts of the first cycles of READ and UPDATE are arbitrary, and so
  is the distance between them. `Horizon` is beyond every age the properties tell
  apart.
* *Modules of `lifecycle`*: one with timer and UART, one with neither, the
  scheduler and the broadcaster: every kind there is, two per layer so that every
  loop has a middle.
* *Two sockets* (`streaming`): one client that is evicted and one that evicts it,
  and the first one again under the same socket. A ring of 2 overflows and goes
  round; `stream_ready` and `frame` are the messages main tells apart. Two
  processes are enough for a second FFmpeg to run beside the first. Two tries: a
  first and a last. Two commands of room: a STOP and a START unread.
* *Lines of `ipc`*: one that leaves room in the message buffer, one that just
  fits, one that does not; the receive buffer holds two of them and a part, so
  that it fills up, and the socket less than a line.

Deadlock is checked except where the system may stop: a read of the AM2302 that
has ended, a UART that has been cleaned up or has used its bounded operations up,
a bridge that has been stopped, a server that has exited, two ends of a socket
that have used their bounded lines and commands up.

## 5. Fairness

* `EventQueue`: a thread inside a call keeps running. Taking a contended mutex is
  strongly fair: it is held for a few instructions and used at the pace of
  devices. Nobody has to push or to start a pop.
* `GpsSensor`, `Servo`, `Scheduler`: the object's thread, the timer's expiration
  and the handler's thread run (weak fairness: each stays enabled until it does).
  The sensor never has to answer and the UART never has to complete a read; a
  configuration write completes, since a UART transmits by itself. `main` finishes
  the publish it has begun. `Servo` assumes DIRECTIONS again and again (strong
  fairness, since a full queue disables the post), which `Scheduler` provides, and
  that a setter finishes the assignments it has begun under the mutex.
  `FrameCatchesUp` is stated for behaviours that are in SCAN again and again.
* `HalUart`: the completion thread runs and the kernel ends cancellations and
  empty operations. A read of a silent device may stay for ever.
* `Lifecycle`: the bridge's thread and the modules' threads run. Nobody has to
  stop the bridge, no timer has to expire and no device to answer.
* `Streaming`: main's thread runs. `ws_service` returns, however many callbacks it
  finds to call (strong fairness, as callbacks come in between). A detector that is
  there reads its commands and opens what it was told to; it may die instead. No
  client has to connect or to be writeable, no child to exit or to stay, and no
  signal to come.
* `Ipc`: main's thread runs. The detector's send goes on while there is room and
  fails at its timeout when there is none; it reads its commands between two sends
  (strong fairness: a send in between disables it). It never has to send anything.
* `EverySlotServed` and `EveryPositionScanned` are stated for behaviours that stay
  in RUN, and in SCAN: a user who stops the scheduler for good is not a fault.

## 6. The proofs

All leaves are checked by TLAPS; no assumption is used beyond the ASSUMEs on the
constants, which say what the code's configuration guarantees and which TLC
evaluates on the instances, and the hypotheses of `NoWakeupLost`, `ReadEndable`,
`GpsReadEndable` and `NoiseScanEndable` named below.

**`EventQueueProofs`.** `IInv == TypeOK /\ MutexInv /\ RingInv` is inductive:
`RingInv` needs to know that the holder of the mutex is the only thread between
its check of the size and the update, which is `MutexInv`. `StepType`,
`StepMutex` and `StepRing` have one step per action; `QueueInvariant` follows. From
it, `QueueIsFifo == Spec => ImplementsFifo`: every step of the ring maps to a step
of `BoundedFifo` or to a stutter, for every capacity and any sets of threads.
`NoWakeupLost`, for any finite set of consumers: a consumer may sleep over events
only if somebody is on the way to each of them. `WakeupInv` counts: the consumers
that are past their wait, and the push that has not signalled yet, are at least
as many as the events, unless nobody sleeps.

**`SensorProofs`.** Of `SensorRead`: `TypeCorrect`: no more operations under way than
`MaxInFlight`, retries below `RetryMax`. `ReadEndable`: `ReadCanEnd` becomes
inductive with `ReadsBounded`, the number of READ requests in the queue: a full
queue that refuses the TIMEOUT then holds another event that ends the read
(hypothesis: `MaxQueuedReads < QueueCapacity`).
`ReplayFree == Spec => NoReplay`: from `TimesInOrder`, which says that the
sensor's times are in order from the object over the buffer and the line to the
sensor, so that the head of an answer that can still arrive is later than whatever
was accepted or is in the buffer; with it, "differs from the last accepted time"
is as good as "is later".

Of `GpsSensor`: `ReceiverConfigured == GpsSpec => []GpsInv`, for any number
of messages, failures and READ requests and any capacity. `OneMessage`: the
completion of a configuration write is with the kernel, with the completion
thread, or in the queue, and in one of them at most, so the buffer is never
filled while it is being sent; `SentInOrder`: what has been sent when it is there;
`NothingRead`: nothing of the reading protocol is under way before that. From the
end of the configuration on every step is one of `SensorRead` (`ConfiguredSteps`)
in a state with its types (`AsSensor`), so the lemmas about it carry
over: `GpsReadEndable` (with the same hypothesis) and `GpsReplayFree`.

**`HalUartProofs`**, for any devices, slots and submission entries, and any number
of operations, aborts and failing submissions. `UartIInv == TypeOK /\ NumbersInv /\
NoSlotLeak`, where `NumbersInv` says that only reads and writes transfer data and
that each is numbered as it is started; `SlotsComeBack == Spec => []Inv`. Stale user
data can free a slot early or twice, but a taken slot was named by an operation
that is still under way. `CallbacksAreOwn == Spec => []UnabortedCallbackIsOwn`: until
something is aborted or cannot be submitted, every operation is in one place only
(`Apart`), its slot holds its callback (`InItsSlot`) and stays taken until its own
completion is handled; `Apart` is what keeps a completion from freeing the slot of
another operation. That the wake-up of a cleanup may free a slot with stale user
data does no harm, since nothing is started after it.

**`SchedulerProofs`.** `TypeCorrect`, and `InTurn == Spec => SlotsInTurn` for any
number of slots and any choice of subscribed ones. `TurnInv` says that the tick is
some number of places after the slot published last and that no slot in between is
subscribed (`After(d)`); it counts places instead of taking remainders, and
`NextActiveLemma` shows that this determines the CHOOSE in the property.

**`ServoProofs`.** `ServoIInv == TypeOK /\ TargetInv /\ ChipInv /\ RotationInv`.
`ChipInv` is what each point of the set-up has reached, from any registers
(`ChipIsReady`). `TargetInv` says, for every point of the reset and of a setter's
call, what the two angles of the registry can be: those of the target being set,
or, where `raced`, the start's angle in one of them; outside a call and after the
reset therefore a target that was set, the start, or, where `raced`, one of
`Halves` (`TargetsAreWhole`). `RotationInv` says that outside NOISE_SCAN no rotation
timeout is armed, under way or queued, and inside it at most one, so that the one
that comes is of this rotation (`RotationAwaited`). `NoiseScanEndable` has the
hypothesis `MaxQueued < QueueCapacity`, as `ReadEndable` does.

**`LifecycleProofs`.** `IInv` adds to `TypeOK`: `IndexInRange` (the loops stay in
their arrays), `UpAfterInit` (`app_up` is set exactly between the end of
`app_init` and the end), `BroughtUp` (what the loops of the start have brought up
so far) and `JoinedSoFar` (whom the loop of the joins has waited for so far; after
it, everybody). None of it is in the property, and all of it is needed:
`ResourcesOutlive` rests on `app_delete` being reached only through a join of
every module, for every number of drivers and modules. `CallbacksStop` adds
`TimersGone`: a module that has been deleted has no timer left.

**`StreamingProofs`** is about the streaming server, in three parts.

The WebSocket server by itself. `WsIInv`: the ring's indices and count describe one
ring, the registered client's socket is open, and `NoStrandedMessage`. `WsRefines`:
every callback maps to a step of `LossySession` or to a stutter, for any sockets,
messages and size of the ring.

The whole program. Every step of it is a `WsNext` step or leaves `wsVars` alone
(`StreamingIsWs`), so that the results above hold of it (`StreamingRefines`). Then
`StreamingIInv`: `PmOK` (no FFmpeg but the known one), `CommandsOK` (STOP before
every START), `PhaseInv` (the flags of `AppState` at every point of main),
`FfmpegInv` and `QuietInv` (where no FFmpeg runs, and where the detector is idle or
will be when it has read its commands). `StreamingTypesAndRequests`, `OneFfmpeg`,
`ChildrenEndFirst`, `StartsAreHeard` and `StreamsHavePeers` follow from it.
`QuietInv` is what makes it inductive: a START is sent only from points where it
holds, and every way to give a stream up passes through a STOP.

The Unix socket: `LinesStayInOrder == IpcSpec => []IpcInv` for any lines and any
sizes of the message buffer, the receive buffer and the socket. The detector's
lines are one stream of bytes; `Layout(start)` says where in it each line begins.
What is inductive is `LinesCut`, which says of every line what is returned for it,
cut or not; `LinesInOrder` follows for the lines that fit.
`StreamInv` says that the receive buffer begins with the first line that has not
been returned, that its bytes up to its first NUL are the stream's, and, as long
as that NUL is the one behind the data, that the socket goes on where the buffer
ends. After a line that did not fit, the NUL is inside the buffer: nothing is
claimed of the bytes behind it, which is why stale bytes do no harm. A newline
that is found is then the end of the first line that has not been returned
(`FirstNewline`), and what is moved to the front begins with the next one.

**`TempHumidityProofs`** is about the temperature and humidity sensor.

One read of the wire: `DelayIsDetected == Am2302Spec => []Am2302Inv`, for every
width of a byte of more than one bit, every measurement and any number of delays.
It has two halves. The arithmetic: the bytes put together from the bits of a
measurement are the bytes of it (`Byte` undoes `BitOf`). One delay can spoil two
neighbouring bits. If both are in one byte, that byte alone is wrong, and the sum
with it (`OneWrongByte`). If the first is the last bit of a byte and the second the
first of the next one, the two bytes differ by 1 and by half of `Base`
(`OtherLastBit`, `OtherFirstBit`), which do not cancel in the sum
(`TwoWrongBytes`); with bytes of one bit they would. `TwoWrongBits` puts the cases
together. `Byte` is a recursive function; that it exists and what it yields is shown
by induction over a set of numbers (`UpTo`, from the well-foundedness of the natural
numbers), which needs no operator as a parameter. The protocol: `Progress` ties
the phase of the line to the waits of the host; `DelayInv` says that without a
delay the host is with the waveform and every bit is right, and that after one
delay either at most the bit that was being read and the one after it are wrong,
or the sensor is two phases ahead (`FallenBehind`), and the read will run out of
its waveform and fail.

In time, for every cycle, gate, number of attempts and latency that satisfy the
assumptions: `FrameStaysYoung` and `SnapshotStaysYoung`. `FrameInv` counts the READ
events since the data of a valid frame were read: none, one or two, the last of
which is still queued or being handled; `sinceRead` bounds the age through the gate,
since the second READ finds it open (`Gate + Latency + RetryMax * AttemptTime <
2 * Cycle`). A read that fails clears `valid`; one that succeeds makes the data new.
For the copy, `CopyIInv` adds `SnapInv`: a copy is taken from a frame that was valid
when it began, so its data are older by the time the copy has taken; between the
copies they are older by the time since the last UPDATE, or the last but one. The
time a copy takes is part of that time and does not enter the bound.

Model-checked only: liveness and `ImplementsFairFifo`, since fairness and ENABLED
are out of the prover's reach. Every invariant and every action property of a
passing run is the subject of a theorem; the theorems `ReadEndable`,
`GpsReadEndable` and `NoiseScanEndable` have the hypothesis named with them, and
`NoWakeupLost` assumes that the set of consumers is finite.

## 7. Disagreements with the documentation and other observations

Two runs end in a counterexample on purpose.

* `hal_uart_abort`, `CallbackIsOwn`. `hal_uart.h:28` and `:49` say the callback is
  called upon completion of its write or read. The entry of an abort keeps the user
  data of its last use; the abort's completion frees a slot that another operation
  owns, the next operation takes it, and two operations share one callback. The
  distance sensor aborts at every timeout, so this happens; `SensorRead` lives with
  it (`mixed`) and still satisfies its properties.
* `bridge_cleanup`, `CleanedUpOnFailure`. `ddl_bridge.h:19-20`: "NULL on failure
  (the bridge has fully cleaned up after itself on failure)". It has not: a
  failing `app_init` leaves the threads of the modules before it running over a
  deleted bus and closed drivers; a failing `hal_init` leaves earlier drivers up.

Seen while modelling and not claimed by any run. The models follow the code in
all of them that lie within their scope; the properties are stated so as to say
what still holds.

* A timer's notification or a UART completion that is under way when its module is
  freed still posts to the freed queue, because the queue is freed before the
  timer is destroyed and the UART is cleaned up last (`scheduler.c:68`;
  `active_object.h:35` wants an initialized object). `NoNewCallbacks` says that
  none is added.
* `resp_frame` may be torn between its check and its copy (`distance_fsm.c:277`).
* READ requests that filled the queue of the GPS object during INIT would have
  CONFIGURED refused, and INIT would never be left (`gps_fsm.c:295`); section 4
  tells why they do not. A configuration write that fails leaves INIT for ever:
  its result is not looked at and no callback comes. `BecomesReady` is stated for
  writes that succeed.
* A publish reports success when every subscriber has refused
  (`event_bus.c:105`). An END refused by a full queue leaves `ddl_bridge_stop` in
  `app_join` (`active_object.c:73`, `refused`).
* NOISE_SCAN has no case for LOCK and drops it (`servo_fsm.c:440`). Its
  ROTATION_TIMEOUT is posted once (`servo_fsm.c:57`): with a full queue the object
  would stay in NOISE_SCAN. `Inv` is checked with queues that do not fill.
* "Atomically update the servo target registry" (`servo_fsm.h:60`) is not so during
  start-up. Setters are admitted once the mutex exists (`servo_fsm.c:314`, `:338`),
  and `servo_init_angles` resets the target after that without the mutex
  (`servo_fsm.c:268-271`): a setter between its assignments leaves a target made of
  two. `Servo` has this race and records it in `raced`; `TargetsNotMixed` says that
  there is no other way to a mixed target.
* When the second of two transfers fails, one servo has moved and the frame says
  where it was before (`servo_fsm.c:225`). A scan repairs that with its next step,
  which `FrameCatchesUp` states. TARGET_LOCK does not: it notes the sequence number
  before the transfers (`servo_fsm.c:501`) and does not repeat them, so the frame
  stays wrong until another target is set.
* A failed read of the AM2302 is repeated at once
  (`temperature_humidity_fsm.c:345`), though the comment at line 330 asks for two
  seconds between reads.
* `copy_frame` copies `valid` before the data (`broadcaster_fsm.c:13`), so during a
  copy the snapshot may call older data valid; `SnapshotAgeBounded` is about the
  time between copies. The same copy may take the humidity of one
  measurement and the temperature of the next.
* When `timer_create` fails, the timer's memory is freed and the pointer stays
  (`osal.c:191`).
* A detection that is longer than the caller's buffer is handed on cut to the size
  of the buffer, though the comment at `unix_socket.c:259` says "Discard the message"
  and `unix_socket.h:85` speaks of complete messages. It also ends reception for
  good: the rest is moved by the wrong length, a NUL becomes part of the buffer and
  no newline is found any more (`unix_socket.c:267`). `LinesInOrder` and
  `ReceptionGoesOn` speak of the lines that fit.
* With a full buffer that holds no newline recv is not called again
  (`unix_socket.c:220`): nothing more is received and the end of the peer is not
  noticed. With lines that fit the buffer never fills that way, so `ReceptionGoesOn`
  does not meet it. What is still in the buffer when the detector closes is discarded
  (`unix_socket.c:230`).
* WRITEABLE does not look at which socket it is for (`websocket_server.c:110-128`).
  A callback that an evicted socket still has writes the oldest message of the new
  session to the old client. For the new session it is a lost message, which is how
  `LossySession` counts it; what the old client sees is not claimed.
* An FFmpeg that is alive is taken to be publishing (`main.c:153`), while the
  comment at `main.c:93-94` says "only once FFmpeg is confirmed publishing"; it may
  be waiting for somebody to write to the FIFO. In camera mode `streaming_active`
  stays set when FFmpeg exits later (`main.c:506`).
* When `ipc_server_init` or the accept fails, main goes to its cleanup without
  stopping the bridge (`main.c:394-412`). `ShutdownEnds` takes `ddl_bridge_stop`
  (`main.c:543`) to return, which a refused END prevents. The accept before the loop
  blocks and a signal does not end it (`main.c:402`): `ShutdownEnds` is stated for a
  detector that has connected. A detector that has disconnected is never accepted again.

## 8. What is not modelled, and why

* `util/log`: output under one mutex that is never held with another.
* Parameter checks (NULL, out of range) of internal calls, whose callers pass
  constants.
* The INIT states of the distance sensor, the temperature and humidity sensor and
  the scheduler, which create a timer or set up a pin, and their ERROR states, which
  ignore events; `Lifecycle` has a timer that could not be created.
* Allocation failures, and failures of pthread calls, which the code ignores.
* In `TempHumidity`, a READ that the scheduler drops (`Scheduler` has the dropped
  ticks, `Snapshot` the skipped READs).
* Ends of the server other than a return of main: nothing is claimed of its children
  after a SIGKILL, which `start.sh` is there for.
* The I2C and GPIO drivers beyond "a transfer succeeds or fails" and "a line has
  a level"; the formulas that turn angles into PWM counts.
* The frames of distance and GPS in the snapshot: they are copied field by
  field in the same way.
* Of the server: the parsing of the configuration, the wording of messages and
  their truncation (`websocket_server.c:120`, `:264`), the period of the bridge's
  tick, a pid that the system reuses for another process.
* The Android client. Its interleavings are those of Kotlin coroutines, OkHttp's
  threads and the main dispatcher of Android; which of them may run at once is
  decided by libraries that are not in the repository, and a model would rest on
  assumptions about them and not on the code. One thing that can be seen without
  them is in the hazard list. The server's side of its connection is `WsServer`.
* The user interface and the diagnostic scripts keep no state worth a model.
* `experiments` and `hal_uart_old.c` are not built into the system.

## 9. The plan

Done, in this order: `EventQueue` with `BoundedFifo` (everything rests on it),
`SensorRead`, `GpsSensor`, `Scheduler`, `HalUart`, `Servo`, `Am2302`,
`TempHumidity`, `Lifecycle`; then `Snapshot`, `WsServer` with `LossySession`, `Ipc`,
`Streaming`, and the proofs of section 6.

Left, in the order of what it would add:

1. `Streaming` over `Ipc` in place of whole lines and commands.
2. A model of the Android client, once the scheduling rules it relies on are
   written down with it.
