------------------------------- MODULE Servo -------------------------------
(***************************************************************************)
(* The servo active object, ddl/servo/servo_fsm.c.  Two servos, driven by  *)
(* the channels of a PCA9685 on the I2C bus, scan row after row, one step  *)
(* per DIRECTIONS event of the scheduler; NOISE_DETECTED turns them to the *)
(* registered target, waits for the rotation and scans on from there; LOCK *)
(* keeps them on the target until SCAN.  The target is a registry that any *)
(* thread may set, under a mutex, while the FSM reads it; entering IDLE,   *)
(* the FSM writes the registry itself, and without the mutex.              *)
(*                                                                         *)
(* The chip keeps its registers when the program ends or crashes: a run    *)
(* starts with whatever an earlier one left, and any of the transfers that *)
(* set it up may fail.                                                     *)
(*                                                                         *)
(* Angles are whole units, Step of them per scan step; a unit is the       *)
(* error of an angle that is read back from the PWM counters.              *)
(***************************************************************************)
EXTENDS Integers, Sequences, FiniteSets

CONSTANTS
  Step,                \* SERVO_STEP_ANGLE
  MaxAngle,            \* SERVO_MAX_ANGLE_DEG; the least angle is 0
  HorMin, HorMax,      \* SERVO_HORIZONTAL_{MIN,MAX}_ANGLE_DEG
  VerMin, VerMax,      \* SERVO_VERTICAL_{MIN,MAX}_ANGLE_DEG
  VerStart,            \* the vertical angle of servo_init_angles; the other is 0
  Targets,             \* the targets ever set
  QueueCapacity,       \* eSERVO_QUEUE_CAPACITY
  MaxQueued,           \* bound: events queued by others (not the timer)
  MaxTargets,          \* bound: calls of ddl_servo_set_target
  MaxFailures          \* bound: failing I2C transfers

ASSUME ServoAssumption ==
  /\ {Step, MaxAngle, HorMin, HorMax, VerMin, VerMax, VerStart} \subseteq Nat
  /\ Step > 0 /\ HorMin < HorMax /\ VerMin < VerMax
  /\ Step <= HorMin /\ HorMax + Step <= MaxAngle
  /\ Step <= VerMin /\ VerMax + Step <= MaxAngle
  /\ VerStart \in VerMin .. VerMax
  /\ Targets \subseteq (HorMin .. HorMax) \X (VerMin .. VerMax)
  /\ QueueCapacity \in Nat \ {0}
  /\ {MaxQueued, MaxTargets, MaxFailures} \subseteq Nat

VARIABLES
  state,      \* the state of the FSM
  inbox,      \* the events queued for the object
  timer,      \* is the one-shot rotation timer armed
  late,       \* has the timer expired and its handler not posted yet
  scan,       \* servo_scan_state_angles, horizontal and vertical
  up,         \* angle_direction
  target,     \* servo_target_angles.angles
  seq,        \* servo_target_angles.seq
  lastSeq,    \* last_seq of the lock state
  setting,    \* the call of servo_fsm_set_target that holds the mutex, or NoCall
  raced,      \* history: the registry was reset during its last call
  pwm,        \* the angles the controller drives the servos to
  frame,      \* aobj->frame
  failures,   \* failed I2C transfers so far, those of the set-up left out
  pca         \* the registers of the PCA9685, and how far INIT and its exit are

vars == <<state, inbox, timer, late, scan, up, target, seq, lastSeq, setting,
          raced, pwm, frame, failures, pca>>

Start  == <<0, VerStart>>
Angles == (0 .. MaxAngle) \X (0 .. MaxAngle)

(* A call has stored the horizontal angle of its target while next is 0,   *)
(* and then both; next is the sequence number it stores last.              *)
NoCall  == [to |-> Start, next |-> -1]
Calling == setting # NoCall

(* The bits of MODE1 the program writes; RESTART clears itself.            *)
Mode1Bits == {"ALLCALL", "AI", "SLEEP"}

Working == {"IDLE", "SCAN", "NOISE_SCAN", "TARGET_LOCK"}

Init ==
  /\ state = "INIT"
  /\ inbox = <<>>
  /\ timer = FALSE
  /\ late = FALSE
  /\ scan = Start
  /\ up = TRUE
  /\ target = <<0, 0>>
  /\ seq = 0
  /\ lastSeq = 0
  /\ setting = NoCall
  /\ raced = FALSE
  /\ pwm \in {Start, <<MaxAngle, MaxAngle>>}
  /\ frame = <<0, 0>>
  /\ failures = 0
  /\ pca \in [mode1 : SUBSET Mode1Bits, old : {{}}, prescaled : BOOLEAN,
              driving : BOOLEAN, step : {"OPEN"}]

Events == {"DIRECTIONS", "NOISE_DETECTED", "LOCK", "SCAN"}

Posted(q, e) == IF Len(q) < QueueCapacity THEN Append(q, e) ELSE q

-----------------------------------------------------------------------------
(* The thread of the object *)

Take(e) ==
  /\ inbox # <<>>
  /\ Head(inbox) = e
  /\ inbox' = Tail(inbox)

(* Mutant: the copy is made without the mutex.                             *)
ReadableAnyTime == TRUE

(* servo_copy_target waits while a thread that sets the target holds the   *)
(* mutex.                                                                  *)
TargetReadable == ~Calling

(* Mutant: the second angle of the frame is forgotten.                     *)
FrameHalf(angles) ==
  /\ pwm' = angles
  /\ frame' = <<angles[1], frame[2]>>
  /\ UNCHANGED failures

(* servo_set_both_angles: horizontal first; a failure leaves the rest.     *)
SetBothAngles(angles) ==
  /\ pwm' = angles
  /\ frame' = angles
  /\ UNCHANGED failures

SetBothFails(angles) ==
  /\ failures < MaxFailures
  /\ failures' = failures + 1
  /\ pwm' \in {pwm, <<angles[1], pwm[2]>>}
  /\ UNCHANGED frame

MoveTo(angles) == SetBothAngles(angles) \/ SetBothFails(angles)

(* Mutant: at the end of the last row the scan stays there.                *)
ScanStuck(a, increasing) ==
  IF increasing /\ a[1] < HorMax
    THEN [at |-> <<a[1] + Step, a[2]>>, up |-> increasing]
  ELSE IF ~increasing /\ a[1] > HorMin
    THEN [at |-> <<a[1] - Step, a[2]>>, up |-> increasing]
  ELSE IF a[2] < VerMax
    THEN [at |-> <<a[1], a[2] + Step>>, up |-> ~increasing]
  ELSE [at |-> a, up |-> ~increasing]

(* servo_scan_operation: along the row, to the next row, back to the first.*)
ScanOperation(a, increasing) ==
  IF increasing /\ a[1] < HorMax
    THEN [at |-> <<a[1] + Step, a[2]>>, up |-> increasing]
  ELSE IF ~increasing /\ a[1] > HorMin
    THEN [at |-> <<a[1] - Step, a[2]>>, up |-> increasing]
  ELSE IF a[2] < VerMax
    THEN [at |-> <<a[1], a[2] + Step>>, up |-> ~increasing]
  ELSE [at |-> <<HorMin, VerMin>>, up |-> TRUE]

(* The set-up in servo_init_state, one transfer after the other.           *)
SetUp(step, next) ==
  /\ state = "INIT"
  /\ pca.step = step
  /\ pca' = next
  /\ UNCHANGED <<state, inbox, timer, late, scan, up, target, seq, lastSeq,
                 setting, raced, pwm, frame, failures>>

OpenBus == SetUp("OPEN", [pca EXCEPT !.step = "MODE2"])

WriteMode2 == SetUp("MODE2", [pca EXCEPT !.step = "MODE1", !.driving = TRUE])

WriteMode1 ==
  SetUp("MODE1", [pca EXCEPT !.step = "READ", !.mode1 = {"ALLCALL"}])

ReadMode1 == SetUp("READ", [pca EXCEPT !.step = "SLEEP", !.old = pca.mode1])

(* Mutant: the oscillator is left running.                                 *)
SleepForgotten == SetUp("SLEEP", [pca EXCEPT !.step = "PRESCALE"])

WriteSleep ==
  SetUp("SLEEP", [pca EXCEPT !.step = "PRESCALE", !.mode1 = pca.old \cup {"SLEEP"}])

(* The chip takes a prescale only while it sleeps.                         *)
WritePrescale ==
  SetUp("PRESCALE", [pca EXCEPT !.step = "WAKE",
                                !.prescaled = @ \/ "SLEEP" \in pca.mode1])

WriteOld == SetUp("WAKE", [pca EXCEPT !.step = "RESTART", !.mode1 = pca.old])

WriteRestart ==
  SetUp("RESTART", [pca EXCEPT !.step = "MUTEX", !.mode1 = pca.old \cup {"AI"}])

(* From here on targets can be set.                                        *)
InitMutex == SetUp("MUTEX", [pca EXCEPT !.step = "TIMER"])

InitTimer == SetUp("TIMER", [pca EXCEPT !.step = "RESET HOR"])

MutexMade == pca.step \in {"TIMER", "RESET HOR", "RESET VER", "RESET SEQ", "DONE"}

(* A transfer, the mutex or the timer fails: the object ignores everything *)
(* from there on.                                                          *)
SetUpFails ==
  /\ state = "INIT"
  /\ pca.step \notin {"RESET HOR", "RESET VER", "RESET SEQ"}
  /\ state' = "ERROR"
  /\ UNCHANGED <<inbox, timer, late, scan, up, target, seq, lastSeq, setting,
                 raced, pwm, frame, failures, pca>>

(* servo_init_angles, on the entry of IDLE: the horizontal angle of the    *)
(* registry, without the mutex, ...                                        *)
ResetHor ==
  /\ pca.step = "RESET HOR"
  /\ pca' = [pca EXCEPT !.step = "RESET VER"]
  /\ target' = <<0, target[2]>>
  /\ raced' = (raced \/ Calling)
  /\ UNCHANGED <<state, inbox, timer, late, scan, up, seq, lastSeq, setting,
                 pwm, frame, failures>>

(* ... the vertical one, ...                                               *)
ResetVer ==
  /\ pca.step = "RESET VER"
  /\ pca' = [pca EXCEPT !.step = "RESET SEQ"]
  /\ target' = <<target[1], VerStart>>
  /\ raced' = (raced \/ Calling)
  /\ UNCHANGED <<state, inbox, timer, late, scan, up, seq, lastSeq, setting,
                 pwm, frame, failures>>

(* ... the sequence number, the scan, and the first move.                  *)
EnterIdle ==
  /\ pca.step = "RESET SEQ"
  /\ pca' = [pca EXCEPT !.step = "DONE"]
  /\ state' = "IDLE"
  /\ seq' = 0
  /\ scan' = Start /\ up' = TRUE
  /\ MoveTo(Start)
  /\ UNCHANGED <<inbox, timer, late, target, lastSeq, setting, raced>>

IdleDirections ==
  /\ state = "IDLE"
  /\ Take("DIRECTIONS")
  /\ state' = "SCAN"
  /\ MoveTo(scan)
  /\ UNCHANGED <<pca, timer, late, scan, up, target, seq, lastSeq, setting, raced>>

(* servo_get_angle: what the counters give back, or, if it fails, nothing. *)
ReadBack(driven, old) ==
  {old} \cup {a \in 0 .. MaxAngle : a \in driven - 1 .. driven + 1}

ScanDirections ==
  LET next == ScanOperation(scan, up) IN
  /\ state = "SCAN"
  /\ Take("DIRECTIONS")
  /\ up' = next.up
  /\ \/ SetBothAngles(next.at) /\ scan' = next.at
     \/ /\ SetBothFails(next.at)
        /\ \E h \in ReadBack(pwm'[1], next.at[1]), v \in ReadBack(pwm'[2], next.at[2]) :
             scan' = <<h, v>>
  /\ UNCHANGED <<pca, state, timer, late, target, seq, lastSeq, setting, raced>>

(* Mutant: the timer is left as it is.                                     *)
NoiseUntimed ==
  /\ state = "SCAN"
  /\ TargetReadable
  /\ Take("NOISE_DETECTED")
  /\ state' = "NOISE_SCAN"
  /\ scan' = target
  /\ MoveTo(target)
  /\ UNCHANGED <<pca, timer, late, up, target, seq, lastSeq, setting, raced>>

(* The target is copied under its mutex; the scan goes on from there.      *)
ScanNoise ==
  /\ state = "SCAN"
  /\ TargetReadable
  /\ Take("NOISE_DETECTED")
  /\ state' = "NOISE_SCAN"
  /\ scan' = target
  /\ MoveTo(target)
  /\ timer' = TRUE
  /\ UNCHANGED <<pca, late, up, target, seq, lastSeq, setting, raced>>

ScanLock ==
  /\ state = "SCAN"
  /\ TargetReadable
  /\ Take("LOCK")
  /\ state' = "TARGET_LOCK"
  /\ lastSeq' = seq
  /\ MoveTo(target)
  /\ UNCHANGED <<pca, timer, late, scan, up, target, seq, setting, raced>>

(* Mutant: DIRECTIONS ends the wait.                                       *)
NoiseEndsEarly ==
  /\ state = "NOISE_SCAN"
  /\ Take("ROTATION_TIMEOUT") \/ Take("DIRECTIONS")
  /\ state' = "SCAN"
  /\ timer' = FALSE
  /\ MoveTo(scan)
  /\ UNCHANGED <<pca, late, scan, up, target, seq, lastSeq, setting, raced>>

NoiseTimeout ==
  /\ state = "NOISE_SCAN"
  /\ Take("ROTATION_TIMEOUT")
  /\ state' = "SCAN"
  /\ timer' = FALSE
  /\ MoveTo(scan)
  /\ UNCHANGED <<pca, late, scan, up, target, seq, lastSeq, setting, raced>>

(* Mutant: the sequence number is stored before it is compared.            *)
LockSwapped ==
  /\ state = "TARGET_LOCK"
  /\ TargetReadable
  /\ Take("DIRECTIONS")
  /\ lastSeq' = seq
  /\ UNCHANGED <<pca, state, timer, late, scan, up, target, seq, setting, raced, pwm,
                 frame, failures>>

LockDirections ==
  /\ state = "TARGET_LOCK"
  /\ TargetReadable
  /\ Take("DIRECTIONS")
  /\ lastSeq' = seq
  /\ IF lastSeq = seq THEN UNCHANGED <<pwm, frame, failures>> ELSE MoveTo(target)
  /\ UNCHANGED <<pca, state, timer, late, scan, up, target, seq, setting, raced>>

LockScan ==
  /\ state = "TARGET_LOCK"
  /\ Take("SCAN")
  /\ state' = "SCAN"
  /\ MoveTo(scan)
  /\ UNCHANGED <<pca, timer, late, scan, up, target, seq, lastSeq, setting, raced>>

Ignore ==
  /\ \/ state = "ERROR" /\ \E e \in Events : Take(e)
     \/ state = "IDLE" /\ \E e \in {"SCAN", "NOISE_DETECTED", "LOCK"} : Take(e)
     \/ state = "SCAN" /\ Take("SCAN")
     \/ state = "NOISE_SCAN" /\ \E e \in {"DIRECTIONS", "NOISE_DETECTED", "SCAN", "LOCK"} : Take(e)
     \/ state = "TARGET_LOCK" /\ \E e \in {"NOISE_DETECTED", "LOCK"} : Take(e)
  /\ UNCHANGED <<pca, state, timer, late, scan, up, target, seq, lastSeq, setting,
                 raced, pwm, frame, failures>>

-----------------------------------------------------------------------------
(* The timer, the publishers of events, and a thread that sets targets *)

TimerExpires ==
  /\ timer
  /\ timer' = FALSE
  /\ late' = TRUE
  /\ UNCHANGED <<pca, state, inbox, scan, up, target, seq, lastSeq, setting, raced, pwm,
                 frame, failures>>

TimeoutHandler ==
  /\ late
  /\ late' = FALSE
  /\ inbox' = Posted(inbox, "ROTATION_TIMEOUT")
  /\ UNCHANGED <<pca, state, timer, scan, up, target, seq, lastSeq, setting, raced, pwm,
                 frame, failures>>

(* Events that others have posted and the object has not taken.            *)
FromOthers == Cardinality({i \in DOMAIN inbox : inbox[i] \in Events})

Post(e) ==
  /\ FromOthers < MaxQueued
  /\ inbox' = Posted(inbox, e)
  /\ UNCHANGED <<pca, state, timer, late, scan, up, target, seq, lastSeq, setting,
                 raced, pwm, frame, failures>>

(* servo_fsm_set_target, refused before the mutex is made: lock, first     *)
(* angle ...                                                               *)
SetTargetHor(t) ==
  /\ MutexMade
  /\ seq < MaxTargets
  /\ ~Calling
  /\ setting' = [to |-> t, next |-> 0]
  /\ target' = <<t[1], target[2]>>
  /\ raced' = (pca.step = "RESET VER")
  /\ UNCHANGED <<pca, state, inbox, timer, late, scan, up, seq, lastSeq, pwm,
                 frame, failures>>

(* ... second angle, and seq read ...                                      *)
SetTargetVer ==
  /\ Calling /\ setting.next = 0
  /\ target' = <<target[1], setting.to[2]>>
  /\ setting' = [setting EXCEPT !.next = seq + 1]
  /\ UNCHANGED <<pca, state, inbox, timer, late, scan, up, seq, lastSeq, raced,
                 pwm, frame, failures>>

(* ... to be written one higher, unlock.                                   *)
SetTargetSeq ==
  /\ Calling /\ setting.next # 0
  /\ seq' = setting.next
  /\ setting' = NoCall
  /\ UNCHANGED <<pca, state, inbox, timer, late, scan, up, target, lastSeq, raced,
                 pwm, frame, failures>>

-----------------------------------------------------------------------------
SetUpStep ==
  \/ OpenBus \/ WriteMode2 \/ WriteMode1 \/ ReadMode1 \/ WriteSleep
  \/ WritePrescale \/ WriteOld \/ WriteRestart \/ InitMutex \/ InitTimer
  \/ SetUpFails \/ ResetHor \/ ResetVer \/ EnterIdle

AOStep ==
  \/ SetUpStep
  \/ IdleDirections \/ ScanDirections \/ ScanNoise \/ ScanLock
  \/ NoiseTimeout \/ LockDirections \/ LockScan \/ Ignore

Next ==
  \/ AOStep \/ TimerExpires \/ TimeoutHandler
  \/ \E e \in Events : Post(e)
  \/ \E t \in Targets : SetTargetHor(t)
  \/ SetTargetVer \/ SetTargetSeq

Spec == Init /\ [][Next]_vars

(* The threads and the timer run, and the scheduler posts DIRECTIONS again *)
(* and again (Scheduler, EverySlotServed) between the events of others.    *)
FairSpec ==
  /\ Spec
  /\ WF_vars(AOStep)
  /\ WF_vars(TimerExpires)
  /\ WF_vars(TimeoutHandler)
  /\ WF_vars(SetTargetVer \/ SetTargetSeq)
  /\ SF_vars(Post("DIRECTIONS"))

-----------------------------------------------------------------------------
(* No angle ever needs the clamp of servo_set_angle: neither a scan that   *)
(* goes on from an arbitrary target nor one from an angle read back with   *)
(* an error leaves the servos' range.                                      *)
TypeOK ==
  /\ state \in Working \cup {"INIT", "ERROR"}
  /\ inbox \in Seq(Events \cup {"ROTATION_TIMEOUT"}) /\ Len(inbox) <= QueueCapacity
  /\ timer \in BOOLEAN /\ late \in BOOLEAN /\ up \in BOOLEAN
  /\ {scan, target, pwm, frame} \subseteq Angles
  /\ seq \in 0 .. MaxTargets /\ lastSeq \in 0 .. MaxTargets
  /\ setting \in [to : Targets, next : 0 .. MaxTargets] \cup {NoCall}
  /\ raced \in BOOLEAN
  /\ failures \in 0 .. MaxFailures
  /\ pca \in [mode1 : SUBSET Mode1Bits, old : SUBSET Mode1Bits,
              prescaled : BOOLEAN, driving : BOOLEAN,
              step : {"OPEN", "MODE2", "MODE1", "READ", "SLEEP", "PRESCALE",
                      "WAKE", "RESTART", "MUTEX", "TIMER", "RESET HOR",
                      "RESET VER", "RESET SEQ", "DONE"}]

(* What a reset can make of a target that is set meanwhile.                *)
Halves ==
  {<<0, t[2]>> : t \in Targets} \cup {<<t[1], VerStart>> : t \in Targets}

(* servo_fsm.h:60, "Atomically update the servo target registry": the      *)
(* servos are turned to a target that was set or to the start, never to a  *)
(* mixture of two targets.  Only the entry of IDLE, which does not take the*)
(* mutex, can mix the start into a target that is being set, and the next  *)
(* target that is set undoes it.                                           *)
TargetsNotMixed ==
  [][state' \in {"NOISE_SCAN", "TARGET_LOCK"} /\ pwm' # pwm /\ failures' = failures =>
       pwm' \in Targets \cup {Start} \/ (raced /\ pwm' \in Halves)]_vars

(* servo_fsm.c:458, "We wait on eSERVO_EVENT_ROTATION_TIMEOUT to assure    *)
(* the servos finished rotating": NOISE_SCAN is left only after the timer  *)
(* armed on its entry has run out, never for an event of an earlier wait.  *)
WaitsForRotation ==
  [][state = "NOISE_SCAN" /\ state' # state => ~timer /\ ~late]_vars

(* NOISE_SCAN has no way out but the timer's one event, which a full queue *)
(* would refuse for good.                                                  *)
NoiseScanCanEnd ==
  state = "NOISE_SCAN" =>
    timer \/ late \/ \E i \in DOMAIN inbox : inbox[i] = "ROTATION_TIMEOUT"

Inv == TypeOK /\ NoiseScanCanEnd

(* A transfer that fails between the two servos leaves a frame that says   *)
(* where one of them was (servo_set_both_angles, servo_fsm.c:217-234).     *)
(* Nothing repeats the transfer, but the scan repairs the frame: if it goes*)
(* on, or is come back to, again and again, the frame says in the end where*)
(* the servos are, and goes on saying so.                                  *)
FrameCatchesUp == []<>(state = "SCAN") => <>[](frame = pwm)

(* servo_fsm.c:123, "AI and RESTART get set inside pca9685_set_pwm_freq":  *)
(* whatever an earlier run left in the chip, and wherever it crashed, the  *)
(* object moves the servos only with a chip that is awake, counts with the *)
(* prescale of 50 Hz and takes the four bytes of a channel in one write.   *)
ChipReady ==
  state \in Working =>
    pca.mode1 = {"ALLCALL", "AI"} /\ pca.prescaled /\ pca.driving

(* While LOCK lasts, a target set by any thread is turned to, unless the   *)
(* transfer fails: the comparison of sequence numbers misses none.         *)
LockFollowsTarget ==
  \A k \in 1 .. MaxTargets :
    (state = "TARGET_LOCK" /\ seq = k) ~>
      (state # "TARGET_LOCK" \/ seq # k \/ pwm = target \/ failures > 0)

(* A scan that is not interrupted comes to every position of the grid.     *)
GridPositions ==
  {<<HorMin + Step * i, VerMin + Step * j>> :
     i \in 0 .. (HorMax - HorMin) \div Step, j \in 0 .. (VerMax - VerMin) \div Step}

EveryPositionScanned ==
  <>[](state = "SCAN") => \A p \in GridPositions : []<>(pwm = p)
=============================================================================
