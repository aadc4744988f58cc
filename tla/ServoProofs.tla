---------------------------- MODULE ServoProofs ----------------------------
(***************************************************************************)
(* The servo object for every grid, every set of targets and every number  *)
(* of failing transfers: its types (no angle is ever clamped), a chip that *)
(* is ready whenever the servos are moved, targets that nothing but the    *)
(* reset on the entry of IDLE ever mixes, and a wait for the rotation that *)
(* is neither cut short by an old timer nor without end.                   *)
(***************************************************************************)
EXTENDS Servo, FunctionTheorems, FiniteSetTheorems, TLAPS

Inputs == Events \cup {"ROTATION_TIMEOUT"}

(* No rotation timeout is queued; exactly one is.                          *)
NoneIn(q) == \A i \in DOMAIN q : q[i] # "ROTATION_TIMEOUT"

OneIn(q) ==
  \E i \in DOMAIN q :
    q[i] = "ROTATION_TIMEOUT" /\ \A j \in DOMAIN q : q[j] = "ROTATION_TIMEOUT" => j = i

Others(q) == {i \in DOMAIN q : q[i] \in Events}

-----------------------------------------------------------------------------
(* The inductive invariant *)

CallInv ==
  Calling => setting.to \in Targets /\ setting.next \in Nat /\ seq < MaxTargets

(* The registry during and after its reset.  Whatever another thread has   *)
(* stored of a target, the reset may have put the start's angle over it, or*)
(* the other way round, but only if it wrote during that call: raced.      *)
RegistryInv ==
  /\ pca.step = "RESET VER" =>
       IF Calling
         THEN raced /\ target[1] \in {0, setting.to[1]}
         ELSE target[1] = 0 \/ (raced /\ \E t \in Targets : target[1] = t[1])
  /\ pca.step \in {"RESET SEQ", "DONE"} =>
       /\ ~Calling => target \in Targets \cup {Start} \/ (raced /\ target \in Halves)
       /\ Calling /\ setting.next = 0 =>
            target[1] = setting.to[1] \/ (raced /\ target[1] = 0)
       /\ Calling /\ setting.next # 0 =>
            \/ target = setting.to
            \/ /\ raced
               /\ target[1] \in {0, setting.to[1]}
               /\ target[2] \in {VerStart, setting.to[2]}

TargetInv == CallInv /\ RegistryInv

Steps ==
  {"OPEN", "MODE2", "MODE1", "READ", "SLEEP", "PRESCALE", "WAKE", "RESTART", "MUTEX",
   "TIMER", "RESET HOR", "RESET VER", "RESET SEQ", "DONE"}

Initialised == {"MUTEX", "TIMER", "RESET HOR", "RESET VER", "RESET SEQ", "DONE"}

Chips ==
  [mode1 : SUBSET Mode1Bits, old : SUBSET Mode1Bits, prescaled : BOOLEAN,
   driving : BOOLEAN, step : Steps]

Calls == [to : Targets, next : 0 .. MaxTargets] \cup {NoCall}

(* What the set-up has written by each of its steps.                       *)
Written(c) ==
  /\ c.step \notin {"OPEN", "MODE2"} => c.driving
  /\ c.step \in {"SLEEP", "PRESCALE", "WAKE", "RESTART"} => c.old = {"ALLCALL"}
  /\ c.step \in {"READ", "SLEEP", "RESTART"} => c.mode1 = {"ALLCALL"}
  /\ c.step = "PRESCALE" => "SLEEP" \in c.mode1
  /\ c.step \in {"WAKE", "RESTART"} \cup Initialised => c.prescaled
  /\ c.step \in Initialised => c.mode1 = {"ALLCALL", "AI"}

ChipInv ==
  /\ Written(pca)
  /\ state \in Working => pca.step = "DONE"
  /\ pca.step \in {"RESET HOR", "RESET VER", "RESET SEQ"} => state = "INIT"

(* At most one rotation timeout exists in any form, and only while the     *)
(* object waits for one.                                                   *)
RotationInv ==
  IF state = "NOISE_SCAN"
    THEN \/ timer /\ ~late /\ NoneIn(inbox)
         \/ ~timer /\ late /\ NoneIn(inbox)
         \/ ~timer /\ ~late /\ (OneIn(inbox) \/ NoneIn(inbox))
    ELSE ~timer /\ ~late /\ NoneIn(inbox)

ServoIInv == TypeOK /\ TargetInv /\ ChipInv /\ RotationInv

-----------------------------------------------------------------------------
(* Queues *)

LEMMA TakeQueue ==
  ASSUME NEW q \in Seq(Inputs), q # <<>>
  PROVE  /\ Tail(q) \in Seq(Inputs) /\ Len(Tail(q)) <= Len(q)
         /\ NoneIn(q) => NoneIn(Tail(q))
         /\ OneIn(q) /\ Head(q) # "ROTATION_TIMEOUT" => OneIn(Tail(q))
         /\ OneIn(q) /\ Head(q) = "ROTATION_TIMEOUT" => NoneIn(Tail(q))
         /\ NoneIn(q) => Head(q) # "ROTATION_TIMEOUT"
<1>1. /\ Tail(q) \in Seq(Inputs) /\ Len(Tail(q)) = Len(q) - 1 /\ Len(q) \in Nat
      /\ Len(q) > 0 /\ Head(q) = q[1]
      /\ \A i \in 1 .. Len(q) - 1 : Tail(q)[i] = q[i + 1]
  OBVIOUS
<1>2. DOMAIN q = 1 .. Len(q) /\ DOMAIN Tail(q) = 1 .. Len(q) - 1
  BY <1>1
<1>3. ASSUME OneIn(q), Head(q) # "ROTATION_TIMEOUT"
      PROVE  OneIn(Tail(q))
  <2>1. PICK i \in 1 .. Len(q) :
          /\ q[i] = "ROTATION_TIMEOUT"
          /\ \A j \in 1 .. Len(q) : q[j] = "ROTATION_TIMEOUT" => j = i
    BY <1>2, <1>3 DEF OneIn
  <2>2. i - 1 \in 1 .. Len(q) - 1 /\ Tail(q)[i - 1] = "ROTATION_TIMEOUT"
    BY <1>1, <1>3, <2>1
  <2>3. \A j \in 1 .. Len(q) - 1 : Tail(q)[j] = "ROTATION_TIMEOUT" => j = i - 1
    BY <1>1, <2>1
  <2>4. QED
    BY <1>2, <2>2, <2>3 DEF OneIn
<1>4. ASSUME OneIn(q), Head(q) = "ROTATION_TIMEOUT"
      PROVE  NoneIn(Tail(q))
  <2>1. PICK i \in 1 .. Len(q) :
          /\ q[i] = "ROTATION_TIMEOUT"
          /\ \A j \in 1 .. Len(q) : q[j] = "ROTATION_TIMEOUT" => j = i
    BY <1>2, <1>4 DEF OneIn
  <2>2. i = 1
    BY <1>1, <1>4, <2>1
  <2>3. QED
    BY <1>1, <1>2, <2>1, <2>2 DEF NoneIn
<1>5. NoneIn(q) => NoneIn(Tail(q)) /\ Head(q) # "ROTATION_TIMEOUT"
  BY <1>1, <1>2 DEF NoneIn
<1>6. QED
  BY <1>1, <1>3, <1>4, <1>5

LEMMA PostQueue ==
  ASSUME NEW q \in Seq(Inputs), Len(q) <= QueueCapacity, NEW e \in Inputs
  PROVE  /\ Posted(q, e) \in Seq(Inputs) /\ Len(Posted(q, e)) <= QueueCapacity
         /\ NoneIn(q) /\ e # "ROTATION_TIMEOUT" => NoneIn(Posted(q, e))
         /\ OneIn(q) /\ e # "ROTATION_TIMEOUT" => OneIn(Posted(q, e))
         /\ NoneIn(q) => OneIn(Posted(q, e)) \/ NoneIn(Posted(q, e))
         /\ NoneIn(q) /\ e = "ROTATION_TIMEOUT" /\ Len(q) < QueueCapacity
              => OneIn(Posted(q, e))
<1>1. /\ Len(q) \in Nat /\ DOMAIN q = 1 .. Len(q) /\ QueueCapacity \in Nat
      /\ Append(q, e) \in Seq(Inputs) /\ Len(Append(q, e)) = Len(q) + 1
      /\ \A i \in 1 .. Len(q) : Append(q, e)[i] = q[i]
      /\ Append(q, e)[Len(q) + 1] = e
      /\ DOMAIN Append(q, e) = 1 .. Len(q) + 1
  BY ServoAssumption
<1>2. CASE Len(q) < QueueCapacity
  <2>1. Posted(q, e) = Append(q, e)
    BY <1>2 DEF Posted
  <2>2. NoneIn(q) /\ e # "ROTATION_TIMEOUT" => NoneIn(Append(q, e))
    BY <1>1 DEF NoneIn
  <2>3. OneIn(q) /\ e # "ROTATION_TIMEOUT" => OneIn(Append(q, e))
    BY <1>1 DEF OneIn
  <2>4. ASSUME NoneIn(q), e = "ROTATION_TIMEOUT" PROVE OneIn(Append(q, e))
    <3>1. Len(q) + 1 \in DOMAIN Append(q, e)
      BY <1>1
    <3>2. \A j \in DOMAIN Append(q, e) :
            Append(q, e)[j] = "ROTATION_TIMEOUT" => j = Len(q) + 1
      BY <1>1, <2>4 DEF NoneIn
    <3>3. QED
      BY <1>1, <2>4, <3>1, <3>2 DEF OneIn
  <2>5. QED
    BY <1>1, <1>2, <2>1, <2>2, <2>3, <2>4
<1>3. CASE ~(Len(q) < QueueCapacity)
  BY <1>3 DEF Posted
<1>4. QED
  BY <1>2, <1>3

-----------------------------------------------------------------------------
(* The parts of the handlers *)

LEMMA StartType == Start \in Angles
BY ServoAssumption DEF Start, Angles

LEMMA Constants ==
  /\ MaxFailures \in Nat /\ MaxTargets \in Nat /\ QueueCapacity \in Nat /\ MaxQueued \in Nat
BY ServoAssumption

LEMMA NoTargets == 0 \in 0 .. MaxTargets /\ 0 \in Nat /\ 0 # -1
BY Constants

(* The types, one by one.                                                  *)
LEMMA Types ==
  ASSUME TypeOK
  PROVE  /\ state \in Working \cup {"INIT", "ERROR"}
         /\ inbox \in Seq(Inputs) /\ Len(inbox) <= QueueCapacity
         /\ timer \in BOOLEAN /\ late \in BOOLEAN /\ up \in BOOLEAN
         /\ scan \in Angles /\ target \in Angles /\ pwm \in Angles /\ frame \in Angles
         /\ seq \in 0 .. MaxTargets /\ lastSeq \in 0 .. MaxTargets
         /\ setting \in Calls /\ raced \in BOOLEAN
         /\ failures \in 0 .. MaxFailures
         /\ pca \in Chips
BY DEF TypeOK, Inputs, Chips, Steps, Calls

LEMMA NewTypes ==
  ASSUME state' \in Working \cup {"INIT", "ERROR"},
         inbox' \in Seq(Inputs), Len(inbox') <= QueueCapacity,
         timer' \in BOOLEAN, late' \in BOOLEAN, up' \in BOOLEAN,
         scan' \in Angles, target' \in Angles, pwm' \in Angles, frame' \in Angles,
         seq' \in 0 .. MaxTargets, lastSeq' \in 0 .. MaxTargets,
         setting' \in Calls, raced' \in BOOLEAN,
         failures' \in 0 .. MaxFailures,
         pca' \in Chips
  PROVE  TypeOK'
<1>1. {scan', target', pwm', frame'} \subseteq Angles
  OBVIOUS
<1>2. QED
  BY <1>1 DEF TypeOK, Inputs, Chips, Steps, Calls

LEMMA TargetsType == Targets \subseteq Angles
BY ServoAssumption DEF Angles

(* A move keeps the angles' types, and reaches its end if no transfer fails.*)
LEMMA MoveLemma ==
  ASSUME TypeOK, NEW a \in Angles, MoveTo(a)
  PROVE  /\ pwm' \in Angles /\ frame' \in Angles /\ failures' \in 0 .. MaxFailures
         /\ failures' = failures => pwm' = a
<1>1. CASE SetBothAngles(a)
  BY <1>1, Types DEF SetBothAngles
<1>2. CASE SetBothFails(a)
  <2>1. <<a[1], pwm[2]>> \in Angles
    BY Types DEF Angles
  <2>2. failures' = failures + 1 /\ failures' \in 1 .. MaxFailures
    BY <1>2, Types, Constants DEF SetBothFails
  <2>3. pwm' \in Angles /\ frame' \in Angles
    BY <1>2, <2>1, Types DEF SetBothFails
  <2>4. failures' # failures
    BY <2>2, Types, Constants
  <2>5. QED
    BY <2>2, <2>3, <2>4
<1>3. QED
  BY <1>1, <1>2 DEF MoveTo

(* The step of a scan, from wherever it starts, stays in the servos' range.*)
LEMMA ScanLemma ==
  ASSUME NEW a \in Angles, NEW u \in BOOLEAN
  PROVE  ScanOperation(a, u).at \in Angles /\ ScanOperation(a, u).up \in BOOLEAN
<1>1. a[1] \in 0 .. MaxAngle /\ a[2] \in 0 .. MaxAngle
  BY DEF Angles
<1>2. CASE u /\ a[1] < HorMax
  <2>1. a[1] + Step \in 0 .. MaxAngle
    BY <1>1, <1>2, ServoAssumption
  <2>2. QED
    BY <1>1, <1>2, <2>1 DEF ScanOperation, Angles
<1>3. CASE ~u /\ a[1] > HorMin
  <2>1. a[1] - Step \in 0 .. MaxAngle
    BY <1>1, <1>3, ServoAssumption
  <2>2. QED
    BY <1>1, <1>3, <2>1 DEF ScanOperation, Angles
<1>4. CASE ~(u /\ a[1] < HorMax) /\ ~(~u /\ a[1] > HorMin) /\ a[2] < VerMax
  <2>1. a[2] + Step \in 0 .. MaxAngle
    BY <1>1, <1>4, ServoAssumption
  <2>2. QED
    BY <1>1, <1>4, <2>1 DEF ScanOperation, Angles
<1>5. CASE ~(u /\ a[1] < HorMax) /\ ~(~u /\ a[1] > HorMin) /\ ~(a[2] < VerMax)
  <2>1. HorMin \in 0 .. MaxAngle /\ VerMin \in 0 .. MaxAngle
    BY ServoAssumption
  <2>2. QED
    BY <1>5, <2>1 DEF ScanOperation, Angles
<1>6. QED
  BY <1>2, <1>3, <1>4, <1>5

(* Taking an event that is no rotation timeout.                            *)
LEMMA TakeOther ==
  ASSUME TypeOK, RotationInv, NEW e \in Events, Take(e)
  PROVE  /\ inbox' \in Seq(Inputs) /\ Len(inbox') <= QueueCapacity
         /\ NoneIn(inbox) => NoneIn(inbox')
         /\ OneIn(inbox) => OneIn(inbox')
<1>1. inbox \in Seq(Inputs) /\ Len(inbox) <= QueueCapacity /\ Len(inbox) \in Nat
  BY Types
<1>2. inbox # <<>> /\ inbox' = Tail(inbox) /\ Head(inbox) # "ROTATION_TIMEOUT"
  BY DEF Take, Events
<1>3. Len(Tail(inbox)) \in Nat
  BY <1>1, <1>2
<1>4. QED
  BY <1>1, <1>2, <1>3, TakeQueue, ServoAssumption, SMTT(30)

LEMMA TakeTimeout ==
  ASSUME TypeOK, RotationInv, Take("ROTATION_TIMEOUT")
  PROVE  /\ inbox' \in Seq(Inputs) /\ Len(inbox') <= QueueCapacity
         /\ state = "NOISE_SCAN" /\ ~timer /\ ~late /\ NoneIn(inbox')
<1>1. inbox \in Seq(Inputs) /\ Len(inbox) <= QueueCapacity /\ Len(inbox) \in Nat
  BY Types
<1>2. inbox # <<>> /\ inbox' = Tail(inbox) /\ Head(inbox) = "ROTATION_TIMEOUT"
  BY DEF Take
<1>3. ~NoneIn(inbox)
  BY <1>1, <1>2, TakeQueue
<1>4. state = "NOISE_SCAN" /\ ~timer /\ ~late /\ OneIn(inbox)
  BY <1>3 DEF RotationInv
<1>5. Len(Tail(inbox)) \in Nat
  BY <1>1, <1>2
<1>6. QED
  BY <1>1, <1>2, <1>4, <1>5, TakeQueue, ServoAssumption, SMTT(30)

-----------------------------------------------------------------------------
(* The set-up *)

LEMMA InitInv == Init => ServoIInv
<1> SUFFICES ASSUME Init PROVE ServoIInv
  OBVIOUS
<1> USE ServoAssumption DEF Init
<1>1. /\ <<MaxAngle, MaxAngle>> \in Angles /\ <<0, 0>> \in Angles
  BY DEF Angles
<1>2. pca \in [mode1 : SUBSET Mode1Bits, old : SUBSET Mode1Bits,
               prescaled : BOOLEAN, driving : BOOLEAN, step : Steps]
  BY DEF Steps
<1>3. inbox \in Seq(Inputs) /\ Len(inbox) <= QueueCapacity
  OBVIOUS
<1>4. {scan, target, pwm, frame} \subseteq Angles
  BY <1>1, StartType
<1>t. seq \in 0 .. MaxTargets /\ lastSeq \in 0 .. MaxTargets /\ failures \in 0 .. MaxFailures
  BY Constants
<1>5. TypeOK
  BY <1>2, <1>3, <1>4, <1>t DEF TypeOK, Inputs, Steps
<1>7. pca.step = "OPEN" /\ state = "INIT" /\ setting = NoCall
  OBVIOUS
<1>6. TargetInv
  BY <1>7 DEF TargetInv, CallInv, RegistryInv, Calling
<1>8. ChipInv
  BY <1>7 DEF ChipInv, Written, Initialised, Working
<1>9. RotationInv
  BY DEF RotationInv, NoneIn
<1>10. QED
  BY <1>5, <1>6, <1>8, <1>9 DEF ServoIInv

(* One transfer of the set-up.                                             *)
LEMMA SetUpLemma ==
  ASSUME ServoIInv, NEW step, NEW next \in Chips, SetUp(step, next), Written(next),
         next.step \notin {"RESET VER", "RESET SEQ", "DONE"}
  PROVE  ServoIInv'
<1> USE DEF ServoIInv, SetUp
<1>1. TypeOK'
  BY Types, NewTypes
<1>2. TargetInv'
  BY DEF TargetInv, CallInv, RegistryInv, Calling
<1>3. ChipInv'
  BY DEF ChipInv, Working
<1>4. RotationInv'
  BY DEF RotationInv
<1>5. QED
  BY <1>1, <1>2, <1>3, <1>4

(* The reset of the registry: what it writes over a call is raced.         *)
LEMMA ResetHorInv ==
  ASSUME ServoIInv, ResetHor
  PROVE  ServoIInv'
<1> USE DEF ServoIInv, ResetHor
<1>0. <<0, target[2]>> \in Angles /\ target'[1] = 0
  BY StartType, Types DEF Start, Angles
<1>1. pca' \in Chips /\ pca'.step = "RESET VER"
  BY Types DEF Chips, Steps
<1>2. TypeOK'
  BY <1>0, <1>1, Types, NewTypes
<1>3. TargetInv'
  <2>1. Calling' = Calling /\ raced' = (raced \/ Calling)
    BY DEF Calling
  <2>2. QED
    BY <1>0, <1>1, <2>1 DEF TargetInv, CallInv, RegistryInv
<1>4. ChipInv'
  BY <1>1, Types DEF ChipInv, Written, Chips, Initialised, Working
<1>5. RotationInv'
  BY DEF RotationInv
<1>6. QED
  BY <1>2, <1>3, <1>4, <1>5

LEMMA ResetVerInv ==
  ASSUME ServoIInv, ResetVer
  PROVE  ServoIInv'
<1> USE DEF ServoIInv, ResetVer
<1>0. /\ <<target[1], VerStart>> \in Angles
      /\ target' = <<target[1], VerStart>> /\ target'[1] = target[1] /\ target'[2] = VerStart
  BY Types, StartType DEF Angles, Start
<1>1. pca' \in Chips /\ pca'.step = "RESET SEQ"
  BY Types DEF Chips, Steps
<1>2. TypeOK'
  BY <1>0, <1>1, Types, NewTypes
<1>3. TargetInv'
  <2>1. Calling' = Calling /\ raced' = (raced \/ Calling)
    BY DEF Calling
  <2>2. CASE Calling
    BY <1>0, <1>1, <2>1, <2>2 DEF TargetInv, CallInv, RegistryInv
  <2>3. CASE ~Calling
    <3>1. target' = Start \/ (raced' /\ target' \in Halves)
      BY <1>0, <2>1, <2>3 DEF TargetInv, CallInv, RegistryInv, Start, Halves
    <3>2. QED
      BY <1>1, <2>1, <2>3, <3>1 DEF TargetInv, CallInv, RegistryInv
  <2>4. QED
    BY <2>2, <2>3
<1>4. ChipInv'
  BY <1>1, Types DEF ChipInv, Written, Chips, Initialised, Working
<1>5. RotationInv'
  BY DEF RotationInv
<1>6. QED
  BY <1>2, <1>3, <1>4, <1>5

LEMMA EnterIdleInv ==
  ASSUME ServoIInv, EnterIdle
  PROVE  ServoIInv'
<1> USE DEF ServoIInv
<1>0. pca' \in Chips /\ pca'.step = "DONE"
  BY Types DEF EnterIdle, Chips, Steps
<1>1. /\ pwm' \in Angles /\ frame' \in Angles /\ failures' \in 0 .. MaxFailures
  BY StartType, MoveLemma DEF EnterIdle
<1>s. pca.step = "RESET SEQ"
  BY DEF EnterIdle
<1>q. seq' = 0
  BY DEF EnterIdle
<1>2. TypeOK'
  <2>1. seq' \in 0 .. MaxTargets
    BY <1>q, Constants
  <2>2. QED
    BY <1>0, <1>1, <2>1, StartType, Types, NewTypes DEF EnterIdle, Working
<1>3. TargetInv'
  <2>0. Calling => seq < MaxTargets
    BY DEF TargetInv, CallInv, RegistryInv
  <2>1. Calling => seq < MaxTargets /\ seq \in Nat
    BY <2>0, Types
  <2>2. CallInv'
    <3>1. setting' = setting
      BY DEF EnterIdle
    <3>2. Calling => setting.to \in Targets /\ setting.next \in Nat
      BY DEF TargetInv, CallInv
    <3>3. Calling => seq' < MaxTargets
      BY <1>q, <2>1, Constants
    <3>4. QED
      BY <3>1, <3>2, <3>3 DEF CallInv, Calling
  <2>3. RegistryInv'
    <3>1. target' = target /\ setting' = setting /\ raced' = raced
      BY DEF EnterIdle
    <3>2. pca.step = "RESET SEQ" /\ RegistryInv
      BY <1>s DEF TargetInv
    <3>3. QED
      BY <1>0, <3>1, <3>2 DEF RegistryInv, Calling
  <2>4. QED
    BY <2>2, <2>3 DEF TargetInv
<1>4. ChipInv'
  BY <1>0, Types DEF EnterIdle, ChipInv, Written, Chips, Initialised
<1>5. RotationInv'
  BY DEF EnterIdle, ChipInv, RotationInv
<1>6. QED
  BY <1>2, <1>3, <1>4, <1>5

LEMMA SetUpInv ==
  ASSUME ServoIInv, SetUpStep
  PROVE  ServoIInv'
<1> USE DEF ServoIInv
<1>0. pca \in Chips /\ Written(pca)
  BY Types DEF ChipInv
<1>1. CASE OpenBus
  <2>1. /\ [pca EXCEPT !.step = "MODE2"] \in Chips /\ Written([pca EXCEPT !.step = "MODE2"])
        /\ [pca EXCEPT !.step = "MODE2"].step = "MODE2"
    BY <1>0 DEF Chips, Steps, Written, Initialised
  <2>2. QED
    BY <1>1, <2>1, SetUpLemma DEF OpenBus
<1>2. CASE WriteMode2
  <2> DEFINE next == [pca EXCEPT !.step = "MODE1", !.driving = TRUE]
  <2>1. next \in Chips /\ Written(next) /\ next.step \notin {"RESET VER", "RESET SEQ", "DONE"}
    BY <1>0 DEF Chips, Steps, Written, Initialised
  <2>2. QED
    BY <1>2, <2>1, SetUpLemma DEF WriteMode2
<1>3. CASE WriteMode1
  <2> DEFINE next == [pca EXCEPT !.step = "READ", !.mode1 = {"ALLCALL"}]
  <2>1. pca.step = "MODE1"
    BY <1>3 DEF WriteMode1, SetUp
  <2>2. next \in Chips /\ Written(next) /\ next.step \notin {"RESET VER", "RESET SEQ", "DONE"}
    BY <1>0, <2>1 DEF Chips, Steps, Written, Initialised, Mode1Bits
  <2>3. QED
    BY <1>3, <2>2, SetUpLemma DEF WriteMode1
<1>4. CASE ReadMode1
  <2> DEFINE next == [pca EXCEPT !.step = "SLEEP", !.old = pca.mode1]
  <2>1. pca.step = "READ"
    BY <1>4 DEF ReadMode1, SetUp
  <2>2. next \in Chips /\ Written(next) /\ next.step \notin {"RESET VER", "RESET SEQ", "DONE"}
    BY <1>0, <2>1 DEF Chips, Steps, Written, Initialised
  <2>3. QED
    BY <1>4, <2>2, SetUpLemma DEF ReadMode1
<1>5. CASE WriteSleep
  <2> DEFINE next == [pca EXCEPT !.step = "PRESCALE", !.mode1 = pca.old \cup {"SLEEP"}]
  <2>1. pca.step = "SLEEP"
    BY <1>5 DEF WriteSleep, SetUp
  <2>2. next \in Chips /\ Written(next) /\ next.step \notin {"RESET VER", "RESET SEQ", "DONE"}
    BY <1>0, <2>1 DEF Chips, Steps, Written, Initialised, Mode1Bits
  <2>3. QED
    BY <1>5, <2>2, SetUpLemma DEF WriteSleep
<1>6. CASE WritePrescale
  <2> DEFINE next == [pca EXCEPT !.step = "WAKE",
                                 !.prescaled = @ \/ "SLEEP" \in pca.mode1]
  <2>1. pca.step = "PRESCALE" /\ "SLEEP" \in pca.mode1
    BY <1>0, <1>6 DEF WritePrescale, SetUp, Written
  <2>2. next = [pca EXCEPT !.step = "WAKE", !.prescaled = TRUE]
    BY <1>0, <2>1 DEF Chips
  <2>3. next \in Chips /\ Written(next) /\ next.step \notin {"RESET VER", "RESET SEQ", "DONE"}
    BY <1>0, <2>1, <2>2 DEF Chips, Steps, Written, Initialised
  <2>4. QED
    BY <1>6, <2>3, SetUpLemma DEF WritePrescale
<1>7. CASE WriteOld
  <2> DEFINE next == [pca EXCEPT !.step = "RESTART", !.mode1 = pca.old]
  <2>1. pca.step = "WAKE"
    BY <1>7 DEF WriteOld, SetUp
  <2>2. next \in Chips /\ Written(next) /\ next.step \notin {"RESET VER", "RESET SEQ", "DONE"}
    BY <1>0, <2>1 DEF Chips, Steps, Written, Initialised
  <2>3. QED
    BY <1>7, <2>2, SetUpLemma DEF WriteOld
<1>8. CASE WriteRestart
  <2> DEFINE next == [pca EXCEPT !.step = "MUTEX", !.mode1 = pca.old \cup {"AI"}]
  <2>1. pca.step = "RESTART"
    BY <1>8 DEF WriteRestart, SetUp
  <2>2. next \in Chips /\ Written(next) /\ next.step \notin {"RESET VER", "RESET SEQ", "DONE"}
    BY <1>0, <2>1 DEF Chips, Steps, Written, Initialised, Mode1Bits
  <2>3. QED
    BY <1>8, <2>2, SetUpLemma DEF WriteRestart
<1>9. CASE InitMutex
  <2> DEFINE next == [pca EXCEPT !.step = "TIMER"]
  <2>1. pca.step = "MUTEX"
    BY <1>9 DEF InitMutex, SetUp
  <2>2. next \in Chips /\ Written(next) /\ next.step \notin {"RESET VER", "RESET SEQ", "DONE"}
    BY <1>0, <2>1 DEF Chips, Steps, Written, Initialised
  <2>3. QED
    BY <1>9, <2>2, SetUpLemma DEF InitMutex
<1>10. CASE InitTimer
  <2> DEFINE next == [pca EXCEPT !.step = "RESET HOR"]
  <2>1. pca.step = "TIMER"
    BY <1>10 DEF InitTimer, SetUp
  <2>2. next \in Chips /\ Written(next) /\ next.step \notin {"RESET VER", "RESET SEQ", "DONE"}
    BY <1>0, <2>1 DEF Chips, Steps, Written, Initialised
  <2>3. QED
    BY <1>10, <2>2, SetUpLemma DEF InitTimer
<1>11. CASE ResetHor \/ ResetVer
  BY <1>11, ResetHorInv, ResetVerInv
<1>12. CASE EnterIdle
  BY <1>12, EnterIdleInv
<1>13. CASE SetUpFails
  <2> USE <1>13 DEF SetUpFails
  <2>1. TypeOK'
    BY Types, NewTypes
  <2>2. TargetInv'
    BY DEF TargetInv, CallInv, RegistryInv, Calling
  <2>3. ChipInv'
    BY DEF ChipInv, Working
  <2>4. RotationInv'
    BY DEF RotationInv
  <2>5. QED
    BY <2>1, <2>2, <2>3, <2>4
<1>14. QED
  BY <1>1, <1>2, <1>3, <1>4, <1>5, <1>6, <1>7, <1>8, <1>9, <1>10, <1>11, <1>12,
     <1>13 DEF SetUpStep

-----------------------------------------------------------------------------
(* The thread of the object: one lemma per action                          *)

LEMMA IdleDirectionsInv ==
  ASSUME ServoIInv, IdleDirections
  PROVE  ServoIInv'
<1> USE DEF ServoIInv
<1>0. /\ inbox' \in Seq(Inputs) /\ Len(inbox') <= QueueCapacity
      /\ NoneIn(inbox) => NoneIn(inbox')
      /\ OneIn(inbox) => OneIn(inbox')
  BY TakeOther DEF IdleDirections, Events
<1>m. scan \in Angles
  BY Types
<1>1. /\ pwm' \in Angles /\ frame' \in Angles /\ failures' \in 0 .. MaxFailures
  BY <1>m, MoveLemma DEF IdleDirections
<1>2. TypeOK'
  BY <1>0, <1>1, <1>m, Types, NewTypes DEF IdleDirections, Working
<1>3. TargetInv'
  BY DEF IdleDirections, TargetInv, CallInv, RegistryInv, Calling
<1>4. ChipInv'
  BY DEF IdleDirections, ChipInv, Working
<1>5. RotationInv'
  BY <1>0 DEF IdleDirections, RotationInv
<1>6. QED
  BY <1>2, <1>3, <1>4, <1>5

LEMMA ScanNoiseInv ==
  ASSUME ServoIInv, ScanNoise
  PROVE  ServoIInv'
<1> USE DEF ServoIInv
<1>0. /\ inbox' \in Seq(Inputs) /\ Len(inbox') <= QueueCapacity
      /\ NoneIn(inbox) => NoneIn(inbox')
      /\ OneIn(inbox) => OneIn(inbox')
  BY TakeOther DEF ScanNoise, Events
<1>m. target \in Angles
  BY Types
<1>1. /\ pwm' \in Angles /\ frame' \in Angles /\ failures' \in 0 .. MaxFailures
  BY <1>m, MoveLemma DEF ScanNoise
<1>2. TypeOK'
  BY <1>0, <1>1, <1>m, Types, NewTypes DEF ScanNoise, Working
<1>3. TargetInv'
  BY DEF ScanNoise, TargetInv, CallInv, RegistryInv, Calling
<1>4. ChipInv'
  BY DEF ScanNoise, ChipInv, Working
<1>5. RotationInv'
  BY <1>0 DEF ScanNoise, RotationInv
<1>6. QED
  BY <1>2, <1>3, <1>4, <1>5

LEMMA ScanLockInv ==
  ASSUME ServoIInv, ScanLock
  PROVE  ServoIInv'
<1> USE DEF ServoIInv
<1>0. /\ inbox' \in Seq(Inputs) /\ Len(inbox') <= QueueCapacity
      /\ NoneIn(inbox) => NoneIn(inbox')
      /\ OneIn(inbox) => OneIn(inbox')
  BY TakeOther DEF ScanLock, Events
<1>m. target \in Angles
  BY Types
<1>1. /\ pwm' \in Angles /\ frame' \in Angles /\ failures' \in 0 .. MaxFailures
  BY <1>m, MoveLemma DEF ScanLock
<1>2. TypeOK'
  BY <1>0, <1>1, <1>m, Types, NewTypes DEF ScanLock, Working
<1>3. TargetInv'
  BY DEF ScanLock, TargetInv, CallInv, RegistryInv, Calling
<1>4. ChipInv'
  BY DEF ScanLock, ChipInv, Working
<1>5. RotationInv'
  BY <1>0 DEF ScanLock, RotationInv
<1>6. QED
  BY <1>2, <1>3, <1>4, <1>5

LEMMA LockScanInv ==
  ASSUME ServoIInv, LockScan
  PROVE  ServoIInv'
<1> USE DEF ServoIInv
<1>0. /\ inbox' \in Seq(Inputs) /\ Len(inbox') <= QueueCapacity
      /\ NoneIn(inbox) => NoneIn(inbox')
      /\ OneIn(inbox) => OneIn(inbox')
  BY TakeOther DEF LockScan, Events
<1>m. scan \in Angles
  BY Types
<1>1. /\ pwm' \in Angles /\ frame' \in Angles /\ failures' \in 0 .. MaxFailures
  BY <1>m, MoveLemma DEF LockScan
<1>2. TypeOK'
  BY <1>0, <1>1, <1>m, Types, NewTypes DEF LockScan, Working
<1>3. TargetInv'
  BY DEF LockScan, TargetInv, CallInv, RegistryInv, Calling
<1>4. ChipInv'
  BY DEF LockScan, ChipInv, Working
<1>5. RotationInv'
  BY <1>0 DEF LockScan, RotationInv
<1>6. QED
  BY <1>2, <1>3, <1>4, <1>5

LEMMA NoiseTimeoutInv ==
  ASSUME ServoIInv, NoiseTimeout
  PROVE  ServoIInv'
<1> USE DEF ServoIInv
<1>0. /\ inbox' \in Seq(Inputs) /\ Len(inbox') <= QueueCapacity
      /\ ~late /\ NoneIn(inbox')
  BY TakeTimeout DEF NoiseTimeout
<1>m. scan \in Angles
  BY Types
<1>1. /\ pwm' \in Angles /\ frame' \in Angles /\ failures' \in 0 .. MaxFailures
  BY <1>m, MoveLemma DEF NoiseTimeout
<1>2. TypeOK'
  BY <1>0, <1>1, <1>m, Types, NewTypes DEF NoiseTimeout, Working
<1>3. TargetInv'
  BY DEF NoiseTimeout, TargetInv, CallInv, RegistryInv, Calling
<1>4. ChipInv'
  BY DEF NoiseTimeout, ChipInv, Working
<1>5. RotationInv'
  BY <1>0 DEF NoiseTimeout, RotationInv
<1>6. QED
  BY <1>2, <1>3, <1>4, <1>5

LEMMA LockDirectionsInv ==
  ASSUME ServoIInv, LockDirections
  PROVE  ServoIInv'
<1> USE DEF ServoIInv
<1>0. /\ inbox' \in Seq(Inputs) /\ Len(inbox') <= QueueCapacity
      /\ NoneIn(inbox) => NoneIn(inbox')
      /\ OneIn(inbox) => OneIn(inbox')
  BY TakeOther DEF LockDirections, Events
<1>1. /\ pwm' \in Angles /\ frame' \in Angles /\ failures' \in 0 .. MaxFailures
  <2>1. CASE lastSeq = seq
    BY <2>1, Types DEF LockDirections
  <2>2. CASE lastSeq # seq
    BY <2>2, Types, MoveLemma DEF LockDirections
  <2>3. QED
    BY <2>1, <2>2
<1>2. TypeOK'
  BY <1>0, <1>1, Types, NewTypes DEF LockDirections, Working
<1>3. TargetInv'
  BY DEF LockDirections, TargetInv, CallInv, RegistryInv, Calling
<1>4. ChipInv'
  BY DEF LockDirections, ChipInv, Working
<1>5. RotationInv'
  BY <1>0 DEF LockDirections, RotationInv
<1>6. QED
  BY <1>2, <1>3, <1>4, <1>5

LEMMA IgnoreInv ==
  ASSUME ServoIInv, Ignore
  PROVE  ServoIInv'
<1> USE DEF ServoIInv
<1>0. /\ inbox' \in Seq(Inputs) /\ Len(inbox') <= QueueCapacity
      /\ NoneIn(inbox) => NoneIn(inbox')
      /\ OneIn(inbox) => OneIn(inbox')
  BY TakeOther DEF Ignore, Events
<1>2. TypeOK'
  BY <1>0, Types, NewTypes DEF Ignore
<1>3. TargetInv'
  BY DEF Ignore, TargetInv, CallInv, RegistryInv, Calling
<1>4. ChipInv'
  BY DEF Ignore, ChipInv, Working
<1>5. RotationInv'
  BY <1>0 DEF Ignore, RotationInv
<1>6. QED
  BY <1>2, <1>3, <1>4, <1>5

LEMMA ScanDirectionsInv ==
  ASSUME ServoIInv, ScanDirections
  PROVE  ServoIInv'
<1> USE DEF ServoIInv
<1>0. /\ inbox' \in Seq(Inputs) /\ Len(inbox') <= QueueCapacity
      /\ NoneIn(inbox) => NoneIn(inbox')
      /\ OneIn(inbox) => OneIn(inbox')
  BY TakeOther DEF ScanDirections, Events
<1> DEFINE next == ScanOperation(scan, up)
<1>m. next.at \in Angles /\ next.up \in BOOLEAN
  BY Types, ScanLemma
<1>1. /\ pwm' \in Angles /\ frame' \in Angles /\ failures' \in 0 .. MaxFailures
  BY <1>m, MoveLemma DEF ScanDirections, MoveTo
<1>s. scan' \in Angles
  <2>1. CASE scan' = next.at
    BY <2>1, <1>m
  <2>2. CASE \E h \in ReadBack(pwm'[1], next.at[1]), v \in ReadBack(pwm'[2], next.at[2]) :
               scan' = <<h, v>>
    BY <2>2, <1>m DEF ReadBack, Angles
  <2>3. QED
    BY <2>1, <2>2 DEF ScanDirections
<1>2. TypeOK'
  BY <1>0, <1>1, <1>m, <1>s, Types, NewTypes DEF ScanDirections, Working
<1>3. TargetInv'
  BY DEF ScanDirections, TargetInv, CallInv, RegistryInv, Calling
<1>4. ChipInv'
  BY DEF ScanDirections, ChipInv, Working
<1>5. RotationInv'
  BY <1>0 DEF ScanDirections, RotationInv
<1>6. QED
  BY <1>2, <1>3, <1>4, <1>5

-----------------------------------------------------------------------------
(* The timer, the publishers and the threads that set targets              *)

LEMMA TimerExpiresInv ==
  ASSUME ServoIInv, TimerExpires
  PROVE  ServoIInv'
<1> USE DEF ServoIInv, TimerExpires
<1>1. TypeOK'
  BY Types, NewTypes
<1>2. TargetInv' /\ ChipInv'
  BY DEF TargetInv, CallInv, RegistryInv, Calling, ChipInv
<1>3. RotationInv'
  BY DEF RotationInv
<1>4. QED
  BY <1>1, <1>2, <1>3

LEMMA TimeoutHandlerInv ==
  ASSUME ServoIInv, TimeoutHandler
  PROVE  ServoIInv'
<1> USE DEF ServoIInv, TimeoutHandler
<1>0. /\ inbox' \in Seq(Inputs) /\ Len(inbox') <= QueueCapacity
      /\ NoneIn(inbox) => OneIn(inbox') \/ NoneIn(inbox')
  BY Types, PostQueue DEF Inputs
<1>1. TypeOK'
  BY <1>0, Types, NewTypes
<1>2. TargetInv' /\ ChipInv'
  BY DEF TargetInv, CallInv, RegistryInv, Calling, ChipInv
<1>3. RotationInv'
  BY <1>0 DEF RotationInv
<1>4. QED
  BY <1>1, <1>2, <1>3

LEMMA PostInv ==
  ASSUME ServoIInv, NEW e \in Events, Post(e)
  PROVE  ServoIInv'
<1> USE DEF ServoIInv, Post
<1>0. e \in Inputs /\ e # "ROTATION_TIMEOUT"
  BY DEF Events, Inputs
<1>1. /\ inbox' \in Seq(Inputs) /\ Len(inbox') <= QueueCapacity
      /\ NoneIn(inbox) => NoneIn(inbox')
      /\ OneIn(inbox) => OneIn(inbox')
  BY <1>0, Types, PostQueue
<1>2. TypeOK'
  BY <1>1, Types, NewTypes
<1>3. TargetInv' /\ ChipInv'
  BY DEF TargetInv, CallInv, RegistryInv, Calling, ChipInv
<1>4. RotationInv'
  BY <1>1 DEF RotationInv
<1>5. QED
  BY <1>2, <1>3, <1>4

LEMMA SetTargetHorInv ==
  ASSUME ServoIInv, NEW t \in Targets, SetTargetHor(t)
  PROVE  ServoIInv'
<1> USE DEF ServoIInv, SetTargetHor
<1>0. <<t[1], target[2]>> \in Angles /\ target'[1] = t[1]
  BY TargetsType, Types DEF Angles
<1>c. /\ setting' = [to |-> t, next |-> 0]
      /\ setting'.to = t /\ setting'.next = 0 /\ NoCall.next = -1
  BY DEF NoCall
<1>n. 0 \in 0 .. MaxTargets /\ 0 \in Nat /\ 0 # -1
  BY NoTargets
<1>q. seq' < MaxTargets
  <2>1. seq' = seq /\ seq < MaxTargets
    BY Zenon
  <2>2. QED
    BY <2>1
<1>1. setting' \in Calls /\ setting' # NoCall
  <2>1. setting' # NoCall
    BY <1>c, <1>n
  <2>2. setting' \in Calls
    BY <1>c, <1>n DEF Calls
  <2>3. QED
    BY <2>1, <2>2
<1>d. Calling'
  BY <1>1 DEF Calling
<1>2. TypeOK'
  BY <1>0, <1>1, Types, NewTypes
<1>3. TargetInv'
  <2>1. CallInv'
    BY <1>c, <1>d, <1>n, <1>q DEF CallInv
  <2>2. RegistryInv'
    BY <1>0, <1>c, <1>d DEF RegistryInv
  <2>3. QED
    BY <2>1, <2>2 DEF TargetInv
<1>4. ChipInv'
  BY DEF ChipInv
<1>5. RotationInv'
  BY DEF RotationInv
<1>6. QED
  BY <1>2, <1>3, <1>4, <1>5

LEMMA SetTargetVerInv ==
  ASSUME ServoIInv, SetTargetVer
  PROVE  ServoIInv'
<1> USE DEF ServoIInv, SetTargetVer
<1>0. setting.to \in Targets /\ setting.to \in Angles /\ seq < MaxTargets /\ seq \in Nat
  <2>1. setting.to \in Targets /\ seq < MaxTargets
    BY DEF TargetInv, CallInv, RegistryInv
  <2>2. QED
    BY <2>1, TargetsType, Types
<1>1. setting \in [to : Targets, next : 0 .. MaxTargets]
  BY Types DEF Calls, Calling
<1>2. /\ setting' \in Calls /\ setting'.to = setting.to /\ setting'.next = seq + 1
      /\ setting'.next \in Nat /\ setting'.next # 0
  BY <1>0, <1>1, Constants DEF Calls
<1>3. Calling'
  BY <1>2 DEF Calling, NoCall
<1>4. /\ target' = <<target[1], setting.to[2]>> /\ target' \in Angles
      /\ target'[1] = target[1] /\ target'[2] = setting.to[2]
      /\ setting.to = <<setting.to[1], setting.to[2]>>
  BY <1>0, Types, SMTT(30) DEF Angles
<1>5. TypeOK'
  BY <1>2, <1>4, Types, NewTypes
<1>6. TargetInv'
  BY <1>0, <1>2, <1>3, <1>4 DEF TargetInv, CallInv, RegistryInv
<1>7. ChipInv'
  BY DEF ChipInv
<1>8. RotationInv'
  BY DEF RotationInv
<1>9. QED
  BY <1>5, <1>6, <1>7, <1>8

LEMMA SetTargetSeqInv ==
  ASSUME ServoIInv, SetTargetSeq
  PROVE  ServoIInv'
<1> USE DEF ServoIInv, SetTargetSeq
<1>0. setting \in [to : Targets, next : 0 .. MaxTargets]
  BY Types DEF Calls, Calling
<1>1. setting' \in Calls /\ ~Calling' /\ seq' \in 0 .. MaxTargets
  BY <1>0 DEF Calls, Calling
<1>2. TypeOK'
  BY <1>1, Types, NewTypes
<1>3. TargetInv'
  <2>1. target = <<target[1], target[2]>> /\ setting.to = <<setting.to[1], setting.to[2]>>
    BY <1>0, TargetsType, Types, SMTT(30) DEF Angles
  <2>2. CASE pca.step = "RESET VER"
    BY <1>0, <1>1, <2>2 DEF TargetInv, CallInv, RegistryInv
  <2>3. CASE pca.step \in {"RESET SEQ", "DONE"}
    <3>1. target \in Targets \cup {Start} \/ (raced /\ target \in Halves)
      BY <1>0, <2>1, <2>3 DEF TargetInv, CallInv, RegistryInv, Start, Halves
    <3>2. QED
      BY <1>1, <2>3, <3>1 DEF TargetInv, CallInv, RegistryInv
  <2>4. QED
    BY <1>1, <2>2, <2>3 DEF TargetInv, CallInv, RegistryInv
<1>4. ChipInv'
  BY DEF ChipInv
<1>5. RotationInv'
  BY DEF RotationInv
<1>6. QED
  BY <1>2, <1>3, <1>4, <1>5

-----------------------------------------------------------------------------
(* The theorems                                                            *)

LEMMA StepInv == ServoIInv /\ [Next]_vars => ServoIInv'
<1> SUFFICES ASSUME ServoIInv, [Next]_vars PROVE ServoIInv'
  OBVIOUS
<1>1. CASE UNCHANGED vars
  <2>1. TypeOK'
    BY <1>1, Types, NewTypes DEF vars, ServoIInv
  <2>4. TargetInv'
    BY <1>1 DEF vars, ServoIInv, TargetInv, CallInv, RegistryInv, Calling
  <2>2. ChipInv' /\ RotationInv'
    BY <1>1 DEF vars, ServoIInv, ChipInv, Written, RotationInv, NoneIn, OneIn
  <2>3. QED
    BY <2>1, <2>2, <2>4 DEF ServoIInv
<1>2. CASE AOStep
  BY <1>2, SetUpInv, IdleDirectionsInv, ScanDirectionsInv, ScanNoiseInv, ScanLockInv,
     NoiseTimeoutInv, LockDirectionsInv, LockScanInv, IgnoreInv DEF AOStep
<1>3. QED
  BY <1>1, <1>2, TimerExpiresInv, TimeoutHandlerInv, PostInv, SetTargetHorInv,
     SetTargetVerInv, SetTargetSeqInv DEF Next

(* The inductive invariant holds.                                          *)
THEOREM ServoInvariant == Spec => []ServoIInv
BY InitInv, StepInv, PTL DEF Spec

(* The chip is set up whenever the object works: the order of the register *)
(* writes in pca9685_init, whatever the chip held before.                  *)
THEOREM ChipIsReady == Spec => []ChipReady
<1>1. ServoIInv => ChipReady
  BY DEF ServoIInv, ChipInv, Written, Initialised, ChipReady
<1>2. QED
  BY <1>1, ServoInvariant, PTL

(* The mutex of the registry: no reader turns the servos to half of one    *)
(* target and half of another; and the reset without it mixes the start    *)
(* into a target only when it writes while that target is being set.       *)
THEOREM TargetsAreWhole == Spec => TargetsNotMixed
<1>1. ASSUME ServoIInv, [Next]_vars,
             state' \in {"NOISE_SCAN", "TARGET_LOCK"}, pwm' # pwm, failures' = failures
      PROVE  pwm' \in Targets \cup {Start} \/ (raced /\ pwm' \in Halves)
  <2> USE DEF ServoIInv
  <2>0. state \in Working /\ ~Calling => target \in Targets \cup {Start} \/ (raced /\ target \in Halves)
    <3>1. state \in Working => pca.step \in {"RESET SEQ", "DONE"}
      BY <1>1 DEF ChipInv
    <3>2. QED
      BY <1>1, <3>1 DEF TargetInv, CallInv, RegistryInv
  <2>1. CASE ScanNoise
    BY <1>1, <2>0, <2>1, Types, MoveLemma DEF ScanNoise, TargetReadable, Working
  <2>2. CASE ScanLock
    BY <1>1, <2>0, <2>2, Types, MoveLemma DEF ScanLock, TargetReadable, Working
  <2>3. CASE LockDirections
    BY <1>1, <2>0, <2>3, Types, MoveLemma DEF LockDirections, TargetReadable, Working
  <2>4. CASE SetUpStep
    BY <1>1, <2>4 DEF SetUpStep, SetUp, OpenBus, WriteMode2, WriteMode1, ReadMode1,
       WriteSleep, WritePrescale, WriteOld, WriteRestart, InitMutex, InitTimer,
       SetUpFails, ResetHor, ResetVer, EnterIdle
  <2>5. CASE IdleDirections \/ ScanDirections \/ NoiseTimeout \/ LockScan
    BY <1>1, <2>5 DEF IdleDirections, ScanDirections, NoiseTimeout, LockScan
  <2>6. CASE Ignore
    BY <1>1, <2>6 DEF Ignore
  <2>7. CASE TimerExpires \/ TimeoutHandler \/ SetTargetVer \/ SetTargetSeq
    BY <1>1, <2>7 DEF TimerExpires, TimeoutHandler, SetTargetVer, SetTargetSeq
  <2>8. CASE (\E e \in Events : Post(e)) \/ (\E t \in Targets : SetTargetHor(t))
    BY <1>1, <2>8 DEF Post, SetTargetHor
  <2>9. CASE UNCHANGED vars
    BY <1>1, <2>9 DEF vars
  <2>10. QED
    BY <1>1, <2>1, <2>2, <2>3, <2>4, <2>5, <2>6, <2>7, <2>8, <2>9 DEF Next, AOStep
<1>2. ServoIInv /\ [Next]_vars =>
        [state' \in {"NOISE_SCAN", "TARGET_LOCK"} /\ pwm' # pwm /\ failures' = failures =>
           pwm' \in Targets \cup {Start} \/ (raced /\ pwm' \in Halves)]_vars
  BY <1>1
<1>3. QED
  BY <1>2, ServoInvariant, PTL DEF Spec, TargetsNotMixed

(* Only the timer of the current wait ends it: at most one rotation        *)
(* timeout exists in any form.                                             *)
THEOREM RotationAwaited == Spec => WaitsForRotation
<1>1. ASSUME ServoIInv, [Next]_vars, state = "NOISE_SCAN", state' # state
      PROVE  ~timer /\ ~late
  <2> USE DEF ServoIInv
  <2>1. CASE NoiseTimeout
    <3>1. Take("ROTATION_TIMEOUT")
      BY <2>1 DEF NoiseTimeout
    <3>2. QED
      BY <1>1, <3>1, TakeTimeout
  <2>2. CASE SetUpStep
    BY <1>1, <2>2 DEF SetUpStep, SetUp, OpenBus, WriteMode2, WriteMode1, ReadMode1,
       WriteSleep, WritePrescale, WriteOld, WriteRestart, InitMutex, InitTimer,
       SetUpFails, ResetHor, ResetVer, EnterIdle, ChipInv
  <2>3. CASE IdleDirections \/ ScanDirections \/ ScanNoise \/ ScanLock
    BY <1>1, <2>3 DEF IdleDirections, ScanDirections, ScanNoise, ScanLock
  <2>4. CASE LockDirections \/ LockScan
    BY <1>1, <2>4 DEF LockDirections, LockScan
  <2>5. CASE Ignore
    BY <1>1, <2>5 DEF Ignore
  <2>6. CASE TimerExpires \/ TimeoutHandler \/ SetTargetVer \/ SetTargetSeq
    BY <1>1, <2>6 DEF TimerExpires, TimeoutHandler, SetTargetVer, SetTargetSeq
  <2>7. CASE (\E e \in Events : Post(e)) \/ (\E t \in Targets : SetTargetHor(t))
    BY <1>1, <2>7 DEF Post, SetTargetHor
  <2>8. CASE UNCHANGED vars
    BY <1>1, <2>8 DEF vars
  <2>9. QED
    BY <1>1, <2>1, <2>2, <2>3, <2>4, <2>5, <2>6, <2>7, <2>8 DEF Next, AOStep
<1>2. ServoIInv /\ [Next]_vars =>
        [state = "NOISE_SCAN" /\ state' # state => ~timer /\ ~late]_vars
  BY <1>1
<1>3. QED
  BY <1>2, ServoInvariant, PTL DEF Spec, WaitsForRotation

-----------------------------------------------------------------------------
(* NOISE_SCAN can end.  Its timeout is lost only on a full queue, and while*)
(* none is queued the queue holds events of others alone, which are fewer  *)
(* than its slots.                                                         *)

OthersBounded == Cardinality(Others(inbox)) <= MaxQueued

LEMMA OthersFinite ==
  ASSUME NEW q \in Seq(Inputs)
  PROVE  IsFiniteSet(Others(q)) /\ Cardinality(Others(q)) \in Nat
<1>1. IsFiniteSet(1 .. Len(q))
  BY FS_Interval
<1>2. Others(q) \in SUBSET (1 .. Len(q))
  BY DEF Others
<1>3. IsFiniteSet(Others(q))
  BY <1>1, <1>2, FS_Subset
<1>4. QED
  BY <1>3, FS_CardinalityType

LEMMA OthersTail ==
  ASSUME NEW q \in Seq(Inputs), q # <<>>
  PROVE  Cardinality(Others(Tail(q))) <= Cardinality(Others(q))
<1> DEFINE shift == [i \in Others(Tail(q)) |-> i + 1]
<1>1. shift \in [Others(Tail(q)) -> Others(q)]
  BY DEF Others, Inputs
<1>2. \A i, j \in Others(Tail(q)) : shift[i] = shift[j] => i = j
  BY DEF Others, Inputs
<1>3. shift \in Injection(Others(Tail(q)), Others(q))
  BY <1>1, <1>2, Fun_IsInj
<1>4. QED
  BY <1>3, OthersFinite, FS_Injection

LEMMA OthersPosted ==
  ASSUME NEW q \in Seq(Inputs), NEW e \in Inputs
  PROVE  /\ Cardinality(Others(Posted(q, e))) <= Cardinality(Others(q)) + 1
         /\ e = "ROTATION_TIMEOUT" => Others(Posted(q, e)) = Others(q)
<1>1. CASE Posted(q, e) = q
  BY <1>1, OthersFinite
<1>2. CASE Posted(q, e) = Append(q, e)
  <2>1. CASE e \in Events
    <3>1. Others(Append(q, e)) = Others(q) \cup {Len(q) + 1}
      BY <2>1 DEF Others, Inputs
    <3>2. IsFiniteSet(Others(q)) /\ Len(q) + 1 \notin Others(q)
      BY OthersFinite DEF Others
    <3>3. Cardinality(Others(q) \cup {Len(q) + 1}) = Cardinality(Others(q)) + 1
      BY <3>2, FS_AddElement
    <3>4. e # "ROTATION_TIMEOUT"
      BY <2>1 DEF Events
    <3>5. QED
      BY <1>2, <3>1, <3>3, <3>4, OthersFinite
  <2>2. CASE e \notin Events
    <3>1. Others(Append(q, e)) = Others(q)
      BY <2>2 DEF Others, Inputs
    <3>2. QED
      BY <1>2, <3>1, OthersFinite
  <2>3. QED
    BY <2>1, <2>2
<1>3. QED
  BY <1>1, <1>2 DEF Posted

(* A queue without a rotation timeout is a queue of others' events.        *)
LEMMA OnlyOthers ==
  ASSUME NEW q \in Seq(Inputs), NoneIn(q)
  PROVE  Cardinality(Others(q)) = Len(q)
<1>1. Others(q) = 1 .. Len(q)
  BY DEF Others, NoneIn, Inputs
<1>2. Len(q) \in Nat /\ 1 \in Int /\ Len(q) \in Int
  OBVIOUS
<1>3. Cardinality(1 .. Len(q)) = IF 1 > Len(q) THEN 0 ELSE Len(q) - 1 + 1
  BY <1>2, FS_Interval
<1>4. QED
  BY <1>1, <1>2, <1>3

(* What a step does to the queue.                                          *)
LEMMA InboxStep ==
  ASSUME [Next]_vars
  PROVE  \/ inbox' = inbox
         \/ inbox # <<>> /\ inbox' = Tail(inbox)
         \/ inbox' = Posted(inbox, "ROTATION_TIMEOUT")
         \/ FromOthers < MaxQueued /\ \E e \in Events : inbox' = Posted(inbox, e)
<1>1. CASE SetUpStep
  BY <1>1 DEF SetUpStep, SetUp, OpenBus, WriteMode2, WriteMode1, ReadMode1,
     WriteSleep, WritePrescale, WriteOld, WriteRestart, InitMutex, InitTimer,
       SetUpFails, ResetHor, ResetVer, EnterIdle
<1>2. CASE IdleDirections \/ ScanDirections \/ ScanNoise \/ ScanLock
  BY <1>2 DEF IdleDirections, ScanDirections, ScanNoise, ScanLock, Take
<1>3. CASE NoiseTimeout \/ LockDirections \/ LockScan
  BY <1>3 DEF NoiseTimeout, LockDirections, LockScan, Take
<1>4. CASE Ignore
  BY <1>4 DEF Ignore, Take
<1>5. CASE TimerExpires \/ TimeoutHandler \/ SetTargetVer \/ SetTargetSeq
  BY <1>5 DEF TimerExpires, TimeoutHandler, SetTargetVer, SetTargetSeq
<1>6. CASE \E e \in Events : Post(e)
  BY <1>6 DEF Post
<1>7. CASE \E t \in Targets : SetTargetHor(t)
  BY <1>7 DEF SetTargetHor
<1>8. CASE UNCHANGED vars
  BY <1>8 DEF vars
<1>9. QED
  BY <1>1, <1>2, <1>3, <1>4, <1>5, <1>6, <1>7, <1>8 DEF Next, AOStep

LEMMA StepOthers == TypeOK /\ OthersBounded /\ [Next]_vars => OthersBounded'
<1> SUFFICES ASSUME TypeOK, OthersBounded, [Next]_vars PROVE OthersBounded'
  OBVIOUS
<1> USE DEF OthersBounded
<1>0. inbox \in Seq(Inputs) /\ MaxQueued \in Nat
  BY Types, Constants
<1>1. CASE inbox' = inbox
  BY <1>1
<1>2. CASE inbox # <<>> /\ inbox' = Tail(inbox)
  <2>1. Tail(inbox) \in Seq(Inputs)
    BY <1>0, <1>2
  <2>2. Cardinality(Others(inbox)) \in Nat /\ Cardinality(Others(Tail(inbox))) \in Nat
    BY <1>0, <2>1, OthersFinite
  <2>3. Cardinality(Others(Tail(inbox))) <= Cardinality(Others(inbox))
    BY <1>0, <1>2, OthersTail
  <2>4. QED
    BY <1>0, <1>2, <2>2, <2>3
<1>3. CASE inbox' = Posted(inbox, "ROTATION_TIMEOUT")
  <2>1. "ROTATION_TIMEOUT" \in Inputs
    BY DEF Inputs
  <2>2. Others(Posted(inbox, "ROTATION_TIMEOUT")) = Others(inbox)
    BY <1>0, <2>1, OthersPosted
  <2>3. QED
    BY <1>3, <2>2
<1>4. CASE FromOthers < MaxQueued /\ \E e \in Events : inbox' = Posted(inbox, e)
  <2>1. PICK e \in Events : inbox' = Posted(inbox, e)
    BY <1>4
  <2>2. e \in Inputs /\ Posted(inbox, e) \in Seq(Inputs)
    BY <1>0, Types, PostQueue DEF Inputs
  <2>3. Cardinality(Others(inbox)) < MaxQueued
    BY <1>4 DEF FromOthers, Others
  <2>4. QED
    BY <1>0, <2>1, <2>2, <2>3, OthersPosted, OthersFinite
<1>5. QED
  BY <1>1, <1>2, <1>3, <1>4, InboxStep

LEMMA OneIsQueued ==
  ASSUME NEW q, OneIn(q)
  PROVE  \E i \in DOMAIN q : q[i] = "ROTATION_TIMEOUT"
BY DEF OneIn

LEMMA StepCanEnd ==
  ASSUME MaxQueued < QueueCapacity
  PROVE  ServoIInv /\ OthersBounded /\ NoiseScanCanEnd /\ [Next]_vars => NoiseScanCanEnd'
<1> SUFFICES ASSUME ServoIInv, OthersBounded, NoiseScanCanEnd, [Next]_vars,
                    state' = "NOISE_SCAN"
             PROVE  timer' \/ late' \/ OneIn(inbox')
  BY OneIsQueued DEF NoiseScanCanEnd
<1> USE DEF ServoIInv
<1>0. state = "NOISE_SCAN" => timer \/ late \/ OneIn(inbox)
  BY DEF NoiseScanCanEnd, RotationInv, NoneIn
<1>1. CASE SetUpStep
  BY <1>1 DEF SetUpStep, SetUp, OpenBus, WriteMode2, WriteMode1, ReadMode1,
     WriteSleep, WritePrescale, WriteOld, WriteRestart, InitMutex, InitTimer,
     SetUpFails, ResetHor, ResetVer, EnterIdle, ChipInv
<1>2. CASE IdleDirections \/ ScanDirections \/ ScanLock \/ NoiseTimeout
  BY <1>2 DEF IdleDirections, ScanDirections, ScanLock, NoiseTimeout
<1>3. CASE LockDirections \/ LockScan
  BY <1>3 DEF LockDirections, LockScan
<1>4. CASE ScanNoise
  BY <1>4 DEF ScanNoise
<1>5. CASE Ignore
  <2>1. OneIn(inbox) => OneIn(inbox')
    BY <1>5, TakeOther DEF Ignore, Events
  <2>2. QED
    BY <1>0, <1>5, <2>1 DEF Ignore
<1>6. CASE TimerExpires
  BY <1>6 DEF TimerExpires
<1>7. CASE TimeoutHandler
  <2>1. NoneIn(inbox)
    BY <1>7 DEF TimeoutHandler, RotationInv
  <2>2. Len(inbox) < QueueCapacity
    BY <2>1, Types, OnlyOthers, Constants DEF OthersBounded
  <2>3. OneIn(Posted(inbox, "ROTATION_TIMEOUT"))
    BY <2>1, <2>2, Types, PostQueue DEF Inputs
  <2>4. QED
    BY <1>7, <2>3 DEF TimeoutHandler
<1>8. CASE \E e \in Events : Post(e)
  <2>1. PICK e \in Events : Post(e)
    BY <1>8
  <2>2. OneIn(inbox) => OneIn(Posted(inbox, e))
    BY Types, PostQueue DEF Inputs, Events
  <2>3. QED
    BY <1>0, <2>1, <2>2 DEF Post
<1>9. CASE \E t \in Targets : SetTargetHor(t)
  <2>1. UNCHANGED <<state, timer, late, inbox>>
    BY <1>9 DEF SetTargetHor
  <2>2. QED
    BY <1>0, <2>1
<1>10. CASE SetTargetVer \/ SetTargetSeq
  <2>1. UNCHANGED <<state, timer, late, inbox>>
    BY <1>10 DEF SetTargetVer, SetTargetSeq
  <2>2. QED
    BY <1>0, <2>1
<1>11. CASE UNCHANGED vars
  BY <1>0, <1>11 DEF vars
<1>12. QED
  BY <1>1, <1>2, <1>3, <1>4, <1>5, <1>6, <1>7, <1>8, <1>9, <1>10, <1>11 DEF Next, AOStep

(* As long as the events of others alone cannot fill the queue, a wait for *)
(* the rotation can end: the timeout_handler's post is not refused.        *)
THEOREM NoiseScanEndable ==
  ASSUME MaxQueued < QueueCapacity
  PROVE  Spec => []Inv
<1>1. Init => OthersBounded
  <2> SUFFICES ASSUME Init PROVE OthersBounded
    OBVIOUS
  <2>1. Others(inbox) = {}
    BY DEF Init, Others
  <2>2. QED
    BY <2>1, FS_EmptySet, Constants DEF OthersBounded
<1>2. Init => NoiseScanCanEnd
  BY DEF Init, NoiseScanCanEnd
<1>3. ServoIInv => TypeOK
  BY DEF ServoIInv
<1>4. TypeOK /\ NoiseScanCanEnd => Inv
  BY DEF Inv
<1>5. QED
  BY <1>1, <1>2, <1>3, <1>4, InitInv, StepInv, StepOthers, StepCanEnd, PTL DEF Spec
=============================================================================
