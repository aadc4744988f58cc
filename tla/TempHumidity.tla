---------------------------- MODULE TempHumidity ----------------------------
(***************************************************************************)
(* The temperature and humidity active object in time,                     *)
(* ddl/temperature_humidity/temperature_humidity_fsm.c.  The scheduler     *)
(* posts READ once per cycle; the object reads the sensor (Am2302) only    *)
(* when more than Gate has passed since the last read that succeeded, and  *)
(* repeats a failed read at once, a few times.  Time is counted in ticks;  *)
(* the cycle is a little shorter than the gate (1998 ms and 2000 ms).      *)
(***************************************************************************)
EXTENDS Naturals

CONSTANTS
  Cycle,         \* between two READ events: SLOTS * eSCHEDULER_TICK_MS
  Gate,          \* AM2302_MIN_READ_INTERVAL_MS
  RetryMax,      \* eTEMPERATURE_HUMIDITY_RETRY_MAX
  AttemptTime,   \* bound: the longest a read takes
  Latency,       \* bound: the longest an event waits for an idle object
  Horizon        \* bound: the clocks stop counting here

ASSUME TempHumidityAssumption ==
  /\ {Cycle, Gate, RetryMax, AttemptTime, Latency, Horizon} \subseteq Nat
  /\ RetryMax > 0
  /\ Cycle <= Gate
  /\ Gate + Latency + RetryMax * AttemptTime < 2 * Cycle

VARIABLES
  state,        \* the state of the FSM: IDLE, READ in its loop, or DECODE within it
  pending,      \* is a READ queued
  waited,       \* how long it has been
  busy,         \* how long the current read has taken
  retry,        \* aobj->retry
  valid,        \* aobj->frame->valid
  sincePost,    \* time since the last READ was posted
  sinceRead,    \* time since last_read_tick
  age           \* per field of the frame: of its data

readVars == <<state, pending, waited, busy, retry, valid, sincePost, sinceRead, age>>

Fields == {"humidity", "temperature"}

Init ==
  /\ state = "IDLE"
  /\ pending = FALSE
  /\ waited = 0
  /\ busy = 0
  /\ retry = 0
  /\ valid = FALSE
  /\ sincePost \in 0 .. Cycle
  /\ sinceRead = 0
  /\ age = [f \in Fields |-> Horizon]

Later(clock) == IF clock < Horizon THEN clock + 1 ELSE clock

(* Time passes unless something is due.                                    *)
Tick ==
  /\ sincePost < Cycle
  /\ pending /\ state = "IDLE" => waited < Latency
  /\ state # "IDLE" => busy < AttemptTime
  /\ sincePost' = sincePost + 1
  /\ sinceRead' = Later(sinceRead)
  /\ age' = [f \in Fields |-> Later(age[f])]
  /\ waited' = IF pending /\ state = "IDLE" THEN waited + 1 ELSE waited
  /\ busy' = IF state # "IDLE" THEN busy + 1 ELSE busy
  /\ UNCHANGED <<state, pending, retry, valid>>

(* The scheduler's READ; that one of its ticks is dropped is left out.     *)
PostRead ==
  /\ sincePost = Cycle
  /\ ~pending
  /\ pending' = TRUE
  /\ waited' = 0
  /\ sincePost' = 0
  /\ UNCHANGED <<state, busy, retry, valid, sinceRead, age>>

(* Entry of READ: the first read, if the gate lets it through.             *)
ReadGated ==
  /\ state = "IDLE"
  /\ pending
  /\ pending' = FALSE
  /\ \/ /\ sinceRead > Gate
        /\ state' = "READ"
        /\ busy' = 0
     \/ /\ sinceRead <= Gate
        /\ UNCHANGED <<state, busy>>
  /\ UNCHANGED <<waited, retry, valid, sincePost, sinceRead, age>>

(* A read succeeds: am2302_decode_frame writes the humidity first.         *)
ReadSucceeds ==
  /\ state = "READ"
  /\ state' = "DECODE"
  /\ age' = [age EXCEPT !["humidity"] = 0]
  /\ UNCHANGED <<pending, waited, busy, retry, valid, sincePost, sinceRead>>

(* Then the temperature; back to IDLE, whose entry resets the retries.     *)
ReadEnds ==
  /\ state = "DECODE"
  /\ age' = [age EXCEPT !["temperature"] = 0]
  /\ valid' = TRUE
  /\ sinceRead' = 0
  /\ state' = "IDLE"
  /\ retry' = 0
  /\ UNCHANGED <<pending, waited, busy, sincePost>>

(* Mutant: the frame stays valid when the retries are exhausted.           *)
FailsStillValid ==
  /\ state = "READ"
  /\ \/ /\ retry + 1 < RetryMax
        /\ retry' = retry + 1
        /\ busy' = 0
        /\ UNCHANGED <<state, valid>>
     \/ /\ retry + 1 = RetryMax
        /\ state' = "IDLE"
        /\ retry' = 0
        /\ UNCHANGED <<busy, valid>>
  /\ UNCHANGED <<pending, waited, sincePost, sinceRead, age>>

(* A read fails: the loop reads again at once, or gives up.                *)
ReadFails ==
  /\ state = "READ"
  /\ \/ /\ retry + 1 < RetryMax
        /\ retry' = retry + 1
        /\ busy' = 0
        /\ UNCHANGED <<state, valid>>
     \/ /\ retry + 1 = RetryMax
        /\ valid' = FALSE
        /\ state' = "IDLE"
        /\ retry' = 0
        /\ UNCHANGED busy
  /\ UNCHANGED <<pending, waited, sincePost, sinceRead, age>>

ReadStep == PostRead \/ ReadGated \/ ReadSucceeds \/ ReadEnds \/ ReadFails

-----------------------------------------------------------------------------
ReadTypeOK ==
  /\ state \in {"IDLE", "READ", "DECODE"}
  /\ pending \in BOOLEAN /\ valid \in BOOLEAN
  /\ waited \in 0 .. Latency
  /\ busy \in 0 .. AttemptTime
  /\ retry \in 0 .. RetryMax - 1
  /\ sincePost \in 0 .. Cycle
  /\ sinceRead \in 0 .. Horizon
  /\ age \in [Fields -> 0 .. Horizon]

MaxAge == 2 * Cycle + Latency + RetryMax * AttemptTime

(* A frame that is marked valid is never older than two cycles and the     *)
(* time a handler may take, whatever the sensor does: the gate skips one   *)
(* READ at most, and a read that fails for good invalidates the frame.     *)
AgeBounded == valid => \A f \in Fields : age[f] <= MaxAge
=============================================================================
