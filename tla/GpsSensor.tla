----------------------------- MODULE GpsSensor -----------------------------
(***************************************************************************)
(* The GPS active object, ddl/gps/gps_fsm.c: before it serves requests it  *)
(* sends the receiver a sequence of configuration messages, each built in  *)
(* the one buffer config_transmit_buf and sent when the completion of the  *)
(* one before has come back as a CONFIGURED event.  From IDLE on, it reads *)
(* by the protocol of SensorRead, whose actions this module takes over; it *)
(* adds the INIT state and the configuration writes.                       *)
(***************************************************************************)
EXTENDS SensorRead

CONSTANTS
  ConfigSteps,     \* CFG_SEQ_LEN
  ConfigFailures   \* bound: configuration writes that are refused or fail

ASSUME GpsAssumption == ConfigSteps \in Nat \ {0} /\ ConfigFailures \in Nat

VARIABLES
  configStep,      \* config_step
  configWrite,     \* the write of a configuration message
  transmitBuf,     \* the step whose message config_transmit_buf holds
  sent,            \* the steps whose messages have left the UART, in order
  failures         \* configuration writes that were refused or failed so far

gpsVars == <<configStep, configWrite, transmitBuf, sent, failures>>
allVars == <<vars, gpsVars>>

-----------------------------------------------------------------------------
(* config_send_current_step: fill the buffer and submit the write; nobody  *)
(* looks whether it was.                                                   *)
ConfigSendCurrentStep(step) ==
  /\ transmitBuf' = step
  /\ \/ configWrite' = "submitted" /\ UNCHANGED failures
     \/ /\ failures < ConfigFailures
        /\ failures' = failures + 1
        /\ configWrite' = "none"

(* The INIT event of gps_init_state sends the first message; without a     *)
(* timer it sends none and the object stays in ERROR.                      *)
GpsInit ==
  /\ configStep = 1
  /\ transmitBuf = 1
  /\ sent = <<>>
  /\ \/ InitIn("INIT") /\ configWrite = "submitted" /\ failures = 0
     \/ InitIn("INIT") /\ ConfigFailures > 0 /\ configWrite = "none" /\ failures = 1
     \/ InitIn("ERROR") /\ configWrite = "none" /\ failures = 0

(* Mutant: a message too few.                                              *)
ConfiguredEarly ==
  /\ state = "INIT"
  /\ Take("CONFIGURED")
  /\ configStep' = configStep + 1
  /\ \/ /\ configStep' < ConfigSteps
        /\ ConfigSendCurrentStep(configStep')
        /\ UNCHANGED <<state, retry>>
     \/ /\ configStep' >= ConfigSteps
        /\ state' = "IDLE"
        /\ retry' = 0
        /\ UNCHANGED <<configWrite, transmitBuf, failures>>
  /\ UNCHANGED <<systemTime, frame, timer, late, uart, mixed, resp, sensorVars, sent>>

InitConfigured ==
  /\ state = "INIT"
  /\ Take("CONFIGURED")
  /\ configStep' = configStep + 1
  /\ \/ /\ configStep' <= ConfigSteps
        /\ ConfigSendCurrentStep(configStep')
        /\ UNCHANGED <<state, retry>>
     \/ /\ configStep' > ConfigSteps
        /\ state' = "IDLE"
        /\ retry' = 0
        /\ UNCHANGED <<configWrite, transmitBuf, failures>>
  /\ UNCHANGED <<systemTime, frame, timer, late, uart, mixed, resp, sensorVars, sent>>

InitIgnore ==
  /\ state \in {"INIT", "ERROR"}
  /\ Take("READ")
  /\ UNCHANGED <<aoVars, timer, late, uart, mixed, resp, sensorVars, gpsVars>>

(* The kernel sends what the buffer holds by then, or fails the write.     *)
ConfigWriteCompletes ==
  /\ configWrite = "submitted"
  /\ \/ /\ configWrite' = "sent"
        /\ sent' = Append(sent, transmitBuf)
        /\ UNCHANGED failures
     \/ /\ failures < ConfigFailures
        /\ failures' = failures + 1
        /\ configWrite' = "failed"
        /\ UNCHANGED sent
  /\ UNCHANGED <<vars, configStep, transmitBuf>>

(* Mutant: the test of the result is inverted.                             *)
DoneOnFailure ==
  /\ \/ configWrite = "failed" /\ inbox' = Posted(inbox, "CONFIGURED")
     \/ configWrite = "sent" /\ UNCHANGED inbox
  /\ configWrite' = "none"
  /\ UNCHANGED <<aoVars, timer, late, uart, mixed, resp, sensorVars,
                 configStep, transmitBuf, sent, failures>>

(* The completion thread calls config_step_done_handler if the write       *)
(* transferred anything, and nothing otherwise.                            *)
ConfigStepDone ==
  /\ \/ configWrite = "sent" /\ inbox' = Posted(inbox, "CONFIGURED")
     \/ configWrite = "failed" /\ UNCHANGED inbox
  /\ configWrite' = "none"
  /\ UNCHANGED <<aoVars, timer, late, uart, mixed, resp, sensorVars,
                 configStep, transmitBuf, sent, failures>>

(* gps_idle_state and gps_read_state: SensorRead's.                        *)
Reading ==
  /\ IdleRead \/ Ignore \/ ReadFrameReceived \/ ReadTimeout
  /\ UNCHANGED gpsVars

(* is_frame_valid of the GPS: the header, the checksum and i_tow, which is *)
(* the receiver's time.                                                    *)
CheckFrame == (UpdateValid \/ UpdateInvalid) /\ UNCHANGED gpsVars

UpdateGpsFrame == UpdateCopy /\ UNCHANGED gpsVars

(* The handlers of the timer and of a completed read, and the environment. *)
Around ==
  /\ \/ RequestRead \/ TimerExpires \/ TimeoutHandler \/ CompletionThread
     \/ WriteCompletes \/ ReadCompletes \/ ReadFails \/ SensorAnswers
  /\ UNCHANGED gpsVars

GpsNext ==
  \/ InitConfigured \/ InitIgnore \/ ConfigWriteCompletes \/ ConfigStepDone
  \/ Reading \/ CheckFrame \/ UpdateGpsFrame \/ Around

GpsSpec == GpsInit /\ [][GpsNext]_allVars

(* The UART transmits, and the threads and the timer run.                  *)
GpsFairSpec ==
  /\ GpsSpec
  /\ WF_allVars(InitConfigured \/ InitIgnore \/ Reading \/ CheckFrame \/ UpdateGpsFrame)
  /\ WF_allVars(ConfigWriteCompletes)
  /\ WF_allVars(ConfigStepDone)
  /\ WF_allVars(TimerExpires /\ UNCHANGED gpsVars)
  /\ WF_allVars(TimeoutHandler /\ UNCHANGED gpsVars)

-----------------------------------------------------------------------------
GpsTypeOK ==
  /\ state \in {"INIT", "ERROR", "IDLE", "READ", "UPDATE", "COPY"}
  /\ inbox \in Seq({"READ", "TIMEOUT", "FRAME_RECEIVED", "CONFIGURED"})
  /\ Len(inbox) <= QueueCapacity
  /\ retry \in 0 .. RetryMax - 1
  /\ configStep \in 1 .. ConfigSteps + 1
  /\ configWrite \in {"none", "submitted", "sent", "failed"}
  /\ transmitBuf \in 1 .. ConfigSteps
  /\ sent \in Seq(1 .. ConfigSteps)
  /\ failures \in 0 .. ConfigFailures

(* The receiver is used only when it has been sent every configuration     *)
(* message, each once and in order, although they share one buffer and the *)
(* requests that come meanwhile share the queue with the completions.      *)
ReadsOnlyConfigured ==
  state \notin {"INIT", "ERROR"} => sent = [i \in 1 .. ConfigSteps |-> i]

GpsInv == GpsTypeOK /\ ReadsOnlyConfigured

(* With a timer and no failing write, the sensor becomes ready, although   *)
(* READ requests share the queue with the completions (a queue they filled *)
(* would refuse a CONFIGURED for good).                                    *)
BecomesReady == <>(failures > 0 \/ state \in {"IDLE", "ERROR"})
=============================================================================
