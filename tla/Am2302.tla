------------------------------- MODULE Am2302 -------------------------------
(***************************************************************************)
(* One read of the AM2302 over its single wire, am2302_read of             *)
(* ddl/temperature_humidity/temperature_humidity_fsm.c.  After the request *)
(* the sensor drives a waveform of low and high phases: a response, then   *)
(* per bit a low preamble and a high pulse whose length is the bit, then   *)
(* an end.  The host polls the line for one level after the other, on a    *)
(* system that may take it off the processor at any time, between seeing a *)
(* level and taking its time too: then phases pass unseen, or a pulse is   *)
(* measured too short or too long, or one too long and the next too short. *)
(*                                                                         *)
(* The phases of the waveform are numbered from 0, the line released by    *)
(* the host; the even ones are high.  Undisturbed, wait n ends in phase n. *)
(***************************************************************************)
EXTENDS Integers, Sequences

CONSTANTS
  Width,         \* bits per byte: 8 in the code
  MaxDelays      \* bound: times the host is kept from polling

ASSUME Am2302Assumption == Width \in Nat \ {0, 1} /\ MaxDelays \in Nat

VARIABLES
  measured,    \* what the sensor has measured: humidity and temperature
  phase,       \* the phase the line is in
  waits,       \* levels waited for so far
  rise,        \* the phase in which the pulse of the current bit was seen to rise
  pulse,       \* "none", or the fall of a pulse is seen and its time not taken:
               \* "spoiled" if the host was delayed since the fall before, or "right"
  late,        \* has the host been delayed since it last saw a pulse fall
  bits,        \* the bits read so far
  delays,      \* delays so far
  status,      \* of am2302_read
  published    \* aobj->frame, humidity and temperature

am2302Vars == <<measured, phase, waits, rise, pulse, late, bits, delays, status,
                published>>

(* 1 << n                                                                  *)
TwoTo[n \in 0 .. Width] == IF n = 0 THEN 1 ELSE 2 * TwoTo[n - 1]

BitCount  == 5 * Width                    \* AM2302_BIT_COUNT
Base      == TwoTo[Width]
SignBit   == (Base * Base) \div 2
LastPhase == 2 * BitCount + 4             \* the line released by the sensor
LastWait  == 2 * BitCount + 3

Measurements == [humidity : 0 .. Base * Base - 1, temperature : 1 - SignBit .. SignBit - 1]

-----------------------------------------------------------------------------
(* The sensor: two bytes each, temperature as sign and magnitude, checksum.*)

RawTemperature(t) == IF t < 0 THEN SignBit - t ELSE t

Bytes(m) ==
  LET raw == RawTemperature(m.temperature)
      data == <<m.humidity \div Base, (m.humidity % Base), raw \div Base, (raw % Base)>>
  IN  Append(data, (data[1] + data[2] + data[3] + data[4]) % Base)

(* Bit i of the bytes, the most significant one of each first.             *)
BitOf(bytes, i) ==
  (bytes[((i - 1) \div Width) + 1] \div TwoTo[Width - 1 - ((i - 1) % Width)]) % 2

Pulse(m, p) == BitOf(Bytes(m), (p - 2) \div 2)

-----------------------------------------------------------------------------
(* The host *)

(* frame_bytes[i / 8] = (frame_bytes[i / 8] << 1) | bit                    *)
Byte(bs, k) ==
  LET shifted[j \in 0 .. Width] ==
        IF j = 0 THEN 0 ELSE 2 * shifted[j - 1] + bs[(k - 1) * Width + j]
  IN  shifted[Width]

(* Mutant: humidity is left out of the sum.                                *)
ParityOfTemperature(bs) == (Byte(bs, 3) + Byte(bs, 4)) % Base = Byte(bs, 5)

ParityCheck(bs) ==
  (Byte(bs, 1) + Byte(bs, 2) + Byte(bs, 3) + Byte(bs, 4)) % Base = Byte(bs, 5)

(* Temperature is a sign and a magnitude.                                  *)
DecodeFrame(bs) ==
  LET raw == Byte(bs, 3) * Base + Byte(bs, 4)
  IN  [humidity    |-> Byte(bs, 1) * Base + Byte(bs, 2),
       temperature |-> IF raw >= SignBit THEN -(raw - SignBit) ELSE raw]

Nothing == [humidity |-> -1, temperature |-> 0]

Am2302Init ==
  /\ measured \in Measurements
  /\ phase = 0
  /\ waits = 0
  /\ rise = 0
  /\ pulse = "none"
  /\ late = FALSE
  /\ bits = <<>>
  /\ delays = 0
  /\ status = "reading"
  /\ published = Nothing

High(p) == p % 2 = 0

(* The phase in which the next level is first seen: this one, or the next. *)
Seen == IF High(phase) = High(waits + 1) THEN phase ELSE phase + 1

(* am2302_wait_for_level reads the level it waits for.                     *)
LevelSeen ==
  /\ status = "reading"
  /\ pulse = "none"
  /\ waits < LastWait
  /\ Seen <= LastPhase
  /\ phase' = Seen
  /\ waits' = waits + 1

(* The response, whose times do not matter.                                *)
WaitForResponse ==
  /\ waits < 3
  /\ LevelSeen
  /\ UNCHANGED <<measured, rise, pulse, late, bits, delays, status, published>>

(* The rise of a pulse.  A delay before its time is taken shortens this    *)
(* pulse alone, as one right after does.                                   *)
ReadBitRise ==
  /\ waits >= 3 /\ ~High(waits)
  /\ LevelSeen
  /\ rise' = phase'
  /\ UNCHANGED <<measured, pulse, late, bits, delays, status, published>>

(* The fall of the pulse.                                                  *)
ReadBitFall ==
  /\ waits >= 3 /\ High(waits)
  /\ LevelSeen
  /\ pulse' = IF late THEN "spoiled" ELSE "right"
  /\ late' = FALSE
  /\ UNCHANGED <<measured, rise, bits, delays, status, published>>

(* Its time: a delay since the fall was seen lengthens the pulse, and it   *)
(* may have eaten into the next one.                                       *)
ReadBitTime ==
  /\ status = "reading"
  /\ pulse # "none"
  /\ \E b \in IF late \/ pulse = "spoiled" THEN {0, 1} ELSE {Pulse(measured, rise)} :
       bits' = Append(bits, b)
  /\ pulse' = "none"
  /\ UNCHANGED <<measured, phase, waits, rise, late, delays, status, published>>

(* The timeout of a wait, or the failure of a GPIO read.                   *)
WaitFails ==
  /\ status = "reading"
  /\ pulse = "none"
  /\ waits < LastWait
  /\ status' = "failed"
  /\ UNCHANGED <<measured, phase, waits, rise, pulse, late, bits, delays, published>>

FrameChecked ==
  /\ status = "reading"
  /\ Len(bits) = BitCount
  /\ \/ /\ ParityCheck(bits)
        /\ status' = "successful"
        /\ published' = DecodeFrame(bits)
     \/ /\ ~ParityCheck(bits)
        /\ status' = "failed"
        /\ UNCHANGED published
  /\ UNCHANGED <<measured, phase, waits, rise, pulse, late, bits, delays>>

(* The host does not run for a while.                                      *)
Delay ==
  /\ status = "reading"
  /\ waits < LastWait \/ pulse # "none"
  /\ delays < MaxDelays
  /\ delays' = delays + 1
  /\ late' = TRUE
  /\ phase' \in phase .. LastPhase
  /\ UNCHANGED <<measured, waits, rise, pulse, bits, status, published>>

Am2302Next ==
  \/ WaitForResponse \/ ReadBitRise \/ ReadBitFall \/ ReadBitTime
  \/ WaitFails \/ FrameChecked \/ Delay

Am2302Spec == Am2302Init /\ [][Am2302Next]_am2302Vars

-----------------------------------------------------------------------------
Am2302TypeOK ==
  /\ measured \in Measurements
  /\ phase \in 0 .. LastPhase /\ rise \in 0 .. LastPhase
  /\ waits \in 0 .. LastWait
  /\ pulse \in {"none", "right", "spoiled"}
  /\ late \in BOOLEAN
  /\ bits \in Seq({0, 1}) /\ Len(bits) <= BitCount
  /\ delays \in 0 .. MaxDelays
  /\ status \in {"reading", "successful", "failed"}
  /\ published \in Measurements \cup {Nothing}

(* Wherever and however long the host is delayed once in a read, a read    *)
(* that succeeds publishes what the sensor measured: phases that were      *)
(* missed leave it a bit short at the end, and the two neighbouring bits   *)
(* that one delay can spoil, in one byte or in two, fail the parity check  *)
(* (am2302_parity_check).                                                  *)
OneDelayDetected ==
  status = "successful" /\ delays <= 1 => published = measured

Am2302Inv == Am2302TypeOK /\ OneDelayDetected
=============================================================================
