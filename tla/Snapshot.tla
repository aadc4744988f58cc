------------------------------ MODULE Snapshot ------------------------------
(***************************************************************************)
(* The frame that leaves the firmware: the broadcaster                     *)
(* (app/broadcaster) copies the frame of the sensors into the snapshot the *)
(* streaming server reads, once per cycle, field by field and without a    *)
(* lock, while TempHumidity writes it.  The scheduler posts UPDATE once    *)
(* per cycle, in another slot than READ.                                   *)
(***************************************************************************)
EXTENDS TempHumidity

CONSTANT CopyTime    \* bound: the longest copy_frame takes

ASSUME SnapshotAssumption == CopyTime \in Nat

VARIABLES
  update,       \* "none", "queued" or the field copy_frame copies next
  delay,        \* how long the UPDATE has been queued, or the copy has gone on
  sinceUpdate,  \* time since the last UPDATE was posted
  snap          \* the snapshot: its valid, and per field the age of its data

copyVars == <<update, delay, sinceUpdate, snap>>
vars == <<readVars, copyVars>>

SnapshotInit ==
  /\ Init
  /\ update = "none"
  /\ delay = 0
  /\ sinceUpdate \in 0 .. Cycle
  /\ snap = [valid |-> FALSE, humidity |-> Horizon, temperature |-> Horizon]

Passes ==
  /\ Tick
  /\ sinceUpdate < Cycle
  /\ update # "none" => delay < IF update = "queued" THEN Latency ELSE CopyTime
  /\ sinceUpdate' = sinceUpdate + 1
  /\ delay' = IF update = "none" THEN 0 ELSE delay + 1
  /\ snap' = [snap EXCEPT !.humidity = Later(@), !.temperature = Later(@)]
  /\ UNCHANGED update

PostUpdate ==
  /\ sinceUpdate = Cycle
  /\ update = "none"
  /\ update' = "queued"
  /\ delay' = 0
  /\ sinceUpdate' = 0
  /\ UNCHANGED <<readVars, snap>>

(* copy_frame, in its order: valid, humidity, temperature.                 *)
CopyValid ==
  /\ update = "queued"
  /\ snap' = [snap EXCEPT !.valid = valid]
  /\ update' = "humidity"
  /\ delay' = 0
  /\ UNCHANGED <<readVars, sinceUpdate>>

(* Mutant: the humidity is not copied.                                     *)
SkipHumidity ==
  /\ update = "humidity"
  /\ update' = "temperature"
  /\ UNCHANGED <<readVars, delay, sinceUpdate, snap>>

CopyHumidity ==
  /\ update = "humidity"
  /\ snap' = [snap EXCEPT !.humidity = age["humidity"]]
  /\ update' = "temperature"
  /\ UNCHANGED <<readVars, delay, sinceUpdate>>

CopyTemperature ==
  /\ update = "temperature"
  /\ snap' = [snap EXCEPT !.temperature = age["temperature"]]
  /\ update' = "none"
  /\ delay' = 0
  /\ UNCHANGED <<readVars, sinceUpdate>>

Next ==
  \/ Passes
  \/ ReadStep /\ UNCHANGED copyVars
  \/ PostUpdate \/ CopyValid \/ CopyHumidity \/ CopyTemperature

Spec == SnapshotInit /\ [][Next]_vars

-----------------------------------------------------------------------------
TypeOK ==
  /\ ReadTypeOK
  /\ update \in {"none", "queued", "humidity", "temperature"}
  /\ delay \in 0 .. Latency + CopyTime
  /\ sinceUpdate \in 0 .. Cycle
  /\ snap \in [valid : BOOLEAN, humidity : 0 .. Horizon, temperature : 0 .. Horizon]

(* The frame and its ages as TempHumidity promises them.                   *)
Inv == TypeOK /\ AgeBounded

(* Between two copies the snapshot calls nothing valid that is older than  *)
(* a frame may be, one more cycle and the time an UPDATE may wait, however *)
(* the copies and the writes of the sensor's thread interleave and however *)
(* long a copy takes (broadcaster_fsm.c:13-25).  While a copy goes on it   *)
(* may, as valid is copied before the data.                                *)
SnapshotAgeBounded ==
  update \in {"none", "queued"} /\ snap.valid =>
    {snap.humidity, snap.temperature} \subseteq 0 .. MaxAge + Cycle + Latency
=============================================================================
