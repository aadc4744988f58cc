------------------------------ MODULE MCServo ------------------------------
(***************************************************************************)
(* A small instance of Servo: a step of 4 units, a grid of 2 by 3.         *)
(***************************************************************************)
EXTENDS Servo

MCTargets == {<<4, 12>>, <<7, 8>>}
=============================================================================
