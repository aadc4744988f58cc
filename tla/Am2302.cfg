SPECIFICATION Am2302Spec
CONSTANTS
  Width = 2
  MaxDelays = 1
INVARIANTS Am2302Inv
CHECK_DEADLOCK FALSE
