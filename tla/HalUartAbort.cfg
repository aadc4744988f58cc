SPECIFICATION Spec
CONSTANTS
  Devices = {"uart0", "uart1"}
  SlotsPerDevice = 1
  Entries = 2
  MaxOps = 3
  MaxAborts = 1
  MaxSubmitFailures = 0
INVARIANTS CallbackIsOwn
CHECK_DEADLOCK FALSE
