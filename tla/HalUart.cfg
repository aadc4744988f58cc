SPECIFICATION FairSpec
CONSTANTS
  Devices = {"uart0", "uart1"}
  SlotsPerDevice = 1
  Entries = 2
  MaxOps = 2
  MaxAborts = 1
  MaxSubmitFailures = 2
INVARIANTS Inv UnabortedCallbackIsOwn
PROPERTIES CleanupEnds
CHECK_DEADLOCK FALSE
