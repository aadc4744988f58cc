SPECIFICATION Spec
CONSTANTS
  Drivers <- MCDrivers
  DdlModules <- MCDdlModules
  AppModules <- MCAppModules
  Scheduler = "scheduler"
  Uart = "UART"
  Timed <- MCTimed
  UartUsers <- MCUartUsers
  QueueCapacity = 2
INVARIANT CleanedUpOnFailure
CHECK_DEADLOCK FALSE
