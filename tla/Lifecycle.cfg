SPECIFICATION FairSpec
CONSTANTS
  Drivers <- MCDrivers
  DdlModules <- MCDdlModules
  AppModules <- MCAppModules
  Scheduler = "scheduler"
  Uart = "UART"
  Timed <- MCTimed
  UartUsers <- MCUartUsers
  QueueCapacity = 2
INVARIANTS TypeOK ResourcesOutliveThreads
PROPERTIES StopEnds NoNewCallbacks
CHECK_DEADLOCK FALSE
