SPECIFICATION GpsFairSpec
CONSTANTS
  QueueCapacity = 2
  RetryMax = 2
  MaxInFlight = 2
  MaxAnswers = 2
  MaxQueuedReads = 1
  MaxLate = 1
  ConfigSteps = 3
  ConfigFailures = 1
INVARIANTS GpsInv ReadCanEnd
PROPERTIES NoReplay BecomesReady RequestEnds
