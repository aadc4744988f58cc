SPECIFICATION Spec
CONSTANTS
  Cycle = 6
  Gate = 7
  RetryMax = 3
  AttemptTime = 1
  Latency = 1
  CopyTime = 1
  Horizon = 30
INVARIANTS Inv SnapshotAgeBounded
