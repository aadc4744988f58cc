SPECIFICATION FairSpec
CONSTANTS
  Step = 4
  MaxAngle = 16
  HorMin = 4
  HorMax = 8
  VerMin = 4
  VerMax = 12
  VerStart = 8
  Targets <- MCTargets
  QueueCapacity = 2
  MaxQueued = 1
  MaxTargets = 2
  MaxFailures = 1
INVARIANTS Inv ChipReady
PROPERTIES FrameCatchesUp TargetsNotMixed WaitsForRotation LockFollowsTarget EveryPositionScanned
