SPECIFICATION Spec
CONSTANTS
  Shapes <- MCShapes
  MaxTasks = 3
  Roles = 2
  LastWave = 4
  GateCap = 3
  StepCap = 2
  MaxPlans = 2
  MaxMerged = 2
  DepCap = 1
  Usable = 3
CHECK_DEADLOCK FALSE
INVARIANTS WaveBarrier
