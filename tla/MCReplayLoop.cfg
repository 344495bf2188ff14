SPECIFICATION Spec
CHECK_DEADLOCK FALSE
CONSTANTS
  Adapters <- MCAdapters
  Iterations <- MCIterations
  RecyclePeriod = 4
  Robots = {r1, r2}
  MaxRuns = 2
  MaxSteps = 8
SYMMETRY RobotsAlike
INVARIANTS
  TypeOK
  NewestCheckpoint
  ActionOfThisLife
  ObservesWhatDrove
  DownNoLongerThanPeriod
