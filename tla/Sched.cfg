SPECIFICATION FairSpec
CONSTANTS
  NTask = 2
  Cycle = {c1, c2}
  MaxThreads = 1
INVARIANTS
  TypeOK
  Excluded
  CycleKeepsItsTasks
  OneCycleReads
  UsedOnlyIfOvertaken
  DoubledOnlyIfLate
PROPERTIES
  StopEnds
  EveryTaskRuns
