SPECIFICATION Spec
CONSTANTS
  NTask = 1
  Cycle = {c1}
  MaxThreads = 2
INVARIANT NeverDoubled
