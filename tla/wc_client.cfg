SPECIFICATION Spec
CONSTANTS
  N = 3
  Bitmaps = {{0, 1, 2}, {2}}
  MaxCommands = 4
  MaxFaults = 1
  MaxThreads = 1
CHECK_DEADLOCK FALSE
INVARIANTS CompletedMeansCopied RestartPointSafe
PROPERTIES LoopEnds
