SPECIFICATION Spec
CONSTANTS
  N = 3
  Word = 1
  MaxConns = 2
  MaxThreads = 2
  MaxCommands = 4
  MaxWrites = 1
  MaxFaults = 1
CHECK_DEADLOCK FALSE
  
PROPERTIES LoopEnds
