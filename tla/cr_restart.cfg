SPECIFICATION Spec
CONSTANTS
  NumPartners = 1
  NumBits = 3
  FirstWord = {0, 1}
  Bitmaps <- NonEmpty
  MaxRows = 3
  MaxRounds = 2
  MaxPauses = 2
  MaxCrashes = 2
CHECK_DEADLOCK FALSE
INVARIANTS CompletedMeansCopied RestartPointSafe NoSelfLock
PROPERTIES RoundEnds
