SPECIFICATION Spec
CONSTANTS
  NumBits = 3
  NumChunks = 2
  Threads = {t1, t2}
  MaxPauses = 2
  MaxFailures = 2
  Faults = {"reset", "eof", "disk"}
  Operator = "patient"
CHECK_DEADLOCK FALSE
INVARIANTS CompletedMeansCopied ResumePointSafe ReplyOwed
PROPERTIES ResyncEnds
