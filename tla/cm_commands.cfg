SPECIFICATION Spec
CONSTANTS
  MaxCalls = 3
  Letters = {"n", "z"}
  Argcs = {2, 3}
  BufUnits = 3
  MaxFaults = 1
CHECK_DEADLOCK FALSE
INVARIANTS RunsOnlyAsked 
PROPERTIES Delivered
