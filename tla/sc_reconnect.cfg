SPECIFICATION Spec
CONSTANTS
  NumPartners = 2
  MaxConns = 4
  MaxFaults = 1
CHECK_DEADLOCK FALSE
  
PROPERTIES Answered
