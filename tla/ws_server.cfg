SPECIFICATION ServerSpec
CONSTANTS
  MaxPid = 1
  MaxConns = 2
  MaxAsks = 5
  MaxRows = 2
  MaxServerFaults = 1
CHECK_DEADLOCK FALSE
INVARIANTS AnswersMatch ClosesOwn
PROPERTIES Answered
