SPECIFICATION PartnersSpec
CONSTANTS
  Clients = {c1, c2}
  MaxPartners = 3
  MaxConns = 3
  Sizes = {1}
  MaxCommands = 2
  MaxReplays = 1
  Fds <- MCFds
CHECK_DEADLOCK FALSE
INVARIANTS OwnSocket  
