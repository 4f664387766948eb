SPECIFICATION Spec
CONSTANTS
  Disks = {d1, d2}
  MaxDevices = 2
  Sizes = {1, 2}
  MaxLoads = 2
  MaxCreates = 2
  MaxSetGrains = 1
  MaxStops = 3
CHECK_DEADLOCK FALSE
INVARIANTS SlotMatchesDevice LoadOwn RestartRecovers
