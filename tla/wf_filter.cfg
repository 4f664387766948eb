SPECIFICATION Spec
CONSTANTS
  Volumes = {v1, v2}
  DiskBits = 1
  Sizes = {1, 2, 3}
  Clamp = 2
  MaxWrites = 1
  MaxCreates = 2
  MaxLoads = 2
  MaxFaults = 1
CHECK_DEADLOCK FALSE
INVARIANTS  LostOnlyIfRaced SlotOwnsArea
SYMMETRY VolumeSymmetry
