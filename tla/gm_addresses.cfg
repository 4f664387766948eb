SPECIFICATION SectorSpec
CONSTANTS
  MapBits = 3
  Grain = 4
  Chunk = 2
  Buf = 2
  ClientSizes <- OtherSizes
  MaxWrite = 6
  MaxBios = 2
CHECK_DEADLOCK FALSE
INVARIANTS EverySectorCopied MarksTight
