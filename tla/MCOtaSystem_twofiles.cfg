SPECIFICATION SysSpec
CONSTANTS
  a = a
  b = b
  ff = ff
  e1 = e1
  e2 = e2
  SlotSize = 2
  MaxPayload = 1
  U32 = 4
  Byte <- MCByte
  Erased = ff
  Crcs <- MCCrcs
  Engines = {e1}
  Images <- MCImages
  FlashTotal = 2
  ChunkSize = 1
  MaxRetries = 2
  Buttons = {}
  MaxRuns = 2
  MaxPresses = 0
  Faults = {"late", "power"}
INVARIANTS
  NoMixedImage
CHECK_DEADLOCK FALSE
