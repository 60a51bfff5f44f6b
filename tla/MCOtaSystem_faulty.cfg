SPECIFICATION FairSysSpec
CONSTANTS
  a = a
  b = b
  ff = ff
  e1 = e1
  e2 = e2
  SlotSize = 2
  MaxPayload = 1
  U32 = 4
  Byte <- MCByte
  Erased = ff
  Crcs <- MCCrcs
  Engines = {e1}
  Images <- MCLarge
  FlashTotal = 2
  ChunkSize = 1
  MaxRetries = 2
  Buttons = {"cancel_upgrade", "disconnect_serial", "connect_serial"}
  MaxRuns = 1
  MaxPresses = 2
  Faults = {"late", "loss"}
PROPERTIES
  RunsEnd
  ButtonsReturn
CHECK_DEADLOCK FALSE
