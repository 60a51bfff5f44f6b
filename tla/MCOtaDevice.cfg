SPECIFICATION Spec
CONSTANTS
  a = a
  ff = ff
  SlotSize = 3
  MaxPayload = 2
  U32 = 6
  Byte <- MCByte
  Erased = ff
  Crcs <- MCCrcs
INVARIANTS
  TypeOK
  InProgressMatchesStatus
  SlotHoldsReceived
  ErasedAhead
  CompleteSize
  VerifiedIsStored
PROPERTIES
  AcknowledgedKept
  StagedSpec
CHECK_DEADLOCK FALSE
