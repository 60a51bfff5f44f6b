SPECIFICATION Spec
CONSTANTS
  Slack <- MCSlack
  MaxWrites = 2
  Heap = {"h1", "h2", "h3"}
  POOL_SIZE = 4
  Numbers = 3
  MaxValid = 6
  QueueSize = 4
  BUF_SIZE = 3
  RxTimeout = 4
  MaxBytes = 10
  MaxRoom = 6
  ChunkSize = 2
  ChunkCount = 3
  TestDataSize = 4
  PageSizes <- MCPageSizes
  Characters = {"a", "b"}
  MaxQueued = 2
INVARIANTS
  DemosTypeOK
  MutexCoherentRead
  FifoSound
  LifoPaced
  MsgqPaced
  EventFresh
  SignalExecutedOnce
  MailboxDataMatches
  ZbusBothObserve
  EchoSound
  KeyLogIsLevel
  WorkShown
  PipeAligned
  StorageTruthful
  ResourcesReturned
PROPERTIES
  MutexGranted
  EventWaitsEnd
  ConsoleServes
