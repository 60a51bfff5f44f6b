SPECIFICATION FairSpec
CONSTANTS
  RxSize = 10
  Header = 7
  Tail0 = 6
  Frames <- MCFrames
  Modes <- MCPolite
PROPERTIES
  EveryFrameAnswered
