SPECIFICATION FairSpec
CONSTANTS
  RxSize = 12
  Header = 7
  Tail0 = 6
  Frames <- MCFrames
  Modes <- MCModes
INVARIANTS
  TypeOK
  NothingLost
  WholeFramesStayWhole
  AnswersWhole
PROPERTIES
  ChannelSpec
