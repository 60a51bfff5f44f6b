SPECIFICATION Spec
CONSTANTS
  RxSize = 12
  Header = 7
  Tail0 = 6
  Frames <- MCFrames
  Modes <- MCPolite
INVARIANTS
  AnswersEndInTail
