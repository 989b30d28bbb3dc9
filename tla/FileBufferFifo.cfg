CONSTANTS
  FileLen = 1792
  PlayPipo = 1024
  Word = 8192
  Backend = "fifo"
  AnswerCanOvertake = FALSE
  ReadLens = {256, 768}
  SetSeeks = {0, 768, 1536}
  CurSeeks <- MCCurSeeks
  PastEnd = 1
SPECIFICATION FairSpec
INVARIANTS TypeOK OneRequest NoReadWhileFilled Window EmptyBufferIsFilled TellIsNear
PROPERTIES ImplementsFile CallReturns
CHECK_DEADLOCK FALSE
