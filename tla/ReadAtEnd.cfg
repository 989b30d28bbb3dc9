CONSTANTS
  FileLen = 1792
  PlayPipo = 1024
  Word = 8192
  Backend = "fifo"
  AnswerCanOvertake = FALSE
  ReadLens = {256, 768}
  SetSeeks = {0, 768, 1536}
  CurSeeks <- MCCurSeeks
  PastEnd = 1
SPECIFICATION Spec
INVARIANTS ReadAnswersLength
CHECK_DEADLOCK FALSE
