SPECIFICATION FairSpec
INVARIANTS
  TypeOK
  TokenMatches
  AnswerIsComing
  OneAhead
  CloseFindsNoWaiter
  IInv
PROPERTIES
  ShutOffAtRest
  HandshakesReturn
CHECK_DEADLOCK FALSE
