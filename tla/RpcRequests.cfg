SPECIFICATION FairSpec
CONSTANTS
  c1 = c1
  b1 = b1
  n1 = n1
  s1 = s1
  NoOp = NoOp
  Op = {b1, n1, s1}
  Sub = {s1}
  Id <- IdsIssued
  Owner <- OwnerOf
  Deadline = {b1, s1}
  Closer = {x1}
  MaxConn = 2
  MaxNotif = 1
  MaxBatch = 2
CONSTRAINT
  SubscribeAlone
INVARIANTS
  TypeOK
  WriteLockHeld
  RegisteredCanBeAnswered
  AnswersMatchRequest
  ClosedMeansError
  OneReader
  NoLeakAfterClose
PROPERTIES
  NeverDroppedSilently
  ServiceImplemented
  CloseReturns
  CancelledReturns
CHECK_DEADLOCK FALSE
