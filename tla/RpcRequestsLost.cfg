SPECIFICATION Spec
CONSTANTS
  c1 = c1
  b1 = b1
  n1 = n1
  s1 = s1
  NoOp = NoOp
  Op = {c1}
  Sub = {}
  Id <- IdsIssued
  Owner <- OwnerOf
  Deadline = {}
  Closer = {x1}
  MaxConn = 1
  MaxNotif = 0
  MaxBatch = 2
INVARIANT
  AcceptedIsReleased
CHECK_DEADLOCK FALSE
