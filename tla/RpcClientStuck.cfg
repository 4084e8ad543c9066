SPECIFICATION ClientFairSpec
CONSTANTS
  c1 = c1
  s1 = s1
  q1 = q1
  NoOp = NoOp
  Op = {s1, q1}
  Sub = {s1}
  Id <- OneEach
  Owner <- OwnerOf
  Unsub <- UnsubOf
  Deadline = {}
  Closer = {}
  User = {u1}
  MaxConn = 1
  MaxNotif = 0
  MaxBatch = 1
  MaxBuffer = 1
PROPERTY
  DispatchReturns
CHECK_DEADLOCK FALSE
