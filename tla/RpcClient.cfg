SPECIFICATION ClientFairSpec
CONSTANTS
  c1 = c1
  s1 = s1
  q1 = q1
  NoOp = NoOp
  Op = {s1, q1}
  Sub = {s1}
  Id <- OneEach
  Owner <- OwnerOf
  Unsub <- UnsubOf
  Deadline = {s1}
  Closer = {x1}
  User = {u1}
  MaxConn = 2
  MaxNotif = 2
  MaxBatch = 1
  MaxBuffer = 1
INVARIANT
  NoZombieSubscription
PROPERTIES
  SubscriptionRefined
  OnlyUnsubscribeBlocks
CHECK_DEADLOCK FALSE
