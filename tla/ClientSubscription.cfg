SPECIFICATION SubFairSpec
CONSTANTS
  Sub = {s1}
  User = {u1, u2}
  MaxNotif = 4
  MaxBuffer = 2
INVARIANTS
  SubTypeOK
  ErrSendIsSafe
  EndIsReported
  InOrder
  ServerToldFirst
PROPERTIES
  UnsubscribeReturnsEventually
  ForwardTerminates
CHECK_DEADLOCK FALSE
