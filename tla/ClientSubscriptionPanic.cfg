SPECIFICATION SubSpec
CONSTANTS
  Sub = {s1}
  User = {u1}
  MaxNotif = 2
  MaxBuffer = 2
INVARIANT
  NoSendOnClosedChannel
CHECK_DEADLOCK FALSE
