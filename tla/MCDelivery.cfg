CONSTANTS
  w1 = w1
  Null = Null
  Writers <- OneWriter
  Values <- UpToMaxSends
  MaxSends = 7
  Size = 4
SPECIFICATION FairSpec
INVARIANTS NoLostWakeup HandledInOrder AcceptedIsAccountedFor FirstPopSucceeds
PROPERTY AcceptedIsHandled
CHECK_DEADLOCK FALSE
