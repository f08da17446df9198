CONSTANTS
  w1 = w1
  w2 = w2
  m1 = m1
  m2 = m2
  Null = Null
  Writers <- OneWriter
  Values <- TwoMessages
  Size = 4
SPECIFICATION Spec
INVARIANTS TypeOK NoAbort NoSlotRace LengthIsSafe Inv
PROPERTIES ImplementsMailbox SuccessMeansQueued
