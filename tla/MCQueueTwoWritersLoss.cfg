CONSTANTS
  w1 = w1
  w2 = w2
  m1 = m1
  m2 = m2
  Null = Null
  Writers <- TwoWriters
  Values <- TwoMessages
  Size = 4
SPECIFICATION Spec
PROPERTY SuccessMeansQueued
CHECK_DEADLOCK FALSE
