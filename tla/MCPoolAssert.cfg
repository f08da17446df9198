CONSTANTS
  t1 = t1
  t2 = t2
  user = user
  x = x
  conf = conf
  p1 = p1
  p2 = p2
  Unnamed = Unnamed
  Threads <- TwoThreads
  Names <- TwoNames
  Keys <- OneKey
  Pointers <- TwoPointers
  Short <- ShortNames
  MAX_SERVICES = 2
  MaxNews = 3
SPECIFICATION RegistrySpec
INVARIANT IdPassesTheAssert
CHECK_DEADLOCK FALSE
