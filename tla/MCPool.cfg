CONSTANTS
  t1 = t1
  t2 = t2
  user = user
  x = x
  conf = conf
  p1 = p1
  p2 = p2
  Unnamed = Unnamed
  Threads <- TwoThreads
  Names <- TwoNames
  Keys <- OneKey
  Pointers <- TwoPointers
  Short <- ShortNames
  MAX_SERVICES = 1
  MaxNews = 3
SPECIFICATION RegistrySpec
INVARIANTS ListedUnderItsId LookupIsRight FoundIsFinished AnswersAgree
SYMMETRY Symmetry
CHECK_DEADLOCK FALSE
