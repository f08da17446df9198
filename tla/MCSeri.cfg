CONSTANTS
  t1 = t1
  t2 = t2
  t3 = t3
  Tables <- ThreeTables
  Heaps <- All
  Arguments <- TwoArguments
  MAX_DEPTH = 2
  MAX_REFERENCE = 2
  MAX_COOKIE = 3
SPECIFICATION Spec
INVARIANTS AddressesAreTags TablesAreWrittenOnce CookiesFit RoundTrip OnlyNumbersAreRefused
CHECK_DEADLOCK FALSE
