CONSTANTS
  a = a
  b = b
  Bytes <- SomeBytes
  Tag = Tag
  Mark = Mark
  Junk = Junk
  Chunks <- SomeChunks
  BLOCK_SIZE = 3
  MaxLen = 8
  MaxPushes = 5
SPECIFICATION Spec
INVARIANTS ChainHoldsTheStream AddressesKeepTheirTags ReadsWhatWasPushed HeapIsInUse
CHECK_DEADLOCK FALSE
