\* The black frame read from behind the initialised words.
CONSTANTS
  Height = 2
  HeapWords <- TwoHeapWords
  HostWaits = TRUE
SPECIFICATION FairSpec
INVARIANT BlackStepIsBlack
