\* A restart in a refresh, and sleep before its timer has run out.
CONSTANTS
  Height = 2
  HeapWords <- OneHeapWord
  MAX_DATA_TXFER = 160
  Variants <- TwoBoards
  Pictures = {}
  Shades = {255}
  MaxRestarts = 1
SPECIFICATION FairSpec
PROPERTY AsleepUntilReset
