\* Any bytes and pin levels, resets and timers in any order.
CONSTANTS
  Height = 2
  HeapWords <- OneHeapWord
  MAX_DATA_TXFER = 3
  Codes = {16, 18, 32, 36, 38}
  Bytes = {0, 1}
  BeyondTable = {0}
  Variants <- TwoBoards
SPECIFICATION Spec
INVARIANT TypeOK
INVARIANT EngineSound
PROPERTY RefreshSeesWrite
