\* The driver's calls in any order, with one restart at any moment.
CONSTANTS
  Height = 2
  HeapWords <- OneHeapWord
  MAX_DATA_TXFER = 160
  Variants <- TwoBoards
  Pictures <- SomePictures
  Shades = {255}
  MaxRestarts = 1
SPECIFICATION FairSpec
INVARIANT RamHoldsDrawing
INVARIANT DisplayShowsDrawing
 
INVARIANT NoneCutShort
PROPERTY CallsReturn
