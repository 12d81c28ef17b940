\* A host that sends commands and rewrites the RAM at any time.
CONSTANTS
  Height = 3
  HeapWords <- OneHeapWord
  HostWaits = FALSE
SPECIFICATION Spec
INVARIANT ScanWithinStep
PROPERTY FullStepPaintsAll
PROPERTY ImageStableWhenIdle
