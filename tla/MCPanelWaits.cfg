\* A host that waits for BUSY.
CONSTANTS
  Height = 3
  HeapWords <- OneHeapWord
  HostWaits = TRUE
SPECIFICATION FairSpec
INVARIANT TypeOK
INVARIANT BusyIsReleased
PROPERTY RefreshShowsRam
PROPERTY RefreshTerminates
PROPERTY ImplementsService
