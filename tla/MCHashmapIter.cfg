\* Removal through an iterator at the end of the table.
CONSTANTS
  k1 = k1
  k2 = k2
  k3 = k3
  k4 = k4
  k5 = k5
  Keys <- FiveKeys
  Data <- FiveKeys
  NULL = NULL
  Pairs <- OwnEntries
  Hashes <- SomeHashes
  HASHMAP_SIZE_MIN = 4
  HASHMAP_SIZE_DEFAULT = 4
  Capacities = {}
  AllocFails = FALSE
SPECIFICATION Spec
INVARIANT VisitedOnce
