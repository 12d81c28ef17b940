\* Tables of four and eight slots; memory may run out.
CONSTANTS
  k1 = k1
  k2 = k2
  k3 = k3
  k4 = k4
  k5 = k5
  Keys <- FiveKeys
  Data <- FiveKeys
  NULL = NULL
  Pairs <- OwnEntries
  Hashes <- SomeHashes
  HASHMAP_SIZE_MIN = 4
  HASHMAP_SIZE_DEFAULT = 4
  Capacities = {1, 5}
  AllocFails = TRUE
SPECIFICATION Spec
SYMMETRY Alike
INVARIANT TypeOK
INVARIANT NeverStuck
INVARIANT NoneSkipped
INVARIANT KeysOwned
PROPERTY ReserveHolds
PROPERTY ImplementsDictionary
