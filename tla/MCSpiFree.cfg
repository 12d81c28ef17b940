\* Any bytes, with CS and DC at any level.
CONSTANTS
  MAX_DATA_TXFER = 5
  Codes <- AllCodes
  Bytes = {0}
  BeyondTable = {0, 2, 255}
  Polite = FALSE
SPECIFICATION Spec
INVARIANT TypeOK
INVARIANT AtMostOnce
INVARIANT NeverOverfed
INVARIANT PendingIsShort
