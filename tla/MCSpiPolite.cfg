\* A host that follows the data sheet.
CONSTANTS
  MAX_DATA_TXFER = 5
  Codes <- SheetCodes
  Bytes = {0, 1}
  BeyondTable = {0}
  Polite = TRUE
SPECIFICATION Spec
PROPERTY ImplementsLink
