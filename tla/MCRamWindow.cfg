\* Three lines, so that a window can have lines on both sides.
CONSTANTS
  LineBytes = 2
  Height = 3
  ByteSize = 2
  PorByte = 0
  Targets = {"bw"}
  Payloads <- OneHot
  EntryModes = {3}
SPECIFICATION Spec
INVARIANT TypeOK
PROPERTY WindowClosed
PROPERTY FullWindowWrite
