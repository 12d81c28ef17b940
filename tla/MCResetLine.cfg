\* Edges, resets and time in any order.
CONSTANTS
  RESET_PULSE = 4
  MaxTime = 9
SPECIFICATION Spec
PROPERTY FullPulseResets
