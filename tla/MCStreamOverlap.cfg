\* Two streams read in turns over one connection.
SPECIFICATION Spec
CONSTANTS
  h1 = h1
  h2 = h2
  NoHandle = NoHandle
  Handles = {h1, h2}
  MaxLocalId = 3
  MaxBytes = 2
  MaxChunk = 1
  MaxRead = 1
  MaxWrites = 0
  DelayedAck = FALSE
  Window = 0
  Faults = {}
SYMMETRY HandleSymmetry
INVARIANT AllDelivered
CHECK_DEADLOCK FALSE
