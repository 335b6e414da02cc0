\* Two Stream objects, two streams open at once, moves and assignments, calls that time out.
SPECIFICATION Spec
CONSTANTS
  h1 = h1
  h2 = h2
  NoHandle = NoHandle
  Handles = {h1, h2}
  MaxLocalId = 3
  MaxBytes = 3
  MaxChunk = 2
  MaxRead = 1
  MaxWrites = 0
  DelayedAck = FALSE
  Window = 0
  Faults = {"timeout"}
SYMMETRY HandleSymmetry
INVARIANTS InOrder OneClose AckAfterTake NoOrphan
CHECK_DEADLOCK FALSE
