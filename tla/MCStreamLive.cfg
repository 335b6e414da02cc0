\* Every call returns when link and device keep working; the caller writes too.
SPECIFICATION FairSpec
CONSTANTS
  h1 = h1
  h2 = h2
  NoHandle = NoHandle
  Handles = {h1}
  MaxLocalId = 3
  MaxBytes = 3
  MaxChunk = 2
  MaxRead = 2
  MaxWrites = 1
  DelayedAck = FALSE
  Window = 0
  Faults = {}
INVARIANT FramesAddressed
PROPERTY CallReturns
CHECK_DEADLOCK FALSE
