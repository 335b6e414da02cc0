\* One stream at a time, as shell, sync and app use them, under every fault, with delayed acknowledgements.
SPECIFICATION Spec
CONSTANTS
  h1 = h1
  h2 = h2
  NoHandle = NoHandle
  Handles = {h1}
  MaxLocalId = 3
  MaxBytes = 3
  MaxChunk = 2
  MaxRead = 2
  MaxWrites = 0
  DelayedAck = TRUE
  Window = 2
  Faults = {"timeout", "link", "stray"}
INVARIANTS TypeOK InOrder AllDelivered VerdictsTrue
CHECK_DEADLOCK FALSE
