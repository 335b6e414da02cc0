\* Reads and writes fail anywhere, frames may be corrupt, the session moves.
SPECIFICATION Spec
CONSTANTS
  s1 = s1
  s2 = s2
  Objects = {s1, s2}
  HeaderSize = 2
  MaxData = 1
  MaxLen = 2
  MaxFrames = 2
  Faults = {"read", "write", "corrupt"}
SYMMETRY ObjectSymmetry
INVARIANTS ClosedForCause OneHoldsTransport
CHECK_DEADLOCK FALSE
