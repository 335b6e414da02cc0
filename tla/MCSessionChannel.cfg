\* Session implements the frame channel: reads fail anywhere, frames may be corrupt.
SPECIFICATION FairSpec
CONSTANTS
  s1 = s1
  s2 = s2
  Objects = {s1}
  HeaderSize = 2
  MaxData = 1
  MaxLen = 2
  MaxFrames = 2
  Faults = {"read", "corrupt"}
PROPERTIES ChannelSpec ReceiveReturns
CHECK_DEADLOCK FALSE
