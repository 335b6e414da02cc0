\* The helper over a USB and a TCP transport; nothing fails.
SPECIFICATION FairSpec
CONSTANTS
  Timeout = 2
  Budget = 3
  MaxBytes = 1
  MaxHanded = 1
  MaxRead = 2
  BufferSize = 2
  Rounds = 2
  Faults = {}
  Buses <- MCBuses
  Endpoints <- MCEndpoints
PROPERTY PollReturns
CHECK_DEADLOCK FALSE
