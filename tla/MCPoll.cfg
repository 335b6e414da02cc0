\* A USB and a TCP transport, from open to close, with every fault.
SPECIFICATION FairSpec
CONSTANTS
  Timeout = 2
  Budget = 3
  MaxBytes = 2
  MaxHanded = 3
  MaxRead = 2
  BufferSize = 2
  Rounds = 2
  Faults = {"open", "error", "short", "empty"}
  Buses <- MCBuses
  Endpoints <- MCEndpoints
INVARIANTS TypeOK ReadableIsRead NothingLeaks OpensTheOnePicked
PROPERTIES InSpec OutSpec TransferReturns
CHECK_DEADLOCK FALSE
