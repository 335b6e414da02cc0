\* Every kind of caller and device, every fault, a reconnect.
SPECIFICATION FairSpec
CONSTANTS
  Attempts = 3
  MaxCalls = 2
  MaxTokens = 3
  Faults = {"open", "read", "write", "sign", "stray"}
INVARIANTS HandshakeAgreed AuthorizationReported PromptOnlyForUnknownKey DeviceFree FailsForCause
PROPERTY ConnectReturns
CHECK_DEADLOCK FALSE
