\* Every call, on builds and devices with and without codecs, with every fault.
SPECIFICATION FairSpec
CONSTANTS
  Builds = {{}, {"zstd", "lz4", "brotli"}}
  Devices = {{}, {"ls_v2", "stat_v2", "sendrecv_v2", "brotli"}, {"ls_v2", "stat_v2", "sendrecv_v2", "brotli", "lz4"}, {"ls_v2", "stat_v2", "sendrecv_v2", "brotli", "lz4", "zstd"}}
  MaxBlocks = 3
  MaxEntries = 2
  Faults = {"link", "io", "reject", "race"}
INVARIANTS PartialIsPrefix DoneAsReported InStep NeverUncompressed RejectionReported
PROPERTY CallReturns
CHECK_DEADLOCK FALSE
