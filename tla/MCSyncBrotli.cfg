\* Pulls with brotli and no faults at all.
SPECIFICATION Spec
CONSTANTS
  Builds = {{"brotli"}}
  Devices = {{"ls_v2", "stat_v2", "sendrecv_v2", "brotli"}}
  MaxBlocks = 3
  MaxEntries = 0
  Faults = {}
INVARIANT PullComplete
CHECK_DEADLOCK FALSE
