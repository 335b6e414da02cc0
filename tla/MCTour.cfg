\* Two threads without a key or with adb's; one tour under every fault; a crash.
SPECIFICATION FairSpec
CONSTANTS
  t1 = t1
  t2 = t2
  Threads = {t1, t2}
  Me = t1
  MaxRuns = 2
  Faults = {"crash", "io", "crypto"}
  MaxAttempts = 2
  MaxPolls = 2
  AppFaults = {"link", "reject", "cut", "local"}
INVARIANTS KeyUntouched StoredWhole HandedOutIsStored CommandsTruthful InstallTidiesUp ExitTruthful
PROPERTY ProgramEnds
CHECK_DEADLOCK FALSE
