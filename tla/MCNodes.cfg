SPECIFICATION FairSpec
CONSTANTS
  Cluster = {c1}
  MaxWorkers = 2
  Name = {sda, sdb, sdc}
  None = None
  Default <- OneEach
  Flags <- EveryFlag
  Faults = {"setup", "start", "wait", "delete", "make", "halfmade", "prep", "crash", "reboot", "die"}
  MaxFaults = 2
INVARIANTS
  RunningOnItsOwn
  ReadyIsWhole
PROPERTIES
  ComesBack
