SPECIFICATION FairLockSpec
CONSTANTS
  Runs = {r1, r2, r3}
  TTL = 2
  NoRun = NoRun
INVARIANTS
  OverlapNeedsExpiry
PROPERTIES
  MaintenanceRecurs
