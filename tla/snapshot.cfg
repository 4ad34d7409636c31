SPECIFICATION FairSpec
CONSTANTS
  Uploads = {u1, u2}
  Writers = {w1}
  Sweepers = {s1}
  Declared <- MCDeclared
  Written = {"PENDING", "CONFIRMED", "FAILED"}
  MaxFaults = 1
INVARIANTS
  ShownNeverAhead
PROPERTIES
  SnapshotConverges
