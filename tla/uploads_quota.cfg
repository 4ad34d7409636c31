\* Two uploads of one service, two requests at a time.
SPECIFICATION Spec
CONSTANTS
  Uploads = {u1, u2}
  Stream = {}
  Clients = {c1, c2}
  Jobs = {}
  Calls = {"intent", "manifest", "confirm", "retry", "remove", "restore", "purge",
           "reconcile"}
  Services <- OneService
  Declared <- MCDeclared
  Actual <- MCActual
  DeclaredSize = 1
  ActualSize = 2
  Quota = 2
  MaxGen = 1
  MaxFaults = 0
SYMMETRY UploadSymmetry
INVARIANTS
  FilesMatchAttachments
PROPERTIES
  RegisterSpec
  ReadyNeverOverstated
  AdmissionWithinQuota
CHECK_DEADLOCK FALSE
