\* One video, one request, the hourly job, one fault.
SPECIFICATION FairSpec
CONSTANTS
  Uploads = {u1}
  Stream = {u1}
  Clients = {c1}
  Jobs = {j1}
  Calls = {"intent", "started", "progress", "confirm", "cancel", "retry", "finalize",
           "webhook", "reconcile", "remove", "purge"}
  Services <- OneService
  Declared <- MCDeclared
  Actual <- MCActual
  DeclaredSize = 1
  ActualSize = 2
  Quota = 3
  MaxGen = 1
  MaxFaults = 1
PROPERTIES
  ReservationsConverge
  StaleIntentsEnd
  LostWebhookRecovered
