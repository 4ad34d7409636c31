\* The list of services and the trash, one operation, two moves, one fault; a worker and
\* the operator at one browser, two clicks, one upset;
\* the six lists, on three rows, one or two to a page, two changes of rows or of the language;
\* two services in the viewer, three calls or changes, one fault.
CONSTANTS
  Requests = {1}
  Visited = {"service", "trash"}
  Operations = {"removeService", "removeAsset", "restoreAsset", "permanentDelete"}
  MaxChanges = 1
  MaxMoves = 2
  MaxFaults = 1
  worker = worker
  operator = operator
  Accounts = {worker, operator}
  RoleOf <- SmallRole
  MaxAsks = 2
  MaxActs = 2
  MaxUpsets = 1
  Items = {1, 2, 3}
  Filters = {"any", "odd"}
  Match <- SmallMatch
  Off = "any"
  Limits = {1, 2}
  Batch = 1
  MaxTurns = 2
  s1 = s1
  s2 = s2
  Services = {s1, s2}
  RowsOf <- SmallRows
  KindOf <- SmallKind
  MaxSteps = 3
  MaxFlukes = 1
SPECIFICATION SmallSpec
INVARIANTS SettledIsCurrent ShowsSignedIn NothingOutOfReach ViewerSettles
PROPERTIES TabSettles
CHECK_DEADLOCK FALSE
