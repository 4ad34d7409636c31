\* Two videos, one place, two clicks; one request that reads, two changes of rows.
CONSTANTS
  Items = {1, 2}
  Transfers = {1, 2, 3}
  Clicks = {1, 2}
  Concurrency = 1
  MaxPolls = 1
  MaxClicks = 2
  s1 = s1
  s2 = s2
  a1 = a1
  a2 = a2
  o1 = o1
  o2 = o2
  admin = admin
  worker = worker
  external = external
  NoOwner = NoOwner
  r1 = r1
  Services = {s1, s2}
  Assets = {a1, a2}
  Owners = {o1, o2}
  Accounts = {admin, worker, external}
  RoleOf <- SmallRole
  WorkerOf <- SmallWorker
  AssetOf <- SmallAsset
  Readers = {r1}
  MaxChanges = 2
SPECIFICATION SmallSpec
INVARIANTS PagesAgree ListOfOneMoment
PROPERTIES EveryVideoStarts MailedCanOpen
CHECK_DEADLOCK FALSE
