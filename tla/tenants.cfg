\* Two requests at a time, four calls, one of which may die.
CONSTANTS
  r1 = r1
  r2 = r2
  e1 = e1
  i1 = i1
  i2 = i2
  none = none
  Requests = {r1, r2}
  Emails = {e1}
  Invitations = {i1, i2}
  None = none
  Limit <- SmallLimit
  MaxCalls = 4
  MaxFaults = 1
  Endpoints = {"asset", "trash", "invite", "register", "user", "rename", "plan",
               "request", "approve", "status", "organization", "backfill", "time"}
SPECIFICATION FairSpec
INVARIANTS LimitHolds OneAccountPerInvitation
PROPERTIES ExpiredDemosEnd
CHECK_DEADLOCK FALSE
