\* Two requests at a time, three calls, one of which may die; one account
\* before one page, and two calls of its own and of others, at most.
CONSTANTS
  r1 = r1
  r2 = r2
  s1 = s1
  s2 = s2
  d1 = d1
  d2 = d2
  none = none
  Requests = {r1, r2}
  Sessions = {s1, s2}
  Devices = {d1, d2}
  None = none
  MaxCalls = 3
  MaxFaults = 1
  Calls = {"login", "twoFactor", "emailCode", "impersonate", "revoke", "logout",
           "list", "forgot", "reset", "setup", "emailSetup", "disable", "sendCode",
           "status", "organization", "time"}
  MaxPresses = 2
  Matter <- SmallMatter
SPECIFICATION SmallSpec
INVARIANTS NoLockout SingleUseAlone ClickDoesWhatItSays
PROPERTIES DeadTokenStaysDead ResetKillsOldTokens
CHECK_DEADLOCK FALSE
