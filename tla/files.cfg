\* Two requests at a time on two rows and a new service, asset or owner,
\* two new files, three calls without one, two failures.
CONSTANTS
  r1 = r1
  r2 = r2
  a1 = a1
  o1 = o1
  s1 = s1
  Requests = {r1, r2}
  Rows = {a1, o1, s1}
  Mixes <- SmallMixes
  First <- SmallFirst
  MaxFiles = 4
  Bytes <- SmallBytes
  Override = 0
  PlanGb = 1
  Gb = 5
  Fallback = 1
  Reservations = {0, 1}
  MaxEdits = 3
  MaxFaults = 2
SPECIFICATION Spec
SYMMETRY Alike
INVARIANTS CountersAgree NoDeadLinks NoLeaks
PROPERTIES OneMailPerRise
CHECK_DEADLOCK FALSE
