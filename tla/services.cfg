\* Two handlers at a time, four calls, a link that lives a day; an admin and a guest, three
\* calls or changes, two at a time, one mishap.
CONSTANTS
  t1 = t1
  t2 = t2
  gone = gone
  r1 = r1
  r2 = r2
  Requests = {r1, r2}
  Texts = {t1, t2, gone}
  Erased = gone
  Guess <- SmallGuess
  Named <- SmallNamed
  Eligible <- SmallEligible
  Drafts <- SmallDrafts
  Dtos <- SmallDtos
  Life = 1
  MaxCalls = 4
  MaxDays = 1
  MaxFaults = 1
  admin = admin
  guest = guest
  People = {admin, guest}
  RoleOf <- SmallRoles
  Handlers = {r1, r2}
  Commands = {"reset", "code", "invite", "factor", "user", "org", "plan", "login", "video",
              "demo", "storage", "service", "switch", "preferences"}
  Switchable = {"two_factor_code", "user_status_changed"}
  MaxOrders = 3
  MaxMishaps = 1
SPECIFICATION SmallSpec
INVARIANTS ShownInLanguage AnnouncedOnce ErasedStaysErased MailsAddUp
SYMMETRY Symmetry
CHECK_DEADLOCK FALSE
