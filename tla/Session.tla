-------------------------------- MODULE Session --------------------------------
(***************************************************************************)
(* Who a tab of the browser shows as signed in, and whose rows it keeps,    *)
(* against the cookie that all tabs share.  The tab asks /auth/me whenever  *)
(* its page changes; answers may overtake each other, fail, or find that    *)
(* the session is gone; other tabs sign in and out meanwhile.               *)
(***************************************************************************)
EXTENDS Naturals, Sequences, People

CONSTANTS
  MaxAsks,   \* bound: requests of /auth/me under way
  MaxActs,   \* bound: what the user does
  MaxUpsets  \* bound: failures, revocations, and what other tabs do

ASSUME SessionAssumption == MaxAsks \in Nat \ {0} /\ MaxActs \in Nat /\ MaxUpsets \in Nat
\* Who is signed in has an account.
ASSUME NobodyAssumption == "nobody" \notin Accounts

VARIABLES
  cookie,  \* the identity of the cookie, and whether its session is alive
  tab,     \* user, loading, the page, the accounts whose rows are cached, pendingRedirect
  asks,    \* requests of /auth/me, in the order they were sent
  call,    \* the request of a button: for which account, clicked on which page
  acts, upsets,
  odd      \* history: why the tab may show something else

session == <<cookie, tab, asks, call, acts, upsets, odd>>

\* An account, and the operator who acts as it.
Nobody == [who |-> "nobody", by |-> "nobody"]
As(u) == [who |-> u, by |-> "nobody"]

\* A page of each kind: guest-only, always public, and of every table of roles.
Paths == {"login", "register", "dashboard", "assets", "users", "organizations"}
GuestOnly(p)    == p = "login"
AlwaysPublic(p) == p = "register"
Exempt(p)       == AlwaysPublic(p) \/ GuestOnly(p)
Permitted ==
  [dashboard |-> Roles, assets |-> Roles, users |-> {"SUPER_ADMIN", "ADMIN"},
   organizations |-> {"SUPER_ADMIN"}]
CanAccess(id, p) == id # Nobody /\ (p \in DOMAIN Permitted => RoleOf[id.who] \in Permitted[p])
Home(id) == IF Manager(id.who) THEN "dashboard" ELSE "assets"

Signed == cookie.id # Nobody /\ cookie.live

NotCalling == [op |-> "none"]
\* What may make a settled tab differ from the cookie.
Fine == [late |-> FALSE, unseen |-> FALSE, erred |-> FALSE, mixed |-> FALSE]

SessionInit ==
  /\ \E u \in Accounts : cookie \in {[id |-> As(u), live |-> TRUE], [id |-> Nobody, live |-> FALSE]}
  /\ \E p \in Paths : /\ tab = [user |-> Nobody, loading |-> TRUE, page |-> p, rows |-> {},
                               pending |-> "none"]
                      /\ asks = <<[id |-> cookie.id, page |-> p, got |-> "nothing",
                                   next |-> "none", late |-> FALSE]>>
  /\ call = NotCalling /\ acts = 0 /\ upsets = 0 /\ odd = Fine

-----------------------------------------------------------------------------
(* refreshUser and the page it belongs to.                                  *)

\* A request of /auth/me from page p with the cookie c: next is where its answer leads.
Ask(c, p, next) == [id |-> c.id, page |-> p, got |-> "nothing", next |-> next, late |-> FALSE]
Room == Len(asks) < MaxAsks
Anew(o) == [o EXCEPT !.unseen = FALSE, !.erred = FALSE]

\* Another path makes another refreshUser, and the effect calls it.
Visit(t, p, others, c, o) ==
  /\ tab' = [t EXCEPT !.page = p]
  /\ asks' = IF p = t.page THEN others ELSE Append(others, Ask(c, p, "none"))
  /\ odd' = IF p = t.page THEN o ELSE Anew(o)

\* clearClientAuthState, as the render of page p has it.
Cleared(t, p) == [t EXCEPT !.user = Nobody, !.rows = IF AlwaysPublic(p) THEN @ ELSE {}]
\* queryClient.clear and setLoading of login, impersonate and stopImpersonation.
StartedAnew(t) == [t EXCEPT !.rows = {}, !.loading = TRUE]

Act == acts < MaxActs /\ acts' = acts + 1
Upset == upsets < MaxUpsets /\ upsets' = upsets + 1
Main == ~Exempt(tab.page) /\ ~tab.loading /\ tab.user # Nobody

\* A link, or the back button.
Follow(p) ==
  /\ Act /\ Room /\ p # tab.page
  /\ Visit(tab, p, asks, cookie, odd)
  /\ UNCHANGED <<cookie, call, upsets>>

\* The API answers for the session of the cookie that the request carried; when
\* the cookie has been replaced since, that session may or may not be alive.
Serve(i) ==
  /\ asks[i].got = "nothing"
  /\ \E got \in IF asks[i].id = Nobody THEN {"401"}
                ELSE IF asks[i].id = cookie.id THEN {IF cookie.live THEN "user" ELSE "401"}
                ELSE {"user", "401"} :
       asks' = [asks EXCEPT ![i].got = got]
  /\ UNCHANGED <<cookie, tab, call, acts, upsets, odd>>

AskFails(i) ==
  /\ Upset
  /\ asks[i].got = "nothing"
  /\ asks' = [asks EXCEPT ![i].got = "error"]
  /\ UNCHANGED <<cookie, tab, call, acts, odd>>

\* The requests that are left when i is answered: earlier ones will be late.
Left(i) ==
  [j \in 1 .. Len(asks) - 1 |-> IF j < i THEN [asks[j] EXCEPT !.late = TRUE] ELSE asks[j + 1]]

\* The 401 interceptor of a page that is not exempt: everything in the tab is
\* lost but sessionStorage, and the login page asks again.
ThrownOut ==
  /\ tab' = [user |-> Nobody, loading |-> TRUE, page |-> "login", rows |-> {}, pending |-> tab.pending]
  /\ asks' = <<Ask(cookie, "login", "none")>>
  /\ call' = NotCalling
  /\ odd' = Fine

\* Mutant: loading ends with an answer only.
ReceiveKeepingLoading(i) ==
  LET a == asks[i]
      o == [odd EXCEPT !.late = a.late, !.erred = a.got = "error"]
      known == IF a.got = "user" THEN [tab EXCEPT !.user = a.id, !.loading = FALSE]
               ELSE Cleared(tab, a.page)
  IN /\ a.got # "nothing"
     /\ IF a.next = "none" THEN tab' = known /\ asks' = Left(i) /\ odd' = o
        ELSE Visit(known, a.next, Left(i), cookie, o)
     /\ UNCHANGED <<cookie, call, acts, upsets>>

\* The end of refreshUser, and of what called it.
Receive(i) ==
  LET a == asks[i]
      o == [odd EXCEPT !.late = a.late, !.erred = a.got = "error"]
      known == [IF a.got = "user" THEN [tab EXCEPT !.user = a.id] ELSE Cleared(tab, a.page)
                  EXCEPT !.loading = FALSE]
  IN /\ a.got # "nothing"
     /\ IF a.got = "401" /\ ~Exempt(tab.page) THEN ThrownOut
        ELSE /\ IF a.next = "none" THEN tab' = known /\ asks' = Left(i) /\ odd' = o
                ELSE Visit(known, a.next, Left(i), cookie, o)
             /\ UNCHANGED call
     /\ UNCHANGED <<cookie, acts, upsets>>

\* Where the effect that guards the routes sends the tab.
Target ==
  IF tab.loading \/ AlwaysPublic(tab.page) THEN tab.page
  ELSE IF tab.user = Nobody THEN "login"
  ELSE IF GuestOnly(tab.page) THEN IF tab.pending # "none" THEN tab.pending ELSE Home(tab.user)
  ELSE IF ~CanAccess(tab.user, tab.page) THEN Home(tab.user)
  ELSE tab.page

Redirect ==
  /\ Target # tab.page /\ Room
  /\ Visit([tab EXCEPT !.pending = IF GuestOnly(tab.page) THEN "none" ELSE @], Target, asks, cookie, odd)
  /\ UNCHANGED <<cookie, call, acts, upsets>>

\* The queries of a page: its rows are those of the cookie.
Fetch ==
  /\ Main
  /\ IF Signed THEN /\ tab' = [tab EXCEPT !.rows = @ \union {cookie.id.who}]
                    /\ UNCHANGED <<asks, call, odd>>
     ELSE ThrownOut
  /\ UNCHANGED <<cookie, acts, upsets>>

-----------------------------------------------------------------------------
(* The buttons.                                                             *)

Click(op, u) == Act /\ call = NotCalling /\ call' = [op |-> op, who |-> u, page |-> tab.page]

\* The form of the login page, with its second factor, and the one of signup.
SubmitLogin(u) ==
  /\ tab.page = "login" /\ Click("login", u)
  /\ UNCHANGED <<cookie, tab, asks, upsets, odd>>

\* The form that an invitation leads to.
SubmitRegister(u) ==
  /\ tab.page = "register" /\ Click("register", u)
  /\ UNCHANGED <<cookie, tab, asks, upsets, odd>>

Logout ==
  /\ Main /\ Click("logout", tab.user.who)
  /\ UNCHANGED <<cookie, tab, asks, upsets, odd>>

Impersonate(u) ==
  /\ Main /\ tab.page = "users" /\ RoleOf[tab.user.who] = "SUPER_ADMIN" /\ RoleOf[u] # "SUPER_ADMIN"
  /\ Click("impersonate", u)
  /\ UNCHANGED <<cookie, tab, asks, upsets, odd>>

StopImpersonation ==
  /\ Main /\ tab.user.by # "nobody" /\ Click("stop", tab.user.by)
  /\ UNCHANGED <<cookie, tab, asks, upsets, odd>>

\* The answer sets the cookie, and the refreshUser of the click follows.
SignIn(id, t, next) ==
  /\ Room
  /\ cookie' = [id |-> id, live |-> TRUE]
  /\ tab' = t
  /\ asks' = Append(asks, Ask(cookie', call.page, next))
  /\ odd' = [Anew(odd) EXCEPT !.mixed = FALSE]
  /\ call' = NotCalling
  /\ UNCHANGED <<acts, upsets>>

\* A redirect of the address is kept for later.
LoggedIn ==
  /\ call.op = "login"
  /\ \E p \in {tab.pending, "users"} : SignIn(As(call.who), StartedAnew([tab EXCEPT !.pending = p]), "none")

Registered == call.op = "register" /\ SignIn(As(call.who), StartedAnew(tab), "none")

\* Mutant: the queries of before are kept.
ImpersonatedKeepingRows ==
  /\ call.op = "impersonate" /\ Signed /\ RoleOf[cookie.id.who] = "SUPER_ADMIN"
  /\ SignIn([who |-> call.who, by |-> cookie.id.who], [tab EXCEPT !.loading = TRUE], "dashboard")

Impersonated ==
  /\ call.op = "impersonate" /\ Signed /\ RoleOf[cookie.id.who] = "SUPER_ADMIN"
  /\ SignIn([who |-> call.who, by |-> cookie.id.who], StartedAnew(tab), "dashboard")

Stopped ==
  /\ call.op = "stop" /\ Signed /\ cookie.id.by # "nobody"
  /\ SignIn(As(cookie.id.by), StartedAnew(tab), "dashboard")

\* The session of the cookie ends, the cookie goes, and then the tab.
LoggedOut ==
  /\ call.op = "logout" /\ Signed /\ Room
  /\ cookie' = [id |-> Nobody, live |-> FALSE]
  /\ Visit(Cleared(tab, call.page), "login", asks, cookie', [odd EXCEPT !.mixed = FALSE])
  /\ call' = NotCalling
  /\ UNCHANGED <<acts, upsets>>

\* A logout that fails is swallowed: the tab goes, the cookie stays.
LogoutFails ==
  /\ Upset /\ Room
  /\ call.op = "logout"
  /\ Visit(Cleared(tab, call.page), "login", asks, cookie,
           [odd EXCEPT !.mixed = FALSE, !.erred = TRUE])
  /\ call' = NotCalling
  /\ UNCHANGED <<cookie, acts>>

\* The API refuses: without a session, the interceptor does the rest.
Declined ==
  /\ call.op \in {"logout", "impersonate", "stop"}
  /\ IF Signed
     THEN /\ \/ call.op = "impersonate" /\ RoleOf[cookie.id.who] # "SUPER_ADMIN"
             \/ call.op = "stop" /\ cookie.id.by = "nobody"
          /\ call' = NotCalling /\ UNCHANGED <<tab, asks, odd>>
     ELSE IF ~Exempt(tab.page) THEN ThrownOut
     ELSE /\ IF call.op = "logout" THEN Room /\ Visit(Cleared(tab, call.page), "login", asks, cookie, odd)
             ELSE UNCHANGED <<tab, asks, odd>>
          /\ call' = NotCalling
  /\ UNCHANGED <<cookie, acts, upsets>>

\* Wrong data, or no answer.
CallFails ==
  /\ Upset
  /\ call.op \in {"login", "register", "impersonate", "stop"}
  /\ call' = NotCalling
  /\ UNCHANGED <<cookie, tab, asks, acts, odd>>

-----------------------------------------------------------------------------
(* The rest of the world.                                                   *)

\* Another tab signs in as somebody, or out.
OtherTab ==
  /\ Upset
  /\ \E c \in {[id |-> Nobody, live |-> FALSE]} \union {[id |-> As(u), live |-> TRUE] : u \in Accounts} :
       cookie' = c
  /\ odd' = [odd EXCEPT !.unseen = TRUE, !.mixed = TRUE]
  /\ UNCHANGED <<tab, asks, call, acts>>

\* The session ends elsewhere: it expires, is revoked, or its account is switched off.
SessionEnds ==
  /\ Upset /\ Signed
  /\ cookie' = [cookie EXCEPT !.live = FALSE]
  /\ odd' = [odd EXCEPT !.unseen = TRUE]
  /\ UNCHANGED <<tab, asks, call, acts>>

Answers == LoggedIn \/ Registered \/ Impersonated \/ Stopped \/ LoggedOut \/ Declined
Browser == Redirect \/ \E i \in DOMAIN asks : Serve(i) \/ Receive(i)
User ==
  \/ \E p \in Paths : Follow(p)
  \/ \E u \in Accounts : SubmitLogin(u) \/ SubmitRegister(u) \/ Impersonate(u)
  \/ Logout \/ StopImpersonation
World ==
  OtherTab \/ SessionEnds \/ LogoutFails \/ CallFails \/ \E i \in DOMAIN asks : AskFails(i)

SessionNext == Browser \/ Fetch \/ Answers \/ User \/ World

SessionSpec == SessionInit /\ [][SessionNext]_session

\* Requests are answered, and the effects of a render run.
SessionFairness == WF_session(Browser) /\ WF_session(Answers)

-----------------------------------------------------------------------------
(* Properties.                                                              *)

AtRest == asks = <<>> /\ call = NotCalling /\ ~tab.loading /\ Target = tab.page

\* A settled tab shows the account of the cookie, with the operator behind it,
\* or nobody when its session is gone; and keeps no rows of another account.
\* Except when the last answer had been overtaken or was an error, or when the
\* cookie changed elsewhere: then until the next page, and until the next sign-in
\* for the rows (AuthContext.refreshUser, clearClientAuthState).
ShowsSignedIn ==
  AtRest =>
    /\ odd.late \/ odd.unseen \/ odd.erred \/
         tab.user = IF Signed THEN cookie.id ELSE Nobody
    /\ odd.late \/ odd.mixed \/ AlwaysPublic(tab.page) \/ \A u \in tab.rows : u = tab.user.who

\* Whatever failed or was replaced, the redirects and the spinner come to an end
\* (the effects of AuthContext).
TabSettles == <>[]AtRest
=============================================================================
