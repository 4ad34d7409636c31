--------------------------------- MODULE Auth ---------------------------------
(***************************************************************************)
(* The credentials of one account: its sessions and their tokens, the       *)
(* second factor with its backup codes, and the links and codes it is sent  *)
(* by e-mail (auth/auth.service.ts, auth/jwt.strategy.ts, and           *)
(* toggleStatus of users/users.service.ts).                                 *)
(*                                                                          *)
(* A request is a process r; req[r] says which await comes next and keeps   *)
(* what it has read.  Rejected calls change nothing and are left out, and   *)
(* so is a wrong password or code: who calls knows the right one.  A        *)
(* request that was read before another one wrote is what the properties    *)
(* are about, so each handler is cut at its awaits on the database.         *)
(***************************************************************************)
EXTENDS Naturals, FiniteSets

CONSTANTS Requests,     \* concurrent handlers
          Sessions,     \* rows of UserSession the account may come to have
          Devices,      \* user agent and address of a browser
          None,         \* no session, no device
          Calls,        \* endpoints that are called
          MaxCalls,     \* bound: calls, expiries and status changes in a behaviour
          MaxFaults     \* bound: requests that die half way

ASSUME NoneAssumption == None \notin Sessions \union Devices
ASSUME BoundAssumption == MaxCalls \in Nat /\ MaxFaults \in Nat

Serials == 0 .. MaxCalls + 1        \* token ids and secrets: 0 is none
Mails   == 1 .. MaxCalls            \* rows of EmailToken, in order of creation
Codes   == (1 .. MaxCalls + 1) \X {1, 2}   \* backup codes: setup and place
Batch(g) == {g} \X {1, 2}
App     == <<0, 0>>                \* the six digits of the app, or the code that was mailed

VARIABLES
  account,   \* the row of User
  orgActive, \* is_active of its organisation
  session,   \* UserSession
  mail,      \* EmailToken
  pending,   \* PendingTotpSetup
  half,      \* a temporary token of a login that waits for its second factor
  last,      \* last token id or secret given out
  req, calls, faults,
  letIn,     \* history: how many logins each backup code has completed
  spent,     \* history: how often a link has set a password, or a code was marked
  overlapped \* history: two requests have been under way at once

rows == <<account, orgActive, session, mail, pending, half, last>>
vars == <<rows, req, calls, faults, letIn, spent, overlapped>>

Account == [super : BOOLEAN, active : BOOLEAN, tfa : BOOLEAN, method : {"APP", "EMAIL"},
            secret : Serials, codes : SUBSET Codes]
Session == [dev : Devices, jti : Serials, revoked : BOOLEAN, expired : BOOLEAN]
Mail    == [type : {"NONE", "RESET", "CODE"}, st : {"none", "open", "expired", "used", "deleted"}]
Pending == [secret : Serials, usable : BOOLEAN]
Step    == {"idle", "find", "open", "factor", "readcode", "mark", "void", "link",
            "reset", "setup", "enable", "disable", "dropcodes",
            "mailcode", "enableEmail", "disableEmail", "revoke", "others", "toggle"}
Request == [at : Step, dev : Devices \union {None}, ses : Sessions \union {None},
            codes : SUBSET Codes, used : SUBSET Codes, tok : {0} \union Mails, then : Step,
            num : Serials, todo : SUBSET {"password", "token", "sessions"},
            doomed : SUBSET Sessions, to : BOOLEAN]

Idle == [at |-> "idle", dev |-> None, ses |-> None, codes |-> {}, used |-> {},
         tok |-> 0, then |-> "idle", num |-> 0, todo |-> {}, doomed |-> {}, to |-> FALSE]

TypeOK ==
  /\ account \in Account
  /\ orgActive \in BOOLEAN
  /\ session \in [Sessions -> Session]
  /\ mail \in [Mails -> Mail]
  /\ pending \in Pending
  /\ half \in BOOLEAN
  /\ last \in Serials
  /\ req \in [Requests -> Request]
  /\ calls \in 0 .. MaxCalls
  /\ faults \in 0 .. MaxFaults
  /\ letIn \in [Codes -> Nat]
  /\ spent \in [Mails -> Nat]
  /\ overlapped \in BOOLEAN

\* The account has signed in once, on some device, with or without a second factor.
Init ==
  /\ \E super \in BOOLEAN, tfa \in BOOLEAN, m \in {"APP", "EMAIL"} :
       account = [super |-> super, active |-> TRUE, tfa |-> tfa, method |-> m,
                  secret |-> IF tfa /\ m = "APP" THEN 1 ELSE 0,
                  codes |-> IF tfa THEN Batch(1) ELSE {}]
  /\ orgActive = TRUE
  /\ \E s0 \in Sessions, d \in Devices :
       session = [s \in Sessions |->
                   [dev |-> d, jti |-> IF s = s0 THEN 1 ELSE 0, revoked |-> FALSE,
                    expired |-> FALSE]]
  /\ mail = [t \in Mails |-> [type |-> "NONE", st |-> "none"]]
  /\ pending = [secret |-> 0, usable |-> FALSE]
  /\ half = FALSE
  /\ last = 1
  /\ req = [r \in Requests |-> Idle]
  /\ calls = 0
  /\ faults = 0
  /\ letIn = [c \in Codes |-> 0]
  /\ spent = [t \in Mails |-> 0]
  /\ overlapped = FALSE

-----------------------------------------------------------------------------
(* What the handlers ask of the rows.                                       *)

Live(s) == session[s].jti # 0 /\ ~session[s].revoked /\ ~session[s].expired

\* The token with id j opens a door: validate finds its session by jti.
Alive(j) == \E s \in Sessions : session[s].jti = j /\ Live(s)

\* The account may come in at all.
Admissible == account.active /\ (account.super \/ orgActive)

\* A request authenticated by the token of session s.
Authorised(s) == Live(s) /\ Admissible

Open(type) == {t \in Mails : mail[t].type = type /\ mail[t].st = "open"}
Latest(t, S) == t \in S /\ \A u \in S : u <= t

At(r, step) == req[r].at = step
Counted(name) == name \in Calls /\ calls < MaxCalls /\ calls' = calls + 1
Begin(r, endpoint, to) ==
  /\ At(r, "idle")
  /\ Counted(endpoint)
  /\ req' = [req EXCEPT ![r] = to]
  /\ overlapped' = (overlapped \/ \E p \in Requests \ {r} : ~At(p, "idle"))
  /\ UNCHANGED <<faults, letIn, spent>>
Goto(r, to) ==
  /\ req' = [req EXCEPT ![r] = to]
  /\ UNCHANGED <<calls, faults, overlapped>>
Done(r) == Goto(r, Idle)

\* A fresh random token id or secret; the bound is never met, calls run out first.
TakeSerial == last <= MaxCalls /\ last' = last + 1

-----------------------------------------------------------------------------
(* Signing in.                                                              *)

\* The password was right: a session, or a temporary token when a second
\* factor is asked for.
Login(r, d) ==
  /\ Admissible
  /\ Begin(r, "login", IF account.tfa THEN Idle
                       ELSE [Idle EXCEPT !.at = "find", !.dev = d])
  /\ half' = (half \/ account.tfa)
  /\ UNCHANGED <<account, orgActive, session, mail, pending, last>>

\* The second factor of an app, or a backup code.
LoginWithTwoFactor(r, d, c) ==
  /\ half /\ Admissible
  /\ account.tfa /\ account.method = "APP" /\ account.secret # 0
  /\ c \in account.codes \union {App}
  /\ Begin(r, "twoFactor", [Idle EXCEPT !.at = IF c = App THEN "find" ELSE "factor",
       !.dev = d,
       !.codes = account.codes \ {c}, !.used = {c} \ {App}])
  /\ UNCHANGED rows

\* The second factor by e-mail, or a backup code.
LoginWithEmailCode(r, d, c) ==
  /\ half /\ Admissible
  /\ account.tfa /\ account.method = "EMAIL"
  /\ c \in account.codes \union {App}
  /\ Begin(r, "emailCode", [Idle EXCEPT !.at = IF c = App THEN "readcode" ELSE "factor",
       !.dev = d,
       !.codes = account.codes \ {c}, !.used = {c} \ {App}, !.then = "find"])
  /\ UNCHANGED rows

\* Mutant: the list is not written back.
SpendNothing(r) ==
  /\ At(r, "factor")
  /\ letIn' = [c \in Codes |-> IF c \in req[r].used THEN letIn[c] + 1 ELSE letIn[c]]
  /\ Goto(r, [req[r] EXCEPT !.at = "find", !.codes = {}, !.used = {}])
  /\ UNCHANGED <<rows, spent>>

\* The list of backup codes that was read is written back without the one used.
SpendBackupCode(r) ==
  /\ At(r, "factor")
  /\ account' = [account EXCEPT !.codes = req[r].codes]
  /\ letIn' = [c \in Codes |-> IF c \in req[r].used THEN letIn[c] + 1 ELSE letIn[c]]
  /\ Goto(r, [req[r] EXCEPT !.at = "find", !.codes = {}, !.used = {}])
  /\ UNCHANGED <<orgActive, session, mail, pending, half, last, spent>>

\* The newest open code is the one that counts.
ReadEmailCode(r) ==
  /\ At(r, "readcode")
  /\ \/ Open("CODE") = {} /\ Done(r)
     \/ \E t \in Mails : /\ Latest(t, Open("CODE"))
                         /\ Goto(r, [req[r] EXCEPT !.at = "mark", !.tok = t])
  /\ UNCHANGED <<rows, letIn, spent>>

\* Marking a code that a new request has deleted fails the call.
MarkCodeUsed(r) ==
  /\ At(r, "mark")
  /\ LET t == req[r].tok IN
     IF mail[t].st = "deleted" THEN Done(r) /\ UNCHANGED <<mail, spent>>
     ELSE /\ mail' = [mail EXCEPT ![t].st = "used"]
          /\ spent' = [spent EXCEPT ![t] = @ + 1]
          /\ Goto(r, [req[r] EXCEPT !.at = req[r].then, !.tok = 0, !.then = "idle"])
  /\ UNCHANGED <<account, orgActive, session, pending, half, last, letIn>>

SameDevice(d) == {s \in Sessions : Live(s) /\ session[s].dev = d}

\* createSession looks for a live session of the same browser and address.
FindSession(r) ==
  /\ At(r, "find")
  /\ \E s \in IF SameDevice(req[r].dev) = {} THEN {None} ELSE SameDevice(req[r].dev) :
       Goto(r, [req[r] EXCEPT !.at = "open", !.ses = s])
  /\ UNCHANGED <<rows, letIn, spent>>

\* Mutant: a session that is used again keeps its token.
RenewedKeepsToken(r, j) ==
  [dev |-> req[r].dev, jti |-> IF req[r].ses = None THEN j ELSE session[req[r].ses].jti,
   revoked |-> FALSE, expired |-> FALSE]

Renewed(r, j) ==
  [dev |-> req[r].dev, jti |-> j, revoked |-> FALSE, expired |-> FALSE]

\* ... and gives it a new token, whatever has become of it, or adds a session.
OpenSession(r) ==
  /\ At(r, "open")
  /\ TakeSerial
  /\ \E s \in Sessions :
       /\ IF req[r].ses = None THEN session[s].jti = 0 ELSE s = req[r].ses
       /\ session' = [session EXCEPT ![s] = Renewed(r, last')]
  /\ Done(r)
  /\ UNCHANGED <<account, orgActive, mail, pending, half, letIn, spent>>

\* A super admin borrows the account, from a device of the account or another;
\* and an impersonation that ends returns a super admin to this account.
Impersonate(r, d) ==
  /\ ~account.super /\ Admissible
  /\ Begin(r, "impersonate", [Idle EXCEPT !.at = "find", !.dev = d])
  /\ UNCHANGED rows

StopImpersonation(r, d) ==
  /\ account.super /\ account.active
  /\ Begin(r, "impersonate", [Idle EXCEPT !.at = "find", !.dev = d])
  /\ UNCHANGED rows

-----------------------------------------------------------------------------
(* Sessions.                                                                *)

RevokeSession(r, s, t) ==
  /\ Authorised(s) /\ t # s
  /\ Begin(r, "revoke", [Idle EXCEPT !.at = "revoke", !.doomed = {t}])
  /\ UNCHANGED rows

Logout(r, s) ==
  /\ Authorised(s)
  /\ Begin(r, "logout", [Idle EXCEPT !.at = "revoke", !.doomed = {s}])
  /\ UNCHANGED rows

RevokeOtherSessions(r, s) ==
  /\ Authorised(s)
  /\ Begin(r, "revoke", [Idle EXCEPT !.at = "others", !.ses = s])
  /\ UNCHANGED rows

\* One live session of every device, the caller's own first.
Keepers(s) ==
  {K \in SUBSET {x \in Sessions : Live(x)} :
     /\ s \in K
     /\ \A x \in Sessions : Live(x) => \E k \in K : session[k].dev = session[x].dev
     /\ \A k, l \in K : session[k].dev = session[l].dev => k = l}

\* Listing the sessions revokes the duplicates it has read.
GetSessions(r, s) ==
  /\ Authorised(s)
  /\ \E K \in Keepers(s) :
       LET duplicates == {x \in Sessions : Live(x)} \ K IN
       Begin(r, "list", IF duplicates = {} THEN Idle
                        ELSE [Idle EXCEPT !.at = "revoke", !.ses = s, !.doomed = duplicates])
  /\ UNCHANGED rows

Revoked(S) ==
  [s \in Sessions |->
    IF s \in S /\ session[s].jti # 0 THEN [session[s] EXCEPT !.revoked = TRUE] ELSE session[s]]

Revoke(r) ==
  /\ At(r, "revoke")
  /\ session' = Revoked(req[r].doomed)
  /\ Done(r)
  /\ UNCHANGED <<account, orgActive, mail, pending, half, last, letIn, spent>>

RevokeOthers(r) ==
  /\ At(r, "others")
  /\ session' = Revoked(Sessions \ {req[r].ses})
  /\ Done(r)
  /\ UNCHANGED <<account, orgActive, mail, pending, half, last, letIn, spent>>

-----------------------------------------------------------------------------
(* Passwords.                                                               *)

ForgotPassword(r) ==
  /\ account.active
  /\ Begin(r, "forgot", [Idle EXCEPT !.at = "void"])
  /\ UNCHANGED rows

\* Earlier links are used up ...
VoidLinks(r) ==
  /\ At(r, "void")
  /\ mail' = [t \in Mails |->
       IF mail[t].type = "RESET" /\ mail[t].st \in {"open", "expired"}
       THEN [mail[t] EXCEPT !.st = "used"] ELSE mail[t]]
  /\ Goto(r, [req[r] EXCEPT !.at = "link"])
  /\ UNCHANGED <<account, orgActive, session, pending, half, last, letIn, spent>>

NextMail(t) == mail[t].st = "none" /\ \A u \in Mails : u < t => mail[u].st # "none"

\* ... and a new one is sent.
MailLink(r) ==
  /\ At(r, "link")
  /\ \E t \in Mails :
       /\ NextMail(t)
       /\ mail' = [mail EXCEPT ![t] = [type |-> "RESET", st |-> "open"]]
  /\ Done(r)
  /\ UNCHANGED <<account, orgActive, session, pending, half, last, letIn, spent>>

\* Mutant: the sessions stay.
ResetKeepsSessions(r, t) ==
  /\ t \in Open("RESET")
  /\ Begin(r, "reset", [Idle EXCEPT !.at = "reset", !.tok = t, !.num = last,
                         !.todo = {"password", "token"}])
  /\ UNCHANGED rows

ResetPassword(r, t) ==
  /\ t \in Open("RESET")
  /\ Begin(r, "reset", [Idle EXCEPT !.at = "reset", !.tok = t, !.num = last,
                         !.todo = {"password", "token", "sessions"}])
  /\ UNCHANGED rows

\* The three statements of Promise.all arrive in any order.
ResetStep(r, w) ==
  /\ At(r, "reset")
  /\ w \in req[r].todo
  /\ CASE w = "password" ->
            /\ spent' = [spent EXCEPT ![req[r].tok] = @ + 1]
            /\ UNCHANGED <<mail, session>>
       [] w = "token" ->
            /\ mail' = [mail EXCEPT ![req[r].tok].st = "used"]
            /\ UNCHANGED <<spent, session>>
       [] w = "sessions" ->
            /\ session' = Revoked(Sessions)
            /\ UNCHANGED <<spent, mail>>
  /\ LET left == req[r].todo \ {w} IN
     IF left = {} THEN Done(r) ELSE Goto(r, [req[r] EXCEPT !.todo = left])
  /\ UNCHANGED <<account, orgActive, pending, half, last, letIn>>

-----------------------------------------------------------------------------
(* Setting the second factor up and taking it down.                         *)

SetupTwoFactor(r, s) ==
  /\ Authorised(s) /\ ~account.tfa
  /\ Begin(r, "setup", [Idle EXCEPT !.at = "setup"])
  /\ UNCHANGED rows

\* A new secret replaces the one that was pending.
UpsertPending(r) ==
  /\ At(r, "setup")
  /\ TakeSerial
  /\ pending' = [secret |-> last', usable |-> TRUE]
  /\ Done(r)
  /\ UNCHANGED <<account, orgActive, session, mail, half, letIn, spent>>

VerifyTwoFactorSetup(r, s) ==
  /\ Authorised(s) /\ pending.usable
  /\ Begin(r, "setup", [Idle EXCEPT !.at = "enable", !.num = pending.secret])
  /\ UNCHANGED rows

\* One transaction: the user row, whose method it leaves alone, and the setup.
EnableTwoFactor(r) ==
  /\ At(r, "enable")
  /\ TakeSerial
  /\ account' = [account EXCEPT !.tfa = TRUE, !.secret = req[r].num, !.codes = Batch(last')]
  /\ pending' = [pending EXCEPT !.usable = FALSE]
  /\ Done(r)
  /\ UNCHANGED <<orgActive, session, mail, half, letIn, spent>>

\* With a code of the app or a backup code when it is enabled, else with none.
DisableTwoFactor(r, s) ==
  /\ Authorised(s)
  /\ account.tfa => account.codes # {} \/ account.secret # 0
  /\ Begin(r, "disable", [Idle EXCEPT !.at = "disable"])
  /\ UNCHANGED rows

WriteDisabled(r) ==
  /\ At(r, "disable")
  /\ account' = [account EXCEPT !.tfa = FALSE, !.secret = 0, !.codes = {}]
  /\ Done(r)
  /\ UNCHANGED <<orgActive, session, mail, pending, half, last, letIn, spent>>

SendTwoFactorEmailCode(r, s) ==
  /\ Authorised(s)
  /\ Begin(r, "sendCode", [Idle EXCEPT !.at = "dropcodes"])
  /\ UNCHANGED rows

RequestTwoFactorEmailCode(r) ==
  /\ half /\ account.active
  /\ account.tfa /\ account.method = "EMAIL"
  /\ Begin(r, "sendCode", [Idle EXCEPT !.at = "dropcodes"])
  /\ UNCHANGED rows

\* Codes that were sent before are deleted ...
DropCodes(r) ==
  /\ At(r, "dropcodes")
  /\ mail' = [t \in Mails |->
       IF mail[t].type = "CODE" /\ mail[t].st \in {"open", "expired"}
       THEN [mail[t] EXCEPT !.st = "deleted"] ELSE mail[t]]
  /\ Goto(r, [req[r] EXCEPT !.at = "mailcode"])
  /\ UNCHANGED <<account, orgActive, session, pending, half, last, letIn, spent>>

\* ... and a new one is sent.
MailCode(r) ==
  /\ At(r, "mailcode")
  /\ \E t \in Mails :
       /\ NextMail(t)
       /\ mail' = [mail EXCEPT ![t] = [type |-> "CODE", st |-> "open"]]
  /\ Done(r)
  /\ UNCHANGED <<account, orgActive, session, pending, half, last, letIn, spent>>

VerifyTwoFactorEmailSetup(r, s) ==
  /\ Authorised(s) /\ ~account.tfa
  /\ Begin(r, "emailSetup", [Idle EXCEPT !.at = "readcode", !.then = "enableEmail"])
  /\ UNCHANGED rows

\* Mutant: the method stays, as it does when an app is set up.
EnableEmailKeepsMethod(r) ==
  /\ At(r, "enableEmail")
  /\ TakeSerial
  /\ account' = [account EXCEPT !.tfa = TRUE, !.secret = 0, !.codes = Batch(last')]
  /\ Done(r)
  /\ UNCHANGED <<orgActive, session, mail, pending, half, letIn, spent>>

EnableEmail(r) ==
  /\ At(r, "enableEmail")
  /\ TakeSerial
  /\ account' = [account EXCEPT !.tfa = TRUE, !.method = "EMAIL", !.secret = 0,
                                !.codes = Batch(last')]
  /\ Done(r)
  /\ UNCHANGED <<orgActive, session, mail, pending, half, letIn, spent>>

\* With a code sent by e-mail, which is used up, or with a backup code.
DisableTwoFactorEmail(r, s) ==
  /\ Authorised(s)
  /\ account.tfa /\ account.method = "EMAIL"
  /\ \E step \in {"readcode"} \union IF account.codes = {} THEN {} ELSE {"disableEmail"} :
       Begin(r, "disable", [Idle EXCEPT !.at = step, !.then = "disableEmail"])
  /\ UNCHANGED rows

WriteEmailDisabled(r) ==
  /\ At(r, "disableEmail")
  /\ account' = [account EXCEPT !.tfa = FALSE, !.method = "APP", !.secret = 0, !.codes = {}]
  /\ Done(r)
  /\ UNCHANGED <<orgActive, session, mail, pending, half, last, letIn, spent>>

-----------------------------------------------------------------------------
(* Administration, time and failure.                                        *)

\* An administrator turns the account on or off, by the value read.
ToggleStatus(r) ==
  /\ Begin(r, "status", [Idle EXCEPT !.at = "toggle", !.to = ~account.active])
  /\ UNCHANGED rows

WriteStatus(r) ==
  /\ At(r, "toggle")
  /\ account' = [account EXCEPT !.active = req[r].to]
  /\ Done(r)
  /\ UNCHANGED <<orgActive, session, mail, pending, half, last, letIn, spent>>

OrganizationToggled ==
  /\ Counted("organization")
  /\ orgActive' = ~orgActive
  /\ UNCHANGED <<account, session, mail, pending, half, last, req, faults, letIn, spent, overlapped>>

TimePasses ==
  /\ Counted("time")
  /\ \/ \E s \in Sessions :
          /\ Live(s)
          /\ session' = [session EXCEPT ![s].expired = TRUE]
          /\ UNCHANGED <<mail, pending, half>>
     \/ \E t \in Mails :
          /\ mail[t].st = "open"
          /\ mail' = [mail EXCEPT ![t].st = "expired"]
          /\ UNCHANGED <<session, pending, half>>
     \/ pending.usable /\ pending' = [pending EXCEPT !.usable = FALSE] /\ UNCHANGED <<session, mail, half>>
     \/ half /\ half' = FALSE /\ UNCHANGED <<session, mail, pending>>
  /\ UNCHANGED <<account, orgActive, last, req, faults, letIn, spent, overlapped>>

\* A request dies between two awaits; what it has written stays.
Abandon(r) ==
  /\ ~At(r, "idle")
  /\ faults < MaxFaults
  /\ faults' = faults + 1
  /\ req' = [req EXCEPT ![r] = Idle]
  /\ UNCHANGED <<rows, calls, letIn, spent, overlapped>>

-----------------------------------------------------------------------------
\* The routes behind AuthGuard, with the token of session s.
SessionCall(r, s) ==
  \/ Logout(r, s) \/ RevokeOtherSessions(r, s) \/ GetSessions(r, s)
  \/ \E t \in Sessions : RevokeSession(r, s, t)
  \/ SetupTwoFactor(r, s) \/ VerifyTwoFactorSetup(r, s)
  \/ DisableTwoFactor(r, s) \/ SendTwoFactorEmailCode(r, s)
  \/ VerifyTwoFactorEmailSetup(r, s) \/ DisableTwoFactorEmail(r, s)

Call(r) ==
  \/ ForgotPassword(r) \/ RequestTwoFactorEmailCode(r) \/ ToggleStatus(r)
  \/ \E t \in Mails : ResetPassword(r, t)
  \/ \E d \in Devices :
       \/ Login(r, d) \/ Impersonate(r, d) \/ StopImpersonation(r, d)
       \/ \E c \in Codes \union {App} : LoginWithTwoFactor(r, d, c) \/ LoginWithEmailCode(r, d, c)
  \/ \E s \in Sessions : SessionCall(r, s)

Continue(r) ==
  \/ SpendBackupCode(r) \/ ReadEmailCode(r) \/ MarkCodeUsed(r)
  \/ FindSession(r) \/ OpenSession(r)
  \/ Revoke(r) \/ RevokeOthers(r)
  \/ VoidLinks(r) \/ MailLink(r)
  \/ \E w \in {"password", "token", "sessions"} : ResetStep(r, w)
  \/ UpsertPending(r) \/ EnableTwoFactor(r) \/ WriteDisabled(r)
  \/ DropCodes(r) \/ MailCode(r) \/ EnableEmail(r) \/ WriteEmailDisabled(r)
  \/ WriteStatus(r)

Next ==
  \/ \E r \in Requests : Call(r) \/ Continue(r) \/ Abandon(r)
  \/ OrganizationToggled \/ TimePasses

Spec == Init /\ [][Next]_vars

-----------------------------------------------------------------------------
(* Properties.                                                              *)

\* A token that opens no door any more never opens one again: not when a login
\* that had found its session writes to the row after it was revoked, and not
\* when an organisation is turned on again (createSession, revoke*, reset).
DeadTokenStaysDead == [][\A j \in 1 .. last : ~Alive(j) => ~Alive(j)']_vars

\* When a password reset has come to its end, no token issued before it was
\* asked for opens a door, whatever logins overlapped it (resetPassword).
ResetKillsOldTokens ==
  [][\A r \in Requests :
       (At(r, "reset") /\ req'[r].at = "idle" /\ faults' = faults)
         => \A j \in 1 .. req[r].num : ~Alive(j)']_vars

\* An account that asks for the code of an authenticator app has its secret,
\* in whatever order the two ways of a second factor are set up and taken down:
\* loginWithTwoFactor refuses an account without one.
NoLockout == account.tfa /\ account.method = "APP" => account.secret # 0

\* Unless two requests overlap, a backup code completes one login, an e-mailed
\* code is marked once, and a link sets one password if no request died half way.
SingleUseAlone ==
  ~overlapped => /\ \A c \in Codes : letIn[c] <= 1
                 /\ faults = 0 => \A t \in Mails : spent[t] <= 1

=============================================================================
