------------------------------ MODULE AuthProofs ------------------------------
(***************************************************************************)
(* Proofs about Auth and about Offers.                                     *)
(* Of Auth, for any number of handlers, sessions and devices, the parts of *)
(* the invariant are: what handlers carry is fit to be written;            *)
(* an app is never asked for without its secret; a reset that has revoked  *)
(* the sessions has left no older token; and, as long as no two handlers   *)
(* have overlapped, what was used is marked as used.                       *)
(***************************************************************************)
EXTENDS Auth, Offers, SequenceTheorems, TLAPS

Fits(q) ==
  /\ q.at \in {"readcode", "mark"} => q.then \in {"find", "enableEmail", "disableEmail"}
  /\ \/ q.at \in {"find", "open", "factor"}
     \/ q.at \in {"readcode", "mark"} /\ q.then = "find"
     => q.dev \in Devices
  /\ q.at \in {"mark", "reset"} => q.tok \in Mails
  /\ q.at = "enable" => q.num # 0

RequestsFit == \A r \in Requests : Fits(req[r])
PendingReal == pending.usable => pending.secret # 0
ShapeInv    == TypeOK /\ RequestsFit /\ PendingReal /\ NoLockout

\* A reset was asked for when its number was the last, and has left no older token.
Resets(q) == q.at = "reset" =>
  /\ q.num <= last
  /\ "sessions" \notin q.todo => \A s \in Sessions : Live(s) => session[s].jti > q.num
ResetInv == \A r \in Requests : Resets(req[r])

OneAtATime == \A p, q \in Requests : ~At(p, "idle") /\ ~At(q, "idle") => p = q

\* A backup code is in the list of the account until it lets somebody in.
ListedCode(c) ==
  /\ letIn[c] <= 1
  /\ letIn[c] > 0 => c[1] <= last
  /\ c \in account.codes => c[1] <= last /\ letIn[c] = 0
Spends(q, list) == q.at = "factor" => q.used \subseteq list /\ q.codes = list \ q.used
CodesInv == (\A c \in Codes : ListedCode(c)) /\ \A r \in Requests : Spends(req[r], account.codes)

\* What was spent is marked, or the reset that spent it is about to mark it.
Marking(q, t) == q.at = "reset" /\ q.tok = t /\ "password" \notin q.todo /\ "token" \in q.todo
Marked(t) == /\ spent[t] <= 1
             /\ spent[t] > 0 => mail[t].st = "used" \/ \E r \in Requests : Marking(req[r], t)
Marks(q, box, count) == /\ q.at = "mark" => box[q.tok].st # "used"
                        /\ q.at = "reset" /\ "password" \in q.todo => count[q.tok] = 0
                        /\ q.at = "reset" /\ "token" \notin q.todo => box[q.tok].st = "used"
MailsInv == (\A t \in Mails : Marked(t)) /\ \A r \in Requests : Marks(req[r], mail, spent)

AloneInv == ~overlapped => OneAtATime /\ CodesInv /\ (faults = 0 => MailsInv)

IInv == ShapeInv /\ ResetInv /\ AloneInv

-----------------------------------------------------------------------------
(* A step of a handler: it goes on with x.                                 *)

RowsTyped == /\ account \in Account /\ orgActive \in BOOLEAN
             /\ session \in [Sessions -> Session] /\ mail \in [Mails -> Mail]
             /\ pending \in Pending /\ half \in BOOLEAN /\ last \in Serials
PastTyped == /\ letIn \in [Codes -> Nat] /\ spent \in [Mails -> Nat]

Steps(r, x) == /\ req' = [req EXCEPT ![r] = x]
               /\ calls' \in 0 .. MaxCalls /\ faults' \in 0 .. MaxFaults
               /\ overlapped' \in BOOLEAN
               /\ faults <= faults' /\ (overlapped => overlapped')

LEMMA Facts ==
  ASSUME IInv
  PROVE  /\ RowsTyped /\ PastTyped /\ req \in [Requests -> Request]
         /\ calls \in 0 .. MaxCalls /\ faults \in 0 .. MaxFaults
         /\ overlapped \in BOOLEAN /\ PendingReal /\ NoLockout /\ ResetInv /\ AloneInv
BY DEF IInv, ShapeInv, TypeOK, RowsTyped, PastTyped

LEMMA Typed ==
  ASSUME IInv, NEW r \in Requests
  PROVE  req[r] \in Request /\ Fits(req[r]) /\ Resets(req[r])
BY Facts DEF IInv, ShapeInv, RequestsFit, ResetInv

LEMMA IdleType == Idle \in Request /\ Fits(Idle) /\ Idle.at = "idle"
<1>1. 0 \in Serials
  BY BoundAssumption DEF Serials
<1> QED
  BY <1>1 DEF Idle, Request, Step, Fits

LEMMA Numbers == last \in Serials => last \in Nat
BY BoundAssumption DEF Serials

LEMMA GotoSteps ==
  ASSUME IInv, NEW r \in Requests, NEW x \in Request, Goto(r, x)
  PROVE  Steps(r, x) /\ UNCHANGED <<faults, overlapped>>
BY Facts, BoundAssumption DEF Goto, Steps

\* What a step leaves well-formed.
LEMMA ShapeKept ==
  ASSUME IInv, NEW r \in Requests, NEW x \in Request, Steps(r, x), Fits(x),
         RowsTyped', PastTyped', PendingReal', NoLockout'
  PROVE  ShapeInv'
<1>1. /\ req' \in [Requests -> Request] /\ req'[r] = x
      /\ \A q \in Requests \ {r} : req'[q] = req[q]
  BY Facts DEF Steps
<1>2. TypeOK'
  BY <1>1 DEF TypeOK, RowsTyped, PastTyped, Steps
<1>3. \A q \in Requests : Fits(req'[q])
  BY <1>1, Typed
<1> QED
  BY <1>2, <1>3 DEF ShapeInv, RequestsFit, Fits

\* Sessions only go, or come with a new token.
Newer == \A s \in Sessions : Live(s)' => \/ Live(s) /\ session'[s].jti = session[s].jti
                                        \/ session'[s].jti > last

LEMMA ResetKept ==
  ASSUME IInv, NEW r \in Requests, NEW x \in Request, Steps(r, x), RowsTyped', last <= last',
         Newer,
         x.at = "reset" => /\ x.num <= last'
                           /\ "sessions" \notin x.todo =>
                                \A s \in Sessions : Live(s)' => session'[s].jti > x.num
  PROVE  ResetInv'
<1> SUFFICES ASSUME NEW q \in Requests, req'[q].at = "reset"
             PROVE  /\ req'[q].num <= last'
                    /\ "sessions" \notin req'[q].todo =>
                         \A s \in Sessions : Live(s)' => session'[s].jti > req'[q].num
  BY DEF ResetInv, Resets
<1>1. /\ req'[r] = x /\ \A p \in Requests \ {r} : req'[p] = req[p]
  BY Facts DEF Steps
<1>2. CASE q = r
  BY <1>1, <1>2
<1>3. CASE q # r
  <2>1. req'[q] = req[q] /\ Resets(req[q]) /\ req[q] \in Request
    BY <1>1, <1>3, Typed
  <2>2. /\ req[q].num \in Nat /\ last \in Nat /\ last' \in Nat
        /\ \A s \in Sessions : session'[s].jti \in Nat
    BY <2>1, Facts, BoundAssumption DEF Request, RowsTyped, Serials, Session
  <2> QED
    BY <2>1, <2>2 DEF Resets, Newer
<1> QED
  BY <1>2, <1>3

LEMMA SameSessions == ASSUME IInv, UNCHANGED session PROVE Newer
BY DEF Newer, Live

-----------------------------------------------------------------------------
(* A handler that goes on, with no other under way or with some.           *)

\* The lists of codes and what was spent are only touched by the steps named.
LEMMA AloneKept ==
  ASSUME IInv, NEW r \in Requests, NEW x \in Request, Steps(r, x), UNCHANGED overlapped,
         ~At(r, "idle"),
         ~overlapped => /\ \A c \in Codes : ListedCode(c)'
                        /\ Spends(x, account'.codes)
                        /\ faults' = 0 => (\A t \in Mails : Marked(t)') /\ Marks(x, mail', spent')
  PROVE  AloneInv'
<1> SUFFICES ASSUME ~overlapped
             PROVE  OneAtATime' /\ CodesInv' /\ (faults' = 0 => MailsInv')
  BY DEF AloneInv
<1>1. OneAtATime
  BY Facts DEF AloneInv
<1>2. /\ req'[r] = x
      /\ \A q \in Requests \ {r} : req'[q] = req[q] /\ req[q].at = "idle"
  BY <1>1, Facts DEF Steps, OneAtATime, At
<1>3. OneAtATime'
  BY <1>2 DEF OneAtATime, At
<1>4. \A q \in Requests : Spends(req'[q], account'.codes)
  BY <1>2 DEF Spends
<1>5. faults' = 0 => \A q \in Requests : Marks(req'[q], mail', spent')
  BY <1>2 DEF Marks
<1>6. CodesInv'
  BY <1>4 DEF CodesInv
<1>7. faults' = 0 => MailsInv'
  BY <1>5 DEF MailsInv
<1> QED
  BY <1>3, <1>6, <1>7

\* Codes may leave the list, or come in with a new set-up.
NewCodes == \A c \in Codes : c \in account'.codes => c \in account.codes \/ (last < c[1] /\ c[1] <= last')

LEMMA CodesKept ==
  ASSUME IInv, ~overlapped, UNCHANGED letIn, last' \in Serials, last <= last', NewCodes
  PROVE  \A c \in Codes : ListedCode(c)'
<1> SUFFICES ASSUME NEW c \in Codes
             PROVE  ListedCode(c)'
  OBVIOUS
<1>1. ListedCode(c) /\ letIn[c] \in Nat
  BY Facts DEF AloneInv, CodesInv, PastTyped
<1>2. last \in Nat /\ last' \in Nat /\ c[1] \in Nat
  BY Facts, BoundAssumption DEF RowsTyped, Serials, Codes
<1> QED
  BY <1>1, <1>2 DEF ListedCode, NewCodes

UsedStays == \A t \in Mails : mail[t].st = "used" => mail'[t].st = "used"

LEMMA MailsKept ==
  ASSUME IInv, NEW r \in Requests, ~overlapped, faults = 0,
         ~At(r, "idle"), ~At(r, "reset"), UNCHANGED spent, UsedStays
  PROVE  \A t \in Mails : Marked(t)'
<1> SUFFICES ASSUME NEW t \in Mails
             PROVE  Marked(t)'
  OBVIOUS
<1>1. Marked(t) /\ OneAtATime
  BY Facts DEF AloneInv, MailsInv
<1>2. ~\E q \in Requests : Marking(req[q], t)
  BY <1>1 DEF OneAtATime, At, Marking
<1> QED
  BY <1>1, <1>2 DEF Marked, UsedStays

\* What most steps have in common.
LEMMA GoOn ==
  ASSUME IInv, NEW r \in Requests, NEW x \in Request, Goto(r, x), Fits(x),
         x.at \notin {"reset", "mark", "factor"}, ~At(r, "idle"), ~At(r, "reset"),
         RowsTyped', UNCHANGED <<letIn, spent>>, PendingReal', NoLockout',
         last <= last', Newer, NewCodes, UsedStays
  PROVE  IInv'
<1>1. Steps(r, x) /\ UNCHANGED <<faults, overlapped>>
  BY GotoSteps
<1>2. PastTyped'
  BY Facts DEF PastTyped
<1>3. ShapeInv'
  BY <1>1, <1>2, ShapeKept
<1>4. ResetInv'
  BY <1>1, ResetKept
<1>5. ~overlapped => \A c \in Codes : ListedCode(c)'
  BY CodesKept DEF RowsTyped
<1>6. ~overlapped /\ faults' = 0 => \A t \in Mails : Marked(t)'
  BY <1>1, MailsKept
<1>7. Spends(x, account'.codes) /\ Marks(x, mail', spent')
  BY DEF Spends, Marks
<1>8. AloneInv'
  BY <1>1, <1>5, <1>6, <1>7, AloneKept
<1> QED
  BY <1>3, <1>4, <1>8 DEF IInv

\* Steps that only stop: the handler has nothing more to do.
LEMMA Stops ==
  ASSUME IInv, NEW r \in Requests, Done(r), ~At(r, "idle"), ~At(r, "reset"),
         RowsTyped', UNCHANGED <<letIn, spent>>, PendingReal', NoLockout',
         last <= last', Newer, NewCodes, UsedStays
  PROVE  IInv'
BY IdleType, GoOn DEF Done

-----------------------------------------------------------------------------
(* A call.                                                                 *)

\* A reset begins with everything to do, on a link that is open.
Fresh(x) == x.at = "reset" => /\ x.num = last /\ x.todo = {"password", "token", "sessions"}
                              /\ x.tok \in Open("RESET")

LEMMA CallKeeps ==
  ASSUME IInv, NEW r \in Requests, NEW e, NEW x \in Request, Begin(r, e, x), Fits(x),
         x.at # "mark", Spends(x, account.codes), Fresh(x),
         UNCHANGED <<account, orgActive, session, mail, pending, last>>, half' \in BOOLEAN
  PROVE  IInv'
<1>1. /\ req' = [req EXCEPT ![r] = x] /\ calls' \in 0 .. MaxCalls /\ UNCHANGED <<faults, letIn, spent>>
      /\ overlapped' = (overlapped \/ \E p \in Requests \ {r} : ~At(p, "idle"))
      /\ At(r, "idle")
  BY Facts, BoundAssumption DEF Begin, Counted
<1>2. Steps(r, x)
  <2>1. (overlapped \/ \E p \in Requests \ {r} : ~At(p, "idle")) \in BOOLEAN
    OBVIOUS
  <2>2. faults' \in 0 .. MaxFaults /\ faults <= faults'
    BY <1>1, Facts, BoundAssumption
  <2>3. overlapped' \in BOOLEAN /\ (overlapped => overlapped')
    BY <1>1, <2>1
  <2> QED
    BY <1>1, <2>2, <2>3 DEF Steps
<1>3. RowsTyped' /\ PastTyped' /\ PendingReal' /\ NoLockout' /\ last <= last'
  BY Facts, <1>1, Numbers DEF RowsTyped, PastTyped, PendingReal, NoLockout
<1>4. ShapeInv'
  BY <1>2, <1>3, ShapeKept
<1>5. ResetInv'
  <2>1. Newer
    BY SameSessions
  <2>2. x.at = "reset" => x.num <= last' /\ "sessions" \in x.todo
    BY Facts, Numbers DEF Fresh, RowsTyped
  <2> QED
    BY <1>2, <1>3, <2>1, <2>2, ResetKept
<1>6. AloneInv'
  <2> SUFFICES ASSUME ~overlapped'
               PROVE  OneAtATime' /\ CodesInv' /\ (faults' = 0 => MailsInv')
    BY DEF AloneInv
  <2>1. ~overlapped /\ \A p \in Requests : req[p].at = "idle"
    BY <1>1 DEF At
  <2>2. req'[r] = x /\ \A p \in Requests \ {r} : req'[p] = req[p] /\ req[p].at = "idle"
    BY <2>1, <1>1, Facts
  <2>3. OneAtATime'
    BY <2>2 DEF OneAtATime, At
  <2>4. CodesInv'
    <3>1. \A c \in Codes : ListedCode(c)'
      BY <2>1, <1>1, Facts DEF AloneInv, CodesInv, ListedCode
    <3>2. \A q \in Requests : Spends(req'[q], account'.codes)
      BY <2>2 DEF Spends
    <3> QED
      BY <3>1, <3>2 DEF CodesInv
  <2>5. ASSUME faults' = 0
        PROVE  MailsInv'
    <3>1. \A t \in Mails : spent[t] <= 1 /\ (spent[t] > 0 => mail[t].st = "used")
      BY <2>1, <1>1, <2>5, Facts DEF AloneInv, MailsInv, Marked, Marking
    <3>2. \A t \in Mails : Marked(t)'
      BY <3>1, <1>1 DEF Marked
    <3>3. Marks(x, mail', spent')
      <4>1. ASSUME x.at = "reset"
            PROVE  x.tok \in Mails /\ mail[x.tok].st = "open" /\ "token" \in x.todo
        BY <4>1 DEF Fresh, Open
      <4>2. \A t \in Mails : spent[t] \in Nat
        BY Facts DEF PastTyped
      <4> QED
        BY <4>1, <4>2, <3>1, <1>1 DEF Marks
    <3>4. \A q \in Requests : Marks(req'[q], mail', spent')
      BY <2>2, <3>3 DEF Marks
    <3> QED
      BY <3>2, <3>4 DEF MailsInv
  <2> QED
    BY <2>3, <2>4, <2>5
<1> QED
  BY <1>4, <1>5, <1>6 DEF IInv

\* Most calls go to a step that needs nothing.
LEMMA PlainCall ==
  ASSUME IInv, NEW r \in Requests, NEW e, NEW x \in Request, Begin(r, e, x), UNCHANGED rows,
         Fits(x), x.at \notin {"mark", "factor", "reset"}
  PROVE  IInv'
<1>1. half' \in BOOLEAN
  BY Facts DEF rows, RowsTyped
<1> QED
  BY <1>1, CallKeeps DEF rows, Spends, Fresh

LEMMA PlainStep ==
  ASSUME NEW step \in {"void", "setup", "disable", "dropcodes"}
  PROVE  /\ [Idle EXCEPT !.at = step] \in Request /\ Fits([Idle EXCEPT !.at = step])
         /\ [Idle EXCEPT !.at = step].at = step
<1>1. Idle \in Request
  BY IdleType
<1>2. step \in Step
  BY DEF Step
<1> QED
  BY <1>1, <1>2 DEF Request, Fits

LEMMA SignIn ==
  ASSUME NEW d \in Devices
  PROVE  /\ [Idle EXCEPT !.at = "find", !.dev = d] \in Request
         /\ Fits([Idle EXCEPT !.at = "find", !.dev = d])
         /\ [Idle EXCEPT !.at = "find", !.dev = d].at = "find"
<1>1. Idle \in Request /\ "find" \in Step
  BY IdleType DEF Step
<1> QED
  BY <1>1 DEF Request, Fits

LEMMA PlainCalls ==
  ASSUME IInv, NEW r \in Requests
  PROVE  /\ ForgotPassword(r) \/ RequestTwoFactorEmailCode(r) => IInv'
         /\ \A s \in Sessions : SetupTwoFactor(r, s) => IInv'
         /\ \A s \in Sessions : DisableTwoFactor(r, s) \/ SendTwoFactorEmailCode(r, s) => IInv'
<1>1. ASSUME NEW step \in {"void", "setup", "disable", "dropcodes"}, NEW e,
             Begin(r, e, [Idle EXCEPT !.at = step]), UNCHANGED rows
      PROVE  IInv'
  <2> DEFINE x == [Idle EXCEPT !.at = step]
  <2>1. x \in Request /\ Fits(x) /\ x.at = step /\ Begin(r, e, x)
    BY <1>1, PlainStep
  <2> HIDE DEF x
  <2> QED
    BY <1>1, <2>1, PlainCall
<1>2. ForgotPassword(r) \/ RequestTwoFactorEmailCode(r) => IInv'
  BY <1>1 DEF ForgotPassword, RequestTwoFactorEmailCode
<1>3. \A s \in Sessions : SetupTwoFactor(r, s) => IInv'
  BY <1>1 DEF SetupTwoFactor
<1>4. \A s \in Sessions : DisableTwoFactor(r, s) \/ SendTwoFactorEmailCode(r, s) => IInv'
  BY <1>1 DEF DisableTwoFactor, SendTwoFactorEmailCode
<1> QED
  BY <1>2, <1>3, <1>4

LEMMA SignInCalls ==
  ASSUME IInv, NEW r \in Requests, NEW d \in Devices
  PROVE  Login(r, d) \/ Impersonate(r, d) \/ StopImpersonation(r, d) => IInv'
<1> DEFINE x == [Idle EXCEPT !.at = "find", !.dev = d]
<1>1. x \in Request /\ Fits(x) /\ x.at = "find"
  BY SignIn
<1>2. Impersonate(r, d) => Begin(r, "impersonate", x) /\ UNCHANGED rows
  BY DEF Impersonate
<1>3. StopImpersonation(r, d) => Begin(r, "impersonate", x) /\ UNCHANGED rows
  BY DEF StopImpersonation
<1>4. Login(r, d) => /\ Begin(r, "login", IF account.tfa THEN Idle ELSE x)
                     /\ half' = (half \/ account.tfa)
                     /\ UNCHANGED <<account, orgActive, session, mail, pending, last>>
  BY DEF Login
<1> HIDE DEF x
<1>5. Impersonate(r, d) \/ StopImpersonation(r, d) => IInv'
  BY <1>1, <1>2, <1>3, PlainCall
<1>6. ASSUME Login(r, d)
      PROVE  IInv'
  <2> DEFINE y == IF account.tfa THEN Idle ELSE x
  <2>1. y \in Request /\ Fits(y) /\ y.at \in {"idle", "find"} /\ Begin(r, "login", y)
    BY <1>1, <1>4, <1>6, IdleType
  <2>2. half' \in BOOLEAN
    <3>1. half \in BOOLEAN /\ account.tfa \in BOOLEAN
      BY Facts DEF RowsTyped, Account
    <3> QED
      BY <1>4, <1>6, <3>1
  <2> HIDE DEF y
  <2>3. Spends(y, account.codes) /\ Fresh(y)
    BY <2>1 DEF Spends, Fresh
  <2> QED
    BY <1>4, <1>6, <2>1, <2>2, <2>3, CallKeeps
<1> QED
  BY <1>5, <1>6

\* The list that will be written is the one read, without the code used.
LEMMA SecondFactor ==
  ASSUME IInv, NEW d \in Devices, NEW c \in account.codes \union {App},
         NEW other \in {"find", "readcode"}, NEW x \in Request,
         x.at = (IF c = App THEN other ELSE "factor"), x.dev = d,
         x.codes = account.codes \ {c}, x.used = {c} \ {App},
         other = "readcode" => x.then = "find"
  PROVE  Fits(x) /\ Spends(x, account.codes) /\ Fresh(x) /\ x.at # "mark"
<1>1. x.at = "factor" => x.used \subseteq account.codes /\ x.codes = account.codes \ x.used
  OBVIOUS
<1> QED
  BY <1>1 DEF Fits, Spends, Fresh

LEMMA SecondFactorCalls ==
  ASSUME IInv, NEW r \in Requests, NEW d \in Devices, NEW c \in Codes \union {App}
  PROVE  LoginWithTwoFactor(r, d, c) \/ LoginWithEmailCode(r, d, c) => IInv'
<1> DEFINE x == [Idle EXCEPT !.at = IF c = App THEN "find" ELSE "factor", !.dev = d,
                   !.codes = account.codes \ {c}, !.used = {c} \ {App}]
           y == [Idle EXCEPT !.at = IF c = App THEN "readcode" ELSE "factor", !.dev = d,
                   !.codes = account.codes \ {c}, !.used = {c} \ {App}, !.then = "find"]
<1>1. Idle \in Request /\ {"find", "readcode", "factor"} \subseteq Step /\ account.codes \subseteq Codes
  BY IdleType, Facts DEF RowsTyped, Account, Step
<1>2. LoginWithTwoFactor(r, d, c) =>
        c \in account.codes \union {App} /\ Begin(r, "twoFactor", x) /\ UNCHANGED rows
  BY DEF LoginWithTwoFactor
<1>3. LoginWithEmailCode(r, d, c) =>
        c \in account.codes \union {App} /\ Begin(r, "emailCode", y) /\ UNCHANGED rows
  BY DEF LoginWithEmailCode
<1>4. /\ account.codes \ {c} \in SUBSET Codes
      /\ {c} \ {App} \in SUBSET Codes
  BY <1>1
<1>5. x \in Request /\ y \in Request
  BY <1>1, <1>4 DEF Request
<1>6. /\ x.at = (IF c = App THEN "find" ELSE "factor") /\ x.dev = d
      /\ x.codes = account.codes \ {c} /\ x.used = {c} \ {App}
  BY <1>1 DEF Request
<1>7. /\ y.at = (IF c = App THEN "readcode" ELSE "factor") /\ y.dev = d /\ y.then = "find"
      /\ y.codes = account.codes \ {c} /\ y.used = {c} \ {App}
  BY <1>1 DEF Request
<1>8. half' = half => half' \in BOOLEAN
  BY Facts DEF RowsTyped
<1> HIDE DEF x, y
<1>9. LoginWithTwoFactor(r, d, c) => IInv'
  <2> SUFFICES ASSUME LoginWithTwoFactor(r, d, c) PROVE IInv'
    OBVIOUS
  <2>1. Fits(x) /\ Spends(x, account.codes) /\ Fresh(x) /\ x.at # "mark"
    BY <1>2, <1>5, <1>6, SecondFactor
  <2> QED
    BY <1>2, <1>5, <1>8, <2>1, CallKeeps DEF rows
<1>10. LoginWithEmailCode(r, d, c) => IInv'
  <2> SUFFICES ASSUME LoginWithEmailCode(r, d, c) PROVE IInv'
    OBVIOUS
  <2>1. Fits(y) /\ Spends(y, account.codes) /\ Fresh(y) /\ y.at # "mark"
    BY <1>3, <1>5, <1>7, SecondFactor
  <2> QED
    BY <1>3, <1>5, <1>8, <2>1, CallKeeps DEF rows
<1> QED
  BY <1>9, <1>10

LEMMA ResetCall ==
  ASSUME IInv, NEW r \in Requests, NEW t \in Mails
  PROVE  ResetPassword(r, t) => IInv'
<1> DEFINE x == [Idle EXCEPT !.at = "reset", !.tok = t, !.num = last,
                   !.todo = {"password", "token", "sessions"}]
<1>1. Idle \in Request /\ "reset" \in Step /\ last \in Serials
  BY IdleType, Facts DEF Step, RowsTyped
<1>2. x \in Request
  BY <1>1 DEF Request
<1>3. /\ x.at = "reset" /\ x.tok = t /\ x.num = last
      /\ x.todo = {"password", "token", "sessions"}
  BY <1>1 DEF Request
<1>4. ResetPassword(r, t) => t \in Open("RESET") /\ Begin(r, "reset", x) /\ UNCHANGED rows
  BY DEF ResetPassword
<1>5. half' = half => half' \in BOOLEAN
  BY Facts DEF RowsTyped
<1> HIDE DEF x
<1>6. Fits(x) /\ Spends(x, account.codes)
  BY <1>3 DEF Fits, Spends
<1>7. t \in Open("RESET") => Fresh(x)
  BY <1>3 DEF Fresh
<1> QED
  BY <1>2, <1>3, <1>4, <1>5, <1>6, <1>7, CallKeeps DEF rows

LEMMA ToggleCall ==
  ASSUME IInv, NEW r \in Requests
  PROVE  ToggleStatus(r) => IInv'
<1> DEFINE to == ~account.active
           x == [Idle EXCEPT !.at = "toggle", !.to = to]
<1>1. Idle \in Request /\ "toggle" \in Step
  BY IdleType DEF Step
<1> HIDE DEF to
<1>2. x \in Request
  <2>1. to \in BOOLEAN
    BY DEF to
  <2> QED
    BY <1>1, <2>1 DEF Request
<1>3. x.at = "toggle"
  BY <1>1 DEF Request
<1>4. ToggleStatus(r) => Begin(r, "status", x) /\ UNCHANGED rows
  BY DEF ToggleStatus, to
<1> HIDE DEF x
<1>5. Fits(x)
  BY <1>3 DEF Fits
<1> QED
  BY <1>2, <1>3, <1>4, <1>5, PlainCall

LEMMA SessionCalls ==
  ASSUME IInv, NEW r \in Requests, NEW s \in Sessions
  PROVE  /\ Logout(r, s) \/ RevokeOtherSessions(r, s) \/ GetSessions(r, s) => IInv'
         /\ \A t \in Sessions : RevokeSession(r, s, t) => IInv'
<1>1. Idle \in Request /\ "revoke" \in Step /\ "others" \in Step
  BY IdleType DEF Step
<1>2. ASSUME NEW e, NEW x \in Request, x.at = "revoke", Begin(r, e, x), UNCHANGED rows
      PROVE  IInv'
  <2>1. Fits(x)
    BY <1>2 DEF Fits
  <2> QED
    BY <1>2, <2>1, PlainCall
<1>3. \A t \in Sessions : /\ [Idle EXCEPT !.at = "revoke", !.doomed = {t}] \in Request
                          /\ [Idle EXCEPT !.at = "revoke", !.doomed = {t}].at = "revoke"
  BY <1>1 DEF Request
<1>4. Logout(r, s) => IInv'
  BY <1>2, <1>3 DEF Logout
<1>5. \A t \in Sessions : RevokeSession(r, s, t) => IInv'
  BY <1>2, <1>3 DEF RevokeSession
<1>6. GetSessions(r, s) => IInv'
  <2> SUFFICES ASSUME NEW K, UNCHANGED rows,
                 Begin(r, "list", IF {x \in Sessions : Live(x)} \ K = {} THEN Idle
                    ELSE [Idle EXCEPT !.at = "revoke", !.ses = s,
                                      !.doomed = {x \in Sessions : Live(x)} \ K])
               PROVE  IInv'
    BY DEF GetSessions
  <2> DEFINE D == {x \in Sessions : Live(x)} \ K
  <2>1. D \in SUBSET Sessions
    OBVIOUS
  <2>2. CASE D = {}
    <3>1. Begin(r, "list", Idle)
      BY <2>2
    <3> QED
      BY <3>1, IdleType, PlainCall
  <2>3. CASE D # {}
    <3>1. Begin(r, "list", [Idle EXCEPT !.at = "revoke", !.ses = s, !.doomed = D])
      BY <2>3
    <3> HIDE DEF D
    <3> QED
      <4>1. /\ [Idle EXCEPT !.at = "revoke", !.ses = s, !.doomed = D] \in Request
            /\ [Idle EXCEPT !.at = "revoke", !.ses = s, !.doomed = D].at = "revoke"
        BY <1>1, <2>1 DEF Request
      <4> QED
        BY <1>2, <3>1, <4>1
  <2> QED
    BY <2>2, <2>3
<1>7. RevokeOtherSessions(r, s) => IInv'
  <2> DEFINE x == [Idle EXCEPT !.at = "others", !.ses = s]
  <2>1. x \in Request /\ x.at = "others"
    BY <1>1 DEF Request
  <2>2. RevokeOtherSessions(r, s) => Begin(r, "revoke", x) /\ UNCHANGED rows
    BY DEF RevokeOtherSessions
  <2> HIDE DEF x
  <2>3. Fits(x)
    BY <2>1 DEF Fits
  <2> QED
    BY <2>1, <2>2, <2>3, PlainCall
<1> QED
  BY <1>4, <1>5, <1>6, <1>7

LEMMA SetupCalls ==
  ASSUME IInv, NEW r \in Requests, NEW s \in Sessions
  PROVE  VerifyTwoFactorSetup(r, s) \/ VerifyTwoFactorEmailSetup(r, s) \/ DisableTwoFactorEmail(r, s)
           => IInv'
<1>1. /\ Idle \in Request /\ pending \in Pending /\ PendingReal
      /\ {"enable", "readcode", "enableEmail", "disableEmail"} \subseteq Step
  BY IdleType, Facts DEF Step, RowsTyped
<1>2. VerifyTwoFactorSetup(r, s) => IInv'
  <2> DEFINE x == [Idle EXCEPT !.at = "enable", !.num = pending.secret]
  <2>1. x \in Request
    BY <1>1 DEF Request, Pending
  <2>2. x.at = "enable" /\ x.num = pending.secret
    BY <1>1 DEF Request
  <2>3. VerifyTwoFactorSetup(r, s) => Begin(r, "setup", x) /\ UNCHANGED rows /\ pending.usable
    BY DEF VerifyTwoFactorSetup
  <2> HIDE DEF x
  <2>4. pending.usable => Fits(x)
    BY <1>1, <2>2 DEF Fits, PendingReal
  <2> QED
    BY <2>1, <2>2, <2>3, <2>4, PlainCall
<1>3. ASSUME NEW e, NEW step \in {"readcode", "disableEmail"}, UNCHANGED rows,
             NEW then \in {"enableEmail", "disableEmail"},
             Begin(r, e, [Idle EXCEPT !.at = step, !.then = then])
      PROVE  IInv'
  <2> DEFINE x == [Idle EXCEPT !.at = step, !.then = then]
  <2>1. x \in Request
    BY <1>1 DEF Request
  <2>2. x.at = step /\ x.then = then
    BY <1>1 DEF Request
  <2>3. Begin(r, e, x)
    BY <1>3
  <2> HIDE DEF x
  <2>4. Fits(x)
    BY <2>2 DEF Fits
  <2> QED
    BY <1>3, <2>1, <2>2, <2>3, <2>4, PlainCall
<1>4. VerifyTwoFactorEmailSetup(r, s) => IInv'
  BY <1>3 DEF VerifyTwoFactorEmailSetup
<1>5. DisableTwoFactorEmail(r, s) => IInv'
  BY <1>3 DEF DisableTwoFactorEmail
<1> QED
  BY <1>2, <1>4, <1>5

LEMMA CallInv ==
  ASSUME IInv, NEW r \in Requests, Call(r)
  PROVE  IInv'
BY PlainCalls, SignInCalls, SecondFactorCalls, ResetCall, ToggleCall, SessionCalls, SetupCalls DEF Call, SessionCall

-----------------------------------------------------------------------------
(* The steps of a handler.                                                 *)

\* The rows that a step leaves as they are, and what follows of them.
LEMMA SameAccount ==
  ASSUME IInv, UNCHANGED account
  PROVE  NoLockout' /\ NewCodes
BY Facts DEF NoLockout, NewCodes

LEMMA SameMail == ASSUME UNCHANGED mail PROVE UsedStays
BY DEF UsedStays

LEMMA SamePending == ASSUME IInv, UNCHANGED pending PROVE PendingReal'
BY Facts DEF PendingReal

LEMMA SessionGoes ==
  ASSUME IInv, NEW S \in SUBSET Sessions, session' = Revoked(S)
  PROVE  /\ session' \in [Sessions -> Session] /\ Newer
         /\ \A s \in S : ~Live(s)'
<1>1. \A s \in Sessions :
        session'[s] = IF s \in S /\ session[s].jti # 0 THEN [session[s] EXCEPT !.revoked = TRUE]
                      ELSE session[s]
  BY DEF Revoked
<1>2. \A s \in Sessions : session[s] \in Session
  BY Facts DEF RowsTyped
<1>3. \A s \in Sessions :
        /\ session'[s] \in Session /\ session'[s].jti = session[s].jti
        /\ session'[s].expired = session[s].expired
        /\ session'[s].revoked = (IF s \in S /\ session[s].jti # 0 THEN TRUE ELSE session[s].revoked)
  BY <1>1, <1>2 DEF Session
<1>4. session' \in [Sessions -> Session]
  BY <1>3 DEF Revoked
<1>5. Newer
  BY <1>3 DEF Newer, Live
<1>6. \A s \in S : ~Live(s)'
  BY <1>3 DEF Live
<1> QED
  BY <1>4, <1>5, <1>6

LEMMA RevokeSteps ==
  ASSUME IInv, NEW r \in Requests
  PROVE  Revoke(r) \/ RevokeOthers(r) => IInv'
<1>1. ASSUME NEW S \in SUBSET Sessions, session' = Revoked(S), Done(r), ~At(r, "idle"), ~At(r, "reset"),
             UNCHANGED <<account, orgActive, mail, pending, half, last, letIn, spent>>
      PROVE  IInv'
  <2>1. session' \in [Sessions -> Session] /\ Newer
    BY <1>1, SessionGoes
  <2>2. RowsTyped' /\ last <= last'
    BY <1>1, <2>1, Facts, Numbers DEF RowsTyped
  <2> QED
    BY <1>1, <2>1, <2>2, SameAccount, SameMail, SamePending, Stops
<1>2. req[r].doomed \in SUBSET Sessions
  BY Typed DEF Request
<1>3. Revoke(r) => IInv'
  BY <1>1, <1>2 DEF Revoke, At
<1>4. RevokeOthers(r) => IInv'
  BY <1>1 DEF RevokeOthers, At
<1> QED
  BY <1>3, <1>4

LEMMA FindSessionInv ==
  ASSUME IInv, NEW r \in Requests, FindSession(r)
  PROVE  IInv'
<1>1. PICK s \in Sessions \union {None} : Goto(r, [req[r] EXCEPT !.at = "open", !.ses = s])
  BY DEF FindSession, SameDevice
<1> DEFINE x == [req[r] EXCEPT !.at = "open", !.ses = s]
<1>2. req[r] \in Request /\ req[r].at = "find" /\ req[r].dev \in Devices /\ "open" \in Step
  BY Typed DEF FindSession, At, Fits, Step
<1>3. x \in Request /\ x.at = "open" /\ x.dev = req[r].dev
  BY <1>2 DEF Request
<1>4. Goto(r, x)
  BY <1>1
<1> HIDE DEF x
<1>5. Fits(x)
  BY <1>2, <1>3 DEF Fits
<1>6. UNCHANGED <<account, orgActive, session, mail, pending, half, last, letIn, spent>>
  BY DEF FindSession, rows
<1>7. RowsTyped' /\ last <= last'
  BY <1>6, Facts, Numbers DEF RowsTyped
<1>8. ~At(r, "idle") /\ ~At(r, "reset")
  BY <1>2 DEF At
<1> QED
  BY <1>3, <1>4, <1>5, <1>6, <1>7, <1>8, SameAccount, SameMail, SamePending, SameSessions, GoOn

LEMMA Taken ==
  ASSUME IInv, TakeSerial
  PROVE  /\ last' \in 1 .. MaxCalls + 1 /\ last' \in Serials /\ last < last' /\ last <= last'
         /\ last \in Nat
BY Facts, BoundAssumption DEF TakeSerial, RowsTyped, Serials

LEMMA OpenSessionInv ==
  ASSUME IInv, NEW r \in Requests, OpenSession(r)
  PROVE  IInv'
<1>1. PICK s \in Sessions : session' = [session EXCEPT ![s] = Renewed(r, last')]
  BY DEF OpenSession
<1>2. last' \in Serials /\ last < last' /\ last <= last' /\ last \in Nat
  BY Taken DEF OpenSession
<1>3. req[r].at = "open" /\ req[r].dev \in Devices
  BY Typed DEF OpenSession, At, Fits
<1>4. Renewed(r, last') \in Session /\ Renewed(r, last').jti = last'
  BY <1>2, <1>3 DEF Renewed, Session
<1>5. session \in [Sessions -> Session]
  BY Facts DEF RowsTyped
<1>6. /\ session' \in [Sessions -> Session] /\ session'[s].jti = last'
      /\ \A v \in Sessions \ {s} : session'[v] = session[v]
  BY <1>1, <1>4, <1>5
<1>7. Newer
  BY <1>2, <1>6 DEF Newer, Live
<1>8. UNCHANGED <<account, orgActive, mail, pending, half, letIn, spent>> /\ Done(r)
  BY DEF OpenSession
<1>9. RowsTyped'
  BY <1>2, <1>6, <1>8, Facts DEF RowsTyped
<1>10. ~At(r, "idle") /\ ~At(r, "reset")
  BY <1>3 DEF At
<1> QED
  BY <1>2, <1>7, <1>8, <1>9, <1>10, SameAccount, SameMail, SamePending, Stops

LEMMA UpsertPendingInv ==
  ASSUME IInv, NEW r \in Requests, UpsertPending(r)
  PROVE  IInv'
<1>1. last' \in Serials /\ last < last' /\ last <= last' /\ last \in Nat
  BY Taken DEF UpsertPending
<1>2. pending' = [secret |-> last', usable |-> TRUE]
  BY DEF UpsertPending
<1>3. pending' \in Pending /\ PendingReal'
  BY <1>1, <1>2 DEF Pending, PendingReal
<1>4. UNCHANGED <<account, orgActive, session, mail, half, letIn, spent>> /\ Done(r)
  BY DEF UpsertPending
<1>5. RowsTyped'
  BY <1>1, <1>3, <1>4, Facts DEF RowsTyped
<1>6. ~At(r, "idle") /\ ~At(r, "reset")
  BY DEF UpsertPending, At
<1> QED
  BY <1>1, <1>3, <1>4, <1>5, <1>6, SameAccount, SameMail, SameSessions, Stops

LEMMA Batches ==
  ASSUME IInv, NEW g \in 1 .. MaxCalls + 1
  PROVE  Batch(g) \in SUBSET Codes /\ \A c \in Batch(g) : c[1] = g
BY DEF Batch, Codes

\* Writing the user row: with codes of a new set-up, with none, or the same ones.
LEMMA AccountWritten ==
  ASSUME IInv, NEW r \in Requests, Done(r), ~At(r, "idle"), ~At(r, "reset"),
         account' \in Account, last' \in Serials, last <= last',
         \/ account'.codes \subseteq account.codes
         \/ last < last' /\ last' \in 1 .. MaxCalls + 1 /\ account'.codes = Batch(last'),
         pending' \in Pending, PendingReal', NoLockout',
         UNCHANGED <<orgActive, session, mail, half, letIn, spent>>
  PROVE  IInv'
<1>1. RowsTyped'
  BY Facts DEF RowsTyped
<1>2. NewCodes
  BY Batches DEF NewCodes
<1> QED
  BY <1>1, <1>2, SameMail, SameSessions, Stops

LEMMA FactorSteps ==
  ASSUME IInv, NEW r \in Requests
  PROVE  EnableTwoFactor(r) \/ EnableEmail(r) \/ WriteDisabled(r) \/ WriteEmailDisabled(r)
           \/ WriteStatus(r) => IInv'
<1>1. /\ account \in Account /\ pending \in Pending /\ PendingReal /\ NoLockout
      /\ last \in Serials /\ last <= last /\ 0 \in Serials
  BY Facts, Numbers, BoundAssumption DEF RowsTyped, Serials
<1>2. req[r] \in Request /\ Fits(req[r])
  BY Typed
<1>3. TakeSerial => /\ Batch(last') \in SUBSET Codes /\ last' \in Serials /\ last <= last'
                    /\ last < last' /\ last' \in 1 .. MaxCalls + 1
  BY Taken, Batches
<1>4. ASSUME EnableTwoFactor(r)
      PROVE  IInv'
  <2>1. /\ TakeSerial /\ Done(r) /\ req[r].at = "enable"
        /\ account' = [account EXCEPT !.tfa = TRUE, !.secret = req[r].num, !.codes = Batch(last')]
        /\ pending' = [pending EXCEPT !.usable = FALSE]
        /\ UNCHANGED <<orgActive, session, mail, half, letIn, spent>>
    BY <1>4 DEF EnableTwoFactor, At
  <2>2. req[r].num \in Serials /\ req[r].num # 0
    BY <1>2, <2>1 DEF Request, Fits
  <2>3. account' \in Account /\ account'.codes = Batch(last') /\ account'.secret # 0
    BY <1>1, <1>3, <2>1, <2>2 DEF Account
  <2>4. pending' \in Pending /\ PendingReal'
    BY <1>1, <2>1 DEF Pending, PendingReal
  <2>5. NoLockout' /\ ~At(r, "idle") /\ ~At(r, "reset")
    BY <2>1, <2>3 DEF NoLockout, At
  <2> QED
    BY <1>3, <2>1, <2>3, <2>4, <2>5, AccountWritten
<1>5. ASSUME EnableEmail(r)
      PROVE  IInv'
  <2>1. /\ TakeSerial /\ Done(r) /\ req[r].at = "enableEmail"
        /\ account' = [account EXCEPT !.tfa = TRUE, !.method = "EMAIL", !.secret = 0,
                                      !.codes = Batch(last')]
        /\ UNCHANGED <<orgActive, session, mail, pending, half, letIn, spent>>
    BY <1>5 DEF EnableEmail, At
  <2>2. account' \in Account /\ account'.codes = Batch(last') /\ account'.method = "EMAIL"
    BY <1>1, <1>3, <2>1 DEF Account
  <2>3. NoLockout' /\ ~At(r, "idle") /\ ~At(r, "reset")
    BY <2>1, <2>2 DEF NoLockout, At
  <2> QED
    BY <1>1, <1>3, <2>1, <2>2, <2>3, SamePending, AccountWritten
<1>6. ASSUME WriteDisabled(r)
      PROVE  IInv'
  <2>1. /\ Done(r) /\ req[r].at = "disable"
        /\ account' = [account EXCEPT !.tfa = FALSE, !.secret = 0, !.codes = {}]
        /\ UNCHANGED <<orgActive, session, mail, pending, half, last, letIn, spent>>
    BY <1>6 DEF WriteDisabled, At
  <2>2. account' \in Account /\ account'.codes = {} /\ account'.tfa = FALSE
    BY <1>1, <2>1 DEF Account
  <2>3. NoLockout' /\ ~At(r, "idle") /\ ~At(r, "reset")
    BY <2>1, <2>2 DEF NoLockout, At
  <2> QED
    BY <1>1, <2>1, <2>2, <2>3, SamePending, AccountWritten
<1>7. ASSUME WriteEmailDisabled(r)
      PROVE  IInv'
  <2>1. /\ Done(r) /\ req[r].at = "disableEmail"
        /\ account' = [account EXCEPT !.tfa = FALSE, !.method = "APP", !.secret = 0, !.codes = {}]
        /\ UNCHANGED <<orgActive, session, mail, pending, half, last, letIn, spent>>
    BY <1>7 DEF WriteEmailDisabled, At
  <2>2. account' \in Account /\ account'.codes = {} /\ account'.tfa = FALSE
    BY <1>1, <2>1 DEF Account
  <2>3. NoLockout' /\ ~At(r, "idle") /\ ~At(r, "reset")
    BY <2>1, <2>2 DEF NoLockout, At
  <2> QED
    BY <1>1, <2>1, <2>2, <2>3, SamePending, AccountWritten
<1>8. ASSUME WriteStatus(r)
      PROVE  IInv'
  <2>1. /\ Done(r) /\ req[r].at = "toggle"
        /\ account' = [account EXCEPT !.active = req[r].to]
        /\ UNCHANGED <<orgActive, session, mail, pending, half, last, letIn, spent>>
    BY <1>8 DEF WriteStatus, At
  <2>2. req[r].to \in BOOLEAN
    BY <1>2 DEF Request
  <2>3. /\ account' \in Account /\ account'.codes = account.codes /\ account'.tfa = account.tfa
        /\ account'.method = account.method /\ account'.secret = account.secret
    BY <1>1, <2>1, <2>2 DEF Account
  <2>4. NoLockout' /\ ~At(r, "idle") /\ ~At(r, "reset")
    BY <1>1, <2>1, <2>3 DEF NoLockout, At
  <2> QED
    BY <1>1, <2>1, <2>3, <2>4, SamePending, AccountWritten
<1> QED
  BY <1>4, <1>5, <1>6, <1>7, <1>8

\* A step that only writes mails, and none that was used.
LEMMA MailWritten ==
  ASSUME IInv, NEW r \in Requests, NEW x \in Request, Goto(r, x), Fits(x),
         x.at \notin {"reset", "mark", "factor"}, ~At(r, "idle"), ~At(r, "reset"),
         mail' \in [Mails -> Mail], UsedStays,
         UNCHANGED <<account, orgActive, session, pending, half, last, letIn, spent>>
  PROVE  IInv'
<1>1. RowsTyped' /\ last <= last'
  BY Facts, Numbers DEF RowsTyped
<1> QED
  BY <1>1, SameAccount, SamePending, SameSessions, GoOn

LEMMA MailSteps ==
  ASSUME IInv, NEW r \in Requests
  PROVE  VoidLinks(r) \/ DropCodes(r) \/ MailLink(r) \/ MailCode(r) => IInv'
<1>1. /\ mail \in [Mails -> Mail] /\ req[r] \in Request /\ {"link", "mailcode"} \subseteq Step
      /\ \A t \in Mails : mail[t] \in Mail
  BY Facts, Typed DEF RowsTyped, Step
<1>2. ASSUME NEW step \in {"link", "mailcode"}, Goto(r, [req[r] EXCEPT !.at = step]),
             ~At(r, "idle"), ~At(r, "reset"), mail' \in [Mails -> Mail], UsedStays,
             UNCHANGED <<account, orgActive, session, pending, half, last, letIn, spent>>
      PROVE  IInv'
  <2> DEFINE x == [req[r] EXCEPT !.at = step]
  <2>1. x \in Request /\ x.at = step /\ Goto(r, x)
    BY <1>1, <1>2 DEF Request
  <2> HIDE DEF x
  <2>2. Fits(x)
    BY <2>1 DEF Fits
  <2> QED
    BY <1>2, <2>1, <2>2, MailWritten
<1>3. ASSUME VoidLinks(r)
      PROVE  IInv'
  <2>1. mail' = [t \in Mails |->
                  IF mail[t].type = "RESET" /\ mail[t].st \in {"open", "expired"}
                  THEN [mail[t] EXCEPT !.st = "used"] ELSE mail[t]]
    BY <1>3 DEF VoidLinks
  <2>2. \A t \in Mails : [mail[t] EXCEPT !.st = "used"] \in Mail
    BY <1>1 DEF Mail
  <2>3. mail' \in [Mails -> Mail]
    BY <1>1, <2>1, <2>2
  <2>4. UsedStays
    BY <2>1 DEF UsedStays
  <2> QED
    BY <1>2, <1>3, <2>3, <2>4 DEF VoidLinks, At
<1>4. ASSUME DropCodes(r)
      PROVE  IInv'
  <2>1. mail' = [t \in Mails |->
                  IF mail[t].type = "CODE" /\ mail[t].st \in {"open", "expired"}
                  THEN [mail[t] EXCEPT !.st = "deleted"] ELSE mail[t]]
    BY <1>4 DEF DropCodes
  <2>2. \A t \in Mails : [mail[t] EXCEPT !.st = "deleted"] \in Mail
    BY <1>1 DEF Mail
  <2>3. mail' \in [Mails -> Mail]
    BY <1>1, <2>1, <2>2
  <2>4. UsedStays
    BY <2>1 DEF UsedStays
  <2> QED
    BY <1>2, <1>4, <2>3, <2>4 DEF DropCodes, At
<1>5. ASSUME NEW type \in {"RESET", "CODE"}, NEW t \in Mails, NextMail(t),
             mail' = [mail EXCEPT ![t] = [type |-> type, st |-> "open"]],
             Done(r), ~At(r, "idle"), ~At(r, "reset"),
             UNCHANGED <<account, orgActive, session, pending, half, last, letIn, spent>>
      PROVE  IInv'
  <2>1. mail' \in [Mails -> Mail]
    BY <1>1, <1>5 DEF Mail
  <2>2. UsedStays
    BY <1>1, <1>5 DEF UsedStays, NextMail
  <2> QED
    BY <1>5, <2>1, <2>2, IdleType, MailWritten DEF Done
<1>6. MailLink(r) => IInv'
  BY <1>5 DEF MailLink, At
<1>7. MailCode(r) => IInv'
  BY <1>5 DEF MailCode, At
<1> QED
  BY <1>3, <1>4, <1>6, <1>7

\* The code read is open, so it was not used.
LEMMA ReadEmailCodeInv ==
  ASSUME IInv, NEW r \in Requests, ReadEmailCode(r)
  PROVE  IInv'
<1>1. /\ UNCHANGED <<account, orgActive, session, mail, pending, half, last, letIn, spent>>
      /\ req[r].at = "readcode" /\ req[r] \in Request /\ Fits(req[r])
  BY Typed DEF ReadEmailCode, rows, At
<1>2. RowsTyped' /\ PastTyped' /\ last <= last' /\ ~At(r, "idle") /\ ~At(r, "reset")
  BY <1>1, Facts, Numbers DEF RowsTyped, PastTyped, At
<1>3. NoLockout' /\ NewCodes /\ UsedStays /\ PendingReal' /\ Newer
  BY <1>1, SameAccount, SameMail, SamePending, SameSessions
<1>4. CASE Done(r)
  BY <1>1, <1>2, <1>3, <1>4, Stops
<1>5. CASE \E t \in Mails : /\ Latest(t, Open("CODE"))
                            /\ Goto(r, [req[r] EXCEPT !.at = "mark", !.tok = t])
  <2>1. PICK t \in Mails : /\ mail[t].st = "open"
                           /\ Goto(r, [req[r] EXCEPT !.at = "mark", !.tok = t])
    BY <1>5 DEF Latest, Open
  <2> DEFINE x == [req[r] EXCEPT !.at = "mark", !.tok = t]
  <2>2. x \in Request
    BY <1>1 DEF Request, Step
  <2>3. x.at = "mark" /\ x.tok = t /\ x.then = req[r].then /\ x.dev = req[r].dev
    BY <1>1 DEF Request
  <2>4. Goto(r, x)
    BY <2>1
  <2> HIDE DEF x
  <2>5. Fits(x)
    BY <1>1, <2>3 DEF Fits
  <2>6. Steps(r, x) /\ UNCHANGED <<faults, overlapped>>
    BY <2>2, <2>4, GotoSteps
  <2>7. ShapeInv'
    BY <1>2, <1>3, <2>2, <2>5, <2>6, ShapeKept
  <2>8. ResetInv'
    BY <1>2, <1>3, <2>2, <2>3, <2>6, ResetKept
  <2>9. Spends(x, account'.codes) /\ Marks(x, mail', spent')
    BY <1>1, <2>1, <2>3 DEF Spends, Marks
  <2>10. ~overlapped => \A c \in Codes : ListedCode(c)'
    BY <1>1, <1>2, <1>3, CodesKept DEF RowsTyped
  <2>11. ~overlapped /\ faults' = 0 => \A m \in Mails : Marked(m)'
    BY <1>1, <1>2, <1>3, <2>6, MailsKept
  <2>12. AloneInv'
    BY <1>2, <2>2, <2>6, <2>9, <2>10, <2>11, AloneKept
  <2> QED
    BY <2>7, <2>8, <2>12 DEF IInv
<1> QED
  BY <1>4, <1>5 DEF ReadEmailCode

\* Nobody else is under way, so the code that is marked was not spent before.
LEMMA MarkCodeUsedInv ==
  ASSUME IInv, NEW r \in Requests, MarkCodeUsed(r)
  PROVE  IInv'
<1>1. /\ UNCHANGED <<account, orgActive, session, pending, half, last, letIn>>
      /\ req[r].at = "mark" /\ req[r] \in Request /\ Fits(req[r]) /\ req[r].tok \in Mails
      /\ mail \in [Mails -> Mail] /\ spent \in [Mails -> Nat] /\ letIn \in [Codes -> Nat]
  BY Typed, Facts DEF MarkCodeUsed, At, Fits, RowsTyped, PastTyped
<1>2. last <= last' /\ ~At(r, "idle") /\ ~At(r, "reset")
  BY <1>1, Facts, Numbers DEF RowsTyped, At
<1>3. NoLockout' /\ NewCodes /\ PendingReal' /\ Newer
  BY <1>1, SameAccount, SamePending, SameSessions
<1>4. CASE Done(r) /\ UNCHANGED <<mail, spent>>
  <2>1. RowsTyped'
    BY <1>1, <1>4, Facts DEF RowsTyped
  <2> QED
    BY <1>1, <1>2, <1>3, <1>4, <2>1, SameMail, Stops
<1>5. CASE /\ mail' = [mail EXCEPT ![req[r].tok].st = "used"]
           /\ spent' = [spent EXCEPT ![req[r].tok] = @ + 1]
           /\ Goto(r, [req[r] EXCEPT !.at = req[r].then, !.tok = 0, !.then = "idle"])
  <2> DEFINE x == [req[r] EXCEPT !.at = req[r].then, !.tok = 0, !.then = "idle"]
             t == req[r].tok
  <2>1. /\ t \in Mails /\ mail' = [mail EXCEPT ![t].st = "used"]
        /\ spent' = [spent EXCEPT ![t] = @ + 1]
    BY <1>1, <1>5
  <2>2. req[r].then \in {"find", "enableEmail", "disableEmail"}
    BY <1>1 DEF Fits
  <2>3. x \in Request
    BY <1>1, <2>2 DEF Request, Step
  <2>4. x.at = req[r].then /\ x.dev = req[r].dev
    BY <1>1 DEF Request
  <2>5. Goto(r, x)
    BY <1>5
  <2> HIDE DEF x
  <2>6. Fits(x)
    BY <1>1, <2>2, <2>4 DEF Fits
  <2>7. Steps(r, x) /\ UNCHANGED <<faults, overlapped>>
    BY <2>3, <2>5, GotoSteps
  <2>8. mail' \in [Mails -> Mail] /\ mail'[t].st = "used" /\ \A m \in Mails \ {t} : mail'[m] = mail[m]
    BY <1>1, <2>1 DEF Mail
  <2>9. /\ spent' \in [Mails -> Nat] /\ spent'[t] = spent[t] + 1
        /\ \A m \in Mails \ {t} : spent'[m] = spent[m]
    BY <1>1, <2>1
  <2>10. RowsTyped' /\ PastTyped'
    BY <1>1, <2>8, <2>9, Facts DEF RowsTyped, PastTyped
  <2>11. ShapeInv'
    BY <1>3, <2>3, <2>6, <2>7, <2>10, ShapeKept
  <2>12. ResetInv'
    BY <1>2, <1>3, <2>2, <2>3, <2>4, <2>7, <2>10, ResetKept
  <2>13. Spends(x, account'.codes) /\ Marks(x, mail', spent')
    BY <2>2, <2>4 DEF Spends, Marks
  <2>14. ~overlapped => \A c \in Codes : ListedCode(c)'
    BY <1>1, <1>2, <1>3, <2>10, CodesKept DEF RowsTyped
  <2>15. ASSUME ~overlapped, faults' = 0, NEW m \in Mails
         PROVE  Marked(m)'
    <3>1. /\ \A n \in Mails : Marked(n)
          /\ mail[t].st # "used" /\ OneAtATime
      BY <1>1, <2>7, <2>15, Facts DEF AloneInv, MailsInv, Marks
    <3>2. \A n \in Mails : ~\E q \in Requests : Marking(req[q], n)
      BY <1>1, <3>1 DEF OneAtATime, Marking, At
    <3>3. \A n \in Mails : spent[n] \in Nat /\ spent[n] <= 1 /\ (spent[n] > 0 => mail[n].st = "used")
      BY <1>1, <3>1, <3>2 DEF Marked
    <3>4. spent[t] = 0
      BY <2>1, <3>1, <3>3
    <3>5. CASE m = t
      BY <2>8, <2>9, <3>4, <3>5 DEF Marked
    <3>6. CASE m # t
      BY <2>8, <2>9, <3>3, <3>6 DEF Marked
    <3> QED
      BY <3>5, <3>6
  <2>16. AloneInv'
    BY <1>2, <2>3, <2>7, <2>13, <2>14, <2>15, AloneKept
  <2> QED
    BY <2>11, <2>12, <2>16 DEF IInv
<1> QED
  BY <1>4, <1>5 DEF MarkCodeUsed

\* Nobody else is under way, so the code that lets in was in the list until now.
LEMMA SpendBackupCodeInv ==
  ASSUME IInv, NEW r \in Requests, SpendBackupCode(r)
  PROVE  IInv'
<1> DEFINE x == [req[r] EXCEPT !.at = "find", !.codes = {}, !.used = {}]
<1>1. /\ UNCHANGED <<orgActive, session, mail, pending, half, last, spent>>
      /\ req[r].at = "factor" /\ req[r] \in Request /\ Fits(req[r])
      /\ account' = [account EXCEPT !.codes = req[r].codes] /\ account \in Account
      /\ letIn' = [c \in Codes |-> IF c \in req[r].used THEN letIn[c] + 1 ELSE letIn[c]]
      /\ letIn \in [Codes -> Nat] /\ Goto(r, x)
  BY Typed, Facts DEF SpendBackupCode, At, RowsTyped, PastTyped
<1>2. x \in Request
  BY <1>1 DEF Request, Step
<1>3. x.at = "find" /\ x.dev = req[r].dev
  BY <1>1 DEF Request
<1> HIDE DEF x
<1>4. Fits(x)
  BY <1>1, <1>3 DEF Fits
<1>5. Steps(r, x) /\ UNCHANGED <<faults, overlapped>>
  BY <1>1, <1>2, GotoSteps
<1>6. req[r].codes \in SUBSET Codes
  BY <1>1 DEF Request
<1>7. /\ account' \in Account /\ account'.codes = req[r].codes /\ account'.tfa = account.tfa
      /\ account'.method = account.method /\ account'.secret = account.secret
  BY <1>1, <1>6 DEF Account
<1>8. /\ letIn' \in [Codes -> Nat]
      /\ \A c \in Codes : letIn'[c] = IF c \in req[r].used THEN letIn[c] + 1 ELSE letIn[c]
  BY <1>1
<1>9. RowsTyped' /\ PastTyped' /\ last <= last' /\ ~At(r, "idle") /\ ~At(r, "reset")
  BY <1>1, <1>7, <1>8, Facts, Numbers DEF RowsTyped, PastTyped, At
<1>10. NoLockout' /\ PendingReal' /\ Newer /\ UsedStays
  BY <1>1, <1>7, Facts, SamePending, SameSessions, SameMail DEF NoLockout
<1>11. ShapeInv'
  BY <1>2, <1>4, <1>5, <1>9, <1>10, ShapeKept
<1>12. ResetInv'
  BY <1>2, <1>3, <1>5, <1>9, <1>10, ResetKept
<1>13. Spends(x, account'.codes) /\ Marks(x, mail', spent')
  BY <1>3 DEF Spends, Marks
<1>14. ASSUME ~overlapped, NEW c \in Codes
       PROVE  ListedCode(c)'
  <2>1. ListedCode(c) /\ req[r].used \subseteq account.codes /\ req[r].codes = account.codes \ req[r].used
    BY <1>1, <1>14, Facts DEF AloneInv, CodesInv, Spends
  <2>2. letIn[c] \in Nat
    BY <1>1
  <2>3. CASE c \in req[r].used
    <3>1. letIn[c] = 0 /\ c[1] <= last /\ letIn'[c] = 1 /\ c \notin account'.codes
      BY <1>7, <1>8, <2>1, <2>3 DEF ListedCode
    <3> QED
      BY <1>1, <3>1 DEF ListedCode
  <2>4. CASE c \notin req[r].used
    BY <1>1, <1>7, <1>8, <2>1, <2>4 DEF ListedCode
  <2> QED
    BY <2>3, <2>4
<1>15. ~overlapped /\ faults' = 0 => \A t \in Mails : Marked(t)'
  BY <1>1, <1>5, <1>9, <1>10, MailsKept
<1>16. AloneInv'
  BY <1>2, <1>5, <1>9, <1>13, <1>14, <1>15, AloneKept
<1> QED
  BY <1>11, <1>12, <1>16 DEF IInv

\* The three statements of a reset, in any order.
LEMMA ResetStepInv ==
  ASSUME IInv, NEW r \in Requests, NEW w \in {"password", "token", "sessions"}, ResetStep(r, w)
  PROVE  IInv'
<1>0. PICK t \in Mails : t = req[r].tok
  BY Typed DEF ResetStep, At, Fits
<1> DEFINE left == req[r].todo \ {w}
           x == IF left = {} THEN Idle ELSE [req[r] EXCEPT !.todo = left]
<1>1. /\ UNCHANGED <<account, orgActive, pending, half, last, letIn>>
      /\ req[r].at = "reset" /\ req[r] \in Request /\ Fits(req[r]) /\ Resets(req[r])
      /\ mail \in [Mails -> Mail] /\ spent \in [Mails -> Nat] /\ letIn \in [Codes -> Nat]
      /\ session \in [Sessions -> Session] /\ w \in req[r].todo
  BY Typed, Facts DEF ResetStep, At, RowsTyped, PastTyped
<1>2. /\ w = "password" => spent' = [spent EXCEPT ![t] = @ + 1] /\ UNCHANGED <<mail, session>>
      /\ w = "token" => mail' = [mail EXCEPT ![t].st = "used"] /\ UNCHANGED <<spent, session>>
      /\ w = "sessions" => session' = Revoked(Sessions) /\ UNCHANGED <<spent, mail>>
  BY <1>0 DEF ResetStep
<1>3. Goto(r, x)
  BY DEF ResetStep, Done
<1>4. t \in Mails /\ left \subseteq {"password", "token", "sessions"}
  BY <1>1 DEF Request
<1>5. x \in Request
  BY <1>1, <1>4, IdleType DEF Request
<1>6. /\ left = {} => x.at = "idle"
      /\ left # {} => x.at = "reset" /\ x.tok = t /\ x.num = req[r].num /\ x.todo = left
  BY <1>0, <1>1, IdleType DEF Request
<1> HIDE DEF x
<1>7. Fits(x)
  BY <1>4, <1>6 DEF Fits
<1>8. Steps(r, x) /\ UNCHANGED <<faults, overlapped>>
  BY <1>3, <1>5, GotoSteps
<1>9. /\ mail' \in [Mails -> Mail] /\ UsedStays
      /\ \A m \in Mails \ {t} : mail'[m] = mail[m]
      /\ mail'[t].st = IF w = "token" THEN "used" ELSE mail[t].st
  BY <1>1, <1>2, <1>4 DEF Mail, UsedStays
<1>10. /\ spent' \in [Mails -> Nat] /\ \A m \in Mails \ {t} : spent'[m] = spent[m]
       /\ spent'[t] = IF w = "password" THEN spent[t] + 1 ELSE spent[t]
  BY <1>1, <1>2, <1>4
<1>11. /\ session' \in [Sessions -> Session] /\ Newer
       /\ w = "sessions" => \A s \in Sessions : ~Live(s)'
  <2>1. CASE w = "sessions"
    <3>1. Sessions \in SUBSET Sessions
      OBVIOUS
    <3> QED
      BY <1>2, <2>1, <3>1, SessionGoes
  <2>2. CASE w # "sessions"
    <3>1. UNCHANGED session
      BY <1>2, <2>2
    <3> QED
      BY <1>1, <2>2, <3>1, SameSessions
  <2> QED
    BY <2>1, <2>2
<1>12. RowsTyped' /\ PastTyped' /\ last <= last' /\ ~At(r, "idle")
  BY <1>1, <1>9, <1>10, <1>11, Facts, Numbers DEF RowsTyped, PastTyped, At
<1>13. NoLockout' /\ NewCodes /\ PendingReal'
  BY <1>1, SameAccount, SamePending
<1>14. ShapeInv'
  BY <1>5, <1>7, <1>8, <1>12, <1>13, ShapeKept
<1>15. ResetInv'
  <2> SUFFICES ASSUME x.at = "reset"
               PROVE  /\ x.num <= last'
                      /\ "sessions" \notin x.todo =>
                           \A s \in Sessions : Live(s)' => session'[s].jti > x.num
    BY <1>5, <1>8, <1>11, <1>12, ResetKept
  <2>1. x.num = req[r].num /\ x.todo = left
    BY <1>6
  <2>2. req[r].num <= last'
    BY <1>1 DEF Resets
  <2>3. ASSUME "sessions" \notin left, w # "sessions", NEW s \in Sessions, Live(s)'
        PROVE  session'[s].jti > req[r].num
    <3>1. "sessions" \notin req[r].todo /\ UNCHANGED session
      BY <1>2, <2>3
    <3> QED
      BY <1>1, <2>3, <3>1 DEF Resets, Live
  <2> QED
    BY <1>11, <2>1, <2>2, <2>3
<1>16. Spends(x, account'.codes)
  BY <1>6 DEF Spends
<1>17. ~overlapped => \A c \in Codes : ListedCode(c)'
  BY <1>1, <1>12, <1>13, CodesKept DEF RowsTyped
<1>18. ASSUME ~overlapped, faults' = 0
       PROVE  (\A m \in Mails : Marked(m)') /\ Marks(x, mail', spent')
  <2>1. OneAtATime /\ (\A m \in Mails : Marked(m)) /\ Marks(req[r], mail, spent)
    BY <1>8, <1>18, Facts DEF AloneInv, MailsInv
  <2>2. \A m \in Mails, q \in Requests : Marking(req[q], m) =>
          m = t /\ "password" \notin req[r].todo /\ "token" \in req[r].todo
    BY <1>0, <1>1, <2>1 DEF OneAtATime, Marking, At
  <2>3. /\ "password" \in req[r].todo => spent[t] = 0
        /\ "token" \notin req[r].todo => mail[t].st = "used"
    BY <1>0, <1>1, <2>1 DEF Marks
  <2>4. Marks(x, mail', spent')
    <3>1. x.at = "reset" /\ "password" \in x.todo => spent'[x.tok] = 0
      BY <1>6, <1>10, <2>3
    <3>2. x.at = "reset" /\ "token" \notin x.todo => mail'[x.tok].st = "used"
      BY <1>6, <1>9, <2>3
    <3> QED
      BY <1>6, <3>1, <3>2 DEF Marks
  <2>5. \A m \in Mails : spent[m] \in Nat /\ spent[m] <= 1
    BY <1>1, <2>1 DEF Marked
  <2>6. \A m \in Mails \ {t} : Marked(m)'
    <3>1. \A m \in Mails \ {t} : spent[m] > 0 => mail[m].st = "used"
      BY <2>1, <2>2 DEF Marked
    <3> QED
      BY <1>9, <1>10, <2>5, <3>1 DEF Marked
  <2>7. Marked(t)'
    <3>1. spent'[t] <= 1
      BY <1>1, <1>10, <2>3, <2>5
    <3>2. mail[t].st = "used" => Marked(t)'
      BY <1>4, <1>9, <3>1 DEF Marked, UsedStays
    <3>3. CASE w = "token"
      BY <1>9, <3>1, <3>3 DEF Marked
    <3>4. CASE w # "token" /\ mail[t].st # "used"
      <4>1. "token" \in left
        BY <2>3, <3>4
      <4>2. x.at = "reset" /\ x.tok = t /\ "token" \in x.todo /\ req'[r] = x
        BY <1>6, <1>8, <4>1, Facts DEF Steps
      <4>3. CASE "password" \in left
        <5>1. spent'[t] = 0
          BY <1>10, <2>3, <4>3
        <5> QED
          BY <5>1 DEF Marked
      <4>4. CASE "password" \notin left
        <5>1. Marking(req'[r], t)
          BY <1>6, <4>1, <4>2, <4>4 DEF Marking
        <5> QED
          BY <3>1, <5>1 DEF Marked, Marking
      <4> QED
        BY <4>3, <4>4
    <3> QED
      BY <3>2, <3>3, <3>4
  <2> QED
    BY <2>4, <2>6, <2>7
<1>19. AloneInv'
  BY <1>5, <1>8, <1>12, <1>16, <1>17, <1>18, AloneKept
<1> QED
  BY <1>14, <1>15, <1>19 DEF IInv

LEMMA AbandonInv ==
  ASSUME IInv, NEW r \in Requests, Abandon(r)
  PROVE  IInv'
<1>1. /\ UNCHANGED <<account, orgActive, session, mail, pending, half, last, letIn, spent>>
      /\ UNCHANGED overlapped /\ ~At(r, "idle")
  BY DEF Abandon, rows
<1>2. Steps(r, Idle) /\ faults' # 0
  BY Facts, BoundAssumption DEF Abandon, Steps
<1>3. Idle \in Request /\ Fits(Idle) /\ Idle.at = "idle"
  BY IdleType
<1>4. RowsTyped' /\ PastTyped' /\ last <= last'
  BY <1>1, Facts, Numbers DEF RowsTyped, PastTyped
<1>5. NoLockout' /\ PendingReal' /\ Newer /\ NewCodes
  BY <1>1, SameAccount, SamePending, SameSessions
<1>6. ShapeInv'
  BY <1>2, <1>3, <1>4, <1>5, ShapeKept
<1>7. ResetInv'
  BY <1>2, <1>3, <1>4, <1>5, ResetKept
<1>8. Spends(Idle, account'.codes)
  BY <1>3 DEF Spends
<1>9. ~overlapped => \A c \in Codes : ListedCode(c)'
  BY <1>1, <1>4, <1>5, CodesKept DEF RowsTyped
<1>10. AloneInv'
  BY <1>1, <1>2, <1>3, <1>8, <1>9, AloneKept
<1> QED
  BY <1>6, <1>7, <1>10 DEF IInv

\* A step that no handler takes.
LEMMA Outside ==
  ASSUME IInv, UNCHANGED <<account, last, req, faults, letIn, spent, overlapped>>,
         RowsTyped', calls' \in 0 .. MaxCalls, PendingReal', Newer,
         \A t \in Mails : mail'[t].st = "used" <=> mail[t].st = "used"
  PROVE  IInv'
<1>1. PastTyped' /\ NoLockout'
  BY Facts DEF PastTyped, NoLockout
<1>2. ShapeInv'
  <2>1. TypeOK'
    BY <1>1, Facts DEF TypeOK, RowsTyped, PastTyped
  <2>2. RequestsFit'
    BY Typed DEF RequestsFit
  <2> QED
    BY <1>1, <2>1, <2>2 DEF ShapeInv
<1>3. ResetInv'
  <2> SUFFICES ASSUME NEW q \in Requests, req[q].at = "reset", "sessions" \notin req[q].todo,
                      NEW s \in Sessions, Live(s)'
               PROVE  session'[s].jti > req[q].num
    BY Facts DEF ResetInv, Resets
  <2>1. Resets(req[q]) /\ req[q] \in Request
    BY Typed
  <2>2. req[q].num \in Nat /\ last \in Nat /\ session'[s].jti \in Nat
    BY <2>1, Facts, BoundAssumption DEF Request, RowsTyped, Serials, Session
  <2> QED
    BY <2>1, <2>2 DEF Resets, Newer
<1>4. AloneInv'
  <2> SUFFICES ASSUME ~overlapped
               PROVE  OneAtATime' /\ CodesInv' /\ (faults' = 0 => MailsInv')
    BY DEF AloneInv
  <2>1. OneAtATime /\ CodesInv /\ (faults = 0 => MailsInv)
    BY Facts DEF AloneInv
  <2>2. OneAtATime' /\ CodesInv'
    BY <2>1 DEF OneAtATime, At, CodesInv, ListedCode
  <2>3. ASSUME faults' = 0
        PROVE  MailsInv'
    <3>1. \A t \in Mails : Marked(t)'
      BY <2>1, <2>3 DEF MailsInv, Marked
    <3>2. \A q \in Requests : req[q].at \in {"mark", "reset"} => req[q].tok \in Mails
      BY Typed DEF Fits
    <3>3. \A q \in Requests : Marks(req'[q], mail', spent')
      BY <2>1, <2>3, <3>2 DEF MailsInv, Marks
    <3> QED
      BY <3>1, <3>3 DEF MailsInv
  <2> QED
    BY <2>2, <2>3
<1> QED
  BY <1>2, <1>3, <1>4 DEF IInv

LEMMA OutsideSteps ==
  ASSUME IInv
  PROVE  OrganizationToggled \/ TimePasses \/ UNCHANGED vars => IInv'
<1>1. /\ orgActive \in BOOLEAN /\ session \in [Sessions -> Session] /\ mail \in [Mails -> Mail]
      /\ pending \in Pending /\ half \in BOOLEAN /\ account \in Account /\ last \in Serials
      /\ calls \in 0 .. MaxCalls /\ PendingReal
  BY Facts DEF RowsTyped
<1>2. \A name : Counted(name) => calls' \in 0 .. MaxCalls
  BY <1>1, BoundAssumption DEF Counted
<1>3. ASSUME OrganizationToggled
      PROVE  IInv'
  <2>1. /\ calls' \in 0 .. MaxCalls /\ orgActive' = ~orgActive
        /\ UNCHANGED <<account, session, mail, pending, half, last, req, faults, letIn, spent, overlapped>>
    BY <1>2, <1>3 DEF OrganizationToggled
  <2>2. orgActive' \in BOOLEAN
    BY <2>1
  <2>3. RowsTyped'
    BY <1>1, <2>1, <2>2 DEF RowsTyped
  <2> QED
    BY <2>1, <2>3, SamePending, SameSessions, Outside
<1>4. ASSUME UNCHANGED vars
      PROVE  IInv'
  <2>1. /\ UNCHANGED <<account, orgActive, session, mail, pending, half, last>>
        /\ UNCHANGED <<req, calls, faults, letIn, spent, overlapped>>
    BY <1>4 DEF vars, rows
  <2>2. RowsTyped'
    BY <1>1, <2>1 DEF RowsTyped
  <2> QED
    BY <1>1, <2>1, <2>2, SamePending, SameSessions, Outside
<1>5. ASSUME TimePasses
      PROVE  IInv'
  <2>1. /\ calls' \in 0 .. MaxCalls
        /\ UNCHANGED <<account, orgActive, last, req, faults, letIn, spent, overlapped>>
    BY <1>2, <1>5 DEF TimePasses
  <2>2. ASSUME NEW s \in Sessions, session' = [session EXCEPT ![s].expired = TRUE],
               UNCHANGED <<mail, pending, half>>
        PROVE  IInv'
    <3>1. session' \in [Sessions -> Session] /\ Newer
      BY <1>1, <2>2 DEF Session, Newer, Live
    <3>2. RowsTyped'
      BY <1>1, <2>1, <2>2, <3>1 DEF RowsTyped
    <3> QED
      BY <2>1, <2>2, <3>1, <3>2, SamePending, Outside
  <2>3. ASSUME NEW t \in Mails, mail[t].st = "open", mail' = [mail EXCEPT ![t].st = "expired"],
               UNCHANGED <<session, pending, half>>
        PROVE  IInv'
    <3>1. /\ mail' \in [Mails -> Mail]
          /\ \A m \in Mails : mail'[m].st = "used" <=> mail[m].st = "used"
      BY <1>1, <2>3 DEF Mail
    <3>2. RowsTyped'
      BY <1>1, <2>1, <2>3, <3>1 DEF RowsTyped
    <3> QED
      BY <2>1, <2>3, <3>1, <3>2, SamePending, SameSessions, Outside
  <2>4. ASSUME pending' = [pending EXCEPT !.usable = FALSE], UNCHANGED <<session, mail, half>>
        PROVE  IInv'
    <3>1. pending' \in Pending /\ PendingReal'
      BY <1>1, <2>4 DEF Pending, PendingReal
    <3>2. RowsTyped'
      BY <1>1, <2>1, <2>4, <3>1 DEF RowsTyped
    <3> QED
      BY <2>1, <2>4, <3>1, <3>2, SameSessions, Outside
  <2>5. ASSUME half' = FALSE, UNCHANGED <<session, mail, pending>>
        PROVE  IInv'
    <3>1. RowsTyped'
      BY <1>1, <2>1, <2>5 DEF RowsTyped
    <3> QED
      BY <2>1, <2>5, <3>1, SamePending, SameSessions, Outside
  <2> QED
    BY <1>5, <2>2, <2>3, <2>4, <2>5 DEF TimePasses
<1> QED
  BY <1>3, <1>4, <1>5

LEMMA ContinueInv ==
  ASSUME IInv, NEW r \in Requests, Continue(r)
  PROVE  IInv'
BY SpendBackupCodeInv, ReadEmailCodeInv, MarkCodeUsedInv, FindSessionInv, OpenSessionInv,
   RevokeSteps, MailSteps, ResetStepInv, UpsertPendingInv, FactorSteps DEF Continue

LEMMA InitInv == Init => IInv
<1> SUFFICES ASSUME Init PROVE IInv
  OBVIOUS
<1>1. /\ orgActive = TRUE /\ mail = [t \in Mails |-> [type |-> "NONE", st |-> "none"]]
      /\ pending = [secret |-> 0, usable |-> FALSE] /\ half = FALSE /\ last = 1
      /\ req = [r \in Requests |-> Idle] /\ calls = 0 /\ faults = 0
      /\ letIn = [c \in Codes |-> 0] /\ spent = [t \in Mails |-> 0] /\ overlapped = FALSE
  BY DEF Init
<1>2. 0 \in Serials /\ 1 \in Serials /\ 1 \in 1 .. MaxCalls + 1
  BY BoundAssumption DEF Serials
<1>3. account \in Account /\ NoLockout /\ \A c \in account.codes : c[1] = 1
  <2>1. PICK super \in BOOLEAN, tfa \in BOOLEAN, m \in {"APP", "EMAIL"} :
          account = [super |-> super, active |-> TRUE, tfa |-> tfa, method |-> m,
                     secret |-> IF tfa /\ m = "APP" THEN 1 ELSE 0,
                     codes |-> IF tfa THEN Batch(1) ELSE {}]
    BY DEF Init
  <2> DEFINE first == IF tfa /\ m = "APP" THEN 1 ELSE 0
             list  == IF tfa THEN Batch(1) ELSE {}
  <2>2. first \in Serials /\ (tfa /\ m = "APP" => first = 1)
    BY <1>2
  <2>3. list \in SUBSET Codes /\ \A c \in list : c[1] = 1
    BY <1>2 DEF Batch, Codes
  <2>4. account = [super |-> super, active |-> TRUE, tfa |-> tfa, method |-> m,
                   secret |-> first, codes |-> list]
    BY <2>1
  <2> HIDE DEF first, list
  <2>5. account \in Account
    BY <2>2, <2>3, <2>4 DEF Account
  <2>6. account.tfa = tfa /\ account.method = m /\ account.secret = first /\ account.codes = list
    BY <2>4
  <2> QED
    BY <2>2, <2>3, <2>5, <2>6 DEF NoLockout
<1>4. session \in [Sessions -> Session]
  <2>1. PICK s0 \in Sessions, d \in Devices :
          session = [s \in Sessions |-> [dev |-> d, jti |-> IF s = s0 THEN 1 ELSE 0,
                                         revoked |-> FALSE, expired |-> FALSE]]
    BY DEF Init
  <2> QED
    BY <1>2, <2>1 DEF Session
<1>5. mail \in [Mails -> Mail] /\ pending \in Pending
  BY <1>1, <1>2 DEF Mail, Pending
<1>6. req \in [Requests -> Request] /\ \A r \in Requests : Fits(req[r]) /\ req[r].at = "idle"
  BY <1>1, IdleType
<1>7. calls \in 0 .. MaxCalls /\ faults \in 0 .. MaxFaults
  BY <1>1, BoundAssumption
<1>8. letIn \in [Codes -> Nat] /\ spent \in [Mails -> Nat]
  BY <1>1
<1>9. TypeOK
  BY <1>1, <1>2, <1>3, <1>4, <1>5, <1>6, <1>7, <1>8 DEF TypeOK
<1>10. ShapeInv
  BY <1>1, <1>3, <1>6, <1>9 DEF ShapeInv, RequestsFit, PendingReal
<1>11. ResetInv
  BY <1>6 DEF ResetInv, Resets
<1>12. AloneInv
  <2>1. OneAtATime
    BY <1>6 DEF OneAtATime, At
  <2>2. \A c \in Codes : ListedCode(c)
    BY <1>1, <1>3 DEF ListedCode
  <2>3. \A r \in Requests : Spends(req[r], account.codes) /\ Marks(req[r], mail, spent)
    BY <1>6 DEF Spends, Marks
  <2>4. \A t \in Mails : Marked(t)
    BY <1>1 DEF Marked
  <2> QED
    BY <2>1, <2>2, <2>3, <2>4 DEF AloneInv, CodesInv, MailsInv
<1> QED
  BY <1>10, <1>11, <1>12 DEF IInv

LEMMA StepInv == IInv /\ [Next]_vars => IInv'
<1> SUFFICES ASSUME IInv, [Next]_vars PROVE IInv'
  OBVIOUS
<1>1. CASE UNCHANGED vars
  BY <1>1, OutsideSteps
<1>2. ASSUME NEW r \in Requests, Call(r) \/ Continue(r) \/ Abandon(r)
      PROVE  IInv'
  BY <1>2, CallInv, ContinueInv, AbandonInv
<1>3. CASE OrganizationToggled \/ TimePasses
  BY <1>3, OutsideSteps
<1> QED
  BY <1>1, <1>2, <1>3 DEF Next

\* The invariant holds in every reachable state.
THEOREM Invariant == Spec => []IInv
BY InitInv, StepInv, PTL DEF Spec

\* The rows and what handlers carry keep their types (auth.service.ts).
THEOREM TypeCorrect == Spec => []TypeOK
<1>1. IInv => TypeOK
  BY DEF IInv, ShapeInv
<1> QED
  BY <1>1, Invariant, PTL

\* An account that asks for the code of an app has the secret of one, in whatever
\* order setting up and taking down overlap (auth.service.ts, two-factor part).
THEOREM AppHasSecret == Spec => []NoLockout
<1>1. IInv => NoLockout
  BY DEF IInv, ShapeInv
<1> QED
  BY <1>1, Invariant, PTL

\* Without overlapping handlers no backup code, mailed code or link works twice
\* (the list written back, used_at of EmailToken).
THEOREM UsedOnce == Spec => []SingleUseAlone
<1>1. IInv => SingleUseAlone
  BY DEF IInv, AloneInv, CodesInv, MailsInv, ListedCode, Marked, SingleUseAlone
<1> QED
  BY <1>1, Invariant, PTL

-----------------------------------------------------------------------------
(* Tokens that are gone.                                                   *)

LEMMA CallTouches ==
  ASSUME NEW r \in Requests, Call(r)
  PROVE  UNCHANGED session /\ \E e, x : Begin(r, e, x)
<1>1. ForgotPassword(r) \/ RequestTwoFactorEmailCode(r) \/ ToggleStatus(r)
        => UNCHANGED session /\ \E e, x : Begin(r, e, x)
  BY DEF ForgotPassword, RequestTwoFactorEmailCode, ToggleStatus, rows
<1>2. \A t \in Mails : ResetPassword(r, t) => UNCHANGED session /\ \E e, x : Begin(r, e, x)
  BY DEF ResetPassword, rows
<1>3. \A d \in Devices : Login(r, d) \/ Impersonate(r, d) \/ StopImpersonation(r, d)
        => UNCHANGED session /\ \E e, x : Begin(r, e, x)
  BY DEF Login, Impersonate, StopImpersonation, rows
<1>4. \A d \in Devices, c \in Codes \union {App} :
        LoginWithTwoFactor(r, d, c) \/ LoginWithEmailCode(r, d, c)
          => UNCHANGED session /\ \E e, x : Begin(r, e, x)
  BY DEF LoginWithTwoFactor, LoginWithEmailCode, rows
<1>5. \A s \in Sessions : Logout(r, s) \/ RevokeOtherSessions(r, s) \/ GetSessions(r, s)
        => UNCHANGED session /\ \E e, x : Begin(r, e, x)
  BY DEF Logout, RevokeOtherSessions, GetSessions, rows
<1>6. \A s, t \in Sessions : RevokeSession(r, s, t) => UNCHANGED session /\ \E e, x : Begin(r, e, x)
  BY DEF RevokeSession, rows
<1>7. \A s \in Sessions :
        SetupTwoFactor(r, s) \/ VerifyTwoFactorSetup(r, s) \/ DisableTwoFactor(r, s)
          => UNCHANGED session /\ \E e, x : Begin(r, e, x)
  BY DEF SetupTwoFactor, VerifyTwoFactorSetup, DisableTwoFactor, rows
<1>8. \A s \in Sessions :
        SendTwoFactorEmailCode(r, s) \/ VerifyTwoFactorEmailSetup(r, s) \/ DisableTwoFactorEmail(r, s)
          => UNCHANGED session /\ \E e, x : Begin(r, e, x)
  BY DEF SendTwoFactorEmailCode, VerifyTwoFactorEmailSetup, DisableTwoFactorEmail, rows
<1> QED
  BY <1>1, <1>2, <1>3, <1>4, <1>5, <1>6, <1>7, <1>8 DEF Call, SessionCall

\* No step gives a session a token that was given out before.
LEMMA NextNewer ==
  ASSUME IInv, [Next]_vars
  PROVE  Newer
<1>1. CASE UNCHANGED vars
  BY <1>1, SameSessions DEF vars, rows
<1>2. CASE OrganizationToggled
  BY <1>2, SameSessions DEF OrganizationToggled
<1>3. CASE TimePasses
  <2>1. CASE UNCHANGED session
    BY <2>1, SameSessions
  <2>2. ASSUME NEW s \in Sessions, session' = [session EXCEPT ![s].expired = TRUE]
        PROVE  Newer
    <3>1. session \in [Sessions -> Session]
      BY Facts DEF RowsTyped
    <3> QED
      BY <2>2, <3>1 DEF Session, Newer, Live
  <2> QED
    BY <1>3, <2>1, <2>2 DEF TimePasses
<1>4. ASSUME NEW r \in Requests, Abandon(r) \/ Call(r)
      PROVE  Newer
  BY <1>4, CallTouches, SameSessions DEF Abandon, rows
<1>5. ASSUME NEW r \in Requests, OpenSession(r)
      PROVE  Newer
  <2>1. PICK s \in Sessions : session' = [session EXCEPT ![s] = Renewed(r, last')]
    BY <1>5 DEF OpenSession
  <2>2. session \in [Sessions -> Session] /\ last < last' /\ last' \in Nat /\ last \in Nat
    BY <1>5, Facts, Taken DEF RowsTyped, OpenSession
  <2>3. Renewed(r, last').jti = last'
    BY DEF Renewed
  <2> QED
    BY <2>1, <2>2, <2>3 DEF Newer, Live
<1>6. ASSUME NEW S \in SUBSET Sessions, session' = Revoked(S)
      PROVE  Newer
  BY <1>6, SessionGoes
<1>7. ASSUME NEW r \in Requests, Revoke(r) \/ RevokeOthers(r)
      PROVE  Newer
  <2>1. req[r].doomed \in SUBSET Sessions
    BY Typed DEF Request
  <2> QED
    BY <1>6, <1>7, <2>1 DEF Revoke, RevokeOthers
<1>8. ASSUME NEW r \in Requests, NEW w \in {"password", "token", "sessions"}, ResetStep(r, w)
      PROVE  Newer
  <2>1. session' = Revoked(Sessions) \/ UNCHANGED session
    BY <1>8 DEF ResetStep
  <2>2. Sessions \in SUBSET Sessions
    OBVIOUS
  <2> QED
    BY <1>6, <2>1, <2>2, SameSessions
<1>9. ASSUME NEW r \in Requests, Continue(r)
      PROVE  Newer
  <2>1. SpendBackupCode(r) \/ ReadEmailCode(r) \/ MarkCodeUsed(r) \/ FindSession(r) => UNCHANGED session
    BY DEF SpendBackupCode, ReadEmailCode, MarkCodeUsed, FindSession, rows
  <2>2. VoidLinks(r) \/ MailLink(r) \/ DropCodes(r) \/ MailCode(r) => UNCHANGED session
    BY DEF VoidLinks, MailLink, DropCodes, MailCode
  <2>3. UpsertPending(r) \/ EnableTwoFactor(r) \/ WriteDisabled(r) => UNCHANGED session
    BY DEF UpsertPending, EnableTwoFactor, WriteDisabled
  <2>4. EnableEmail(r) \/ WriteEmailDisabled(r) \/ WriteStatus(r) => UNCHANGED session
    BY DEF EnableEmail, WriteEmailDisabled, WriteStatus
  <2> QED
    BY <1>5, <1>7, <1>8, <1>9, <2>1, <2>2, <2>3, <2>4, SameSessions DEF Continue
<1> QED
  BY <1>1, <1>2, <1>3, <1>4, <1>9 DEF Next

\* A token that opens no door any more never opens one again: a session found by
\* createSession only comes back with a new token.
THEOREM DeadStaysDead == Spec => DeadTokenStaysDead
<1>1. ASSUME IInv, [Next]_vars, NEW j \in 1 .. last, ~Alive(j)
      PROVE  ~Alive(j)'
  <2> SUFFICES ASSUME NEW s \in Sessions, session'[s].jti = j, Live(s)'
               PROVE  FALSE
    BY DEF Alive
  <2>1. Newer /\ last \in Nat
    BY <1>1, NextNewer, Facts, Numbers DEF RowsTyped
  <2>2. CASE Live(s) /\ session'[s].jti = session[s].jti
    BY <1>1, <2>2 DEF Alive
  <2>3. CASE session'[s].jti > last
    BY <2>1, <2>3
  <2> QED
    BY <2>1, <2>2, <2>3 DEF Newer
<1>2. IInv /\ [Next]_vars => [\A j \in 1 .. last : ~Alive(j) => ~Alive(j)']_vars
  BY <1>1
<1> QED
  BY <1>2, Invariant, PTL DEF Spec, DeadTokenStaysDead

\* Only the last of its three statements ends a reset that does not die.
LEMMA ResetEnds ==
  ASSUME IInv, [Next]_vars, NEW r \in Requests, At(r, "reset"), req'[r].at = "idle",
         UNCHANGED faults
  PROVE  \E w \in {"password", "token", "sessions"} : ResetStep(r, w)
<1>1. req \in [Requests -> Request] /\ faults \in Nat
  BY Facts, BoundAssumption
<1>2. req'[r] # req[r]
  BY DEF At
<1>3. ~UNCHANGED vars /\ ~OrganizationToggled /\ ~TimePasses
  BY <1>2 DEF vars, OrganizationToggled, TimePasses
<1>4. \A p \in Requests : ~Abandon(p)
  BY <1>1 DEF Abandon
<1>5. ASSUME NEW p \in Requests, Call(p)
      PROVE  FALSE
  <2>1. At(p, "idle") /\ \E x : req' = [req EXCEPT ![p] = x]
    BY <1>5, CallTouches DEF Begin
  <2>2. p # r
    BY <2>1 DEF At
  <2> QED
    BY <1>1, <1>2, <2>1, <2>2
<1>6. ASSUME NEW p \in Requests, Continue(p)
      PROVE  p = r
  <2>1. SpendBackupCode(p) \/ FindSession(p) \/ ReadEmailCode(p) => \E x : req' = [req EXCEPT ![p] = x]
    BY DEF SpendBackupCode, FindSession, ReadEmailCode, Goto, Done
  <2>2. MarkCodeUsed(p) \/ OpenSession(p) \/ Revoke(p) \/ RevokeOthers(p)
          => \E x : req' = [req EXCEPT ![p] = x]
    BY DEF MarkCodeUsed, OpenSession, Revoke, RevokeOthers, Goto, Done
  <2>3. VoidLinks(p) \/ MailLink(p) \/ DropCodes(p) \/ MailCode(p) => \E x : req' = [req EXCEPT ![p] = x]
    BY DEF VoidLinks, MailLink, DropCodes, MailCode, Goto, Done
  <2>4. \A w : ResetStep(p, w) => \E x : req' = [req EXCEPT ![p] = x]
    BY DEF ResetStep, Goto, Done
  <2>5. UpsertPending(p) \/ EnableTwoFactor(p) \/ WriteDisabled(p) => \E x : req' = [req EXCEPT ![p] = x]
    BY DEF UpsertPending, EnableTwoFactor, WriteDisabled, Goto, Done
  <2>6. EnableEmail(p) \/ WriteEmailDisabled(p) \/ WriteStatus(p) => \E x : req' = [req EXCEPT ![p] = x]
    BY DEF EnableEmail, WriteEmailDisabled, WriteStatus, Goto, Done
  <2>7. \E x : req' = [req EXCEPT ![p] = x]
    BY <1>6, <2>1, <2>2, <2>3, <2>4, <2>5, <2>6 DEF Continue
  <2> QED
    BY <1>1, <1>2, <2>7
<1>7. Continue(r)
  BY <1>3, <1>4, <1>5, <1>6 DEF Next
<1>8. /\ ~SpendBackupCode(r) /\ ~ReadEmailCode(r) /\ ~MarkCodeUsed(r) /\ ~FindSession(r)
      /\ ~OpenSession(r) /\ ~Revoke(r) /\ ~RevokeOthers(r)
  BY DEF SpendBackupCode, ReadEmailCode, MarkCodeUsed, FindSession, OpenSession, Revoke,
         RevokeOthers, At
<1>9. /\ ~VoidLinks(r) /\ ~MailLink(r) /\ ~DropCodes(r) /\ ~MailCode(r)
      /\ ~UpsertPending(r) /\ ~EnableTwoFactor(r) /\ ~WriteDisabled(r)
      /\ ~EnableEmail(r) /\ ~WriteEmailDisabled(r) /\ ~WriteStatus(r)
  BY DEF VoidLinks, MailLink, DropCodes, MailCode, UpsertPending, EnableTwoFactor, WriteDisabled,
         EnableEmail, WriteEmailDisabled, WriteStatus, At
<1> QED
  BY <1>7, <1>8, <1>9 DEF Continue

\* When a password reset has come to its end no token issued before it was asked
\* for opens a door, whatever logins overlapped it (resetPassword).
THEOREM ResetForgets == Spec => ResetKillsOldTokens
<1>1. ASSUME IInv, [Next]_vars, NEW r \in Requests, At(r, "reset"), req'[r].at = "idle",
             UNCHANGED faults, NEW j \in 1 .. req[r].num
      PROVE  ~Alive(j)'
  <2> SUFFICES ASSUME NEW s \in Sessions, session'[s].jti = j, Live(s)'
               PROVE  FALSE
    BY DEF Alive
  <2>1. PICK w \in {"password", "token", "sessions"} : ResetStep(r, w)
    BY <1>1, ResetEnds
  <2>2. /\ w \in req[r].todo /\ Resets(req[r]) /\ req[r] \in Request
        /\ req \in [Requests -> Request]
    BY <1>1, <2>1, Typed, Facts DEF ResetStep
  <2>3. req[r].todo \ {w} = {}
    <3> SUFFICES ASSUME req[r].todo \ {w} # {} PROVE FALSE
      OBVIOUS
    <3>1. req' = [req EXCEPT ![r] = [req[r] EXCEPT !.todo = req[r].todo \ {w}]]
      BY <2>1 DEF ResetStep, Goto
    <3>2. req'[r].at = "reset"
      BY <1>1, <2>2, <3>1 DEF At, Request
    <3> QED
      BY <1>1, <3>2
  <2>4. CASE w = "sessions"
    <3>1. session' = Revoked(Sessions) /\ Sessions \in SUBSET Sessions
      BY <2>1, <2>4 DEF ResetStep
    <3> QED
      BY <1>1, <3>1, SessionGoes
  <2>5. CASE w # "sessions"
    <3>1. UNCHANGED session
      BY <2>1, <2>5 DEF ResetStep
    <3>2. "sessions" \notin req[r].todo
      BY <2>3, <2>5
    <3>3. session[s].jti > req[r].num /\ session[s].jti = j
      BY <1>1, <2>2, <3>1, <3>2 DEF Resets, Live, At
    <3>4. req[r].num \in Nat
      BY <2>2, BoundAssumption DEF Request, Serials
    <3> QED
      BY <3>3, <3>4
  <2> QED
    BY <2>4, <2>5
<1>2. IInv /\ [Next]_vars =>
        [\A r \in Requests : (At(r, "reset") /\ req'[r].at = "idle" /\ faults' = faults)
           => \A j \in 1 .. req[r].num : ~Alive(j)']_vars
  BY <1>1
<1> QED
  BY <1>2, Invariant, PTL DEF Spec, ResetKillsOldTokens

-----------------------------------------------------------------------------
(* Proofs about Offers, for any number of clicks and any rows.  The         *)
(* invariant says what may be before the account: each list holds what its  *)
(* page shows to that role, and each button, dialog and call under way is   *)
(* one that was offered to it, with the copy of the row it was offered for. *)

Row    == [at : {"live", "trash", "purged"}, active : BOOLEAN, stamp : Nat]
Copies == Row \union {Absent}

Verbs  == {"toggle", "edit", "delete", "reset", "create", "impersonate", "photo", "share", "restore", "purge"}
Places == {"table", "page", "drawer", "history"}

\* The rows; no asset is active that is not live.
RowsFit(r) == r \in [Kinds -> Row] /\ (r.asset.active => r.asset.at = "live")

\* What a page lists for its account.
ListFit(screen, role, k, copy) ==
  /\ copy \in Row
  /\ CASE screen = "users"  -> k = "user" /\ role \in Admins
       [] screen \in {"assets", "asset"} -> k = "asset" /\ copy.at = "live"
       [] screen = "service" -> k = "service" /\ (copy.at = "live" \/ role = "WORKER")
       [] screen = "owners"  -> k = "owner" /\ role = "ADMIN" /\ copy.at = "live"
       [] screen = "trash"   -> role = "ADMIN" /\ copy.at = "trash"
       [] screen = "organizations" -> k = "organization" /\ role = "SUPER_ADMIN"

\* A button that is offered, by kind of row.
UserButton(role, b) ==
  /\ b.kind = "user" /\ role \in Admins
  /\ \/ b.verb \in {"toggle", "edit", "delete", "reset", "create"}
     \/ b.verb = "impersonate" /\ role = "SUPER_ADMIN" /\ b.copy.active
AssetButton(role, b) ==
  /\ b.kind = "asset"
  /\ b.verb = "create" \/ (b.verb \in {"toggle", "edit", "photo", "delete"} /\ b.copy.at = "live")
OwnerButton(role, b) ==
  /\ b.kind = "owner"
  /\ \/ b.verb \in {"toggle", "edit", "delete"} /\ role = "ADMIN" /\ b.copy.at = "live"
     \/ b.verb = "create" /\ role \in Admins
ServiceButton(role, b) ==
  /\ b.kind = "service"
  /\ \/ b.verb = "create" /\ role \in Staff
     \/ b.verb = "delete" /\ role \in Admins /\ b.copy.at = "live"
     \/ b.verb = "share" /\ b.copy.at = "live"
TenantButton(role, b) == b.kind = "organization" /\ b.verb = "toggle" /\ role = "SUPER_ADMIN"
TrashButton(role, b)  == b.verb \in {"restore", "purge"} /\ role = "ADMIN" /\ b.copy.at = "trash"

Offered(role, b) ==
  \/ UserButton(role, b) \/ AssetButton(role, b) \/ OwnerButton(role, b)
  \/ ServiceButton(role, b) \/ TenantButton(role, b) \/ TrashButton(role, b)

OfferedTo(role) ==
  {b \in [place : Places, verb : Verbs, kind : Kinds, copy : Row] : Offered(role, b)}

\* What such a button asks of the API: a switch asks for the other state than its copy's.
Asked(c) ==
  /\ c.verb = "toggle" /\ c.kind # "owner" => c.arg = IF c.copy.active THEN 0 ELSE 1
  /\ c.verb \in {"edit", "photo"} => c.arg \in 0 .. 1
Sendings(role) ==
  {c \in [verb : Verbs, kind : Kinds, arg : Nat, copy : Row, place : Places, scoped : BOOLEAN] :
     Offered(role, c) /\ Asked(c)}

\* Dialogs about one of these, by those that have one.
Questions(role) ==
  {NoDialog} \union {d \in [verb : Verbs, button : OfferedTo(role)] : ~Direct(d.button)}
Scopings(role) ==
  {NoDialog} \union {d \in [verb : Verbs, button : OfferedTo(role)] : Asks(d.button)}

DrawerFit(screen, role, d) ==
  /\ d \in [kind : Kinds \ {"organization"}, first : Row, detail : Copies, asset : Copies,
            readOnly : BOOLEAN, busy : BOOLEAN]
  /\ screen = "trash" => role = "ADMIN" /\ d.first.at = "trash"
  /\ screen # "trash" =>
       /\ d.kind = "user" => role \in Admins
       /\ d.kind = "owner" => role = "ADMIN"
       /\ ~d.readOnly => d.first.at = "live"
       /\ d.detail # Absent => d.detail.at = "live"
       /\ d.asset # Absent => d.asset.at = "live"

DeskFit(d) ==
  /\ d = [screen |-> d.screen, role |-> d.role, self |-> d.self, table |-> d.table, drawer |-> d.drawer,
          dialog |-> d.dialog, scope |-> d.scope, previews |-> d.previews, calls |-> d.calls]
  /\ d.screen \in Screen /\ d.role \in Roles /\ d.screen \in Screens(d.role)
  /\ d.table \in [Kinds -> Copies]
  /\ \A k \in Kinds : d.table[k] # Absent => ListFit(d.screen, d.role, k, d.table[k])
  /\ d.drawer # NoDrawer => DrawerFit(d.screen, d.role, d.drawer)
  /\ d.dialog \in Questions(d.role) /\ d.scope \in Scopings(d.role)
  /\ d.previews \subseteq {b \in OfferedTo(d.role) : Asks(b)}
  /\ d.calls \in Seq(Sendings(d.role))

OffersInv == RowsFit(records) /\ DeskFit(desk) /\ ClickDoesWhatItSays

-----------------------------------------------------------------------------
(* The rows.                                                               *)

\* Of two numbers one is the larger.
LEMMA Larger ==
  ASSUME NEW a \in Nat, NEW b \in Nat
  PROVE  \E m \in {a, b} : m \in Nat /\ m >= a /\ m >= b
  OBVIOUS

LEMMA StampIsNew ==
  ASSUME NEW r, r \in [Kinds -> Row] PROVE NewStamp(r) \in Nat
<1> DEFINE S == {r[k].stamp : k \in Kinds}
<1>1. /\ r["owner"].stamp \in Nat /\ r["asset"].stamp \in Nat /\ r["service"].stamp \in Nat
      /\ r["user"].stamp \in Nat /\ r["organization"].stamp \in Nat
  BY DEF Row, Kinds
<1>2. S = {r["owner"].stamp, r["asset"].stamp, r["service"].stamp, r["user"].stamp,
           r["organization"].stamp}
  BY DEF Kinds
<1>3. \E x \in S : x \in Nat /\ \A y \in S : x >= y
  <2>1. PICK m1 \in {r["owner"].stamp, r["asset"].stamp} :
             m1 \in Nat /\ m1 >= r["owner"].stamp /\ m1 >= r["asset"].stamp
    BY <1>1, Larger
  <2>2. PICK m2 \in {r["service"].stamp, r["user"].stamp} :
             m2 \in Nat /\ m2 >= r["service"].stamp /\ m2 >= r["user"].stamp
    BY <1>1, Larger
  <2>3. PICK m3 \in {m1, m2} : m3 \in Nat /\ m3 >= m1 /\ m3 >= m2
    BY <2>1, <2>2, Larger
  <2>4. PICK m \in {m3, r["organization"].stamp} :
             m \in Nat /\ m >= m3 /\ m >= r["organization"].stamp
    BY <1>1, <2>3, Larger
  <2>5. m \in S
    BY <1>2, <2>1, <2>2, <2>3, <2>4
  <2>6. \A y \in S : m >= y
    BY <1>1, <1>2, <2>1, <2>2, <2>3, <2>4
  <2> QED
    BY <2>4, <2>5, <2>6
<1>4. Max(S) \in Nat
  <2>1. S \subseteq Nat
    BY <1>1, <1>2
  <2> HIDE DEF S
  <2>2. Max(S) \in S
    BY <1>3 DEF Max
  <2> QED
    BY <2>1, <2>2
<1> QED
  BY <1>4 DEF NewStamp

LEMMA RowsApart ==
  ASSUME NEW r, RowsFit(r)
  PROVE  /\ r.owner \in Row /\ r.asset \in Row /\ r.service \in Row /\ r.user \in Row
         /\ r.organization \in Row
  BY DEF RowsFit, Kinds

\* A row that takes the place of another leaves the rows fit.
LEMMA RowReplaced ==
  ASSUME NEW r, RowsFit(r), NEW k \in Kinds, NEW x \in Row, k = "asset" /\ x.active => x.at = "live"
  PROVE  RowsFit([r EXCEPT ![k] = x])
  BY DEF RowsFit, Kinds

\* The calls the API has a handler for.
Handled ==
  (({"toggle"} \X {"user", "asset", "organization", "owner"})
   \union ({"edit"} \X {"user", "owner", "asset"})
   \union ({"delete"} \X {"user", "asset", "owner", "service"})
   \union ({"create"} \X {"user", "asset", "owner", "service"}))
  \union {<<"photo", "asset">>, <<"reset", "user">>, <<"impersonate", "user">>, <<"share", "service">>}
  \union ({"restore", "purge"} \X Kinds)

\* Whatever is asked of the API, and by whom, it leaves the rows fit.
LEMMA RowsStayFit ==
  ASSUME NEW r, RowsFit(r), NEW role, NEW c, c.kind \in Kinds, <<c.verb, c.kind>> \in Handled
  PROVE  RowsFit(Handle(role, r, c).rows)
<1> DEFINE n == NewStamp(r)
<1>1. n \in Nat
  BY StampIsNew DEF RowsFit
<1>2. /\ r.owner \in Row /\ r.asset \in Row /\ r.service \in Row /\ r.user \in Row
      /\ r.organization \in Row
  BY RowsApart
<1> HIDE DEF n
<1>3. \A ok, new : (ok => RowsFit(new)) => RowsFit(When(ok, r, new).rows)
  BY DEF When, Refused
<1>4. Removed(r.asset, n) \in Row /\ Removed(r.owner, n) \in Row /\ ~Removed(r.asset, n).active
  BY <1>1 DEF Removed, Row
<1>5. RestoredRow \in Row /\ RestoredRow.at = "live"
  BY DEF RestoredRow, Row
<1>6. [r.service EXCEPT !.at = "trash", !.stamp = n] \in Row
  <2>1. [r.service EXCEPT !.at = "trash"] \in Row
    BY <1>2 DEF Row
  <2> QED
    BY <1>1, <2>1 DEF Row
<1>t. CASE c.verb = "toggle"
  <2>1. CASE c.kind = "user"
    <3>1. RowsFit([r EXCEPT !.user.active = ~@])
      <4>1. [r.user EXCEPT !.active = ~@] \in Row
        BY <1>2 DEF Row
      <4> QED
        BY <4>1, RowReplaced DEF Kinds
    <3>2. Handle(role, r, c) = ToggleUser(role, r)
      BY <1>t, <2>1 DEF Handle
    <3> QED
      BY <1>3, <3>1, <3>2 DEF ToggleUser
  <2>2. CASE c.kind = "asset"
    <3> DEFINE on == c.arg = 1
    <3>1. Listed(r, "asset") => RowsFit([r EXCEPT !.asset.active = on])
      <4>1. on \in BOOLEAN
        OBVIOUS
      <4> HIDE DEF on
      <4>2. [r.asset EXCEPT !.active = on] \in Row /\ [r.asset EXCEPT !.active = on].at = r.asset.at
        BY <1>2, <4>1 DEF Row
      <4> QED
        BY <4>2, RowReplaced DEF Kinds, Listed
    <3>2. Handle(role, r, c) = ToggleAsset(role, r, on)
      BY <1>t, <2>2 DEF Handle
    <3> HIDE DEF on
    <3> QED
      BY <1>3, <3>1, <3>2 DEF ToggleAsset
  <2>3. CASE c.kind = "organization"
    <3> DEFINE on == c.arg = 1
    <3>1. RowsFit([r EXCEPT !.organization.active = on])
      <4>1. on \in BOOLEAN
        OBVIOUS
      <4> HIDE DEF on
      <4>2. [r.organization EXCEPT !.active = on] \in Row
        BY <1>2, <4>1 DEF Row
      <4> QED
        BY <4>2, RowReplaced DEF Kinds
    <3>2. Handle(role, r, c) = ToggleOrganization(role, r, on)
      BY <1>t, <2>3 DEF Handle
    <3> HIDE DEF on
    <3> QED
      BY <1>3, <3>1, <3>2 DEF ToggleOrganization
  <2>4. CASE c.kind = "owner"
    <3>1. RowsFit([r EXCEPT !.owner.active = FALSE, !.asset.active = FALSE])
      <4>1. [r.owner EXCEPT !.active = FALSE] \in Row /\ [r.asset EXCEPT !.active = FALSE] \in Row
            /\ ~[r.asset EXCEPT !.active = FALSE].active
        BY <1>2 DEF Row
      <4> QED
        BY <4>1 DEF RowsFit, Kinds
    <3>2. Handle(role, r, c) = DeactivateOwner(role, r)
      BY <1>t, <2>4 DEF Handle
    <3> QED
      BY <1>3, <3>1, <3>2 DEF DeactivateOwner
  <2> QED
    BY <1>t, <2>1, <2>2, <2>3, <2>4 DEF Handled
<1>d. CASE c.verb = "delete"
  <2>1. CASE c.kind = "user"
    <3> DEFINE x == RemovedUser(r.user, n)
    <3>1. x \in Row
      <4>1. [r.user EXCEPT !.at = IF @ = "purged" THEN @ ELSE "trash"] \in Row
        BY <1>2 DEF Row
      <4>2. [[r.user EXCEPT !.at = IF @ = "purged" THEN @ ELSE "trash"] EXCEPT !.active = FALSE] \in Row
        BY <4>1 DEF Row
      <4> QED
        BY <1>1, <4>2 DEF Row, RemovedUser
    <3>2. RowsFit([r EXCEPT !.user = x])
      <4> HIDE DEF x
      <4> QED
        BY <3>1, RowReplaced DEF Kinds
    <3>3. Handle(role, r, c) = RemoveUser(role, r)
      BY <1>d, <2>1 DEF Handle
    <3> QED
      BY <1>3, <3>2, <3>3 DEF RemoveUser, n
  <2>2. CASE c.kind = "asset"
    <3> DEFINE new == [r EXCEPT !.asset = Removed(@, n),
                                !.service = IF c.arg > 0 /\ Listed(r, "service")
                                            THEN [@ EXCEPT !.at = "trash", !.stamp = n] ELSE @]
    <3>1. RowsFit(new)
      BY <1>2, <1>4, <1>6 DEF RowsFit, Kinds
    <3>2. Handle(role, r, c) = RemoveAsset(role, r, c.arg)
      BY <1>d, <2>2 DEF Handle
    <3>3. RemoveAsset(role, r, c.arg) = When(role \in Admins /\ Listed(r, "asset"), r, new)
      BY DEF RemoveAsset, n
    <3> QED
      BY <1>3, <3>1, <3>2, <3>3
  <2>3. CASE c.kind = "owner"
    <3> DEFINE new == [r EXCEPT !.owner = Removed(@, n),
                                !.asset = IF c.arg > 0 /\ Listed(r, "asset") THEN Removed(@, n) ELSE @,
                                !.service = IF c.arg > 1 /\ Listed(r, "asset") /\ Listed(r, "service")
                                            THEN [@ EXCEPT !.at = "trash", !.stamp = n] ELSE @]
    <3>1. RowsFit(new)
      BY <1>2, <1>4, <1>6 DEF RowsFit, Kinds
    <3>2. Handle(role, r, c) = RemoveOwner(role, r, c.arg)
      BY <1>d, <2>3 DEF Handle
    <3>3. RemoveOwner(role, r, c.arg) = When(role = "ADMIN" /\ Listed(r, "owner"), r, new)
      BY DEF RemoveOwner, n
    <3> QED
      BY <1>3, <3>1, <3>2, <3>3
  <2>4. CASE c.kind = "service"
    <3>1. RowsFit([r EXCEPT !.service = [@ EXCEPT !.at = "trash", !.stamp = n]])
      BY <1>6, RowReplaced DEF Kinds
    <3>2. Handle(role, r, c) = RemoveService(role, r)
      BY <1>d, <2>4 DEF Handle
    <3> QED
      BY <1>3, <3>1, <3>2 DEF RemoveService, n
  <2> QED
    BY <1>d, <2>1, <2>2, <2>3, <2>4 DEF Handled
<1>r. CASE c.verb = "restore"
  <2>1. Handle(role, r, c) = Restore(role, r, c.kind, c.arg)
    BY <1>r DEF Handle
  <2>2. \A back : RowsFit([k \in Kinds |-> IF k \in back THEN RestoredRow ELSE r[k]])
    BY <1>5 DEF RowsFit, Kinds
  <2> QED
    BY <1>3, <2>1, <2>2 DEF Restore
<1>p. CASE c.verb = "purge"
  <2> DEFINE k == c.kind
             x == Purged(k, r[k])
  <2>1. r[k] \in Row
    BY DEF RowsFit
  <2>2. x \in Row /\ (k = "asset" => ~x.active)
    <3>1. [r[k] EXCEPT !.at = "purged"] \in Row
      BY <2>1 DEF Row
    <3> QED
      BY <3>1 DEF Row, Purged
  <2>3. RowsFit([r EXCEPT ![k] = x])
    <3> HIDE DEF x
    <3> QED
      BY <2>2, RowReplaced
  <2>4. Handle(role, r, c) = PermanentDelete(role, r, k)
    BY <1>p DEF Handle
  <2> QED
    BY <1>3, <2>3, <2>4 DEF PermanentDelete
<1>o. CASE c.verb \in {"edit", "photo", "create", "reset", "impersonate", "share"}
  BY <1>o DEF Handled, Handle, EditUser, EditOwner, EditAsset, SendReset, EnterTenant, ShareService,
              CreateService, CreateUser, CreateAsset, CreateOwner, When, Refused
<1> QED
  BY <1>t, <1>d, <1>r, <1>p, <1>o DEF Handled

-----------------------------------------------------------------------------
(* What comes of a call.                                                   *)

\* What ClickDoesWhatItSays asks of an answer.
Honest(v, role) ==
  \/ v.done /\ (Kept(v) \/ KnownMisses(v, role))
  \/ ~v.done /\ (\/ v.copy # v.before /\ ~(v.verb = "create" /\ v.kind # "service")
                 \/ KnownRefusal(v, role))

\* v is what is recorded of the answer to c, asked of the rows r.
Records(v, role, r, c) ==
  LET a == Handle(role, r, c)
      k == About(c)
  IN v = [verb |-> c.verb, kind |-> c.kind, place |-> c.place, arg |-> c.arg, copy |-> c.copy,
          before |-> r[k], above |-> IF k \in DOMAIN Above THEN r[Above[k]].at ELSE "live",
          tenant |-> r.organization.active, after |-> a.rows[k], done |-> a.done, heard |-> a.heard]

\* The same, with what the proofs read of it.
Answer(v, a, r, c) ==
  /\ v.verb = c.verb /\ v.kind = c.kind /\ v.arg = c.arg /\ v.copy = c.copy
  /\ v.before = r[About(c)] /\ v.after = a.rows[About(c)]
  /\ v.above = (IF About(c) \in DOMAIN Above THEN r[Above[About(c)]].at ELSE "live")
  /\ v.tenant = r.organization.active
  /\ v.done = a.done /\ v.heard = a.heard

LEMMA AnswerRead ==
  ASSUME NEW v, NEW role, NEW r, NEW c, Records(v, role, r, c)
  PROVE  Answer(v, Handle(role, r, c), r, c)
  BY DEF Records, Answer

LEMMA UserHonest ==
  ASSUME NEW role, NEW r, RowsFit(r), NEW c, c.copy \in Row, UserButton(role, c), Asked(c),
         NEW v, Answer(v, Handle(role, r, c), r, c)
  PROVE  Honest(v, role)
<1> USE DEF Answer
<1>1. c.kind = "user" /\ role \in Admins /\ r.user \in Row /\ r \in [Kinds -> Row]
  BY RowsApart DEF UserButton, RowsFit
<1>2. CASE c.verb = "toggle"
  <2>1. Handle(role, r, c) = ToggleUser(role, r)
    BY <1>1, <1>2 DEF Handle
  <2>2. v.done /\ v.after.active = ~r.user.active
    BY <1>1, <1>2, <2>1 DEF ToggleUser, When, About, Row, Kinds
  <2>3. v.copy = v.before => v.after.active = ~v.copy.active
    BY <1>1, <1>2, <2>2 DEF About
  <2> QED
    BY <1>1, <1>2, <2>2, <2>3 DEF Honest, Kept, KnownMisses
<1>3. CASE c.verb = "delete"
  <2>1. Handle(role, r, c) = RemoveUser(role, r)
    BY <1>1, <1>3 DEF Handle
  <2>2. RemovedUser(r.user, NewStamp(r)).at # "live"
    <3>1. [r.user EXCEPT !.at = IF @ = "purged" THEN @ ELSE "trash"].at # "live"
      BY <1>1 DEF Row
    <3> QED
      BY <1>1, <3>1 DEF RemovedUser, Row
  <2>3. v.done /\ v.after = RemovedUser(r.user, NewStamp(r))
    BY <1>1, <1>3, <2>1 DEF RemoveUser, When, About, Kinds
  <2> QED
    BY <1>1, <1>3, <2>2, <2>3 DEF Honest, Kept
<1>4. CASE c.verb \in {"edit", "create"}
  <2>1. Handle(role, r, c).done /\ Handle(role, r, c).heard
    BY <1>1, <1>4 DEF Handle, EditUser, CreateUser, When
  <2> QED
    BY <1>1, <1>4, <2>1 DEF Honest, Kept
<1>5. CASE c.verb = "reset"
  <2>1. Handle(role, r, c) = SendReset(r)
    BY <1>1, <1>5 DEF Handle
  <2>2. v.done /\ v.heard = v.before.active
    BY <1>1, <1>5, <2>1 DEF SendReset, About
  <2> QED
    BY <1>1, <1>5, <2>2 DEF Honest, Kept, KnownMisses
<1>6. CASE c.verb = "impersonate"
  <2>1. Handle(role, r, c) = EnterTenant(role, r) /\ role = "SUPER_ADMIN" /\ c.copy.active
    BY <1>1, <1>6 DEF Handle, UserButton
  <2>2. CASE r.user.active /\ r.organization.active
    BY <1>1, <1>6, <2>1, <2>2 DEF EnterTenant, When, Honest, Kept
  <2>3. CASE ~(r.user.active /\ r.organization.active)
    <3>1. ~v.done
      BY <2>1, <2>3 DEF EnterTenant, When, Refused
    <3>2. v.copy # v.before \/ ~v.tenant
      BY <1>1, <1>6, <2>1, <2>3 DEF About
    <3> QED
      BY <1>1, <1>6, <3>1, <3>2 DEF Honest, KnownRefusal
  <2> QED
    BY <2>2, <2>3
<1> QED
  BY <1>2, <1>3, <1>4, <1>5, <1>6 DEF UserButton

LEMMA AssetHonest ==
  ASSUME NEW role \in Roles, NEW r, RowsFit(r), NEW c, c.copy \in Row, AssetButton(role, c), Asked(c),
         NEW v, Answer(v, Handle(role, r, c), r, c)
  PROVE  Honest(v, role)
<1> USE DEF Answer
<1>1. c.kind = "asset" /\ About(c) = "asset" /\ r.asset \in Row /\ r \in [Kinds -> Row]
  BY RowsApart DEF AssetButton, RowsFit, About
<1>2. c.verb # "create" /\ ~Listed(r, "asset") => v.copy # v.before
  BY <1>1 DEF AssetButton, Listed
<1>3. CASE c.verb = "toggle"
  <2> DEFINE on == c.arg = 1
  <2>1. Handle(role, r, c) = ToggleAsset(role, r, on)
    BY <1>1, <1>3 DEF Handle
  <2>2. on = ~c.copy.active
    BY <1>1, <1>3 DEF Asked, Row
  <2> HIDE DEF on
  <2>3. CASE role \in Admins /\ Listed(r, "asset")
    <3>1. v.done /\ v.after.active = on
      BY <1>1, <2>1, <2>3 DEF ToggleAsset, When, Row, Kinds
    <3> QED
      BY <1>1, <1>3, <2>2, <3>1 DEF Honest, Kept
  <2>4. CASE ~(role \in Admins /\ Listed(r, "asset"))
    BY <1>1, <1>2, <1>3, <2>1, <2>4 DEF ToggleAsset, When, Refused, Honest, KnownRefusal
  <2> QED
    BY <2>3, <2>4
<1>4. CASE c.verb = "delete"
  <2>1. Handle(role, r, c) = RemoveAsset(role, r, c.arg)
    BY <1>1, <1>4 DEF Handle
  <2>2. CASE role \in Admins /\ Listed(r, "asset")
    <3> DEFINE row == Removed(r.asset, NewStamp(r))
               new == [r EXCEPT !.asset = Removed(@, NewStamp(r)),
                                !.service = IF c.arg > 0 /\ Listed(r, "service")
                                            THEN [@ EXCEPT !.at = "trash", !.stamp = NewStamp(r)] ELSE @]
    <3>1. new.asset = row
      <4> HIDE DEF row
      <4>1. \A x : [r EXCEPT !.asset = row, !.service = x].asset = row
        BY <1>1 DEF Kinds
      <4> QED
        BY <4>1 DEF row
    <3>2. RemoveAsset(role, r, c.arg) = [done |-> TRUE, rows |-> new, heard |-> TRUE]
      BY <2>2 DEF RemoveAsset, When
    <3> HIDE DEF new
    <3>3. v.done /\ v.after.at = "trash"
      BY <1>1, <2>1, <3>1, <3>2 DEF Removed
    <3> QED
      BY <1>1, <1>4, <3>3 DEF Honest, Kept
  <2>3. CASE ~(role \in Admins /\ Listed(r, "asset"))
    BY <1>1, <1>2, <1>4, <2>1, <2>3 DEF RemoveAsset, When, Refused, Honest, KnownRefusal
  <2> QED
    BY <2>2, <2>3
<1>5. CASE c.verb \in {"edit", "photo"}
  <2>1. PICK photo \in {"none", "with", "alone"} :
          /\ Handle(role, r, c) = EditAsset(role, r, photo)
          /\ photo = "none" <=> c.arg # 1
          /\ photo # "none" => (photo = "alone" <=> c.verb = "photo")
    BY <1>1, <1>5 DEF Handle
  <2> DEFINE ok == Listed(r, "asset") /\ role \in Staff /\ (role = "WORKER" => photo # "none")
  <2>4. /\ EditAsset(role, r, photo).done = ok
        /\ EditAsset(role, r, photo).heard = (ok /\ (role = "WORKER" => photo = "alone"))
    BY DEF EditAsset
  <2>2. CASE ok
    <3>1. v.done /\ (role # "WORKER" \/ photo = "alone" => v.heard)
      BY <2>1, <2>2, <2>4
    <3> QED
      BY <1>1, <1>5, <2>1, <2>2, <3>1 DEF Honest, Kept, KnownMisses
  <2>3. CASE ~ok
    <3>1. ~v.done
      BY <2>1, <2>3, <2>4
    <3>2. ~Listed(r, "asset") \/ role = "EXTERNAL" \/ (role = "WORKER" /\ v.arg = 0)
      BY <1>1, <1>5, <2>1, <2>3 DEF Roles, Staff, Asked
    <3> QED
      BY <1>1, <1>2, <1>5, <3>1, <3>2 DEF Honest, KnownRefusal
  <2> QED
    BY <2>2, <2>3
<1>6. CASE c.verb = "create"
  <2>1. Handle(role, r, c) = CreateAsset(role, r)
    BY <1>1, <1>6 DEF Handle
  <2> QED
    BY <1>1, <1>6, <2>1 DEF CreateAsset, When, Refused, Honest, Kept, KnownRefusal, Staff, Roles
<1> QED
  BY <1>3, <1>4, <1>5, <1>6 DEF AssetButton

LEMMA OwnerHonest ==
  ASSUME NEW role \in Roles, NEW r, RowsFit(r), NEW c, c.copy \in Row, OwnerButton(role, c), Asked(c),
         NEW v, Answer(v, Handle(role, r, c), r, c)
  PROVE  Honest(v, role)
<1> USE DEF Answer
<1>1. c.kind = "owner" /\ About(c) = "owner" /\ r.owner \in Row /\ r \in [Kinds -> Row]
  BY RowsApart DEF OwnerButton, RowsFit, About
<1>2. c.verb # "create" => role = "ADMIN" /\ (~Listed(r, "owner") => v.copy # v.before)
  BY <1>1 DEF OwnerButton, Listed
<1>3. CASE c.verb = "toggle"
  <2>1. Handle(role, r, c) = DeactivateOwner(role, r)
    BY <1>1, <1>3 DEF Handle
  <2>2. CASE Listed(r, "owner")
    <3>1. v.done /\ ~v.after.active /\ v.after.active \in BOOLEAN
      BY <1>1, <1>2, <1>3, <2>1, <2>2 DEF DeactivateOwner, When, Row, Kinds
    <3>2. c.copy.active \in BOOLEAN
      BY DEF Row
    <3> QED
      BY <1>1, <1>3, <3>1, <3>2 DEF Honest, Kept, KnownMisses
  <2>3. CASE ~Listed(r, "owner")
    BY <1>1, <1>2, <1>3, <2>1, <2>3 DEF DeactivateOwner, When, Refused, Honest
  <2> QED
    BY <2>2, <2>3
<1>4. CASE c.verb = "delete"
  <2>1. Handle(role, r, c) = RemoveOwner(role, r, c.arg)
    BY <1>1, <1>4 DEF Handle
  <2>2. CASE Listed(r, "owner")
    <3>1. v.done /\ v.after.at = "trash"
      BY <1>1, <1>2, <1>4, <2>1, <2>2 DEF RemoveOwner, When, Removed, Kinds
    <3> QED
      BY <1>1, <1>4, <3>1 DEF Honest, Kept
  <2>3. CASE ~Listed(r, "owner")
    BY <1>1, <1>2, <1>4, <2>1, <2>3 DEF RemoveOwner, When, Refused, Honest
  <2> QED
    BY <2>2, <2>3
<1>5. CASE c.verb = "edit"
  <2>1. Handle(role, r, c) = EditOwner(role, r)
    BY <1>1, <1>5 DEF Handle
  <2> QED
    BY <1>1, <1>2, <1>5, <2>1 DEF EditOwner, When, Refused, Honest, Kept
<1>6. CASE c.verb = "create"
  <2>1. Handle(role, r, c) = CreateOwner(role, r) /\ role \in Admins
    BY <1>1, <1>6 DEF Handle, OwnerButton
  <2> QED
    BY <1>1, <1>6, <2>1 DEF CreateOwner, When, Refused, Honest, Kept, KnownRefusal, Admins
<1> QED
  BY <1>3, <1>4, <1>5, <1>6 DEF OwnerButton

LEMMA ServiceHonest ==
  ASSUME NEW role \in Roles, NEW r, RowsFit(r), NEW c, c.copy \in Row, ServiceButton(role, c), Asked(c),
         NEW v, Answer(v, Handle(role, r, c), r, c)
  PROVE  Honest(v, role)
<1> USE DEF Answer
<1>1. c.kind = "service" /\ r.service \in Row /\ r \in [Kinds -> Row]
  BY RowsApart DEF ServiceButton, RowsFit
<1>2. CASE c.verb = "create"
  <2>1. /\ Handle(role, r, c) = CreateService(role, r) /\ role \in Staff
        /\ v.before = r.asset
    BY <1>1, <1>2 DEF Handle, ServiceButton, About
  <2> QED
    BY <1>1, <1>2, <2>1 DEF CreateService, When, Refused, Honest, Kept, KnownRefusal
<1>3. CASE c.verb = "delete"
  <2>1. /\ Handle(role, r, c) = RemoveService(role, r) /\ role \in Admins
        /\ About(c) = "service" /\ (~Listed(r, "service") => v.copy # v.before)
    BY <1>1, <1>3 DEF Handle, ServiceButton, About, Listed
  <2>2. CASE Listed(r, "service")
    <3> DEFINE row == [r.service EXCEPT !.at = "trash", !.stamp = NewStamp(r)]
    <3>2. row.at = "trash"
      <4>1. [r.service EXCEPT !.at = "trash"].at = "trash"
        BY <1>1 DEF Row
      <4> QED
        BY <1>1, <4>1 DEF Row
    <3> HIDE DEF row
    <3>3. RemoveService(role, r) = [done |-> TRUE, rows |-> [r EXCEPT !.service = row], heard |-> TRUE]
      BY <2>1, <2>2 DEF RemoveService, When, row
    <3>1. v.done /\ v.after.at = "trash"
      BY <1>1, <2>1, <3>2, <3>3 DEF Kinds
    <3> QED
      BY <1>1, <1>3, <3>1 DEF Honest, Kept
  <2>3. CASE ~Listed(r, "service")
    BY <1>1, <1>3, <2>1, <2>3 DEF RemoveService, When, Refused, Honest
  <2> QED
    BY <2>2, <2>3
<1>4. CASE c.verb = "share"
  <2>1. /\ Handle(role, r, c) = ShareService(role, r)
        /\ About(c) = "service" /\ (~Listed(r, "service") => v.copy # v.before)
    BY <1>1, <1>4 DEF Handle, ServiceButton, About, Listed
  <2> QED
    BY <1>1, <1>4, <2>1 DEF ShareService, When, Refused, Honest, Kept, KnownRefusal
<1> QED
  BY <1>2, <1>3, <1>4 DEF ServiceButton

LEMMA TenantHonest ==
  ASSUME NEW role \in Roles, NEW r, RowsFit(r), NEW c, c.copy \in Row, TenantButton(role, c), Asked(c),
         NEW v, Answer(v, Handle(role, r, c), r, c)
  PROVE  Honest(v, role)
<1> USE DEF Answer
<1> DEFINE on == c.arg = 1
<1>1. /\ c.kind = "organization" /\ c.verb = "toggle" /\ role = "SUPER_ADMIN" /\ About(c) = "organization"
      /\ r.organization \in Row /\ r \in [Kinds -> Row]
  BY RowsApart DEF TenantButton, RowsFit, About
<1>2. Handle(role, r, c) = ToggleOrganization(role, r, on)
  BY <1>1 DEF Handle
<1>3. on = ~c.copy.active
  BY <1>1 DEF Asked, Row
<1> HIDE DEF on
<1>4. v.done /\ v.after.active = on
  BY <1>1, <1>2 DEF ToggleOrganization, When, Row, Kinds
<1> QED
  BY <1>1, <1>3, <1>4 DEF Honest, Kept

LEMMA TrashHonest ==
  ASSUME NEW role \in Roles, NEW r, RowsFit(r), NEW c, c.kind \in Kinds, c.copy \in Row,
         TrashButton(role, c), Asked(c),
         NEW v, Answer(v, Handle(role, r, c), r, c)
  PROVE  Honest(v, role)
<1> USE DEF Answer
<1> DEFINE k == c.kind
<1>1. role = "ADMIN" /\ r \in [Kinds -> Row] /\ r[k] \in Row /\ About(c) = k
  BY DEF TrashButton, RowsFit, About
<1>2. ~Trash(r, k) => v.copy # v.before
  BY <1>1 DEF TrashButton, Trash
<1>3. CASE c.verb = "restore"
  <2> DEFINE ok == Trash(r, k) /\ (k \in DOMAIN Above => Listed(r, Above[k]))
  <2>1. Handle(role, r, c) = Restore(role, r, k, c.arg)
    BY <1>3 DEF Handle
  <2>2. CASE ok
    <3>1. v.done /\ v.after = RestoredRow
      BY <1>1, <2>1, <2>2 DEF Restore, When
    <3> QED
      BY <1>3, <3>1 DEF Honest, Kept, RestoredRow
  <2>3. CASE ~ok
    <3>1. ~v.done
      BY <1>1, <2>1, <2>3 DEF Restore, When, Refused
    <3>2. Trash(r, k) => v.above # "live"
      BY <1>1, <2>3 DEF Listed
    <3> QED
      BY <1>2, <1>3, <3>1, <3>2 DEF Honest, KnownRefusal
  <2> QED
    BY <2>2, <2>3
<1>4. CASE c.verb = "purge"
  <2>1. Handle(role, r, c) = PermanentDelete(role, r, k)
    BY <1>4 DEF Handle
  <2>2. CASE Trash(r, k)
    <3>1. Purged(k, r[k]).at = "purged"
      <4>1. [r[k] EXCEPT !.at = "purged"].at = "purged"
        BY <1>1 DEF Row
      <4> QED
        BY <1>1, <4>1 DEF Purged, Row
    <3>2. v.done /\ v.after = Purged(k, r[k])
      BY <1>1, <2>1, <2>2 DEF PermanentDelete, When
    <3> QED
      BY <1>4, <3>1, <3>2 DEF Honest, Kept
  <2>3. CASE ~Trash(r, k)
    BY <1>1, <1>2, <1>4, <2>1, <2>3 DEF PermanentDelete, When, Refused, Honest
  <2> QED
    BY <2>2, <2>3
<1> QED
  BY <1>3, <1>4 DEF TrashButton

LEMMA DoneOrNot ==
  ASSUME NEW role, NEW r, NEW c, c.kind \in Kinds, <<c.verb, c.kind>> \in Handled
  PROVE  Handle(role, r, c).done \in BOOLEAN
<1>1. \A ok, new : When(ok, r, new).done \in BOOLEAN
  BY DEF When, Refused
<1>2. CASE c.verb = "toggle"
  BY <1>1, <1>2 DEF Handle, Handled, ToggleUser, ToggleAsset, ToggleOrganization, DeactivateOwner
<1>3. CASE c.verb = "edit"
  BY <1>1, <1>3 DEF Handle, Handled, EditUser, EditOwner, EditAsset
<1>4. CASE c.verb = "delete"
  BY <1>1, <1>4 DEF Handle, Handled, RemoveUser, RemoveAsset, RemoveOwner, RemoveService
<1>5. CASE c.verb = "create"
  BY <1>1, <1>5 DEF Handle, Handled, CreateService, CreateUser, CreateAsset, CreateOwner
<1>6. CASE c.verb \in {"photo", "reset", "impersonate", "share"}
  BY <1>1, <1>6 DEF Handle, Handled, EditAsset, SendReset, EnterTenant, ShareService
<1>7. CASE c.verb \in {"restore", "purge"}
  BY <1>1, <1>7 DEF Handle, Handled, Restore, PermanentDelete
<1> QED
  BY <1>2, <1>3, <1>4, <1>5, <1>6, <1>7 DEF Handled

\* Whatever has become of the rows since a button was shown: what the API answers to its
\* call is what the label said, a refusal that the copy explains, or a case the property names.
LEMMA AnswersAreHonest ==
  ASSUME NEW role \in Roles, NEW r, RowsFit(r), NEW c \in Sendings(role), NEW v, Records(v, role, r, c)
  PROVE  Honest(v, role)
<1>1. Answer(v, Handle(role, r, c), r, c)
  BY AnswerRead
<1>2. c.kind \in Kinds /\ c.copy \in Row /\ Offered(role, c) /\ Asked(c)
  BY DEF Sendings
<1> QED
  BY <1>1, <1>2, UserHonest, AssetHonest, OwnerHonest, ServiceHonest, TenantHonest, TrashHonest DEF Offered

-----------------------------------------------------------------------------
(* What is on the page.                                                    *)

LEMMA OfferedButton ==
  ASSUME NEW role, NEW place \in Places, NEW verb \in Verbs, NEW kind \in Kinds, NEW copy \in Row,
         Offered(role, Button(place, verb, kind, copy))
  PROVE  Button(place, verb, kind, copy) \in OfferedTo(role)
  BY DEF OfferedTo, Button

\* A group of buttons is offered if each of its labels is.
LEMMA OfferedGroup ==
  ASSUME NEW role, NEW place \in Places, NEW verbs, verbs \subseteq Verbs, NEW kind \in Kinds,
         NEW copy, copy # Absent => copy \in Row,
         copy # Absent => \A verb \in verbs : Offered(role, Button(place, verb, kind, copy))
  PROVE  Buttons(place, verbs, kind, copy) \subseteq OfferedTo(role)
  BY OfferedButton DEF Buttons

LEMMA TableOffers ==
  ASSUME DeskFit(desk) PROVE InTable \subseteq OfferedTo(desk.role)
<1> DEFINE t == desk.table
           role == desk.role
<1>1. /\ desk.screen \in Screen /\ role \in Roles
      /\ \A k \in Kinds : t[k] # Absent => ListFit(desk.screen, role, k, t[k])
  BY DEF DeskFit
<1>2. \A k \in Kinds : t[k] # Absent => t[k] \in Row
  BY <1>1 DEF ListFit
<1>3. "user" \in Kinds /\ "asset" \in Kinds /\ "owner" \in Kinds /\ "service" \in Kinds /\ "organization" \in Kinds
  BY DEF Kinds
<1> HIDE DEF t, role
<1>u. CASE desk.screen = "users"
  <2>1. t.user # Absent => role \in Admins
    BY <1>1, <1>3, <1>u DEF ListFit
  <2>2. Buttons("table", UsersTable(role, t.user), "user", t.user) \subseteq OfferedTo(role)
    <3>1. \A verb \in UsersTable(role, t.user) :
             verb \in Verbs /\ (t.user # Absent => UserButton(role, Button("table", verb, "user", t.user)))
      BY <2>1 DEF UsersTable, Verbs, UserButton, Button
    <3> QED
      BY <1>2, <1>3, <3>1, OfferedGroup DEF Offered, Places
  <2>3. InTable = Buttons("table", UsersTable(role, t.user), "user", t.user)
    BY <1>u DEF InTable, t, role
  <2> QED
    BY <2>2, <2>3 DEF role
<1>a. CASE desk.screen = "assets"
  <2>1. t.asset # Absent => t.asset.at = "live"
    BY <1>1, <1>3, <1>a DEF ListFit
  <2>2. Buttons("table", AssetsTable(role), "asset", t.asset) \subseteq OfferedTo(role)
    <3>1. \A verb \in AssetsTable(role) :
             verb \in Verbs /\ (t.asset # Absent => AssetButton(role, Button("table", verb, "asset", t.asset)))
      BY <2>1 DEF AssetsTable, Verbs, AssetButton, Button
    <3> QED
      BY <1>2, <1>3, <3>1, OfferedGroup DEF Offered, Places
  <2>3. InTable = Buttons("table", AssetsTable(role), "asset", t.asset)
    BY <1>a DEF InTable, t, role
  <2> QED
    BY <2>2, <2>3 DEF role
<1>p. CASE desk.screen = "asset"
  <2>1. t.asset # Absent => t.asset.at = "live"
    BY <1>1, <1>3, <1>p DEF ListFit
  <2>2. Buttons("page", AssetPage(role), "asset", t.asset) \subseteq OfferedTo(role)
    <3>1. \A verb \in AssetPage(role) :
             verb \in Verbs /\ (t.asset # Absent => AssetButton(role, Button("page", verb, "asset", t.asset)))
      BY <2>1 DEF AssetPage, Verbs, AssetButton, Button
    <3> QED
      BY <1>2, <1>3, <3>1, OfferedGroup DEF Offered, Places
  <2>3. Buttons("page", NewServiceButton(role), "service", t.asset) \subseteq OfferedTo(role)
    <3>1. \A verb \in NewServiceButton(role) :
             verb \in Verbs /\ (t.asset # Absent => ServiceButton(role, Button("page", verb, "service", t.asset)))
      BY DEF NewServiceButton, Verbs, ServiceButton, Button
    <3> QED
      BY <1>2, <1>3, <3>1, OfferedGroup DEF Offered, Places
  <2>4. InTable = Buttons("page", AssetPage(role), "asset", t.asset)
                  \union Buttons("page", NewServiceButton(role), "service", t.asset)
    BY <1>p DEF InTable, t, role
  <2> QED
    BY <2>2, <2>3, <2>4 DEF role
<1>o. CASE desk.screen = "owners"
  <2>1. t.owner # Absent => role = "ADMIN" /\ t.owner.at = "live"
    BY <1>1, <1>3, <1>o DEF ListFit
  <2>2. Buttons("table", OwnersTable, "owner", t.owner) \subseteq OfferedTo(role)
    <3>1. \A verb \in OwnersTable :
             verb \in Verbs /\ (t.owner # Absent => OwnerButton(role, Button("table", verb, "owner", t.owner)))
      BY <2>1 DEF OwnersTable, Verbs, OwnerButton, Button
    <3> QED
      BY <1>2, <1>3, <3>1, OfferedGroup DEF Offered, Places
  <2>3. InTable = Buttons("table", OwnersTable, "owner", t.owner)
    BY <1>o DEF InTable, t, role
  <2> QED
    BY <2>2, <2>3 DEF role
<1>s. CASE desk.screen = "service"
  <2>1. t.service # Absent => t.service.at = "live" \/ role = "WORKER"
    BY <1>1, <1>3, <1>s DEF ListFit
  <2>2. Buttons("table", ServicesTable(role), "service", t.service) \subseteq OfferedTo(role)
    <3>1. \A verb \in ServicesTable(role) :
             verb \in Verbs /\ (t.service # Absent => ServiceButton(role, Button("table", verb, "service", t.service)))
      BY <2>1 DEF ServicesTable, Verbs, ServiceButton, Button, Admins
    <3> QED
      BY <1>2, <1>3, <3>1, OfferedGroup DEF Offered, Places
  <2>3. InTable = Buttons("table", ServicesTable(role), "service", t.service)
    BY <1>s DEF InTable, t, role
  <2> QED
    BY <2>2, <2>3 DEF role
<1>t. CASE desk.screen = "trash"
  <2>1. \A k \in Kinds : t[k] # Absent => role = "ADMIN" /\ t[k].at = "trash"
    BY <1>1, <1>t DEF ListFit
  <2>2. \A k \in Kinds : Buttons("table", TrashTable, k, t[k]) \subseteq OfferedTo(role)
    <3> TAKE k \in Kinds
    <3>1. \A verb \in TrashTable :
             verb \in Verbs /\ (t[k] # Absent => TrashButton(role, Button("table", verb, k, t[k])))
      BY <2>1 DEF TrashTable, Verbs, TrashButton, Button
    <3> QED
      BY <1>2, <3>1, OfferedGroup DEF Offered, Places
  <2>3. InTable = UNION {Buttons("table", TrashTable, k, t[k]) : k \in Kinds}
    BY <1>t DEF InTable, t, role
  <2> QED
    BY <2>2, <2>3 DEF role
<1>g. CASE desk.screen = "organizations"
  <2>1. t.organization # Absent => role = "SUPER_ADMIN"
    BY <1>1, <1>3, <1>g DEF ListFit
  <2>2. Buttons("table", OrganizationsTable, "organization", t.organization) \subseteq OfferedTo(role)
    <3>1. \A verb \in OrganizationsTable :
             /\ verb \in Verbs
             /\ t.organization # Absent => TenantButton(role, Button("table", verb, "organization", t.organization))
      BY <2>1 DEF OrganizationsTable, Verbs, TenantButton, Button
    <3> QED
      BY <1>2, <1>3, <3>1, OfferedGroup DEF Offered, Places
  <2>3. InTable = Buttons("table", OrganizationsTable, "organization", t.organization)
    BY <1>g DEF InTable, t, role
  <2> QED
    BY <2>2, <2>3 DEF role
<1> QED
  BY <1>1, <1>u, <1>a, <1>p, <1>o, <1>s, <1>t, <1>g DEF Screen

LEMMA DrawerOffers ==
  ASSUME DeskFit(desk) PROVE InDrawer \subseteq OfferedTo(desk.role)
<1> DEFINE d == desk.drawer
           role == desk.role
<1> SUFFICES ASSUME d # NoDrawer PROVE InDrawer \subseteq OfferedTo(role)
  BY DEF InDrawer
<1>1. DrawerFit(desk.screen, role, d) /\ role \in Roles
  BY DEF DeskFit
<1>2. /\ d.kind \in Kinds \ {"organization"} /\ d.first \in Row /\ d.detail \in Copies /\ d.asset \in Copies
      /\ "asset" \in Kinds /\ "service" \in Kinds
  BY <1>1 DEF DrawerFit, Kinds
<1> HIDE DEF d, role
<1>t. CASE desk.screen = "trash"
  <2>1. Buttons("drawer", TrashMenu, d.kind, d.first) \subseteq OfferedTo(role)
    <3>1. \A verb \in TrashMenu :
             verb \in Verbs /\ TrashButton(role, Button("drawer", verb, d.kind, d.first))
      BY <1>1, <1>t DEF DrawerFit, TrashMenu, Verbs, TrashButton, Button
    <3> QED
      BY <1>2, <3>1, OfferedGroup DEF Offered, Places
  <2>2. InDrawer = {} \/ InDrawer = Buttons("drawer", TrashMenu, d.kind, d.first)
    BY <1>t DEF InDrawer, d
  <2> QED
    BY <2>1, <2>2
<1>r. CASE desk.screen # "trash" /\ d.readOnly
  BY <1>r DEF InDrawer, d
<1>m. CASE desk.screen # "trash" /\ ~d.readOnly
  <2> DEFINE copy == Shown(d)
  <2>1. copy \in Row /\ copy.at = "live"
    BY <1>1, <1>2, <1>m DEF Shown, DrawerFit, Copies
  <2>2. /\ d.kind = "user" => role \in Admins
        /\ d.kind = "owner" => role = "ADMIN"
        /\ d.asset # Absent => d.asset \in Row /\ d.asset.at = "live"
    BY <1>1, <1>2, <1>m DEF DrawerFit, Copies
  <2> HIDE DEF copy
  <2>u. CASE d.kind = "user"
    <3>1. \A verb \in UserMenu : verb \in Verbs /\ UserButton(role, Button("drawer", verb, "user", copy))
      BY <2>2, <2>u DEF UserMenu, Verbs, UserButton, Button
    <3>2. Buttons("drawer", UserMenu, "user", copy) \subseteq OfferedTo(role)
      BY <1>2, <2>1, <2>u, <3>1, OfferedGroup DEF Offered, Places
    <3>3. d # NoDrawer => InDrawer = Buttons("drawer", UserMenu, "user", copy)
      BY <1>m, <2>u DEF InDrawer, d, copy
    <3> QED
      BY <3>2, <3>3
  <2>a. CASE d.kind = "asset"
    <3>1. \A verb \in AssetMenu(d.busy) : verb \in Verbs /\ AssetButton(role, Button("drawer", verb, "asset", copy))
      BY <2>1 DEF AssetMenu, Verbs, AssetButton, Button
    <3>2. \A verb \in NewServiceButton(role) :
             verb \in Verbs /\ ServiceButton(role, Button("drawer", verb, "service", copy))
      BY DEF NewServiceButton, Verbs, ServiceButton, Button
    <3>3. \A verb \in History :
             verb \in Verbs /\ (d.asset # Absent => ServiceButton(role, Button("history", verb, "service", d.asset)))
      BY <2>2 DEF History, Verbs, ServiceButton, Button
    <3>4. /\ Buttons("drawer", AssetMenu(d.busy), "asset", copy) \subseteq OfferedTo(role)
          /\ Buttons("drawer", NewServiceButton(role), "service", copy) \subseteq OfferedTo(role)
          /\ Buttons("history", History, "service", d.asset) \subseteq OfferedTo(role)
      BY <1>2, <2>1, <2>2, <3>1, <3>2, <3>3, OfferedGroup DEF Offered, Places
    <3>5. d # NoDrawer => InDrawer = Buttons("drawer", AssetMenu(d.busy), "asset", copy)
                          \union Buttons("drawer", NewServiceButton(role), "service", copy)
                          \union Buttons("history", History, "service", d.asset)
      BY <1>m, <2>a DEF InDrawer, d, copy, role
    <3> QED
      BY <3>4, <3>5
  <2>o. CASE d.kind = "owner"
    <3>1. \A verb \in OwnerMenu : verb \in Verbs /\ OwnerButton(role, Button("drawer", verb, "owner", copy))
      BY <2>1, <2>2, <2>o DEF OwnerMenu, Verbs, OwnerButton, Button
    <3>2. Buttons("drawer", OwnerMenu, "owner", copy) \subseteq OfferedTo(role)
      BY <1>2, <2>1, <2>o, <3>1, OfferedGroup DEF Offered, Places
    <3>3. d # NoDrawer => InDrawer = Buttons("drawer", OwnerMenu, "owner", copy)
      BY <1>m, <2>o DEF InDrawer, d, copy
    <3> QED
      BY <3>2, <3>3
  <2>s. CASE d.kind = "service"
    <3>1. \A verb \in ServiceMenu(role) : verb \in Verbs /\ ServiceButton(role, Button("drawer", verb, "service", copy))
      BY <2>1 DEF ServiceMenu, Verbs, ServiceButton, Button
    <3>2. Buttons("drawer", ServiceMenu(role), "service", copy) \subseteq OfferedTo(role)
      BY <1>2, <2>1, <3>1, OfferedGroup DEF Offered, Places
    <3>3. d # NoDrawer => InDrawer = Buttons("drawer", ServiceMenu(role), "service", copy)
      BY <1>m, <2>s DEF InDrawer, d, copy, role
    <3> QED
      BY <3>2, <3>3
  <2> QED
    BY <1>2, <2>u, <2>a, <2>o, <2>s DEF Kinds
<1> QED
  BY <1>t, <1>r, <1>m

LEMMA PageOffers ==
  ASSUME DeskFit(desk), RowsFit(records) PROVE OnPage \subseteq OfferedTo(desk.role)
<1> DEFINE role == desk.role
           Copy(k) == IF k # "service" THEN RestoredRow
                      ELSE IF Listed(records, "asset") THEN records.asset ELSE Absent
<1>1. role \in Roles /\ desk.screen \in Screens(role) /\ records.asset \in Row /\ RestoredRow \in Row
  BY RowsApart DEF DeskFit, RestoredRow, Row
<1>2. \A k \in AddButton(role) : k \in Kinds /\ Offered(role, Button("page", "create", k, Copy(k)))
  <2>1. desk.screen \in {"users", "owners"} => role \in Admins
    BY <1>1 DEF Screens
  <2> HIDE DEF role
  <2> QED
    BY <2>1 DEF AddButton, Offered, UserButton, AssetButton, OwnerButton, ServiceButton, Button, Kinds,
                Admins, Staff
<1>3. \A k : Copy(k) # Absent => Copy(k) \in Row
  BY <1>1
<1> HIDE DEF Copy
<1>4. \A k \in AddButton(role) : Buttons("page", {"create"}, k, Copy(k)) \subseteq OfferedTo(role)
  BY <1>2, <1>3, OfferedGroup DEF Verbs, Places
<1>5. OnPage = UNION {Buttons("page", {"create"}, k, Copy(k)) : k \in AddButton(role)}
  BY DEF OnPage, Copy
<1> QED
  BY <1>4, <1>5

-----------------------------------------------------------------------------
(* A page on which one thing changes is still fit.                         *)

LEMMA OtherTable ==
  ASSUME NEW d, DeskFit(d), NEW t \in [Kinds -> Copies],
         \A k \in Kinds : t[k] # Absent => ListFit(d.screen, d.role, k, t[k])
  PROVE  DeskFit([d EXCEPT !.table = t]) /\ [d EXCEPT !.table = t].role = d.role
  BY DEF DeskFit

LEMMA OtherDrawer ==
  ASSUME NEW d, DeskFit(d), NEW x, x # NoDrawer => DrawerFit(d.screen, d.role, x)
  PROVE  DeskFit([d EXCEPT !.drawer = x]) /\ [d EXCEPT !.drawer = x].role = d.role
  BY DEF DeskFit

LEMMA OtherDialog ==
  ASSUME NEW d, DeskFit(d), NEW x \in Questions(d.role)
  PROVE  DeskFit([d EXCEPT !.dialog = x]) /\ [d EXCEPT !.dialog = x].role = d.role
  BY DEF DeskFit

LEMMA OtherScope ==
  ASSUME NEW d, DeskFit(d), NEW x \in Scopings(d.role)
  PROVE  DeskFit([d EXCEPT !.scope = x]) /\ [d EXCEPT !.scope = x].role = d.role
  BY DEF DeskFit

LEMMA OtherPreviews ==
  ASSUME NEW d, DeskFit(d), NEW x, x \subseteq {b \in OfferedTo(d.role) : Asks(b)}
  PROVE  DeskFit([d EXCEPT !.previews = x]) /\ [d EXCEPT !.previews = x].role = d.role
  BY DEF DeskFit

LEMMA OtherCalls ==
  ASSUME NEW d, DeskFit(d), NEW x \in Seq(Sendings(d.role))
  PROVE  DeskFit([d EXCEPT !.calls = x]) /\ [d EXCEPT !.calls = x].role = d.role
  BY DEF DeskFit

LEMMA Answerless ==
  ASSUME RowsFit(records'), DeskFit(desk'), verdict' = NoVerdict PROVE OffersInv'
  BY DEF OffersInv, ClickDoesWhatItSays

LEMMA DeskStep ==
  ASSUME OffersInv, NEW d, DeskFit(d), Desk(d) PROVE OffersInv'
<1>1. RowsFit(records') /\ DeskFit(desk') /\ verdict' = NoVerdict
  BY DEF OffersInv, Desk
<1> QED
  BY <1>1, Answerless

LEMMA NoCopy ==
  ASSUME NEW x \in Row PROVE x # Absent
  BY DEF Row, Absent

LEMMA RefreshStep ==
  ASSUME OffersInv, Refresh PROVE OffersInv'
<1> DEFINE role == desk.role
           screen == desk.screen
           shown == CASE screen = "users"         -> ListUsers(role)
                      [] screen \in {"assets", "asset"} -> ListAssets
                      [] screen = "service"       -> ListServices(role)
                      [] screen = "owners"        -> ListOwners(role)
                      [] screen = "trash"         -> ListTrash(role)
                      [] screen = "organizations" -> {"organization"}
<1>1. RowsFit(records) /\ DeskFit(desk)
  BY DEF OffersInv
<1>2. role \in Roles /\ screen \in Screen /\ screen \in Screens(role) /\ records \in [Kinds -> Row]
  BY <1>1 DEF DeskFit, RowsFit
<1>3. Listing = [k \in Kinds |-> IF k \in shown THEN records[k] ELSE Absent]
  BY DEF Listing, Only
<1>4. \A k \in Kinds : k \in shown => ListFit(screen, role, k, records[k])
  <2> TAKE k \in Kinds
  <2> HAVE k \in shown
  <2>1. records[k] \in Row
    BY <1>2
  <2> HIDE DEF role, screen
  <2>2. CASE screen = "users"
    BY <2>1, <2>2 DEF ListUsers, ListFit
  <2>3. CASE screen \in {"assets", "asset"}
    BY <2>1, <2>3 DEF ListAssets, ListFit, Listed
  <2>4. CASE screen = "service"
    BY <2>1, <2>4 DEF ListServices, ListFit, Listed
  <2>5. CASE screen = "owners"
    BY <1>2, <2>1, <2>5 DEF ListOwners, ListFit, Listed, Screens, Admins
  <2>6. CASE screen = "trash"
    BY <2>1, <2>6 DEF ListTrash, ListFit, Trash
  <2>7. CASE screen = "organizations"
    BY <1>2, <2>1, <2>7 DEF ListFit, Screens
  <2> QED
    BY <1>2, <2>2, <2>3, <2>4, <2>5, <2>6, <2>7 DEF Screen
<1> HIDE DEF shown
<1>5. /\ Listing \in [Kinds -> Copies]
      /\ \A k \in Kinds : Listing[k] # Absent => ListFit(screen, role, k, Listing[k])
  BY <1>2, <1>3, <1>4 DEF Copies
<1>6. DeskFit([desk EXCEPT !.table = Listing])
  BY <1>1, <1>5, OtherTable
<1> QED
  BY <1>6, DeskStep DEF Refresh

LEMMA OpenDrawerStep ==
  ASSUME OffersInv, NEW k \in Kinds, OpenDrawer(k) PROVE OffersInv'
<1> DEFINE copy == desk.table[k]
           ro == desk.screen = "trash" \/ copy.at = "trash"
           x == Drawer(k, copy, ro)
<1>1. DeskFit(desk)
  BY DEF OffersInv
<1>2. ListFit(desk.screen, desk.role, k, copy) /\ k # "organization" /\ copy.at # "purged"
      /\ desk.screen \in Screen
  BY <1>1 DEF DeskFit, OpenDrawer
<1>3. copy \in Row
  BY <1>2 DEF ListFit
<1>4. x \in [kind : Kinds \ {"organization"}, first : Row, detail : Copies, asset : Copies,
             readOnly : BOOLEAN, busy : BOOLEAN]
  <2>1. ro \in BOOLEAN
    OBVIOUS
  <2> HIDE DEF ro, copy
  <2> QED
    BY <1>2, <1>3, <2>1 DEF Drawer, Copies
<1>5. x.kind = k /\ x.first = copy /\ x.detail = Absent /\ x.asset = Absent /\ (x.readOnly <=> ro)
  BY DEF Drawer
<1>6. copy.at \in {"live", "trash"}
  BY <1>2, <1>3 DEF Row
<1>7. /\ desk.screen = "trash" => desk.role = "ADMIN" /\ copy.at = "trash"
      /\ desk.screen # "trash" => /\ k = "user" => desk.role \in Admins
                                  /\ k = "owner" => desk.role = "ADMIN"
  <2> HIDE DEF copy
  <2> QED
    BY <1>2 DEF ListFit, Screen
<1> HIDE DEF x
<1>8. DrawerFit(desk.screen, desk.role, x)
  BY <1>4, <1>5, <1>6, <1>7 DEF DrawerFit
<1>9. DeskFit([desk EXCEPT !.drawer = x])
  BY <1>1, <1>8, OtherDrawer
<1> QED
  BY <1>9, DeskStep DEF OpenDrawer, x

LEMMA FetchDetailStep ==
  ASSUME OffersInv, FetchDetail PROVE OffersInv'
<1> DEFINE d == desk.drawer
           row == records[d.kind]
           more == IF d.kind = "owner" /\ records.asset.active THEN records.asset
                   ELSE IF d.kind = "asset" /\ Listed(records, "service") THEN records.service
                   ELSE Absent
           x == [d EXCEPT !.detail = row, !.busy = FALSE, !.asset = more]
<1>1. DeskFit(desk) /\ RowsFit(records) /\ d # NoDrawer /\ Detail(d.kind)
  BY DEF OffersInv, FetchDetail
<1>2. DrawerFit(desk.screen, desk.role, d)
  BY <1>1 DEF DeskFit
<1>3. row \in Row /\ (desk.screen # "trash" => row.at = "live")
  BY <1>1, <1>2 DEF RowsFit, DrawerFit, Detail, Listed
<1>4. more \in Copies /\ (more # Absent => more.at = "live")
  <2>1. records.asset \in Row /\ records.service \in Row /\ (records.asset.active => records.asset.at = "live")
    BY <1>1, RowsApart DEF RowsFit
  <2> QED
    BY <2>1 DEF Copies, Listed
<1>5. desk' = [desk EXCEPT !.drawer = x]
  BY DEF FetchDetail, Desk
<1> HIDE DEF row, more, d
<1>6. DrawerFit(desk.screen, desk.role, x)
  BY <1>2, <1>3, <1>4 DEF DrawerFit, Copies
<1> HIDE DEF x
<1>7. DeskFit(desk')
  BY <1>1, <1>5, <1>6, OtherDrawer
<1>8. RowsFit(records') /\ verdict' = NoVerdict
  BY <1>1 DEF FetchDetail, Desk
<1> QED
  BY <1>7, <1>8, Answerless

LEMMA OpenAssetOfOwnerStep ==
  ASSUME OffersInv, OpenAssetOfOwner PROVE OffersInv'
<1> DEFINE a == desk.drawer.asset
           x == Drawer("asset", a, FALSE)
<1>1. DeskFit(desk) /\ desk.drawer # NoDrawer /\ desk.screen = "owners" /\ a # Absent
  BY DEF OffersInv, OpenAssetOfOwner
<1>2. a \in Row /\ a.at = "live"
  BY <1>1 DEF DeskFit, DrawerFit, Copies
<1> HIDE DEF a
<1>3. DrawerFit(desk.screen, desk.role, x)
  BY <1>1, <1>2 DEF DrawerFit, Drawer, Copies, Kinds
<1> HIDE DEF x
<1>4. DeskFit([desk EXCEPT !.drawer = x])
  BY <1>1, <1>3, OtherDrawer
<1> QED
  BY <1>4, DeskStep DEF OpenAssetOfOwner, x, a

LEMMA CloseDrawerStep ==
  ASSUME OffersInv, CloseDrawer PROVE OffersInv'
<1>1. DeskFit([desk EXCEPT !.drawer = NoDrawer])
  BY OtherDrawer DEF OffersInv
<1> QED
  BY <1>1, DeskStep DEF CloseDrawer

LEMMA CancelStep ==
  ASSUME OffersInv, Cancel PROVE OffersInv'
<1>1. DeskFit([desk EXCEPT !.scope = NoDialog]) /\ DeskFit([desk EXCEPT !.dialog = NoDialog])
  BY OtherScope, OtherDialog DEF OffersInv, Questions, Scopings
<1> QED
  BY <1>1, DeskStep DEF Cancel

LEMMA PreviewArrivesStep ==
  ASSUME OffersInv, NEW b \in desk.previews, PreviewArrives(b) PROVE OffersInv'
<1> DEFINE d == [desk EXCEPT !.previews = @ \ {b}]
           q == [verb |-> "restore", button |-> b]
<1>1. DeskFit(desk) /\ b \in OfferedTo(desk.role) /\ Asks(b)
  BY DEF OffersInv, DeskFit
<1>2. desk.previews \ {b} \subseteq {c \in OfferedTo(desk.role) : Asks(c)}
  BY <1>1 DEF DeskFit
<1>3. DeskFit(d) /\ d.role = desk.role
  BY <1>1, <1>2, OtherPreviews
<1> HIDE DEF d
<1>4. q \in Questions(d.role) /\ q \in Scopings(d.role)
  BY <1>1, <1>3 DEF Questions, Scopings, Asks, Direct, Verbs
<1> HIDE DEF q
<1>5. DeskFit([d EXCEPT !.scope = q]) /\ DeskFit([d EXCEPT !.dialog = q])
  BY <1>3, <1>4, OtherScope, OtherDialog
<1>6. Desk([d EXCEPT !.scope = q]) \/ Desk([d EXCEPT !.dialog = q])
  BY DEF PreviewArrives, d, q
<1> QED
  BY <1>5, <1>6, DeskStep

LEMMA AskPreviewStep ==
  ASSUME OffersInv, NEW b \in OfferedTo(desk.role), AskPreview(b) PROVE OffersInv'
<1>1. DeskFit(desk) /\ Asks(b)
  BY DEF OffersInv, AskPreview
<1>2. desk.previews \union {b} \subseteq {c \in OfferedTo(desk.role) : Asks(c)}
  BY <1>1 DEF DeskFit
<1>3. DeskFit([desk EXCEPT !.previews = @ \union {b}])
  BY <1>1, <1>2, OtherPreviews
<1> QED
  BY <1>3, DeskStep DEF AskPreview

LEMMA ClickAndAskStep ==
  ASSUME OffersInv, NEW b \in OfferedTo(desk.role), ClickAndAsk(b) PROVE OffersInv'
<1> DEFINE q == [verb |-> b.verb, button |-> b]
           d == [desk EXCEPT !.dialog = q]
           x == IF b.place = "drawer" /\ desk.screen # "trash" /\ b.kind # "asset"
                   /\ b.verb # "create" THEN NoDrawer ELSE desk.drawer
<1>1. DeskFit(desk) /\ ~Direct(b)
  BY DEF OffersInv, ClickAndAsk
<1>2. q \in Questions(desk.role)
  BY <1>1 DEF Questions, OfferedTo
<1> HIDE DEF q
<1>3. DeskFit(d) /\ d.role = desk.role
  BY <1>1, <1>2, OtherDialog
<1>4. d.screen = desk.screen
  BY <1>1 DEF DeskFit
<1>5. x # NoDrawer => DrawerFit(desk.screen, desk.role, x)
  BY <1>1 DEF DeskFit
<1>6. Desk([d EXCEPT !.drawer = x])
  BY DEF ClickAndAsk, q
<1> HIDE DEF d, x
<1>7. DeskFit([d EXCEPT !.drawer = x])
  BY <1>3, <1>4, <1>5, OtherDrawer
<1> QED
  BY <1>6, <1>7, DeskStep

-----------------------------------------------------------------------------
(* Calls.                                                                  *)

\* What a button asks for may be sent.
LEMMA MaySend ==
  ASSUME NEW role, NEW b \in OfferedTo(role), NEW n \in Nat, NEW flag \in BOOLEAN,
         b.verb = "toggle" /\ b.kind # "owner" => n = IF b.copy.active THEN 0 ELSE 1,
         b.verb \in {"edit", "photo"} => n \in 0 .. 1,
         NEW c, c = [Calling(b, n) EXCEPT !.scoped = flag] \/ (c = Calling(b, n) /\ flag = FALSE)
  PROVE  c \in Sendings(role)
<1>1. c = [verb |-> b.verb, kind |-> b.kind, arg |-> n, copy |-> b.copy, place |-> b.place, scoped |-> flag]
  BY DEF Calling
<1>2. Offered(role, c) /\ Asked(c)
  <2>1. /\ c.verb = b.verb /\ c.kind = b.kind /\ c.arg = n /\ c.copy = b.copy
        /\ Offered(role, b)
    BY <1>1 DEF OfferedTo
  <2>2. Offered(role, c)
    BY <2>1 DEF Offered, UserButton, AssetButton, OwnerButton, ServiceButton, TenantButton, TrashButton
  <2> QED
    BY <2>1, <2>2 DEF Asked
<1> QED
  BY <1>1, <1>2 DEF Sendings, OfferedTo

LEMMA SendStep ==
  ASSUME OffersInv, NEW d, DeskFit(d), NEW c \in Sendings(d.role), Send(d, c) PROVE OffersInv'
<1>1. Append(d.calls, c) \in Seq(Sendings(d.role))
  BY DEF DeskFit
<1>2. desk' = [d EXCEPT !.calls = Append(d.calls, c)] /\ records' = records /\ verdict' = NoVerdict
  BY DEF Send
<1>3. DeskFit(desk') /\ RowsFit(records')
  BY <1>1, <1>2, OtherCalls DEF OffersInv
<1> QED
  BY <1>2, <1>3, Answerless

LEMMA ClickNowStep ==
  ASSUME OffersInv, NEW b \in OfferedTo(desk.role), ClickNow(b) PROVE OffersInv'
<1> DEFINE n == IF b.copy.active THEN 0 ELSE 1
           c == Calling(b, n)
           x == IF b.place = "drawer" /\ b.kind = "user" THEN NoDrawer
                ELSE IF b.place = "drawer" /\ b.kind = "asset" THEN [desk.drawer EXCEPT !.busy = TRUE]
                ELSE desk.drawer
           d == [desk EXCEPT !.drawer = x]
<1>1. DeskFit(desk) /\ Direct(b)
  BY DEF OffersInv, ClickNow
<1>2. c \in Sendings(desk.role)
  <2>1. n \in Nat /\ b.verb \notin {"edit", "photo"}
    BY <1>1 DEF Direct
  <2> HIDE DEF n
  <2>2. b.verb = "toggle" /\ b.kind # "owner" => n = IF b.copy.active THEN 0 ELSE 1
    BY DEF n
  <2> QED
    BY <2>1, <2>2, MaySend
<1>3. x # NoDrawer => DrawerFit(desk.screen, desk.role, x)
  <2>1. CASE desk.drawer = NoDrawer
    <3>1. [desk.drawer EXCEPT !.busy = TRUE] = NoDrawer
      BY <2>1 DEF NoDrawer
    <3> QED
      BY <2>1, <3>1
  <2>2. CASE desk.drawer # NoDrawer
    <3>1. DrawerFit(desk.screen, desk.role, desk.drawer)
      BY <1>1, <2>2 DEF DeskFit
    <3>2. DrawerFit(desk.screen, desk.role, [desk.drawer EXCEPT !.busy = TRUE])
      BY <3>1 DEF DrawerFit
    <3> QED
      BY <3>1, <3>2
  <2> QED
    BY <2>1, <2>2
<1>4. Send(d, c)
  BY DEF ClickNow
<1> HIDE DEF x, c
<1>5. DeskFit(d) /\ d.role = desk.role
  BY <1>1, <1>3, OtherDrawer
<1> QED
  BY <1>2, <1>4, <1>5, SendStep

LEMMA ConfirmStep ==
  ASSUME OffersInv, NEW n \in 0 .. 2, Confirm(n) PROVE OffersInv'
<1> DEFINE b == desk.dialog.button
           d == [desk EXCEPT !.dialog = NoDialog]
<1>1. DeskFit(desk) /\ desk.dialog # NoDialog /\ n \in Reach(b)
  BY DEF OffersInv, Confirm
<1>2. b \in OfferedTo(desk.role) /\ ~Direct(b)
  BY <1>1 DEF DeskFit, Questions
<1>3. Calling(b, n) \in Sendings(desk.role)
  <2>1. /\ ~(b.verb = "toggle" /\ b.kind # "owner")
        /\ b.verb \in {"edit", "photo"} => n \in 0 .. 1
    BY <1>1, <1>2 DEF Direct, Reach
  <2> HIDE DEF b
  <2>2. n \in Nat
    OBVIOUS
  <2> QED
    BY <1>2, <2>1, <2>2, MaySend
<1>4. DeskFit(d) /\ d.role = desk.role
  BY <1>1, OtherDialog DEF Questions
<1>5. Desk(d) \/ Send(desk, Calling(b, n)) \/ Send(d, Calling(b, n))
  BY DEF Confirm
<1> HIDE DEF b, d
<1> QED
  BY <1>1, <1>3, <1>4, <1>5, DeskStep, SendStep

LEMMA ConfirmScopeStep ==
  ASSUME OffersInv, NEW n \in 0 .. 2, ConfirmScope(n) PROVE OffersInv'
<1> DEFINE b == desk.scope.button
           d == [desk EXCEPT !.scope = NoDialog]
           c == [Calling(b, n) EXCEPT !.scoped = TRUE]
<1>1. DeskFit(desk) /\ desk.scope # NoDialog
  BY DEF OffersInv, ConfirmScope
<1>2. b \in OfferedTo(desk.role) /\ b.verb = "restore"
  BY <1>1 DEF DeskFit, Scopings, Asks
<1>3. DeskFit(d) /\ d.role = desk.role
  BY <1>1, OtherScope DEF Scopings
<1>4. Send(d, c)
  BY DEF ConfirmScope
<1>5. c \in Sendings(desk.role)
  <2> HIDE DEF b
  <2>1. n \in Nat
    OBVIOUS
  <2> QED
    BY <1>2, <2>1, MaySend
<1> HIDE DEF b, d, c
<1> QED
  BY <1>3, <1>4, <1>5, SendStep

LEMMA SentHandled ==
  ASSUME NEW role, NEW c \in Sendings(role)
  PROVE  c.kind \in Kinds /\ <<c.verb, c.kind>> \in Handled
<1>1. c.kind \in Kinds /\ Offered(role, c)
  BY DEF Sendings
<1> QED
  BY <1>1 DEF Offered, UserButton, AssetButton, OwnerButton, ServiceButton, TenantButton, TrashButton, Handled

LEMMA OneCallLess ==
  ASSUME NEW S, NEW q \in Seq(S), NEW i \in DOMAIN q PROVE RemoveAt(q, i) \in Seq(S)
<1>1. Len(q) \in Nat /\ DOMAIN q = 1 .. Len(q) /\ i \in 1 .. Len(q)
  OBVIOUS
<1>2. SubSeq(q, 1, i - 1) \in Seq(S) /\ SubSeq(q, i + 1, Len(q)) \in Seq(S)
  BY <1>1
<1> QED
  BY <1>2, ConcatProperties DEF RemoveAt

\* What an answer takes down leaves the page fit.
LEMMA BehindFit ==
  ASSUME DeskFit(desk), NEW c, NEW done \in BOOLEAN
  PROVE  DeskFit(Behind(c, done)) /\ Behind(c, done).role = desk.role /\ Behind(c, done).calls = desk.calls
<1> DEFINE q == IF Ends(c, done) /\ ~c.scoped /\ (desk.screen = "trash" \/ desk.dialog.verb = c.verb)
                THEN NoDialog ELSE desk.dialog
           p == IF c.scoped THEN NoDialog ELSE desk.scope
           x == IF /\ desk.drawer # NoDrawer /\ desk.drawer.kind = c.kind /\ done
                   /\ desk.screen = "trash" \/ (c.verb = "delete" /\ c.kind = "asset") THEN NoDrawer
                ELSE IF desk.drawer # NoDrawer /\ c.verb = "toggle" /\ ~done
                THEN [desk.drawer EXCEPT !.busy = FALSE] ELSE desk.drawer
           d1 == [desk EXCEPT !.dialog = q]
           d2 == [d1 EXCEPT !.scope = p]
<1>1. q \in Questions(desk.role) /\ p \in Scopings(desk.role)
  BY DEF DeskFit, Questions, Scopings
<1>2. x # NoDrawer => DrawerFit(desk.screen, desk.role, x)
  <2>1. desk.drawer # NoDrawer => DrawerFit(desk.screen, desk.role, desk.drawer)
    BY DEF DeskFit
  <2>2. desk.drawer # NoDrawer => DrawerFit(desk.screen, desk.role, [desk.drawer EXCEPT !.busy = FALSE])
    BY <2>1 DEF DrawerFit
  <2> QED
    BY <2>1, <2>2
<1>3. Behind(c, done) = [d2 EXCEPT !.drawer = x]
  BY DEF Behind
<1> HIDE DEF q, p, x
<1>4. DeskFit(d1) /\ d1.role = desk.role /\ d1.screen = desk.screen /\ d1.calls = desk.calls
  BY <1>1, OtherDialog DEF DeskFit
<1> HIDE DEF d1
<1>5. DeskFit(d2) /\ d2.role = desk.role /\ d2.screen = desk.screen /\ d2.calls = desk.calls
  <2>1. DeskFit(d2) /\ d2.role = desk.role
    BY <1>1, <1>4, OtherScope
  <2>2. d2.screen = d1.screen /\ d2.calls = d1.calls
    BY <1>4 DEF DeskFit
  <2> QED
    BY <1>4, <2>1, <2>2
<1> HIDE DEF d2
<1>6. DeskFit([d2 EXCEPT !.drawer = x]) /\ [d2 EXCEPT !.drawer = x].role = desk.role
  BY <1>2, <1>5, OtherDrawer
<1>7. [d2 EXCEPT !.drawer = x].calls = d2.calls
  BY <1>5 DEF DeskFit
<1> QED
  BY <1>3, <1>5, <1>6, <1>7

LEMMA ApiAnswersStep ==
  ASSUME OffersInv, NEW i \in DOMAIN desk.calls, ApiAnswers(i) PROVE OffersInv'
<1> DEFINE c == desk.calls[i]
           role == desk.role
           a == Handle(role, records, c)
           d == Behind(c, a.done)
<1>1. DeskFit(desk) /\ RowsFit(records) /\ role \in Roles /\ desk.calls \in Seq(Sendings(role))
  BY DEF OffersInv, DeskFit
<1>2. c \in Sendings(role)
  BY <1>1
<1>3. records' = a.rows /\ desk' = [d EXCEPT !.calls = RemoveAt(@, i)] /\ Records(verdict', role, records, c)
  BY DEF ApiAnswers, Records
<1>4. RowsFit(records')
  BY <1>1, <1>2, <1>3, SentHandled, RowsStayFit
<1>5. RemoveAt(desk.calls, i) \in Seq(Sendings(role))
  BY <1>1, OneCallLess
<1>6. Honest(verdict', role)
  BY <1>1, <1>2, <1>3, AnswersAreHonest
<1>7. \E done \in BOOLEAN : d = Behind(c, done)
  <2> SUFFICES a.done \in BOOLEAN
    OBVIOUS
  <2> HIDE DEF c
  <2>1. c.kind \in Kinds /\ <<c.verb, c.kind>> \in Handled
    BY <1>2, SentHandled
  <2> QED
    BY <2>1, DoneOrNot
<1> HIDE DEF d, a, c, role
<1>8. DeskFit(d) /\ d.role = role /\ d.calls = desk.calls
  BY <1>1, <1>7, BehindFit DEF role
<1>9. DeskFit(desk') /\ desk'.role = role
  BY <1>3, <1>5, <1>8, OtherCalls
<1> QED
  BY <1>4, <1>6, <1>9 DEF OffersInv, ClickDoesWhatItSays, Honest

LEMMA OthersActStep ==
  ASSUME OffersInv, NEW verb \in {"toggle", "delete", "restore", "purge"}, NEW k \in Kinds, NEW arg,
         HasHandler(verb, k), OthersAct(verb, k, arg)
  PROVE  OffersInv'
<1> DEFINE c == [verb |-> verb, kind |-> k, arg |-> arg]
<1>1. c.kind \in Kinds /\ <<c.verb, c.kind>> \in Handled
  BY DEF HasHandler, Handled, Kinds
<1>2. RowsFit(records) /\ DeskFit(desk)
  BY DEF OffersInv
<1>3. /\ \E role : records' = Handle(role, records, c).rows
      /\ desk' = desk /\ verdict' = NoVerdict
  BY DEF OthersAct
<1> HIDE DEF c
<1>4. RowsFit(records')
  BY <1>1, <1>2, <1>3, RowsStayFit
<1> QED
  BY <1>2, <1>3, <1>4, Answerless

LEMMA OffersInitial == OffersInit => OffersInv
<1> SUFFICES ASSUME OffersInit PROVE OffersInv
  OBVIOUS
<1>1. RowsFit(records)
  <2>1. /\ records \in [Kinds -> [at : {"live", "trash"}, active : BOOLEAN, stamp : 0 .. 2]]
        /\ records.asset.at = "trash" => ~records.asset.active
    BY DEF OffersInit, StartRows, Kinds
  <2>2. \A x \in [at : {"live", "trash"}, active : BOOLEAN, stamp : 0 .. 2] :
           x \in Row /\ x.at \in {"live", "trash"}
    BY DEF Row
  <2>3. records \in [Kinds -> Row] /\ records.asset.at \in {"live", "trash"}
    BY <2>1, <2>2 DEF Kinds
  <2> QED
    BY <2>1, <2>3 DEF RowsFit
<1>2. PICK role \in Roles, self \in BOOLEAN, s \in Screen :
        /\ s \in Screens(role)
        /\ desk = [screen |-> s, role |-> role, self |-> self, table |-> [k \in Kinds |-> Absent],
                   drawer |-> NoDrawer, dialog |-> NoDialog, scope |-> NoDialog, previews |-> {}, calls |-> <<>>]
  BY DEF OffersInit
<1>3. DeskFit(desk)
  BY <1>2 DEF DeskFit, Copies, Questions, Scopings
<1> QED
  BY <1>1, <1>3 DEF OffersInv, OffersInit, ClickDoesWhatItSays

LEMMA OffersInductive == OffersInv /\ [OffersNext]_offers => OffersInv'
<1> SUFFICES ASSUME OffersInv, [OffersNext]_offers PROVE OffersInv'
  OBVIOUS
<1>0. InTable \union InDrawer \union OnPage \subseteq OfferedTo(desk.role)
  BY TableOffers, DrawerOffers, PageOffers DEF OffersInv
<1>1. CASE Refresh \/ FetchDetail \/ OpenAssetOfOwner \/ CloseDrawer \/ Cancel
  BY <1>1, RefreshStep, FetchDetailStep, OpenAssetOfOwnerStep, CloseDrawerStep, CancelStep
<1>2. ASSUME NEW k \in Kinds, OpenDrawer(k) PROVE OffersInv'
  BY <1>2, OpenDrawerStep
<1>3. ASSUME NEW b \in InTable \union InDrawer \union OnPage, ClickNow(b) \/ ClickAndAsk(b) \/ AskPreview(b)
      PROVE  OffersInv'
  BY <1>0, <1>3, ClickNowStep, ClickAndAskStep, AskPreviewStep
<1>4. ASSUME NEW b \in desk.previews, PreviewArrives(b) PROVE OffersInv'
  BY <1>4, PreviewArrivesStep
<1>5. ASSUME NEW n \in 0 .. 2, Confirm(n) \/ ConfirmScope(n) PROVE OffersInv'
  BY <1>5, ConfirmStep, ConfirmScopeStep
<1>6. ASSUME NEW i \in DOMAIN desk.calls, ApiAnswers(i) PROVE OffersInv'
  BY <1>6, ApiAnswersStep
<1>7. ASSUME NEW verb \in {"toggle", "delete", "restore", "purge"}, NEW k \in Kinds, NEW arg \in 0 .. 2,
             HasHandler(verb, k), OthersAct(verb, k, arg)
      PROVE  OffersInv'
  BY <1>7, OthersActStep
<1>8. CASE UNCHANGED offers
  BY <1>8 DEF OffersInv, offers, ClickDoesWhatItSays
<1> QED
  BY <1>1, <1>2, <1>3, <1>4, <1>5, <1>6, <1>7, <1>8 DEF OffersNext

\* A button does what it says, for any number of clicks of an account and of others in any
\* order, and whatever rows those touch: an answer is what the label said, a refusal that the
\* age of the copy explains, or one of the cases that the property names.
THEOREM ButtonsDoWhatTheySay == OffersSpec => []ClickDoesWhatItSays
<1>1. OffersInv => ClickDoesWhatItSays
  BY DEF OffersInv
<1> QED
  BY <1>1, OffersInitial, OffersInductive, PTL DEF OffersSpec
=============================================================================
