------------------------------- MODULE Mailer -------------------------------
(***************************************************************************)
(* The mails of the program: what a handler writes, whom it mails about it  *)
(* and when, the switches of the operator and the preferences of people,    *)
(* and a provider that refuses or says so in an answer nobody reads.        *)
(*                                                                          *)
(* A handler h is at its next await, orders[h].at.  Mails nobody awaits are *)
(* in the outbox side by side and arrive in any order.                      *)
(***************************************************************************)
EXTENDS Naturals, FiniteSets

CONSTANTS
  People, RoleOf,   \* admins with an account, and others who may be invited to one
  Handlers,         \* handlers and jobs under way at a time
  Commands,         \* what is called
  Switchable,       \* bound: the templates an operator switches
  MaxOrders,        \* bound: calls, jobs and changes of preferences
  MaxMishaps        \* bound: handlers that die, mails that are refused or lost

ASSUME MailerAssumption ==
  /\ {MaxOrders, MaxMishaps} \subseteq Nat
  /\ "nobody" \notin People \union Handlers

VARIABLES
  post,     \* what the configuration and the database know
  orders,   \* handlers under way
  outbox,   \* mails the provider has not answered for
  last,     \* history: what the last notice told a person about a subject
  inbox,    \* history: links and codes that were handed over
  vow,      \* history: links and codes a caller was told are on their way, and what befell them
  ordered, mishaps

letters == <<post, orders, outbox, last, inbox, vow, ordered, mishaps>>

NoOne    == "nobody"
Subjects  == {"user", "factor", "org", "plan"}
NoOrder   == [at |-> "idle", who |-> NoOne, about |-> "event", template |-> "none",
              says |-> "none", began |-> 0]

-----------------------------------------------------------------------------
(* The service that sends.                                                  *)

Templates ==
  {"password_reset", "email_verification", "two_factor_code", "invitation", "welcome",
   "service_completed_admin", "service_completed_external", "new_device_login", "password_changed",
   "two_factor_status_changed", "plan_change_approved", "plan_change_rejected",
   "subscription_status_changed", "demo_expiring_soon", "invitation_accepted", "user_status_changed",
   "service_edited", "video_processing_failed", "storage_near_limit"}

IsEnabled == post.key
\* A template without a row is on.
IsTemplateEnabled(t) == t \notin post.off

OnOff(b) == IF b THEN "on" ELSE "off"
\* A mail that its handler awaits carries a link or a code, or a welcome; the others tell
\* how a subject stands.
Letter(t, h, n) ==
  [template |-> t, to |-> orders[h].who, about |-> orders[h].about, says |-> "none", n |-> n,
   began |-> orders[h].began, by |-> h]
Tell(t, to, says, h) ==
  [template |-> t, to |-> to, about |-> orders[h].about, says |-> says, n |-> 0,
   began |-> orders[h].began, by |-> NoOne]
Notice(t, to, h) == Tell(t, to, orders[h].says, h)

SendPasswordReset(h, n) == Letter("password_reset", h, n)
SendTwoFactorCode(h, n) == Letter("two_factor_code", h, n)
SendInvitation(h, n) == Letter("invitation", h, n)
SendWelcome(h) == Letter("welcome", h, 0)
SendInvitationAccepted(h, to)      == Notice("invitation_accepted", to, h)
SendNewDeviceLogin(h, to)          == Notice("new_device_login", to, h)
SendPasswordChanged(h, to)         == Notice("password_changed", to, h)
SendTwoFactorStatusChanged(h, to)  == Notice("two_factor_status_changed", to, h)
SendUserStatusChanged(h, to, says) == Tell("user_status_changed", to, says, h)
SendPlanChangeApproved(h, to)      == Notice("plan_change_approved", to, h)
SendPlanChangeRejected(h, to)      == Notice("plan_change_rejected", to, h)
SendSubscriptionStatusChanged(h, to) == Notice("subscription_status_changed", to, h)
SendDemoExpiringSoon(h, to)        == Notice("demo_expiring_soon", to, h)
SendStorageNearLimit(h, to)        == Notice("storage_near_limit", to, h)
SendServiceCompletedAdmin(h, to)   == Notice("service_completed_admin", to, h)
SendServiceCompletedExternal(h, to) == Notice("service_completed_external", to, h)
SendServiceEdited(h, to)           == Notice("service_edited", to, h)
SendVideoProcessingFailed(h, to)   == Notice("video_processing_failed", to, h)

-----------------------------------------------------------------------------
MailerInit ==
  /\ post \in [key : BOOLEAN, url : BOOLEAN, off : {{}},
               active : {[p \in People |-> RoleOf[p] = "ADMIN"]},
               account : {{p \in People : RoleOf[p] = "ADMIN"}},
               mails : {[p \in People |-> TRUE]}, alerts : {[p \in People |-> TRUE]},
               factor : {[p \in People |-> FALSE]},
               running : {TRUE}, org : {TRUE}, over : BOOLEAN, plan : {"demo"}, pending : {NoOne},
               tokens : {{}}]
  /\ orders = [h \in Handlers |-> NoOrder] /\ outbox = {}
  /\ last = [p \in People |-> [s \in Subjects |-> "unsaid"]] /\ inbox = {}
  /\ vow = [told |-> {}, upset |-> {}, blurred |-> {},
             offSince |-> [p \in People |-> [mails |-> 0, alerts |-> 0]]]
  /\ ordered = 0 /\ mishaps = 0

Admins(q)    == {p \in q.account : RoleOf[p] = "ADMIN" /\ q.active[p] /\ q.mails[p]}
Externals(q) == {p \in q.account : RoleOf[p] = "EXTERNAL" /\ q.active[p] /\ q.mails[p]}

\* A subject is blurred for whoever may rightly have been told something else last.
Blur(v, ps, s) == [v EXCEPT !.blurred = @ \union (ps \X {s})]
Concerned(o) == IF o.about \in {"user", "factor"} THEN {o.who} ELSE People
UnderWayAlready(o) ==
  \/ \E h \in Handlers : orders[h].at # "idle" /\ orders[h].about = o.about
  \/ \E m \in outbox : m.about = o.about

Overlapped(v, o) ==
  IF o.about \in Subjects /\ UnderWayAlready(o) THEN Blur(v, Concerned(o), o.about) ELSE v

Ordered == ordered < MaxOrders /\ ordered' = ordered + 1
\* A handler begins; what it is about is blurred when it is not alone with that.
Begins(h, command, o) ==
  /\ command \in Commands /\ orders[h].at = "idle" /\ Ordered
  /\ orders' = [orders EXCEPT ![h] = [o EXCEPT !.began = ordered + 1]]
  /\ vow' = Overlapped(vow, o)
  /\ UNCHANGED <<last, inbox, mishaps>>
Waits(h, at) == orders[h].at = at
Moves(h, at) == orders' = [orders EXCEPT ![h].at = at]
Ends(h) == orders' = [orders EXCEPT ![h] = NoOrder]
Same == UNCHANGED <<last, inbox, ordered, mishaps>>

\* Mails leave side by side; whoever is not mailed about a change is not up to date on it.
Fire(h, ms) ==
  /\ outbox' = outbox \union ms
  /\ vow' = IF orders[h].about \in Subjects
            THEN Blur(vow, Concerned(orders[h]) \ {m.to : m \in ms}, orders[h].about) ELSE vow

-----------------------------------------------------------------------------
(* Links and codes: the old ones die, a new one is written, its mail is     *)
(* awaited.                                                                 *)

OrderOf(at, who, about, says, template) ==
  [at |-> at, who |-> who, about |-> about, template |-> template, says |-> says, began |-> 0]
Order(at, who, about) == OrderOf(at, who, about, "none", "none")

\* The answer is the same when there is nobody to mail, or no way.
AskReset(h, p) ==
  /\ IF post.key /\ post.url /\ post.active[p] THEN Begins(h, "reset", Order("kill", p, "reset"))
     ELSE /\ "reset" \in Commands /\ Waits(h, "idle") /\ Ordered
          /\ UNCHANGED <<orders, vow, last, inbox, mishaps>>
  /\ UNCHANGED <<post, outbox>>

AskCode(h, p) ==
  /\ post.active[p] /\ Begins(h, "code", Order("kill", p, "code"))
  /\ UNCHANGED <<post, outbox>>

\* One invitation at a time is good for an address.
AskInvite(h, p) ==
  /\ p \notin post.account /\ post.key /\ post.url /\ post.org
  /\ ~\E t \in post.tokens : t.kind = "invite" /\ t.to = p /\ t.live
  /\ Begins(h, "invite", Order("create", p, "invite"))
  /\ UNCHANGED <<post, outbox>>

KillOld(h) ==
  /\ Waits(h, "kill")
  /\ post' = [post EXCEPT !.tokens =
       {[t EXCEPT !.live = @ /\ (t.kind # orders[h].about \/ t.to # orders[h].who)] : t \in @}]
  /\ Moves(h, "create") /\ UNCHANGED <<outbox, vow>> /\ Same

CreateToken(h) ==
  LET o == orders[h]
      n == Cardinality(post.tokens) + 1
  IN /\ Waits(h, "create")
     /\ post' = [post EXCEPT !.tokens =
                    @ \union {[n |-> n, kind |-> o.about, to |-> o.who, live |-> TRUE]}]
     /\ outbox' = outbox \union {CASE o.about = "reset" -> SendPasswordReset(h, n)
                                   [] o.about = "code" -> SendTwoFactorCode(h, n)
                                   [] o.about = "invite" -> SendInvitation(h, n)}
     /\ Moves(h, "mailing") /\ UNCHANGED vow /\ Same

\* The owner of a mailbox follows the link or types the code: it is good once, and of codes
\* the newest is.
Newest(k, p) == {t \in post.tokens : t.kind = k /\ t.to = p /\ t.live /\
                   \A u \in post.tokens : u.kind = k /\ u.to = p /\ u.live => u.n <= t.n}
Asking(k, p, h) == \E g \in Handlers \ {h} : orders[g].about = k /\ orders[g].who = p
Spent(t) == [post EXCEPT !.tokens = (@ \ {t}) \union {[t EXCEPT !.live = FALSE]}]
Uses(h, t, o) ==
  /\ t.live /\ t.n \in inbox
  /\ orders[h].at = "idle" /\ Ordered
  /\ orders' = [orders EXCEPT ![h] = [o EXCEPT !.began = ordered + 1]]
  /\ vow' = LET v == [vow EXCEPT !.told = @ \ {<<t.kind, t.to>>},
                                  !.upset = @ \union {w \in {<<t.kind, t.to>>} : Asking(t.kind, t.to, h)}]
            IN Overlapped(v, o)
  /\ UNCHANGED <<last, inbox, mishaps, outbox>>

FollowReset(h, t) ==
  /\ t.kind = "reset" /\ Uses(h, t, Order("password", t.to, "event")) /\ post' = Spent(t)
TellPassword(h) ==
  /\ Waits(h, "password")
  /\ Fire(h, IF post.alerts[orders[h].who] THEN {SendPasswordChanged(h, orders[h].who)} ELSE {})
  /\ Ends(h) /\ UNCHANGED post /\ Same

TypeCode(h, t) ==
  /\ t.kind = "code" /\ t \in Newest("code", t.to) /\ ~post.factor[t.to]
  /\ Uses(h, t, OrderOf("factor", t.to, "factor", "on", "none")) /\ post' = Spent(t)
DropFactor(h, p) ==
  /\ post.factor[p] /\ Begins(h, "factor", OrderOf("factor", p, "factor", "off", "none"))
  /\ UNCHANGED <<post, outbox>>
WriteFactor(h) ==
  /\ Waits(h, "factor") /\ post' = [post EXCEPT !.factor[orders[h].who] = orders[h].says = "on"]
  /\ Moves(h, "tell") /\ UNCHANGED <<outbox, vow>> /\ Same
NotifyTwoFactorStatusChanged(h) ==
  LET p == orders[h].who
  IN /\ Waits(h, "tell")
     /\ Fire(h, IF post.alerts[p] THEN {SendTwoFactorStatusChanged(h, p)} ELSE {})
     /\ Ends(h) /\ UNCHANGED post /\ Same

FollowInvitation(h, t) ==
  /\ t.kind = "invite" /\ t.to \notin post.account /\ post.org
  /\ Uses(h, t, Order("welcome", t.to, "event"))
  /\ post' = [Spent(t) EXCEPT !.account = @ \union {t.to}, !.active[t.to] = TRUE]
Welcome(h) ==
  /\ Waits(h, "welcome") /\ Moves(h, "mailing")
  /\ outbox' = outbox \union {SendWelcome(h)} /\ UNCHANGED <<post, vow>> /\ Same
\* Whoever invited, if that admin wants mails.
TellInviter(h) ==
  /\ Waits(h, "inviter")
  /\ \E a \in {p \in People : RoleOf[p] = "ADMIN"} :
       Fire(h, IF post.mails[a] THEN {SendInvitationAccepted(h, a)} ELSE {})
  /\ Ends(h) /\ UNCHANGED post /\ Same

-----------------------------------------------------------------------------
(* Changes that are announced.                                              *)

ToggleUser(h, p) ==
  /\ p \in post.account
  /\ Begins(h, "user", OrderOf(IF post.alerts[p] THEN "flip" ELSE "flip-silently", p, "user",
                              OnOff(post.active[p]), "none"))
  /\ UNCHANGED <<post, outbox>>
\* Mutant: the mail says what was read.
WriteToggleAsRead(h) ==
  LET p == orders[h].who
  IN /\ orders[h].at \in {"flip", "flip-silently"}
     /\ post' = [post EXCEPT !.active[p] = orders[h].says = "off"]
     /\ Fire(h, IF Waits(h, "flip") THEN {SendUserStatusChanged(h, p, orders[h].says)} ELSE {})
     /\ Ends(h) /\ Same
WriteToggle(h) ==
  LET p == orders[h].who
  IN /\ orders[h].at \in {"flip", "flip-silently"}
     /\ post' = [post EXCEPT !.active[p] = orders[h].says = "off"]
     /\ Fire(h, IF Waits(h, "flip") THEN {SendUserStatusChanged(h, p, OnOff(post'.active[p]))} ELSE {})
     /\ Ends(h) /\ Same
\* Into the trash: no mail.
DropUser(p) ==
  /\ "user" \in Commands /\ p \in post.account /\ post.active[p] /\ Ordered
  /\ post' = [post EXCEPT !.active[p] = FALSE, !.account = @ \ {p}]
  /\ vow' = Blur(vow, {p}, "user") /\ UNCHANGED <<orders, outbox, last, inbox, mishaps>>

SwitchOrg(h, on) ==
  /\ Begins(h, "org", OrderOf("open", NoOne, "org", OnOff(on), "subscription_status_changed"))
  /\ post' = [post EXCEPT !.running = on] /\ UNCHANGED outbox
FindExpired(h) ==
  /\ post.over /\ post.running
  /\ Begins(h, "org", OrderOf("suspend", NoOne, "org", "off", "subscription_status_changed"))
  /\ UNCHANGED <<post, outbox>>
WriteSuspension(h) ==
  /\ Waits(h, "suspend") /\ post' = [post EXCEPT !.running = FALSE]
  /\ Moves(h, "open") /\ UNCHANGED <<outbox, vow>> /\ Same
WriteOpen(h) ==
  /\ Waits(h, "open") /\ post' = [post EXCEPT !.org = orders[h].says = "on"]
  /\ Moves(h, "admins") /\ UNCHANGED <<outbox, vow>> /\ Same

AskPlan(p) ==
  /\ "plan" \in Commands /\ RoleOf[p] = "ADMIN" /\ post.active[p] /\ Ordered
  /\ post' = [post EXCEPT !.pending = p] /\ UNCHANGED <<orders, outbox, last, inbox, vow, mishaps>>
\* What is rejected leaves the plan that was read.
DecidePlan(h, approved) ==
  /\ post.pending # NoOne
  /\ Begins(h, "plan", IF approved THEN OrderOf("requester", post.pending, "plan", "paid", "plan_change_approved")
                       ELSE OrderOf("requester", post.pending, "plan", post.plan, "plan_change_rejected"))
  /\ UNCHANGED <<post, outbox>>
\* The requester is told before the plan is changed.
TellRequester(h) ==
  LET p == orders[h].who
      yes == orders[h].template = "plan_change_approved"
  IN /\ Waits(h, "requester")
     /\ Fire(h, IF ~post.mails[p] THEN {}
                ELSE {IF yes THEN SendPlanChangeApproved(h, p) ELSE SendPlanChangeRejected(h, p)})
     /\ Moves(h, IF yes THEN "plan" ELSE "clear") /\ UNCHANGED post /\ Same
ClearPending(h) ==
  /\ Waits(h, "clear") /\ post' = [post EXCEPT !.pending = NoOne]
  /\ Ends(h) /\ UNCHANGED <<outbox, vow>> /\ Same
\* An operator who sets the plan himself mails nobody.
SetPlan(h) ==
  /\ Begins(h, "plan", OrderOf("plan", NoOne, "silent", "paid", "none"))
  /\ UNCHANGED <<post, outbox>>
WritePaid(h) ==
  /\ Waits(h, "plan")
  /\ post' = [post EXCEPT !.plan = "paid", !.running = TRUE, !.over = FALSE, !.pending = NoOne]
  /\ vow' = IF orders[h].about = "silent" THEN Blur(vow, People, "plan") ELSE vow
  /\ Moves(h, "reopen") /\ UNCHANGED outbox /\ Same
\* The organisation opens again, of which no mail tells.
Reopen(h) ==
  /\ Waits(h, "reopen") /\ post' = [post EXCEPT !.org = TRUE]
  /\ vow' = Blur(vow, People, "org") /\ Ends(h) /\ UNCHANGED outbox /\ Same

-----------------------------------------------------------------------------
(* Events that are announced.                                               *)

\* The account was read when the login began.
LogInElsewhere(h, p) ==
  /\ p \in post.account /\ post.active[p]
  /\ Begins(h, "login", OrderOf("session", p, "event", OnOff(post.alerts[p]), "none"))
  /\ UNCHANGED <<post, outbox>>
NotifyNewDeviceLogin(h) ==
  LET p == orders[h].who
  IN /\ Waits(h, "session")
     /\ Fire(h, IF orders[h].says = "on" THEN {SendNewDeviceLogin(h, p)} ELSE {})
     /\ Ends(h) /\ UNCHANGED post /\ Same

StreamFails(h, p) ==
  /\ p \in post.account /\ Begins(h, "video", Order("uploader", p, "event"))
  /\ UNCHANGED <<post, outbox>>
NotifyVideoProcessingFailed(h) ==
  LET p == orders[h].who
  IN /\ Waits(h, "uploader")
     /\ Fire(h, IF post.mails[p] THEN {SendVideoProcessingFailed(h, p)} ELSE {})
     /\ Ends(h) /\ UNCHANGED post /\ Same

\* Jobs and handlers that mail the admins: of an expiring demo, of a full store, of a
\* service that was published or edited.
WarnExpiringDemos(h) ==
  /\ post.plan = "demo" /\ post.running /\ ~post.over
  /\ Begins(h, "demo", OrderOf("admins", NoOne, "event", "none", "demo_expiring_soon"))
  /\ UNCHANGED <<post, outbox>>
NotifyStorageNearLimit(h) ==
  /\ Begins(h, "storage", OrderOf("admins", NoOne, "event", "none", "storage_near_limit"))
  /\ UNCHANGED <<post, outbox>>
NotifyServiceCompleted(h, p) ==
  /\ p \in post.account
  /\ Begins(h, "service", OrderOf("admins", p, "event", "none", "service_completed_admin"))
  /\ UNCHANGED <<post, outbox>>
NotifyServiceEdited(h, p) ==
  /\ p \in post.account
  /\ Begins(h, "service", OrderOf("admins", p, "event", "none", "service_edited"))
  /\ UNCHANGED <<post, outbox>>
ToAdmin(h, a) ==
  LET t == orders[h].template
  IN CASE t = "subscription_status_changed" -> SendSubscriptionStatusChanged(h, a)
       [] t = "demo_expiring_soon"          -> SendDemoExpiringSoon(h, a)
       [] t = "storage_near_limit"          -> SendStorageNearLimit(h, a)
       [] t = "service_completed_admin"     -> SendServiceCompletedAdmin(h, a)
       [] t = "service_edited"              -> SendServiceEdited(h, a)
\* The other admins are told of an edit.
Readers(h) ==
  Admins(post) \ IF orders[h].template = "service_edited" THEN {orders[h].who} ELSE {}
NotifyOrgAdmins(h) ==
  /\ Waits(h, "admins")
  /\ Fire(h, {ToAdmin(h, a) : a \in Readers(h)})
  /\ IF orders[h].template = "service_completed_admin" THEN Moves(h, "externals") ELSE Ends(h)
  /\ UNCHANGED post /\ Same
\* After the mails to the admins, however they ended.
NotifyExternals(h) ==
  /\ Waits(h, "externals")
  /\ ~\E m \in outbox : m.template = "service_completed_admin" /\ m.began = orders[h].began
  /\ Fire(h, {SendServiceCompletedExternal(h, x) : x \in Externals(post)})
  /\ Ends(h) /\ UNCHANGED post /\ Same

-----------------------------------------------------------------------------
(* Switches, and the provider.                                              *)

SetTemplateEnabled(t, on) ==
  /\ "switch" \in Commands /\ t \in Switchable /\ Ordered
  /\ post' = [post EXCEPT !.off = IF on THEN @ \ {t} ELSE @ \union {t}]
  /\ post' # post /\ UNCHANGED <<orders, outbox, last, inbox, vow, mishaps>>

UpdatePreferences(p, pref, on) ==
  /\ "preferences" \in Commands /\ p \in post.account /\ Ordered
  /\ post' = IF pref = "mails" THEN [post EXCEPT !.mails[p] = on] ELSE [post EXCEPT !.alerts[p] = on]
  /\ post' # post
  /\ vow' = IF on THEN vow ELSE [vow EXCEPT !.offSince[p][pref] = ordered + 1]
  /\ UNCHANGED <<orders, outbox, last, inbox, mishaps>>

Took(m) == outbox' = outbox \ {m}
\* Whoever awaits a mail goes on; a welcome that failed is only logged.
Resume(m) ==
  orders' = IF m.by = NoOne THEN orders
            ELSE IF m.template = "welcome" THEN [orders EXCEPT ![m.by].at = "inviter"]
            ELSE [orders EXCEPT ![m.by] = NoOrder]
Told(m)   == IF m.about \in {"reset", "code", "invite"} THEN {<<m.about, m.to>>} ELSE {}
\* A mail that never arrives leaves its reader with older news.
Missed(m) == IF m.about \in Subjects THEN Blur(vow, {m.to}, m.about) ELSE vow

Hand(m) ==
  /\ IsEnabled /\ IsTemplateEnabled(m.template)
  /\ Took(m) /\ Resume(m)
  /\ last' = IF m.about \in Subjects THEN [last EXCEPT ![m.to][m.about] = m.says] ELSE last
  /\ inbox' = IF Told(m) # {} THEN inbox \union {m.n} ELSE inbox
  /\ vow' = [vow EXCEPT !.told = @ \union Told(m)]
  /\ UNCHANGED <<post, ordered, mishaps>>
\* Without a key or with its template off, or with an error in an answer that nobody
\* reads: as if it had been sent.
Skip(m) ==
  /\ IF IsEnabled /\ IsTemplateEnabled(m.template) THEN mishaps < MaxMishaps /\ mishaps' = mishaps + 1
     ELSE UNCHANGED mishaps
  /\ Took(m) /\ Resume(m)
  /\ vow' = [Missed(m) EXCEPT !.told = @ \union Told(m), !.upset = @ \union Told(m)]
  /\ UNCHANGED <<post, last, inbox, ordered>>
\* The caller who awaits is told so: what was good before is not.
Refuse(m) ==
  /\ IsEnabled /\ IsTemplateEnabled(m.template) /\ mishaps < MaxMishaps /\ mishaps' = mishaps + 1
  /\ Took(m) /\ Resume(m)
  /\ vow' = [Missed(m) EXCEPT !.told = @ \ Told(m),
               !.upset = @ \union {w \in Told(m) : Asking(m.about, m.to, m.by)}]
  /\ UNCHANGED <<post, last, inbox, ordered>>

\* A handler dies with the mail it awaits; what it has written stays.
Die(h) ==
  LET o == orders[h]
  IN /\ o.at # "idle" /\ mishaps < MaxMishaps /\ mishaps' = mishaps + 1
     /\ Ends(h) /\ outbox' = {m \in outbox : m.by # h}
     /\ vow' = [(IF o.about \in Subjects THEN Blur(vow, Concerned(o), o.about)
                 ELSE IF o.about = "silent" THEN Blur(Blur(vow, People, "plan"), People, "org") ELSE vow)
                EXCEPT !.upset = @ \union {w \in {<<o.about, o.who>>} : o.about \in {"reset", "code", "invite"}}]
     /\ UNCHANGED <<post, last, inbox, ordered>>

MailerNext ==
  \/ \E h \in Handlers :
       \/ \E p \in People :
            \/ AskReset(h, p) \/ AskCode(h, p) \/ AskInvite(h, p)
            \/ DropFactor(h, p) \/ ToggleUser(h, p)
            \/ LogInElsewhere(h, p) \/ StreamFails(h, p)
            \/ NotifyServiceCompleted(h, p) \/ NotifyServiceEdited(h, p)
       \/ \E t \in post.tokens : FollowReset(h, t) \/ TypeCode(h, t) \/ FollowInvitation(h, t)
       \/ \E b \in BOOLEAN : SwitchOrg(h, b) \/ DecidePlan(h, b)
       \/ FindExpired(h) \/ SetPlan(h) \/ WarnExpiringDemos(h) \/ NotifyStorageNearLimit(h)
       \/ KillOld(h) \/ CreateToken(h) \/ TellPassword(h) \/ WriteFactor(h) \/ NotifyTwoFactorStatusChanged(h)
       \/ Welcome(h) \/ TellInviter(h) \/ WriteToggle(h) \/ WriteSuspension(h) \/ WriteOpen(h)
       \/ TellRequester(h) \/ ClearPending(h) \/ WritePaid(h) \/ Reopen(h) \/ NotifyNewDeviceLogin(h)
       \/ NotifyVideoProcessingFailed(h) \/ NotifyOrgAdmins(h) \/ NotifyExternals(h) \/ Die(h)
  \/ \E p \in People : DropUser(p) \/ AskPlan(p)
  \/ \E p \in People, pref \in {"mails", "alerts"}, on \in BOOLEAN : UpdatePreferences(p, pref, on)
  \/ \E t \in Switchable, on \in BOOLEAN : SetTemplateEnabled(t, on)
  \/ \E m \in outbox : Hand(m) \/ Skip(m) \/ Refuse(m)

MailerSpec == MailerInit /\ [][MailerNext]_letters

-----------------------------------------------------------------------------
(* Properties.                                                              *)

Delivered == outbox = {} /\ \A h \in Handlers : orders[h].at = "idle"

\* Somebody who was told that a link or a code was mailed, last, has one that works,
\* until it is used: however calls overlap, save where a mail was skipped or fell away unnoticed, a
\* handler died, or one call failed, or its code was used, beside another.
BoxHasLiveOne ==
  Delivered => \A w \in vow.told \ vow.upset :
                 Newest(w[1], w[2]) # {} /\ \A t \in Newest(w[1], w[2]) : t.n \in inbox

Now(p, s) == CASE s = "user" -> OnOff(post.active[p]) [] s = "factor" -> OnOff(post.factor[p])
               [] s = "org" -> OnOff(post.org) [] s = "plan" -> post.plan
\* The last mail about something tells how it stands, unless two changes or their mails
\* overlapped, a mail fell away, or the thing was changed by a handler that mails nobody.
LastNoticeIsTrue ==
  Delivered => \A p \in People, s \in Subjects :
                 last[p][s] = "unsaid" \/ <<p, s>> \in vow.blurred \/ last[p][s] = Now(p, s)

ByAlerts == {"new_device_login", "password_changed", "two_factor_status_changed",
             "user_status_changed"}
Critical == {"password_reset", "two_factor_code", "invitation", "welcome"}
\* Whoever has switched a kind of mails off before a handler began is not mailed by it;
\* those that belong to his own calls are sent to everybody (schema, User).
NobodyUnasked ==
  \A m \in outbox :
    \/ m.template \in Critical
    \/ LET pref == IF m.template \in ByAlerts THEN "alerts" ELSE "mails"
       IN \/ IF pref = "alerts" THEN post.alerts[m.to] ELSE post.mails[m.to]
          \/ vow.offSince[m.to][pref] >= m.began

\* Mails add up: links in a mailbox work, the last news are true, nobody is mailed unasked.
MailsAddUp == BoxHasLiveOne /\ LastNoticeIsTrue /\ NobodyUnasked
=============================================================================
