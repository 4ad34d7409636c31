------------------------------- MODULE Tenants --------------------------------
(***************************************************************************)
(* One organisation, its subscription, its assets, the invitations it sends *)
(* and the accounts that come of them (subscriptions, organizations,        *)
(* invitations, and register of auth).  Accounts of other organisations     *)
(* matter because an e-mail address is unique on the whole platform.        *)
(*                                                                          *)
(* A request is a process r whose req[r].at names its next await.  Rejected *)
(* calls change nothing; a check that rejects ends the request.             *)
(***************************************************************************)
EXTENDS Naturals, FiniteSets

CONSTANTS Requests,     \* concurrent handlers, the nightly job among them
          Emails,       \* addresses that are invited
          Invitations,  \* rows of Invitation that may come to exist
          None,         \* no address, no invitation
          Limit,        \* PLAN_LIMITS: how many assets, and how many users
          Endpoints,    \* what is called
          MaxCalls,     \* bound: calls and clock events in a behaviour
          MaxFaults     \* bound: requests that die half way

Plans == {"DEMO", "PAID"}
\* A demo has room for an asset.
ASSUME LimitAssumption == Limit \in [Plans -> Nat] /\ Limit["DEMO"] > 0
ASSUME RequestsAssumption == IsFiniteSet(Requests)
ASSUME NoneAssumption  == None \notin Emails \union Invitations
ASSUME BoundAssumption == MaxCalls \in Nat /\ MaxFaults \in Nat

VARIABLES
  sub,       \* Subscription: plan, status, expiry of the demo, limit, request for another plan
  orgActive, \* Organization.is_active
  assets,    \* [live, trash]: how many of each
  members,   \* how many ADMIN and WORKER users are not deleted
  held,      \* addresses that have an account, here or elsewhere
  inv,       \* Invitation
  req, calls, faults,
  made,      \* history: how many accounts each invitation has made
  lowered,   \* history: the limit went down, or the trash gave an asset back
  beyond,    \* history: how many assets the operator added to a full plan
  freed,     \* history: an account gave its address up
  overlapped \* history: two requests have been under way at once

rows == <<sub, orgActive, assets, members, held, inv>>
past == <<made, lowered, beyond, freed>>
vars == <<rows, req, calls, faults, past, overlapped>>

Subscription == [plan : Plans \union {"NONE"}, status : {"TRIALING", "ACTIVE", "SUSPENDED"},
                 expiry : {"never", "later", "past"}, max : Nat, pending : Plans \union {"none"}]
Invitation   == [email : Emails \union {None}, role : {"WORKER", "EXTERNAL"},
                 st : {"none", "open", "expired", "used"}]
Step    == {"idle", "count", "asset", "grant", "seats", "vacancy", "account", "invite",
            "taken", "register", "insert", "found", "plan", "approve", "reject", "reopen",
            "suspend", "close", "backfill"}
Request == [at : Step, email : Emails \union {None}, role : {"WORKER", "EXTERNAL"},
            inv : Invitations \union {None}, max : Nat, plan : Plans \union {"none"},
            here : BOOLEAN, to : BOOLEAN]
Idle == [at |-> "idle", email |-> None, role |-> "WORKER", inv |-> None, max |-> 0,
         plan |-> "none", here |-> TRUE, to |-> TRUE]

TypeOK ==
  /\ sub \in Subscription
  /\ orgActive \in BOOLEAN
  /\ assets \in [live : Nat, trash : Nat]
  /\ members \in Nat
  /\ held \subseteq Emails
  /\ inv \in [Invitations -> Invitation]
  /\ req \in [Requests -> Request]
  /\ calls \in 0 .. MaxCalls
  /\ faults \in 0 .. MaxFaults
  /\ made \in [Invitations -> Nat]
  /\ lowered \in BOOLEAN /\ freed \in BOOLEAN
  /\ beyond \in Nat
  /\ overlapped \in BOOLEAN

NewDemo == [plan |-> "DEMO", status |-> "TRIALING", expiry |-> "later",
            max |-> Limit["DEMO"], pending |-> "none"]
NoSubscription == [plan |-> "NONE", status |-> "ACTIVE", expiry |-> "never",
                   max |-> 0, pending |-> "none"]

\* A demo with its administrator and an asset, or an organisation older than
\* subscriptions.
Init ==
  /\ sub \in {NewDemo, NoSubscription}
  /\ orgActive = TRUE
  /\ assets = [live |-> 1, trash |-> 0]
  /\ members = 1
  /\ held = {}
  /\ inv = [i \in Invitations |-> [email |-> None, role |-> "WORKER", st |-> "none"]]
  /\ req = [r \in Requests |-> Idle]
  /\ calls = 0 /\ faults = 0
  /\ made = [i \in Invitations |-> 0]
  /\ lowered = FALSE /\ freed = FALSE /\ beyond = 0
  /\ overlapped = FALSE

-----------------------------------------------------------------------------
At(r, step) == req[r].at = step
Goto(r, to) == req' = [req EXCEPT ![r] = to] /\ UNCHANGED <<calls, faults, overlapped>>
Onward(r, step) == Goto(r, [req[r] EXCEPT !.at = step])
Done(r) == Goto(r, Idle)

Counted(endpoint) == endpoint \in Endpoints /\ calls < MaxCalls /\ calls' = calls + 1
Start(r, to) ==
  /\ At(r, "idle")
  /\ req' = [req EXCEPT ![r] = to]
  /\ overlapped' = (overlapped \/ \E p \in Requests \ {r} : ~At(p, "idle"))
  /\ UNCHANGED faults
Begin(r, endpoint, to) == Counted(endpoint) /\ Start(r, to)
\* A handler with one statement is over as soon as it began.
Single(r, endpoint) == Begin(r, endpoint, Idle)

Expired == sub.plan = "DEMO" /\ sub.expiry = "past"

\* checkLimit lets the request of a live subscription through to the count.
Unlimited == sub.plan = "NONE"
Refused   == Expired \/ sub.status = "SUSPENDED"

-----------------------------------------------------------------------------
(* Assets.                                                                  *)

\* PlanLimitGuard before POST /assets; an admin of an inactive organisation is
\* not let in at all.
CreateAsset(r) ==
  /\ orgActive /\ (Unlimited \/ ~Refused)
  /\ Begin(r, "asset", [Idle EXCEPT !.at = IF Unlimited THEN "asset" ELSE "count",
                                    !.max = sub.max])
  /\ UNCHANGED <<rows, past>>

\* The guard knows the organisation of the caller, and an operator has none:
\* what it creates in dto.organization_id is not counted.
OperatorCreatesAsset(r) ==
  /\ Begin(r, "asset", [Idle EXCEPT !.at = "grant"])
  /\ UNCHANGED <<rows, past>>

\* Mutant: a full plan still takes one.
CountAssetsOffByOne(r) ==
  /\ At(r, "count")
  /\ IF assets.live > req[r].max THEN Done(r) ELSE Onward(r, "asset")
  /\ UNCHANGED <<rows, past>>

CountAssets(r) ==
  /\ At(r, "count")
  /\ IF assets.live >= req[r].max THEN Done(r) ELSE Onward(r, "asset")
  /\ UNCHANGED <<rows, past>>

WriteAsset(r) ==
  /\ At(r, "asset")
  /\ assets' = [assets EXCEPT !.live = @ + 1]
  /\ Done(r)
  /\ UNCHANGED <<sub, orgActive, members, held, inv, past>>

Full == assets.live >= sub.max

WriteOperatorAsset(r) ==
  /\ At(r, "grant")
  /\ assets' = [assets EXCEPT !.live = @ + 1]
  /\ beyond' = beyond + IF Full THEN 1 ELSE 0
  /\ Done(r)
  /\ UNCHANGED <<sub, orgActive, members, held, inv, made, lowered, freed>>

\* To the trash and back, which asks for no limit.
RemoveAsset(r) ==
  /\ assets.live > 0
  /\ Single(r, "trash")
  /\ assets' = [live |-> assets.live - 1, trash |-> assets.trash + 1]
  /\ UNCHANGED <<sub, orgActive, members, held, inv, past>>

RestoreAsset(r) ==
  /\ assets.trash > 0
  /\ Single(r, "trash")
  /\ assets' = [live |-> assets.live + 1, trash |-> assets.trash - 1]
  /\ lowered' = TRUE
  /\ UNCHANGED <<sub, orgActive, members, held, inv, made, beyond, freed>>

-----------------------------------------------------------------------------
(* Invitations and accounts.                                                *)

\* The guard reads the subscription and counts the users that exist.
Invite(r, e, role) ==
  /\ orgActive /\ (Unlimited \/ ~Refused)
  /\ Begin(r, "invite", [Idle EXCEPT !.at = IF Unlimited THEN "vacancy" ELSE "seats",
                           !.max = sub.max, !.email = e, !.role = role])
  /\ UNCHANGED <<rows, past>>

\* An operator, who has no organisation, is not counted against one.
OperatorInvites(r, e, role) ==
  /\ Begin(r, "invite", [Idle EXCEPT !.at = "vacancy", !.email = e, !.role = role])
  /\ UNCHANGED <<rows, past>>

CountUsers(r) ==
  /\ At(r, "seats")
  /\ IF members >= req[r].max THEN Done(r) ELSE Onward(r, "vacancy")
  /\ UNCHANGED <<rows, past>>

UnusedFor(e) == {i \in Invitations : inv[i].email = e /\ inv[i].st \in {"open", "expired"}}

\* create looks at one of the address's unused invitations, whichever the
\* database returns, then for an account, then inserts.
CheckInvitations(r) ==
  /\ At(r, "vacancy")
  /\ \/ ~orgActive /\ Done(r)
     \/ orgActive /\ UnusedFor(req[r].email) = {} /\ Onward(r, "account")
     \/ orgActive /\ \E i \in UnusedFor(req[r].email) :
          IF inv[i].st = "open" THEN Done(r) ELSE Onward(r, "account")
  /\ UNCHANGED <<rows, past>>

CheckAccount(r) ==
  /\ At(r, "account")
  /\ IF req[r].email \in held THEN Done(r) ELSE Onward(r, "invite")
  /\ UNCHANGED <<rows, past>>

WriteInvitation(r) ==
  /\ At(r, "invite")
  /\ \E i \in Invitations :
       /\ inv[i].st = "none"
       /\ inv' = [inv EXCEPT ![i] = [email |-> req[r].email, role |-> req[r].role, st |-> "open"]]
  /\ Done(r)
  /\ UNCHANGED <<sub, orgActive, assets, members, held, past>>

\* The link of an invitation: it is read with its organisation.
Register(r, i) ==
  /\ inv[i].st = "open" /\ orgActive
  /\ Begin(r, "register", [Idle EXCEPT !.at = "taken", !.inv = i,
                             !.email = inv[i].email, !.role = inv[i].role])
  /\ UNCHANGED <<rows, past>>

\* POST /users asks for no limit.
CreateUser(r, e) ==
  /\ orgActive
  /\ Begin(r, "user", [Idle EXCEPT !.at = "taken", !.email = e])
  /\ UNCHANGED <<rows, past>>

\* A new organisation elsewhere, with its first administrator.
RegisterOrganization(r, e) ==
  /\ Begin(r, "user", [Idle EXCEPT !.at = "taken", !.email = e, !.here = FALSE])
  /\ UNCHANGED <<rows, past>>

FindAccount(r) ==
  /\ At(r, "taken")
  /\ IF req[r].email \in held THEN Done(r)
     ELSE Onward(r, IF req[r].inv # None THEN "register"
                    ELSE IF req[r].here THEN "insert" ELSE "found")
  /\ UNCHANGED <<rows, past>>

Joined(r) == members + IF req[r].role = "WORKER" THEN 1 ELSE 0

\* Mutant: the index on the address does not stop a second account.
WriteAccountTwice(r) ==
  /\ At(r, "register")
  /\ held' = held \union {req[r].email}
  /\ members' = Joined(r)
  /\ inv' = [inv EXCEPT ![req[r].inv].st = "used"]
  /\ made' = [made EXCEPT ![req[r].inv] = @ + 1]
  /\ Done(r)
  /\ UNCHANGED <<sub, orgActive, assets, lowered, beyond, freed>>

\* One transaction: the account, unless its address is taken, and is_used,
\* whatever the invitation has become.
WriteRegistration(r) ==
  /\ At(r, "register")
  /\ IF req[r].email \in held THEN UNCHANGED <<held, members, inv, made>>
     ELSE /\ held' = held \union {req[r].email}
          /\ members' = Joined(r)
          /\ inv' = [inv EXCEPT ![req[r].inv].st = "used"]
          /\ made' = [made EXCEPT ![req[r].inv] = @ + 1]
  /\ Done(r)
  /\ UNCHANGED <<sub, orgActive, assets, lowered, beyond, freed>>

WriteUser(r) ==
  /\ At(r, "insert")
  /\ IF req[r].email \in held THEN UNCHANGED <<held, members>>
     ELSE held' = held \union {req[r].email} /\ members' = Joined(r)
  /\ Done(r)
  /\ UNCHANGED <<sub, orgActive, assets, inv, past>>

\* Organisation, administrator, demo and usage row in one transaction: of
\* these only the address meets the rows of this organisation.
WriteNewOrganization(r) ==
  /\ At(r, "found")
  /\ held' = held \union {req[r].email}
  /\ Done(r)
  /\ UNCHANGED <<sub, orgActive, assets, members, inv, past>>

\* The owner of an account takes another address: the unique index is the check.
ChangeEmail(r, e) ==
  /\ e \in held
  /\ Single(r, "rename")
  /\ \E f \in (Emails \ held) \union {None} : held' = (held \ {e}) \union ({f} \ {None})
  /\ freed' = TRUE
  /\ UNCHANGED <<sub, orgActive, assets, members, inv, made, lowered, beyond>>

-----------------------------------------------------------------------------
(* The subscription.                                                        *)

Bought(p) == [plan |-> p, status |-> "ACTIVE", expiry |-> "never",
              max |-> Limit[p], pending |-> "none"]

\* Two statements: the subscription, then the organisation.
WritePlan(r, p) ==
  /\ sub' = Bought(p)
  /\ lowered' = (lowered \/ Unlimited \/ Limit[p] < sub.max)
  /\ UNCHANGED <<orgActive, assets, members, held, inv, made, beyond, freed>>

UpdatePlan(r, p) ==
  /\ Begin(r, "plan", [Idle EXCEPT !.at = "reopen", !.to = TRUE])
  /\ WritePlan(r, p)

RequestPlanChange(r, p) ==
  /\ orgActive /\ sub.plan # "NONE"
  /\ Single(r, "request")
  /\ sub' = [sub EXCEPT !.pending = p]
  /\ UNCHANGED <<orgActive, assets, members, held, inv, past>>

\* The plan that was read as pending is the one that is sold.
ApprovePlanChange(r, approved) ==
  /\ sub.pending # "none"
  /\ Begin(r, "approve", [Idle EXCEPT !.at = IF approved THEN "approve" ELSE "reject",
                                      !.plan = sub.pending])
  /\ UNCHANGED <<rows, past>>

WriteApproved(r) ==
  /\ At(r, "approve")
  /\ WritePlan(r, req[r].plan)
  /\ Goto(r, [Idle EXCEPT !.at = "reopen", !.to = TRUE])

WriteRejected(r) ==
  /\ At(r, "reject")
  /\ sub' = [sub EXCEPT !.pending = "none"]
  /\ Done(r)
  /\ UNCHANGED <<orgActive, assets, members, held, inv, past>>

ToggleSubscription(r, on) ==
  /\ sub.plan # "NONE"
  /\ Begin(r, "status", [Idle EXCEPT !.at = "reopen", !.to = on])
  /\ sub' = [sub EXCEPT !.status = IF on THEN "ACTIVE" ELSE "SUSPENDED"]
  /\ UNCHANGED <<orgActive, assets, members, held, inv, past>>

WriteOrganization(r) ==
  /\ At(r, "reopen")
  /\ orgActive' = req[r].to
  /\ Done(r)
  /\ UNCHANGED <<sub, assets, members, held, inv, past>>

\* PATCH /organizations/:id/status knows nothing of subscriptions.
ToggleOrganization(r, on) ==
  /\ Single(r, "organization")
  /\ orgActive' = on
  /\ UNCHANGED <<sub, assets, members, held, inv, past>>

\* A demo for every organisation without a subscription; the unique
\* organization_id keeps a second one out.
BackfillMissing(r) ==
  /\ sub.plan = "NONE"
  /\ Begin(r, "backfill", [Idle EXCEPT !.at = "backfill"])
  /\ UNCHANGED <<rows, past>>

WriteBackfill(r) ==
  /\ At(r, "backfill")
  /\ IF sub.plan # "NONE" THEN UNCHANGED <<sub, lowered>>
     ELSE sub' = NewDemo /\ lowered' = TRUE
  /\ Done(r)
  /\ UNCHANGED <<orgActive, assets, members, held, inv, made, beyond, freed>>

-----------------------------------------------------------------------------
(* The nightly job.                                                         *)

\* Mutant: a demo that was switched on by hand is not a trial any more.
SuspendExpiredTrials(r) ==
  /\ Expired /\ sub.status = "TRIALING"
  /\ Start(r, [Idle EXCEPT !.at = "suspend"])
  /\ UNCHANGED <<rows, past, calls>>

SuspendExpiredDemos(r) ==
  /\ Expired /\ sub.status # "SUSPENDED"
  /\ Start(r, [Idle EXCEPT !.at = "suspend"])
  /\ UNCHANGED <<rows, past, calls>>

WriteSuspended(r) ==
  /\ At(r, "suspend")
  /\ sub' = [sub EXCEPT !.status = "SUSPENDED"]
  /\ Onward(r, "close")
  /\ UNCHANGED <<orgActive, assets, members, held, inv, past>>

CloseOrganization(r) ==
  /\ At(r, "close")
  /\ orgActive' = FALSE
  /\ Done(r)
  /\ UNCHANGED <<sub, assets, members, held, inv, past>>

-----------------------------------------------------------------------------
TimePasses ==
  /\ Counted("time")
  /\ \/ sub.expiry = "later" /\ sub' = [sub EXCEPT !.expiry = "past"] /\ UNCHANGED inv
     \/ \E i \in Invitations :
          inv[i].st = "open" /\ inv' = [inv EXCEPT ![i].st = "expired"] /\ UNCHANGED sub
  /\ UNCHANGED <<orgActive, assets, members, held, req, faults, past, overlapped>>

\* A request dies between two awaits; what it has written stays.
Abandon(r) ==
  /\ ~At(r, "idle")
  /\ faults < MaxFaults
  /\ faults' = faults + 1
  /\ req' = [req EXCEPT ![r] = Idle]
  /\ UNCHANGED <<rows, past, calls, overlapped>>

\* The operator's routes, and the request of an admin.
SubscriptionCall(r) ==
  \/ \E p \in Plans : UpdatePlan(r, p) \/ RequestPlanChange(r, p)
  \/ \E b \in BOOLEAN : ApprovePlanChange(r, b) \/ ToggleSubscription(r, b)
  \/ BackfillMissing(r)

Call(r) ==
  \/ CreateAsset(r) \/ OperatorCreatesAsset(r) \/ RemoveAsset(r) \/ RestoreAsset(r)
  \/ \E e \in Emails :
       \/ \E role \in {"WORKER", "EXTERNAL"} : Invite(r, e, role) \/ OperatorInvites(r, e, role)
       \/ CreateUser(r, e) \/ RegisterOrganization(r, e) \/ ChangeEmail(r, e)
  \/ \E i \in Invitations : Register(r, i)
  \/ \E b \in BOOLEAN : ToggleOrganization(r, b)
  \/ SubscriptionCall(r)

Continue(r) ==
  \/ CountAssets(r) \/ WriteAsset(r) \/ WriteOperatorAsset(r)
  \/ CountUsers(r) \/ CheckInvitations(r) \/ CheckAccount(r) \/ WriteInvitation(r)
  \/ FindAccount(r) \/ WriteRegistration(r) \/ WriteUser(r) \/ WriteNewOrganization(r)
  \/ WriteApproved(r) \/ WriteRejected(r) \/ WriteOrganization(r) \/ WriteBackfill(r)
  \/ WriteSuspended(r) \/ CloseOrganization(r)

Next ==
  \/ \E r \in Requests : Call(r) \/ Continue(r) \/ SuspendExpiredDemos(r) \/ Abandon(r)
  \/ TimePasses

Spec == Init /\ [][Next]_vars

\* The process goes on with what it has begun, and @Cron runs every night.
FairSpec ==
  /\ Spec
  /\ \A r \in Requests : WF_vars(Continue(r)) /\ WF_vars(SuspendExpiredDemos(r))

-----------------------------------------------------------------------------
(* Properties.                                                              *)

\* The assets of a plan stay within its limit, but for those an operator added
\* to a full one (PlanLimitGuard lets a caller without organisation through);
\* requests that overlap pass it by one each at most, and never again while it
\* is passed.  The limit may be lowered under them, and the trash asks for no
\* room (checkLimit).
LimitHolds ==
  (sub.plan # "NONE" /\ ~lowered) =>
    assets.live <= sub.max + beyond + IF overlapped THEN Cardinality(Requests) - 1 ELSE 0

\* An invitation makes one account at most, however its link is raced, as long
\* as no account gives its address up meanwhile (register, User.email unique).
OneAccountPerInvitation == ~freed => \A i \in Invitations : made[i] <= 1

\* A demo past its date is suspended or bought, although it was switched on
\* again, and although a job died before it came to it (suspendExpiredDemos).
ExpiredDemosEnd == (Expired /\ sub.status # "SUSPENDED") ~> (sub.status = "SUSPENDED" \/ ~Expired)
===============================================================================
