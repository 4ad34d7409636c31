-------------------------------- MODULE Offers --------------------------------
(***************************************************************************)
(* What the buttons of a page offer and what comes of them: the copies of   *)
(* rows that tables, drawers and dialogs show to one account, the calls     *)
(* their buttons make, and the answers of the API, while other people       *)
(* change the same rows.                                                    *)
(***************************************************************************)
EXTENDS Naturals, Sequences, FiniteSets, SequencesExt, FiniteSetsExt

CONSTANTS
  MaxPresses,  \* bound: calls of this account and of others
  Matter       \* bound: kinds of rows that vary and that others change, by page

ASSUME OffersAssumption == MaxPresses \in Nat

VARIABLES
  records,  \* one row of each kind: an owner, its asset, a service of that, a user, the tenant
  desk,     \* the page before the account
  verdict,  \* history: the last call that was answered
  pressed   \* calls made

offers == <<records, desk, verdict, pressed>>

\* The roles of accounts.
Roles  == {"SUPER_ADMIN", "ADMIN", "WORKER", "EXTERNAL"}
Kinds  == {"owner", "asset", "service", "user", "organization"}
Screen == {"users", "assets", "asset", "service", "owners", "trash", "organizations"}
Above  == [asset |-> "owner", service |-> "asset"]

Listed(r, k)  == r[k].at = "live"
Trash(r, k) == r[k].at = "trash"
\* deleted_at with deleted_by_id of one removal: a stamp of its own.
NewStamp(r) == 1 + Max({r[k].stamp : k \in Kinds})
Removed(row, stamp) == [at |-> "trash", active |-> FALSE, stamp |-> stamp]
RestoredRow == [at |-> "live", active |-> TRUE, stamp |-> 0]

-----------------------------------------------------------------------------
(* The API.  An answer says whether it was done, the rows after it, and     *)
(* whether all that was sent had an effect.                                 *)

Refused(r)     == [done |-> FALSE, rows |-> r, heard |-> FALSE]
When(ok, r, new) == IF ok THEN [done |-> TRUE, rows |-> new, heard |-> TRUE] ELSE Refused(r)

Admins == {"ADMIN", "SUPER_ADMIN"}
Staff  == {"ADMIN", "SUPER_ADMIN", "WORKER"}

\* None of these asks whether the user is in the trash.
ToggleUser(role, r) == When(role \in Admins, r, [r EXCEPT !.user.active = ~@])
RemovedUser(row, stamp) ==
  [row EXCEPT !.at = IF @ = "purged" THEN @ ELSE "trash", !.active = FALSE, !.stamp = stamp]
RemoveUser(role, r) ==
  When(role \in Admins, r,
       [r EXCEPT !.user = RemovedUser(@, NewStamp(r))])
EditUser(role, r) == When(role \in Admins, r, r)
\* The answer is the same whether or not a mail is sent.
SendReset(r) == [done |-> TRUE, rows |-> r, heard |-> r.user.active]
EnterTenant(role, r) ==
  When(role = "SUPER_ADMIN" /\ r.user.active /\ r.organization.active, r, r)

\* Mutant: the status is switched, whatever was asked.
ToggleAssetSwitch(role, r, on) ==
  When(role \in Admins /\ Listed(r, "asset"), r, [r EXCEPT !.asset.active = ~@])
ToggleAsset(role, r, on) ==
  When(role \in Admins /\ Listed(r, "asset"), r, [r EXCEPT !.asset.active = on])
\* A worker may send a picture only; the rest of his form is dropped.
EditAsset(role, r, photo) ==
  LET ok == Listed(r, "asset") /\ role \in Staff /\ (role = "WORKER" => photo # "none")
  IN [done |-> ok, rows |-> r, heard |-> ok /\ (role = "WORKER" => photo = "alone")]
RemoveAsset(role, r, scope) ==
  LET n == NewStamp(r)
  IN When(role \in Admins /\ Listed(r, "asset"), r,
          [r EXCEPT !.asset = Removed(@, n),
                    !.service = IF scope > 0 /\ Listed(r, "service") THEN [@ EXCEPT !.at = "trash", !.stamp = n]
                                ELSE @])

DeactivateOwner(role, r) ==
  When(role = "ADMIN" /\ Listed(r, "owner"), r,
       [r EXCEPT !.owner.active = FALSE, !.asset.active = FALSE])
EditOwner(role, r) == When(role = "ADMIN" /\ Listed(r, "owner"), r, r)
RemoveOwner(role, r, scope) ==
  LET n == NewStamp(r)
  IN When(role = "ADMIN" /\ Listed(r, "owner"), r,
          [r EXCEPT !.owner = Removed(@, n),
                    !.asset = IF scope > 0 /\ Listed(r, "asset") THEN Removed(@, n) ELSE @,
                    !.service = IF scope > 1 /\ Listed(r, "asset") /\ Listed(r, "service") THEN [@ EXCEPT !.at = "trash", !.stamp = n]
                                ELSE @])

\* The asset has to be active, which no trashed asset is.
CreateService(role, r) == When(role \in Staff /\ r.asset.active, r, r)
RemoveService(role, r) ==
  When(role \in Admins /\ Listed(r, "service"), r,
       [r EXCEPT !.service = [@ EXCEPT !.at = "trash", !.stamp = NewStamp(r)]])
ShareService(role, r) == When(role # "EXTERNAL" /\ Listed(r, "service"), r, r)

\* New users, assets and owners: their form is not modelled.
CreateUser(role, r)  == When(role \in Admins, r, r)
CreateAsset(role, r) == When(role \in Staff, r, r)
CreateOwner(role, r) == When(role \in {"ADMIN", "WORKER"}, r, r)

ToggleOrganization(role, r, on) ==
  When(role = "SUPER_ADMIN", r, [r EXCEPT !.organization.active = on])

\* The trash is that of an organisation, which the operator has none of.
\* What was trashed with a row, and comes back with it.
Along(r, k) == {c \in DOMAIN Above \ {k} :
  /\ Trash(r, c) /\ r[c].stamp = r[k].stamp
  /\ \/ Above[c] = k
     \/ c = "service" /\ k = "owner" /\ Trash(r, "asset") /\ r.asset.stamp = r[k].stamp}
RestorePreview(r, k) == IF Trash(r, k) THEN Along(r, k) ELSE {}

Restore(role, r, k, scope) ==
  LET back == {k} \union {c \in Along(r, k) : (c = "asset" /\ scope > 0)
                                              \/ (c = "service" /\ scope > IF k = "owner" THEN 1 ELSE 0)}
  IN When(/\ role = "ADMIN" /\ Trash(r, k)
          /\ k \in DOMAIN Above => Listed(r, Above[k]), r,
          [c \in Kinds |-> IF c \in back THEN RestoredRow ELSE r[c]])
Purged(k, row) == [row EXCEPT !.at = "purged", !.active = IF k = "service" THEN @ ELSE FALSE]
PermanentDelete(role, r, k) ==
  When(role = "ADMIN" /\ Trash(r, k), r,
       [r EXCEPT ![k] = Purged(k, @)])

Handle(role, r, c) ==
  CASE c.verb = "toggle" /\ c.kind = "user"    -> ToggleUser(role, r)
    [] c.verb = "toggle" /\ c.kind = "asset"   -> ToggleAsset(role, r, c.arg = 1)
    [] c.verb = "toggle" /\ c.kind = "organization" -> ToggleOrganization(role, r, c.arg = 1)
    [] c.verb = "toggle" /\ c.kind = "owner"   -> DeactivateOwner(role, r)
    [] c.verb = "edit" /\ c.kind = "user"      -> EditUser(role, r)
    [] c.verb = "edit" /\ c.kind = "owner"     -> EditOwner(role, r)
    [] c.verb = "edit" /\ c.kind = "asset"     -> EditAsset(role, r, IF c.arg = 1 THEN "with" ELSE "none")
    [] c.verb = "photo"                        -> EditAsset(role, r, IF c.arg = 1 THEN "alone" ELSE "none")
    [] c.verb = "delete" /\ c.kind = "user"    -> RemoveUser(role, r)
    [] c.verb = "delete" /\ c.kind = "asset"   -> RemoveAsset(role, r, c.arg)
    [] c.verb = "delete" /\ c.kind = "owner"   -> RemoveOwner(role, r, c.arg)
    [] c.verb = "delete" /\ c.kind = "service" -> RemoveService(role, r)
    [] c.verb = "reset"       -> SendReset(r)
    [] c.verb = "impersonate" -> EnterTenant(role, r)
    [] c.verb = "share"       -> ShareService(role, r)
    [] c.verb = "create" /\ c.kind = "service" -> CreateService(role, r)
    [] c.verb = "create" /\ c.kind = "user"    -> CreateUser(role, r)
    [] c.verb = "create" /\ c.kind = "asset"   -> CreateAsset(role, r)
    [] c.verb = "create" /\ c.kind = "owner"   -> CreateOwner(role, r)
    [] c.verb = "restore" -> Restore(role, r, c.kind, c.arg)
    [] c.verb = "purge"   -> PermanentDelete(role, r, c.kind)

-----------------------------------------------------------------------------
(* What the pages list, and the buttons they offer for what they show.      *)

Absent == [at |-> "none", active |-> FALSE, stamp |-> 0]
Only(shown) == [k \in Kinds |-> IF k \in shown THEN records[k] ELSE Absent]

ListUsers(role)    == IF role \in Admins /\ Listed(records, "user") THEN {"user"} ELSE {}
ListAssets         == IF Listed(records, "asset") THEN {"asset"} ELSE {}
\* A worker keeps a record of his services that went to the trash.
ListServices(role) == IF Listed(records, "service") \/ role = "WORKER" THEN {"service"} ELSE {}
ListOwners(role)   == IF role \in {"ADMIN", "WORKER"} /\ Listed(records, "owner") THEN {"owner"} ELSE {}
ListTrash(role)    == IF role = "ADMIN" THEN {k \in Kinds : Trash(records, k)} ELSE {}

Listing ==
  Only(CASE desk.screen = "users"         -> ListUsers(desk.role)
         [] desk.screen \in {"assets", "asset"} -> ListAssets
         [] desk.screen = "service"       -> ListServices(desk.role)
         [] desk.screen = "owners"        -> ListOwners(desk.role)
         [] desk.screen = "trash"         -> ListTrash(desk.role)
         [] desk.screen = "organizations" -> {"organization"})

\* ROUTE_PERMISSIONS.
Screens(role) == {"assets", "asset", "service"}
                 \union (IF role \in Admins THEN {"users", "owners", "trash"} ELSE {})
                 \union (IF role = "SUPER_ADMIN" THEN {"organizations"} ELSE {})

\* A drawer shows the copy of the table until its own query has answered.
NoDrawer == [kind |-> "none"]
Drawer(k, copy, readOnly) ==
  [kind |-> k, first |-> copy, detail |-> Absent, asset |-> Absent, readOnly |-> readOnly, busy |-> FALSE]
Shown(d) == IF d.detail # Absent THEN d.detail
            ELSE IF desk.screen = "trash" THEN Absent ELSE d.first

UsersTable(role, copy) ==
  {"toggle", "edit", "delete"} \union (IF role = "SUPER_ADMIN" /\ copy.active THEN {"impersonate"} ELSE {})
UserMenu == {"edit", "reset", "toggle", "delete"}
AssetsTable(role) == {"edit"} \union (IF role \in Admins THEN {"toggle", "delete"} ELSE {})
AssetMenu(busy) == {"edit", "photo", "delete"} \union (IF busy THEN {} ELSE {"toggle"})
NewServiceButton(role) == IF role \in Staff THEN {"create"} ELSE {}
OwnersTable == {"toggle", "edit", "delete"}
OwnerMenu   == {"edit", "toggle", "delete"}
ServicesTable(role) == IF role \in Admins THEN {"delete"} ELSE {}
ServiceMenu(role) == {"share"} \union (IF role \in Admins THEN {"delete"} ELSE {})
TrashTable == {"restore", "purge"}
TrashMenu  == {"restore", "purge"}
OrganizationsTable == {"toggle"}
\* The page of one asset, and the service opened from the history of an asset.
AssetPage(role) == {"photo"}
History == {"share"}
\* "Add", on each page.
AddButton(role) ==
  CASE desk.screen = "users"   -> {"user"}
    [] desk.screen = "assets"  -> {"asset"}
    [] desk.screen = "owners"  -> {"owner"}
    [] desk.screen = "service" -> IF role \in {"ADMIN", "WORKER"} THEN {"service"} ELSE {}
    [] OTHER -> {}

Button(place, verb, kind, copy) == [place |-> place, verb |-> verb, kind |-> kind, copy |-> copy]
Buttons(place, verbs, kind, copy) ==
  IF copy = Absent THEN {} ELSE {Button(place, v, kind, copy) : v \in verbs}

InTable ==
  LET t == desk.table role == desk.role
  IN CASE desk.screen = "users"   -> Buttons("table", UsersTable(role, t.user), "user", t.user)
       [] desk.screen = "assets"  -> Buttons("table", AssetsTable(role), "asset", t.asset)
       [] desk.screen = "asset"   -> Buttons("page", AssetPage(role), "asset", t.asset)
                                     \union Buttons("page", NewServiceButton(role), "service", t.asset)
       [] desk.screen = "owners"  -> Buttons("table", OwnersTable, "owner", t.owner)
       [] desk.screen = "service" -> Buttons("table", ServicesTable(role), "service", t.service)
       [] desk.screen = "trash"   -> UNION {Buttons("table", TrashTable, k, t[k]) : k \in Kinds}
       [] desk.screen = "organizations" ->
            Buttons("table", OrganizationsTable, "organization", t.organization)

InDrawer ==
  LET d == desk.drawer role == desk.role
  IN IF d = NoDrawer THEN {}
     ELSE IF desk.screen = "trash"
     THEN IF Shown(d) = Absent THEN {} ELSE Buttons("drawer", TrashMenu, d.kind, d.first)
     ELSE IF d.readOnly THEN {}
     ELSE CASE d.kind = "user"    -> Buttons("drawer", UserMenu, "user", Shown(d))
            [] d.kind = "asset"   -> Buttons("drawer", AssetMenu(d.busy), "asset", Shown(d))
                                     \union Buttons("drawer", NewServiceButton(role), "service", Shown(d))
                                     \union Buttons("history", History, "service", d.asset)
            [] d.kind = "owner"   -> Buttons("drawer", OwnerMenu, "owner", Shown(d))
            [] d.kind = "service" -> Buttons("drawer", ServiceMenu(role), "service", Shown(d))

\* A new service is for an asset that its form picks among those there are.
OnPage == UNION {Buttons("page", {"create"}, k, IF k # "service" THEN RestoredRow
                                                ELSE IF Listed(records, "asset") THEN records.asset ELSE Absent)
                 : k \in AddButton(desk.role)}

-----------------------------------------------------------------------------
(* The account before the page.                                             *)

NoDialog  == [verb |-> "none"]
NoVerdict == [verb |-> "none"]

StartRows ==
  {r \in [Kinds -> [at : {"live", "trash"}, active : BOOLEAN, stamp : 0..2]] :
     /\ r.organization.at = "live" /\ r.service.active
     /\ \A k \in Kinds : /\ (r[k].at = "live") <=> (r[k].stamp = 0)
                         /\ r[k].at = "trash" /\ k # "service" => ~r[k].active
     /\ r.user.stamp # 2 /\ r.owner.stamp # 2
     /\ Trash(r, "asset") /\ r.asset.stamp = 2 => Trash(r, "owner") \/ Trash(r, "service")}

OffersInit ==
  /\ records \in StartRows
  /\ \E role \in Roles, self \in BOOLEAN, s \in Screen :
       /\ s \in Screens(role)
       /\ \A k \in Kinds \ Matter[s] : records[k] = RestoredRow
       /\ self => role \in Admins /\ records.user = RestoredRow
       /\ desk = [screen |-> s, role |-> role, self |-> self, table |-> [k \in Kinds |-> Absent],
                  drawer |-> NoDrawer, dialog |-> NoDialog, scope |-> NoDialog, previews |-> {}, calls |-> <<>>]
  /\ verdict = NoVerdict /\ pressed = 0

NoneOpen == desk.dialog = NoDialog /\ desk.scope = NoDialog

\* Nothing of the page but d changes.
Desk(d) == desk' = d /\ verdict' = NoVerdict /\ UNCHANGED <<records, pressed>>

\* The first answer, a poll, an event, or the refetch after a call.
Refresh == desk.table # Listing /\ Desk([desk EXCEPT !.table = Listing])

OpenDrawer(k) ==
  /\ desk.screen # "asset" /\ k # "organization" /\ NoneOpen
  /\ desk.table[k] # Absent /\ desk.table[k].at # "purged"
  /\ Desk([desk EXCEPT !.drawer =
              Drawer(k, desk.table[k], desk.screen = "trash" \/ desk.table[k].at = "trash")])

\* The query of a drawer; a user has none.
Detail(k) == CASE desk.screen = "trash" -> Trash(records, k)
               [] k = "owner" -> desk.role = "ADMIN" /\ Listed(records, k)
               [] OTHER -> Listed(records, k)
FetchDetail ==
  LET d == desk.drawer
  IN /\ d # NoDrawer
     /\ desk.screen = "trash" \/ (d.kind # "user" /\ ~d.readOnly)
     /\ Detail(d.kind)
     /\ d.detail # records[d.kind] \/ d.busy
     /\ Desk([desk EXCEPT !.drawer.detail = records[d.kind], !.drawer.busy = FALSE,
                          !.drawer.asset = IF d.kind = "owner" /\ records.asset.active THEN records.asset
                                           ELSE IF d.kind = "asset" /\ Listed(records, "service") THEN records.service
                                           ELSE Absent])

\* An owner's drawer lists its active assets.
OpenAssetOfOwner ==
  /\ desk.drawer # NoDrawer /\ desk.drawer.kind = "owner" /\ desk.screen = "owners"
  /\ NoneOpen /\ desk.drawer.asset # Absent
  /\ Desk([desk EXCEPT !.drawer = Drawer("asset", desk.drawer.asset, FALSE)])

CloseDrawer == desk.drawer # NoDrawer /\ NoneOpen /\ Desk([desk EXCEPT !.drawer = NoDrawer])

-----------------------------------------------------------------------------
(* Clicks, dialogs and calls.                                               *)

\* How far a deletion or a restore may reach; whether a form has a picture.
Reach(b) == CASE b.verb = "delete" /\ b.kind = "asset" -> 0..1
              [] b.verb = "delete" /\ b.kind = "owner" -> 0..2
              [] b.verb = "edit" /\ b.kind = "asset"   -> 0..1
              [] b.verb = "photo" -> IF b.place = "page" THEN {1} ELSE 0..1
              [] OTHER -> {0}

Forms == {"edit", "photo", "create"}
Direct(b) == b.verb = "share" \/ (b.verb = "toggle" /\ b.kind # "owner")
Asks(b)   == b.verb = "restore" /\ b.kind \in {"asset", "owner"}

Calling(b, arg) ==
  [verb |-> b.verb, kind |-> b.kind, arg |-> arg, copy |-> b.copy, place |-> b.place, scoped |-> FALSE]
MayCall == pressed < MaxPresses
Send(d, c) ==
  /\ MayCall /\ pressed' = pressed + 1
  /\ desk' = [d EXCEPT !.calls = Append(@, c)]
  /\ verdict' = NoVerdict /\ UNCHANGED records

\* A page says that one's own account stays as it is, and calls nothing.
OwnUser(b) == desk.self /\ b.kind = "user" /\ b.verb \in {"toggle", "delete"}

ClickNow(b) ==
  /\ NoneOpen /\ Direct(b) /\ ~OwnUser(b)
  /\ b.verb = "share" => \A i \in DOMAIN desk.calls : desk.calls[i].verb # "share"   \* isSharing
  /\ LET asset == b.place = "drawer" /\ b.kind = "asset"
         closes == b.place = "drawer" /\ b.kind = "user"
     IN Send([desk EXCEPT !.drawer = IF closes THEN NoDrawer
                                     ELSE IF asset THEN [@ EXCEPT !.busy = TRUE] ELSE @],
             Calling(b, IF b.copy.active THEN 0 ELSE 1))

\* The drawers of users, owners and services close before the dialog opens.
ClickAndAsk(b) ==
  /\ NoneOpen /\ MayCall /\ ~Direct(b) /\ ~Asks(b)
  /\ Desk([desk EXCEPT !.dialog = [verb |-> b.verb, button |-> b],
             !.drawer = IF b.place = "drawer" /\ desk.screen # "trash" /\ b.kind # "asset"
                           /\ b.verb # "create" THEN NoDrawer ELSE @])

\* Before an asset or an owner comes back, the trash asks what went with it.
AskPreview(b) ==
  /\ NoneOpen /\ MayCall /\ Asks(b) /\ b \notin desk.previews
  /\ Desk([desk EXCEPT !.previews = @ \union {b}])
\* When nothing did, or the request fails, the trash asks the plain question.
PreviewArrives(b) ==
  LET d == [desk EXCEPT !.previews = @ \ {b}]
      q == [verb |-> "restore", button |-> b]
  IN \/ Desk([d EXCEPT !.dialog = q])
     \/ RestorePreview(records, b.kind) # {} /\ Desk([d EXCEPT !.scope = q])

Cancel == ~NoneOpen /\ Desk(IF desk.scope # NoDialog THEN [desk EXCEPT !.scope = NoDialog]
                             ELSE [desk EXCEPT !.dialog = NoDialog])

\* A dialog closes as it calls; a form waits for the answer.
Confirm(n) ==
  /\ desk.scope = NoDialog /\ desk.dialog # NoDialog
  /\ LET b == desk.dialog.button
     IN /\ n \in Reach(b)
        /\ IF OwnUser(b) THEN Desk([desk EXCEPT !.dialog = NoDialog])
           ELSE IF b.verb \in Forms
           THEN /\ \A i \in DOMAIN desk.calls : desk.calls[i].verb # b.verb
                /\ Send(desk, Calling(b, n))
           ELSE Send([desk EXCEPT !.dialog = NoDialog], Calling(b, n))
ConfirmScope(n) ==
  /\ desk.scope # NoDialog
  /\ n \in 0..(IF desk.scope.button.kind = "owner" THEN 2 ELSE 1)
  /\ Send([desk EXCEPT !.scope = NoDialog], [Calling(desk.scope.button, n) EXCEPT !.scoped = TRUE])

\* What the answer to c changes before the page: dialogs it takes down, which may be
\* open again for another row, and the drawer of a row that is gone.
Ends(c, done) == CASE desk.screen = "users" -> c.verb \in {"delete", "reset", "impersonate"} \/ done
                   [] desk.screen = "trash" -> TRUE
                   [] OTHER -> done
Behind(c, done) ==
  [desk EXCEPT
    !.dialog = IF Ends(c, done) /\ ~c.scoped /\ (desk.screen = "trash" \/ @.verb = c.verb) THEN NoDialog ELSE @,
    !.scope  = IF c.scoped THEN NoDialog ELSE @,
    !.drawer = IF /\ @ # NoDrawer /\ @.kind = c.kind /\ done
                  /\ desk.screen = "trash" \/ (c.verb = "delete" /\ c.kind = "asset") THEN NoDrawer
               ELSE IF @ # NoDrawer /\ c.verb = "toggle" /\ ~done THEN [@ EXCEPT !.busy = FALSE] ELSE @]

\* The row a button is about.
About(c) == IF c.verb = "create" /\ c.kind = "service" THEN "asset" ELSE c.kind

ApiAnswers(i) ==
  LET c == desk.calls[i]
      a == Handle(desk.role, records, c)
      k == About(c)
  IN /\ records' = a.rows
     /\ desk' = [Behind(c, a.done) EXCEPT !.calls = RemoveAt(@, i)]
     /\ verdict' = [verb |-> c.verb, kind |-> c.kind, place |-> c.place, arg |-> c.arg, copy |-> c.copy,
                    before |-> records[k], above |-> IF k \in DOMAIN Above THEN records[Above[k]].at ELSE "live",
                    tenant |-> records.organization.active,
                    after |-> a.rows[k], done |-> a.done, heard |-> a.heard]
     /\ UNCHANGED pressed

\* Other people, through the same API.
OthersAct(verb, k, arg) ==
  /\ MayCall /\ pressed' = pressed + 1
  /\ k \in Matter[desk.screen] /\ ~(desk.self /\ k = "user")
  /\ LET a == Handle(IF k = "organization" THEN "SUPER_ADMIN" ELSE "ADMIN", records,
                     [verb |-> verb, kind |-> k, arg |-> arg])
     IN a.done /\ a.rows # records /\ records' = a.rows
  /\ verdict' = NoVerdict /\ UNCHANGED desk

HasHandler(verb, k) ==
  CASE verb = "toggle" -> k # "service"
    [] verb \in {"restore", "purge", "delete"} -> k # "organization"
    [] OTHER -> FALSE

OffersNext ==
  \/ Refresh \/ FetchDetail \/ OpenAssetOfOwner \/ CloseDrawer \/ Cancel
  \/ \E k \in Kinds : OpenDrawer(k)
  \/ \E b \in InTable \union InDrawer \union OnPage : ClickNow(b) \/ ClickAndAsk(b) \/ AskPreview(b)
  \/ \E b \in desk.previews : PreviewArrives(b)
  \/ \E n \in 0..2 : Confirm(n) \/ ConfirmScope(n)
  \/ \E i \in DOMAIN desk.calls : ApiAnswers(i)
  \/ \E verb \in {"toggle", "delete", "restore", "purge"}, k \in Kinds, arg \in 0..2 :
       HasHandler(verb, k) /\ OthersAct(verb, k, arg)

OffersSpec == OffersInit /\ [][OffersNext]_offers

-----------------------------------------------------------------------------
(* Properties.                                                              *)

\* What the label of a button says of the row after it.
Kept(v) == CASE v.verb = "toggle"  -> v.after.active = ~v.copy.active
             [] v.verb = "delete"  -> v.after.at # "live"
             [] v.verb = "restore" -> v.after.at = "live"
             [] v.verb = "purge"   -> v.after.at = "purged"
             [] OTHER -> v.heard

\* Buttons the API refuses to this account, and rows the copy does not tell about.
KnownRefusal(v, role) ==
  \/ v.kind = "asset" /\ v.verb \in {"toggle", "delete"} /\ role \notin Admins  \* the asset's drawer
  \/ v.kind = "asset" /\ v.verb \in {"edit", "photo", "create"} /\ role = "EXTERNAL"
  \/ v.kind = "asset" /\ v.verb \in {"edit", "photo"} /\ role = "WORKER" /\ v.arg = 0
  \/ v.verb = "share" /\ role = "EXTERNAL"
  \/ v.verb = "create" /\ v.kind = "owner" /\ role = "SUPER_ADMIN"
  \/ v.verb = "create" /\ v.kind = "service" /\ ~v.before.active
  \/ v.verb = "restore" /\ v.above # "live"
  \/ v.verb = "impersonate" /\ ~v.tenant

\* What is answered as done, and is not what the label said.
KnownMisses(v, role) ==
  \/ v.verb = "toggle" /\ v.kind = "user" /\ v.copy # v.before   \* the API flips what it finds
  \/ v.verb = "toggle" /\ v.kind = "owner" /\ ~v.copy.active     \* "activate" deactivates
  \/ v.verb = "reset" /\ ~v.before.active                        \* "sent" to an inactive user
  \/ v.verb = "edit" /\ v.kind = "asset" /\ role = "WORKER"       \* the text is dropped

\* A button does what it says: a call that is answered as done left the row as the
\* label said, however old the copy was; and a call is refused only when the row is no
\* longer what the page showed.  Save for the buttons named above.
ClickDoesWhatItSays ==
  verdict # NoVerdict =>
    \/ verdict.done /\ (Kept(verdict) \/ KnownMisses(verdict, desk.role))
    \/ ~verdict.done /\ (\/ verdict.copy # verdict.before /\ ~(verdict.verb = "create" /\ verdict.kind # "service")
                        \/ KnownRefusal(verdict, desk.role))
=============================================================================
