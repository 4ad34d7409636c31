# Fentri: a verification project

Fentri keeps the maintenance history of the assets of many organisations: a
NestJS API over PostgreSQL (`backend/`), a Next.js frontend (`frontend/`), an
object store (Supabase or local disk), Cloudflare Stream for video, and an hourly
job outside the API. This directory holds TLA+ models of the parts of it where
requests, callbacks and jobs race, TLC configurations that check them on small
instances, and TLAPS proofs for every instance. `PROJECT.json` maps every
definition to the lines it models; paths below are under `backend/src/`.

## Inventory

State is in PostgreSQL unless another place is named.

| Component | State | Operations | What makes it correct |
|---|---|---|---|
| Uploads (`uploads/uploads.service.ts`) | `FileUpload` rows, `ServiceAttachment`, `StoredFile`, `OrganizationStorageUsage` | intent, start, progress, confirm, cancel, retry, finalize, ready and failed marks, purge | an upload becomes an attachment at most once; files and attachments come together; admissions respect the quota; ready counters run ahead only where a purge is under way or has overtaken a recount; reservations converge |
| Attachment columns (`refreshServiceAttachmentSnapshot`) | six columns of `Service` | recomputed after every upload operation and by reconciliation | never ahead of the attachments; exact in the end |
| Cleanup (`upload-cleanup.service.ts`) | the same rows | expire what is due, delete its object, release it | stale intents end; a reservation is released once |
| Reconciliation (`upload-reconciliation.service.ts`) | `OrganizationStorageUsage`, issue rows | recount, overwrite the counters, refresh services | repairs the counters, spoils none for good |
| Maintenance job and lock (`upload-maintenance.service.ts`, `maintenance-lock.service.ts`) | `MaintenanceJobLock`, `UploadMaintenanceRun` | acquire, three stages, record, release | no two runs within a lease; maintenance never stops for good |
| Cloudflare client and webhook (`cloudflare/`) | videos, at Cloudflare | create, poll, delete; late, repeated or lost messages | a lost message is made up for by the poller before the term of the upload ends; a repeated one attaches nothing twice |
| Verification, policy, quota (`upload-verification`, `upload-policy`, `resolve-storage-quota`) | none | pure functions of settings and file headers | limits in the documented order of precedence |
| Storage backends (`storage/*-storage.service.ts`) | objects | sign, read, delete | deletion failures are swallowed |
| Stored files, governance (`storage/`) | `StoredFile`, ready counters, alert watermark | register, delete, check the quota, sweep orphans, alert | counters follow files; no row links to a deleted file; no file without a row; one alert per crossing |
| Services, share links, translation (`services/`, `ai/`) | `Service`, `ServiceShareLink`, `ServiceTranslation` | create, edit, publish, view and translate, share, remove | a translation is of the text it is shown for; publication is announced once; what is erased stays erased |
| Trash (`trash/`) | `deleted_at`, `purged_at` of companies, assets, services, users | cascaded delete, restore, purge | no visible child of a deleted parent; a restore brings back one removal; a purge leaves nothing |
| Companies, assets, users, invitations | their rows | CRUD, images, roles, invite and register | lists, counters and details agree; an invitation makes one account |
| Auth (`auth/`) | `UserSession`, `EmailToken`, two-factor columns | login, 2FA, sessions, password reset, verification | a code or token works once; revocation takes effect; nobody is locked out |
| Subscriptions, organizations | `Subscription`, `Organization.is_active` | change plan, suspend demos, check limits | limits hold; expired demos end; subscription and organisation agree |
| Realtime (`realtime/`) | subscribers, in the process | emit after a commit | nothing is kept: a page must make up for what it missed |
| Dashboard, lists, filters, details | none | read-only queries, several per number | one number is the same on every page; an answer is of one moment |
| E-mail (`email/`, and the handlers that mail) | `EmailTemplateSetting`, the key of the provider, mails on their way | send, switch a template on or off, preferences | a mailed link or code works; the last news is true; nobody is mailed unasked |
| Health | none | a query | |
| Frontend upload queue (`frontend/src/providers/UploadQueueProvider.tsx`) | the browser's queue | transfer, pause, resume, confirm, recover | every queued video gets its turn |
| Frontend pages and their refresh (`frontend/src/lib/RealtimeQueryInvalidator.tsx`) | query caches, the event stream | fetch, invalidate, poll, move | what is shown is current in the end |
| Frontend session (`frontend/src/lib/AuthContext.tsx`) | the user and the caches of a tab, the cookie of all tabs | sign in and out, impersonate, ask who is signed in, guard routes | a tab shows whom its cookie names, keeps no rows of another, and stops loading |
| Frontend lists (`frontend/src/app/(main)/*/page.tsx`) | search, filter, page, size; the parts a phone has loaded | search, filter, page, scroll, load more | every row that matches is shown or the buttons lead to it |
| Frontend tables, drawers, dialogs (`frontend/src/components/`) | the copies of rows they show, what was clicked | open, click, confirm, call, take the answer | a button does to the row what its label says, however old the copy |
| Frontend viewers of a service (`ServiceDrawer`, `ServiceDetailView`, the shared page) | the index of the lightbox, the playback, the spinners, the share link | open, pick, step, play, download, share, close | what plays, is fetched or is offered is what was clicked; nothing waits for ever |
| Frontend forms, auth proxy, texts | none | presentation | |

**How they interact.** The browser asks for an intent and transfers the bytes
straight to the object store or to Cloudflare, reporting progress, and then calls
`confirm`. Cloudflare calls the webhook when a video is transcoded; the hourly job
polls for the messages that were lost. All of them, the cleanup and the
reconciliation, change the same three tables through independent statements or
short transactions, and every one of them then refreshes the columns of the service.
Handlers that change what pages show emit an event after their commit; the tabs of
the organisation fetch the page on their screen again. Two jobs inside the API run at
night: the suspension of expired demos and the storage alert.

**What is hard.** A handler reads a row, awaits an external service, and writes
the row without looking again; several handlers, on several replicas, do so at
once. Some updates are conditional (`updateMany ... status in`), most are not.
Uniqueness is left to unique indexes, the quota to serializable transactions, the
counters to `GREATEST(..., 0)` and reconciliation, lost messages to polling,
crashes to expiry. `PROJECT.json` lists these hazards by line, with the
properties that watch them or the reason none does yet.

## Modules

| Module | Models |
|---|---|
| `MaintenanceLock` | The lease and the try/catch/finally of `runHourlyMaintenance`, for any number of runs that overrun, fail or crash. Time is relative to the lease. |
| `Uploads` | The life of the uploads of one organisation: every handler, webhook, poller, cleanup, recount and purge, step by step. |
| `AttachmentRegister` | What uploads promise, without how: admitted, attached at most once until a purge takes it, and, until a purge has begun, a file count that never runs ahead. |
| `UploadsProofs` | Proofs about `Uploads`, among them that it implements `AttachmentRegister`. |
| `AttachmentSnapshot` | The refresh of the columns of a service, in overlapping copies. |
| `Trash` | Removal, restore and permanent deletion of owners, assets, services and users, with the cascades between them. |
| `TrashProofs` | Its proofs. |
| `MaintenanceProofs` | Proofs about `MaintenanceLock` and `AttachmentSnapshot`. |
| `Auth` | The credentials of one account: sessions and tokens, both second factors with their codes, reset links. |
| `AuthProofs` | Proofs about `Auth` and `Offers`. |
| `Tenants` | One organisation with its subscription, its assets, its invitations and the accounts that come of them. |
| `StoredFiles` | The pictures and documents of one organisation: objects, rows, counters, what refers to them, quota, sweep and alert. |
| `StoredFilesProofs` | Its proofs. |
| `Services` | One service as its readers see it: text, language, translations, announcement, share links, permanent deletion. |
| `Mailer` | Who is mailed, about what and when, by every handler that mails; the switches, the preferences and a provider that fails. |
| `TenantsProofs` | Proofs about `Tenants` and `Mailer`. |
| `UploadQueue` | The queue of videos in a browser tab, between its clicks and its callbacks. |
| `LiveViews` | What a tab shows: handlers and their events, the stream, the queries of the pages. |
| `People` | Accounts and their roles. |
| `Portal` | The rows that every list, counter, filter and detail shows to an account, and the mails about a service. |
| `ServicesProofs` | Proofs about `Services` and `Portal`. |
| `Session` | Whom a tab shows as signed in, and whose rows it keeps. |
| `TabProofs` | Proofs about `LiveViews`, `Session`, `Viewer` and `Lists`. |
| `Lists` | The six lists of the portal, page by page: tables, lists that grow by a button, and an endless one. |
| `Offers` | The buttons that tables, drawers and dialogs offer an account for the copies of rows they show, their calls and the answers of the API. |
| `Viewer` | The pictures, videos and documents of a service on the four surfaces that show them, with the calls of their buttons. |
| `MC*` | Sizes and symmetries for TLC. `MCAuth` runs `Auth` or `Offers`, `MCBrowser` runs `UploadQueue` or `Portal`, `MCServices` runs `Services` or `Mailer`, `MCTab` runs `LiveViews`, `Session`, `Lists` or `Viewer`: which one is chosen in the initial state (`instance`), the others stand still. |

### Uploads and the code

A request or maintenance run is a process `p`; `req[p]` holds where it is and
its copy of what it read. The steps of a handler are cut where another request can
come between: at the reads, the external calls and the writes. `confirm`, for
example, is `Confirm` (the read and the checks), then `Verify` or `PollOnConfirm`,
then `Register` (the transaction and its P2002 branch), with `ExpireOnConfirm` and
`RejectObject`, `Reject` as its ways out.

Choices that are not one to one:

* **Transactions.** A `$transaction` whose writes depend on nothing it reads is one
  step. The one that admits an intent reads the sums first: `CheckQuota` takes
  the snapshot and `Admit` writes. PostgreSQL does not let a serializable
  transaction update a row that was updated after its snapshot, so a write of the
  usage row sets `clash` in every open admission, and a clashed one ends in
  `AbortAdmission`. Other aborts are `Abandon`.
* **Failure.** `Abandon` ends a request between any two steps: crash, rejected
  await, aborted transaction. `MaxFaults` bounds how often.
* **Sizes** are additive measures on sets of rows (`Declared`, `Actual`), so that
  the sums the queries compute need no recursion; additivity is the only thing
  known of them.
* **Routes.** `UploadCall` and `Call` are the routes of the controller, as are `SessionCall`
  in `Auth` and `SubscriptionCall` in `Tenants`; throttling only rejects.
* **Order of reads.** `Promise.all` of queries is any order. `confirm` reads the
  row and looks the attachment up in one step, and `readyAggregate` and `readyCount`
  of the reconciliation are one step: nothing that happens between tells them apart
  for these properties, the counters being compared one by one.
* **Cloudflare or object store** is a property of an upload (`Stream`), decided by
  configuration when it is created; videos of a manifest never go to Cloudflare.
* **The refresh** that ends each handler is not in `Uploads`: it only writes columns
  that no handler reads. It is `AttachmentSnapshot`, where a refresh must follow
  each change and may die.
* **Left out:** checks of roles, policy and batch size that only reject; progress
  percentages; the status text of Cloudflare; the batch limits `take: 100` and
  `take: 50`, not reached; the issue rows of the reconciliation. Other files of the
  organisation are a constant part of the quota, which does not change during
  a run. The usage row exists from the start
  (`organizations/organizations.service.ts:118`, `auth/auth.service.ts:810`).
  Reconciliation passes over organisations that are not active
  (`upload-reconciliation.service.ts:31`); this one is active.
* **The purge.** `place` is where each service is: live, in the trash, purged.
  `permanentDelete` is `PermanentDelete` (its two reads), `PurgeAttachments`, one
  `PurgeFile` for each file in any order (`Promise.all`), `ReadPurged`, one `PurgeUpload`
  for each row it read, `PurgeRows` and `PurgeService`. Within one file, the
  object, the row and the counters are one step, as are, within one upload, the deletion at
  Cloudflare or in the store and the release: `StoredFiles` cuts the former, and nothing
  here reads an object between them. Links and translations are in `Services`. A row is `"GONE"` once it is deleted, and a
  write by its id fails then (`MissingRow`, P2025). A file that a recount has summed and
  a purge has deleted since marks the recount (`clash`). `erased` is a history variable.

### Trash and the code

A call is a request `r` that runs once; `requests[r]` holds what it has read, and
`next` its next await. Removal is a check (`RemoveOwner`, `RemoveAsset`, ...), the
reads of the children (`ReadAssets`, `ReadServices`) and one transaction
(`WriteRemoveOwner`, ...); restore is a check, the read of the asset ids for an
owner, and `WriteRestore`; permanent deletion of a service is three writes, of the
other rows one. `updateMany` is evaluated at the write, an update by id hits its row
whatever it has become. `Abort` ends a call between any two awaits.

* **The signature** (`deleted_at`, `deleted_by_id`) is one value, a stamp. The code
  compares stamps only with each other and with null, so a stamp that no row and no
  call holds any more stands for a new one. Two removals by one admin in the same
  millisecond, which would share a signature, are left out.
* **Names** are the real one or the placeholder of a purge; a row shows the
  placeholder exactly when it is purged, both being one update.
* **Left out:** `is_active`, which follows the trash and is not read here; users
  other than EXTERNAL ones, whom no cascade touches; creation of rows; the files of
  a purged row and their counters; roles and tenants, which only reject.
* `batch` is a history variable: the rows that one removal trashed together.

### Auth and the code

A request `r` is cut at its awaits on the database; `req[r]` keeps what it has read.
A session is a row with the id of its current token (`jti`); `Alive(j)` is what
`JwtStrategy.validate` asks. A login that was let in is `FindSession`, then
`OpenSession`; each second factor is a read of the codes (`LoginWithTwoFactor`,
`LoginWithEmailCode`) and a write of what was read (`SpendBackupCode`,
`MarkCodeUsed`). The three statements of a reset arrive in any order (`ResetStep`).
Wrong passwords and codes are left out: they change nothing. So are rate limits,
profile changes and the mails themselves. Token ids and secrets are serial numbers,
of which one is never given out twice. `letIn`, `spent` and `overlapped` are history
variables: what overlapping logins do to a code is known to be wrong (see below), and the
properties that hold only without overlap say so.

### Tenants and the code

One organisation with its counts and its invitations, at one moment of the night job:
`SuspendExpiredDemos` reads a demo, `WriteSuspended` and `CloseOrganization` are its
two updates. `PlanLimitGuard` is the first step of a request and the handler the
next ones; an operator has no organisation, so the guard asks nothing of him and his asset or
invitation is one more way in (`OperatorCreatesAsset`, `OperatorInvites`). `beyond` is a history variable:
the assets he added where the guard would have refused them. `held` are the addresses with an account anywhere, since they are unique on
the whole platform. Left out: limits an operator overrides, the removal of members,
`RESTRICTED` access lists, and what an update of a user's role and owner races with.

### StoredFiles and the code

A row of the program refers to files; a file is an object of the store and a row of
`StoredFile`. An upload is `CheckQuota` (the sum was read before), `Upload`,
`Register` with its counters, and the write of the row that refers to it; a
replaced file is found, its object deleted and its row unlinked, with the counters, as
`deleteStoredFileAndBlob` has it. A handler that fails goes through its `catch`.
Any await may be rejected (`DeleteFails`, `MarkFails`, `RegisterFails`, ...), that of the transaction of a
deletion after the object has gone (`torn`); a rejected transaction is taken as not committed.
`unanswered` are services whose handler failed after their insertion, `left` the files a request let go of: history
variables. `services.create` deletes its files with `Promise.all`, here one after the other in any
order; so are other parallel deletions of one handler. Bytes reserved by uploads count towards the alert
(`Reservations`). A thumbnail is a file that
follows its photo. Left out: the content of files, signed addresses, the backfill of
rows older than the table, the files of a purged row.

### Services and the code

A view translates the title and the description side by side: each part is cut at
the reads of the settings and of the cache, the call of the model, the write of the
translation and of the language. A hash stands for the text it is made of. What the heuristic finds (`Guess`) and what the model says
a text is (`Named`, which may differ at every call) are arbitrary and may be wrong; nothing is assumed of
either. An edit is a
read, a write, and the announcement that the API does not wait for; sharing is a
look for a live link and its creation. The permanent deletion is cut as in `Trash`,
without attachments and uploads, which do not meet the text. Left out: listings,
filters and edit windows, which only reject; links older than their expiry column;
`notifyServiceEdited`, a mail that follows every edit of a public service.

### Mailer and the code

`orders[h]` is a handler or job `h` at its next await, one kind per caller of
`EmailService`. A mail with a link or a code, and the welcome, is awaited: its handler goes on
when the provider has answered (`Hand`, `Skip`, `Refuse`). The others are fired: they leave
side by side for `outbox` and arrive in any order. `isTemplateEnabled` and the call of
the provider that follows are one step. `Skip` is a mail that was not sent while its caller thinks it was:
no key, a template that is off, or an error inside an answer that nobody reads. What a
mail tells is `says`. `last`, `inbox` and `vow` are history variables: the last news of
a person about a subject, the links that were handed over, who was told that one is on its way and
what befell it since. At first only admins have accounts; others come by invitation. Left out: wording, languages, previews and
test mails; the verification of an address, which no flow sends; the welcome of an
organisation that registers itself; the expiry of links.

### UploadQueue and the code

React state (`item`), the transfers kept in a ref, and calls of the drawer that are
not answered yet. Callbacks of a tab interleave at awaits only: a transfer looks for
its previous uploads, is sent, and is confirmed, in turns of a timer and a call when
Cloudflare still encodes. `srv` is the upload as the API knows it; `Processing` lets it
answer that the video is not ready. Left out: progress, the recovery of the list
after a reload but for the state it puts items in, the bytes.

### LiveViews and the code

A page stands for its queries taken together; a kind of rows for a version number,
which an operation raises (`Write`) before it emits (`Emit`). What each operation changes and
emits, and what each page invalidates afterwards, are translated from the handlers
and pages one by one (`RemoveAsset`, `AssetsPage`, ...). The stream, its
`hasConnectedBefore`, the effect that starts again on every move and on every
answer of `/auth/me`, polling and the rule of React Query that an answer under way
is given up when its query is invalidated, unless it is the first, are actions. Left
out: other replicas, whose events never arrive, and everything a page keeps for itself.

### Portal and the code

`db` are the rows of one organisation with the columns that queries ask for. Each query
of each endpoint is a set of rows (`ServiceList`, `ServiceStats`, `AssetOptions`,
`Dashboard`, ...), translated from its own `where`; the raw SQL of the dashboard
(`Distinct`) beside the Prisma one. A request is the guard (`Get`), the reads of what a
worker is restricted to (`ReadMode`), and its queries; rows change between these. The changes are
those that `Trash`, `Services` and the CRUD handlers make, each in one transaction here, since
what overlaps inside them is the subject of those modules. A mail about a service is cut
at its reads. Left out: periods and charts; paging and searching, which are in `Lists`; what a row is
called; accounts of other organisations.

### Session and the code

`cookie` is shared by all tabs, `tab` is the state of the provider with the cached
accounts whose rows a query left there. A `refreshUser` is `Ask`, `Serve` and `Receive`,
several may be under way and nothing orders them; its closure keeps the page it
was made on. The guard of the routes is `Target`, the 401 interceptor `ThrownOut`, a
click is the click, the answer (which sets the cookie) and the `refreshUser` that follows.
Left out: the `redirect` parameter beyond one remembered page, second factors, other
pages that behave like one of the six.

### Lists and the code

`list` is one page with its query: what was typed, what the debounce let through, the filter,
the page number, the answer shown, and what a phone has collected (`items` of the two lists
that grow by a button, `parts` of the infinite query). A change of state and the effects of its
render are one step (`Render`); `Handlers` and `Effects` say which changes lead back to the
first page, page by page of the source. `Slice` is what the API answers. An answer is taken
when it arrives, with the rows of that moment. A page asked for again is shown at once as it was kept, when
it was: `earlier` are the states of the rows so far, and any answer that one of them gives to the query may be the
kept one (`KeptAnswers`, `KeptParts`), which is more than the cache holds. The services are asked for in the language of the
page, which the switch changes (`SwitchLanguage`). A row is its place in the order of the API
and a count of its changes. `Watching` is the effect that observes the end of the endless list: it
runs when there is a next part or none any more, not when the table of the page comes back. Left out: ties in that order, the choice of sort keys, filters a
phone applies to loaded assets.

### Offers and the code

`records` is one row of each kind, an owner with its asset and a service of that, a user and the
tenant; `desk` one page before one account: the copies its table and drawer show, the dialog that is
open, the previews and calls that are not answered. `InTable`, `InDrawer` and `OnPage` are the
buttons, page by page of the source, with what they know of the row: its copy. `ClickNow` and
`ClickAndAsk` are clicks, `Confirm` and `ConfirmScope` the dialogs, `ApiAnswers` the whole handler of
the API (`Handle`) and what the page does with its answer (`Behind`); `OthersAct` are other people.
`verdict` is a history variable: the last call with the copy its label was about and the row before and
after. Left out: what is in a form; EXTERNAL users, who follow their owner into the trash and
back; lists of owners and trash for the operator, who has no organisation and is shown none.

### Viewer and the code

`viewer` is one surface: the drawer of a page, which stays mounted with all its state when it is
closed; the view of a service inside another drawer; the drawer of the trash; the page of a shared
link. The first two hold the same handlers twice, line by line, so that a click is mapped to
`ServiceDrawer.tsx` and an answer to `ServiceDetailView.tsx`; what they do differently
(`DrawerGrid` and `DetailGrid`, the two lightboxes, the two effects) is there for both. A change of the index and
the effect that asks for the video are one step. `meant`, `since`, `astray` and `saved` are history
variables: what was clicked, what has befallen it since, and what the last download fetched. Left
out: tabs and zoom, the dialog in front of the archive of photos, the expiry of signed addresses, and
links that forbid downloads.

## Runs

Deadlock is checked in `lock`, `uploads_converge`, `snapshot` and `trash`. In the other
instances calls are bounded and nothing has to happen when they are used up, so the
instance stops; what must happen there is a liveness property.

| Run | Instance | Shows |
|---|---|---|
| `lock` | 3 runs, TTL 2 | no overlap within a lease, maintenance starts again and again |
| `uploads_quota` | 2 uploads of one service, 1 unit declared and 2 actual, quota 2, 2 clients; intents, manifests, confirmations, retries, removal, restore, purge, recount | file and attachment together, no admission beyond the quota; ready counters ahead in two named ways only; the register is implemented |
| `uploads_converge` | 1 Cloudflare upload, 1 client, removal and purge of its service, webhooks, 1 job, 1 fault | reservations become exact, stale intents end, the poller attaches a ready video whose webhook was lost unless its term ends first |
| `snapshot` | 2 uploads, 1 writer, 1 sweeper, 1 fault | the columns are never ahead, and become exact |
| `trash` | 2 owners, 1 asset, 2 services, 1 user, 4 calls, 2 stamps | a restore brings back one removal; cascades revive nothing purged and miss nothing live; titles are frozen in time |
| `auth` | credentials: 2 sessions, 2 devices, 2 requests at a time, 3 calls, 1 fault; buttons: every role before every page it may open, 2 calls | dead tokens stay dead, a reset ends older tokens, codes and links work once without overlap, no lockout; a button does what its label says save for named ones |
| `tenants` | 1 address, 2 invitations, 2 requests at a time, 4 calls, 1 fault | limits are passed by overlaps and by an operator only, an invitation makes one account, expired demos end |
| `files` | 3 rows in 3 mixes of kinds, 2 new files, 2 requests at a time, 2 faults, 0 or 1 reserved byte | counters follow rows; no dead links but for deletions that broke off after the object; without overlap no leaks but for what a named failure let go; one mail per rise |
| `files_sweep` | as `files` | violated: see below |
| `browser` | queue: 2 videos, 1 place, 3 transfers, 2 clicks; reads and mails: 2 services, 2 assets, 2 owners, 3 accounts, 1 request, 2 changes | every video starts; pages agree, an answer is of one moment save for named races, who is mailed can open the service |
| `tab` | views: 2 pages, 1 operation, 2 moves, 1 fault; session: 2 people, 2 requests of `/auth/me`, 2 clicks, 1 upset; lists: 3 rows, all there at first, pages of 1 and 2, 2 changes of rows or of the language; viewer: 2 services, 3 calls or changes, 1 fault | a settled page is current save for named gaps; a settled tab shows whom the cookie names, and loading ends; no row that matches is out of reach save for named cases; a viewer at rest shows, plays and fetches what was clicked save for named upsets |
| `services` | service: 3 texts, two drafts and two edits, 2 requests at a time, 4 calls, 1 day, 1 fault; mails: an admin and a guest, 2 handlers at a time, 3 calls or changes, 1 mishap | a translation shown is of the text shown, a language claimed is the one found; announced once, erased for good, save for named races; mailed links work, the last news are true, nobody is mailed unasked, save for named mishaps |

**Why the bounds are enough.** The races are between copies of one row: two
requests suffice for a double attachment, two uploads for a quota that has room for one of them; the
smaller one occupies more when it is stored than it declared. Two purges of one service, a purge and a
recount, a purge and a late confirmation are pairs of requests, too. A recount and a confirmation that overlaps it are two processes. What holds in
these instances by accident of their size is caught by the proofs, which have no bounds.
In the trash, three calls remove a child, remove its parent and restore the
parent, with any of them overlapping; the fourth is a second restore, a purge or
another removal in between. One asset under two owners is enough for a reassignment,
two services for a cascade that must tell them apart. The other modules are about
one row that two handlers have read: two requests at a time, and enough calls to prepare
the row, to race, and to use what came of it (set up a factor, spend a code, sign in).
`tab` takes the list of services and the trash, a page that polls and one that does
not, and four operations that differ in what they change and emit; a worker and the operator
of the platform, who share one browser; and three rows on pages of one or two, enough for a last page
that empties and a page past the end, with one change to make a kept page stale and one to lead back to it; and two services, of which one has a picture, both kinds of
video and a document, so that the answer for one video can overtake the other and a drawer can be left for another service. `browser` starts its reads from every publication,
owner and restriction of two services on two assets; two changes put one before and one
between the reads of a request. In `auth`
each page starts from every state of the rows it shows, in or out of the trash; two calls are one of the
account's on a copy that one of its own or of somebody else's has made old. The first session and device are fixed, sessions and devices being alike. In `services` the two handlers are
symmetric: nothing orders or chooses them. Its mails take three calls: one to ask, one to change or
switch, and one that overlaps them. `Calls`, `Endpoints`, `Operations` and
`Commands` choose what a run calls, to spend its states on one question.

**Fairness.** A request that has begun goes on (`WF` of `Continue`): Node runs
every continuation, and a rejected await is `Abandon`. A job starts again when the
last run is over (`WF` of `StartMaintenance`, of `Acquire` in the lock): an
external scheduler calls `scripts/upload-maintenance.ts` every hour. Time passes in
the lock. Clients, transfers, Cloudflare and webhooks have no fairness: nobody
has to call. The lock itself is not composed with `Uploads`: its jobs are any
set of runs, so that what holds there holds also when an overrun lets two in.

In `Tenants` handlers and the night job go on (`WF`); in `UploadQueue` the effect that
starts the next video, the callbacks of a transfer and the answers to a click come in
the end; in `Session` requests are answered and the effects of a render run. No user has to click.

**A disagreement found.** `files_sweep`: `reconcileOrganizationFiles` lists the
objects under the prefix `<organizationId>`, while `storage-paths.ts` puts every object under
`org/<organizationId>/`. The list is empty, and nothing is removed, although the API
promises to reconcile orphans.

**What the models reach and no property forbids.** The properties above say what the
code keeps; these are behaviours that the same models reach and that a reader should know:

* `Uploads`: a `cancel` that read a row before a confirmation overwrites it (the comment
  above `purgeUploadsForService` says that cancel concerns abandoned uploads only);
  `expireUpload` and the cleanup release one reservation twice (a cleanup test promises
  once), which the next recount repairs. The cleanup of a run comes before its poller
  (`upload-maintenance.service.ts:38`): a video that is ready when its term ends, with its webhook
  lost, is expired. A recount that a purge overlaps writes the bytes of deleted
  files back; a purge subtracts a file twice (once with the `StoredFile`, once with the upload) and two purges
  of one service twice more; rows admitted while their service is purged go without giving
  their reservation back; the next recount repairs each. An attachment made after the purge has deleted its
  siblings stays, without its upload and with its file; nothing deletes it.
* `Trash`: a service that outlives its purged asset freezes the placeholder as the name of
  its asset (the schema says the copy is made before), which `TitleFrozen`, about titles, does not forbid; a webhook
  between two steps of a purge attaches a video that nothing deletes.
* `Auth`: two overlapping logins use one backup code twice, and a stale write brings
  codes of an older batch back; listing the sessions twice at once may revoke both
  duplicates; disabling the app leaves the method EMAIL behind.
* `Tenants`: requests that overlap at the limit pass it, and so does an operator, for whom it is not asked
  (`check-plan-limit.guard.ts:23`, `assets.service.ts:149`); a plan sold as DEMO has no
  expiry; an upgrade that overlaps the night job leaves a paid organisation inactive;
  outstanding invitations are not counted.
* `StoredFiles`: overlapping replacements orphan the file of the loser, overlapping
  deletions count twice; an asset whose owner is refused leaks its picture; a deletion that is rejected before
  the object goes (`stored-files.service.ts:159`) leaves the replaced file without a reference, and one whose
  transaction is rejected afterwards (`:174`) leaves a row of `StoredFile` whose object is gone; a service that was
  inserted before its handler failed is left with links to files that the `catch` deletes, or half deletes; a plan below one
  gigabyte is a quota of 0, which is none.
* `Services`: the heuristic and the model may take a text for another language, and what they
  say is kept (`translation.service.ts:279`): a reader is then shown a text he does not read as one in his language.
  `description_language` survives an edit of the text; overlapping edits announce
  twice, lost announcements are not repeated; a reader who waits for the model during a permanent
  deletion writes the erased text's translation back.
* `Mailer`: an invitation whose mail failed stays and blocks the next for seven days; with its
  template off, a reset or a code is answered as sent; the requester of a plan is told before
  the plan is changed; an upgrade reopens an organisation whose last news is that it was
  suspended; news of two changes in a row may arrive in the wrong order; a reset or a code
  whose mail was refused has already ended the older one.
* `UploadQueue`: a pause before the transfer starts does not stop it, and resuming starts
  a second one; pausing while confirming leaves two loops.
* `Portal`: the counters and filters of a restricted worker count services that his list leaves
  out; the dashboard of an external reader counts services of an asset in the trash in one
  number and not in another, and archived services, which his lists, filters and counters leave out
  (`services.service.ts:1146`, `dashboard.service.ts:73`), as it is the API alone that archives; a worker whose restriction is lifted between two reads is shown
  an empty list.
* `Session`: a late answer of `/auth/me` shows who was signed in before until the next move; a
  tab whose cookie another tab replaced mixes rows of two accounts.
* `Lists`: users and owners on a phone show their first page only; when the last row of the
  last page goes, a table of users, owners, assets or services gives way to an empty state without
  buttons; "next" clicked while a search waits for the keyboard leads past the end; a
  growing list appends a page again when a refetch of it differs from what was shown, a kept answer among it, and when
  the language is switched on a page above the first (`Topbar.tsx:79`, `service/page.tsx:244`, `:296`); it is emptied when the
  same dates are picked again on its first page; the end of an endless list is not observed when a part of it
  came before the table of the same page had rows, be it that its answer was late or that the table was empty in between.
* `Offers`: the API flips the status of a user it finds, so a second click, or one on an old copy,
  does the opposite; "activate" in an owner's menu deactivates; a reset link is reported as sent to an
  inactive user, who gets none; a worker's form for an asset loses all but its picture and is refused without
  one; the drawer of an asset offers everybody its switch, its deletion and its photo; external readers
  are offered "share"; an inactive asset is offered a new service; what a restore needs is not asked
  before its button is shown; the answer to one call takes down the dialog opened meanwhile, and a
  preview that arrives late replaces it.
* `Viewer`: the answer for one video that comes after that for the next one leaves the next without a
  picture, behind a spinner that does not end, and so does a request that failed; a drawer closed over an open lightbox shows
  its lightbox again for the next service, on a video that was never asked for; a share link that
  arrives after its drawer was left is shown under the next service; the drawer of the trash offers videos, of which
  the API serves none; a list that comes back without one picture shifts the lightbox to its neighbour.
* `LiveViews`: removing an asset with its services emits no event for services, assigning an
  owner emits none; a stream that breaks after a move, before it was read, loses what
  happened meanwhile.

## Proofs

They hold for any requests, rows, sizes, limits and bounds, under the named assumptions
of the modules: natural bounds, disjoint kinds of processes, additive sizes; finite
uploads (`Uploads`, `AttachmentSnapshot`) and finitely many requests at a time (`Tenants`,
`Services`), since their proofs count them; a limit of the demo plan above zero
(`subscriptions/plan-limits.ts`); the files an organisation starts with numbered from
one (`StoredFiles`); rows of four tables with ids of their own (`Portal`); "nobody", the absence
of an account, names none (`Session`, `Mailer`). TLC evaluates each of them in a run.

`MaintenanceProofs`, of the lock: the invariant `IInv` is `LockTypeOK`, `NothingHeldAfterFinally`
and `LeaseMatchesAge`, which says that a working run whose age is within the TTL is
still the holder and that the lease has exactly the rest of the TTL left. Without it the
absence of an overlap is not inductive: the state has to say why the second run
could not acquire. `LeaseNotStolen` follows from it step by step. Of the snapshot:
`ShownNeverAhead` needs `ReadNeverAhead`, what a refresh has counted or summed is not ahead
of the attachments. Attachments only grow, so a value that was true when it was read
stays a lower bound, in whatever order refreshes write.

`UploadsProofs` builds one invariant on the other:

* `HandInv`: types; a request that is past its read has a row in hand that was admitted,
  and one that a purge lists has been erased or holds no attachment any more (`HeldBy`);
  intents under way hold ids that are fresh and pairwise disjoint. Needed because a
  write by id must hit a row that exists, or fail.
* `AttachInv`: with `AttachedOnce` and `FilesMatchAttachments`, and attached rows
  were admitted. The two need each other: for an object-store upload the index on the file
  protects the attachment only if they come together. Both are claimed of uploads that no
  purge has erased.
* `ReadyNeverOverstated` speaks of one step at a time and is carried by `TotalsBehind`: a recount
  under way that no deletion has marked (`clash`) holds sums that are not ahead of the files of now, since
  files that are not deleted only grow in number. A step that covers what it counts stays covered
  (`CoveredStep`); the write of a recount covers whenever its sums were not outdated (`RecountStep`).
* `AdmitInv`: an open admission that nobody clashed with still has a true snapshot
  (`SnapshotHolds`): every row that counts against the quota was active in the
  snapshot, and no file was added since.

Lemma `Effects` does the case split over `Next` once: every step leaves attachments
and files alone, admits rows, writes totals, publishes one upload, deletes the attachments of a
service, or deletes a file. The refinement `ImplementsRegister` and the counters are proved over
these cases; the register's `Erase` and `Recount` are the last two and the totals.

`TrashProofs`: `IInv` is `TypeOK` and `TitleFrozen` with four facts. `RowsFit`: a call
names a row of its kind. `StampsFresh`: the stamp of a removal under way is on no row
and with no other call. `StampIsBatch`: rows with one stamp were trashed by one
transaction, which `StampsFresh` keeps and `RestoredTogether` needs.
`PurgeFrozen`: a service whose purge is under way has its title frozen, since a
restore may have taken it out of the trash in between. Every action is one of four
kinds of step (`BeginStep`, `GoOnStep`, `TrashStep`, `EndStep`), each with a lemma. The
three action properties follow from who can write what: only `WriteRestore`
takes rows out, and only the removal that holds a stamp writes it.

`TenantsProofs`: `OneAccountPerInvitation` follows from `EachOnce`, an invitation that has made an
account has its address taken, which needs that a registration carries the address of the
invitation it was sent (`RequestsFit`). `LimitHolds` follows from `Room`: the assets
together with those that passed the guard stay within the limit and what an operator added to it (`beyond`), up
to one for every other request if any overlapped. `ReadRoom` says that the limit a guard has read is no
higher than the one in force, and `OneAtATime` what "no overlap" means for the state.

Of the mails, `MailsAddUp` speaks of a mailbox at rest, and `MailerInv` of one that is not: `Boxes`,
a link or code that lives is in the mailbox, on its way, or its reader has been told of
no other, and one whose reader was told has not been killed without a successor; `Notices`, the
newest news of an account, a plan or the organisation, sent or still owed by a handler, is
true; `Unasked`, a handler that read a switch as on began before it went off. An order under
way is one of the few forms in which `OrderTyped` lists what its handler has read. A step of a
handler changes its own order and adds mails, so each part has a lemma of that form.

`ServicesProofs` has one part of the invariant for each promise:

* `LanguageInv`: which text, language and status a view under way may hold (`Views`), that
  a translation in the cache is of the text its hash names (`OwnHashes`), and that
  without an edit the language of the description is one the heuristic or the model has found (`Spoken`).
* `EraseInv`: a purge that nothing overlapped is alone (`Alone`), has erased what its
  step says (`Erasing`), and leaves readers nothing to write back (`Gone`).
* `AnnounceInv`: one writer at a time, who has read what is in the row, and the
  announcements made plus those owed (`Owing`) are the publications.

Of the lists, `PagesAgree` says of each database that the queries written by different hands
select the same rows; it is proved for every database of the type, so it needs
no more than `RowsTypeCorrect`. The other two are about requests: `Followed` says that what a
request would be shown now is among what it could have been shown since it began, as long as
not both its account and the rows have changed. Lemma `SameQuery` says on what a query depends,
`ChangeIsFollowed` that a change of one of the two is followed.

`AuthProofs`: `ShapeInv` holds `NoLockout`, with `PendingReal` (a set-up under way that can be confirmed
has a secret). `ResetInv`: a reset that has revoked the sessions has left no older token
alive, which makes `ResetKillsOldTokens` a matter of its last step. `AloneInv`, for handlers that never
overlapped: a backup code is in the list until it lets somebody in (`CodesInv`), and a code or
link that was spent is marked or about to be (`MailsInv`). The second half is claimed
without faults only: a reset that dies between its statements leaves a link that works
again. `DeadTokenStaysDead` follows from who can write a session: tokens are new, and
a revoked row comes back only with another one.

Of the buttons, `OffersInv` says what may be before an account: each list holds what its page shows
to that role (`ListFit`); each button, dialog, question and call under way is one that was `Offered` to the
role with the copy of the row it was for, and a switch asks for the other state than its copy's. `ButtonsDoWhatTheySay` then needs nothing
of the past: lemma `AnswersAreHonest` takes any rows at all and any call that was offered, by kind of row, and
finds the answer to be what the label said, a refusal that the copy explains, or a named case.
`RowsStayFit` says that no handler leaves an asset active that is not live, for which an owner's drawer, which lists
active assets, offers no asset of the trash.

`StoredFilesProofs`: ids under way belong to one request (`Fresh`), which makes every other part
local. `InStore`: a registered file is in the store unless a request is between the
object and its row, or broke off there (`torn`). `NotAhead` holds whatever overlaps: deletions may count twice, and
registrations never do. `AloneInv`, without overlap: the counters are exact, what a request has read
is still so (`Current`), each registered file is in a row, in a request's hands
(`Cared`) or let go of by a named failure (`left`), no two rows share a file (`Apart`), what is being deleted or is half deleted is
in no row but those of services that failed after their insertion (`Clear`), and the watermark covers what was mailed
unless its mark was rejected (`Marked`). Every action is a call, a
quiet step or one that writes, and there is a lemma for each part and kind.

`TabProofs`, of the views: a page shows what the database says once everything has arrived, since before
that the difference is owed (`FreshPage`): an event is on its way, a handler is still to emit it, the
cache is invalid or the answer under way was read late enough. A tab that missed a part has gone
astray, which `Heard` ties to the state of its stream. Of the session: `Told`, of the
requests of `/auth/me` that are under way the newest asks with the cookie of now, and without one the tab
knows, but for the excuses of the property; `AsksFit` what each asked with; `RowsOwn` whose rows
are kept. Of the viewer: `Waits`, a spinner has its call under way,
for the very video it hides; `Plays`, a video on screen plays, or its call is under way, or something befell
it (`since`); `OneLink` and `LinkHere`, one link is asked for at a time and is of
the service on the screen unless the drawer was left; `OneVideo`, the page of a shared link asks for one. The actions only
append a call or take one out, and lemmas `Sent` and `TakenOut` say what either leaves. Of the lists: as long as
nothing excuses it, a table that was turned to a page finds rows there (`TurnedFits`, and `TypedFirst`: where no
effect follows a search, the page is the first while it waits for the keyboard), a list that grows holds its first pages once each
(`GrownFits`), and the end of an endless list is observed whenever it has one (`EndObserved`). That a row which is not on
a page is before it or after it (`Around`) rests on the order of the rows, which has all of them (`InOrderFacts`); that
an order exists is shown for the least number of rows that would have none (`OrderExists`), since induction over an operator is
out of reach. The attempt found the model too kind: with three changes of rows the end of the endless list could be lost to an
empty table unnoticed, which is now the exception it is in the code.

**Only model-checked:** the liveness properties, including those of the modules with
proofs (fairness and `ENABLED` are out of reach of TLAPS here), which is all `UploadQueue`
has. Every invariant and every action property of the runs is proved. The type invariant of `Uploads` is
proved and left out of its runs, and so is `AttachedOnce`, which the refinement says as well.

## Not modelled

The text of e-mails, the texts of two languages, the settings page and forms are
wording and layout over the API. Health only reads, and so do charts and periods. File
headers, digits of a code and addresses are parsed by pure functions. The limits of an
upload (`upload-policy.service.ts`) only reject. `proxy.ts` lets every request through; who may see a page is decided in the tab, in `Session`. The
pictures of a purged asset, owner or user are not followed. The backfills of old rows run once and meet nothing.

## Plan

1. *Done:* uploads with their lock, register and snapshot; trash; their proofs.
2. *Done:* auth, tenants, stored files, services, mails, the upload queue, live views, what the lists
   show, page by page, the session of a tab, what buttons offer and do, the viewer of a service.
3. *Done:* proofs of the safety properties of the snapshot, tenants, services, auth, stored
   files, mails, what the lists show, the live views, the session, the buttons and the viewer.
4. *Done:* the purge of a service in `Uploads`, with the attachments, files and counters it gives back.
