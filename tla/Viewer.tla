------------------------------- MODULE Viewer -------------------------------
(***************************************************************************)
(* The viewer of a service: its pictures, videos and documents as the       *)
(* drawer of a page, the view inside another drawer, the drawer of the      *)
(* trash, and the page of a shared link show them, with the calls that      *)
(* their buttons make and the answers in any order.                         *)
(***************************************************************************)
EXTENDS Naturals, Sequences, FiniteSets, SequencesExt

CONSTANTS
  Services,
  RowsOf,     \* the attachments a service comes to have, oldest first: the last is yet to come
  KindOf,     \* "photo", "file" and "stream" (videos), "pdf"
  MaxSteps,   \* bound: calls, and changes by others
  MaxFlukes   \* bound: calls that fail, and answers without the URL of a picture

ASSUME ViewerAssumption == {MaxSteps, MaxFlukes} \subseteq Nat

VARIABLES
  store,     \* what the API knows
  viewer,    \* what the browser holds
  requests,  \* calls under way
  steps, flukes

viewing == <<store, viewer, requests, steps, flukes>>

None    == "none"
Unread  == <<"unread">>
Video(a) == a # None /\ KindOf[a] \in {"file", "stream"}
Photo(a) == a # None /\ KindOf[a] = "photo"
Streams == {a \in DOMAIN KindOf : KindOf[a] = "stream"}

Attached(s) == SubSeq(RowsOf[s], 1, store.has[s])

-----------------------------------------------------------------------------
(* What is on the screen.                                                   *)

ReadOnly(v) == v.surface = "trash"

\* The row of the list until the query of the drawer has answered; one of the trash has
\* no query.
DrawerRows(v) == IF v.shown = None THEN <<>>
                 ELSE IF v.cache[v.shown] # Unread /\ ~ReadOnly(v) THEN v.cache[v.shown] ELSE v.listed
DetailRows(v) == IF v.cache[v.shown] # Unread THEN v.cache[v.shown] ELSE v.listed
SharedRows(v) == IF v.cache[v.shown] # Unread THEN v.cache[v.shown] ELSE <<>>

Rows(v) == CASE v.shown = None -> <<>>
             [] v.surface \in {"drawer", "trash"} -> DrawerRows(v)
             [] v.surface = "detail" -> DetailRows(v)
             [] v.surface = "shared" -> SharedRows(v)

Visual(rows) == SelectSeq(rows, LAMBDA a : Photo(a) \/ Video(a))
Media(v)  == Visual(Rows(v))
Photos(v) == SelectSeq(Rows(v), Photo)

\* What the lightbox is open on.
OnScreen(v) == IF v.surface = "shared" THEN v.playing
               ELSE IF v.shown # None /\ v.index \in 1..Len(Media(v)) THEN Media(v)[v.index] ELSE None

\* The tiles that can be clicked: one that loads cannot.
DrawerGrid(v) == {i \in DOMAIN Media(v) : Media(v)[i] # v.loading}
DetailGrid(v) == {i \in DOMAIN Media(v) : Photo(Media(v)[i]) \/ v.loading # Media(v)[i]}
SharedGrid(v) == {a \in ToSet(Media(v)) : Video(a) /\ v.loading # a}

\* The documents that can be opened; the download of one leaves no trace in the viewer.
DrawerDocuments(v) == {a \in ToSet(Rows(v)) : ~Photo(a) /\ ~Video(a) /\ KindOf[a] = "pdf"}
DetailDocuments(v) == {a \in ToSet(Rows(v)) : KindOf[a] = "pdf"}

\* Mutant: a video has a button once any video plays.
LightboxAnyVideo(v) ==
  LET a == OnScreen(v)
  IN IF Video(a)
     THEN IF v.playing = None THEN {} ELSE IF KindOf[v.playing] = "stream" THEN {"mp4"} ELSE {"save"}
     ELSE {"save"} \union (IF Len(Photos(v)) > 1 THEN {"photos"} ELSE {})
\* The buttons of the lightbox.  A video has one once it plays: a file is fetched, of a
\* stream a copy is asked for.
DrawerLightbox(v) ==
  LET a == OnScreen(v)
  IN IF Video(a)
     THEN IF v.playing # a THEN {} ELSE IF KindOf[a] = "stream" THEN {"mp4"} ELSE {"save"}
     ELSE {"save"} \union (IF Len(Photos(v)) > 1 THEN {"photos"} ELSE {})
DetailLightbox(v) ==
  LET a == OnScreen(v)
  IN IF Photo(a) THEN {"save"} \union (IF Len(Photos(v)) > 1 THEN {"photos"} ELSE {})
     ELSE IF v.playing = a THEN IF KindOf[a] = "stream" THEN {"mp4"} ELSE {"save"} ELSE {}
SharedModal(v) == IF KindOf[v.playing] = "stream" THEN {"mp4"} ELSE {"save"}

Offered(v) == CASE OnScreen(v) = None -> {}
                [] v.surface \in {"drawer", "trash"} -> DrawerLightbox(v)
                [] v.surface = "detail" -> DetailLightbox(v)
                [] v.surface = "shared" -> SharedModal(v)

-----------------------------------------------------------------------------
(* The viewer before it is opened, and what one click starts.               *)

FreshViewer(surface, shown, cache) ==
  [surface |-> surface, shown |-> shown, listed |-> <<>>, cache |-> cache,
   index |-> 0, playing |-> None, loading |-> None, link |-> None, busy |-> {},
   meant |-> None,    \* history: what was clicked
   since |-> {},      \* history: what has befallen it since
   astray |-> FALSE,  \* history: a link was open or under way when its service was left
   saved |-> <<None, None>>]  \* history: the last file fetched: what was on the screen, what it is

ViewerInit ==
  /\ \E gone \in {{}, {CHOOSE s \in Services : TRUE}} :
       store = [has |-> [s \in Services |-> Len(RowsOf[s]) - 1], gone |-> gone, copies |-> [a \in Streams |-> "none"]]
  /\ \E surface \in {"drawer", "trash", "detail", "shared"} :
       /\ store.gone # {} <=> surface = "trash"
       /\ viewer = FreshViewer(surface, IF surface = "shared" THEN CHOOSE s \in Services : TRUE ELSE None,
                         [s \in Services |-> Unread])
  /\ requests = <<>> /\ steps = 0 /\ flukes = 0

Step  == steps < MaxSteps /\ steps' = steps + 1
Fluke == flukes < MaxFlukes /\ flukes' = flukes + 1

Req(op, a) == [op |-> op, service |-> viewer.shown, about |-> a]
Send(v, r) == viewer' = v /\ requests' = Append(requests, r) /\ UNCHANGED store
Look(v)    == viewer' = v /\ UNCHANGED <<store, requests>>
UnderWay(op) == \E i \in DOMAIN requests : requests[i].op = op
Pending(op)  == requests[CHOOSE i \in DOMAIN requests : requests[i].op = op]

OpenService(s) ==
  /\ viewer.shown = None /\ (s \in store.gone) = ReadOnly(viewer)
  /\ \E n \in {0, store.has[s]} :
       Look([viewer EXCEPT !.shown = s, !.listed = SubSeq(RowsOf[s], 1, n),
                           !.since = IF viewer.index # 0 THEN {"reopened"} ELSE {}])
  /\ UNCHANGED <<steps, flukes>>

\* The drawer of a page stays mounted, with all its state; the others are unmounted, and
\* what is on its way to them is for nobody.
Close ==
  /\ viewer.shown # None /\ viewer.surface # "shared"
  /\ IF viewer.surface = "drawer"
     THEN Look([viewer EXCEPT !.shown = None, !.astray = @ \/ viewer.link # None \/ UnderWay("link")])
     ELSE /\ viewer' = FreshViewer(viewer.surface, None, viewer.cache)
          /\ requests' = IF UnderWay("detail") THEN <<Pending("detail")>> ELSE <<>>
          /\ UNCHANGED store
  /\ UNCHANGED <<steps, flukes>>

\* The query of the service: at first, on an event, every five minutes.
FetchDetail ==
  /\ viewer.shown # None /\ ~ReadOnly(viewer) /\ ~UnderWay("detail") /\ Step
  /\ viewer.surface = "shared" => viewer.cache[viewer.shown] = Unread
  /\ Send(viewer, Req("detail", None))
  /\ UNCHANGED flukes

\* The effect that follows a change of the index.
DrawerEffect(v) == IF Video(OnScreen(v)) /\ v.shown # None
                   THEN [v EXCEPT !.playing = None, !.loading = OnScreen(v)] ELSE [v EXCEPT !.playing = None]
DetailEffect(v) == IF Video(OnScreen(v))
                   THEN [v EXCEPT !.playing = None, !.loading = OnScreen(v)] ELSE [v EXCEPT !.playing = None]

\* Nothing happens on a click on what is selected.
Index(i) ==
  LET v == [viewer EXCEPT !.index = i, !.since = {}]
      w == [v EXCEPT !.meant = OnScreen(v)]
  IN /\ i # viewer.index
     /\ IF Video(w.meant)
        THEN /\ Step
             /\ Send(IF viewer.surface = "detail" THEN DetailEffect(w) ELSE DrawerEffect(w), Req("play", w.meant))
        ELSE Look(DrawerEffect(w)) /\ UNCHANGED steps
     /\ UNCHANGED flukes

Pick(i) ==
  /\ viewer.surface # "shared" /\ OnScreen(viewer) = None
  /\ i \in (IF viewer.surface = "detail" THEN DetailGrid(viewer) ELSE DrawerGrid(viewer))
  /\ Index(i)

\* Arrows, swipes, and the strip of tiles.
StepTo(i) == /\ viewer.surface # "shared" /\ OnScreen(viewer) # None
             /\ i \in DOMAIN Media(viewer) /\ Index(i)

CloseLightbox ==
  /\ OnScreen(viewer) # None
  /\ IF viewer.surface = "shared" THEN Look([viewer EXCEPT !.playing = None]) /\ UNCHANGED <<steps, flukes>>
     ELSE Index(0)

\* On the shared page one video loads at a time.
PlayShared(a) ==
  /\ viewer.surface = "shared" /\ viewer.playing = None
  /\ a \in SharedGrid(viewer) /\ viewer.loading = None
  /\ Step /\ Send([viewer EXCEPT !.loading = a, !.meant = a], Req("play", a))
  /\ UNCHANGED flukes

\* What is fetched is the file on the screen; of a video, the one that plays.
SaveCurrent ==
  /\ "save" \in Offered(viewer)
  /\ LET a == OnScreen(viewer)
     IN Look([viewer EXCEPT !.saved = <<a, IF Video(a) THEN viewer.playing ELSE a>>])
  /\ UNCHANGED <<steps, flukes>>

\* A button with a spinner: not again before its answer.
Press(op, a) == /\ op \notin viewer.busy /\ Step
              /\ Send([viewer EXCEPT !.busy = @ \union {op}], Req(op, a))
              /\ UNCHANGED flukes

AskCopy   == "mp4" \in Offered(viewer) /\ Press("mp4", OnScreen(viewer))
AskPhotos == "photos" \in Offered(viewer) /\ Press("photos", None)
AskLink   == /\ viewer.shown # None /\ viewer.surface \in {"drawer", "detail"}
             /\ OnScreen(viewer) = None /\ viewer.link = None /\ Press("link", None)
CloseLink == /\ viewer.shown # None /\ viewer.link # None
             /\ Look([viewer EXCEPT !.link = None, !.astray = FALSE]) /\ UNCHANGED <<steps, flukes>>

AskDocument(a) ==
  /\ viewer.shown # None /\ viewer.surface # "shared" /\ OnScreen(viewer) = None
  /\ a \in (IF viewer.surface = "detail" THEN DetailDocuments(viewer) ELSE DrawerDocuments(viewer))
  /\ Press("pdf", a)

-----------------------------------------------------------------------------
(* The API and its answers.                                                 *)

\* None serves a service in the trash; what is on a page is fetched from the store.
Serves(r) == r.op = "photos" \/ r.service \notin store.gone

Answered(i) == requests' = RemoveAt(requests, i)
Told(v, i) == viewer' = v /\ Answered(i)

\* The service as of now; a picture whose URL cannot be had is left out.
DetailArrives(i) ==
  /\ requests[i].op = "detail" /\ Serves(requests[i])
  /\ \E dark \in {{}} \union {{a} : a \in {b \in ToSet(Attached(requests[i].service)) : Photo(b)}} :
       LET rows == SelectSeq(Attached(requests[i].service), LAMBDA a : a \notin dark)
           v == [viewer EXCEPT !.cache[requests[i].service] = rows]
       IN /\ IF dark = {} THEN UNCHANGED flukes ELSE Fluke
          /\ Told([v EXCEPT !.since = IF OnScreen(v) # OnScreen(viewer) THEN @ \union {"shifted"} ELSE @], i)
  /\ UNCHANGED <<store, steps>>

\* The last answer plays, whichever is on the screen.
PlaybackArrives(i) ==
  LET a == requests[i].about
  IN /\ requests[i].op = "play" /\ Serves(requests[i])
     /\ Told([viewer EXCEPT !.playing = a,
                !.loading = IF @ = a \/ viewer.surface = "shared" THEN None ELSE @,
                !.since = IF viewer.surface # "shared" /\ viewer.playing # None /\ viewer.playing = OnScreen(viewer)
                             /\ a # viewer.playing THEN @ \union {"overtaken"} ELSE @], i)
     /\ UNCHANGED <<store, steps, flukes>>

PlaybackFails(i) ==
  LET a == requests[i].about
  IN /\ requests[i].op = "play" /\ IF Serves(requests[i]) THEN Fluke ELSE UNCHANGED flukes
     /\ Told([viewer EXCEPT !.loading = IF @ = a \/ viewer.surface = "shared" THEN None ELSE @,
                            !.since = IF OnScreen(viewer) = a THEN @ \union {"failed"} ELSE @], i)
     /\ UNCHANGED <<store, steps>>

LinkArrives(i) ==
  /\ requests[i].op = "link" /\ Serves(requests[i])
  /\ Told([viewer EXCEPT !.link = requests[i].service, !.busy = @ \ {"link"}], i)
  /\ UNCHANGED <<store, steps, flukes>>

\* Cloudflare makes a copy when it is first asked for one, and says how far it is.
EnableStreamDownloads(a) == IF store.copies[a] = "none" THEN "inprogress" ELSE store.copies[a]
CopyArrives(i) ==
  LET a == requests[i].about
      now == EnableStreamDownloads(a)
  IN /\ requests[i].op = "mp4" /\ Serves(requests[i])
     /\ store' = [store EXCEPT !.copies[a] = now]
     /\ Told([viewer EXCEPT !.busy = @ \ {"mp4"}, !.saved = IF now = "ready" THEN <<a, a>> ELSE @], i)
     /\ UNCHANGED <<steps, flukes>>

FileArrives(i) ==
  /\ requests[i].op \in {"photos", "pdf"} /\ Serves(requests[i])
  /\ Told([viewer EXCEPT !.busy = @ \ {requests[i].op}], i)
  /\ UNCHANGED <<store, steps, flukes>>

\* finally.
Fails(i) ==
  /\ requests[i].op # "play" /\ IF Serves(requests[i]) THEN Fluke ELSE UNCHANGED flukes
  /\ Told([viewer EXCEPT !.busy = @ \ {requests[i].op}], i)
  /\ UNCHANGED <<store, steps>>

\* Other people, and Cloudflare.
Attach(s) == /\ store.has[s] < Len(RowsOf[s]) /\ Step
             /\ store' = [store EXCEPT !.has[s] = @ + 1] /\ UNCHANGED <<viewer, requests, flukes>>
TrashIt(s) == /\ s \notin store.gone /\ Step
              /\ store' = [store EXCEPT !.gone = @ \union {s}] /\ UNCHANGED <<viewer, requests, flukes>>
CopyReady(a) == /\ store.copies[a] = "inprogress"
                /\ store' = [store EXCEPT !.copies[a] = "ready"] /\ UNCHANGED <<viewer, requests, steps, flukes>>

ViewerNext ==
  \/ Close \/ FetchDetail \/ CloseLightbox \/ SaveCurrent \/ AskCopy \/ AskPhotos \/ AskLink \/ CloseLink
  \/ \E s \in Services : OpenService(s) \/ Attach(s) \/ TrashIt(s)
  \/ \E i \in DOMAIN Media(viewer) : Pick(i) \/ StepTo(i)
  \/ \E a \in DOMAIN KindOf : PlayShared(a) \/ AskDocument(a)
  \/ \E a \in Streams : CopyReady(a)
  \/ \E i \in DOMAIN requests :
       DetailArrives(i) \/ PlaybackArrives(i) \/ PlaybackFails(i) \/ LinkArrives(i) \/ CopyArrives(i)
       \/ FileArrives(i) \/ Fails(i)

ViewerSpec == ViewerInit /\ [][ViewerNext]_viewing

-----------------------------------------------------------------------------
(* Properties.                                                              *)

Quiet == requests = <<>>

\* No button and no tile waits for an answer that will not come.
NothingWaits == Quiet => viewer.busy = {} /\ viewer.loading = None
\* The video on the screen plays, unless its call failed, the answer for another came
\* after its own, or it is on the screen without a click.
VideoPlays == Quiet /\ Video(OnScreen(viewer)) => viewer.playing = OnScreen(viewer) \/ viewer.since # {}
\* What is on the screen is what was clicked, unless the drawer kept its index for
\* another service or the list moved under it.
ShowsClicked ==
  viewer.shown # None /\ OnScreen(viewer) # None =>
    OnScreen(viewer) = viewer.meant \/ viewer.since \intersect {"reopened", "shifted"} # {}
\* The link on the screen is of the service on the screen, unless that was left with the
\* link open or on its way.
LinkOfShown == viewer.shown # None /\ viewer.link # None => viewer.link = viewer.shown \/ viewer.astray

\* The viewer settles on what was clicked: at rest nothing waits, the video on the screen
\* plays, it is the one that was clicked, the link is of this service, and a file that was
\* fetched was the one on the screen; save for the four upsets named above.
ViewerSettles ==
  NothingWaits /\ VideoPlays /\ ShowsClicked /\ LinkOfShown /\ viewer.saved[1] = viewer.saved[2]
=============================================================================
