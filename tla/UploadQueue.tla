------------------------------ MODULE UploadQueue ------------------------------
(***************************************************************************)
(* The queue of videos in a browser tab (UploadQueueProvider): the items   *)
(* React renders, the transfers of tus-js-client in uploadsRef, the loops  *)
(* that confirm a video, and the clicks whose call has not been answered.  *)
(* Callbacks of one tab interleave at their awaits only.                   *)
(*                                                                          *)
(* A transfer t goes through findPreviousUploads (looking), sends (running) *)
(* and then confirms: confirming, and while Cloudflare encodes the video,   *)
(* a timer and a call in turn.                                              *)
(***************************************************************************)
EXTENDS Naturals, FiniteSets

CONSTANTS Items,       \* videos, numbered in the order they are enqueued
          Transfers,   \* objects of tus-js-client that exist at a time
          Clicks,      \* calls of the drawer under way at a time
          Concurrency, \* uploadConcurrency
          MaxPolls,    \* bound on the attempts of pollStreamConfirm
          MaxClicks    \* bound: clicks and reloads in a behaviour

ASSUME ItemsAssumption == Items \subseteq Nat \ {0} /\ 0 \notin Transfers
ASSUME BoundAssumption == Concurrency \in Nat \ {0} /\ MaxPolls \in Nat /\ MaxClicks \in Nat

VARIABLES
  item,   \* the items as they are rendered
  ref,    \* uploadsRef: the transfer of an item, 0 for none
  tr,     \* the transfers
  click,  \* the calls of the drawer
  srv,    \* the upload as the API knows it
  clicks  \* clicks so far

vars == <<item, ref, tr, click, srv, clicks>>

Status == {"absent", "queued", "uploading", "paused", "confirming", "completed", "failed",
           "needs_file"}
Phases == {"none", "looking", "running", "confirming", "timer", "polling"}
Video    == [st : Status, intent : BOOLEAN]
Transfer == [item : Items \union {0}, phase : Phases, attempt : 0 .. MaxPolls]
Call     == [item : Items \union {0}, op : {"none", "cancel", "retry"}]
NoTransfer == [item |-> 0, phase |-> "none", attempt |-> 0]
NoCall     == [item |-> 0, op |-> "none"]

TypeOK ==
  /\ item \in [Items -> Video]
  /\ ref \in [Items -> Transfers \union {0}]
  /\ tr \in [Transfers -> Transfer]
  /\ click \in [Clicks -> Call]
  /\ srv \in [Items -> {"open", "stored", "confirmed", "cancelled"}]
  /\ clicks \in 0 .. MaxClicks

Init ==
  /\ item = [i \in Items |-> [st |-> "absent", intent |-> FALSE]]
  /\ ref = [i \in Items |-> 0]
  /\ tr = [t \in Transfers |-> NoTransfer]
  /\ click = [c \in Clicks |-> NoCall]
  /\ srv = [i \in Items |-> "open"]
  /\ clicks = 0

-----------------------------------------------------------------------------
Is(i, st) == item[i].st = st
\* patchItem: what is not in the list any more is let be.
Patched(i, st) == IF Is(i, "absent") THEN item ELSE [item EXCEPT ![i].st = st]
Patch(i, st) == item' = Patched(i, st)

Phase(t, phase) == tr' = [tr EXCEPT ![t].phase = phase]
End(t) == tr' = [tr EXCEPT ![t] = NoTransfer]
Forget(i) == ref' = [ref EXCEPT ![i] = 0]

Occupied == {i \in Items : item[i].st \in {"uploading", "confirming"}}
Waiting  == {i \in Items : Is(i, "queued") /\ item[i].intent}

-----------------------------------------------------------------------------
(* The transfers.                                                           *)

\* A video and the intent that createIntent gave for it.
Enqueue(i) ==
  /\ Is(i, "absent") /\ srv[i] = "open"
  /\ \A j \in Items : j > i => Is(j, "absent") /\ srv[j] = "open"
  /\ \A j \in Items : j < i => ~Is(j, "absent")
  /\ item' = [item EXCEPT ![i] = [st |-> "queued", intent |-> TRUE]]
  /\ UNCHANGED <<ref, tr, click, srv, clicks>>

First == CHOOSE i \in Waiting : \A j \in Waiting : i <= j

Started ==
  /\ ref[First] = 0
  /\ \E t \in Transfers :
       /\ tr[t] = NoTransfer /\ \A u \in Transfers : u < t => tr[u] # NoTransfer
       /\ tr' = [tr EXCEPT ![t] = [item |-> First, phase |-> "looking", attempt |-> 0]]
       /\ ref' = [ref EXCEPT ![First] = t]
  /\ Patch(First, "uploading")
  /\ UNCHANGED <<click, srv, clicks>>

\* The effect that runs whenever the items change: the first that waits, as
\* long as there is room.  If it still has a transfer, nothing starts.
StartNext ==
  /\ Cardinality(Occupied) < Concurrency
  /\ Waiting # {}
  /\ Started

\* start() follows findPreviousUploads, even if abort() came in between.
Found(t) ==
  /\ tr[t].phase = "looking"
  /\ Phase(t, "running")
  /\ UNCHANGED <<item, ref, click, srv, clicks>>

Progress(t) ==
  /\ tr[t].phase = "running"
  /\ Patch(tr[t].item, "uploading")
  /\ UNCHANGED <<ref, tr, click, srv, clicks>>

\* The bytes are there: the item leaves the map and asks for its confirmation.
Succeed(t) ==
  LET i == tr[t].item IN
  /\ tr[t].phase = "running"
  /\ Forget(i)
  /\ Patch(i, "confirming")
  /\ Phase(t, "confirming")
  /\ srv' = [srv EXCEPT ![i] = IF @ = "open" THEN "stored" ELSE @]
  /\ UNCHANGED <<click, clicks>>

\* Mutant: the item keeps its place.
FailSilently(t) ==
  /\ tr[t].phase \in {"looking", "running"}
  /\ Forget(tr[t].item) /\ End(t)
  /\ UNCHANGED <<item, click, srv, clicks>>

\* onError, after the retries of tus-js-client, or findPreviousUploads.
TransferFails(t) ==
  /\ tr[t].phase \in {"looking", "running"}
  /\ Forget(tr[t].item) /\ End(t)
  /\ Patch(tr[t].item, "failed")
  /\ UNCHANGED <<click, srv, clicks>>

-----------------------------------------------------------------------------
(* Confirmation.                                                            *)

Asking(t) == tr[t].phase \in {"confirming", "polling"}

\* The API attaches the video, or had already.
Confirmed(t) ==
  /\ Asking(t)
  /\ srv[tr[t].item] \in {"stored", "confirmed"}
  /\ srv' = [srv EXCEPT ![tr[t].item] = "confirmed"]
  /\ Patch(tr[t].item, "completed")
  /\ End(t)
  /\ UNCHANGED <<ref, click, clicks>>

\* PROCESSING: the next attempt in three seconds, unless that was the last one.
Processing(t) ==
  LET i == tr[t].item
      next == IF tr[t].phase = "confirming" THEN 0 ELSE tr[t].attempt + 1 IN
  /\ Asking(t)
  /\ srv[i] \in {"open", "stored"}
  /\ IF next > MaxPolls
     THEN Patch(i, "failed") /\ End(t)
     ELSE /\ IF tr[t].phase = "confirming" THEN Patch(i, "confirming") ELSE UNCHANGED item
          /\ tr' = [tr EXCEPT ![t] = [@ EXCEPT !.phase = "timer", !.attempt = next]]
  /\ UNCHANGED <<ref, click, srv, clicks>>

Poll(t) ==
  /\ tr[t].phase = "timer"
  /\ Phase(t, "polling")
  /\ UNCHANGED <<item, ref, click, srv, clicks>>

\* The call is rejected or its answer lost, whatever it has done.
ConfirmFails(t) ==
  /\ Asking(t)
  /\ Patch(tr[t].item, "failed")
  /\ End(t)
  /\ \/ UNCHANGED srv
     \/ srv[tr[t].item] = "stored" /\ srv' = [srv EXCEPT ![tr[t].item] = "confirmed"]
  /\ UNCHANGED <<ref, click, clicks>>

-----------------------------------------------------------------------------
(* The buttons of the drawer.                                               *)

Clicked(i) ==
  /\ ~Is(i, "absent")
  /\ clicks < MaxClicks /\ clicks' = clicks + 1
Asked(i, op) ==
  \E c \in Clicks :
    /\ click[c] = NoCall /\ \A d \in Clicks : d < c => click[d] # NoCall
    /\ click' = [click EXCEPT ![c] = [item |-> i, op |-> op]]
Looking(i) == ref[i] # 0 /\ tr[ref[i]].phase = "looking"

\* abort() ends a transfer that runs; one that looks for an earlier upload goes on.
Abort(i) ==
  /\ Forget(i)
  /\ tr' = IF ref[i] # 0 /\ ~Looking(i) THEN [tr EXCEPT ![ref[i]] = NoTransfer] ELSE tr

\* The button is there while a video is confirmed, too.
Pause(i) ==
  /\ i \in Occupied
  /\ Clicked(i)
  /\ Abort(i)
  /\ Patch(i, "paused")
  /\ UNCHANGED <<click, srv>>

Resume(i) ==
  /\ Is(i, "paused")
  /\ Clicked(i)
  /\ Patch(i, IF item[i].intent THEN "queued" ELSE "needs_file")
  /\ UNCHANGED <<ref, tr, click, srv>>

Cancel(i) ==
  /\ ~Is(i, "completed")
  /\ Clicked(i)
  /\ Abort(i)
  /\ Asked(i, "cancel")
  /\ UNCHANGED <<item, srv>>

\* Whatever the API says, the item leaves the list.
Cancelled(c) ==
  LET i == click[c].item IN
  /\ click[c].op = "cancel"
  /\ click' = [click EXCEPT ![c] = NoCall]
  /\ item' = [item EXCEPT ![i] = [st |-> "absent", intent |-> FALSE]]
  /\ \/ srv[i] # "confirmed" /\ srv' = [srv EXCEPT ![i] = "cancelled"]
     \/ UNCHANGED srv
  /\ UNCHANGED <<ref, tr, clicks>>

\* A new intent, for a video that failed or for the file that was chosen again.
Retry(i) ==
  /\ item[i].st \in {"failed", "needs_file"}
  /\ Clicked(i)
  /\ Asked(i, "retry")
  /\ UNCHANGED <<item, ref, tr, srv>>

Retried(c) ==
  LET i == click[c].item IN
  /\ click[c].op = "retry"
  /\ srv[i] # "confirmed"
  /\ click' = [click EXCEPT ![c] = NoCall]
  /\ srv' = [srv EXCEPT ![i] = "open"]
  /\ item' = IF Is(i, "absent") THEN item
             ELSE [item EXCEPT ![i] = [st |-> "queued", intent |-> TRUE]]
  /\ UNCHANGED <<ref, tr, clicks>>

\* retryUpload lets the error pass; attachFileToUpload shows the item as failed.
RetryFails(c) ==
  LET i == click[c].item IN
  /\ click[c].op = "retry"
  /\ click' = [click EXCEPT ![c] = NoCall]
  /\ IF Is(i, "needs_file") THEN Patch(i, "failed") ELSE UNCHANGED item
  /\ UNCHANGED <<ref, tr, srv, clicks>>

\* The tab is loaded again: of the list only what was not completed is left,
\* without its file and its intent.
Reload ==
  /\ clicks < MaxClicks /\ clicks' = clicks + 1
  /\ \E i \in Items : ~Is(i, "absent")
  /\ item' = [i \in Items |->
       IF item[i].st \in {"absent", "completed"} THEN [st |-> "absent", intent |-> FALSE]
       ELSE [st |-> "needs_file", intent |-> FALSE]]
  /\ ref' = [i \in Items |-> 0]
  /\ tr' = [t \in Transfers |-> NoTransfer]
  /\ click' = [c \in Clicks |-> NoCall]
  /\ UNCHANGED srv

\* The webhook of Cloudflare, or the maintenance job, attaches the video.
Webhook(i) ==
  /\ srv[i] = "stored"
  /\ srv' = [srv EXCEPT ![i] = "confirmed"]
  /\ UNCHANGED <<item, ref, tr, click, clicks>>

-----------------------------------------------------------------------------
Button(i) == Pause(i) \/ Resume(i) \/ Cancel(i) \/ Retry(i)
Answered(c) == Cancelled(c) \/ Retried(c) \/ RetryFails(c)
Finishes(t) == Succeed(t) \/ TransferFails(t)
Confirms(t) == Confirmed(t) \/ Processing(t) \/ Poll(t) \/ ConfirmFails(t)

Next ==
  \/ StartNext \/ Reload
  \/ \E i \in Items : Enqueue(i) \/ Button(i) \/ Webhook(i)
  \/ \E t \in Transfers : Found(t) \/ Progress(t) \/ Finishes(t) \/ Confirms(t)
  \/ \E c \in Clicks : Answered(c)

Spec == Init /\ [][Next]_vars

\* React runs the effect, tus-js-client calls back in the end, and the calls of
\* the API are answered or rejected.
QueueFairness ==
  /\ WF_vars(StartNext)
  /\ \A t \in Transfers : WF_vars(Found(t)) /\ WF_vars(Finishes(t)) /\ WF_vars(Confirms(t))
  /\ \A c \in Clicks : WF_vars(Answered(c))

FairSpec == Spec /\ QueueFairness

-----------------------------------------------------------------------------
(* Properties.                                                              *)

\* A video that waits gets its turn: what is sent or confirmed before it always
\* gives its place back (the effect of the provider).
EveryVideoStarts == \A i \in Items : Is(i, "queued") ~> ~Is(i, "queued")
===============================================================================
