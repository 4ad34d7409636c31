------------------------- MODULE AttachmentRegister -------------------------
(***************************************************************************)
(* What the upload subsystem promises about attachments, without requests, *)
(* retries, webhooks or maintenance: an upload that was admitted is turned *)
(* into an attachment at most once, whoever confirms it, unless the purge  *)
(* of its service has taken the attachment away; and until a purge begins, *)
(* the file count of the organisation never runs ahead of the attachments  *)
(* that exist.                                                             *)
(***************************************************************************)
EXTENDS Integers, FiniteSets

CONSTANT Uploads

VARIABLES admitted,   \* uploads whose intent was accepted
          published,  \* uploads that have become an attachment
          erased,     \* uploads whose attachments a purge has deleted
          counted     \* ready_file_count of the organisation

vars == <<admitted, published, erased, counted>>

TypeOK ==
  /\ admitted \subseteq Uploads
  /\ published \subseteq admitted
  /\ erased \subseteq Uploads
  /\ counted \in Nat

Init ==
  /\ admitted = {}
  /\ published = {}
  /\ erased = {}
  /\ counted = 0

\* One intent, or the whole batch of a service created with a manifest.
Admit(us) ==
  /\ us # {}
  /\ us \subseteq Uploads \ admitted
  /\ admitted' = admitted \union us
  /\ UNCHANGED <<published, erased, counted>>

Publish(u) ==
  /\ u \in admitted \ published
  /\ published' = published \union {u}
  /\ counted' = counted + 1
  /\ UNCHANGED <<admitted, erased>>

\* The attachments of a service go at once, what they count afterwards.
Erase(us) ==
  /\ us \subseteq Uploads
  /\ published' = published \ us
  /\ erased' = erased \union us
  /\ UNCHANGED <<admitted, counted>>

\* Reconciliation may lower or raise the count, never beyond what exists as
\* long as nothing was erased.
Recount ==
  /\ \/ counted' \in 0 .. counted
     \/ counted' \in 0 .. Cardinality(IF erased = {} THEN published ELSE admitted)
  /\ UNCHANGED <<admitted, published, erased>>

Next ==
  \/ \E us \in SUBSET Uploads : Admit(us) \/ Erase(us)
  \/ \E u \in Uploads : Publish(u)
  \/ Recount

Spec == Init /\ [][Next]_vars
=============================================================================
