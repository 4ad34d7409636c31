------------------------------- MODULE MCBrowser -------------------------------
(* The small instances of what a browser shows and does, one at a time: the   *)
(* queue of videos, the pages of a reader, the mails that bring a reader there. *)
EXTENDS UploadQueue, Portal, TLC

CONSTANTS s1, s2, a1, a2, o1, o2, admin, worker, external

\* An admin, a worker who did both services, and an external user.
SmallRole   == worker :> "WORKER" @@ admin :> "ADMIN" @@ external :> "EXTERNAL"
SmallWorker == [s \in {s1, s2} |-> worker]
SmallAsset  == s1 :> a1 @@ s2 :> a2

VARIABLE instance
small == <<vars, portal, instance>>

SmallInit ==
  /\ instance \in {"queue", "reads", "mails"}
  /\ Init /\ PortalInit
  /\ db.owner = [x \in {a1, a2, external} |-> o1]
  /\ db.public = (s1 :> TRUE @@ s2 :> FALSE)
  /\ db.grants[worker] = IF db.mode[worker] = "RESTRICTED" THEN {a1} ELSE {}
  /\ instance # "reads" => db.mode[worker] = "RESTRICTED"

SmallNext ==
  /\ \/ instance = "queue" /\ Next /\ UNCHANGED portal
     \/ instance # "queue" /\ PortalChange /\ UNCHANGED vars
     \/ /\ instance = "reads"
        /\ PortalRead \/ \E s \in Services : UpdateService(s, db.public[s], TRUE)
        /\ UNCHANGED vars
     \/ instance = "mails" /\ PortalMail /\ UNCHANGED vars
  /\ UNCHANGED instance

SmallSpec == SmallInit /\ [][SmallNext]_small /\ QueueFairness
================================================================================
