----------------------------- MODULE TrashProofs -----------------------------
(***************************************************************************)
(* Proofs about Trash, for any owners, assets, services, users and number  *)
(* of requests.  The inductive invariant says, next to the types, that a   *)
(* request names a row of its kind, that the stamp of a removal under way  *)
(* is on no row and with no other request, that rows with one stamp were   *)
(* trashed together, and that a service keeps its title from the moment it *)
(* is trashed until after its purge.                                       *)
(***************************************************************************)
EXTENDS Trash, TLAPS

Working == Removals \union Restores \union {"purge"}

RowFits(q) ==
  /\ q.op \in Working => q.row \in Rows
  /\ q.op \in {"removeOwner", "restoreOwner"} => q.row \in Owners
  /\ q.op \in {"removeAsset", "restoreAsset"} => q.row \in Assets
  /\ q.op = "removeService" => q.row \in Services
  /\ q.op = "removeUser" => q.row \in Users
  /\ q.op \in Working <=> q.stamp \in Stamps

RowsFit == \A r \in Requests : RowFits(requests[r])

StampsFresh ==
  \A r \in Requests :
    requests[r].op \in Removals =>
      /\ \A x \in Rows : deleted[x] # requests[r].stamp
      /\ \A t \in Requests : t # r => requests[t].stamp # requests[r].stamp

StampIsBatch ==
  \A x, y \in Rows :
    deleted[x] \in Stamps /\ deleted[x] = deleted[y] => y \in batch[x]

\* A service whose purge is under way has its title frozen already.
PurgeFrozen ==
  \A r \in Requests :
    requests[r].op = "purge" /\ requests[r].row \in Services
      => snapshot[requests[r].row].title = "real"

IInv == TypeOK /\ RowsFit /\ StampsFresh /\ StampIsBatch /\ TitleFrozen /\ PurgeFrozen

-----------------------------------------------------------------------------
LEMMA IdleType ==
  /\ Idle \in Request /\ Done \in Request
  /\ Idle.op = "idle" /\ Done.op = "done"
  /\ Idle.stamp = Live /\ Done.stamp = Live
PROOF
  BY DEF Idle, Done, Request, Text

\* What a fresh request holds.
LEMMA RemovalType ==
  ASSUME NEW op \in Working,
         NEW x \in Rows, NEW stamp \in Stamps, NEW with \in SUBSET Options,
         NEW next \in {"assets", "services", "attachments", "uploads", "write"}
  PROVE  /\ Removal(op, x, stamp, with, next) \in Request
         /\ Removal(op, x, stamp, with, next).op = op
         /\ Removal(op, x, stamp, with, next).row = x
         /\ Removal(op, x, stamp, with, next).stamp = stamp
PROOF
  BY DEF Removal, Idle, Request, Text, Working

LEMMA NamedType ==
  ASSUME NEW q \in Request, NEW n \in Text
  PROVE  /\ [q EXCEPT !.asset_name = n] \in Request
         /\ [q EXCEPT !.asset_name = n].op = q.op
         /\ [q EXCEPT !.asset_name = n].row = q.row
         /\ [q EXCEPT !.asset_name = n].stamp = q.stamp
PROOF
  BY DEF Request

LEMMA InitIInv == Init => IInv
PROOF
  <1> SUFFICES ASSUME Init PROVE IInv
    OBVIOUS
  <1> USE DEF Init
  <1>1. \A r \in Requests : requests[r] = Idle
    OBVIOUS
  <1>2. TypeOK
    BY IdleType, RelationsAssumption DEF TypeOK, Text
  <1>3. RowsFit
    BY <1>1, IdleType, LiveAssumption
    DEF RowsFit, RowFits, Working, Removals, Restores
  <1>4. StampsFresh /\ PurgeFrozen
    BY <1>1, IdleType DEF StampsFresh, PurgeFrozen, Removals
  <1>5. StampIsBatch
    BY LiveAssumption DEF StampIsBatch
  <1>6. TitleFrozen
    BY DEF TitleFrozen, Rows
  <1> QED
    BY <1>2, <1>3, <1>4, <1>5, <1>6 DEF IInv

\* A request that starts: rows are unchanged, and its stamp is new or is on
\* a row.
LEMMA BeginStep ==
  ASSUME IInv, NEW r \in Requests, NEW q \in Request, Begin(r, q),
         q.op \in Working, RowFits(q),
         \/ q.stamp \in NewStamps
         \/ q.op \notin Removals /\ \E x \in Rows : deleted[x] = q.stamp,
         q.op = "purge" /\ q.row \in Services => deleted[q.row] # Live
  PROVE  IInv'
PROOF
  <1> USE DEF IInv
  <1>1. /\ requests' = [requests EXCEPT ![r] = q]
        /\ requests[r] = Idle
        /\ UNCHANGED <<deleted, purged, owner_id, snapshot, attached, uploads, batch>>
    BY DEF Begin, rows
  <1>2. requests \in [Requests -> Request]
    BY DEF TypeOK
  <1>3. /\ requests'[r] = q
        /\ \A t \in Requests : t # r => requests'[t] = requests[t]
    BY <1>1, <1>2
  <1>4. TypeOK'
    BY <1>1, <1>2 DEF TypeOK
  <1>5. RowsFit'
    BY <1>3 DEF RowsFit, RowFits
  <1>6. StampsFresh'
    <2> SUFFICES ASSUME NEW t \in Requests, requests'[t].op \in Removals
                 PROVE  /\ \A x \in Rows : deleted[x] # requests'[t].stamp
                        /\ \A u \in Requests : u # t => requests'[u].stamp # requests'[t].stamp
      BY <1>1 DEF StampsFresh
    <2>1. CASE t = r
      BY <2>1, <1>3 DEF NewStamps
    <2>2. CASE t # r
      <3>1. /\ requests[t].op \in Removals
            /\ \A x \in Rows : deleted[x] # requests[t].stamp
            /\ \A u \in Requests : u # t => requests[u].stamp # requests[t].stamp
        BY <2>2, <1>3 DEF StampsFresh
      <3>2. q.stamp # requests[t].stamp
        BY <3>1 DEF NewStamps
      <3> QED
        BY <3>1, <3>2, <2>2, <1>3
    <2> QED
      BY <2>1, <2>2
  <1>7. StampIsBatch' /\ TitleFrozen'
    BY <1>1 DEF StampIsBatch, TitleFrozen
  <1>8. PurgeFrozen'
    BY <1>1, <1>3 DEF PurgeFrozen, TitleFrozen
  <1> QED
    BY <1>4, <1>5, <1>6, <1>7, <1>8

\* A request that has read more, or has cleared what hangs on its row.
LEMMA GoOnStep ==
  ASSUME IInv, NEW r \in Requests, NEW q \in Request,
         requests' = [requests EXCEPT ![r] = q],
         q.op = requests[r].op, q.row = requests[r].row, q.stamp = requests[r].stamp,
         UNCHANGED <<deleted, purged, owner_id, snapshot, batch>>,
         attached' \subseteq attached, uploads' \subseteq uploads
  PROVE  IInv'
PROOF
  <1> USE DEF IInv
  <1>1. requests \in [Requests -> Request]
    BY DEF TypeOK
  <1>2. \A t \in Requests : /\ requests'[t].op = requests[t].op
                            /\ requests'[t].row = requests[t].row
                            /\ requests'[t].stamp = requests[t].stamp
    BY <1>1
  <1>3. TypeOK'
    BY <1>1 DEF TypeOK
  <1>4. RowsFit'
    BY <1>2 DEF RowsFit, RowFits
  <1>5. StampsFresh'
    BY <1>2 DEF StampsFresh
  <1>6. StampIsBatch' /\ TitleFrozen' /\ PurgeFrozen'
    BY <1>2 DEF StampIsBatch, TitleFrozen, PurgeFrozen
  <1> QED
    BY <1>3, <1>4, <1>5, <1>6

\* A removal that writes: all the rows it trashes get its stamp, and each of
\* the services among them its title.
LEMMA TrashStep ==
  ASSUME IInv, NEW r \in Requests, requests[r].op \in Removals,
         NEW X \in SUBSET Rows, MoveToTrash(X, requests[r].stamp), Finish(r),
         snapshot' \in [Services -> [title : Text, asset_name : Text]],
         \A s \in Services \intersect X : snapshot'[s].title = "real",
         \A s \in Services \ X : snapshot'[s] = snapshot[s]
  PROVE  IInv'
PROOF
  <1> DEFINE stamp == requests[r].stamp
  <1> USE DEF IInv
  <1>1. /\ deleted' = [x \in Rows |-> IF x \in X THEN stamp ELSE deleted[x]]
        /\ batch' = [x \in Rows |-> IF x \in X THEN X ELSE batch[x]]
        /\ UNCHANGED <<purged, owner_id, attached, uploads>>
        /\ requests' = [requests EXCEPT ![r] = Done]
    BY DEF MoveToTrash, Finish
  <1>2. requests \in [Requests -> Request] /\ stamp \in Stamps
    BY DEF TypeOK, RowsFit, RowFits, Working
  <1>3. /\ requests'[r] = Done
        /\ \A t \in Requests : t # r => requests'[t] = requests[t]
    BY <1>1, <1>2
  <1>4. TypeOK'
    BY <1>1, <1>2, IdleType DEF TypeOK
  <1>5. RowsFit'
    BY <1>3, IdleType, LiveAssumption DEF RowsFit, RowFits, Working, Removals, Restores
  <1>6. StampsFresh'
    <2> SUFFICES ASSUME NEW t \in Requests, requests'[t].op \in Removals
                 PROVE  /\ \A x \in Rows : deleted'[x] # requests'[t].stamp
                        /\ \A u \in Requests : u # t => requests'[u].stamp # requests'[t].stamp
      BY DEF StampsFresh
    <2>1. t # r /\ requests'[t] = requests[t]
      BY <1>3, IdleType DEF Removals
    <2>2. /\ \A x \in Rows : deleted[x] # requests[t].stamp
          /\ \A u \in Requests : u # t => requests[u].stamp # requests[t].stamp
      BY <2>1 DEF StampsFresh
    <2>3. stamp # requests[t].stamp
      BY <2>1, <2>2
    <2>4. requests[t].stamp \in Stamps
      BY <2>1 DEF RowsFit, RowFits, Working
    <2>5. \A u \in Requests : u # t => requests'[u].stamp # requests[t].stamp
      BY <2>2, <2>4, <1>3, IdleType, LiveAssumption
    <2> QED
      BY <2>1, <2>2, <2>3, <2>5, <1>1
  <1>7. StampIsBatch'
    <2>1. \A x \in Rows : deleted[x] # stamp
      BY DEF StampsFresh
    <2> QED
      BY <2>1, <1>1 DEF StampIsBatch
  <1>8. TitleFrozen'
    BY <1>1 DEF TitleFrozen, Rows
  <1>9. PurgeFrozen'
    BY <1>3, IdleType DEF PurgeFrozen
  <1> QED
    BY <1>4, <1>5, <1>6, <1>7, <1>8, <1>9

\* A request that ends, taking rows out of the trash or purging one whose
\* title is frozen, or changing nothing.
LEMMA EndStep ==
  ASSUME IInv, NEW r \in Requests, Finish(r), NEW X \in SUBSET Rows,
         deleted' = [x \in Rows |-> IF x \in X THEN Live ELSE deleted[x]],
         purged' \subseteq Rows, purged \subseteq purged',
         \A s \in Services \intersect purged' :
            s \in purged \/ snapshot[s].title = "real",
         UNCHANGED <<owner_id, snapshot, attached, uploads, batch>>
  PROVE  IInv'
PROOF
  <1> USE DEF IInv
  <1>1. requests' = [requests EXCEPT ![r] = Done] /\ requests \in [Requests -> Request]
    BY DEF Finish, TypeOK
  <1>2. /\ requests'[r] = Done
        /\ \A t \in Requests : t # r => requests'[t] = requests[t]
    BY <1>1
  <1>3. TypeOK'
    BY <1>1, IdleType DEF TypeOK
  <1>4. RowsFit'
    BY <1>2, IdleType, LiveAssumption DEF RowsFit, RowFits, Working, Removals, Restores
  <1>5. StampsFresh'
    <2> SUFFICES ASSUME NEW t \in Requests, requests'[t].op \in Removals
                 PROVE  /\ \A x \in Rows : deleted'[x] # requests'[t].stamp
                        /\ \A u \in Requests : u # t => requests'[u].stamp # requests'[t].stamp
      BY DEF StampsFresh
    <2>1. t # r /\ requests'[t] = requests[t]
      BY <1>2, IdleType DEF Removals
    <2>2. requests[t].stamp \in Stamps
      BY <2>1 DEF RowsFit, RowFits, Working
    <2>3. /\ \A x \in Rows : deleted[x] # requests[t].stamp
          /\ \A u \in Requests : u # t => requests[u].stamp # requests[t].stamp
      BY <2>1 DEF StampsFresh
    <2> QED
      BY <2>1, <2>2, <2>3, <1>2, IdleType, LiveAssumption
  <1>6. StampIsBatch' /\ TitleFrozen'
    BY LiveAssumption DEF StampIsBatch, TitleFrozen, Rows
  <1>7. PurgeFrozen'
    BY <1>2, IdleType DEF PurgeFrozen
  <1> QED
    BY <1>3, <1>4, <1>5, <1>6, <1>7

-----------------------------------------------------------------------------
\* Each action is one of the four kinds of step above.

LEMMA RemovalBegins ==
  ASSUME IInv, NEW r \in Requests, NEW x \in Rows,
         \/ x \in Owners /\ RemoveOwner(r, x)
         \/ x \in Assets /\ RemoveAsset(r, x)
         \/ x \in Services /\ RemoveService(r, x)
         \/ x \in Users /\ RemoveUser(r, x)
  PROVE  IInv'
PROOF
  <1>1. CASE x \in Owners /\ RemoveOwner(r, x)
    <2>1. PICK stamp \in NewStamps, with \in {{}, {"assets"}, {"assets", "services"}} :
            Begin(r, Removal("removeOwner", x, stamp, with,
                             IF "services" \in with THEN "assets" ELSE "write"))
      BY <1>1 DEF RemoveOwner
    <2> DEFINE q == Removal("removeOwner", x, stamp, with,
                            IF "services" \in with THEN "assets" ELSE "write")
    <2>2. /\ q \in Request /\ q.op = "removeOwner" /\ q.row = x
          /\ q.stamp = stamp /\ stamp \in Stamps
      BY RemovalType DEF NewStamps, Removals, Working, Options
    <2>3. RowFits(q) /\ q.op \in Working /\ q.op # "purge"
      BY <2>2, <1>1 DEF RowFits, Working, Removals, Restores
    <2> HIDE DEF q
    <2> QED
      BY <2>1, <2>2, <2>3, BeginStep DEF q
  <1>2. CASE x \in Assets /\ RemoveAsset(r, x)
    <2>1. PICK stamp \in NewStamps, with \in SUBSET {"services"} :
            Begin(r, Removal("removeAsset", x, stamp, with,
                             IF "services" \in with THEN "services" ELSE "write"))
      BY <1>2 DEF RemoveAsset
    <2> DEFINE next == IF "services" \in with THEN "services" ELSE "write"
               q == Removal("removeAsset", x, stamp, with, next)
    <2>0. /\ with \in SUBSET Options /\ stamp \in Stamps
          /\ next \in {"assets", "services", "attachments", "uploads", "write"}
      BY DEF NewStamps, Options
    <2> HIDE DEF next
    <2>2. /\ q \in Request /\ q.op = "removeAsset" /\ q.row = x
          /\ q.stamp = stamp /\ stamp \in Stamps
      BY <2>0, RemovalType DEF Removals, Working
    <2>3. RowFits(q) /\ q.op \in Working /\ q.op # "purge"
      BY <2>2, <1>2 DEF RowFits, Working, Removals, Restores
    <2> HIDE DEF q
    <2> QED
      BY <2>1, <2>2, <2>3, BeginStep DEF q, next
  <1>3. CASE x \in Services /\ RemoveService(r, x)
    <2>1. PICK stamp \in NewStamps :
            Begin(r, [Removal("removeService", x, stamp, {}, "write")
                        EXCEPT !.asset_name = AssetName(AssetOf[x])])
      BY <1>3 DEF RemoveService
    <2> DEFINE q == [Removal("removeService", x, stamp, {}, "write")
                        EXCEPT !.asset_name = AssetName(AssetOf[x])]
    <2>0. stamp \in Stamps /\ AssetName(AssetOf[x]) \in Text
      BY DEF NewStamps, AssetName, Text
    <2> DEFINE p == Removal("removeService", x, stamp, {}, "write")
    <2>1a. /\ p \in Request /\ p.op = "removeService"
           /\ p.row = x /\ p.stamp = stamp
      BY <2>0, RemovalType DEF Removals, Working
    <2> HIDE DEF p
    <2>2. /\ q \in Request /\ q.op = "removeService" /\ q.row = x
          /\ q.stamp = stamp /\ stamp \in Stamps
      BY <2>0, <2>1a, NamedType DEF p
    <2>3. RowFits(q) /\ q.op \in Working /\ q.op # "purge"
      BY <2>2, <1>3 DEF RowFits, Working, Removals, Restores
    <2> HIDE DEF q
    <2> QED
      BY <2>1, <2>2, <2>3, BeginStep DEF q
  <1>4. CASE x \in Users /\ RemoveUser(r, x)
    <2>1. PICK stamp \in NewStamps :
            Begin(r, Removal("removeUser", x, stamp, {}, "write"))
      BY <1>4 DEF RemoveUser
    <2> DEFINE q == Removal("removeUser", x, stamp, {}, "write")
    <2>2. /\ q \in Request /\ q.op = "removeUser" /\ q.row = x
          /\ q.stamp = stamp /\ stamp \in Stamps
      BY RemovalType DEF NewStamps, Removals, Working, Options
    <2>3. RowFits(q) /\ q.op \in Working /\ q.op # "purge"
      BY <2>2, <1>4 DEF RowFits, Working, Removals, Restores
    <2> HIDE DEF q
    <2> QED
      BY <2>1, <2>2, <2>3, BeginStep DEF q
  <1> QED
    BY <1>1, <1>2, <1>3, <1>4

LEMMA RestoreBegins ==
  ASSUME IInv, NEW r \in Requests, NEW x \in Rows,
         \/ x \in Owners /\ RestoreOwner(r, x)
         \/ x \in Assets /\ RestoreAsset(r, x)
         \/ x \in Services /\ RestoreService(r, x)
         \/ x \in Users /\ RestoreUser(r, x)
         \/ PermanentDelete(r, x)
  PROVE  IInv'
PROOF
  <1>1. PICK op \in Restores \union {"purge"}, with \in SUBSET Options,
             next \in {"assets", "services", "attachments", "uploads", "write"} :
          /\ Begin(r, Restore(op, x, with, next))
          /\ op = "restoreOwner" => x \in Owners
          /\ op = "restoreAsset" => x \in Assets
    <2>1. CASE x \in Owners /\ RestoreOwner(r, x)
      BY <2>1 DEF RestoreOwner, Restores, Options
    <2>2. CASE x \in Assets /\ RestoreAsset(r, x)
      BY <2>2 DEF RestoreAsset, Restores, Options
    <2>3. CASE x \in Services /\ RestoreService(r, x)
      BY <2>3 DEF RestoreService, Restores, Options
    <2>4. CASE x \in Users /\ RestoreUser(r, x)
      BY <2>4 DEF RestoreUser, Restores, Options
    <2>5. CASE PermanentDelete(r, x)
      BY <2>5 DEF PermanentDelete, Restores, Options
    <2> QED
      BY <2>1, <2>2, <2>3, <2>4, <2>5
  <1>2. deleted[x] # Live
    BY DEF RestoreOwner, RestoreAsset, RestoreService, RestoreUser,
           PermanentDelete, InTrash
  <1>3. deleted[x] \in Stamps
    BY <1>2 DEF IInv, TypeOK
  <1> DEFINE q == Restore(op, x, with, next)
  <1>4. /\ q \in Request /\ q.op = op /\ q.row = x /\ q.stamp = deleted[x]
    BY <1>3, RemovalType DEF Restore, Working
  <1>5. RowFits(q) /\ q.op \in Working /\ q.op \notin Removals
    BY <1>1, <1>3, <1>4 DEF RowFits, Working, Removals, Restores
  <1> HIDE DEF q
  <1> QED
    BY <1>1, <1>2, <1>4, <1>5, BeginStep DEF q

LEMMA ReadingGoesOn ==
  ASSUME IInv, NEW r \in Requests,
         ReadAssets(r) \/ ReadServices(r) \/ PurgeAttachments(r) \/ PurgeUploads(r)
  PROVE  IInv'
PROOF
  <1>1. requests \in [Requests -> Request] /\ requests[r] \in Request
    BY DEF IInv, TypeOK
  <1>2. CASE ReadAssets(r)
    <2> DEFINE ids == IF requests[r].op = "removeOwner"
                        THEN LiveAssets(requests[r].row)
                        ELSE Signed({a \in Assets : owner_id[a] = requests[r].row},
                                    requests[r].stamp)
               q == [requests[r] EXCEPT
                       !.assets = ids,
                       !.next = IF requests[r].op = "removeOwner" /\ ids # {}
                                  THEN "services" ELSE "write"]
    <2>1. ids \subseteq Assets
      BY DEF LiveAssets, Signed
    <2>2. requests' = [requests EXCEPT ![r] = q] /\ UNCHANGED rows
      BY <1>1, <1>2 DEF ReadAssets
    <2> HIDE DEF ids
    <2>3. /\ q \in Request /\ q.op = requests[r].op
          /\ q.row = requests[r].row /\ q.stamp = requests[r].stamp
      BY <1>1, <2>1 DEF Request
    <2> HIDE DEF q
    <2> QED
      BY <2>2, <2>3, GoOnStep DEF rows
  <1>3. CASE ReadServices(r)
    <2> DEFINE ids == LiveServices(IF requests[r].op = "removeAsset"
                                     THEN {requests[r].row} ELSE requests[r].assets)
               q == [requests[r] EXCEPT !.services = ids, !.next = "write"]
    <2>1. ids \subseteq Services
      BY DEF LiveServices
    <2>2. requests' = [requests EXCEPT ![r] = q] /\ UNCHANGED rows
      BY <1>1, <1>3 DEF ReadServices
    <2> HIDE DEF ids
    <2>3. /\ q \in Request /\ q.op = requests[r].op
          /\ q.row = requests[r].row /\ q.stamp = requests[r].stamp
      BY <1>1, <2>1 DEF Request
    <2> HIDE DEF q
    <2> QED
      BY <2>2, <2>3, GoOnStep DEF rows
  <1>4. CASE PurgeAttachments(r)
    <2> DEFINE q == [requests[r] EXCEPT !.next = "uploads"]
    <2>1. requests' = [requests EXCEPT ![r] = q]
      BY <1>1, <1>4 DEF PurgeAttachments
    <2>2. /\ q \in Request /\ q.op = requests[r].op
          /\ q.row = requests[r].row /\ q.stamp = requests[r].stamp
      BY <1>1 DEF Request
    <2> HIDE DEF q
    <2> QED
      BY <1>4, <2>1, <2>2, GoOnStep DEF PurgeAttachments
  <1>5. CASE PurgeUploads(r)
    <2> DEFINE q == [requests[r] EXCEPT !.next = "write"]
    <2>1. requests' = [requests EXCEPT ![r] = q]
      BY <1>1, <1>5 DEF PurgeUploads
    <2>2. /\ q \in Request /\ q.op = requests[r].op
          /\ q.row = requests[r].row /\ q.stamp = requests[r].stamp
      BY <1>1 DEF Request
    <2> HIDE DEF q
    <2> QED
      BY <1>5, <2>1, <2>2, GoOnStep DEF PurgeUploads
  <1> QED
    BY <1>2, <1>3, <1>4, <1>5

LEMMA TrashWrites ==
  ASSUME IInv, NEW r \in Requests,
         \/ WriteRemoveOwner(r) \/ WriteRemoveAsset(r)
         \/ WriteRemoveService(r) \/ WriteRemoveUser(r)
  PROVE  IInv'
PROOF
  <1> DEFINE q == requests[r]
  <1>1. /\ q \in Request /\ q.services \subseteq Services
        /\ snapshot \in [Services -> [title : Text, asset_name : Text]]
    BY DEF IInv, TypeOK, Request
  <1>2. RowFits(q)
    BY DEF IInv, RowsFit
  <1>3. CASE WriteRemoveOwner(r)
    <2> DEFINE X == {q.row} \union OwnerCascade(q) \union q.services
    <2>1. q.op = "removeOwner" /\ q.row \in Owners
      BY <1>2, <1>3 DEF WriteRemoveOwner, AtWrite, RowFits
    <2>2. OwnerCascade(q) \subseteq Assets \union Users
      BY DEF OwnerCascade, LiveAssets, LiveUsers
    <2>3. X \subseteq Rows /\ Services \intersect X = q.services
      BY <1>1, <2>1, <2>2, RowsAssumption DEF Rows
    <2>4. /\ MoveToTrash(X, q.stamp) /\ Freeze(q.services, "real") /\ Finish(r)
      BY <1>3 DEF WriteRemoveOwner
    <2>5. /\ snapshot' \in [Services -> [title : Text, asset_name : Text]]
          /\ \A s \in Services \intersect X : snapshot'[s].title = "real"
          /\ \A s \in Services \ X : snapshot'[s] = snapshot[s]
      BY <1>1, <2>3, <2>4 DEF Freeze, Text
    <2> HIDE DEF X
    <2> QED
      BY <2>1, <2>3, <2>4, <2>5, TrashStep DEF Removals
  <1>4. CASE WriteRemoveAsset(r)
    <2> DEFINE X == {q.row} \union q.services
    <2>1. q.op = "removeAsset" /\ q.row \in Assets
      BY <1>2, <1>4 DEF WriteRemoveAsset, AtWrite, RowFits
    <2>3. X \subseteq Rows /\ Services \intersect X = q.services
      BY <1>1, <2>1, RowsAssumption DEF Rows
    <2>4. /\ MoveToTrash(X, q.stamp) /\ Freeze(q.services, "real") /\ Finish(r)
      BY <1>4 DEF WriteRemoveAsset
    <2>5. /\ snapshot' \in [Services -> [title : Text, asset_name : Text]]
          /\ \A s \in Services \intersect X : snapshot'[s].title = "real"
          /\ \A s \in Services \ X : snapshot'[s] = snapshot[s]
      BY <1>1, <2>3, <2>4 DEF Freeze, Text
    <2> HIDE DEF X
    <2> QED
      BY <2>1, <2>3, <2>4, <2>5, TrashStep DEF Removals
  <1>5. CASE WriteRemoveService(r)
    <2>1. q.op = "removeService" /\ q.row \in Services /\ q.asset_name \in Text
      BY <1>1, <1>2, <1>5 DEF WriteRemoveService, AtWrite, RowFits, Request
    <2>3. {q.row} \subseteq Rows
      BY <2>1 DEF Rows
    <2>4. /\ MoveToTrash({q.row}, q.stamp) /\ Freeze({q.row}, q.asset_name) /\ Finish(r)
      BY <1>5 DEF WriteRemoveService
    <2>5. /\ snapshot' \in [Services -> [title : Text, asset_name : Text]]
          /\ \A s \in Services \intersect {q.row} : snapshot'[s].title = "real"
          /\ \A s \in Services \ {q.row} : snapshot'[s] = snapshot[s]
      BY <1>1, <2>1, <2>4 DEF Freeze, Text
    <2> QED
      BY <2>1, <2>3, <2>4, <2>5, TrashStep DEF Removals
  <1>6. CASE WriteRemoveUser(r)
    <2>1. q.op = "removeUser" /\ q.row \in Users
      BY <1>2, <1>6 DEF WriteRemoveUser, AtWrite, RowFits
    <2>3. {q.row} \subseteq Rows /\ Services \intersect {q.row} = {}
      BY <2>1, RowsAssumption DEF Rows
    <2>4. /\ MoveToTrash({q.row}, q.stamp) /\ snapshot' = snapshot /\ Finish(r)
      BY <1>6 DEF WriteRemoveUser
    <2> QED
      BY <1>1, <2>1, <2>3, <2>4, TrashStep DEF Removals
  <1> QED
    BY <1>3, <1>4, <1>5, <1>6

LEMMA Endings ==
  ASSUME IInv, NEW r \in Requests, WriteRestore(r) \/ WritePurge(r) \/ Abort(r)
  PROVE  IInv'
PROOF
  <1> DEFINE q == requests[r]
  <1>0. /\ q \in Request /\ RowFits(q) /\ purged \subseteq Rows
    BY DEF IInv, TypeOK, RowsFit
  <1> DEFINE None == {}
  <1>n. /\ None \in SUBSET Rows
        /\ deleted = [x \in Rows |-> IF x \in None THEN Live ELSE deleted[x]]
    BY DEF IInv, TypeOK
  <1> HIDE DEF None
  <1>1. CASE WriteRestore(r)
    <2> DEFINE X == {q.row} \union RestoredChildren(q)
    <2>1. q.row \in Rows
      BY <1>0, <1>1 DEF WriteRestore, AtWrite, RowFits, Working
    <2>2. X \subseteq Rows
      BY <2>1 DEF RestoredChildren, Signed, Rows
    <2>3. TakeOut(X) /\ Finish(r)
      BY <1>1 DEF WriteRestore
    <2> HIDE DEF X
    <2> QED
      BY <1>0, <2>2, <2>3, EndStep DEF TakeOut
  <1>2. CASE WritePurge(r)
    <2>1. /\ q.op = "purge" /\ purged' = purged \union {q.row} /\ Finish(r)
          /\ UNCHANGED <<deleted, owner_id, snapshot, attached, uploads, batch>>
      BY <1>2 DEF WritePurge, AtWrite
    <2>2. q.row \in Rows
      BY <1>0, <2>1 DEF RowFits, Working
    <2>3. q.row \in Services => snapshot[q.row].title = "real"
      BY <2>1 DEF IInv, PurgeFrozen
    <2>4. /\ purged' \subseteq Rows /\ purged \subseteq purged'
          /\ \A s \in Services \intersect purged' :
               s \in purged \/ snapshot[s].title = "real"
      BY <1>0, <2>1, <2>2, <2>3
    <2>5. deleted' = [x \in Rows |-> IF x \in None THEN Live ELSE deleted[x]]
      BY <1>n, <2>1
    <2> QED
      BY <1>n, <2>1, <2>4, <2>5, EndStep
  <1>3. CASE Abort(r)
    <2>1. /\ Finish(r)
          /\ UNCHANGED <<deleted, purged, owner_id, snapshot, attached, uploads, batch>>
      BY <1>3 DEF Abort, rows
    <2>2. /\ deleted' = [x \in Rows |-> IF x \in None THEN Live ELSE deleted[x]]
          /\ \A s \in Services \intersect purged' :
               s \in purged \/ snapshot[s].title = "real"
      BY <1>n, <2>1
    <2> QED
      BY <1>0, <1>n, <2>1, <2>2, EndStep
  <1> QED
    BY <1>1, <1>2, <1>3

LEMMA OthersKeep ==
  ASSUME IInv,
         \/ \E a \in Assets, o \in Owners : AssignOwner(a, o)
         \/ \E s \in Services : WebhookAttaches(s)
         \/ UNCHANGED vars
  PROVE  IInv'
PROOF
  <1>1. /\ UNCHANGED <<deleted, purged, snapshot, requests, batch>>
        /\ owner_id' \in [Assets -> Owners]
        /\ attached' \subseteq Services /\ uploads' \subseteq Services
    BY DEF IInv, TypeOK, AssignOwner, WebhookAttaches, vars, rows
  <1> QED
    BY <1>1 DEF IInv, TypeOK, RowsFit, RowFits, StampsFresh, StampIsBatch,
                TitleFrozen, PurgeFrozen

LEMMA NextIInv == IInv /\ [Next]_vars => IInv'
PROOF
  <1> SUFFICES ASSUME IInv, [Next]_vars PROVE IInv'
    OBVIOUS
  <1>1. ASSUME NEW r \in Requests, Handler(r) PROVE IInv'
    BY <1>1, RemovalBegins, RestoreBegins, ReadingGoesOn, TrashWrites, Endings
    DEF Handler, Rows
  <1> QED
    BY <1>1, OthersKeep DEF Next

-----------------------------------------------------------------------------
\* The state keeps its type, for any rows and any number of requests.
THEOREM TypeCorrect == Spec => []TypeOK
PROOF
  <1>1. IInv => TypeOK
    BY DEF IInv
  <1> QED
    BY <1>1, InitIInv, NextIInv, PTL DEF Spec

THEOREM Inductive == Spec => []IInv
PROOF
  BY InitIInv, NextIInv, PTL DEF Spec

\* A service in the trash, purged or not, has its own title frozen.
THEOREM TitlesFrozen == Spec => []TitleFrozen
PROOF
  <1>1. IInv => TitleFrozen
    BY DEF IInv
  <1> QED
    BY <1>1, InitIInv, NextIInv, PTL DEF Spec

-----------------------------------------------------------------------------
\* The only step that takes a row out of the trash is WriteRestore.
LEMMA OnlyRestoreReturns ==
  ASSUME IInv, [Next]_vars, NEW x \in Back
  PROVE  \E r \in Requests : WriteRestore(r)
PROOF
  <1>1. x \in Rows /\ deleted[x] # Live /\ deleted'[x] = Live
    BY DEF Back
  <1>2. ASSUME NEW r \in Requests, NEW X,
               requests[r].op \in Removals, MoveToTrash(X, requests[r].stamp)
        PROVE  FALSE
    <2>1. requests[r].stamp # Live
      BY <1>2, LiveAssumption DEF IInv, RowsFit, RowFits, Working
    <2> QED
      BY <1>1, <1>2, <2>1 DEF MoveToTrash
  <1>3. ASSUME NEW r \in Requests, Handler(r) PROVE WriteRestore(r)
    <2>1. CASE WriteRemoveOwner(r)
      BY <1>2, <2>1 DEF WriteRemoveOwner, AtWrite, Removals
    <2>2. CASE WriteRemoveAsset(r)
      BY <1>2, <2>2 DEF WriteRemoveAsset, AtWrite, Removals
    <2>3. CASE WriteRemoveService(r)
      BY <1>2, <2>3 DEF WriteRemoveService, AtWrite, Removals
    <2>4. CASE WriteRemoveUser(r)
      BY <1>2, <2>4 DEF WriteRemoveUser, AtWrite, Removals
    <2>5. deleted' = deleted \/ WriteRestore(r)
      BY <1>3, <2>1, <2>2, <2>3, <2>4
      DEF Handler, RemoveOwner, RemoveAsset, RemoveService, RemoveUser,
          RestoreOwner, RestoreAsset, RestoreService, RestoreUser, PermanentDelete,
          Begin, rows, ReadAssets, ReadServices, PurgeAttachments, PurgeUploads,
          WritePurge, Abort
    <2> QED
      BY <1>1, <2>5
  <1>4. deleted' # deleted
    BY <1>1
  <1> QED
    BY <1>3, <1>4 DEF Next, AssignOwner, WebhookAttaches, vars, rows

\* What WriteRestore takes out: its row, and unpurged rows with its stamp.
LEMMA RestoreReturns ==
  ASSUME IInv, NEW r \in Requests, WriteRestore(r)
  PROVE  /\ requests[r].op \in Restores /\ requests'[r] = Done
         /\ \A t \in Requests : t # r => requests'[t] = requests[t]
         /\ \A x \in Back :
              x = requests[r].row \/ (deleted[x] = requests[r].stamp /\ x \notin purged)
PROOF
  <1>1. requests[r].op \in Restores /\ TakeOut({requests[r].row} \union RestoredChildren(requests[r]))
        /\ requests' = [requests EXCEPT ![r] = Done]
    BY DEF WriteRestore, AtWrite, Finish
  <1>2. requests \in [Requests -> Request]
    BY DEF IInv, TypeOK
  <1>3. \A x \in RestoredChildren(requests[r]) :
          deleted[x] = requests[r].stamp /\ x \notin purged
    BY DEF RestoredChildren, Signed
  <1>4. \A x \in Back : x = requests[r].row \/ x \in RestoredChildren(requests[r])
    BY <1>1 DEF TakeOut, Back
  <1> QED
    BY <1>1, <1>2, <1>3, <1>4

\* One restore brings back rows that were trashed together.
THEOREM RestoresTogether == Spec => RestoredTogether
PROOF
  <1> DEFINE Step ==
        \A r \in Requests :
          requests[r].op \in Restores /\ requests'[r] = Done =>
            \A x, y \in IF deleted[requests[r].row] = requests[r].stamp
                          THEN Back ELSE Back \ {requests[r].row} :
              y \in batch[x]
  <1>1. IInv /\ [Next]_vars => Step
    <2> SUFFICES ASSUME IInv, [Next]_vars, NEW r \in Requests,
                        requests[r].op \in Restores, requests'[r] = Done,
                        NEW x \in IF deleted[requests[r].row] = requests[r].stamp
                                    THEN Back ELSE Back \ {requests[r].row},
                        NEW y \in IF deleted[requests[r].row] = requests[r].stamp
                                    THEN Back ELSE Back \ {requests[r].row}
                 PROVE  y \in batch[x]
      OBVIOUS
    <2>0. /\ x \in Back /\ y \in Back
          /\ deleted[requests[r].row] = requests[r].stamp
               \/ (x # requests[r].row /\ y # requests[r].row)
      OBVIOUS
    <2>1. PICK t \in Requests : WriteRestore(t)
      BY <2>0, OnlyRestoreReturns
    <2>2. t = r
      BY <2>1, RestoreReturns, IdleType DEF Restores
    <2>3. deleted[x] = requests[r].stamp /\ deleted[y] = requests[r].stamp
      BY <2>0, <2>1, <2>2, RestoreReturns
    <2>4. x \in Rows /\ y \in Rows /\ deleted[x] \in Stamps
      BY <2>0, <2>3 DEF Back, IInv, TypeOK
    <2> QED
      BY <2>3, <2>4 DEF IInv, StampIsBatch
  <1> QED
    BY <1>1, InitIInv, NextIInv, PTL DEF Spec, RestoredTogether

\* A cascade never takes a purged row out of the trash.
THEOREM PurgedIsSpared == Spec => CascadeSparesPurged
PROOF
  <1> DEFINE Step ==
        \A x \in Back \intersect purged :
          \E r \in Requests : requests[r].row = x /\ requests'[r] = Done
  <1>1. IInv /\ [Next]_vars => Step
    <2> SUFFICES ASSUME IInv, [Next]_vars, NEW x \in Back, x \in purged
                 PROVE  \E r \in Requests : requests[r].row = x /\ requests'[r] = Done
      OBVIOUS
    <2>1. PICK r \in Requests : WriteRestore(r)
      BY OnlyRestoreReturns
    <2> QED
      BY <2>1, RestoreReturns
  <1> QED
    BY <1>1, InitIInv, NextIInv, PTL DEF Spec, CascadeSparesPurged

\* A stamp that appears on a row is written by the removal that holds it.
LEMMA StampWriter ==
  ASSUME IInv, [Next]_vars, NEW r \in Requests, requests[r].op = "removeOwner",
         NEW x \in Rows, deleted'[x] = requests[r].stamp
  PROVE  WriteRemoveOwner(r)
PROOF
  <1>1. /\ deleted[x] # requests[r].stamp /\ requests[r].stamp \in Stamps
        /\ \A t \in Requests : t # r => requests[t].stamp # requests[r].stamp
    BY DEF IInv, StampsFresh, RowsFit, RowFits, Removals, Working
  <1>2. ASSUME NEW t \in Requests, NEW X, MoveToTrash(X, requests[t].stamp)
        PROVE  t = r
    BY <1>1, <1>2 DEF MoveToTrash
  <1>3. ASSUME NEW t \in Requests, Handler(t) PROVE WriteRemoveOwner(r)
    <2>1. CASE WriteRemoveOwner(t)
      <3>1. MoveToTrash({requests[t].row} \union OwnerCascade(requests[t])
                          \union requests[t].services, requests[t].stamp)
        BY <2>1 DEF WriteRemoveOwner
      <3>2. t = r
        BY <3>1, <1>2
      <3> QED
        BY <2>1, <3>2
    <2>2. ASSUME WriteRemoveAsset(t) PROVE FALSE
      <3>1. MoveToTrash({requests[t].row} \union requests[t].services, requests[t].stamp)
        BY <2>2 DEF WriteRemoveAsset
      <3>2. t = r
        BY <3>1, <1>2
      <3> QED
        BY <2>2, <3>2 DEF WriteRemoveAsset, AtWrite
    <2>3. ASSUME WriteRemoveService(t) PROVE FALSE
      <3>1. t = r
        BY <2>3, <1>2 DEF WriteRemoveService
      <3> QED
        BY <2>3, <3>1 DEF WriteRemoveService, AtWrite
    <2>4. ASSUME WriteRemoveUser(t) PROVE FALSE
      <3>1. t = r
        BY <2>4, <1>2 DEF WriteRemoveUser
      <3> QED
        BY <2>4, <3>1 DEF WriteRemoveUser, AtWrite
    <2>5. ASSUME WriteRestore(t) PROVE FALSE
      BY <2>5, <1>1, LiveAssumption DEF WriteRestore, TakeOut
    <2>6. deleted' = deleted \/ WriteRemoveOwner(r)
      BY <1>3, <2>1, <2>2, <2>3, <2>4, <2>5
      DEF Handler, RemoveOwner, RemoveAsset, RemoveService, RemoveUser,
          RestoreOwner, RestoreAsset, RestoreService, RestoreUser, PermanentDelete,
          Begin, rows, ReadAssets, ReadServices, PurgeAttachments, PurgeUploads,
          WritePurge, Abort
    <2> QED
      BY <1>1, <2>6
  <1>4. deleted' # deleted
    BY <1>1
  <1> QED
    BY <1>3, <1>4 DEF Next, AssignOwner, WebhookAttaches, vars, rows

\* Removing an owner with its assets leaves none of its assets and users out.
THEOREM OwnerLeavesNothing == Spec => OwnerTakesAll
PROOF
  <1> DEFINE Step ==
        \A o \in Owners :
          (\E r \in Requests :
             /\ requests[r].op = "removeOwner" /\ requests[r].row = o
             /\ "assets" \in requests[r].with
             /\ deleted'[o] = requests[r].stamp)
          => LiveAssets(o)' \union LiveUsers(o)' = {}
  <1>1. IInv /\ [Next]_vars => Step
    <2> SUFFICES ASSUME IInv, [Next]_vars, NEW o \in Owners, NEW r \in Requests,
                        requests[r].op = "removeOwner", requests[r].row = o,
                        "assets" \in requests[r].with,
                        deleted'[o] = requests[r].stamp
                 PROVE  LiveAssets(o)' \union LiveUsers(o)' = {}
      OBVIOUS
    <2>1. WriteRemoveOwner(r)
      BY StampWriter DEF Rows
    <2> DEFINE X == {o} \union (LiveAssets(o) \union LiveUsers(o))
                      \union requests[r].services
    <2>2. MoveToTrash(X, requests[r].stamp)
      BY <2>1 DEF WriteRemoveOwner, OwnerCascade
    <2>3. requests[r].stamp # Live
      BY LiveAssumption DEF IInv, RowsFit, RowFits, Working, Removals
    <2>4. /\ \A x \in Rows : x \in X => deleted'[x] # Live
          /\ \A x \in Rows : x \notin X => deleted'[x] = deleted[x]
          /\ purged' = purged /\ owner_id' = owner_id
      BY <2>2, <2>3 DEF MoveToTrash
    <2>5. ASSUME NEW x \in Rows, IsLive(x)' PROVE x \notin X /\ IsLive(x)
      BY <2>4, <2>5 DEF IsLive
    <2>6. \A a \in Assets : a \notin LiveAssets(o)'
      BY <2>4, <2>5 DEF LiveAssets, Rows
    <2>7. \A u \in Users : u \notin LiveUsers(o)'
      BY <2>4, <2>5 DEF LiveUsers, Rows
    <2> QED
      BY <2>6, <2>7 DEF LiveAssets, LiveUsers
  <1> QED
    BY <1>1, InitIInv, NextIInv, PTL DEF Spec, OwnerTakesAll

=============================================================================
