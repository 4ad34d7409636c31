---------------------------- MODULE TenantsProofs ----------------------------
(***************************************************************************)
(* Proofs about what an organisation lives on: its limits and members      *)
(* (Tenants), for any number of requests, addresses and invitations, and   *)
(* the mails to its people (Mailer), for any people, handlers and          *)
(* templates.                                                              *)
(***************************************************************************)
EXTENDS Tenants, Mailer, FiniteSetTheorems, WellFoundedInduction, TLAPS

(***************************************************************************)
(* Tenants.  Requests under way carry what they have read; the invariant   *)
(* says what of it is still true when they write.                          *)
(***************************************************************************)

WithEmail == {"seats", "vacancy", "account", "invite", "taken", "register", "insert", "found"}

\* A request that is about an invitation has the address of one that was sent.
Fits(q) ==
  /\ q.at \in WithEmail => q.email \in Emails
  /\ q.at = "register" => q.inv # None
  /\ q.inv # None => inv[q.inv].st # "none" /\ q.email = inv[q.inv].email
  /\ q.at = "approve" => q.plan \in Plans

RequestsFit == \A r \in Requests : Fits(req[r])
Addressed   == \A i \in Invitations : inv[i].st # "none" => inv[i].email \in Emails

\* An invitation that has made an account has its address taken for good.
Settled(i) == /\ made[i] <= 1
              /\ made[i] > 0 => inv[i].st # "none" /\ inv[i].email \in held
EachOnce == ~freed => \A i \in Invitations : Settled(i)

AccountInv == TypeOK /\ RequestsFit /\ Addressed /\ EachOnce

InFlight  == {r \in Requests : At(r, "asset")}
Surplus   == IF overlapped THEN Cardinality(Requests) - 1 ELSE 0
Measured  == sub.plan # "NONE" /\ ~lowered
\* The assets, with those that were let through, stay within the limit and
\* what the operator added to it.
Room      == Measured => assets.live + Cardinality(InFlight) <= sub.max + beyond + Surplus
ReadRoom  == Measured => \A r \in Requests : At(r, "count") => req[r].max <= sub.max
OneAtATime == ~overlapped =>
  \A p, q \in Requests : ~At(p, "idle") /\ ~At(q, "idle") => p = q

RoomInv == Room /\ ReadRoom /\ OneAtATime
IInv == AccountInv /\ RoomInv

-----------------------------------------------------------------------------
(* A step of a request: it goes on with x.                                 *)

Counters == /\ calls' \in 0 .. MaxCalls /\ faults' \in 0 .. MaxFaults
            /\ overlapped' \in BOOLEAN /\ (overlapped => overlapped')
Steps(r, x) == req' = [req EXCEPT ![r] = x] /\ Counters /\ OneAtATime'

RowsTyped == /\ sub \in Subscription /\ orgActive \in BOOLEAN
             /\ assets \in [live : Nat, trash : Nat] /\ members \in Nat
             /\ lowered \in BOOLEAN /\ beyond \in Nat

LEMMA Typed ==
  ASSUME IInv, NEW r \in Requests
  PROVE  /\ RowsTyped /\ req \in [Requests -> Request] /\ req[r] \in Request
         /\ Fits(req[r]) /\ inv \in [Invitations -> Invitation] /\ held \subseteq Emails
         /\ calls \in 0 .. MaxCalls /\ faults \in 0 .. MaxFaults
         /\ overlapped \in BOOLEAN /\ freed \in BOOLEAN /\ made \in [Invitations -> Nat]
BY DEF IInv, AccountInv, TypeOK, RowsTyped, RequestsFit

LEMMA IdleFits == Idle \in Request /\ Fits(Idle) /\ Idle.at = "idle"
BY DEF Idle, Request, Step, Fits, WithEmail

\* Only one request is under way unless the history says otherwise.
LEMMA StartSteps ==
  ASSUME IInv, NEW r \in Requests, NEW x \in Request, Start(r, x), calls' \in 0 .. MaxCalls
  PROVE  Steps(r, x)
<1>1. Counters
  BY Typed DEF Start, Counters
<1>2. OneAtATime'
  BY Typed DEF Start, OneAtATime, At, IInv, RoomInv
<1> QED
  BY <1>1, <1>2 DEF Steps, Start

LEMMA BeginSteps ==
  ASSUME IInv, NEW r \in Requests, NEW x \in Request, NEW e, Begin(r, e, x)
  PROVE  Steps(r, x)
<1>1. calls' \in 0 .. MaxCalls
  BY Typed, BoundAssumption DEF Begin, Counted
<1> QED
  BY <1>1, StartSteps DEF Begin

LEMMA GoesOn ==
  ASSUME IInv, NEW r \in Requests, NEW x \in Request, ~At(r, "idle") \/ x.at = "idle",
         req' = [req EXCEPT ![r] = x], Counters
  PROVE  Steps(r, x)
<1>1. OneAtATime'
  BY Typed DEF Counters, OneAtATime, At, IInv, RoomInv
<1> QED
  BY <1>1 DEF Steps

LEMMA GotoSteps ==
  ASSUME IInv, NEW r \in Requests, NEW x \in Request, ~At(r, "idle"), Goto(r, x)
  PROVE  Steps(r, x)
BY GoesOn, Typed DEF Goto, Counters

LEMMA DoneSteps ==
  ASSUME IInv, NEW r \in Requests, ~At(r, "idle"), Done(r)
  PROVE  Steps(r, Idle)
BY GotoSteps, IdleFits DEF Done

LEMMA OnwardSteps ==
  ASSUME IInv, NEW r \in Requests, NEW step \in Step, ~At(r, "idle"), Onward(r, step)
  PROVE  /\ Steps(r, [req[r] EXCEPT !.at = step])
         /\ [req[r] EXCEPT !.at = step] \in Request
<1>1. [req[r] EXCEPT !.at = step] \in Request
  BY Typed DEF Request
<1> QED
  BY <1>1, GotoSteps DEF Onward

-----------------------------------------------------------------------------
(* What a step keeps.                                                      *)

LEMMA AccountsKept ==
  ASSUME IInv, NEW r \in Requests, NEW x \in Request, Steps(r, x), Fits(x)', RowsTyped',
         inv' \in [Invitations -> Invitation],
         \A i \in Invitations : inv[i].st # "none" =>
           inv'[i].st # "none" /\ inv'[i].email = inv[i].email,
         held' \subseteq Emails, made' \in [Invitations -> Nat], freed' \in BOOLEAN,
         Addressed', EachOnce'
  PROVE  AccountInv'
<1>1. req' = [req EXCEPT ![r] = x] /\ req' \in [Requests -> Request]
  BY Typed DEF Steps
<1>2. TypeOK'
  BY <1>1 DEF TypeOK, RowsTyped, Steps, Counters
<1>3. ASSUME NEW q \in Requests PROVE Fits(req[q])'
  <2>1. CASE q = r
    BY <2>1, <1>1, Typed
  <2>2. CASE q # r
    <3>1. req'[q] = req[q] /\ Fits(req[q]) /\ req[q] \in Request
      BY <2>2, <1>1, Typed
    <3> QED
      BY <3>1 DEF Fits, Request
  <2> QED
    BY <2>1, <2>2
<1> QED
  BY <1>2, <1>3 DEF AccountInv, RequestsFit

LEMMA AccountsUntouched ==
  ASSUME IInv, NEW r \in Requests, NEW x \in Request, Steps(r, x), Fits(x), RowsTyped',
         UNCHANGED <<held, inv, made, freed>>
  PROVE  AccountInv'
<1>1. Fits(x)'
  BY DEF Fits
<1>2. Addressed' /\ EachOnce'
  BY DEF IInv, AccountInv, Addressed, EachOnce, Settled
<1> QED
  BY <1>1, <1>2, Typed, AccountsKept

\* Those that were let through are finitely many, and no more than there are.
LEMMA Counting ==
  ASSUME NEW S \in SUBSET Requests, NEW r \in Requests
  PROVE  /\ IsFiniteSet(S) /\ Cardinality(S) \in Nat
         /\ Cardinality(Requests) \in Nat /\ Cardinality(S) <= Cardinality(Requests)
         /\ Cardinality(Requests) >= 1
         /\ Cardinality(S \ {r}) = IF r \in S THEN Cardinality(S) - 1 ELSE Cardinality(S)
         /\ Cardinality(S \union {r}) = IF r \in S THEN Cardinality(S) ELSE Cardinality(S) + 1
<1>1. IsFiniteSet(S) /\ Cardinality(S) <= Cardinality(Requests)
  BY RequestsAssumption, FS_Subset
<1>2. Cardinality(S) \in Nat /\ Cardinality(Requests) \in Nat
  BY <1>1, RequestsAssumption, FS_CardinalityType
<1>3. {r} \in SUBSET Requests /\ Cardinality({r}) = 1 /\ Cardinality({r}) <= Cardinality(Requests)
  BY RequestsAssumption, FS_Subset, FS_Singleton
<1> QED
  BY <1>1, <1>2, <1>3, FS_AddElement, FS_RemoveElement

LEMMA RoomKept ==
  ASSUME IInv, NEW r \in Requests, NEW x \in Request, Steps(r, x), RowsTyped',
         x.at \notin {"asset", "count"}, UNCHANGED beyond,
         Measured' => /\ Measured /\ sub.max <= sub'.max
                      /\ assets'.live <= assets.live + IF At(r, "asset") THEN 1 ELSE 0
  PROVE  RoomInv'
<1>1. InFlight' = InFlight \ {r}
  BY Typed DEF InFlight, At, Steps
<1>2. /\ Cardinality(InFlight) \in Nat
      /\ Cardinality(InFlight') = Cardinality(InFlight) - IF At(r, "asset") THEN 1 ELSE 0
      /\ Cardinality(Requests) \in Nat /\ Cardinality(Requests) >= 1
  <2>1. InFlight \in SUBSET Requests /\ (r \in InFlight <=> At(r, "asset"))
    BY DEF InFlight
  <2> HIDE DEF InFlight
  <2> QED
    <3>1. /\ Cardinality(InFlight) \in Nat
          /\ Cardinality(InFlight \ {r}) =
               IF r \in InFlight THEN Cardinality(InFlight) - 1 ELSE Cardinality(InFlight)
          /\ Cardinality(Requests) \in Nat /\ Cardinality(Requests) >= 1
      BY <2>1, Counting
    <3>2. Cardinality(InFlight') = Cardinality(InFlight \ {r})
      BY <1>1
    <3> QED
      BY <2>1, <3>1, <3>2 DEF At
<1>3. /\ sub.max \in Nat /\ sub'.max \in Nat /\ assets.live \in Nat /\ assets'.live \in Nat
      /\ beyond \in Nat /\ overlapped \in BOOLEAN /\ overlapped' \in BOOLEAN /\ (overlapped => overlapped')
  BY Typed DEF RowsTyped, Subscription, Steps, Counters
<1>4. Room'
  BY <1>2, <1>3 DEF Room, Surplus, IInv, RoomInv
<1>5. ReadRoom'
  <2> SUFFICES ASSUME Measured', NEW q \in Requests, At(q, "count")'
               PROVE  req'[q].max <= sub'.max
    BY DEF ReadRoom
  <2>1. q # r /\ req'[q] = req[q] /\ req[q].max \in Nat
    BY Typed DEF Steps, At, Request
  <2> QED
    BY <2>1, <1>3 DEF IInv, RoomInv, ReadRoom, At
<1> QED
  BY <1>4, <1>5 DEF RoomInv, Steps

LEMMA SubscriptionStep ==
  ASSUME IInv, NEW r \in Requests, NEW x \in Request, Steps(r, x), Fits(x), RowsTyped',
         x.at \notin {"asset", "count"}, UNCHANGED <<held, inv, made, beyond, freed>>,
         Measured' => /\ Measured /\ sub.max <= sub'.max
                      /\ assets'.live <= assets.live + IF At(r, "asset") THEN 1 ELSE 0
  PROVE  IInv'
BY AccountsUntouched, RoomKept DEF IInv

\* A step that only reads.
LEMMA ReadStep ==
  ASSUME IInv, NEW r \in Requests, NEW x \in Request, Steps(r, x), Fits(x),
         x.at \notin {"asset", "count"}, UNCHANGED <<rows, past>>
  PROVE  IInv'
<1>1. RowsTyped' /\ UNCHANGED <<held, inv, made, beyond, freed, sub, assets, lowered>>
  BY Typed DEF RowsTyped, rows, past
<1>2. assets.live <= assets.live + IF At(r, "asset") THEN 1 ELSE 0
  BY Typed DEF RowsTyped
<1>3. Measured' => /\ Measured /\ sub.max <= sub'.max
                   /\ assets'.live <= assets.live + IF At(r, "asset") THEN 1 ELSE 0
  BY <1>1, <1>2, Typed DEF RowsTyped, Subscription, Measured
<1> QED
  BY <1>1, <1>3, SubscriptionStep

\* A handler that is over, or went no further than a check.
LEMMA DoneReads ==
  ASSUME IInv, NEW r \in Requests, ~At(r, "idle"), Done(r), UNCHANGED <<rows, past>>
  PROVE  IInv'
BY DoneSteps, IdleFits, ReadStep

LEMMA OnwardReads ==
  ASSUME IInv, NEW r \in Requests, NEW step \in Step \ {"asset", "count", "register", "approve"},
         ~At(r, "idle"), req[r].at \in WithEmail, Onward(r, step), UNCHANGED <<rows, past>>
  PROVE  IInv'
<1>1. Fits([req[r] EXCEPT !.at = step])
  BY Typed DEF Fits, Request
<1>2. [req[r] EXCEPT !.at = step].at = step
  BY Typed DEF Request
<1> QED
  BY <1>1, <1>2, OnwardSteps, ReadStep

-----------------------------------------------------------------------------
(* Assets.                                                                 *)

\* What lets a request through: the count, or the want of a subscription.
LEMMA LetThrough ==
  ASSUME IInv, NEW r \in Requests, NEW x \in Request, Steps(r, x), UNCHANGED <<rows, past>>,
         x.at = "asset",
         Measured => /\ assets.live < sub.max
                     /\ ~At(r, "idle")
  PROVE  RoomInv'
<1>1. InFlight' = InFlight \union {r}
  BY Typed DEF InFlight, At, Steps
<1>2. InFlight \in SUBSET Requests
  BY DEF InFlight
<1>3. /\ Cardinality(InFlight \union {r}) \in Nat
      /\ Cardinality(InFlight \union {r}) <= Cardinality(Requests)
  BY <1>2, Counting
<1>4. ASSUME ~overlapped, ~At(r, "idle") PROVE Cardinality(InFlight \union {r}) = 1
  <2>1. InFlight \subseteq {r}
    BY <1>4 DEF InFlight, IInv, RoomInv, OneAtATime, At
  <2>2. InFlight \union {r} = {r}
    BY <2>1
  <2> QED
    BY <2>2, FS_Singleton
<1>5. Room'
  <2> SUFFICES ASSUME Measured'
               PROVE  assets'.live + Cardinality(InFlight') <= sub'.max + beyond' + Surplus'
    BY DEF Room
  <2>1. Measured /\ UNCHANGED <<assets, sub, beyond>>
    BY DEF Measured, rows, past
  <2>2. /\ assets.live \in Nat /\ sub.max \in Nat /\ assets.live < sub.max /\ beyond \in Nat
        /\ overlapped \in BOOLEAN /\ overlapped' \in BOOLEAN /\ (overlapped => overlapped')
        /\ Cardinality(Requests) \in Nat
    BY <2>1, Typed, Counting DEF RowsTyped, Subscription, Steps, Counters
  <2>3. CASE overlapped'
    BY <2>1, <2>2, <2>3, <1>1, <1>3 DEF Surplus
  <2>4. CASE ~overlapped'
    BY <2>1, <2>2, <2>4, <1>1, <1>4 DEF Surplus
  <2> QED
    BY <2>3, <2>4
<1>6. ReadRoom'
  <2> SUFFICES ASSUME Measured', NEW q \in Requests, At(q, "count")'
               PROVE  req'[q].max <= sub'.max
    BY DEF ReadRoom
  <2>1. q # r /\ req'[q] = req[q] /\ Measured /\ UNCHANGED sub
    BY Typed DEF Steps, At, Measured, rows, past
  <2> QED
    BY <2>1 DEF IInv, RoomInv, ReadRoom, At
<1> QED
  BY <1>5, <1>6 DEF RoomInv, Steps

LEMMA CreateAssetKeeps == ASSUME IInv, NEW r \in Requests, CreateAsset(r) PROVE IInv'
<1> DEFINE x == [Idle EXCEPT !.at = IF Unlimited THEN "asset" ELSE "count", !.max = sub.max]
<1>1. x \in Request /\ x.at = (IF Unlimited THEN "asset" ELSE "count") /\ Fits(x)
      /\ x.max = sub.max
  BY Typed DEF RowsTyped, Subscription, Idle, Request, Step, Fits, WithEmail
<1>2. Steps(r, x)
  BY <1>1, BeginSteps DEF CreateAsset
<1>3. RowsTyped' /\ UNCHANGED <<held, inv, made, beyond, freed, sub, assets, lowered>>
      /\ UNCHANGED <<rows, past>>
  BY Typed DEF CreateAsset, RowsTyped, rows, past
<1> HIDE DEF x
<1>4. AccountInv'
  BY <1>1, <1>2, <1>3, AccountsUntouched
<1>5. RoomInv'
  <2>1. CASE Unlimited
    <3>1. ~Measured
      BY <2>1 DEF Unlimited, Measured
    <3> QED
      BY <2>1, <3>1, <1>1, <1>2, <1>3, LetThrough
  <2>2. CASE ~Unlimited
    <3>1. InFlight' = InFlight
      BY <2>2, <1>1, <1>2, Typed DEF InFlight, At, Steps, CreateAsset, Begin, Start
    <3>2. Room'
      <4>1. Measured' = Measured
        BY <1>3 DEF Measured
      <4>2. /\ Cardinality(Requests) \in Nat /\ Cardinality(Requests) >= 1
            /\ Cardinality(InFlight) \in Nat
            /\ sub.max \in Nat /\ assets.live \in Nat /\ beyond \in Nat
            /\ overlapped \in BOOLEAN /\ overlapped' \in BOOLEAN /\ (overlapped => overlapped')
        <5>1. InFlight \in SUBSET Requests
          BY DEF InFlight
        <5> QED
          BY <5>1, <1>2, Counting, Typed DEF RowsTyped, Subscription, Steps, Counters
      <4> HIDE DEF InFlight
      <4> QED
        BY <4>1, <4>2, <3>1, <1>3 DEF Room, Surplus, IInv, RoomInv
    <3>3. ReadRoom'
      <4> SUFFICES ASSUME Measured', NEW q \in Requests, At(q, "count")'
                   PROVE  req'[q].max <= sub'.max
        BY DEF ReadRoom
      <4>1. CASE q = r
        BY <4>1, <1>1, <1>2, <1>3, Typed DEF Steps, RowsTyped, Subscription
      <4>2. CASE q # r
        BY <4>2, <1>2, <1>3, Typed DEF Steps, IInv, RoomInv, ReadRoom, At, Measured
      <4> QED
        BY <4>1, <4>2
    <3> QED
      BY <1>2, <3>2, <3>3 DEF RoomInv, Steps
  <2> QED
    BY <2>1, <2>2
<1> QED
  BY <1>4, <1>5 DEF IInv

LEMMA CountAssetsKeeps == ASSUME IInv, NEW r \in Requests, CountAssets(r) PROVE IInv'
<1>1. ~At(r, "idle") /\ UNCHANGED <<rows, past>>
  BY DEF CountAssets, At
<1>2. CASE assets.live >= req[r].max
  BY <1>1, <1>2, DoneReads DEF CountAssets
<1>3. CASE ~(assets.live >= req[r].max)
  <2> DEFINE x == [req[r] EXCEPT !.at = "asset"]
  <2>1. Steps(r, x) /\ x \in Request /\ x.at = "asset" /\ Fits(x)
    <3>1. "asset" \in Step /\ Onward(r, "asset")
      BY <1>3 DEF CountAssets, Step
    <3>2. x.at = "asset" /\ Fits(x)
      BY Typed DEF Fits, Request, WithEmail
    <3> QED
      BY <1>1, <3>1, <3>2, OnwardSteps
  <2>2. Measured => assets.live < sub.max
    BY <1>3, Typed DEF CountAssets, IInv, RoomInv, ReadRoom, RowsTyped, Request, Subscription
  <2>3. RowsTyped' /\ UNCHANGED <<held, inv, made, freed>>
    BY <1>1, Typed DEF RowsTyped, rows, past
  <2> QED
    BY <2>1, <2>2, <2>3, <1>1, LetThrough, AccountsUntouched DEF IInv
<1> QED
  BY <1>2, <1>3

LEMMA AssetStepsKeep ==
  ASSUME IInv, NEW r \in Requests, WriteAsset(r) \/ RemoveAsset(r) \/ RestoreAsset(r)
  PROVE  IInv'
<1>1. CASE WriteAsset(r)
  <2>1. Steps(r, Idle)
    BY <1>1, DoneSteps DEF WriteAsset, At
  <2>2. /\ RowsTyped' /\ UNCHANGED <<sub, lowered, beyond, held, inv, made, freed>>
        /\ assets'.live = assets.live + 1 /\ At(r, "asset")
    BY <1>1, Typed DEF WriteAsset, RowsTyped, past
  <2> QED
    BY <2>1, <2>2, IdleFits, SubscriptionStep, Typed DEF Measured, RowsTyped, Subscription
<1>2. CASE RemoveAsset(r)
  <2>1. Steps(r, Idle)
    BY <1>2, BeginSteps, IdleFits DEF RemoveAsset, Single
  <2>2. /\ RowsTyped' /\ UNCHANGED <<sub, lowered, beyond, held, inv, made, freed>>
        /\ assets'.live = assets.live - 1
    BY <1>2, Typed DEF RemoveAsset, RowsTyped, past
  <2> QED
    BY <2>1, <2>2, IdleFits, SubscriptionStep, Typed DEF Measured, RowsTyped, Subscription
<1>3. CASE RestoreAsset(r)
  <2>1. Steps(r, Idle)
    BY <1>3, BeginSteps, IdleFits DEF RestoreAsset, Single
  <2>2. RowsTyped' /\ UNCHANGED <<held, inv, made, beyond, freed>> /\ lowered'
    BY <1>3, Typed DEF RestoreAsset, RowsTyped
  <2> QED
    BY <2>1, <2>2, IdleFits, SubscriptionStep DEF Measured
<1> QED
  BY <1>1, <1>2, <1>3

\* While an operator writes an asset, the requests that were let through are
\* others than its own: if there is room, they pass the limit by one each.
LEMMA OperatorAssetKeeps == ASSUME IInv, NEW r \in Requests, WriteOperatorAsset(r) PROVE IInv'
<1>1. /\ Steps(r, Idle) /\ At(r, "grant") /\ ~At(r, "idle")
      /\ UNCHANGED <<sub, orgActive, members, held, inv, made, lowered, freed>>
      /\ assets'.live = assets.live + 1 /\ beyond' = beyond + (IF Full THEN 1 ELSE 0)
      /\ RowsTyped'
  BY DoneSteps, Typed DEF WriteOperatorAsset, At, RowsTyped
<1>2. AccountInv'
  BY <1>1, IdleFits, AccountsUntouched
<1>3. InFlight' = InFlight /\ InFlight \in SUBSET Requests /\ r \notin InFlight
  BY <1>1, Typed, IdleFits DEF InFlight, At, Steps
<1>4. /\ Cardinality(InFlight) \in Nat /\ Cardinality(InFlight) <= Cardinality(Requests) - 1
      /\ Cardinality(Requests) \in Nat
  <2>1. /\ Cardinality(InFlight \union {r}) = Cardinality(InFlight) + 1
        /\ Cardinality(InFlight) \in Nat /\ Cardinality(Requests) \in Nat
    BY <1>3, Counting
  <2>2. InFlight \union {r} \in SUBSET Requests
    BY <1>3
  <2>3. Cardinality(InFlight \union {r}) <= Cardinality(Requests)
    BY ONLY <2>2, r \in Requests, Counting
  <2> QED
    BY <2>1, <2>3
<1>5. ~overlapped => InFlight = {}
  BY <1>1, <1>3 DEF InFlight, IInv, RoomInv, OneAtATime, At
<1>6. Room'
  <2> SUFFICES ASSUME Measured'
               PROVE  assets'.live + Cardinality(InFlight') <= sub'.max + beyond' + Surplus'
    BY DEF Room
  <2>1. Measured /\ overlapped' = overlapped
    BY <1>1 DEF Measured, WriteOperatorAsset, Done, Goto
  <2>2. /\ assets.live \in Nat /\ sub.max \in Nat /\ beyond \in Nat /\ overlapped \in BOOLEAN
        /\ assets.live + Cardinality(InFlight) <= sub.max + beyond + Surplus
        /\ Surplus' = Surplus /\ (Surplus = IF overlapped THEN Cardinality(Requests) - 1 ELSE 0)
    BY <2>1, Typed DEF RowsTyped, Subscription, IInv, RoomInv, Room, Surplus
  <2>3. Cardinality({}) = 0
    BY FS_EmptySet
  <2> HIDE DEF InFlight, Surplus
  <2>4. CASE Full
    BY <1>1, <1>3, <1>4, <2>2, <2>4
  <2>5. CASE ~Full
    BY <1>1, <1>3, <1>4, <1>5, <2>2, <2>3, <2>5 DEF Full
  <2> QED
    BY <2>4, <2>5
<1>7. ReadRoom'
  <2> SUFFICES ASSUME Measured', NEW q \in Requests, At(q, "count")'
               PROVE  req'[q].max <= sub'.max
    BY DEF ReadRoom
  <2>1. q # r /\ req'[q] = req[q] /\ Measured
    BY <1>1, Typed, IdleFits DEF Steps, At, Measured
  <2> QED
    BY <1>1, <2>1 DEF IInv, RoomInv, ReadRoom, At
<1> QED
  BY <1>1, <1>2, <1>6, <1>7 DEF IInv, RoomInv, Steps

LEMMA OperatorCallKeeps == ASSUME IInv, NEW r \in Requests, OperatorCreatesAsset(r) PROVE IInv'
<1> DEFINE x == [Idle EXCEPT !.at = "grant"]
<1>1. x \in Request /\ Fits(x) /\ x.at \notin {"asset", "count"}
  BY DEF Idle, Request, Step, Fits, WithEmail
<1> QED
  BY <1>1, BeginSteps, ReadStep DEF OperatorCreatesAsset

-----------------------------------------------------------------------------
(* Invitations and accounts.                                               *)

\* The calls and the checks of these handlers only read.
LEMMA AccountCallsKeep ==
  ASSUME IInv, NEW r \in Requests
  PROVE  /\ \A e \in Emails, role \in {"WORKER", "EXTERNAL"} :
              Invite(r, e, role) \/ OperatorInvites(r, e, role) => IInv'
         /\ \A e \in Emails : CreateUser(r, e) \/ RegisterOrganization(r, e) => IInv'
         /\ \A i \in Invitations : Register(r, i) => IInv'
<1>0. ASSUME NEW e \in Emails, NEW role \in {"WORKER", "EXTERNAL"}, OperatorInvites(r, e, role)
      PROVE  IInv'
  <2> DEFINE x == [Idle EXCEPT !.at = "vacancy", !.email = e, !.role = role]
  <2>1. x \in Request /\ Fits(x) /\ x.at \notin {"asset", "count"}
    BY DEF Idle, Request, Step, Fits, WithEmail
  <2> QED
    BY <2>1, <1>0, BeginSteps, ReadStep DEF OperatorInvites
<1>1. ASSUME NEW e \in Emails, NEW role \in {"WORKER", "EXTERNAL"}, Invite(r, e, role) PROVE IInv'
  <2> DEFINE x == [Idle EXCEPT !.at = IF Unlimited THEN "vacancy" ELSE "seats",
                               !.max = sub.max, !.email = e, !.role = role]
  <2>1. x \in Request /\ Fits(x) /\ x.at \notin {"asset", "count"}
    BY Typed DEF RowsTyped, Subscription, Idle, Request, Step, Fits, WithEmail
  <2> QED
    BY <2>1, <1>1, BeginSteps, ReadStep DEF Invite
<1>2. ASSUME NEW e \in Emails, CreateUser(r, e) PROVE IInv'
  <2> DEFINE x == [Idle EXCEPT !.at = "taken", !.email = e]
  <2>1. x \in Request /\ Fits(x) /\ x.at \notin {"asset", "count"}
    BY DEF Idle, Request, Step, Fits, WithEmail
  <2> QED
    BY <2>1, <1>2, BeginSteps, ReadStep DEF CreateUser
<1>3. ASSUME NEW e \in Emails, RegisterOrganization(r, e) PROVE IInv'
  <2> DEFINE x == [Idle EXCEPT !.at = "taken", !.email = e, !.here = FALSE]
  <2>1. x \in Request /\ Fits(x) /\ x.at \notin {"asset", "count"}
    BY DEF Idle, Request, Step, Fits, WithEmail
  <2> QED
    BY <2>1, <1>3, BeginSteps, ReadStep DEF RegisterOrganization
<1>4. ASSUME NEW i \in Invitations, Register(r, i) PROVE IInv'
  <2> DEFINE x == [Idle EXCEPT !.at = "taken", !.inv = i,
                               !.email = inv[i].email, !.role = inv[i].role]
  <2>1. inv[i].st = "open" /\ inv[i].email \in Emails /\ inv[i].role \in {"WORKER", "EXTERNAL"}
    BY <1>4, Typed DEF Register, IInv, AccountInv, Addressed, Invitation
  <2>2. x \in Request /\ Fits(x) /\ x.at \notin {"asset", "count"}
    BY <2>1 DEF Idle, Request, Step, Fits, WithEmail
  <2> QED
    BY <2>2, <1>4, BeginSteps, ReadStep DEF Register
<1> QED
  BY <1>0, <1>1, <1>2, <1>3, <1>4

LEMMA AccountChecksKeep ==
  ASSUME IInv, NEW r \in Requests,
         CountUsers(r) \/ CheckInvitations(r) \/ CheckAccount(r) \/ FindAccount(r)
  PROVE  IInv'
<1> DEFINE Quiet == Step \ {"asset", "count", "register", "approve"}
<1>1. CASE CountUsers(r)
  <2>1. /\ ~At(r, "idle") /\ req[r].at \in WithEmail /\ "vacancy" \in Quiet
        /\ UNCHANGED <<rows, past>> /\ (Done(r) \/ Onward(r, "vacancy"))
    BY <1>1 DEF CountUsers, At, WithEmail, Step
  <2> QED
    BY <2>1, DoneReads, OnwardReads
<1>2. CASE CheckInvitations(r)
  <2>1. /\ ~At(r, "idle") /\ req[r].at \in WithEmail /\ "account" \in Quiet
        /\ UNCHANGED <<rows, past>> /\ (Done(r) \/ Onward(r, "account"))
    BY <1>2 DEF CheckInvitations, At, WithEmail, Step
  <2> QED
    BY <2>1, DoneReads, OnwardReads
<1>3. CASE CheckAccount(r)
  <2>1. /\ ~At(r, "idle") /\ req[r].at \in WithEmail /\ "invite" \in Quiet
        /\ UNCHANGED <<rows, past>> /\ (Done(r) \/ Onward(r, "invite"))
    BY <1>3 DEF CheckAccount, At, WithEmail, Step
  <2> QED
    BY <2>1, DoneReads, OnwardReads
<1>4. CASE FindAccount(r)
  <2>1. /\ ~At(r, "idle") /\ req[r].at \in WithEmail /\ UNCHANGED <<rows, past>>
    BY <1>4 DEF FindAccount, At, WithEmail
  <2>2. CASE Done(r)
    BY <2>1, <2>2, DoneReads
  <2>3. CASE ~Done(r) /\ req[r].inv # None
    <3> DEFINE x == [req[r] EXCEPT !.at = "register"]
    <3>1. Onward(r, "register") /\ "register" \in Step
      BY <1>4, <2>3 DEF FindAccount, Step
    <3>2. Fits(x) /\ x.at = "register"
      BY <2>1, <2>3, Typed DEF Fits, Request, WithEmail
    <3> QED
      BY <2>1, <3>1, <3>2, OnwardSteps, ReadStep
  <2>4. CASE ~Done(r) /\ req[r].inv = None
    <3>1. "found" \in Quiet /\ "insert" \in Quiet
          /\ (Onward(r, "found") \/ Onward(r, "insert"))
      BY <1>4, <2>4 DEF FindAccount, Step
    <3> QED
      BY <2>1, <3>1, OnwardReads
  <2> QED
    BY <2>2, <2>3, <2>4
<1> QED
  BY <1>1, <1>2, <1>3, <1>4

\* These write no row that the room depends on.
LEMMA NoAssets ==
  ASSUME IInv, NEW r \in Requests, Steps(r, Idle), RowsTyped',
         UNCHANGED <<sub, assets, lowered, beyond>>
  PROVE  RoomInv'
<1>1. /\ UNCHANGED <<sub, assets, lowered>>
      /\ assets.live <= assets.live + IF At(r, "asset") THEN 1 ELSE 0
      /\ sub.max <= sub.max
  BY Typed DEF RowsTyped, Subscription
<1> QED
  <2>1. Measured' => /\ Measured /\ sub.max <= sub'.max
                     /\ assets'.live <= assets.live + IF At(r, "asset") THEN 1 ELSE 0
    BY <1>1 DEF Measured
  <2> QED
    BY <2>1, IdleFits, RoomKept

LEMMA WriteInvitationKeeps == ASSUME IInv, NEW r \in Requests, WriteInvitation(r) PROVE IInv'
<1>1. /\ Steps(r, Idle) /\ RowsTyped' /\ UNCHANGED <<sub, assets, lowered, beyond, held, made, freed>>
      /\ req[r].email \in Emails /\ req[r].role \in {"WORKER", "EXTERNAL"}
  BY DoneSteps, Typed DEF WriteInvitation, At, RowsTyped, Fits, WithEmail, Request, past
<1>2. PICK i \in Invitations :
        /\ inv[i].st = "none"
        /\ inv' = [inv EXCEPT ![i] = [email |-> req[r].email, role |-> req[r].role, st |-> "open"]]
  BY DEF WriteInvitation
<1>3. /\ inv' \in [Invitations -> Invitation] /\ inv'[i].email \in Emails
      /\ \A j \in Invitations \ {i} : inv'[j] = inv[j]
  BY <1>1, <1>2, Typed DEF Invitation
<1>4. \A j \in Invitations : inv[j].st # "none" => inv'[j].st # "none" /\ inv'[j].email = inv[j].email
  BY <1>2, <1>3
<1>5. Addressed'
  BY <1>3 DEF IInv, AccountInv, Addressed
<1>6. EachOnce'
  BY <1>1, <1>4 DEF IInv, AccountInv, EachOnce, Settled
<1>7. Fits(Idle)' /\ held' \subseteq Emails /\ made' \in [Invitations -> Nat] /\ freed' \in BOOLEAN
  BY <1>1, Typed DEF Fits, Idle, WithEmail
<1> QED
  BY <1>1, <1>3, <1>4, <1>5, <1>6, <1>7, IdleFits, AccountsKept, NoAssets DEF IInv

\* The address is free when the account is written, so nothing was made of
\* this invitation before.
LEMMA WriteRegistrationKeeps == ASSUME IInv, NEW r \in Requests, WriteRegistration(r) PROVE IInv'
<1>1. /\ Steps(r, Idle) /\ UNCHANGED <<sub, assets, lowered, beyond, orgActive, freed>>
  BY DoneSteps DEF WriteRegistration, At
<1> DEFINE i == req[r].inv
           e == req[r].email
<1>2. i \in Invitations /\ inv[i].st # "none" /\ e \in Emails /\ e = inv[i].email
  BY Typed DEF WriteRegistration, At, Fits, WithEmail, Request
<1>3. CASE e \in held
  <2>1. RowsTyped' /\ UNCHANGED <<held, inv, made, freed>>
    BY <1>1, <1>3, Typed DEF WriteRegistration, RowsTyped
  <2> QED
    BY <1>1, <2>1, IdleFits, AccountsUntouched, NoAssets DEF IInv
<1>4. CASE e \notin held
  <2>1. /\ held' = held \union {e} /\ members' = Joined(r)
        /\ inv' = [inv EXCEPT ![i].st = "used"] /\ made' = [made EXCEPT ![i] = @ + 1]
    BY <1>4 DEF WriteRegistration
  <2>2. /\ RowsTyped' /\ held' \subseteq Emails /\ made' \in [Invitations -> Nat]
        /\ freed' \in BOOLEAN
    BY <1>1, <1>2, <2>1, Typed DEF RowsTyped, Joined
  <2> HIDE DEF i, e
  <2>3. /\ inv' \in [Invitations -> Invitation]
        /\ \A j \in Invitations : inv'[j].email = inv[j].email
        /\ \A j \in Invitations \ {i} : inv'[j] = inv[j]
        /\ inv'[i].st = "used"
    BY <1>2, <2>1, Typed DEF Invitation
  <2>4. Addressed'
    BY <1>2, <2>3 DEF IInv, AccountInv, Addressed
  <2>5. ASSUME ~freed, NEW j \in Invitations PROVE Settled(j)'
    <3>1. Settled(j) /\ made[j] \in Nat
      BY <2>5, Typed DEF IInv, AccountInv, EachOnce
    <3>2. CASE j = i
      BY <3>1, <3>2, <1>2, <1>4, <2>1, <2>3, Typed DEF Settled
    <3>3. CASE j # i
      BY <3>1, <3>3, <2>1, <2>3, Typed DEF Settled
    <3> QED
      BY <3>2, <3>3
  <2>6. EachOnce'
    BY <1>1, <2>5 DEF EachOnce
  <2>7. Fits(Idle)'
    BY DEF Fits, Idle, WithEmail
  <2> QED
    BY <1>1, <2>2, <2>3, <2>4, <2>6, <2>7, IdleFits, AccountsKept, NoAssets DEF IInv
<1> QED
  BY <1>3, <1>4

\* More addresses in use, and the same invitations.
LEMMA MoreHeld ==
  ASSUME IInv, NEW r \in Requests, Steps(r, Idle), RowsTyped', held \subseteq held',
         held' \subseteq Emails, UNCHANGED <<sub, assets, lowered, beyond, inv, made, freed>>
  PROVE  IInv'
<1>1. Fits(Idle)' /\ Addressed'
  BY DEF Fits, Idle, WithEmail, IInv, AccountInv, Addressed
<1>2. EachOnce'
  BY DEF IInv, AccountInv, EachOnce, Settled
<1> QED
  BY <1>1, <1>2, IdleFits, Typed, AccountsKept, NoAssets DEF IInv

LEMMA AccountWritesKeep ==
  ASSUME IInv, NEW r \in Requests
  PROVE  /\ WriteUser(r) \/ WriteNewOrganization(r) => IInv'
         /\ \A e \in Emails : ChangeEmail(r, e) => IInv'
<1>1. ASSUME WriteUser(r) PROVE IInv'
  <2>1. Steps(r, Idle) /\ req[r].email \in Emails
    BY <1>1, DoneSteps, Typed DEF WriteUser, At, Fits, WithEmail
  <2>2. /\ RowsTyped' /\ held \subseteq held' /\ held' \subseteq Emails
        /\ UNCHANGED <<sub, assets, lowered, beyond, inv, made, freed>>
    BY <1>1, <2>1, Typed DEF WriteUser, RowsTyped, Joined, past
  <2> QED
    BY <2>1, <2>2, MoreHeld
<1>2. ASSUME WriteNewOrganization(r) PROVE IInv'
  <2>1. Steps(r, Idle) /\ req[r].email \in Emails
    BY <1>2, DoneSteps, Typed DEF WriteNewOrganization, At, Fits, WithEmail
  <2>2. /\ RowsTyped' /\ held \subseteq held' /\ held' \subseteq Emails
        /\ UNCHANGED <<sub, assets, lowered, beyond, inv, made, freed>>
    BY <1>2, <2>1, Typed DEF WriteNewOrganization, RowsTyped, past
  <2> QED
    BY <2>1, <2>2, MoreHeld
<1>3. ASSUME NEW e \in Emails, ChangeEmail(r, e) PROVE IInv'
  <2>1. Steps(r, Idle)
    BY <1>3, BeginSteps, IdleFits DEF ChangeEmail, Single
  <2>2. /\ RowsTyped' /\ held' \subseteq Emails /\ freed'
        /\ freed' \in BOOLEAN /\ UNCHANGED <<sub, assets, lowered, beyond, inv, made>>
    BY <1>3, Typed DEF ChangeEmail, RowsTyped
  <2>3. Fits(Idle)' /\ Addressed' /\ EachOnce'
    BY <2>2 DEF Fits, Idle, WithEmail, IInv, AccountInv, Addressed, EachOnce
  <2> QED
    BY <2>1, <2>2, <2>3, IdleFits, Typed, AccountsKept, NoAssets DEF IInv
<1> QED
  BY <1>1, <1>2, <1>3

-----------------------------------------------------------------------------
(* The subscription.  A plan either gives room or is noted as lowered.     *)

LEMMA PlanKeeps ==
  ASSUME IInv, NEW r \in Requests, NEW x \in Request, Steps(r, x), Fits(x),
         x.at \notin {"asset", "count"}, NEW p \in Plans, WritePlan(r, p)
  PROVE  IInv'
<1>1. Limit[p] \in Nat
  BY LimitAssumption
<1>2. Bought(p) \in Subscription /\ Bought(p).max = Limit[p]
  BY <1>1 DEF Bought, Subscription
<1>3. RowsTyped' /\ UNCHANGED <<assets, held, inv, made, beyond, freed>>
  BY <1>2, Typed DEF WritePlan, RowsTyped
<1>4. Measured' => Measured /\ sub.max <= sub'.max
  <2>1. /\ sub'.max = Limit[p] /\ sub.max \in Nat
        /\ Measured' => ~lowered /\ ~Unlimited /\ ~(Limit[p] < sub.max)
    BY <1>2, Typed DEF WritePlan, Measured, RowsTyped, Subscription
  <2> QED
    BY <1>1, <2>1 DEF Measured, Unlimited
<1>5. assets'.live <= assets.live + IF At(r, "asset") THEN 1 ELSE 0
  BY <1>3, Typed DEF RowsTyped
<1> QED
  BY <1>3, <1>4, <1>5, SubscriptionStep

\* Neither the limit nor whether there is one changes.
LEMMA SameLimit ==
  ASSUME IInv, NEW r \in Requests, NEW x \in Request, Steps(r, x), Fits(x),
         x.at \notin {"asset", "count"}, sub' \in Subscription, orgActive' \in BOOLEAN,
         sub'.plan = sub.plan, sub'.max = sub.max,
         UNCHANGED <<assets, members, held, inv, past>>
  PROVE  IInv'
<1>1. RowsTyped' /\ UNCHANGED <<assets, held, inv, made, freed, lowered, beyond>>
  BY Typed DEF RowsTyped, past
<1>2. Measured' => /\ Measured /\ sub.max <= sub'.max
                   /\ assets'.live <= assets.live + IF At(r, "asset") THEN 1 ELSE 0
  BY <1>1, Typed DEF RowsTyped, Subscription, Measured
<1> QED
  BY <1>1, <1>2, SubscriptionStep

LEMMA ReopenFits ==
  ASSUME NEW b \in BOOLEAN
  PROVE  LET x == [Idle EXCEPT !.at = "reopen", !.to = b]
         IN  x \in Request /\ Fits(x) /\ x.at \notin {"asset", "count"}
BY DEF Idle, Request, Step, Fits, WithEmail

LEMMA SubscriptionCallsKeep ==
  ASSUME IInv, NEW r \in Requests
  PROVE  /\ \A p \in Plans : UpdatePlan(r, p) \/ RequestPlanChange(r, p) => IInv'
         /\ \A b \in BOOLEAN : ApprovePlanChange(r, b) => IInv'
         /\ \A b \in BOOLEAN : ToggleSubscription(r, b) \/ ToggleOrganization(r, b) => IInv'
         /\ BackfillMissing(r) => IInv'
<1>1. ASSUME NEW p \in Plans, UpdatePlan(r, p) PROVE IInv'
  BY <1>1, ReopenFits, BeginSteps, PlanKeeps DEF UpdatePlan
<1>2. ASSUME NEW p \in Plans, RequestPlanChange(r, p) PROVE IInv'
  <2>1. /\ sub' \in Subscription /\ sub'.plan = sub.plan /\ sub'.max = sub.max
        /\ UNCHANGED <<orgActive, assets, members, held, inv, past>>
    BY <1>2, Typed DEF RequestPlanChange, RowsTyped, Subscription
  <2> QED
    BY <1>2, <2>1, BeginSteps, IdleFits, SameLimit, Typed DEF RequestPlanChange, Single, RowsTyped
<1>3. ASSUME NEW b \in BOOLEAN, ApprovePlanChange(r, b) PROVE IInv'
  <2> DEFINE x == [Idle EXCEPT !.at = IF b THEN "approve" ELSE "reject", !.plan = sub.pending]
  <2>1. sub.pending \in Plans
    BY <1>3, Typed DEF ApprovePlanChange, RowsTyped, Subscription
  <2>2. x \in Request /\ Fits(x) /\ x.at \notin {"asset", "count"}
    BY <2>1 DEF Idle, Request, Step, Fits, WithEmail
  <2> QED
    BY <2>2, <1>3, BeginSteps, ReadStep DEF ApprovePlanChange
<1>4. ASSUME NEW b \in BOOLEAN, ToggleSubscription(r, b) PROVE IInv'
  <2> DEFINE x == [Idle EXCEPT !.at = "reopen", !.to = b]
  <2>1. /\ sub' \in Subscription /\ sub'.plan = sub.plan /\ sub'.max = sub.max
        /\ UNCHANGED <<orgActive, assets, members, held, inv, past>>
    BY <1>4, Typed DEF ToggleSubscription, RowsTyped, Subscription
  <2>2. x \in Request /\ Fits(x) /\ x.at \notin {"asset", "count"}
    BY ReopenFits
  <2> QED
    BY <1>4, <2>1, <2>2, BeginSteps, SameLimit, Typed DEF ToggleSubscription, RowsTyped
<1>5. ASSUME NEW b \in BOOLEAN, ToggleOrganization(r, b) PROVE IInv'
  <2>1. /\ orgActive' \in BOOLEAN /\ UNCHANGED <<sub, assets, members, held, inv, past>>
    BY <1>5 DEF ToggleOrganization, past
  <2> QED
    BY <1>5, <2>1, BeginSteps, IdleFits, SameLimit, Typed
       DEF ToggleOrganization, Single, RowsTyped, Subscription
<1>6. ASSUME BackfillMissing(r) PROVE IInv'
  <2> DEFINE x == [Idle EXCEPT !.at = "backfill"]
  <2>1. x \in Request /\ Fits(x) /\ x.at \notin {"asset", "count"}
    BY DEF Idle, Request, Step, Fits, WithEmail
  <2> QED
    BY <2>1, <1>6, BeginSteps, ReadStep DEF BackfillMissing
<1> QED
  BY <1>1, <1>2, <1>3, <1>4, <1>5, <1>6

LEMMA SubscriptionWritesKeep ==
  ASSUME IInv, NEW r \in Requests,
         \/ WriteApproved(r) \/ WriteRejected(r) \/ WriteOrganization(r) \/ WriteBackfill(r)
         \/ WriteSuspended(r) \/ CloseOrganization(r)
  PROVE  IInv'
<1>1. CASE WriteApproved(r)
  <2>1. req[r].plan \in Plans /\ ~At(r, "idle")
    BY <1>1, Typed DEF WriteApproved, At, Fits
  <2> QED
    BY <1>1, <2>1, ReopenFits, GotoSteps, PlanKeeps DEF WriteApproved
<1>2. CASE WriteRejected(r)
  <2>1. /\ sub' \in Subscription /\ sub'.plan = sub.plan /\ sub'.max = sub.max
        /\ UNCHANGED <<orgActive, assets, members, held, inv, past>> /\ ~At(r, "idle")
    BY <1>2, Typed DEF WriteRejected, RowsTyped, Subscription, At
  <2> QED
    BY <1>2, <2>1, DoneSteps, IdleFits, SameLimit, Typed DEF WriteRejected, RowsTyped
<1>3. CASE WriteOrganization(r)
  <2>1. /\ orgActive' \in BOOLEAN /\ ~At(r, "idle")
        /\ UNCHANGED <<sub, assets, members, held, inv, past>>
    BY <1>3, Typed DEF WriteOrganization, Request, At
  <2> QED
    BY <1>3, <2>1, DoneSteps, IdleFits, SameLimit, Typed
       DEF WriteOrganization, RowsTyped, Subscription
<1>4. CASE WriteBackfill(r)
  <2>1. ~At(r, "idle") /\ UNCHANGED <<orgActive, assets, members, held, inv, made, beyond, freed>>
    BY <1>4 DEF WriteBackfill, At
  <2>2. NewDemo \in Subscription
    BY LimitAssumption DEF NewDemo, Subscription, Plans
  <2>3. RowsTyped' /\ (Measured' => Measured /\ UNCHANGED sub)
    BY <1>4, <2>2, Typed DEF WriteBackfill, RowsTyped, Measured
  <2>4. Measured' => /\ Measured /\ sub.max <= sub'.max
                     /\ assets'.live <= assets.live + IF At(r, "asset") THEN 1 ELSE 0
    BY <2>1, <2>3, Typed DEF RowsTyped, Subscription
  <2> QED
    BY <1>4, <2>1, <2>3, <2>4, DoneSteps, IdleFits, SubscriptionStep DEF WriteBackfill
<1>5. CASE WriteSuspended(r)
  <2> DEFINE x == [req[r] EXCEPT !.at = "close"]
  <2>1. /\ sub' \in Subscription /\ sub'.plan = sub.plan /\ sub'.max = sub.max
        /\ UNCHANGED <<orgActive, assets, members, held, inv, past>> /\ ~At(r, "idle")
    BY <1>5, Typed DEF WriteSuspended, RowsTyped, Subscription, At
  <2>2. Fits(x) /\ x.at = "close"
    BY Typed DEF Fits, Request, WithEmail
  <2>3. Steps(r, x) /\ x \in Request
    <3>1. "close" \in Step /\ Onward(r, "close")
      BY <1>5 DEF Step, WriteSuspended
    <3> QED
      BY <2>1, <3>1, OnwardSteps
  <2> QED
    BY <2>1, <2>2, <2>3, SameLimit, Typed DEF RowsTyped
<1>6. CASE CloseOrganization(r)
  <2>1. /\ orgActive' \in BOOLEAN /\ ~At(r, "idle")
        /\ UNCHANGED <<sub, assets, members, held, inv, past>>
    BY <1>6, Typed DEF CloseOrganization, At
  <2> QED
    BY <1>6, <2>1, DoneSteps, IdleFits, SameLimit, Typed
       DEF CloseOrganization, RowsTyped, Subscription
<1> QED
  BY <1>1, <1>2, <1>3, <1>4, <1>5, <1>6

LEMMA NightlyKeeps == ASSUME IInv, NEW r \in Requests, SuspendExpiredDemos(r) PROVE IInv'
<1> DEFINE x == [Idle EXCEPT !.at = "suspend"]
<1>1. x \in Request /\ Fits(x) /\ x.at \notin {"asset", "count"}
  BY DEF Idle, Request, Step, Fits, WithEmail
<1>2. calls' \in 0 .. MaxCalls /\ Start(r, x) /\ UNCHANGED <<rows, past>>
  BY Typed DEF SuspendExpiredDemos
<1> QED
  BY <1>1, <1>2, StartSteps, ReadStep

\* What a request that died was let through for stays free.
LEMMA AbandonKeeps == ASSUME IInv, NEW r \in Requests, Abandon(r) PROVE IInv'
<1>1. Counters
  BY Typed, BoundAssumption DEF Abandon, Counters
<1>2. Steps(r, Idle)
  BY <1>1, IdleFits, GoesOn DEF Abandon
<1> QED
  BY <1>2, IdleFits, ReadStep DEF Abandon

LEMMA TimeKeeps == ASSUME IInv, TimePasses PROVE IInv'
<1>1. /\ UNCHANGED <<orgActive, assets, members, held, req, faults, made, lowered, beyond, freed, overlapped>>
      /\ calls' \in 0 .. MaxCalls
  BY BoundAssumption DEF TimePasses, Counted, past, IInv, AccountInv, TypeOK
<1>2. /\ sub' \in Subscription /\ sub'.plan = sub.plan /\ sub'.max = sub.max
  BY DEF TimePasses, Subscription, IInv, AccountInv, TypeOK
<1>3. /\ inv' \in [Invitations -> Invitation]
      /\ \A i \in Invitations : /\ inv'[i].email = inv[i].email
                                /\ inv'[i].st # "none" <=> inv[i].st # "none"
  <2>1. inv \in [Invitations -> Invitation]
    BY DEF IInv, AccountInv, TypeOK
  <2>2. CASE UNCHANGED inv
    BY <2>1, <2>2
  <2>3. CASE \E i \in Invitations : inv[i].st = "open" /\ inv' = [inv EXCEPT ![i].st = "expired"]
    BY <2>1, <2>3 DEF Invitation
  <2> QED
    BY <2>2, <2>3 DEF TimePasses
<1>4. TypeOK'
  BY <1>1, <1>2, <1>3 DEF IInv, AccountInv, TypeOK
<1>5. RequestsFit'
  <2> SUFFICES ASSUME NEW r \in Requests PROVE Fits(req[r])'
    BY DEF RequestsFit
  <2>1. Fits(req[r]) /\ req[r] \in Request /\ req'[r] = req[r]
    BY <1>1 DEF IInv, AccountInv, TypeOK, RequestsFit
  <2> QED
    BY <2>1, <1>3 DEF Fits, Request
<1>6. Addressed' /\ EachOnce'
  BY <1>1, <1>3 DEF IInv, AccountInv, Addressed, EachOnce, Settled
<1>7. InFlight' = InFlight
  BY <1>1 DEF InFlight, At
<1>8. Room' /\ ReadRoom' /\ OneAtATime'
  BY <1>1, <1>2, <1>7 DEF IInv, RoomInv, Room, ReadRoom, OneAtATime, Measured, Surplus, At
<1> QED
  BY <1>4, <1>5, <1>6, <1>8 DEF IInv, AccountInv, RoomInv

-----------------------------------------------------------------------------
LEMMA InitInv == Init => IInv
<1> SUFFICES ASSUME Init PROVE IInv
  OBVIOUS
<1>1. NewDemo \in Subscription /\ NewDemo.max > 0 /\ NoSubscription \in Subscription
  BY LimitAssumption DEF NewDemo, NoSubscription, Subscription, Plans
<1>2. TypeOK
  <2>1. sub \in Subscription /\ inv \in [Invitations -> Invitation]
    BY <1>1 DEF Init, Invitation
  <2>2. req \in [Requests -> Request] /\ calls \in 0 .. MaxCalls /\ faults \in 0 .. MaxFaults
    BY IdleFits, BoundAssumption DEF Init
  <2>3. made \in [Invitations -> Nat] /\ assets \in [live : Nat, trash : Nat]
    BY DEF Init
  <2> QED
    BY <2>1, <2>2, <2>3 DEF Init, TypeOK
<1>3. RequestsFit /\ Addressed /\ EachOnce
  BY IdleFits DEF Init, RequestsFit, Addressed, EachOnce, Settled
<1>4. InFlight = {}
  BY DEF Init, InFlight, At, Idle
<1>5. Room
  <2>1. Cardinality(InFlight) = 0 /\ assets.live = 1 /\ Surplus = 0 /\ beyond = 0
    BY <1>4, FS_EmptySet DEF Init, Surplus
  <2>2. sub \in Subscription /\ (sub.plan # "NONE" => sub.max > 0)
    BY <1>1 DEF Init, NoSubscription
  <2> QED
    BY <2>1, <2>2 DEF Room, Measured, Subscription
<1>6. ReadRoom /\ OneAtATime
  BY DEF Init, ReadRoom, OneAtATime, At, Idle
<1> QED
  BY <1>2, <1>3, <1>5, <1>6 DEF IInv, AccountInv, RoomInv

LEMMA NextKeeps == IInv /\ [Next]_vars => IInv'
<1> SUFFICES ASSUME IInv, [Next]_vars PROVE IInv'
  OBVIOUS
<1>1. CASE UNCHANGED vars
  BY <1>1 DEF vars, rows, past, IInv, AccountInv, TypeOK, RequestsFit, Fits, Addressed, EachOnce,
              Settled, RoomInv, Room, ReadRoom, OneAtATime, Measured, Surplus, InFlight, At
<1>2. ASSUME NEW r \in Requests, Call(r) PROVE IInv'
  <2>1. CASE CreateAsset(r) \/ OperatorCreatesAsset(r) \/ RemoveAsset(r) \/ RestoreAsset(r)
    BY <2>1, CreateAssetKeeps, OperatorCallKeeps, AssetStepsKeep
  <2>2. CASE \E e \in Emails : \/ \E role \in {"WORKER", "EXTERNAL"} :
                                   Invite(r, e, role) \/ OperatorInvites(r, e, role)
                               \/ CreateUser(r, e) \/ RegisterOrganization(r, e)
                               \/ ChangeEmail(r, e)
    BY <2>2, AccountCallsKeep, AccountWritesKeep
  <2>3. CASE \E i \in Invitations : Register(r, i)
    BY <2>3, AccountCallsKeep
  <2>4. CASE \/ \E p \in Plans : UpdatePlan(r, p) \/ RequestPlanChange(r, p)
             \/ \E b \in BOOLEAN : ApprovePlanChange(r, b) \/ ToggleSubscription(r, b)
                                  \/ ToggleOrganization(r, b)
             \/ BackfillMissing(r)
    BY <2>4, SubscriptionCallsKeep
  <2> QED
    BY <1>2, <2>1, <2>2, <2>3, <2>4 DEF Call, SubscriptionCall
<1>3. ASSUME NEW r \in Requests, Continue(r) PROVE IInv'
  BY <1>3, CountAssetsKeeps, AssetStepsKeep, OperatorAssetKeeps, AccountChecksKeep, WriteInvitationKeeps,
     WriteRegistrationKeeps, AccountWritesKeep, SubscriptionWritesKeep DEF Continue
<1> QED
  BY <1>1, <1>2, <1>3, NightlyKeeps, AbandonKeeps, TimeKeeps DEF Next

THEOREM Invariant == Spec => []IInv
BY InitInv, NextKeeps, PTL DEF Spec

\* Every state of the organisation's rows and requests is well-formed.
THEOREM TypeCorrect == Spec => []TypeOK
<1>1. IInv => TypeOK
  BY DEF IInv, AccountInv
<1> QED
  BY <1>1, Invariant, PTL

\* However the link of an invitation is raced, it makes one account at most
\* while no account gives its address up (register, User.email unique).
THEOREM AccountsOnce == Spec => []OneAccountPerInvitation
<1>1. IInv => OneAccountPerInvitation
  BY DEF IInv, AccountInv, EachOnce, Settled, OneAccountPerInvitation
<1> QED
  BY <1>1, Invariant, PTL

\* The assets pass the limit of a plan by no more than one for every other
\* request that was under way, and those an operator added to a full one
\* (PlanLimitGuard, checkLimit).
THEOREM LimitKept == Spec => []LimitHolds
<1>1. IInv => LimitHolds
  <2> SUFFICES ASSUME IInv, Measured
               PROVE  assets.live <= sub.max + beyond + Surplus
    BY DEF LimitHolds, Measured, Surplus
  <2>1. assets.live + Cardinality(InFlight) <= sub.max + beyond + Surplus
    BY DEF IInv, RoomInv, Room
  <2>2. IsFiniteSet(InFlight) /\ InFlight \subseteq Requests
    BY RequestsAssumption, FS_Subset DEF InFlight
  <2>3. Cardinality(InFlight) \in Nat /\ Cardinality(Requests) \in Nat
    BY <2>2, RequestsAssumption, FS_CardinalityType
  <2>4. assets.live \in Nat /\ sub.max \in Nat /\ beyond \in Nat
    BY DEF IInv, AccountInv, TypeOK, Subscription
  <2>5. Surplus \in Int
    BY <2>3 DEF Surplus
  <2> HIDE DEF InFlight, Surplus
  <2> QED
    BY <2>1, <2>3, <2>4, <2>5
<1> QED
  BY <1>1, Invariant, PTL

(***************************************************************************)
(* Mailer.  An order says by its stage what it is about and which mails    *)
(* belong to it.  The invariant has a part for each property: a handler    *)
(* mails an alert only where it has read that it is wanted (Unasked); of a *)
(* subject not blurred for a person one handler at most is under way, the  *)
(* mails about it are of one voice, and without any the last notice is     *)
(* true (Notices); and of the links of a person, as long as nothing befell *)
(* them, those alive were handed over or are in the outbox, and there is   *)
(* one as soon as a caller was told so (Boxes).                            *)
(***************************************************************************)


-----------------------------------------------------------------------------
(* Types: what an order is about, by its stage; and the mail somebody awaits. *)

Kinds == {"reset", "code", "invite"}
ToAdmins == {"subscription_status_changed", "demo_expiring_soon", "storage_near_limit",
             "service_completed_admin", "service_edited"}
Stages == {"idle", "kill", "create", "mailing", "password", "factor", "tell", "welcome", "inviter",
           "flip", "flip-silently", "suspend", "open", "admins", "requester", "plan", "clear",
           "reopen", "session", "uploader", "externals"}
Abouts == Subjects \union Kinds \union {"event", "silent"}
Says   == {"none", "on", "off", "paid", "demo"}

OrderType == [at : Stages, who : People \union {NoOne}, about : Abouts,
              template : Templates \union {"none"}, says : Says, began : Nat]
MailType  == [template : Templates, to : People, about : Abouts, says : Says, n : Nat,
              began : Nat, by : Handlers \union {NoOne}]
TokenType == [n : Nat, kind : Kinds, to : People, live : BOOLEAN]
PostType  == [key : BOOLEAN, url : BOOLEAN, off : SUBSET Switchable,
              active : [People -> BOOLEAN], account : SUBSET People,
              mails : [People -> BOOLEAN], alerts : [People -> BOOLEAN], factor : [People -> BOOLEAN],
              running : BOOLEAN, org : BOOLEAN, over : BOOLEAN, plan : {"demo", "paid"},
              pending : People \union {NoOne}, tokens : SUBSET TokenType]
VowType   == [told : SUBSET (Kinds \X People), upset : SUBSET (Kinds \X People),
              blurred : SUBSET (People \X Subjects),
              offSince : [People -> [{"mails", "alerts"} -> Nat]]]

OrderFits(o) ==
  /\ o.at = "idle" => o = NoOrder
  /\ o.at = "kill" => o.about \in {"reset", "code"}
  /\ o.at = "create" => o.about \in Kinds
  /\ o.at = "mailing" => o.about \in Kinds \union {"event"}
  /\ o.at \in {"password", "welcome", "inviter", "session", "uploader", "externals"} => o.about = "event"
  /\ o.at \in {"factor", "tell"} => o.about = "factor" /\ o.says \in {"on", "off"}
  /\ o.at \in {"flip", "flip-silently"} => o.about = "user" /\ o.says \in {"on", "off"}
  /\ o.at \in {"suspend", "open"} => o.about = "org" /\ o.template = "subscription_status_changed"
  /\ o.about = "org" => o.says \in {"on", "off"}
  /\ o.at = "admins" => /\ o.template \in ToAdmins
                        /\ o.about = IF o.template = "subscription_status_changed" THEN "org" ELSE "event"
  /\ o.at = "requester" => /\ o.about = "plan" /\ o.says \in {"paid", "demo"}
                           /\ o.template \in {"plan_change_approved", "plan_change_rejected"}
                           /\ o.template = "plan_change_approved" => o.says = "paid"
  /\ o.at \in {"plan", "reopen"} => o.about \in {"plan", "silent"} /\ o.says = "paid"
  /\ o.at = "clear" => o.about = "plan" /\ o.template = "plan_change_rejected"
  /\ o.at \notin {"idle", "suspend", "open", "admins", "externals"} /\ o.about # "silent" => o.who \in People

\* A link, a code or a welcome is awaited by its handler, the rest by nobody.
MailFits(m, os) ==
  /\ m.about \in Kinds \union Subjects \union {"event"}
  /\ m.about \in Kinds => m.by # NoOne
  /\ m.about \in Subjects => m.by = NoOne
  /\ m.by # NoOne => os[m.by].at = "mailing" /\ os[m.by].about = m.about /\ os[m.by].who = m.to
  /\ m.by = NoOne => m.template \notin Critical
  /\ m.by # NoOne /\ m.about = "event" => m.template = "welcome"
  /\ m.template = "welcome" => m.by # NoOne /\ m.about = "event"

PostTyped  == post \in PostType /\ IsFiniteSet(post.tokens)
HistTyped  == /\ vow \in VowType /\ last \in [People -> [Subjects -> Says \union {"unsaid"}]]
              /\ inbox \subseteq Nat /\ ordered \in Nat /\ mishaps \in Nat
OrderTyped == orders \in [Handlers -> OrderType] /\ \A h \in Handlers : OrderFits(orders[h])
MailTyped  == /\ outbox \subseteq MailType
              /\ \A m \in outbox : MailFits(m, orders)
              /\ \A m, n \in outbox : m.by # NoOne /\ m.by = n.by => m = n
MailerTyped == PostTyped /\ HistTyped /\ OrderTyped /\ MailTyped

\* A handler that awaits no mail takes a step: it leaves the order o and the mails ms.
HandlerStep(h, o, ms) ==
  /\ orders[h].at # "mailing" /\ orders' = [orders EXCEPT ![h] = o] /\ outbox' = outbox \union ms
Fresh(h, o, ms) ==
  /\ o \in OrderType /\ OrderFits(o) /\ ms \subseteq MailType
  /\ \A m \in ms : MailFits(m, [orders EXCEPT ![h] = o]) /\ m.by \in {NoOne, h}
  /\ \A m, n \in ms : m.by # NoOne /\ m.by = n.by => m = n

LEMMA NobodyHandles == NoOne \notin Handlers /\ NoOne \notin People
  BY MailerAssumption DEF NoOne

LEMMA HandlerStepTyped ==
  ASSUME MailerTyped, NEW h \in Handlers, NEW o, NEW ms, HandlerStep(h, o, ms), Fresh(h, o, ms)
  PROVE  OrderTyped' /\ MailTyped'
<1>1. OrderTyped'
  BY DEF MailerTyped, OrderTyped, HandlerStep, Fresh
<1>2. \A g \in Handlers : orders'[g] = IF g = h THEN o ELSE orders[g]
  BY DEF MailerTyped, OrderTyped, HandlerStep
<1>3. \A m \in outbox : m.by \in Handlers \union {NoOne} /\ MailFits(m, orders) /\ m.by # h
  BY NobodyHandles DEF MailerTyped, MailTyped, HandlerStep, MailFits, MailType
<1>4. \A m \in outbox : MailFits(m, orders')
  BY <1>2, <1>3 DEF MailFits
<1>5. \A m \in ms : MailFits(m, orders')
  BY DEF HandlerStep, Fresh
<1>6. outbox' \subseteq MailType /\ outbox' = outbox \union ms
  BY DEF HandlerStep, Fresh, MailerTyped, MailTyped
<1>7. \A m, n \in outbox' : m.by # NoOne /\ m.by = n.by => m = n
  BY <1>3, <1>6 DEF HandlerStep, Fresh, MailerTyped, MailTyped
<1> QED BY <1>1, <1>4, <1>5, <1>6, <1>7 DEF MailTyped

-----------------------------------------------------------------------------
(* The three parts of the invariant.                                        *)

\* Nobody is mailed unasked: a handler that has read the preference before it mails.
Wanted(m) ==
  \/ m.template \in Critical
  \/ LET pref == IF m.template \in ByAlerts THEN "alerts" ELSE "mails"
     IN \/ IF pref = "alerts" THEN post.alerts[m.to] ELSE post.mails[m.to]
        \/ vow.offSince[m.to][pref] >= m.began
WillAlert(o) == o.at = "flip" \/ (o.at = "session" /\ o.says = "on")
AlertWanted(o) == WillAlert(o) => post.alerts[o.who] \/ vow.offSince[o.who]["alerts"] >= o.began
Unasked == /\ \A m \in outbox : Wanted(m) /\ m.began <= ordered
           /\ \A h \in Handlers : AlertWanted(orders[h]) /\ orders[h].began <= ordered

\* The news about a subject that has not been blurred for a person.
Carries(h, p, s) == orders[h].about = s /\ p \in Concerned(orders[h])
Bears(m, p, s)   == m.to = p /\ m.about = s
Beside == {"plan", "clear", "reopen"}
\* While one handler h changes the subject: only the mail to whoever asked for a plan
\* leaves before the change.
OnItsWay(h, p, s) ==
  /\ \A g \in Handlers : Carries(g, p, s) => g = h
  /\ orders[h].at \notin Beside => \A m \in outbox : ~Bears(m, p, s)
  /\ orders[h].at \in Beside =>
       /\ (\E m \in outbox : Bears(m, p, s)) \/ last[p][s] = orders[h].says
       /\ \A m \in outbox : Bears(m, p, s) => m.says = orders[h].says
  /\ orders[h].at \in {"tell", "admins"} => orders[h].says = Now(p, s)
  /\ orders[h].at \in {"requester", "clear"} /\ orders[h].template = "plan_change_rejected" =>
       orders[h].says = Now(p, s)
  /\ orders[h].at = "reopen" => Now(p, s) = "paid"
AtRest(p, s) ==
  /\ \A m \in outbox : Bears(m, p, s) => m.says = Now(p, s)
  /\ (\A m \in outbox : ~Bears(m, p, s)) => last[p][s] \in {"unsaid", Now(p, s)}
Unheard(p, s) ==
  /\ last[p][s] = "unsaid"
  /\ \A h \in Handlers : ~Carries(h, p, s)
  /\ \A m \in outbox : ~Bears(m, p, s)
TrueNotice(p, s) ==
  /\ \A h \in Handlers : Carries(h, p, s) => OnItsWay(h, p, s)
  /\ (\A h \in Handlers : ~Carries(h, p, s)) => AtRest(p, s)
  /\ s = "user" /\ p \notin post.account => Unheard(p, s)
Notices == \A p \in People, s \in Subjects : <<p, s>> \notin vow.blurred => TrueNotice(p, s)

\* The links and codes of a kind and a person.
Asks(h, w)  == orders[h].about = w[1] /\ orders[h].who = w[2]
Lives(w)    == {t \in post.tokens : t.kind = w[1] /\ t.to = w[2] /\ t.live}
Mailed(t)   == \E m \in outbox : m.about = t.kind /\ m.to = t.to /\ m.n = t.n
Reaches(w) ==
  /\ \/ \A t \in Lives(w) : t.n \in inbox \/ Mailed(t)
     \/ w \notin vow.told /\ \A h \in Handlers : Asks(h, w) => orders[h].at = "kill"
  /\ w \in vow.told \/ (\E h \in Handlers : Asks(h, w) /\ orders[h].at = "mailing") =>
       Lives(w) # {} \/ \E h \in Handlers : Asks(h, w) /\ orders[h].at = "create"
Boxes == \A w \in Kinds \X People : w \notin vow.upset => Reaches(w)

MailerInv == MailerTyped /\ Unasked /\ Notices /\ Boxes

-----------------------------------------------------------------------------
(* Steps that leave a part alone.                                           *)

LEMMA UnaskedStep ==
  ASSUME MailerTyped, Unasked, NEW h \in Handlers, NEW o, NEW ms, HandlerStep(h, o, ms),
         post'.mails = post.mails, post'.alerts = post.alerts, vow'.offSince = vow.offSince,
         ordered' \in {ordered, ordered + 1}, o.began \in Nat, o.began <= ordered', AlertWanted(o),
         \A m \in ms : m.began \in Nat /\ m.began <= ordered' /\ Wanted(m)
  PROVE  Unasked'
<1>1. \A g \in Handlers : orders'[g] = IF g = h THEN o ELSE orders[g]
  BY DEF MailerTyped, OrderTyped, HandlerStep
<1>2. outbox' = outbox \union ms
  BY DEF HandlerStep
<1>3. \A m : Wanted(m) => Wanted(m)'
  BY DEF Wanted
<1>4. \A m \in outbox' : Wanted(m)'
  BY <1>2, <1>3 DEF Unasked
<1>5. \A g \in Handlers : AlertWanted(orders'[g])
  BY <1>1 DEF Unasked
<1>6. \A q : AlertWanted(q) => AlertWanted(q)'
  BY DEF AlertWanted
<1>7. \A g \in Handlers : (AlertWanted(orders[g]))'
  BY <1>5, <1>6
<1>8. /\ \A m \in outbox' : m.began <= ordered'
      /\ \A g \in Handlers : orders'[g].began <= ordered'
  <2>1. \A m \in outbox : m.began \in Nat
    BY DEF MailerTyped, MailTyped, MailType
  <2>2. \A g \in Handlers : orders[g].began \in Nat
    BY DEF MailerTyped, OrderTyped, OrderType
  <2>3. ordered \in Nat
    BY DEF MailerTyped, HistTyped
  <2> QED BY <1>1, <1>2, <2>1, <2>2, <2>3 DEF Unasked
<1> QED BY <1>4, <1>7, <1>8 DEF Unasked

\* Nothing about the subject s of p has changed.
QuietFor(p, s) ==
  /\ \A h \in Handlers : orders'[h] = orders[h] \/ (~Carries(h, p, s) /\ ~(Carries(h, p, s))')
  /\ \A m \in outbox : Bears(m, p, s) => m \in outbox'
  /\ \A m \in outbox' : Bears(m, p, s) => m \in outbox
  /\ last'[p][s] = last[p][s] /\ Now(p, s)' = Now(p, s)
  /\ s = "user" => (p \in post.account => p \in post'.account)

LEMMA QuietNotice ==
  ASSUME NEW p, NEW s, TrueNotice(p, s), QuietFor(p, s)
  PROVE  TrueNotice(p, s)'
<1>1. \A h \in Handlers : /\ (Carries(h, p, s))' <=> Carries(h, p, s)
                          /\ Carries(h, p, s) => orders'[h] = orders[h]
  BY DEF QuietFor, Carries
<1>2. \A h \in Handlers : (Carries(h, p, s))' => (OnItsWay(h, p, s))'
  <2> TAKE h \in Handlers
  <2> HAVE (Carries(h, p, s))'
  <2>1. OnItsWay(h, p, s) /\ orders'[h] = orders[h]
    BY <1>1 DEF TrueNotice
  <2> QED BY <1>1, <2>1 DEF OnItsWay, QuietFor, Bears
<1>3. (\A h \in Handlers : ~(Carries(h, p, s))') => (AtRest(p, s))'
  BY <1>1 DEF TrueNotice, AtRest, QuietFor, Bears
<1>4. s = "user" /\ p \notin post'.account => (Unheard(p, s))'
  BY <1>1 DEF TrueNotice, Unheard, QuietFor, Bears
<1> QED BY <1>2, <1>3, <1>4 DEF TrueNotice

SamePost == /\ post'.active = post.active /\ post'.factor = post.factor
            /\ post'.org = post.org /\ post'.plan = post.plan /\ post'.account = post.account

LEMMA NoticesQuiet ==
  ASSUME MailerTyped, Notices, NEW h \in Handlers, NEW o, NEW ms, HandlerStep(h, o, ms), SamePost,
         orders[h].about \notin Subjects, o.about \notin Subjects, \A m \in ms : m.about \notin Subjects,
         last' = last, vow.blurred \subseteq vow'.blurred
  PROVE  Notices'
<1>1. \A g \in Handlers : orders'[g] = IF g = h THEN o ELSE orders[g]
  BY DEF MailerTyped, OrderTyped, HandlerStep
<1>2. ASSUME NEW p \in People, NEW s \in Subjects PROVE QuietFor(p, s)
  <2>1. \A g \in Handlers : orders'[g] = orders[g] \/ (~Carries(g, p, s) /\ ~(Carries(g, p, s))')
    BY <1>1 DEF Carries
  <2>2. Now(p, s)' = Now(p, s)
    BY DEF Now, SamePost
  <2>3. /\ \A m \in outbox : Bears(m, p, s) => m \in outbox'
        /\ \A m \in outbox' : Bears(m, p, s) => m \in outbox
    BY DEF HandlerStep, Bears
  <2> QED BY <2>1, <2>2, <2>3 DEF QuietFor, SamePost
<1> QED BY <1>2, QuietNotice DEF Notices

LEMMA BoxesAside ==
  ASSUME MailerTyped, Boxes, NEW h \in Handlers, NEW o, NEW ms, HandlerStep(h, o, ms),
         orders[h].about \notin Kinds, o.about \notin Kinds, \A m \in ms : m.about \notin Kinds,
         post'.tokens = post.tokens, vow'.told = vow.told, vow'.upset = vow.upset, inbox' = inbox
  PROVE  Boxes'
<1>1. \A g \in Handlers : orders'[g] = IF g = h THEN o ELSE orders[g]
  BY DEF MailerTyped, OrderTyped, HandlerStep
<1>2. ASSUME NEW w \in Kinds \X People, w \notin vow.upset PROVE (Reaches(w))'
  <2>1. Reaches(w)
    BY <1>2 DEF Boxes
  <2>2. (Lives(w))' = Lives(w)
    BY DEF Lives
  <2>3. \A t \in Lives(w) : Mailed(t) <=> (Mailed(t))'
    BY DEF Lives, Mailed, HandlerStep
  <2>4. \A g \in Handlers : /\ (Asks(g, w))' <=> Asks(g, w)
                            /\ Asks(g, w) => orders'[g] = orders[g]
    BY <1>1 DEF Asks
  <2> QED BY <2>1, <2>2, <2>3, <2>4 DEF Reaches
<1> QED BY <1>2 DEF Boxes

LEMMA Blurs ==
  ASSUME NEW v \in VowType, NEW ps \in SUBSET People, NEW s \in Subjects
  PROVE  /\ Blur(v, ps, s) \in VowType
         /\ Blur(v, ps, s).told = v.told /\ Blur(v, ps, s).upset = v.upset
         /\ Blur(v, ps, s).offSince = v.offSince
         /\ Blur(v, ps, s).blurred = v.blurred \union (ps \X {s})
  BY DEF Blur, VowType

LEMMA ConcernedType ==
  ASSUME NEW o, o.about \in {"user", "factor"} => o.who \in People
  PROVE  Concerned(o) \subseteq People
  BY DEF Concerned

-----------------------------------------------------------------------------
(* A handler begins.                                                        *)

\* What an order may start with.
Starts(o) ==
  /\ o \in OrderType /\ OrderFits(o)
  /\ o.at \in {"kill", "create", "factor", "flip", "flip-silently", "open", "suspend", "admins",
               "requester", "plan", "session", "uploader"}
  /\ o.at = "plan" => o.about = "silent"
  /\ o.at = "admins" => o.about = "event"
  /\ o.at = "create" => o.about = "invite"
  /\ WillAlert(o) => post.alerts[o.who]
  /\ o.about = "user" => o.who \in post.account
  /\ o.about = "plan" /\ o.template = "plan_change_rejected" => o.says = post.plan
  /\ o.about = "invite" => Lives(<<o.about, o.who>>) = {}

LEMMA OverlappedTyped ==
  ASSUME NEW v \in VowType, NEW o \in OrderType, o.about \in {"user", "factor"} => o.who \in People
  PROVE  /\ Overlapped(v, o) \in VowType
         /\ Overlapped(v, o).told = v.told /\ Overlapped(v, o).upset = v.upset
         /\ Overlapped(v, o).offSince = v.offSince
         /\ v.blurred \subseteq Overlapped(v, o).blurred
         /\ o.about \in Subjects /\ UnderWayAlready(o) =>
              \A p \in Concerned(o) : <<p, o.about>> \in Overlapped(v, o).blurred
<1>1. Concerned(o) \in SUBSET People
  BY ConcernedType
<1> QED BY <1>1, Blurs DEF Overlapped

\* The notices that begin to change, and those that do not.
LEMMA BeganNotices ==
  ASSUME MailerTyped, Notices, NEW h \in Handlers, NEW o, HandlerStep(h, o, {}), orders[h].about \notin Subjects,
         o.about \in Subjects =>
           /\ o.at \in {"factor", "flip", "flip-silently", "open", "suspend", "requester"}
           /\ o.about = "user" => o.who \in post.account
           /\ o.about = "plan" /\ o.template = "plan_change_rejected" => o.says = post.plan,
         SamePost, last' = last, vow.blurred \subseteq vow'.blurred,
         o.about \in Subjects /\ UnderWayAlready(o) => \A p \in Concerned(o) : <<p, o.about>> \in vow'.blurred,
         o.at # "idle", OrderFits(o)
  PROVE  Notices'
<1>1. \A g \in Handlers : orders'[g] = IF g = h THEN o ELSE orders[g]
  BY DEF MailerTyped, OrderTyped, HandlerStep
<1>2. outbox' = outbox
  BY DEF HandlerStep
<1>3. ASSUME NEW p \in People, NEW s \in Subjects, <<p, s>> \notin vow'.blurred
      PROVE  (TrueNotice(p, s))'
  <2>1. TrueNotice(p, s)
    BY <1>3 DEF Notices
  <2>2. Now(p, s)' = Now(p, s)
    BY DEF Now, SamePost
  <2>3. CASE ~(o.about = s /\ p \in Concerned(o))
    <3>1. QuietFor(p, s)
      BY <1>1, <1>2, <2>2, <2>3 DEF QuietFor, Carries, SamePost
    <3> QED BY <2>1, <3>1, QuietNotice
  <2>4. CASE o.about = s /\ p \in Concerned(o)
    <3>1. ~UnderWayAlready(o)
      BY <1>3, <2>4
    <3>2. \A g \in Handlers : orders[g].about # s
      <4>1. \A g \in Handlers : orders[g].at = "idle" => orders[g].about = "event"
        BY DEF MailerTyped, OrderTyped, OrderFits, NoOrder
      <4> QED BY <2>4, <3>1, <4>1 DEF UnderWayAlready, Subjects
    <3>3. \A m \in outbox : m.about # s
      BY <2>4, <3>1 DEF UnderWayAlready
    <3>4. \A g \in Handlers : (Carries(g, p, s))' <=> g = h
      BY <1>1, <2>4, <3>2 DEF Carries
    <3>5. o.at = "requester" => /\ s = "plan"
                                /\ o.template = "plan_change_rejected" => o.says = Now(p, s)'
      BY <2>2, <2>4 DEF OrderFits, Now
    <3>6. (OnItsWay(h, p, s))'
      <4>1. orders'[h] = o
        BY <1>1
      <4> QED BY <1>2, <2>4, <3>3, <3>4, <3>5, <4>1 DEF OnItsWay, Beside, Bears
    <3>7. s = "user" => p \in post'.account
      BY <2>4 DEF Concerned, SamePost
    <3> QED BY <3>4, <3>6, <3>7 DEF TrueNotice
  <2> QED BY <2>3, <2>4
<1> QED BY <1>3 DEF Notices

\* A new order for a link or a code, or one for something else.
LEMMA BeganBoxes ==
  ASSUME MailerTyped, Boxes, NEW h \in Handlers, NEW o, HandlerStep(h, o, {}), orders[h].about \notin Kinds,
         o.about \in Kinds => o.at \in {"kill", "create"},
         o.about \in Kinds /\ o.at = "create" => Lives(<<o.about, o.who>>) = {},
         post'.tokens = post.tokens, inbox' = inbox,
         vow'.told = vow.told, vow'.upset = vow.upset
  PROVE  Boxes'
<1>1. \A g \in Handlers : orders'[g] = IF g = h THEN o ELSE orders[g]
  BY DEF MailerTyped, OrderTyped, HandlerStep
<1>2. outbox' = outbox
  BY DEF HandlerStep
<1>3. ASSUME NEW w \in Kinds \X People, w \notin vow.upset PROVE (Reaches(w))'
  <2>1. Reaches(w)
    BY <1>3 DEF Boxes
  <2>2. (Lives(w))' = Lives(w) /\ \A t \in Lives(w) : Mailed(t) <=> (Mailed(t))'
    BY <1>2 DEF Lives, Mailed
  <2>3. CASE ~(o.about = w[1] /\ o.who = w[2])
    <3>1. \A g \in Handlers : /\ (Asks(g, w))' <=> Asks(g, w)
                              /\ Asks(g, w) => orders'[g] = orders[g]
      BY <1>1, <2>3 DEF Asks
    <3> QED BY <2>1, <2>2, <3>1 DEF Reaches
  <2>4. CASE o.about = w[1] /\ o.who = w[2]
    <3>0. w = <<o.about, o.who>> /\ o.about \in Kinds
      BY <2>4
    <3>1. \A g \in Handlers : (Asks(g, w))' <=> (g = h \/ Asks(g, w))
      BY <1>1, <2>4 DEF Asks
    <3>2. \A g \in Handlers : Asks(g, w) => orders'[g] = orders[g]
      BY <1>1, <2>4 DEF Asks
    <3>3. CASE o.at = "create"
      <4>1. Lives(w) = {}
        BY <3>0, <3>3
      <4>2. (Asks(h, w))' /\ orders'[h].at = "create"
        BY <1>1, <3>1, <3>3
      <4> QED BY <2>2, <4>1, <4>2 DEF Reaches
    <3>4. CASE o.at = "kill"
      <4>1. orders'[h].at = "kill"
        BY <1>1, <3>4
      <4> QED BY <2>1, <2>2, <3>1, <3>2, <4>1 DEF Reaches
    <3> QED BY <3>0, <3>3, <3>4
  <2> QED BY <2>3, <2>4
<1> QED BY <1>3 DEF Boxes

LEMMA BeginsKeeps ==
  ASSUME MailerInv, NEW h \in Handlers, NEW c, NEW o, Starts(o), Begins(h, c, o), outbox' = outbox,
         post' = post \/ \E b \in BOOLEAN : post' = [post EXCEPT !.running = b]
  PROVE  MailerInv'
<1> DEFINE q == [o EXCEPT !.began = ordered + 1]
<1>1. o \in OrderType /\ ordered \in Nat
  BY DEF Starts, MailerInv, MailerTyped, HistTyped
<1>2. /\ q \in OrderType /\ q.at = o.at /\ q.who = o.who /\ q.about = o.about /\ q.template = o.template
      /\ q.says = o.says /\ q.began = ordered + 1
  BY <1>1 DEF OrderType
<1>3. orders[h].at = "idle" /\ orders' = [orders EXCEPT ![h] = q] /\ ordered' = ordered + 1
  BY DEF Begins, Ordered
<1>4. orders[h] = NoOrder
  BY <1>3 DEF MailerInv, MailerTyped, OrderTyped, OrderFits
<1> HIDE DEF q
<1>5. OrderFits(q) /\ q.at # "idle"
  BY <1>2 DEF Starts, OrderFits
<1>6. HandlerStep(h, q, {}) /\ Fresh(h, q, {})
  BY <1>2, <1>3, <1>5 DEF HandlerStep, Fresh
<1>7. OrderTyped' /\ MailTyped'
  BY <1>6, HandlerStepTyped DEF MailerInv
<1>8. /\ PostTyped' /\ SamePost /\ post'.tokens = post.tokens
      /\ post'.mails = post.mails /\ post'.alerts = post.alerts
  BY DEF MailerInv, MailerTyped, PostTyped, PostType, SamePost
<1>9. vow \in VowType /\ (o.about \in {"user", "factor"} => o.who \in People)
  BY DEF MailerInv, MailerTyped, HistTyped, Starts, OrderFits
<1>10. /\ vow' \in VowType /\ vow'.told = vow.told /\ vow'.upset = vow.upset
       /\ vow'.offSince = vow.offSince /\ vow.blurred \subseteq vow'.blurred
       /\ o.about \in Subjects /\ UnderWayAlready(o) =>
              \A p \in Concerned(o) : <<p, o.about>> \in vow'.blurred
  BY <1>1, <1>9, OverlappedTyped DEF Begins
<1>11. last' = last /\ inbox' = inbox /\ mishaps' = mishaps
  BY DEF Begins
<1>12. HistTyped'
  BY <1>3, <1>10, <1>11 DEF MailerInv, MailerTyped, HistTyped
<1>13. AlertWanted(q)
  BY <1>2 DEF AlertWanted, WillAlert, Starts
<1>14. Unasked'
  BY <1>1, <1>2, <1>3, <1>6, <1>8, <1>10, <1>13, UnaskedStep DEF MailerInv
<1>15. orders[h].about = "event"
  BY <1>4 DEF NoOrder
<1>16. q.about \in Subjects =>
           /\ q.at \in {"factor", "flip", "flip-silently", "open", "suspend", "requester"}
           /\ q.about = "user" => q.who \in post.account
           /\ q.about = "plan" /\ q.template = "plan_change_rejected" => q.says = post.plan
  BY <1>2 DEF Starts, OrderFits, Subjects, Kinds
<1>17. Concerned(q) = Concerned(o) /\ (UnderWayAlready(q) <=> UnderWayAlready(o))
  BY <1>2 DEF Concerned, UnderWayAlready
<1>18. Notices'
  <2>1. q.about \in Subjects /\ UnderWayAlready(q) => \A p \in Concerned(q) : <<p, q.about>> \in vow'.blurred
    BY <1>2, <1>10, <1>17
  <2>2. orders[h].about \notin Subjects
    BY <1>15 DEF Subjects
  <2> QED BY <1>5, <1>6, <1>8, <1>10, <1>11, <1>16, <2>1, <2>2, BeganNotices DEF MailerInv
<1>19. Boxes'
  <2>1. orders[h].about \notin Kinds
    BY <1>15 DEF Kinds
  <2>2. q.about \in Kinds => q.at \in {"kill", "create"}
    BY <1>2 DEF Starts, OrderFits, Kinds
  <2>3. q.about \in Kinds /\ q.at = "create" => Lives(<<q.about, q.who>>) = {}
    BY <1>2 DEF Starts, OrderFits, Kinds
  <2> QED BY <1>6, <1>8, <1>10, <1>11, <2>1, <2>2, <2>3, BeganBoxes DEF MailerInv
<1> QED BY <1>7, <1>8, <1>12, <1>14, <1>18, <1>19 DEF MailerInv, MailerTyped

LEMMA PostFacts ==
  ASSUME MailerInv
  PROVE  /\ post.account \subseteq People
         /\ \A p \in People : post.active[p] \in BOOLEAN /\ post.alerts[p] \in BOOLEAN
         /\ post.pending # NoOne => post.pending \in People
         /\ post.tokens \subseteq TokenType
  BY DEF MailerInv, MailerTyped, PostTyped, PostType

LEMMA NewOrders ==
  ASSUME MailerInv, NEW h \in Handlers
  PROVE  /\ \A p \in People : /\ AskCode(h, p) => MailerInv'
                              /\ AskInvite(h, p) => MailerInv'
                              /\ DropFactor(h, p) => MailerInv'
                              /\ ToggleUser(h, p) => MailerInv'
                              /\ LogInElsewhere(h, p) => MailerInv'
                              /\ StreamFails(h, p) => MailerInv'
                              /\ NotifyServiceCompleted(h, p) => MailerInv'
                              /\ NotifyServiceEdited(h, p) => MailerInv'
         /\ \A b \in BOOLEAN : /\ SwitchOrg(h, b) => MailerInv'
                               /\ DecidePlan(h, b) => MailerInv'
         /\ FindExpired(h) => MailerInv'
         /\ SetPlan(h) => MailerInv'
         /\ WarnExpiringDemos(h) => MailerInv'
         /\ NotifyStorageNearLimit(h) => MailerInv'
<1> USE DEF Starts, OrderType, OrderFits, Stages, Abouts, Subjects, Kinds, Templates, Says, ToAdmins,
            WillAlert, OnOff
<1>1. ASSUME NEW p \in People, AskCode(h, p) PROVE MailerInv'
  <2>1. Starts(Order("kill", p, "code"))
    BY DEF Order, OrderOf
  <2> QED BY <1>1, <2>1, BeginsKeeps DEF AskCode
<1>2. ASSUME NEW p \in People, AskInvite(h, p) PROVE MailerInv'
  <2>1. Lives(<<"invite", p>>) = {}
    BY <1>2 DEF AskInvite, Lives
  <2>2. Starts(Order("create", p, "invite"))
    BY <2>1 DEF Order, OrderOf
  <2> QED BY <1>2, <2>2, BeginsKeeps DEF AskInvite
<1>3. ASSUME NEW p \in People, DropFactor(h, p) PROVE MailerInv'
  <2>1. Starts(OrderOf("factor", p, "factor", "off", "none"))
    BY DEF OrderOf
  <2> QED BY <1>3, <2>1, BeginsKeeps DEF DropFactor
<1>4. ASSUME NEW p \in People, ToggleUser(h, p) PROVE MailerInv'
  <2> DEFINE at == IF post.alerts[p] THEN "flip" ELSE "flip-silently"
             o == OrderOf(at, p, "user", OnOff(post.active[p]), "none")
  <2>1. p \in post.account /\ at \in {"flip", "flip-silently"} /\ (at = "flip" => post.alerts[p])
    BY <1>4 DEF ToggleUser
  <2>2. Starts(o)
    <3> HIDE DEF at
    <3> QED BY <2>1 DEF OrderOf
  <2> QED BY <1>4, <2>2, BeginsKeeps DEF ToggleUser
<1>5. ASSUME NEW p \in People, LogInElsewhere(h, p) PROVE MailerInv'
  <2>1. Starts(OrderOf("session", p, "event", OnOff(post.alerts[p]), "none"))
    BY DEF OrderOf
  <2> QED BY <1>5, <2>1, BeginsKeeps DEF LogInElsewhere
<1>6. ASSUME NEW p \in People, StreamFails(h, p) PROVE MailerInv'
  <2>1. Starts(Order("uploader", p, "event"))
    BY DEF Order, OrderOf
  <2> QED BY <1>6, <2>1, BeginsKeeps DEF StreamFails
<1>7. ASSUME NEW p \in People, NotifyServiceCompleted(h, p) PROVE MailerInv'
  <2>1. Starts(OrderOf("admins", p, "event", "none", "service_completed_admin"))
    BY DEF OrderOf
  <2> QED BY <1>7, <2>1, BeginsKeeps DEF NotifyServiceCompleted
<1>8. ASSUME NEW p \in People, NotifyServiceEdited(h, p) PROVE MailerInv'
  <2>1. Starts(OrderOf("admins", p, "event", "none", "service_edited"))
    BY DEF OrderOf
  <2> QED BY <1>8, <2>1, BeginsKeeps DEF NotifyServiceEdited
<1>9. ASSUME NEW b \in BOOLEAN, SwitchOrg(h, b) PROVE MailerInv'
  <2>1. Starts(OrderOf("open", NoOne, "org", OnOff(b), "subscription_status_changed"))
    BY DEF OrderOf
  <2> QED BY <1>9, <2>1, BeginsKeeps DEF SwitchOrg
<1>10. ASSUME NEW b \in BOOLEAN, DecidePlan(h, b) PROVE MailerInv'
  <2>1. post.pending \in People /\ post.plan \in {"demo", "paid"}
    BY <1>10, PostFacts DEF DecidePlan, MailerInv, MailerTyped, PostTyped, PostType
  <2>2. Starts(OrderOf("requester", post.pending, "plan", "paid", "plan_change_approved"))
    BY <2>1 DEF OrderOf
  <2>3. Starts(OrderOf("requester", post.pending, "plan", post.plan, "plan_change_rejected"))
    BY <2>1 DEF OrderOf
  <2> QED BY <1>10, <2>2, <2>3, BeginsKeeps DEF DecidePlan
<1>11. ASSUME FindExpired(h) PROVE MailerInv'
  <2>1. Starts(OrderOf("suspend", NoOne, "org", "off", "subscription_status_changed"))
    BY DEF OrderOf
  <2> QED BY <1>11, <2>1, BeginsKeeps DEF FindExpired
<1>12. ASSUME SetPlan(h) PROVE MailerInv'
  <2>1. Starts(OrderOf("plan", NoOne, "silent", "paid", "none"))
    BY DEF OrderOf
  <2> QED BY <1>12, <2>1, BeginsKeeps DEF SetPlan
<1>13. ASSUME WarnExpiringDemos(h) PROVE MailerInv'
  <2>1. Starts(OrderOf("admins", NoOne, "event", "none", "demo_expiring_soon"))
    BY DEF OrderOf
  <2> QED BY <1>13, <2>1, BeginsKeeps DEF WarnExpiringDemos
<1>14. ASSUME NotifyStorageNearLimit(h) PROVE MailerInv'
  <2>1. Starts(OrderOf("admins", NoOne, "event", "none", "storage_near_limit"))
    BY DEF OrderOf
  <2> QED BY <1>14, <2>1, BeginsKeeps DEF NotifyStorageNearLimit
<1> QED BY <1>1, <1>2, <1>3, <1>4, <1>5, <1>6, <1>7, <1>8, <1>9, <1>10, <1>11, <1>12, <1>13, <1>14

-----------------------------------------------------------------------------
(* Steps of no handler: what is answered at once, switched or chosen.       *)

\* Only what the database knows changes, and what it changes of a notice is blurred.
AtOnce ==
  /\ UNCHANGED <<orders, outbox, last, inbox, mishaps>>
  /\ ordered' = ordered + 1
  /\ post'.tokens = post.tokens /\ vow'.told = vow.told /\ vow'.upset = vow.upset
  /\ vow' \in VowType /\ vow.blurred \subseteq vow'.blurred
  /\ post'.factor = post.factor /\ post'.org = post.org /\ post'.plan = post.plan
  /\ \A p \in People : \/ <<p, "user">> \in vow'.blurred
                       \/ post'.active[p] = post.active[p] /\ (p \in post.account => p \in post'.account)

LEMMA AtOnceKeeps ==
  ASSUME MailerInv, AtOnce, PostTyped', \A m \in outbox : (Wanted(m))',
         \A h \in Handlers : (AlertWanted(orders[h]))'
  PROVE  MailerInv'
<1>1. OrderTyped' /\ MailTyped' /\ HistTyped'
  BY DEF MailerInv, MailerTyped, OrderTyped, MailTyped, HistTyped, AtOnce
<1>2. Unasked'
  <2>1. ordered \in Nat /\ \A m \in outbox : m.began \in Nat
    BY DEF MailerInv, MailerTyped, HistTyped, MailTyped, MailType
  <2>2. \A h \in Handlers : orders[h].began \in Nat
    BY DEF MailerInv, MailerTyped, OrderTyped, OrderType
  <2> QED BY <2>1, <2>2 DEF MailerInv, Unasked, AtOnce
<1>3. ASSUME NEW p \in People, NEW s \in Subjects, <<p, s>> \notin vow'.blurred
      PROVE  (TrueNotice(p, s))'
  <2>1. TrueNotice(p, s)
    BY <1>3 DEF MailerInv, Notices, AtOnce
  <2>2. Now(p, s)' = Now(p, s)
    BY <1>3 DEF Now, AtOnce, Subjects
  <2>3. QuietFor(p, s)
    BY <1>3, <2>2 DEF QuietFor, AtOnce
  <2> QED BY <2>1, <2>3, QuietNotice
<1>4. ASSUME NEW w \in Kinds \X People, w \notin vow'.upset PROVE (Reaches(w))'
  <2>1. Reaches(w)
    BY <1>4 DEF MailerInv, Boxes, AtOnce
  <2> QED BY <2>1 DEF Reaches, Lives, Mailed, Asks, AtOnce
<1> QED BY <1>1, <1>2, <1>3, <1>4 DEF MailerInv, MailerTyped, Notices, Boxes

LEMMA SamePreferences ==
  ASSUME MailerInv, UNCHANGED orders, post'.mails = post.mails, post'.alerts = post.alerts,
         vow'.offSince = vow.offSince
  PROVE  /\ \A m \in outbox : (Wanted(m))'
         /\ \A h \in Handlers : (AlertWanted(orders[h]))'
  BY DEF MailerInv, Unasked, Wanted, AlertWanted

LEMMA AskResetKeeps ==
  ASSUME MailerInv, NEW h \in Handlers, NEW p \in People, AskReset(h, p) PROVE MailerInv'
<1>1. CASE post.key /\ post.url /\ post.active[p]
  <2>1. Starts(Order("kill", p, "reset"))
    BY DEF Starts, OrderType, OrderFits, Stages, Abouts, Subjects, Kinds, Templates, Says, ToAdmins,
           WillAlert, Order, OrderOf
  <2> QED BY <1>1, <2>1, BeginsKeeps DEF AskReset
<1>2. CASE ~(post.key /\ post.url /\ post.active[p])
  <2>1. AtOnce /\ PostTyped' /\ UNCHANGED <<orders, post, vow>>
    BY <1>2 DEF AskReset, AtOnce, Ordered, MailerInv, MailerTyped, PostTyped, HistTyped
  <2> QED BY <2>1, AtOnceKeeps, SamePreferences
<1> QED BY <1>1, <1>2

LEMMA DropUserKeeps ==
  ASSUME MailerInv, NEW p \in People, DropUser(p) PROVE MailerInv'
<1>1. post' = [post EXCEPT !.active[p] = FALSE, !.account = @ \ {p}]
  BY DEF DropUser
<1>2. /\ PostTyped' /\ post'.tokens = post.tokens /\ post'.factor = post.factor /\ post'.org = post.org
      /\ post'.plan = post.plan /\ post'.mails = post.mails /\ post'.alerts = post.alerts
      /\ \A q \in People \ {p} : post'.active[q] = post.active[q] /\ (q \in post.account => q \in post'.account)
  BY <1>1 DEF MailerInv, MailerTyped, PostTyped, PostType
<1>3. vow' = Blur(vow, {p}, "user") /\ vow \in VowType
  BY DEF DropUser, MailerInv, MailerTyped, HistTyped
<1>4. /\ vow' \in VowType /\ vow'.told = vow.told /\ vow'.upset = vow.upset
      /\ vow'.offSince = vow.offSince /\ vow'.blurred = vow.blurred \union ({p} \X {"user"})
  BY <1>3, Blurs DEF Subjects
<1>5. AtOnce
  BY <1>2, <1>4 DEF AtOnce, DropUser, Ordered
<1> QED BY <1>2, <1>4, <1>5, AtOnceKeeps, SamePreferences DEF AtOnce

LEMMA AskPlanKeeps ==
  ASSUME MailerInv, NEW p \in People, AskPlan(p) PROVE MailerInv'
<1>1. /\ PostTyped' /\ post'.tokens = post.tokens /\ post'.factor = post.factor /\ post'.org = post.org
      /\ post'.plan = post.plan /\ post'.mails = post.mails /\ post'.alerts = post.alerts
      /\ post'.active = post.active /\ post'.account = post.account
  BY DEF AskPlan, MailerInv, MailerTyped, PostTyped, PostType
<1>2. AtOnce
  BY <1>1 DEF AtOnce, AskPlan, Ordered, MailerInv, MailerTyped, HistTyped
<1> QED BY <1>1, <1>2, AtOnceKeeps, SamePreferences DEF AskPlan

LEMMA SetTemplateKeeps ==
  ASSUME MailerInv, NEW t \in Switchable, NEW on \in BOOLEAN, SetTemplateEnabled(t, on) PROVE MailerInv'
<1>1. /\ PostTyped' /\ post'.tokens = post.tokens /\ post'.factor = post.factor /\ post'.org = post.org
      /\ post'.plan = post.plan /\ post'.mails = post.mails /\ post'.alerts = post.alerts
      /\ post'.active = post.active /\ post'.account = post.account
  BY DEF SetTemplateEnabled, MailerInv, MailerTyped, PostTyped, PostType
<1>2. AtOnce
  BY <1>1 DEF AtOnce, SetTemplateEnabled, Ordered, MailerInv, MailerTyped, HistTyped
<1> QED BY <1>1, <1>2, AtOnceKeeps, SamePreferences DEF SetTemplateEnabled

\* Whoever switches mails off does so after every handler under way began.
LEMMA UpdatePreferencesKeeps ==
  ASSUME MailerInv, NEW p \in People, NEW pref \in {"mails", "alerts"}, NEW on \in BOOLEAN,
         UpdatePreferences(p, pref, on)
  PROVE  MailerInv'
<1>1. post' = IF pref = "mails" THEN [post EXCEPT !.mails[p] = on] ELSE [post EXCEPT !.alerts[p] = on]
  BY DEF UpdatePreferences
<1>2. /\ PostTyped' /\ post'.tokens = post.tokens /\ post'.factor = post.factor /\ post'.org = post.org
      /\ post'.plan = post.plan /\ post'.active = post.active /\ post'.account = post.account
      /\ \A q \in People : post'.mails[q] = IF pref = "mails" /\ q = p THEN on ELSE post.mails[q]
      /\ \A q \in People : post'.alerts[q] = IF pref = "alerts" /\ q = p THEN on ELSE post.alerts[q]
  BY <1>1 DEF MailerInv, MailerTyped, PostTyped, PostType
<1>3. vow' = IF on THEN vow ELSE [vow EXCEPT !.offSince[p][pref] = ordered + 1]
  BY DEF UpdatePreferences
<1>4. vow \in VowType /\ ordered \in Nat
  BY DEF MailerInv, MailerTyped, HistTyped
<1>5. /\ vow' \in VowType /\ vow'.told = vow.told /\ vow'.upset = vow.upset /\ vow'.blurred = vow.blurred
      /\ \A q \in People, k \in {"mails", "alerts"} :
           vow'.offSince[q][k] = IF ~on /\ q = p /\ k = pref THEN ordered + 1 ELSE vow.offSince[q][k]
  <2> DEFINE row == [vow.offSince[p] EXCEPT ![pref] = ordered + 1]
             off == [vow.offSince EXCEPT ![p] = row]
  <2>1. vow.offSince \in [People -> [{"mails", "alerts"} -> Nat]]
    BY <1>4 DEF VowType
  <2>2. /\ row \in [{"mails", "alerts"} -> Nat]
        /\ \A k \in {"mails", "alerts"} : row[k] = IF k = pref THEN ordered + 1 ELSE vow.offSince[p][k]
    BY <1>4, <2>1
  <2> HIDE DEF row
  <2>3. /\ off \in [People -> [{"mails", "alerts"} -> Nat]]
        /\ \A q \in People : off[q] = IF q = p THEN row ELSE vow.offSince[q]
    BY <2>1, <2>2
  <2>4. vow' = IF on THEN vow ELSE [vow EXCEPT !.offSince = off]
    BY <1>3 DEF row
  <2> HIDE DEF off
  <2>5. CASE on
    BY <1>4, <2>4, <2>5
  <2>6. CASE ~on
    <3>1. vow' \in VowType /\ vow'.told = vow.told /\ vow'.upset = vow.upset /\ vow'.blurred = vow.blurred
          /\ vow'.offSince = off
      BY <1>4, <2>3, <2>4, <2>6 DEF VowType
    <3> QED BY <2>2, <2>3, <2>6, <3>1
  <2> QED BY <2>5, <2>6
<1>6. AtOnce
  BY <1>2, <1>5 DEF AtOnce, UpdatePreferences, Ordered
<1>7. ASSUME NEW m \in outbox PROVE (Wanted(m))'
  <2>1. Wanted(m) /\ m.began <= ordered
    BY DEF MailerInv, Unasked
  <2>2. m.to \in People /\ m.began \in Nat
    BY DEF MailerInv, MailerTyped, MailTyped, MailType
  <2> QED BY <1>2, <1>4, <1>5, <2>1, <2>2 DEF Wanted
<1>8. ASSUME NEW h \in Handlers PROVE (AlertWanted(orders[h]))'
  <2>1. AlertWanted(orders[h]) /\ orders[h].began <= ordered
    BY DEF MailerInv, Unasked
  <2>2. orders[h].began \in Nat /\ (WillAlert(orders[h]) => orders[h].who \in People)
    BY DEF MailerInv, MailerTyped, OrderTyped, OrderType, OrderFits, WillAlert
  <2>3. orders' = orders
    BY DEF UpdatePreferences
  <2> QED BY <1>2, <1>4, <1>5, <2>1, <2>2, <2>3 DEF AlertWanted
<1> QED BY <1>2, <1>6, <1>7, <1>8, AtOnceKeeps

-----------------------------------------------------------------------------
(* A handler goes on.                                                       *)

\* It is about no link or code, and mails whoever wants to be mailed.
Passes(h, o, ms) ==
  /\ HandlerStep(h, o, ms) /\ Fresh(h, o, ms)
  /\ orders[h].about \notin Kinds /\ o.about \notin Kinds
  /\ o.began \in {0, orders[h].began} /\ ~WillAlert(o)
  /\ \A m \in ms : m.about \notin Kinds /\ m.began = orders[h].began /\ Wanted(m)
  /\ post'.tokens = post.tokens /\ post'.mails = post.mails /\ post'.alerts = post.alerts
  /\ vow' \in VowType /\ vow'.told = vow.told /\ vow'.upset = vow.upset /\ vow'.offSince = vow.offSince
  /\ vow.blurred \subseteq vow'.blurred
  /\ UNCHANGED <<last, inbox, ordered, mishaps>>

LEMMA PassesKeeps ==
  ASSUME MailerInv, NEW h \in Handlers, NEW o, NEW ms, Passes(h, o, ms), PostTyped', Notices'
  PROVE  MailerInv'
<1>1. OrderTyped' /\ MailTyped'
  BY HandlerStepTyped DEF MailerInv, Passes
<1>2. HistTyped'
  BY DEF MailerInv, MailerTyped, HistTyped, Passes
<1>3. orders[h].began \in Nat /\ orders[h].began <= ordered /\ ordered \in Nat
  BY DEF MailerInv, MailerTyped, OrderTyped, OrderType, HistTyped, Unasked
<1>4. AlertWanted(o)
  BY DEF Passes, AlertWanted
<1>5. Unasked'
  <2>1. o.began \in Nat /\ o.began <= ordered' /\ ordered' \in {ordered, ordered + 1}
    BY <1>3 DEF Passes
  <2>2. \A m \in ms : m.began \in Nat /\ m.began <= ordered' /\ Wanted(m)
    BY <1>3 DEF Passes
  <2> QED BY <1>4, <2>1, <2>2, UnaskedStep DEF MailerInv, Passes
<1>6. Boxes'
  BY BoxesAside DEF MailerInv, Passes
<1> QED BY <1>1, <1>2, <1>5, <1>6 DEF MailerInv, MailerTyped

LEMMA EventKeeps ==
  ASSUME MailerInv, NEW h \in Handlers, NEW o, NEW ms, Passes(h, o, ms), UNCHANGED post,
         orders[h].about = "event", o.about = "event", \A m \in ms : m.about = "event"
  PROVE  MailerInv'
<1>1. PostTyped' /\ SamePost
  BY DEF MailerInv, MailerTyped, PostTyped, SamePost
<1>2. Notices'
  <2>1. "event" \notin Subjects
    BY DEF Subjects
  <2> QED BY <1>1, <2>1, NoticesQuiet DEF MailerInv, Passes
<1> QED BY <1>1, <1>2, PassesKeeps

\* Whoever was to hear of the change is mailed how it stands now, or blurred.
Tells(h, ms, s) ==
  /\ \A m \in ms : /\ m.about = s /\ m.to \in Concerned(orders[h])
                   /\ <<m.to, s>> \in vow'.blurred \/ m.says = Now(m.to, s)'
  /\ \A p \in Concerned(orders[h]) : <<p, s>> \in vow'.blurred \/ \E m \in ms : m.to = p
  /\ \A p \in People, z \in Subjects : ~Carries(h, p, z) => Now(p, z)' = Now(p, z)

LEMMA ToldNotices ==
  ASSUME MailerInv, NEW h \in Handlers, NEW ms, HandlerStep(h, NoOrder, ms),
         NEW s \in Subjects, orders[h].about = s, orders[h].at \notin Beside, Tells(h, ms, s),
         vow.blurred \subseteq vow'.blurred, last' = last, post'.account = post.account
  PROVE  Notices'
<1>1. \A g \in Handlers : orders'[g] = IF g = h THEN NoOrder ELSE orders[g]
  BY DEF MailerInv, MailerTyped, OrderTyped, HandlerStep
<1>2. outbox' = outbox \union ms
  BY DEF HandlerStep
<1>3. ASSUME NEW p \in People, NEW z \in Subjects, <<p, z>> \notin vow'.blurred
      PROVE  (TrueNotice(p, z))'
  <2>1. TrueNotice(p, z)
    BY <1>3 DEF MailerInv, Notices
  <2>2. CASE ~Carries(h, p, z)
    <3>1. QuietFor(p, z)
      <4>1. \A m \in ms : ~Bears(m, p, z)
        BY <2>2 DEF Bears, Carries, Tells
      <4>2. ~(Carries(h, p, z))'
        BY <1>1 DEF Carries, NoOrder, Subjects
      <4> QED BY <1>1, <1>2, <2>2, <4>1, <4>2 DEF QuietFor, Tells
    <3> QED BY <2>1, <3>1, QuietNotice
  <2>3. CASE Carries(h, p, z)
    <3>1. z = s /\ p \in Concerned(orders[h])
      BY <2>3 DEF Carries
    <3>2. PICK m \in ms : m.to = p
      BY <1>3, <3>1 DEF Tells
    <3>3. OnItsWay(h, p, z)
      BY <2>1, <2>3 DEF TrueNotice
    <3>4. \A g \in Handlers : ~(Carries(g, p, z))'
      BY <1>1, <3>3 DEF OnItsWay, Carries, NoOrder, Subjects
    <3>5. \A n \in outbox : ~Bears(n, p, z)
      BY <3>1, <3>3 DEF OnItsWay
    <3>6. (AtRest(p, z))'
      <4>1. m \in outbox' /\ Bears(m, p, z)
        BY <1>2, <3>1, <3>2 DEF Bears, Tells
      <4>2. \A n \in outbox' : Bears(n, p, z) => n.says = Now(p, z)'
        BY <1>2, <1>3, <3>1, <3>5 DEF Bears, Tells
      <4> QED BY <4>1, <4>2 DEF AtRest, Bears
    <3>7. z = "user" => p \in post'.account
      BY <2>1, <2>3 DEF TrueNotice, Unheard
    <3> QED BY <3>4, <3>6, <3>7 DEF TrueNotice
  <2> QED BY <2>2, <2>3
<1> QED BY <1>3 DEF Notices

\* A handler goes on with a change and mails nobody.
LEMMA MovedNotices ==
  ASSUME MailerInv, NEW h \in Handlers, NEW o, HandlerStep(h, o, {}),
         o.about = orders[h].about, o.who = orders[h].who,
         vow.blurred \subseteq vow'.blurred, last' = last, post'.account = post.account,
         \A p \in People, z \in Subjects :
           <<p, z>> \notin vow'.blurred =>
             /\ ~Carries(h, p, z) => Now(p, z)' = Now(p, z)
             /\ Carries(h, p, z) /\ OnItsWay(h, p, z) => (OnItsWay(h, p, z))'
  PROVE  Notices'
<1>1. \A g \in Handlers : orders'[g] = IF g = h THEN o ELSE orders[g]
  BY DEF MailerInv, MailerTyped, OrderTyped, HandlerStep
<1>2. outbox' = outbox
  BY DEF HandlerStep
<1>3. ASSUME NEW p \in People, NEW z \in Subjects, <<p, z>> \notin vow'.blurred
      PROVE  (TrueNotice(p, z))'
  <2>1. TrueNotice(p, z)
    BY <1>3 DEF MailerInv, Notices
  <2>2. \A g \in Handlers : (Carries(g, p, z))' <=> Carries(g, p, z)
    BY <1>1 DEF Carries, Concerned
  <2>3. CASE ~Carries(h, p, z)
    <3>1. QuietFor(p, z)
      BY <1>1, <1>2, <1>3, <2>2, <2>3 DEF QuietFor
    <3> QED BY <2>1, <3>1, QuietNotice
  <2>4. CASE Carries(h, p, z)
    <3>1. OnItsWay(h, p, z) /\ (OnItsWay(h, p, z))'
      BY <1>3, <2>1, <2>4 DEF TrueNotice
    <3>2. \A g \in Handlers : (Carries(g, p, z))' => g = h
      BY <2>2, <3>1 DEF OnItsWay
    <3>3. z = "user" => p \in post'.account
      BY <2>1, <2>4 DEF TrueNotice, Unheard
    <3> QED BY <2>2, <2>4, <3>1, <3>2, <3>3 DEF TrueNotice
  <2> QED BY <2>3, <2>4
<1> QED BY <1>3 DEF Notices

\* A handler whose mail has left before ends.
LEMMA EndedNotices ==
  ASSUME MailerInv, NEW h \in Handlers, HandlerStep(h, NoOrder, {}),
         vow.blurred \subseteq vow'.blurred, last' = last, post'.account = post.account,
         \A p \in People, z \in Subjects :
           <<p, z>> \notin vow'.blurred =>
             /\ Now(p, z)' = Now(p, z)
             /\ Carries(h, p, z) /\ OnItsWay(h, p, z) => AtRest(p, z)
  PROVE  Notices'
<1>1. \A g \in Handlers : orders'[g] = IF g = h THEN NoOrder ELSE orders[g]
  BY DEF MailerInv, MailerTyped, OrderTyped, HandlerStep
<1>2. outbox' = outbox
  BY DEF HandlerStep
<1>3. ASSUME NEW p \in People, NEW z \in Subjects, <<p, z>> \notin vow'.blurred
      PROVE  (TrueNotice(p, z))'
  <2>1. TrueNotice(p, z) /\ Now(p, z)' = Now(p, z)
    BY <1>3 DEF MailerInv, Notices
  <2>2. ~(Carries(h, p, z))'
    BY <1>1 DEF Carries, NoOrder, Subjects
  <2>3. CASE ~Carries(h, p, z)
    <3>1. QuietFor(p, z)
      BY <1>1, <1>2, <1>3, <2>1, <2>2, <2>3 DEF QuietFor
    <3> QED BY <2>1, <3>1, QuietNotice
  <2>4. CASE Carries(h, p, z)
    <3>1. OnItsWay(h, p, z) /\ AtRest(p, z)
      BY <1>3, <2>1, <2>4 DEF TrueNotice
    <3>2. \A g \in Handlers : ~(Carries(g, p, z))'
      BY <1>1, <2>2, <3>1 DEF OnItsWay, Carries
    <3>3. (AtRest(p, z))'
      BY <1>2, <2>1, <3>1 DEF AtRest, Bears
    <3>4. z = "user" => p \in post'.account
      BY <2>1, <2>4 DEF TrueNotice, Unheard
    <3> QED BY <3>2, <3>3, <3>4 DEF TrueNotice
  <2> QED BY <2>3, <2>4
<1> QED BY <1>3 DEF Notices

-----------------------------------------------------------------------------
(* Each of those steps.                                                     *)

\* A mail that nobody awaits, of a handler that is not about a link or a code.
LEMMA TellFits ==
  ASSUME MailerInv, NEW h \in Handlers, orders[h].about \in Subjects \union {"event"},
         NEW t \in Templates \ Critical, NEW p \in People, NEW says \in Says
  PROVE  LET m == Tell(t, p, says, h)
         IN /\ m \in MailType /\ m.template = t /\ m.to = p /\ m.about = orders[h].about /\ m.says = says
            /\ m.began = orders[h].began /\ m.by = NoOne
            /\ \A os : MailFits(m, os)
<1> DEFINE m == Tell(t, p, says, h)
<1>1. orders[h] \in OrderType
  BY DEF MailerInv, MailerTyped, OrderTyped
<1>2. /\ m \in MailType /\ m.template = t /\ m.to = p /\ m.about = orders[h].about /\ m.says = says
      /\ m.began = orders[h].began /\ m.by = NoOne
  BY <1>1 DEF Tell, MailType, OrderType
<1> HIDE DEF m
<1>3. \A os : MailFits(m, os)
  BY <1>2 DEF MailFits, Subjects, Kinds, Critical
<1> QED BY <1>2, <1>3 DEF m

LEMMA RestFits == NoOrder \in OrderType /\ OrderFits(NoOrder)
  BY DEF NoOrder, OrderType, OrderFits, Stages, Abouts, Subjects, Kinds, Says

LEMMA FiredVow ==
  ASSUME MailerInv, NEW h \in Handlers, NEW ms, Fire(h, ms)
  PROVE  /\ vow' \in VowType /\ vow'.told = vow.told /\ vow'.upset = vow.upset
         /\ vow'.offSince = vow.offSince /\ vow.blurred \subseteq vow'.blurred
         /\ orders[h].about \in Subjects =>
              \A p \in Concerned(orders[h]) \ {m.to : m \in ms} : <<p, orders[h].about>> \in vow'.blurred
<1>1. vow \in VowType /\ (orders[h].about \in {"user", "factor"} => orders[h].who \in People)
  BY DEF MailerInv, MailerTyped, HistTyped, OrderTyped, OrderFits, NoOrder
<1> DEFINE ps == Concerned(orders[h]) \ {m.to : m \in ms}
<1>2. ps \in SUBSET People
  BY <1>1, ConcernedType
<1>3. vow' = IF orders[h].about \in Subjects THEN Blur(vow, ps, orders[h].about) ELSE vow
  BY DEF Fire
<1> HIDE DEF ps
<1>4. /\ vow' \in VowType /\ vow'.told = vow.told /\ vow'.upset = vow.upset
      /\ vow'.offSince = vow.offSince /\ vow.blurred \subseteq vow'.blurred
      /\ orders[h].about \in Subjects => \A p \in ps : <<p, orders[h].about>> \in vow'.blurred
  <2>1. CASE orders[h].about \in Subjects
    BY <1>1, <1>2, <1>3, <2>1, Blurs
  <2>2. CASE orders[h].about \notin Subjects
    BY <1>1, <1>3, <2>2
  <2> QED BY <2>1, <2>2
<1> QED BY <1>4 DEF ps

\* Mails about an event, of which nobody awaits one.
EventMails(h, ms) ==
  \A m \in ms : \E t \in Templates \ Critical, p \in People :
    /\ m = Tell(t, p, orders[h].says, h)
    /\ IF t \in ByAlerts THEN post.alerts[p] \/ vow.offSince[p]["alerts"] >= orders[h].began
       ELSE post.mails[p]

LEMMA EventFires ==
  ASSUME MailerInv, NEW h \in Handlers, NEW ms, Fire(h, ms), EventMails(h, ms),
         orders[h].about = "event", orders[h].at # "mailing",
         NEW o, orders' = [orders EXCEPT ![h] = o], o \in OrderType, OrderFits(o),
         o.about = "event", o.began \in {0, orders[h].began}, ~WillAlert(o),
         UNCHANGED post, Same
  PROVE  MailerInv'
<1>1. orders[h] \in OrderType
  BY DEF MailerInv, MailerTyped, OrderTyped
<1>2. ASSUME NEW m \in ms
      PROVE  /\ m \in MailType /\ (\A os : MailFits(m, os)) /\ m.by = NoOne /\ m.about = "event"
             /\ m.began = orders[h].began /\ Wanted(m)
  <2>1. PICK t \in Templates \ Critical, p \in People :
          /\ m = Tell(t, p, orders[h].says, h)
          /\ IF t \in ByAlerts THEN post.alerts[p] \/ vow.offSince[p]["alerts"] >= orders[h].began
             ELSE post.mails[p]
    BY DEF EventMails
  <2>2. orders[h].says \in Says
    BY <1>1 DEF OrderType
  <2>3. /\ m \in MailType /\ m.template = t /\ m.to = p /\ m.about = "event"
        /\ m.began = orders[h].began /\ m.by = NoOne
        /\ \A os : MailFits(m, os)
    BY <2>1, <2>2, TellFits
  <2> QED BY <2>1, <2>3 DEF Wanted
<1>3. HandlerStep(h, o, ms) /\ Fresh(h, o, ms)
  BY <1>2 DEF HandlerStep, Fresh, Fire
<1>4. Passes(h, o, ms)
  BY <1>2, <1>3, FiredVow DEF Passes, Same, Kinds
<1> QED BY <1>2, <1>4, EventKeeps

LEMMA EventEnds ==
  ASSUME MailerInv, NEW h \in Handlers, NEW ms, Fire(h, ms), EventMails(h, ms),
         orders[h].about = "event", orders[h].at # "mailing", Ends(h), UNCHANGED post, Same
  PROVE  MailerInv'
<1>1. NoOrder.about = "event" /\ NoOrder.began = 0 /\ ~WillAlert(NoOrder)
  BY DEF NoOrder, WillAlert
<1> QED BY <1>1, RestFits, EventFires DEF Ends

LEMMA EventSteps ==
  ASSUME MailerInv, NEW h \in Handlers
  PROVE  /\ TellPassword(h) => MailerInv'
         /\ TellInviter(h) => MailerInv'
         /\ NotifyNewDeviceLogin(h) => MailerInv'
         /\ NotifyVideoProcessingFailed(h) => MailerInv'
         /\ NotifyExternals(h) => MailerInv'
<1>0. orders[h] \in OrderType /\ OrderFits(orders[h])
  BY DEF MailerInv, MailerTyped, OrderTyped
<1>1. ASSUME TellPassword(h) PROVE MailerInv'
  <2> DEFINE ms == IF post.alerts[orders[h].who] THEN {SendPasswordChanged(h, orders[h].who)} ELSE {}
  <2>1. orders[h].at = "password" /\ orders[h].about = "event" /\ orders[h].who \in People
    BY <1>0, <1>1 DEF TellPassword, Waits, OrderFits
  <2>2. EventMails(h, ms)
    BY <2>1 DEF EventMails, SendPasswordChanged, Notice, Templates, Critical, ByAlerts
  <2> QED BY <1>1, <2>1, <2>2, EventEnds DEF TellPassword
<1>2. ASSUME TellInviter(h) PROVE MailerInv'
  <2>1. orders[h].at = "inviter" /\ orders[h].about = "event"
    BY <1>0, <1>2 DEF TellInviter, Waits, OrderFits
  <2>2. PICK a \in People : Fire(h, IF post.mails[a] THEN {SendInvitationAccepted(h, a)} ELSE {})
    BY <1>2 DEF TellInviter
  <2> DEFINE ms == IF post.mails[a] THEN {SendInvitationAccepted(h, a)} ELSE {}
  <2>3. EventMails(h, ms)
    BY DEF EventMails, SendInvitationAccepted, Notice, Templates, Critical, ByAlerts
  <2> QED BY <1>2, <2>1, <2>2, <2>3, EventEnds DEF TellInviter
<1>3. ASSUME NotifyNewDeviceLogin(h) PROVE MailerInv'
  <2> DEFINE p == orders[h].who
             ms == IF orders[h].says = "on" THEN {SendNewDeviceLogin(h, p)} ELSE {}
  <2>1. orders[h].at = "session" /\ orders[h].about = "event" /\ p \in People
    BY <1>0, <1>3 DEF NotifyNewDeviceLogin, Waits, OrderFits
  <2>2. orders[h].says = "on" => post.alerts[p] \/ vow.offSince[p]["alerts"] >= orders[h].began
    BY <2>1 DEF MailerInv, Unasked, AlertWanted, WillAlert
  <2>3. EventMails(h, ms)
    BY <2>1, <2>2 DEF EventMails, SendNewDeviceLogin, Notice, Templates, Critical, ByAlerts
  <2> QED BY <1>3, <2>1, <2>3, EventEnds DEF NotifyNewDeviceLogin
<1>4. ASSUME NotifyVideoProcessingFailed(h) PROVE MailerInv'
  <2> DEFINE p == orders[h].who
             ms == IF post.mails[p] THEN {SendVideoProcessingFailed(h, p)} ELSE {}
  <2>1. orders[h].at = "uploader" /\ orders[h].about = "event" /\ p \in People
    BY <1>0, <1>4 DEF NotifyVideoProcessingFailed, Waits, OrderFits
  <2>2. EventMails(h, ms)
    BY <2>1 DEF EventMails, SendVideoProcessingFailed, Notice, Templates, Critical, ByAlerts
  <2> QED BY <1>4, <2>1, <2>2, EventEnds DEF NotifyVideoProcessingFailed
<1>5. ASSUME NotifyExternals(h) PROVE MailerInv'
  <2> DEFINE ms == {SendServiceCompletedExternal(h, x) : x \in Externals(post)}
  <2>1. orders[h].at = "externals" /\ orders[h].about = "event"
    BY <1>0, <1>5 DEF NotifyExternals, Waits, OrderFits
  <2>2. \A x \in Externals(post) : x \in People /\ post.mails[x]
    BY PostFacts DEF Externals
  <2>3. EventMails(h, ms)
    BY <2>2 DEF EventMails, SendServiceCompletedExternal, Notice, Templates, Critical, ByAlerts
  <2> QED BY <1>5, <2>1, <2>3, EventEnds DEF NotifyExternals
<1> QED BY <1>1, <1>2, <1>3, <1>4, <1>5
\* Mails that tell how a subject stands once they are out.
SubjectMails(h, ms, s) ==
  \A m \in ms : \E t \in Templates \ Critical, p \in People, says \in Says :
    /\ m = Tell(t, p, says, h) /\ p \in Concerned(orders[h])
    /\ IF t \in ByAlerts THEN post.alerts[p] \/ vow.offSince[p]["alerts"] >= orders[h].began
       ELSE post.mails[p]
    /\ <<p, s>> \in vow.blurred \/ says = Now(p, s)'

LEMMA SubjectFires ==
  ASSUME MailerInv, NEW h \in Handlers, NEW ms, Fire(h, ms),
         NEW s \in Subjects, orders[h].about = s, SubjectMails(h, ms, s),
         orders[h].at \notin Beside \union {"mailing"}, Ends(h), Same,
         PostTyped', post'.tokens = post.tokens, post'.mails = post.mails, post'.alerts = post.alerts,
         post'.account = post.account,
         \A p \in People, z \in Subjects : ~Carries(h, p, z) => Now(p, z)' = Now(p, z)
  PROVE  MailerInv'
<1>0. /\ vow' \in VowType /\ vow'.told = vow.told /\ vow'.upset = vow.upset
      /\ vow'.offSince = vow.offSince /\ vow.blurred \subseteq vow'.blurred
      /\ \A p \in Concerned(orders[h]) \ {m.to : m \in ms} : <<p, s>> \in vow'.blurred
  BY FiredVow
<1>a. \A p \in Concerned(orders[h]) : <<p, s>> \in vow'.blurred \/ \E m \in ms : m.to = p
  BY <1>0
<1>1. ASSUME NEW m \in ms
      PROVE  /\ m \in MailType /\ (\A os : MailFits(m, os)) /\ m.by = NoOne /\ m.about = s
             /\ m.began = orders[h].began /\ Wanted(m) /\ m.to \in Concerned(orders[h])
             /\ <<m.to, s>> \in vow'.blurred \/ m.says = Now(m.to, s)'
  <2>1. PICK t \in Templates \ Critical, p \in People, says \in Says :
          /\ m = Tell(t, p, says, h) /\ p \in Concerned(orders[h])
          /\ IF t \in ByAlerts THEN post.alerts[p] \/ vow.offSince[p]["alerts"] >= orders[h].began
             ELSE post.mails[p]
          /\ <<p, s>> \in vow.blurred \/ says = Now(p, s)'
    BY DEF SubjectMails
  <2>2. /\ m \in MailType /\ m.template = t /\ m.to = p /\ m.about = s
        /\ m.began = orders[h].began /\ m.by = NoOne /\ m.says = says
        /\ \A os : MailFits(m, os)
    BY <2>1, TellFits
  <2> QED BY <1>0, <2>1, <2>2 DEF Wanted
<1>2. NoOrder.about = "event" /\ NoOrder.began = 0 /\ ~WillAlert(NoOrder)
  BY DEF NoOrder, WillAlert
<1>3. HandlerStep(h, NoOrder, ms) /\ Fresh(h, NoOrder, ms)
  BY <1>1, RestFits DEF HandlerStep, Fresh, Fire, Ends
<1>4. Passes(h, NoOrder, ms)
  <2>1. orders[h].about \notin Kinds /\ "event" \notin Kinds
    BY DEF Kinds, Subjects
  <2> QED BY <1>0, <1>1, <1>2, <1>3, <2>1 DEF Passes, Same
<1>5. Notices'
  <2>1. Tells(h, ms, s)
    BY <1>1, <1>a DEF Tells
  <2>2. orders[h].at \notin Beside /\ last' = last
    BY DEF Same
  <2> QED BY <1>0, <1>3, <2>1, <2>2, ToldNotices
<1> QED BY <1>4, <1>5, PassesKeeps

LEMMA SubjectSteps ==
  ASSUME MailerInv, NEW h \in Handlers
  PROVE  /\ NotifyTwoFactorStatusChanged(h) => MailerInv'
         /\ WriteToggle(h) => MailerInv'
         /\ NotifyOrgAdmins(h) => MailerInv'
<1>0. orders[h] \in OrderType /\ OrderFits(orders[h])
  BY DEF MailerInv, MailerTyped, OrderTyped
<1>a. \A p \in People, s \in Subjects :
        Carries(h, p, s) /\ orders[h].at \in {"tell", "admins"} =>
          <<p, s>> \in vow.blurred \/ orders[h].says = Now(p, s)
  BY DEF MailerInv, Notices, TrueNotice, OnItsWay
<1>b. UNCHANGED post => PostTyped' /\ \A p \in People, s \in Subjects : Now(p, s)' = Now(p, s)
  BY DEF MailerInv, MailerTyped, PostTyped, Now
<1>1. ASSUME NotifyTwoFactorStatusChanged(h) PROVE MailerInv'
  <2>1. orders[h].at = "tell" /\ orders[h].about = "factor" /\ orders[h].who \in People /\ orders[h].says \in Says
    BY <1>0, <1>1 DEF NotifyTwoFactorStatusChanged, Waits, OrderFits, OrderType
  <2> PICK p \in People : p = orders[h].who
    BY <2>1
  <2> DEFINE ms == IF post.alerts[p] THEN {SendTwoFactorStatusChanged(h, p)} ELSE {}
  <2>2. p \in Concerned(orders[h]) /\ Carries(h, p, "factor") /\ "factor" \in Subjects
    BY <2>1 DEF Concerned, Carries, Subjects
  <2>3. <<p, "factor">> \in vow.blurred \/ orders[h].says = Now(p, "factor")'
    BY <1>1, <1>a, <1>b, <2>1, <2>2 DEF NotifyTwoFactorStatusChanged
  <2>4. SubjectMails(h, ms, "factor")
    BY <2>1, <2>2, <2>3 DEF SubjectMails, SendTwoFactorStatusChanged, Notice, Templates, Critical, ByAlerts
  <2> QED BY <1>1, <1>b, <2>1, <2>2, <2>4, SubjectFires DEF NotifyTwoFactorStatusChanged, Beside
<1>2. ASSUME WriteToggle(h) PROVE MailerInv'
  <2>1. orders[h].at \in {"flip", "flip-silently"} /\ orders[h].about = "user" /\ orders[h].who \in People
    BY <1>0, <1>2 DEF WriteToggle, OrderFits
  <2> PICK p \in People : p = orders[h].who
    BY <2>1
  <2> DEFINE on == post'.active[p]
             ms == IF Waits(h, "flip") THEN {SendUserStatusChanged(h, p, OnOff(on))} ELSE {}
  <2>2. post' = [post EXCEPT !.active[p] = orders[h].says = "off"]
    BY <1>2 DEF WriteToggle
  <2>3. /\ PostTyped' /\ post'.tokens = post.tokens /\ post'.mails = post.mails
        /\ post'.alerts = post.alerts /\ post'.account = post.account /\ post'.factor = post.factor
        /\ post'.org = post.org /\ post'.plan = post.plan
        /\ \A q \in People \ {p} : post'.active[q] = post.active[q]
    BY <2>1, <2>2 DEF MailerInv, MailerTyped, PostTyped, PostType
  <2>4. p \in Concerned(orders[h]) /\ OnOff(on) \in Says /\ OnOff(on) = Now(p, "user")'
    BY <2>1 DEF Concerned, OnOff, Says, Now
  <2>5. Waits(h, "flip") => post.alerts[p] \/ vow.offSince[p]["alerts"] >= orders[h].began
    BY DEF MailerInv, Unasked, AlertWanted, WillAlert, Waits
  <2>6. SubjectMails(h, ms, "user")
    <3> HIDE DEF on
    <3> QED BY <2>1, <2>4, <2>5 DEF SubjectMails, SendUserStatusChanged, Templates, Critical, ByAlerts
  <2>7. \A q \in People, z \in Subjects : ~Carries(h, q, z) => Now(q, z)' = Now(q, z)
    BY <2>1, <2>3 DEF Carries, Concerned, Now, Subjects
  <2>8. Fire(h, ms) /\ Ends(h) /\ Same
    BY <1>2 DEF WriteToggle
  <2> QED BY <2>1, <2>3, <2>6, <2>7, <2>8, SubjectFires DEF Beside, Subjects
<1>3. ASSUME NotifyOrgAdmins(h) PROVE MailerInv'
  <2> DEFINE ms == {ToAdmin(h, a) : a \in Readers(h)}
  <2>1. /\ orders[h].at = "admins" /\ orders[h].template \in ToAdmins /\ orders[h].says \in Says
        /\ orders[h].about = IF orders[h].template = "subscription_status_changed" THEN "org" ELSE "event"
    BY <1>0, <1>3 DEF NotifyOrgAdmins, Waits, OrderFits, OrderType
  <2>2. /\ orders[h].template \in Templates \ Critical
        /\ orders[h].template \notin ByAlerts
    BY <2>1 DEF ToAdmins, Templates, Critical, ByAlerts
  <2>3. \A a : ToAdmin(h, a) = Tell(orders[h].template, a, orders[h].says, h)
    BY <2>1 DEF ToAdmin, ToAdmins, SendSubscriptionStatusChanged, SendDemoExpiringSoon, SendStorageNearLimit,
                SendServiceCompletedAdmin, SendServiceEdited, Notice
  <2>4. \A a \in Readers(h) : a \in People /\ post.mails[a]
    BY PostFacts DEF Readers, Admins
  <2>5. Fire(h, ms) /\ UNCHANGED post /\ Same
    BY <1>3 DEF NotifyOrgAdmins
  <2>6. CASE orders[h].template = "subscription_status_changed"
    <3>1. orders[h].about = "org" /\ Ends(h) /\ "org" \in Subjects
      BY <1>3, <2>1, <2>6 DEF NotifyOrgAdmins, Subjects
    <3>2. \A a \in People : /\ a \in Concerned(orders[h])
                            /\ <<a, "org">> \in vow.blurred \/ orders[h].says = Now(a, "org")'
      BY <1>a, <1>b, <2>1, <2>5, <3>1 DEF Concerned, Carries
    <3>3. SubjectMails(h, ms, "org")
      BY <2>1, <2>2, <2>3, <2>4, <3>1, <3>2 DEF SubjectMails
    <3> QED BY <1>b, <2>1, <2>5, <3>1, <3>3, SubjectFires DEF Beside
  <2>7. CASE orders[h].template # "subscription_status_changed"
    <3>1. EventMails(h, ms) /\ orders[h].about = "event"
      BY <2>1, <2>2, <2>3, <2>4, <2>7 DEF EventMails
    <3>2. CASE orders[h].template # "service_completed_admin"
      BY <1>3, <2>1, <2>5, <3>1, <3>2, EventEnds DEF NotifyOrgAdmins
    <3>3. CASE orders[h].template = "service_completed_admin"
      <4> DEFINE o == [orders[h] EXCEPT !.at = "externals"]
      <4>1. /\ o \in OrderType /\ o.at = "externals" /\ o.about = "event" /\ o.began = orders[h].began
            /\ orders' = [orders EXCEPT ![h] = o]
        BY <1>0, <1>3, <3>1, <3>3 DEF NotifyOrgAdmins, Moves, OrderType, Stages
      <4> HIDE DEF o
      <4>2. OrderFits(o) /\ ~WillAlert(o)
        BY <4>1 DEF OrderFits, WillAlert
      <4> QED BY <2>1, <2>5, <3>1, <4>1, <4>2, EventFires
    <3> QED BY <3>2, <3>3
  <2> QED BY <2>6, <2>7
<1> QED BY <1>1, <1>2, <1>3
\* A step of a change that mails nobody: the order goes on to the stage at, or ends.
LEMMA QuietlyPasses ==
  ASSUME MailerInv, NEW h \in Handlers, NEW o, orders' = [orders EXCEPT ![h] = o], outbox' = outbox,
         o \in OrderType, OrderFits(o), orders[h].at # "mailing",
         orders[h].about \notin Kinds, o.about \notin Kinds, o.began \in {0, orders[h].began}, ~WillAlert(o),
         post'.tokens = post.tokens, post'.mails = post.mails, post'.alerts = post.alerts,
         vow' \in VowType, vow'.told = vow.told, vow'.upset = vow.upset, vow'.offSince = vow.offSince,
         vow.blurred \subseteq vow'.blurred, Same
  PROVE  HandlerStep(h, o, {}) /\ Passes(h, o, {})
<1>1. HandlerStep(h, o, {}) /\ Fresh(h, o, {})
  BY DEF HandlerStep, Fresh
<1> QED BY <1>1 DEF Passes, Same

LEMMA MovesOn ==
  ASSUME MailerInv, NEW h \in Handlers, NEW at \in Stages, Moves(h, at)
  PROVE  LET o == [orders[h] EXCEPT !.at = at]
         IN /\ orders' = [orders EXCEPT ![h] = o] /\ o \in OrderType
            /\ o.at = at /\ o.who = orders[h].who /\ o.about = orders[h].about /\ o.says = orders[h].says
            /\ o.template = orders[h].template /\ o.began = orders[h].began
            /\ orders'[h] = o
<1>1. orders \in [Handlers -> OrderType] /\ orders[h] \in OrderType
  BY DEF MailerInv, MailerTyped, OrderTyped
<1> QED BY <1>1 DEF Moves, OrderType

LEMMA MoveSteps ==
  ASSUME MailerInv, NEW h \in Handlers
  PROVE  /\ WriteFactor(h) => MailerInv'
         /\ WriteSuspension(h) => MailerInv'
         /\ WriteOpen(h) => MailerInv'
         /\ WritePaid(h) => MailerInv'
<1>0. orders[h] \in OrderType /\ OrderFits(orders[h]) /\ vow \in VowType
  BY DEF MailerInv, MailerTyped, OrderTyped, HistTyped
<1>1. ASSUME WriteFactor(h) PROVE MailerInv'
  <2>1. orders[h].at = "factor" /\ orders[h].about = "factor" /\ orders[h].who \in People /\ orders[h].says \in {"on", "off"}
    BY <1>0, <1>1 DEF WriteFactor, Waits, OrderFits
  <2> PICK p \in People : p = orders[h].who
    BY <2>1
  <2>2. post' = [post EXCEPT !.factor[p] = orders[h].says = "on"]
    BY <1>1 DEF WriteFactor
  <2>3. /\ PostTyped' /\ post'.tokens = post.tokens /\ post'.mails = post.mails /\ post'.active = post.active
        /\ post'.alerts = post.alerts /\ post'.account = post.account /\ post'.plan = post.plan
        /\ post'.org = post.org /\ post'.factor[p] = (orders[h].says = "on")
        /\ \A q \in People \ {p} : post'.factor[q] = post.factor[q]
    BY <2>2 DEF MailerInv, MailerTyped, PostTyped, PostType
  <2> DEFINE o == [orders[h] EXCEPT !.at = "tell"]
  <2>4. /\ orders' = [orders EXCEPT ![h] = o] /\ o \in OrderType
        /\ o.at = "tell" /\ o.who = orders[h].who /\ o.about = orders[h].about /\ o.says = orders[h].says
        /\ o.template = orders[h].template /\ o.began = orders[h].began /\ orders'[h] = o
    BY <1>1, MovesOn DEF WriteFactor, Stages
  <2> HIDE DEF o
  <2>5. UNCHANGED <<outbox, vow>> /\ Same
    BY <1>1 DEF WriteFactor
  <2>6. OrderFits(o) /\ ~WillAlert(o) /\ o.about \notin Kinds
    BY <2>1, <2>4 DEF OrderFits, WillAlert, Kinds
  <2>7. HandlerStep(h, o, {}) /\ Passes(h, o, {})
    BY <1>0, <2>1, <2>3, <2>4, <2>5, <2>6, QuietlyPasses
  <2>8. \A q \in People, z \in Subjects :
          /\ ~Carries(h, q, z) => Now(q, z)' = Now(q, z)
          /\ Carries(h, q, z) /\ OnItsWay(h, q, z) => (OnItsWay(h, q, z))'
    <3> TAKE q \in People, z \in Subjects
    <3>1. ~Carries(h, q, z) => Now(q, z)' = Now(q, z)
      BY <2>1, <2>3 DEF Carries, Concerned, Now, Subjects
    <3>2. ASSUME Carries(h, q, z), OnItsWay(h, q, z) PROVE (OnItsWay(h, q, z))'
      <4>1. q = p /\ z = "factor"
        BY <2>1, <3>2 DEF Carries, Concerned
      <4>2. \A g \in Handlers : (Carries(g, q, z))' <=> Carries(g, q, z)
        BY <2>4 DEF Carries, Concerned, MailerInv, MailerTyped, OrderTyped
      <4>3. orders[h].says = Now(q, z)'
        BY <2>1, <2>3, <4>1 DEF Now, OnOff
      <4> QED BY <2>1, <2>4, <2>5, <3>2, <4>2, <4>3 DEF OnItsWay, Beside
    <3> QED BY <3>1, <3>2
  <2>9. Notices'
    BY <2>3, <2>4, <2>5, <2>7, <2>8, MovedNotices DEF Same
  <2> QED BY <2>3, <2>7, <2>9, PassesKeeps
<1>2. ASSUME WriteSuspension(h) PROVE MailerInv'
  <2>1. orders[h].at = "suspend" /\ orders[h].about = "org" /\ orders[h].template = "subscription_status_changed"
        /\ orders[h].says \in {"on", "off"}
    BY <1>0, <1>2 DEF WriteSuspension, Waits, OrderFits
  <2>3. /\ PostTyped' /\ post'.tokens = post.tokens /\ post'.mails = post.mails /\ post'.active = post.active
        /\ post'.alerts = post.alerts /\ post'.account = post.account /\ post'.plan = post.plan
        /\ post'.org = post.org /\ post'.factor = post.factor
    BY <1>2 DEF WriteSuspension, MailerInv, MailerTyped, PostTyped, PostType
  <2> DEFINE o == [orders[h] EXCEPT !.at = "open"]
  <2>4. /\ orders' = [orders EXCEPT ![h] = o] /\ o \in OrderType
        /\ o.at = "open" /\ o.who = orders[h].who /\ o.about = orders[h].about /\ o.says = orders[h].says
        /\ o.template = orders[h].template /\ o.began = orders[h].began /\ orders'[h] = o
    BY <1>2, MovesOn DEF WriteSuspension, Stages
  <2> HIDE DEF o
  <2>5. UNCHANGED <<outbox, vow>> /\ Same
    BY <1>2 DEF WriteSuspension
  <2>6. OrderFits(o) /\ ~WillAlert(o) /\ o.about \notin Kinds
    BY <2>1, <2>4 DEF OrderFits, WillAlert, Kinds
  <2>7. HandlerStep(h, o, {}) /\ Passes(h, o, {})
    BY <1>0, <2>1, <2>3, <2>4, <2>5, <2>6, QuietlyPasses
  <2>8. \A q \in People, z \in Subjects :
          /\ ~Carries(h, q, z) => Now(q, z)' = Now(q, z)
          /\ Carries(h, q, z) /\ OnItsWay(h, q, z) => (OnItsWay(h, q, z))'
    <3> TAKE q \in People, z \in Subjects
    <3>1. Now(q, z)' = Now(q, z)
      BY <2>3 DEF Now
    <3>2. \A g \in Handlers : (Carries(g, q, z))' <=> Carries(g, q, z)
      BY <2>4 DEF Carries, Concerned, MailerInv, MailerTyped, OrderTyped
    <3> QED BY <2>1, <2>4, <2>5, <3>1, <3>2 DEF OnItsWay, Beside
  <2>9. Notices'
    BY <2>3, <2>4, <2>5, <2>7, <2>8, MovedNotices DEF Same
  <2> QED BY <2>3, <2>7, <2>9, PassesKeeps
<1>3. ASSUME WriteOpen(h) PROVE MailerInv'
  <2>1. orders[h].at = "open" /\ orders[h].about = "org" /\ orders[h].template = "subscription_status_changed"
        /\ orders[h].says \in {"on", "off"}
    BY <1>0, <1>3 DEF WriteOpen, Waits, OrderFits
  <2>3. /\ PostTyped' /\ post'.tokens = post.tokens /\ post'.mails = post.mails /\ post'.active = post.active
        /\ post'.alerts = post.alerts /\ post'.account = post.account /\ post'.plan = post.plan
        /\ post'.org = (orders[h].says = "on") /\ post'.factor = post.factor
    BY <1>3 DEF WriteOpen, MailerInv, MailerTyped, PostTyped, PostType
  <2> DEFINE o == [orders[h] EXCEPT !.at = "admins"]
  <2>4. /\ orders' = [orders EXCEPT ![h] = o] /\ o \in OrderType
        /\ o.at = "admins" /\ o.who = orders[h].who /\ o.about = orders[h].about /\ o.says = orders[h].says
        /\ o.template = orders[h].template /\ o.began = orders[h].began /\ orders'[h] = o
    BY <1>3, MovesOn DEF WriteOpen, Stages
  <2> HIDE DEF o
  <2>5. UNCHANGED <<outbox, vow>> /\ Same
    BY <1>3 DEF WriteOpen
  <2>6. OrderFits(o) /\ ~WillAlert(o) /\ o.about \notin Kinds
    BY <2>1, <2>4 DEF OrderFits, WillAlert, Kinds, ToAdmins
  <2>7. HandlerStep(h, o, {}) /\ Passes(h, o, {})
    BY <1>0, <2>1, <2>3, <2>4, <2>5, <2>6, QuietlyPasses
  <2>8. \A q \in People, z \in Subjects :
          /\ ~Carries(h, q, z) => Now(q, z)' = Now(q, z)
          /\ Carries(h, q, z) /\ OnItsWay(h, q, z) => (OnItsWay(h, q, z))'
    <3> TAKE q \in People, z \in Subjects
    <3>1. ~Carries(h, q, z) => Now(q, z)' = Now(q, z)
      BY <2>1, <2>3 DEF Carries, Concerned, Now, Subjects
    <3>2. \A g \in Handlers : (Carries(g, q, z))' <=> Carries(g, q, z)
      BY <2>4 DEF Carries, Concerned, MailerInv, MailerTyped, OrderTyped
    <3>3. Carries(h, q, z) => orders[h].says = Now(q, z)'
      BY <2>1, <2>3 DEF Now, OnOff, Carries
    <3> QED BY <2>1, <2>4, <2>5, <3>1, <3>2, <3>3 DEF OnItsWay, Beside
  <2>9. Notices'
    BY <2>3, <2>4, <2>5, <2>7, <2>8, MovedNotices DEF Same
  <2> QED BY <2>3, <2>7, <2>9, PassesKeeps
<1>4. ASSUME WritePaid(h) PROVE MailerInv'
  <2>1. orders[h].at = "plan" /\ orders[h].about \in {"plan", "silent"} /\ orders[h].says = "paid"
    BY <1>0, <1>4 DEF WritePaid, Waits, OrderFits
  <2>3. /\ PostTyped' /\ post'.tokens = post.tokens /\ post'.mails = post.mails /\ post'.active = post.active
        /\ post'.alerts = post.alerts /\ post'.account = post.account /\ post'.plan = "paid"
        /\ post'.org = post.org /\ post'.factor = post.factor
    BY <1>4 DEF WritePaid, MailerInv, MailerTyped, PostTyped, PostType
  <2> DEFINE o == [orders[h] EXCEPT !.at = "reopen"]
  <2>4. /\ orders' = [orders EXCEPT ![h] = o] /\ o \in OrderType
        /\ o.at = "reopen" /\ o.who = orders[h].who /\ o.about = orders[h].about /\ o.says = orders[h].says
        /\ o.template = orders[h].template /\ o.began = orders[h].began /\ orders'[h] = o
    BY <1>4, MovesOn DEF WritePaid, Stages
  <2> HIDE DEF o
  <2>a. outbox' = outbox /\ Same /\ vow' = IF orders[h].about = "silent" THEN Blur(vow, People, "plan") ELSE vow
    BY <1>4 DEF WritePaid
  <2>5. /\ vow' \in VowType /\ vow'.told = vow.told /\ vow'.upset = vow.upset
        /\ vow'.offSince = vow.offSince /\ vow.blurred \subseteq vow'.blurred
        /\ orders[h].about = "silent" => \A q \in People : <<q, "plan">> \in vow'.blurred
    BY <1>0, <2>a, Blurs DEF Subjects
  <2>6. OrderFits(o) /\ ~WillAlert(o) /\ o.about \notin Kinds
    BY <1>0, <2>1, <2>4 DEF OrderFits, WillAlert, Kinds
  <2>7. HandlerStep(h, o, {}) /\ Passes(h, o, {})
    BY <2>1, <2>3, <2>4, <2>5, <2>6, <2>a, QuietlyPasses
  <2>8. \A q \in People, z \in Subjects : <<q, z>> \notin vow'.blurred =>
          /\ ~Carries(h, q, z) => Now(q, z)' = Now(q, z)
          /\ Carries(h, q, z) /\ OnItsWay(h, q, z) => (OnItsWay(h, q, z))'
    <3> TAKE q \in People, z \in Subjects
    <3> HAVE <<q, z>> \notin vow'.blurred
    <3>1. ~Carries(h, q, z) => Now(q, z)' = Now(q, z)
      BY <2>1, <2>3, <2>5 DEF Carries, Concerned, Now, Subjects
    <3>2. \A g \in Handlers : (Carries(g, q, z))' <=> Carries(g, q, z)
      BY <2>4 DEF Carries, Concerned, MailerInv, MailerTyped, OrderTyped
    <3>3. Carries(h, q, z) => Now(q, z)' = "paid"
      BY <2>1, <2>3 DEF Now, Carries, Subjects
    <3>4. ASSUME Carries(h, q, z), OnItsWay(h, q, z) PROVE (OnItsWay(h, q, z))'
      BY <2>1, <2>4, <2>a, <3>2, <3>3, <3>4 DEF OnItsWay, Beside, Bears, Same
    <3> QED BY <3>1, <3>4
  <2>9. Notices'
    BY <2>3, <2>4, <2>5, <2>7, <2>8, <2>a, MovedNotices DEF Same
  <2> QED BY <2>3, <2>7, <2>9, PassesKeeps
<1> QED BY <1>1, <1>2, <1>3, <1>4
LEMMA EndSteps ==
  ASSUME MailerInv, NEW h \in Handlers
  PROVE  /\ ClearPending(h) => MailerInv'
         /\ Reopen(h) => MailerInv'
<1>0. orders[h] \in OrderType /\ OrderFits(orders[h]) /\ vow \in VowType
  BY DEF MailerInv, MailerTyped, OrderTyped, HistTyped
<1>a. NoOrder.about = "event" /\ NoOrder.began = 0 /\ ~WillAlert(NoOrder) /\ "event" \notin Kinds
  BY DEF NoOrder, WillAlert, Kinds
<1>1. ASSUME ClearPending(h) PROVE MailerInv'
  <2>1. /\ orders[h].at = "clear" /\ orders[h].about = "plan"
        /\ orders[h].template = "plan_change_rejected"
    BY <1>0, <1>1 DEF ClearPending, Waits, OrderFits
  <2>3. /\ PostTyped' /\ post'.tokens = post.tokens /\ post'.mails = post.mails /\ post'.active = post.active
        /\ post'.alerts = post.alerts /\ post'.account = post.account /\ post'.plan = post.plan
        /\ post'.org = post.org /\ post'.factor = post.factor
    BY <1>1 DEF ClearPending, MailerInv, MailerTyped, PostTyped, PostType
  <2>5. orders' = [orders EXCEPT ![h] = NoOrder] /\ UNCHANGED <<outbox, vow>> /\ Same
    BY <1>1 DEF ClearPending, Ends
  <2>6. orders[h].about \notin Kinds
    BY <2>1 DEF Kinds
  <2>7. HandlerStep(h, NoOrder, {}) /\ Passes(h, NoOrder, {})
    BY <1>0, <1>a, <2>1, <2>3, <2>5, <2>6, RestFits, QuietlyPasses
  <2>8. \A q \in People, z \in Subjects : <<q, z>> \notin vow'.blurred =>
          /\ Now(q, z)' = Now(q, z)
          /\ Carries(h, q, z) /\ OnItsWay(h, q, z) => AtRest(q, z)
    <3> TAKE q \in People, z \in Subjects
    <3>1. Now(q, z)' = Now(q, z)
      BY <2>3 DEF Now
    <3>2. Carries(h, q, z) /\ OnItsWay(h, q, z) => AtRest(q, z)
      <4> HAVE Carries(h, q, z) /\ OnItsWay(h, q, z)
      <4>1. Now(q, z) = orders[h].says
        BY <2>1 DEF OnItsWay
      <4>2. /\ (\E m \in outbox : Bears(m, q, z)) \/ last[q][z] = Now(q, z)
            /\ \A m \in outbox : Bears(m, q, z) => m.says = Now(q, z)
        BY <2>1, <4>1 DEF OnItsWay, Beside
      <4> QED BY <4>2 DEF AtRest
    <3> QED BY <3>1, <3>2
  <2>9. Notices'
    BY <2>3, <2>5, <2>7, <2>8, EndedNotices DEF Same
  <2> QED BY <2>3, <2>7, <2>9, PassesKeeps
<1>2. ASSUME Reopen(h) PROVE MailerInv'
  <2>1. orders[h].at = "reopen" /\ orders[h].about \in {"plan", "silent"} /\ orders[h].says = "paid"
    BY <1>0, <1>2 DEF Reopen, Waits, OrderFits
  <2>3. /\ PostTyped' /\ post'.tokens = post.tokens /\ post'.mails = post.mails /\ post'.active = post.active
        /\ post'.alerts = post.alerts /\ post'.account = post.account /\ post'.plan = post.plan
        /\ post'.factor = post.factor
    BY <1>2 DEF Reopen, MailerInv, MailerTyped, PostTyped, PostType
  <2>a. orders' = [orders EXCEPT ![h] = NoOrder] /\ outbox' = outbox /\ Same /\ vow' = Blur(vow, People, "org")
    BY <1>2 DEF Reopen, Ends
  <2>5. /\ vow' \in VowType /\ vow'.told = vow.told /\ vow'.upset = vow.upset
        /\ vow'.offSince = vow.offSince /\ vow.blurred \subseteq vow'.blurred
        /\ \A q \in People : <<q, "org">> \in vow'.blurred
    BY <1>0, <2>a, Blurs DEF Subjects
  <2>6. orders[h].about \notin Kinds
    BY <2>1 DEF Kinds
  <2>7. HandlerStep(h, NoOrder, {}) /\ Passes(h, NoOrder, {})
    BY <1>a, <2>1, <2>3, <2>5, <2>6, <2>a, RestFits, QuietlyPasses
  <2>8. \A q \in People, z \in Subjects : <<q, z>> \notin vow'.blurred =>
          /\ Now(q, z)' = Now(q, z)
          /\ Carries(h, q, z) /\ OnItsWay(h, q, z) => AtRest(q, z)
    <3> TAKE q \in People, z \in Subjects
    <3> HAVE <<q, z>> \notin vow'.blurred
    <3>1. Now(q, z)' = Now(q, z)
      BY <2>3, <2>5 DEF Now, Subjects
    <3>2. Carries(h, q, z) /\ OnItsWay(h, q, z) => AtRest(q, z)
      BY <2>1 DEF OnItsWay, AtRest, Beside
    <3> QED BY <3>1, <3>2
  <2>9. Notices'
    BY <2>3, <2>5, <2>7, <2>8, <2>a, EndedNotices DEF Same
  <2> QED BY <2>3, <2>7, <2>9, PassesKeeps
<1> QED BY <1>1, <1>2

\* The answer leaves before the plan is changed; nobody else is told.
LEMMA TellRequesterKeeps ==
  ASSUME MailerInv, NEW h \in Handlers, TellRequester(h) PROVE MailerInv'
<1>0. orders[h] \in OrderType /\ OrderFits(orders[h])
  BY DEF MailerInv, MailerTyped, OrderTyped
<1>1. orders[h].at = "requester" /\ orders[h].about = "plan" /\ orders[h].who \in People
      /\ orders[h].says \in {"paid", "demo"}
      /\ orders[h].template \in {"plan_change_approved", "plan_change_rejected"}
      /\ (orders[h].template = "plan_change_approved" => orders[h].says = "paid")
  BY <1>0 DEF TellRequester, Waits, OrderFits
<1> PICK p \in People : p = orders[h].who
  BY <1>1
<1> DEFINE t == IF orders[h].template = "plan_change_approved" THEN "plan_change_approved" ELSE "plan_change_rejected"
           m == Tell(t, p, orders[h].says, h)
           ms == IF ~post.mails[p] THEN {} ELSE {m}
           at == IF orders[h].template = "plan_change_approved" THEN "plan" ELSE "clear"
           o == [orders[h] EXCEPT !.at = at]
<1>2. Fire(h, ms) /\ Moves(h, at) /\ UNCHANGED post /\ Same
  BY DEF TellRequester, SendPlanChangeApproved, SendPlanChangeRejected, Notice
<1>3. t \in Templates \ Critical /\ t \notin ByAlerts /\ orders[h].says \in Says
  BY <1>1 DEF Templates, Critical, ByAlerts, Says
<1>4. /\ m \in MailType /\ m.template = t /\ m.to = p /\ m.about = "plan" /\ m.says = orders[h].says
      /\ m.began = orders[h].began /\ m.by = NoOne
      /\ \A os : MailFits(m, os)
  <2> HIDE DEF t
  <2> QED BY <1>1, <1>3, TellFits DEF Subjects
<1>5. /\ orders' = [orders EXCEPT ![h] = o] /\ o \in OrderType
      /\ o.at = at /\ o.who = orders[h].who /\ o.about = orders[h].about /\ o.says = orders[h].says
      /\ o.template = orders[h].template /\ o.began = orders[h].began /\ orders'[h] = o
  <2>1. at \in Stages
    BY DEF Stages
  <2> HIDE DEF at
  <2> QED BY <1>2, <2>1, MovesOn
<1>6. at \in {"plan", "clear"} /\ (at = "plan" => o.says = "paid") /\ (at = "clear" => o.template = "plan_change_rejected")
  BY <1>1, <1>5
<1>7. \A n \in ms : n = m /\ Wanted(n)
  <2> HIDE DEF m, t
  <2> QED BY <1>3, <1>4 DEF Wanted
<1> HIDE DEF o, at, t, m
<1>8. OrderFits(o) /\ ~WillAlert(o) /\ o.about = "plan"
  BY <1>1, <1>5, <1>6 DEF OrderFits, WillAlert
<1>9. HandlerStep(h, o, ms) /\ Fresh(h, o, ms)
  BY <1>1, <1>2, <1>4, <1>5, <1>7, <1>8 DEF HandlerStep, Fresh, Fire
<1>10. /\ vow' \in VowType /\ vow'.told = vow.told /\ vow'.upset = vow.upset
       /\ vow'.offSince = vow.offSince /\ vow.blurred \subseteq vow'.blurred
       /\ orders[h].about \in Subjects =>
              \A q \in Concerned(orders[h]) \ {n.to : n \in ms} : <<q, orders[h].about>> \in vow'.blurred
  <2> HIDE DEF ms
  <2> QED BY <1>2, FiredVow
<1>11. Passes(h, o, ms)
  <2>1. "plan" \notin Kinds
    BY DEF Kinds
  <2> QED BY <1>1, <1>2, <1>4, <1>5, <1>7, <1>8, <1>9, <1>10, <2>1 DEF Passes, Same
<1>12. \A q \in People : <<q, "plan">> \notin vow'.blurred => q = p /\ ms = {m}
  <2>1. Concerned(orders[h]) = People /\ "plan" \in Subjects
    BY <1>1 DEF Concerned, Subjects
  <2>2. \A q \in People : <<q, "plan">> \notin vow'.blurred => q \in {n.to : n \in ms}
    BY <1>1, <1>10, <2>1
  <2> QED BY <1>4, <2>2
<1>13. Notices'
  <2>1. \A g \in Handlers : orders'[g] = IF g = h THEN o ELSE orders[g]
    BY <1>5 DEF MailerInv, MailerTyped, OrderTyped
  <2>2. outbox' = outbox \union ms /\ last' = last
    BY <1>2 DEF Fire, Same
  <2>3. \A q \in People, z \in Subjects : Now(q, z)' = Now(q, z)
    BY <1>2 DEF Now
  <2>4. ASSUME NEW q \in People, NEW z \in Subjects, <<q, z>> \notin vow'.blurred
        PROVE  (TrueNotice(q, z))'
    <3>1. TrueNotice(q, z)
      BY <1>10, <2>4 DEF MailerInv, Notices
    <3>2. \A g \in Handlers : (Carries(g, q, z))' <=> Carries(g, q, z)
      BY <1>5, <2>1 DEF Carries, Concerned
    <3>3. CASE z # "plan"
      <4>1. ~Carries(h, q, z) /\ \A n \in ms : ~Bears(n, q, z)
        BY <1>1, <1>4, <1>7, <3>3 DEF Carries, Bears
      <4>2. QuietFor(q, z)
        BY <1>2, <2>1, <2>2, <2>3, <3>2, <4>1 DEF QuietFor
      <4> QED BY <3>1, <4>2, QuietNotice
    <3>4. CASE z = "plan"
      <4>1. q = p /\ ms = {m}
        BY <1>12, <2>4, <3>4
      <4>2. Carries(h, q, z)
        BY <1>1, <3>4 DEF Carries, Concerned
      <4>3. OnItsWay(h, q, z)
        BY <3>1, <4>2 DEF TrueNotice
      <4>4. \A n \in outbox' : Bears(n, q, z) => n = m
        BY <1>1, <2>2, <4>1, <4>3 DEF OnItsWay, Beside
      <4>5. m \in outbox' /\ Bears(m, q, z)
        BY <1>4, <2>2, <3>4, <4>1 DEF Bears
      <4>6. (OnItsWay(h, q, z))'
        <5>1. orders'[h].template = "plan_change_rejected" => orders'[h].says = Now(q, z)'
          BY <1>1, <1>5, <2>3, <4>3 DEF OnItsWay
        <5>2. \A g \in Handlers : (Carries(g, q, z))' => g = h
          BY <3>2, <4>3 DEF OnItsWay
        <5>3. orders'[h].at \in {"plan", "clear"} /\ orders'[h].says = m.says
          BY <1>4, <1>5, <1>6
        <5>4. /\ \E n \in outbox' : (Bears(n, q, z))'
              /\ \A n \in outbox' : (Bears(n, q, z))' => n.says = orders'[h].says
          BY <4>4, <4>5, <5>3 DEF Bears
        <5> QED BY <5>1, <5>2, <5>3, <5>4 DEF OnItsWay, Beside
      <4>7. \A g \in Handlers : (Carries(g, q, z))' => g = h
        BY <3>2, <4>3 DEF OnItsWay
      <4>8. (Carries(h, q, z))'
        BY <3>2, <4>2
      <4> QED BY <3>4, <4>6, <4>7, <4>8 DEF TrueNotice
    <3> QED BY <3>3, <3>4
  <2> QED BY <2>4 DEF Notices
<1>14. PostTyped'
  BY <1>2 DEF MailerInv, MailerTyped, PostTyped
<1> QED BY <1>11, <1>13, <1>14, PassesKeeps

LEMMA WelcomeKeeps ==
  ASSUME MailerInv, NEW h \in Handlers, Welcome(h) PROVE MailerInv'
<1>0. orders[h] \in OrderType /\ OrderFits(orders[h]) /\ vow \in VowType
  BY DEF MailerInv, MailerTyped, OrderTyped, HistTyped
<1>1. orders[h].at = "welcome" /\ orders[h].about = "event" /\ orders[h].who \in People
  BY <1>0 DEF Welcome, Waits, OrderFits
<1> DEFINE m == SendWelcome(h)
           o == [orders[h] EXCEPT !.at = "mailing"]
<1>2. /\ m \in MailType /\ m.template = "welcome" /\ m.to = orders[h].who /\ m.about = "event"
      /\ m.began = orders[h].began /\ m.by = h
  BY <1>0, <1>1 DEF SendWelcome, Letter, MailType, OrderType, Templates, Says
<1>3. /\ orders' = [orders EXCEPT ![h] = o] /\ o \in OrderType
      /\ o.at = "mailing" /\ o.who = orders[h].who /\ o.about = orders[h].about /\ o.says = orders[h].says
      /\ o.template = orders[h].template /\ o.began = orders[h].began /\ orders'[h] = o
  BY MovesOn DEF Welcome, Stages
<1> HIDE DEF o
<1>4. OrderFits(o) /\ ~WillAlert(o)
  BY <1>1, <1>3 DEF OrderFits, WillAlert
<1>5. outbox' = outbox \union {m} /\ UNCHANGED <<post, vow>> /\ Same
  BY DEF Welcome
<1> HIDE DEF m
<1>6. MailFits(m, [orders EXCEPT ![h] = o])
  BY <1>1, <1>2, <1>3, NobodyHandles DEF MailFits, Subjects, Kinds
<1>7. HandlerStep(h, o, {m}) /\ Fresh(h, o, {m})
  BY <1>1, <1>2, <1>3, <1>4, <1>5, <1>6 DEF HandlerStep, Fresh
<1>8. Passes(h, o, {m})
  BY <1>0, <1>1, <1>2, <1>3, <1>4, <1>5, <1>7 DEF Passes, Same, Wanted, Critical, Kinds
<1> QED BY <1>1, <1>2, <1>3, <1>5, <1>8, EventKeeps
-----------------------------------------------------------------------------
(* Links and codes.                                                         *)

\* Nothing about the links of w has changed, save that more of them were handed over.
LEMMA ReachesStill ==
  ASSUME NEW w, Reaches(w), Lives(w)' = Lives(w), \A t \in Lives(w) : Mailed(t) => (Mailed(t))',
         inbox \subseteq inbox', w \in vow'.told <=> w \in vow.told,
         \A g \in Handlers : /\ (Asks(g, w))' <=> Asks(g, w)
                             /\ Asks(g, w) => orders'[g] = orders[g]
  PROVE  (Reaches(w))'
<1>1. \/ \A t \in (Lives(w))' : t.n \in inbox' \/ (Mailed(t))'
      \/ w \notin vow'.told /\ \A h \in Handlers : (Asks(h, w))' => orders'[h].at = "kill"
  BY DEF Reaches
<1>2. w \in vow'.told \/ (\E h \in Handlers : (Asks(h, w))' /\ orders'[h].at = "mailing") =>
        (Lives(w))' # {} \/ \E h \in Handlers : (Asks(h, w))' /\ orders'[h].at = "create"
  BY DEF Reaches
<1> QED BY <1>1, <1>2 DEF Reaches

LEMMA KillOldKeeps ==
  ASSUME MailerInv, NEW h \in Handlers, KillOld(h) PROVE MailerInv'
<1>0. orders[h] \in OrderType /\ OrderFits(orders[h]) /\ vow \in VowType
  BY DEF MailerInv, MailerTyped, OrderTyped, HistTyped
<1>1. orders[h].at = "kill" /\ orders[h].about \in {"reset", "code"} /\ orders[h].who \in People
  BY <1>0 DEF KillOld, Waits, OrderFits
<1> PICK k \in Kinds, p \in People : k = orders[h].about /\ p = orders[h].who
  BY <1>1 DEF Kinds
<1> DEFINE Kept(t) == [t EXCEPT !.live = @ /\ (t.kind # k \/ t.to # p)]
           o == [orders[h] EXCEPT !.at = "create"]
<1>2. post' = [post EXCEPT !.tokens = {Kept(t) : t \in post.tokens}] /\ UNCHANGED <<outbox, vow>> /\ Same
  BY DEF KillOld
<1>3. /\ orders' = [orders EXCEPT ![h] = o] /\ o \in OrderType
      /\ o.at = "create" /\ o.who = p /\ o.about = k /\ o.says = orders[h].says
      /\ o.template = orders[h].template /\ o.began = orders[h].began /\ orders'[h] = o
  <2>1. Moves(h, "create") /\ "create" \in Stages
    BY DEF KillOld, Stages
  <2> QED BY <2>1, MovesOn
<1> HIDE DEF o
<1>4. \A t \in TokenType : /\ Kept(t) \in TokenType /\ Kept(t).kind = t.kind /\ Kept(t).to = t.to /\ Kept(t).n = t.n
                           /\ Kept(t).live <=> t.live /\ (t.kind # k \/ t.to # p)
                           /\ (t.kind # k \/ t.to # p) => Kept(t) = t
  BY DEF TokenType
<1> HIDE DEF Kept
<1>5. post.tokens \subseteq TokenType /\ IsFiniteSet(post.tokens) /\ post \in PostType
  BY DEF MailerInv, MailerTyped, PostTyped, PostType
<1>6. IsFiniteSet({Kept(t) : t \in post.tokens})
  <2> DEFINE f == [t \in post.tokens |-> Kept(t)]
  <2>1. f \in Surjection(post.tokens, {Kept(t) : t \in post.tokens})
    BY DEF Surjection
  <2> QED BY <1>5, <2>1, FS_Surjection
<1>7. /\ post'.tokens = {Kept(t) : t \in post.tokens} /\ SamePost /\ PostTyped'
      /\ post'.mails = post.mails /\ post'.alerts = post.alerts
  <2>1. {Kept(t) : t \in post.tokens} \subseteq TokenType
    BY <1>4, <1>5
  <2> DEFINE ts == {Kept(t) : t \in post.tokens}
  <2>2. post' = [post EXCEPT !.tokens = ts] /\ ts \subseteq TokenType /\ IsFiniteSet(ts)
    BY <1>2, <1>6, <2>1
  <2> HIDE DEF ts
  <2>3. post'.tokens = ts /\ SamePost /\ PostTyped' /\ post'.mails = post.mails /\ post'.alerts = post.alerts
    BY <1>5, <2>2 DEF MailerInv, MailerTyped, PostTyped, PostType, SamePost
  <2> QED BY <2>3 DEF ts
<1>8. OrderFits(o) /\ ~WillAlert(o) /\ o.about \notin Subjects /\ orders[h].about \notin Subjects
  BY <1>1, <1>3 DEF OrderFits, WillAlert, Kinds, Subjects
<1>9. HandlerStep(h, o, {}) /\ Fresh(h, o, {})
  BY <1>1, <1>2, <1>3, <1>8 DEF HandlerStep, Fresh
<1>10. OrderTyped' /\ MailTyped' /\ HistTyped'
  BY <1>2, <1>9, HandlerStepTyped DEF MailerInv, MailerTyped, HistTyped, Same
<1>11. Unasked'
  <2>1. o.began \in Nat /\ o.began <= ordered' /\ ordered' = ordered /\ AlertWanted(o) /\ vow' = vow
    BY <1>0, <1>2, <1>3, <1>8 DEF OrderType, MailerInv, Unasked, Same, AlertWanted
  <2> QED BY <1>7, <1>9, <2>1, UnaskedStep DEF MailerInv
<1>12. Notices'
  <2>1. last' = last /\ vow.blurred \subseteq vow'.blurred
    BY <1>2 DEF Same
  <2> QED BY <1>7, <1>8, <1>9, <2>1, NoticesQuiet DEF MailerInv
<1>13. Boxes'
  <2>0. \A g \in Handlers : orders'[g] = IF g = h THEN o ELSE orders[g]
    BY <1>3 DEF MailerInv, MailerTyped, OrderTyped
  <2>1. ASSUME NEW w \in Kinds \X People, w \notin vow'.upset PROVE (Reaches(w))'
    <3>1. Reaches(w)
      BY <1>2, <2>1 DEF MailerInv, Boxes
    <3>2. CASE w[1] = k /\ w[2] = p
      <4>1. (Lives(w))' = {}
        BY <1>4, <1>5, <1>7, <3>2 DEF Lives
      <4>2. (Asks(h, w))' /\ orders'[h].at = "create"
        BY <1>3, <3>2 DEF Asks
      <4> QED BY <4>1, <4>2 DEF Reaches
    <3>3. CASE ~(w[1] = k /\ w[2] = p)
      <4>1. (Lives(w))' = Lives(w)
        BY <1>4, <1>5, <1>7, <3>3 DEF Lives
      <4>2. \A g \in Handlers : /\ (Asks(g, w))' <=> Asks(g, w)
                                /\ Asks(g, w) => orders'[g] = orders[g]
        BY <1>3, <2>0, <3>3 DEF Asks
      <4>3. \A t \in Lives(w) : Mailed(t) => (Mailed(t))'
        BY <1>2 DEF Mailed
      <4>4. inbox \subseteq inbox' /\ (w \in vow'.told <=> w \in vow.told)
        BY <1>2 DEF Same
      <4> QED BY <3>1, <4>1, <4>2, <4>3, <4>4, ReachesStill
    <3> QED BY <3>2, <3>3
  <2> QED BY <2>1 DEF Boxes
<1> QED BY <1>7, <1>10, <1>11, <1>12, <1>13 DEF MailerInv, MailerTyped

LEMMA CreateTokenKeeps ==
  ASSUME MailerInv, NEW h \in Handlers, CreateToken(h) PROVE MailerInv'
<1>0. orders[h] \in OrderType /\ OrderFits(orders[h]) /\ vow \in VowType
  BY DEF MailerInv, MailerTyped, OrderTyped, HistTyped
<1>1. orders[h].at = "create" /\ orders[h].about \in Kinds /\ orders[h].who \in People
  BY <1>0 DEF CreateToken, Waits, OrderFits, Kinds
<1> PICK k \in Kinds, p \in People : k = orders[h].about /\ p = orders[h].who
  BY <1>1
<1> PICK n : n = Cardinality(post.tokens) + 1
  OBVIOUS
<1> PICK tk : tk = [n |-> n, kind |-> k, to |-> p, live |-> TRUE]
  OBVIOUS
<1> PICK m : m = CASE k = "reset" -> SendPasswordReset(h, n)
                   [] k = "code" -> SendTwoFactorCode(h, n)
                   [] k = "invite" -> SendInvitation(h, n)
  OBVIOUS
<1> DEFINE o == [orders[h] EXCEPT !.at = "mailing"]
<1>2. /\ post' = [post EXCEPT !.tokens = @ \union {tk}]
      /\ outbox' = outbox \union {m} /\ vow' = vow /\ Same
  BY DEF CreateToken
<1>3. /\ orders' = [orders EXCEPT ![h] = o] /\ o \in OrderType
      /\ o.at = "mailing" /\ o.who = p /\ o.about = k /\ o.says = orders[h].says
      /\ o.template = orders[h].template /\ o.began = orders[h].began /\ orders'[h] = o
  <2>1. Moves(h, "mailing") /\ "mailing" \in Stages
    BY DEF CreateToken, Stages
  <2> QED BY <2>1, MovesOn
<1> HIDE DEF o
<1>4. post \in PostType /\ IsFiniteSet(post.tokens) /\ n \in Nat
  BY FS_CardinalityType DEF MailerInv, MailerTyped, PostTyped
<1>5. tk \in TokenType /\ tk.kind = k /\ tk.to = p /\ tk.n = n /\ tk.live
  BY <1>4 DEF TokenType
<1>6. /\ m \in MailType /\ m.template \in Critical \ {"welcome"} /\ m.to = p /\ m.about = k
      /\ m.began = orders[h].began /\ m.by = h /\ m.n = n
  <2>1. k \in Abouts /\ k \in {"reset", "code", "invite"}
    BY DEF Abouts, Kinds
  <2> QED BY <1>0, <1>4, <2>1 DEF SendPasswordReset, SendTwoFactorCode, SendInvitation, Letter, MailType, OrderType,
                  Templates, Says, Critical
<1>7. /\ post'.tokens = post.tokens \union {tk} /\ SamePost /\ PostTyped'
      /\ post'.mails = post.mails /\ post'.alerts = post.alerts
  <2>1. IsFiniteSet(post.tokens \union {tk})
    BY <1>4, FS_AddElement
  <2> QED BY <1>2, <1>4, <1>5, <2>1 DEF MailerInv, MailerTyped, PostTyped, PostType, SamePost
<1>8. OrderFits(o) /\ ~WillAlert(o) /\ o.about \notin Subjects /\ orders[h].about \notin Subjects
  BY <1>1, <1>3 DEF OrderFits, WillAlert, Kinds, Subjects
<1>9. HandlerStep(h, o, {m}) /\ Fresh(h, o, {m})
  <2>1. MailFits(m, [orders EXCEPT ![h] = o])
    BY <1>3, <1>6, NobodyHandles DEF MailFits, Subjects, Kinds
  <2> QED BY <1>1, <1>2, <1>3, <1>6, <1>8, <2>1 DEF HandlerStep, Fresh
<1>10. OrderTyped' /\ MailTyped' /\ HistTyped'
  BY <1>2, <1>9, HandlerStepTyped DEF MailerInv, MailerTyped, HistTyped, Same
<1>11. Unasked'
  <2>1. o.began \in Nat /\ o.began <= ordered' /\ ordered' = ordered /\ AlertWanted(o) /\ vow' = vow
    BY <1>0, <1>2, <1>3, <1>8 DEF OrderType, MailerInv, Unasked, Same, AlertWanted
  <2>2. \A x \in {m} : x.began \in Nat /\ x.began <= ordered' /\ Wanted(x)
    BY <1>3, <1>6, <2>1 DEF Wanted
  <2> QED BY <1>7, <1>9, <2>1, <2>2, UnaskedStep DEF MailerInv
<1>12. Notices'
  <2>1. last' = last /\ vow.blurred \subseteq vow'.blurred
    BY <1>2 DEF Same
  <2>2. \A x \in {m} : x.about \notin Subjects
    BY <1>3, <1>6, <1>8
  <2> QED BY <1>7, <1>8, <1>9, <2>1, <2>2, NoticesQuiet DEF MailerInv
<1>13. Boxes'
  <2>0. \A g \in Handlers : orders'[g] = IF g = h THEN o ELSE orders[g]
    BY <1>3 DEF MailerInv, MailerTyped, OrderTyped
  <2>a. \A t : Mailed(t) => (Mailed(t))'
    BY <1>2 DEF Mailed
  <2>1. ASSUME NEW w \in Kinds \X People, w \notin vow'.upset PROVE (Reaches(w))'
    <3>1. Reaches(w)
      BY <1>2, <2>1 DEF MailerInv, Boxes
    <3>2. CASE w[1] = k /\ w[2] = p
      <4>1. (Lives(w))' = Lives(w) \union {tk}
        BY <1>5, <1>7, <3>2 DEF Lives
      <4>2. Asks(h, w) /\ orders[h].at = "create"
        BY <1>1, <3>2 DEF Asks
      <4>3. \A t \in Lives(w) : t.n \in inbox \/ Mailed(t)
        BY <3>1, <4>2 DEF Reaches
      <4>4. (Mailed(tk))'
        BY <1>2, <1>5, <1>6 DEF Mailed
      <4>5. inbox' = inbox
        BY <1>2 DEF Same
      <4> QED BY <2>a, <4>1, <4>3, <4>4, <4>5 DEF Reaches
    <3>3. CASE ~(w[1] = k /\ w[2] = p)
      <4>1. (Lives(w))' = Lives(w)
        BY <1>5, <1>7, <3>3 DEF Lives
      <4>2. \A g \in Handlers : /\ (Asks(g, w))' <=> Asks(g, w)
                                /\ Asks(g, w) => orders'[g] = orders[g]
        BY <1>3, <2>0, <3>3 DEF Asks
      <4>4. inbox \subseteq inbox' /\ (w \in vow'.told <=> w \in vow.told)
        BY <1>2 DEF Same
      <4> QED BY <2>a, <3>1, <4>1, <4>2, <4>4, ReachesStill
    <3> QED BY <3>2, <3>3
  <2> QED BY <2>1 DEF Boxes
<1> QED BY <1>7, <1>10, <1>11, <1>12, <1>13 DEF MailerInv, MailerTyped
\* A link is followed or a code typed: a handler begins with o.
StartsBy(o) ==
  /\ o \in OrderType /\ OrderFits(o)
  /\ o.at \in {"password", "factor", "welcome"} /\ o.about \in {"event", "factor"}
Began(o) == [o EXCEPT !.began = ordered + 1]

\* Whoever o is about is blurred when somebody else is about it.
Beaten(o) ==
  o.about \in Subjects /\ UnderWayAlready(o) => \A p \in Concerned(o) : <<p, o.about>> \in vow'.blurred

LEMMA UseFacts ==
  ASSUME MailerInv, NEW h \in Handlers, NEW t \in post.tokens, NEW o, StartsBy(o), Uses(h, t, o)
  PROVE  LET q == Began(o)
         IN /\ q \in OrderType /\ OrderFits(q) /\ q.at = o.at /\ q.about = o.about /\ q.who = o.who
            /\ q.began = ordered + 1 /\ orders[h] = NoOrder /\ HandlerStep(h, q, {}) /\ Fresh(h, q, {})
            /\ Concerned(q) = Concerned(o) /\ (UnderWayAlready(q) <=> UnderWayAlready(o))
            /\ vow' \in VowType /\ vow'.told = vow.told \ {<<t.kind, t.to>>} /\ vow.upset \subseteq vow'.upset
            /\ <<t.kind, t.to>> \notin vow'.upset => ~Asking(t.kind, t.to, h)
            /\ vow'.offSince = vow.offSince /\ vow.blurred \subseteq vow'.blurred
            /\ Beaten(o)
            /\ ordered' = ordered + 1 /\ ordered \in Nat /\ UNCHANGED <<last, inbox, mishaps, outbox>>
<1> PICK w : w = <<t.kind, t.to>>
  OBVIOUS
<1> DEFINE q == Began(o)
           v == [vow EXCEPT !.told = @ \ {w}, !.upset = @ \union {x \in {w} : Asking(t.kind, t.to, h)}]
<1>1. vow \in VowType /\ ordered \in Nat /\ t \in TokenType
  BY PostFacts DEF MailerInv, MailerTyped, HistTyped
<1>2. /\ q \in OrderType /\ q.at = o.at /\ q.about = o.about /\ q.who = o.who /\ q.template = o.template
      /\ q.says = o.says /\ q.began = ordered + 1
  BY <1>1 DEF Began, StartsBy, OrderType
<1>3. vow' = Overlapped(v, o) /\ ordered' = ordered + 1 /\ UNCHANGED <<last, inbox, mishaps, outbox>>
  BY DEF Uses, Ordered
<1>4. orders[h].at = "idle" /\ orders' = [orders EXCEPT ![h] = q]
  BY DEF Uses, Began
<1>5. orders[h] = NoOrder
  BY <1>4 DEF MailerInv, MailerTyped, OrderTyped, OrderFits
<1>6. w \in Kinds \X People
  BY <1>1 DEF TokenType
<1>7. /\ v \in VowType /\ v.told = vow.told \ {w} /\ vow.upset \subseteq v.upset
      /\ v.offSince = vow.offSince /\ v.blurred = vow.blurred
      /\ w \notin v.upset => ~Asking(t.kind, t.to, h)
  BY <1>1, <1>6 DEF VowType
<1> HIDE DEF v, q
<1>8. o.about \in {"user", "factor"} => o.who \in People
  BY DEF StartsBy, OrderFits
<1>9. /\ vow' \in VowType /\ vow'.told = v.told /\ vow'.upset = v.upset
      /\ vow'.offSince = v.offSince /\ v.blurred \subseteq vow'.blurred
      /\ o.about \in Subjects /\ UnderWayAlready(o) =>
           \A p \in Concerned(o) : <<p, o.about>> \in vow'.blurred
  BY <1>3, <1>7, <1>8, OverlappedTyped DEF StartsBy
<1>10. OrderFits(q) /\ q.at # "idle"
  BY <1>2 DEF StartsBy, OrderFits
<1>11. HandlerStep(h, q, {}) /\ Fresh(h, q, {})
  BY <1>2, <1>3, <1>4, <1>10 DEF HandlerStep, Fresh
<1>12. Concerned(q) = Concerned(o) /\ (UnderWayAlready(q) <=> UnderWayAlready(o))
  BY <1>2 DEF Concerned, UnderWayAlready
<1>13. Beaten(o)
  BY <1>9 DEF Beaten
<1> QED BY <1>1, <1>2, <1>3, <1>5, <1>7, <1>9, <1>10, <1>11, <1>12, <1>13 DEF q

LEMMA UsesKeeps ==
  ASSUME MailerInv, NEW h \in Handlers, NEW t \in post.tokens, NEW o, StartsBy(o), Uses(h, t, o),
         PostTyped', post'.tokens = (post.tokens \ {t}) \union {[t EXCEPT !.live = FALSE]},
         post'.mails = post.mails, post'.alerts = post.alerts, Notices'
  PROVE  MailerInv'
<1> DEFINE q == Began(o)
<1>1. /\ q \in OrderType /\ OrderFits(q) /\ q.at = o.at /\ q.about = o.about /\ q.who = o.who
      /\ q.began = ordered + 1 /\ orders[h] = NoOrder /\ HandlerStep(h, q, {}) /\ Fresh(h, q, {})
      /\ vow' \in VowType /\ vow'.told = vow.told \ {<<t.kind, t.to>>} /\ vow.upset \subseteq vow'.upset
      /\ <<t.kind, t.to>> \notin vow'.upset => ~Asking(t.kind, t.to, h)
      /\ vow'.offSince = vow.offSince
      /\ ordered' = ordered + 1 /\ ordered \in Nat /\ UNCHANGED <<last, inbox, mishaps, outbox>>
  BY UseFacts
<1> HIDE DEF q
<1>2. OrderTyped' /\ MailTyped'
  BY <1>1, HandlerStepTyped DEF MailerInv
<1>3. HistTyped'
  BY <1>1 DEF MailerInv, MailerTyped, HistTyped
<1>4. Unasked'
  <2>1. AlertWanted(q)
    BY <1>1 DEF AlertWanted, WillAlert, StartsBy
  <2>2. q.began \in Nat /\ q.began <= ordered'
    BY <1>1
  <2> QED BY <1>1, <2>1, <2>2, UnaskedStep DEF MailerInv
<1>5. Boxes'
  <2>0. \A g \in Handlers : orders'[g] = IF g = h THEN q ELSE orders[g]
    BY <1>1 DEF HandlerStep, MailerInv, MailerTyped, OrderTyped
  <2>1. \A w \in Kinds \X People : ~Asks(h, w) /\ ~(Asks(h, w))'
    BY <1>1, <2>0 DEF Asks, NoOrder, Kinds, StartsBy
  <2>2. ASSUME NEW w \in Kinds \X People, w \notin vow'.upset PROVE (Reaches(w))'
    <3>1. Reaches(w)
      BY <1>1, <2>2 DEF MailerInv, Boxes
    <3>2. CASE w = <<t.kind, t.to>>
      <4>1. w \notin vow'.told
        BY <1>1, <3>2
      <4>2. \A g \in Handlers : ~(Asks(g, w))'
        BY <1>1, <2>0, <2>1, <2>2, <3>2 DEF Asks, Asking
      <4> QED BY <4>1, <4>2 DEF Reaches
    <3>3. CASE w # <<t.kind, t.to>>
      <4>1. ~(t.kind = w[1] /\ t.to = w[2])
        BY <3>3
      <4>2. (Lives(w))' = Lives(w)
        <5>1. [t EXCEPT !.live = FALSE].live = FALSE
          BY PostFacts DEF TokenType
        <5> QED BY <4>1, <5>1 DEF Lives
      <4>3. \A g \in Handlers : /\ (Asks(g, w))' <=> Asks(g, w)
                                /\ Asks(g, w) => orders'[g] = orders[g]
        BY <2>0, <2>1 DEF Asks
      <4>4. \A u \in Lives(w) : Mailed(u) => (Mailed(u))'
        BY <1>1 DEF Mailed
      <4>5. inbox \subseteq inbox' /\ (w \in vow'.told <=> w \in vow.told)
        BY <1>1, <3>3
      <4> QED BY <3>1, <4>2, <4>3, <4>4, <4>5, ReachesStill
    <3> QED BY <3>2, <3>3
  <2> QED BY <2>2 DEF Boxes
<1> QED BY <1>2, <1>3, <1>4, <1>5 DEF MailerInv, MailerTyped

\* A token that is good no more.
LEMMA SpentTyped ==
  ASSUME MailerInv, NEW t \in post.tokens
  PROVE  /\ Spent(t) \in PostType /\ IsFiniteSet(Spent(t).tokens)
         /\ Spent(t).tokens = (post.tokens \ {t}) \union {[t EXCEPT !.live = FALSE]}
         /\ Spent(t).active = post.active /\ Spent(t).factor = post.factor /\ Spent(t).org = post.org
         /\ Spent(t).plan = post.plan /\ Spent(t).account = post.account /\ Spent(t).mails = post.mails
         /\ Spent(t).alerts = post.alerts /\ Spent(t).pending = post.pending
<1>1. post \in PostType /\ IsFiniteSet(post.tokens)
  BY DEF MailerInv, MailerTyped, PostTyped
<1> DEFINE u == [t EXCEPT !.live = FALSE]
           ts == (post.tokens \ {t}) \union {u}
<1>2. u \in TokenType
  BY <1>1, PostFacts DEF TokenType
<1>3. IsFiniteSet(ts)
  <2>1. IsFiniteSet(post.tokens \ {t})
    BY <1>1, FS_RemoveElement
  <2> QED BY <2>1, FS_AddElement
<1>4. ts \subseteq TokenType
  BY <1>2, PostFacts
<1>5. Spent(t) = [post EXCEPT !.tokens = ts]
  BY DEF Spent
<1> HIDE DEF ts
<1>6. /\ Spent(t) \in PostType /\ Spent(t).tokens = ts
      /\ Spent(t).active = post.active /\ Spent(t).factor = post.factor /\ Spent(t).org = post.org
      /\ Spent(t).plan = post.plan /\ Spent(t).account = post.account /\ Spent(t).mails = post.mails
      /\ Spent(t).alerts = post.alerts /\ Spent(t).pending = post.pending
  BY <1>1, <1>4, <1>5 DEF PostType
<1> QED BY <1>3, <1>6 DEF ts

LEMMA UseSteps ==
  ASSUME MailerInv, NEW h \in Handlers, NEW t \in post.tokens
  PROVE  /\ FollowReset(h, t) => MailerInv'
         /\ TypeCode(h, t) => MailerInv'
         /\ FollowInvitation(h, t) => MailerInv'
<1>0. t \in TokenType
  BY PostFacts
<1>1. ASSUME NEW o, StartsBy(o), Uses(h, t, o), post' = Spent(t) PROVE MailerInv'
  <2> DEFINE q == Began(o)
  <2>1. /\ q \in OrderType /\ OrderFits(q) /\ q.at = o.at /\ q.about = o.about /\ q.who = o.who
        /\ orders[h] = NoOrder /\ HandlerStep(h, q, {})
        /\ Concerned(q) = Concerned(o) /\ (UnderWayAlready(q) <=> UnderWayAlready(o))
        /\ vow.blurred \subseteq vow'.blurred
        /\ Beaten(o) /\ last' = last
    <3>1. /\ OrderFits(q) /\ orders[h] = NoOrder /\ HandlerStep(h, q, {})
          /\ Concerned(q) = Concerned(o) /\ (UnderWayAlready(q) <=> UnderWayAlready(o))
          /\ vow.blurred \subseteq vow'.blurred /\ Beaten(o) /\ last' = last
      BY <1>1, UseFacts
    <3>2. q \in OrderType
      BY <1>1, UseFacts
    <3>3. q.at = o.at /\ q.about = o.about /\ q.who = o.who
      BY <1>1, <3>2 DEF Began, StartsBy, OrderType
    <3> QED BY <3>1, <3>2, <3>3
  <2> HIDE DEF q
  <2>2. SamePost /\ PostTyped'
    BY <1>1, SpentTyped DEF SamePost, PostTyped, MailerInv, MailerTyped
  <2>3. Notices'
    <3>1. q.about \in Subjects =>
           /\ q.at \in {"factor", "flip", "flip-silently", "open", "suspend", "requester"}
           /\ q.about = "user" => q.who \in post.account
           /\ q.about = "plan" /\ q.template = "plan_change_rejected" => q.says = post.plan
      BY <1>1, <2>1 DEF StartsBy, OrderFits, Subjects
    <3>2. q.about \in Subjects /\ UnderWayAlready(q) => \A p \in Concerned(q) : <<p, q.about>> \in vow'.blurred
      BY <2>1 DEF Beaten
    <3>3. orders[h].about \notin Subjects /\ q.at # "idle"
      BY <1>1, <2>1 DEF NoOrder, Subjects, StartsBy
    <3> QED BY <2>1, <2>2, <3>1, <3>2, <3>3, BeganNotices DEF MailerInv
  <2> QED BY <1>1, <2>2, <2>3, SpentTyped, UsesKeeps
<1>2. ASSUME FollowReset(h, t) PROVE MailerInv'
  <2>1. StartsBy(Order("password", t.to, "event"))
    BY <1>0 DEF StartsBy, Order, OrderOf, TokenType, OrderType, OrderFits, Stages, Abouts, Kinds, Says, Templates
  <2> QED BY <1>1, <1>2, <2>1 DEF FollowReset
<1>3. ASSUME TypeCode(h, t) PROVE MailerInv'
  <2>1. StartsBy(OrderOf("factor", t.to, "factor", "on", "none"))
    BY <1>0 DEF StartsBy, OrderOf, TokenType, OrderType, OrderFits, Stages, Abouts, Subjects, Kinds, Says, Templates
  <2> QED BY <1>1, <1>3, <2>1 DEF TypeCode
<1>4. ASSUME FollowInvitation(h, t) PROVE MailerInv'
  <2> PICK p \in People : p = t.to
    BY <1>0 DEF TokenType
  <2> DEFINE o == Order("welcome", p, "event")
             q == Began(o)
  <2>1. StartsBy(o) /\ o.about = "event"
    BY DEF StartsBy, Order, OrderOf, OrderType, OrderFits, Stages, Abouts, Kinds, Says, Templates
  <2>2. Uses(h, t, o) /\ p \notin post.account
        /\ post' = [Spent(t) EXCEPT !.account = @ \union {p}, !.active[p] = TRUE]
    BY <1>4 DEF FollowInvitation
  <2> HIDE DEF o
  <2>3. /\ q.about = "event" /\ orders[h] = NoOrder /\ HandlerStep(h, q, {})
        /\ vow.blurred \subseteq vow'.blurred /\ last' = last
    BY <2>1, <2>2, UseFacts
  <2>4. /\ PostTyped' /\ post'.tokens = (post.tokens \ {t}) \union {[t EXCEPT !.live = FALSE]}
        /\ post'.mails = post.mails /\ post'.alerts = post.alerts /\ post'.factor = post.factor
        /\ post'.org = post.org /\ post'.plan = post.plan /\ post.account \subseteq post'.account
        /\ \A r \in People \ {p} : post'.active[r] = post.active[r]
    <3> PICK sp : sp = Spent(t)
      OBVIOUS
    <3>1. /\ sp \in PostType /\ IsFiniteSet(sp.tokens)
          /\ sp.tokens = (post.tokens \ {t}) \union {[t EXCEPT !.live = FALSE]}
          /\ sp.active = post.active /\ sp.factor = post.factor /\ sp.org = post.org
          /\ sp.plan = post.plan /\ sp.account = post.account /\ sp.mails = post.mails
          /\ sp.alerts = post.alerts /\ sp.pending = post.pending
      BY SpentTyped
    <3>2. /\ post' \in PostType /\ post'.tokens = sp.tokens /\ post'.factor = sp.factor /\ post'.org = sp.org
          /\ post'.plan = sp.plan /\ post'.mails = sp.mails /\ post'.alerts = sp.alerts /\ post'.pending = sp.pending
          /\ post'.account = sp.account \union {p}
          /\ \A r \in People \ {p} : post'.active[r] = sp.active[r]
      BY <2>2, <3>1 DEF PostType
    <3> QED BY <3>1, <3>2 DEF PostTyped, MailerInv, MailerTyped
  <2> HIDE DEF q
  <2>5. Notices'
    <3>0. \A g \in Handlers : orders'[g] = IF g = h THEN q ELSE orders[g]
      BY <2>3 DEF HandlerStep, MailerInv, MailerTyped, OrderTyped
    <3>1. outbox' = outbox
      BY <2>3 DEF HandlerStep
    <3>2. \A g \in Handlers, r \in People, s \in Subjects : (Carries(g, r, s))' <=> Carries(g, r, s)
      BY <2>3, <3>0 DEF Carries, Concerned, NoOrder, Subjects
    <3>3. ASSUME NEW r \in People, NEW s \in Subjects, <<r, s>> \notin vow'.blurred
          PROVE  (TrueNotice(r, s))'
      <4>1. TrueNotice(r, s)
        BY <2>3, <3>3 DEF MailerInv, Notices
      <4>2. CASE r = p /\ s = "user"
        <5>1. Unheard(r, s)
          BY <2>2, <4>1, <4>2 DEF TrueNotice
        <5>2. (Unheard(r, s))'
          BY <2>3, <3>1, <3>2, <5>1 DEF Unheard, Bears
        <5> QED BY <5>2 DEF TrueNotice, Unheard, AtRest
      <4>3. CASE ~(r = p /\ s = "user")
        <5>1. Now(r, s)' = Now(r, s)
          BY <2>4, <4>3 DEF Now, Subjects
        <5>2. \A g \in Handlers : orders'[g] = orders[g] \/ (~Carries(g, r, s) /\ ~(Carries(g, r, s))')
          BY <2>3, <3>0, <3>2 DEF Carries, NoOrder, Subjects
        <5>3. QuietFor(r, s)
          BY <2>3, <2>4, <3>1, <5>1, <5>2 DEF QuietFor
        <5> QED BY <4>1, <5>3, QuietNotice
      <4> QED BY <4>2, <4>3
    <3> QED BY <3>3 DEF Notices
  <2> QED BY <2>1, <2>2, <2>4, <2>5, UsesKeeps
<1> QED BY <1>2, <1>3, <1>4
-----------------------------------------------------------------------------
(* A mail is answered for, or falls away with its handler.                  *)

\* Mails leave the outbox; the handlers whose mails stay are where they were.
LEMMA LeavesTyped ==
  ASSUME MailerTyped, outbox' \subseteq outbox, orders' \in [Handlers -> OrderType],
         \A g \in Handlers : OrderFits(orders'[g]),
         \A n \in outbox' : n.by # NoOne => orders'[n.by] = orders[n.by]
  PROVE  OrderTyped' /\ MailTyped'
<1>1. OrderTyped'
  BY DEF OrderTyped
<1>2. \A n \in outbox' : MailFits(n, orders')
  BY DEF MailFits, MailerTyped, MailTyped
<1>3. outbox' \subseteq MailType /\ \A m, n \in outbox' : m.by # NoOne /\ m.by = n.by => m = n
  BY DEF MailerTyped, MailTyped
<1> QED BY <1>1, <1>2, <1>3 DEF MailTyped

LEMMA LeavesUnasked ==
  ASSUME MailerInv, outbox' \subseteq outbox, post' = post, vow'.offSince = vow.offSince, ordered' = ordered,
         \A g \in Handlers : orders'[g] = orders[g] \/ (~WillAlert(orders'[g]) /\ orders'[g].began \in {0, orders[g].began})
  PROVE  Unasked'
<1>1. \A m \in outbox' : (Wanted(m))' /\ m.began <= ordered'
  BY DEF MailerInv, Unasked, Wanted
<1>2. ASSUME NEW g \in Handlers PROVE (AlertWanted(orders[g]))' /\ orders'[g].began <= ordered'
  <2>1. AlertWanted(orders[g]) /\ orders[g].began <= ordered /\ ordered \in Nat
    BY DEF MailerInv, Unasked, MailerTyped, HistTyped
  <2> QED BY <2>1 DEF AlertWanted
<1> QED BY <1>1, <1>2 DEF Unasked

\* What every answer of the provider has in common.
Answered(m) ==
  /\ m \in outbox /\ outbox' = outbox \ {m} /\ Resume(m) /\ UNCHANGED <<post, ordered>>
  /\ vow' \in VowType /\ vow'.offSince = vow.offSince /\ vow.blurred \subseteq vow'.blurred
  /\ last' \in [People -> [Subjects -> Says \union {"unsaid"}]]
  /\ inbox \subseteq inbox' /\ inbox' \subseteq Nat /\ mishaps' \in Nat
  /\ \A p \in People, s \in Subjects : <<p, s>> \notin vow'.blurred =>
       last'[p][s] = IF Bears(m, p, s) THEN m.says ELSE last[p][s]

LEMMA AnsweredTyped ==
  ASSUME MailerInv, NEW m, Answered(m)
  PROVE  /\ MailerTyped' /\ Unasked'
         /\ m \in MailType /\ MailFits(m, orders)
         /\ \A g \in Handlers : g # m.by => orders'[g] = orders[g]
         /\ m.by # NoOne => /\ m.by \in Handlers /\ orders[m.by].at = "mailing" /\ orders[m.by].about = m.about
                           /\ orders[m.by].who = m.to /\ orders'[m.by].about = "event"
<1>1. m \in MailType /\ MailFits(m, orders) /\ m.by \in Handlers \union {NoOne} /\ m \in outbox
  BY DEF MailerInv, MailerTyped, MailTyped, Answered, MailType
<1>2. orders \in [Handlers -> OrderType] /\ \A g \in Handlers : OrderFits(orders[g])
  BY DEF MailerInv, MailerTyped, OrderTyped
<1>3. m.by # NoOne => /\ m.by \in Handlers /\ orders[m.by].at = "mailing" /\ orders[m.by].about = m.about
                      /\ orders[m.by].who = m.to
  BY <1>1 DEF MailFits
<1>4. /\ orders' \in [Handlers -> OrderType]
      /\ \A g \in Handlers : g # m.by => orders'[g] = orders[g]
      /\ m.by # NoOne => /\ OrderFits(orders'[m.by]) /\ orders'[m.by].about = "event"
                         /\ ~WillAlert(orders'[m.by]) /\ orders'[m.by].began \in {0, orders[m.by].began}
  <2>1. CASE m.by = NoOne
    BY <1>2, <2>1 DEF Answered, Resume
  <2>2. CASE m.by # NoOne /\ m.template # "welcome"
    <3>1. orders' = [orders EXCEPT ![m.by] = NoOrder]
      BY <2>2 DEF Answered, Resume
    <3>2. NoOrder.about = "event" /\ NoOrder.began = 0 /\ ~WillAlert(NoOrder)
      BY DEF NoOrder, WillAlert
    <3> QED BY <1>1, <1>2, <2>2, <3>1, <3>2, RestFits
  <2>3. CASE m.by # NoOne /\ m.template = "welcome"
    <3>1. m.by \in Handlers /\ orders[m.by].about = "event" /\ m.about = "event" /\ orders[m.by] \in OrderType
      BY <1>1, <1>2, <1>3, <2>3 DEF MailFits
    <3> PICK o : o = [orders[m.by] EXCEPT !.at = "inviter"]
      OBVIOUS
    <3>2. /\ o \in OrderType /\ o.at = "inviter" /\ o.about = orders[m.by].about /\ o.who = orders[m.by].who
          /\ o.began = orders[m.by].began /\ orders' = [orders EXCEPT ![m.by] = o]
      BY <2>3, <3>1 DEF OrderType, Stages, Answered, Resume
    <3>3. OrderFits(o) /\ ~WillAlert(o)
      <4>1. o.who \in People
        BY <1>1, <1>3, <2>3, <3>2 DEF MailType
      <4> QED BY <3>1, <3>2, <4>1 DEF OrderFits, WillAlert
    <3> QED BY <1>2, <3>1, <3>2, <3>3
  <2> QED BY <2>1, <2>2, <2>3
<1>5. \A n \in outbox' : n.by # NoOne => n.by \in Handlers /\ orders'[n.by] = orders[n.by]
  BY <1>1, <1>4 DEF MailerInv, MailerTyped, MailTyped, MailType, Answered
<1>6. outbox' \subseteq outbox
  BY DEF Answered
<1>7. \A g \in Handlers : OrderFits(orders'[g])
  <2> TAKE g \in Handlers
  <2>1. CASE g = m.by
    BY <1>4, <2>1, NobodyHandles
  <2>2. CASE g # m.by
    BY <1>2, <1>4, <2>2
  <2> QED BY <2>1, <2>2
<1>8. OrderTyped' /\ MailTyped'
  BY <1>4, <1>5, <1>6, <1>7, LeavesTyped DEF MailerInv
<1>9. HistTyped' /\ PostTyped'
  BY DEF Answered, MailerInv, MailerTyped, HistTyped, PostTyped
<1>10. Unasked'
  <2>1. \A g \in Handlers : orders'[g] = orders[g] \/ (~WillAlert(orders'[g]) /\ orders'[g].began \in {0, orders[g].began})
    <3> TAKE g \in Handlers
    <3>1. CASE g = m.by
      BY <1>4, <3>1, NobodyHandles
    <3>2. CASE g # m.by
      BY <1>4, <3>2
    <3> QED BY <3>1, <3>2
  <2> QED BY <1>6, <2>1, LeavesUnasked DEF Answered
<1> QED BY <1>1, <1>3, <1>4, <1>8, <1>9, <1>10 DEF MailerTyped

LEMMA AnsweredNotices ==
  ASSUME MailerInv, NEW m, Answered(m)
  PROVE  Notices'
<1>1. /\ m \in MailType /\ MailFits(m, orders)
      /\ \A g \in Handlers : g # m.by => orders'[g] = orders[g]
      /\ m.by # NoOne => /\ m.by \in Handlers /\ orders[m.by].at = "mailing" /\ orders[m.by].about = m.about
                        /\ orders[m.by].who = m.to /\ orders'[m.by].about = "event"
  BY AnsweredTyped
<1>2. ASSUME NEW p \in People, NEW s \in Subjects
      PROVE  \A g \in Handlers : orders'[g] = orders[g] \/ (~Carries(g, p, s) /\ ~(Carries(g, p, s))')
  <2> TAKE g \in Handlers
  <2>1. CASE g # m.by
    BY <1>1, <2>1
  <2>2. CASE g = m.by
    <3>1. m.about \notin Subjects
      BY <1>1, <2>2, NobodyHandles DEF MailFits
    <3> QED BY <1>1, <2>2, <3>1, NobodyHandles DEF Carries, Subjects
  <2> QED BY <2>1, <2>2
<1>3. ASSUME NEW p \in People, NEW s \in Subjects, <<p, s>> \notin vow'.blurred
      PROVE  (TrueNotice(p, s))'
  <2>1. TrueNotice(p, s)
    BY <1>3 DEF MailerInv, Notices, Answered
  <2>2. Now(p, s)' = Now(p, s) /\ outbox' = outbox \ {m} /\ m \in outbox /\ post' = post
    BY DEF Now, Answered
  <2>3. CASE ~Bears(m, p, s)
    <3>1. last'[p][s] = last[p][s]
      BY <1>3, <2>3 DEF Answered
    <3>2. QuietFor(p, s)
      BY <1>2, <2>2, <2>3, <3>1 DEF QuietFor
    <3> QED BY <2>1, <3>2, QuietNotice
  <2>4. CASE Bears(m, p, s)
    <3>1. last'[p][s] = m.says
      BY <1>3, <2>4 DEF Answered
    <3>2. \A g \in Handlers : /\ (Carries(g, p, s))' <=> Carries(g, p, s)
                              /\ Carries(g, p, s) => orders'[g] = orders[g]
      BY <1>2 DEF Carries
    <3>3. \A g \in Handlers : Carries(g, p, s) => (OnItsWay(g, p, s))'
      <4> TAKE g \in Handlers
      <4> HAVE Carries(g, p, s)
      <4>1. OnItsWay(g, p, s) /\ orders'[g] = orders[g]
        BY <2>1, <3>2 DEF TrueNotice
      <4>2. orders[g].at \in Beside /\ m.says = orders[g].says
        BY <2>2, <2>4, <4>1 DEF OnItsWay
      <4> QED BY <2>2, <3>1, <3>2, <4>1, <4>2 DEF OnItsWay, Bears
    <3>4. (\A g \in Handlers : ~Carries(g, p, s)) => (AtRest(p, s))'
      BY <2>1, <2>2, <2>4, <3>1 DEF TrueNotice, AtRest, Bears
    <3>5. s = "user" => p \in post'.account
      BY <2>1, <2>2, <2>4 DEF TrueNotice, Unheard
    <3> QED BY <3>2, <3>3, <3>4, <3>5 DEF TrueNotice
  <2> QED BY <2>3, <2>4
<1> QED BY <1>3 DEF Notices

\* The links of everybody whom the mail was not for.
LEMMA AnsweredElse ==
  ASSUME MailerInv, NEW m, Answered(m), NEW w \in Kinds \X People, ~(w[1] = m.about /\ w[2] = m.to),
         Reaches(w), w \in vow'.told <=> w \in vow.told
  PROVE  (Reaches(w))'
<1>1. /\ m \in MailType
      /\ \A g \in Handlers : g # m.by => orders'[g] = orders[g]
      /\ m.by # NoOne => /\ m.by \in Handlers /\ orders[m.by].about = m.about
                        /\ orders[m.by].who = m.to /\ orders'[m.by].about = "event"
  BY AnsweredTyped
<1>2. (Lives(w))' = Lives(w)
  BY DEF Lives, Answered
<1>3. \A t \in Lives(w) : Mailed(t) => (Mailed(t))'
  BY DEF Lives, Mailed, Answered
<1>4. \A g \in Handlers : /\ (Asks(g, w))' <=> Asks(g, w)
                          /\ Asks(g, w) => orders'[g] = orders[g]
  <2> TAKE g \in Handlers
  <2>1. CASE g # m.by
    BY <1>1, <2>1 DEF Asks
  <2>2. CASE g = m.by
    <3>1. ~Asks(g, w) /\ ~(Asks(g, w))'
      BY <1>1, <2>2, NobodyHandles DEF Asks, Kinds
    <3> QED BY <3>1
  <2> QED BY <2>1, <2>2
<1>5. inbox \subseteq inbox'
  BY DEF Answered
<1> QED BY <1>2, <1>3, <1>4, <1>5, ReachesStill
LEMMA ToldFacts ==
  ASSUME NEW m \in MailType
  PROVE  /\ Told(m) \subseteq Kinds \X People
         /\ \A w : w \in Told(m) <=> m.about \in Kinds /\ w = <<m.about, m.to>>
  BY DEF Told, MailType, Kinds

LEMMA MissedFacts ==
  ASSUME MailerInv, NEW m \in MailType
  PROVE  /\ Missed(m) \in VowType /\ Missed(m).told = vow.told /\ Missed(m).upset = vow.upset
         /\ Missed(m).offSince = vow.offSince /\ vow.blurred \subseteq Missed(m).blurred
         /\ \A p, s : Bears(m, p, s) /\ s \in Subjects => <<p, s>> \in Missed(m).blurred
<1> PICK v, ps, s : v = Missed(m) /\ ps = {m.to} /\ s = m.about
  OBVIOUS
<1>1. vow \in VowType /\ ps \in SUBSET People
  BY DEF MailerInv, MailerTyped, HistTyped, MailType
<1>2. CASE s \in Subjects
  <2>1. v = Blur(vow, ps, s)
    BY <1>2 DEF Missed
  <2>2. /\ v \in VowType /\ v.told = vow.told /\ v.upset = vow.upset
        /\ v.offSince = vow.offSince /\ v.blurred = vow.blurred \union (ps \X {s})
    BY <1>1, <1>2, <2>1, Blurs
  <2> QED BY <2>2 DEF Bears
<1>3. CASE s \notin Subjects
  BY <1>1, <1>3 DEF Missed, Bears
<1> QED BY <1>2, <1>3

LEMMA HandKeeps ==
  ASSUME MailerInv, NEW m \in outbox, Hand(m) PROVE MailerInv'
<1>0. m \in MailType /\ MailFits(m, orders) /\ vow \in VowType
  BY DEF MailerInv, MailerTyped, MailTyped, HistTyped
<1>1. /\ vow' \in VowType /\ vow'.told = vow.told \union Told(m) /\ vow'.upset = vow.upset
      /\ vow'.offSince = vow.offSince /\ vow'.blurred = vow.blurred
  BY <1>0, ToldFacts DEF Hand, VowType
<1>2. /\ last' \in [People -> [Subjects -> Says \union {"unsaid"}]]
      /\ \A p \in People, s \in Subjects : last'[p][s] = IF Bears(m, p, s) THEN m.says ELSE last[p][s]
  <2>0. last \in [People -> [Subjects -> Says \union {"unsaid"}]] /\ m.to \in People /\ m.says \in Says
    BY <1>0 DEF MailerInv, MailerTyped, HistTyped, MailType
  <2>1. CASE m.about \notin Subjects
    BY <2>0, <2>1 DEF Hand, Bears
  <2>2. CASE m.about \in Subjects
    <3> DEFINE row == [last[m.to] EXCEPT ![m.about] = m.says]
    <3>1. /\ row \in [Subjects -> Says \union {"unsaid"}]
          /\ \A s \in Subjects : row[s] = IF s = m.about THEN m.says ELSE last[m.to][s]
      BY <2>0, <2>2
    <3>2. last' = [last EXCEPT ![m.to] = row]
      BY <2>2 DEF Hand
    <3> HIDE DEF row
    <3> QED BY <2>0, <2>2, <3>1, <3>2 DEF Bears
  <2> QED BY <2>1, <2>2
<1>3. /\ inbox \subseteq inbox' /\ inbox' \subseteq Nat /\ mishaps' \in Nat
      /\ m.about \in Kinds => m.n \in inbox'
  <2>1. inbox \subseteq Nat /\ mishaps \in Nat /\ m.n \in Nat
    BY <1>0 DEF MailerInv, MailerTyped, HistTyped, MailType
  <2> QED BY <1>0, <2>1, ToldFacts DEF Hand
<1>4. Answered(m)
  BY <1>1, <1>2, <1>3 DEF Answered, Hand, Took
<1>5. /\ MailerTyped' /\ Unasked'
      /\ \A g \in Handlers : g # m.by => orders'[g] = orders[g]
      /\ m.by # NoOne => /\ m.by \in Handlers /\ orders[m.by].at = "mailing" /\ orders[m.by].about = m.about
                        /\ orders[m.by].who = m.to /\ orders'[m.by].about = "event"
  BY <1>4, AnsweredTyped
<1>6. ASSUME NEW w \in Kinds \X People, w \notin vow'.upset PROVE (Reaches(w))'
  <2>1. Reaches(w)
    BY <1>1, <1>6 DEF MailerInv, Boxes
  <2>2. CASE ~(w[1] = m.about /\ w[2] = m.to)
    <3>1. w \in vow'.told <=> w \in vow.told
      BY <1>0, <1>1, <2>2, ToldFacts
    <3> QED BY <1>4, <2>1, <2>2, <3>1, AnsweredElse
  <2>3. CASE w[1] = m.about /\ w[2] = m.to
    <3>1. m.about \in Kinds /\ m.by # NoOne
      BY <1>0, <2>3 DEF MailFits
    <3>2. m.by \in Handlers /\ Asks(m.by, w) /\ orders[m.by].at = "mailing"
      BY <1>5, <2>3, <3>1 DEF Asks
    <3>3. \A t \in Lives(w) : t.n \in inbox \/ Mailed(t)
      BY <2>1, <3>2 DEF Reaches
    <3>4. Lives(w) # {} \/ \E g \in Handlers : Asks(g, w) /\ orders[g].at = "create"
      BY <2>1, <3>2 DEF Reaches
    <3>5. (Lives(w))' = Lives(w)
      BY <1>4 DEF Lives, Answered
    <3>6. \A t \in (Lives(w))' : t.n \in inbox' \/ (Mailed(t))'
      <4> TAKE t \in (Lives(w))'
      <4>1. CASE t.n \in inbox
        BY <1>3, <4>1
      <4>2. CASE \E n \in outbox : n # m /\ n.about = t.kind /\ n.to = t.to /\ n.n = t.n
        BY <1>4, <4>2 DEF Mailed, Answered
      <4>3. CASE m.n = t.n
        BY <1>3, <3>1, <4>3
      <4> QED BY <3>3, <3>5, <4>1, <4>2, <4>3 DEF Mailed
    <3>7. (\E g \in Handlers : Asks(g, w) /\ orders[g].at = "create")
            => \E g \in Handlers : (Asks(g, w))' /\ orders'[g].at = "create"
      <4> SUFFICES ASSUME NEW g \in Handlers, Asks(g, w), orders[g].at = "create"
                   PROVE  (Asks(g, w))' /\ orders'[g].at = "create"
        OBVIOUS
      <4>1. orders'[g] = orders[g]
        BY <1>5, <3>2
      <4> QED BY <4>1 DEF Asks
    <3> QED BY <3>4, <3>5, <3>6, <3>7 DEF Reaches
  <2> QED BY <2>2, <2>3
<1>7. Notices'
  BY <1>4, AnsweredNotices
<1> QED BY <1>5, <1>6, <1>7 DEF MailerInv, Boxes

LEMMA SkipKeeps ==
  ASSUME MailerInv, NEW m \in outbox, Skip(m) PROVE MailerInv'
<1>0. m \in MailType
  BY DEF MailerInv, MailerTyped, MailTyped
<1> PICK v : v = Missed(m)
  OBVIOUS
<1>1. /\ v \in VowType /\ v.told = vow.told /\ v.upset = vow.upset
      /\ v.offSince = vow.offSince /\ vow.blurred \subseteq v.blurred
      /\ \A p, s : Bears(m, p, s) /\ s \in Subjects => <<p, s>> \in v.blurred
  BY <1>0, MissedFacts
<1>2. vow' = [v EXCEPT !.told = @ \union Told(m), !.upset = @ \union Told(m)]
  BY DEF Skip
<1>3. /\ vow' \in VowType /\ vow'.told = vow.told \union Told(m) /\ vow'.upset = vow.upset \union Told(m)
      /\ vow'.offSince = vow.offSince /\ vow'.blurred = v.blurred
  <2>1. Told(m) \subseteq Kinds \X People
    BY <1>0, ToldFacts
  <2> QED BY <1>1, <1>2, <2>1 DEF VowType
<1>4. Answered(m)
  <2>1. \A p \in People, s \in Subjects : <<p, s>> \notin vow'.blurred =>
          last'[p][s] = IF Bears(m, p, s) THEN m.says ELSE last[p][s]
    BY <1>1, <1>3 DEF Skip
  <2>2. mishaps' \in Nat /\ last' \in [People -> [Subjects -> Says \union {"unsaid"}]]
        /\ inbox' \subseteq Nat /\ inbox \subseteq inbox'
    BY DEF Skip, MailerInv, MailerTyped, HistTyped
  <2> QED BY <1>1, <1>3, <2>1, <2>2 DEF Answered, Skip, Took
<1>5. ASSUME NEW w \in Kinds \X People, w \notin vow'.upset PROVE (Reaches(w))'
  <2>1. Reaches(w) /\ w \notin Told(m)
    BY <1>3, <1>5 DEF MailerInv, Boxes
  <2>2. ~(w[1] = m.about /\ w[2] = m.to)
    BY <1>0, <2>1, ToldFacts
  <2>3. w \in vow'.told <=> w \in vow.told
    BY <1>3, <2>1
  <2> QED BY <1>4, <2>1, <2>2, <2>3, AnsweredElse
<1> QED BY <1>4, <1>5, AnsweredTyped, AnsweredNotices DEF MailerInv, Boxes

LEMMA RefuseKeeps ==
  ASSUME MailerInv, NEW m \in outbox, Refuse(m) PROVE MailerInv'
<1>0. m \in MailType /\ MailFits(m, orders)
  BY DEF MailerInv, MailerTyped, MailTyped
<1> PICK v : v = Missed(m)
  OBVIOUS
<1> PICK hit : hit = {w \in Told(m) : Asking(m.about, m.to, m.by)}
  OBVIOUS
<1>1. /\ v \in VowType /\ v.told = vow.told /\ v.upset = vow.upset
      /\ v.offSince = vow.offSince /\ vow.blurred \subseteq v.blurred
      /\ \A p, s : Bears(m, p, s) /\ s \in Subjects => <<p, s>> \in v.blurred
  BY <1>0, MissedFacts
<1>2. vow' = [v EXCEPT !.told = @ \ Told(m), !.upset = @ \union hit]
  BY DEF Refuse
<1>3. /\ vow' \in VowType /\ vow'.told = vow.told \ Told(m) /\ vow'.upset = vow.upset \union hit
      /\ vow'.offSince = vow.offSince /\ vow'.blurred = v.blurred
  <2>1. Told(m) \subseteq Kinds \X People /\ hit \subseteq Kinds \X People
    BY <1>0, ToldFacts
  <2> QED BY <1>1, <1>2, <2>1 DEF VowType
<1>4. Answered(m)
  <2>1. \A p \in People, s \in Subjects : <<p, s>> \notin vow'.blurred =>
          last'[p][s] = IF Bears(m, p, s) THEN m.says ELSE last[p][s]
    BY <1>1, <1>3 DEF Refuse
  <2>2. mishaps' \in Nat /\ last' \in [People -> [Subjects -> Says \union {"unsaid"}]]
        /\ inbox' \subseteq Nat /\ inbox \subseteq inbox'
    BY DEF Refuse, MailerInv, MailerTyped, HistTyped
  <2> QED BY <1>1, <1>3, <2>1, <2>2 DEF Answered, Refuse, Took
<1>5. /\ \A g \in Handlers : g # m.by => orders'[g] = orders[g]
      /\ m.by # NoOne => m.by \in Handlers /\ orders'[m.by].about = "event"
  BY <1>4, AnsweredTyped
<1>6. ASSUME NEW w \in Kinds \X People, w \notin vow'.upset PROVE (Reaches(w))'
  <2>1. Reaches(w) /\ w \notin hit
    BY <1>3, <1>6 DEF MailerInv, Boxes
  <2>2. CASE ~(w[1] = m.about /\ w[2] = m.to)
    <3>1. w \in vow'.told <=> w \in vow.told
      BY <1>0, <1>3, <2>2, ToldFacts
    <3> QED BY <1>4, <2>1, <2>2, <3>1, AnsweredElse
  <2>3. CASE w[1] = m.about /\ w[2] = m.to
    <3>1. w \in Told(m) /\ m.by # NoOne
      BY <1>0, <2>3, ToldFacts DEF MailFits
    <3>2. ~Asking(m.about, m.to, m.by)
      BY <2>1, <3>1
    <3>3. \A g \in Handlers : ~(Asks(g, w))'
      <4> TAKE g \in Handlers
      <4>1. CASE g = m.by
        BY <1>5, <4>1, <3>1 DEF Asks, Kinds
      <4>2. CASE g # m.by
        BY <1>5, <2>3, <3>2, <4>2 DEF Asks, Asking
      <4> QED BY <4>1, <4>2
    <3>4. w \notin vow'.told
      BY <1>3, <3>1
    <3> QED BY <3>3, <3>4 DEF Reaches
  <2> QED BY <2>2, <2>3
<1> QED BY <1>4, <1>6, AnsweredTyped, AnsweredNotices DEF MailerInv, Boxes

\* A handler dies: whatever it was about is blurred or upset.
LEMMA DieKeeps ==
  ASSUME MailerInv, NEW h \in Handlers, Die(h) PROVE MailerInv'
<1>0. orders[h] \in OrderType /\ OrderFits(orders[h]) /\ vow \in VowType /\ orders[h].at # "idle"
  BY DEF MailerInv, MailerTyped, OrderTyped, HistTyped, Die
<1> PICK a, p : a = orders[h].about /\ p = orders[h].who
  OBVIOUS
<1> PICK v : v = IF a \in Subjects THEN Blur(vow, Concerned(orders[h]), a)
                 ELSE IF a = "silent" THEN Blur(Blur(vow, People, "plan"), People, "org") ELSE vow
  OBVIOUS
<1>1. /\ v \in VowType /\ v.told = vow.told /\ v.upset = vow.upset
      /\ v.offSince = vow.offSince /\ vow.blurred \subseteq v.blurred
      /\ a \in Subjects => \A q \in Concerned(orders[h]) : <<q, a>> \in v.blurred
  <2>1. CASE a \in Subjects
    <3>1. Concerned(orders[h]) \in SUBSET People
      <4>1. a \in {"user", "factor"} => p \in People
        BY <1>0 DEF OrderFits
      <4> QED BY <4>1, ConcernedType
    <3> PICK c \in SUBSET People : c = Concerned(orders[h])
      BY <3>1
    <3>2. v = Blur(vow, c, a)
      BY <2>1
    <3>3. /\ v \in VowType /\ v.told = vow.told /\ v.upset = vow.upset
          /\ v.offSince = vow.offSince /\ v.blurred = vow.blurred \union (c \X {a})
      BY ONLY <1>0, <2>1, <3>2, Blurs
    <3> QED BY <3>3
  <2>2. CASE a \notin Subjects /\ a = "silent"
    <3> PICK x : x = Blur(vow, People, "plan")
      OBVIOUS
    <3>1. "plan" \in Subjects /\ "org" \in Subjects /\ People \in SUBSET People /\ v = Blur(x, People, "org")
      BY <2>2 DEF Subjects
    <3> PICK ps : ps = People
      OBVIOUS
    <3>2. ps \in SUBSET People /\ x = Blur(vow, ps, "plan") /\ v = Blur(x, ps, "org")
      BY <3>1
    <3>3. /\ x \in VowType /\ x.told = vow.told /\ x.upset = vow.upset
          /\ x.offSince = vow.offSince /\ x.blurred = vow.blurred \union (ps \X {"plan"})
      BY ONLY <1>0, <3>1, <3>2, Blurs
    <3>4. /\ v \in VowType /\ v.told = x.told /\ v.upset = x.upset
          /\ v.offSince = x.offSince /\ v.blurred = x.blurred \union (ps \X {"org"})
      BY ONLY <3>1, <3>2, <3>3, Blurs
    <3> QED BY <2>2, <3>3, <3>4
  <2>3. CASE a \notin Subjects /\ a # "silent"
    BY <1>0, <2>3
  <2> QED BY <2>1, <2>2, <2>3
<1> PICK hit : hit = {w \in {<<a, p>>} : a \in {"reset", "code", "invite"}}
  OBVIOUS
<1>2. vow' = [v EXCEPT !.upset = @ \union hit]
  BY DEF Die
<1>3. hit \subseteq Kinds \X People /\ (a \in Kinds => <<a, p>> \in hit)
  BY <1>0 DEF OrderFits, Kinds
<1>4. /\ vow' \in VowType /\ vow'.told = vow.told /\ vow'.upset = vow.upset \union hit
      /\ vow'.offSince = vow.offSince /\ vow'.blurred = v.blurred
  BY <1>1, <1>2, <1>3 DEF VowType
<1>5. /\ orders' = [orders EXCEPT ![h] = NoOrder] /\ outbox' = {m \in outbox : m.by # h}
      /\ UNCHANGED <<post, last, inbox, ordered>> /\ mishaps' = mishaps + 1
  BY DEF Die, Ends
<1>6. \A g \in Handlers : orders'[g] = IF g = h THEN NoOrder ELSE orders[g]
  BY <1>5 DEF MailerInv, MailerTyped, OrderTyped
<1>7. OrderTyped' /\ MailTyped'
  <2>1. outbox' \subseteq outbox /\ orders' \in [Handlers -> OrderType]
    BY <1>5, RestFits DEF MailerInv, MailerTyped, OrderTyped
  <2>2. \A g \in Handlers : OrderFits(orders'[g])
    BY <1>6, RestFits DEF MailerInv, MailerTyped, OrderTyped
  <2>3. \A n \in outbox' : n.by # NoOne => orders'[n.by] = orders[n.by]
    BY <1>5, <1>6 DEF MailerInv, MailerTyped, MailTyped, MailType
  <2> QED BY <2>1, <2>2, <2>3, LeavesTyped DEF MailerInv
<1>8. HistTyped' /\ PostTyped'
  BY <1>4, <1>5 DEF MailerInv, MailerTyped, HistTyped, PostTyped
<1>9. Unasked'
  <2>1. \A g \in Handlers : orders'[g] = orders[g] \/ (~WillAlert(orders'[g]) /\ orders'[g].began \in {0, orders[g].began})
    BY <1>6 DEF NoOrder, WillAlert
  <2> QED BY <1>1, <1>4, <1>5, <2>1, LeavesUnasked
<1>10. \A n \in outbox : n.by = h => n.about \notin Subjects /\ n.about = a /\ n.to = p
  BY NobodyHandles DEF MailerInv, MailerTyped, MailTyped, MailFits
<1>11. ASSUME NEW q \in People, NEW s \in Subjects, <<q, s>> \notin vow'.blurred
       PROVE  (TrueNotice(q, s))'
  <2>1. TrueNotice(q, s)
    BY <1>1, <1>4, <1>11 DEF MailerInv, Notices
  <2>2. ~Carries(h, q, s) /\ ~(Carries(h, q, s))'
    BY <1>1, <1>4, <1>6, <1>11 DEF Carries, NoOrder, Subjects
  <2>3. /\ \A m \in outbox : Bears(m, q, s) => m \in outbox'
        /\ \A m \in outbox' : Bears(m, q, s) => m \in outbox
    BY <1>5, <1>10 DEF Bears
  <2>4. Now(q, s)' = Now(q, s)
    BY <1>5 DEF Now
  <2>5. QuietFor(q, s)
    BY <1>5, <1>6, <2>2, <2>3, <2>4 DEF QuietFor
  <2> QED BY <2>1, <2>5, QuietNotice
<1>12. ASSUME NEW w \in Kinds \X People, w \notin vow'.upset PROVE (Reaches(w))'
  <2>1. Reaches(w) /\ w # <<a, p>>
    BY <1>1, <1>3, <1>4, <1>12 DEF MailerInv, Boxes
  <2>2. ~(w[1] = a /\ w[2] = p)
    BY <2>1
  <2>3. (Lives(w))' = Lives(w)
    BY <1>5 DEF Lives
  <2>4. \A t \in Lives(w) : Mailed(t) => (Mailed(t))'
    BY <1>5, <1>10, <2>2 DEF Lives, Mailed
  <2>5. \A g \in Handlers : /\ (Asks(g, w))' <=> Asks(g, w)
                            /\ Asks(g, w) => orders'[g] = orders[g]
    BY <1>6, <2>2 DEF Asks, NoOrder, Kinds
  <2>6. inbox \subseteq inbox' /\ (w \in vow'.told <=> w \in vow.told)
    BY <1>1, <1>4, <1>5
  <2> QED BY <2>1, <2>3, <2>4, <2>5, <2>6, ReachesStill
<1> QED BY <1>7, <1>8, <1>9, <1>11, <1>12 DEF MailerInv, MailerTyped, Notices, Boxes
-----------------------------------------------------------------------------
(* The invariant of the mails holds.                                        *)

LEMMA MailerInitInv == MailerInit => MailerInv
<1> SUFFICES ASSUME MailerInit PROVE MailerInv
  OBVIOUS
<1>1. /\ orders = [h \in Handlers |-> NoOrder] /\ outbox = {} /\ inbox = {}
      /\ last = [p \in People |-> [s \in Subjects |-> "unsaid"]]
      /\ vow = [told |-> {}, upset |-> {}, blurred |-> {},
                 offSince |-> [p \in People |-> [mails |-> 0, alerts |-> 0]]]
      /\ ordered = 0 /\ mishaps = 0
  BY DEF MailerInit
<1>2. NoOrder.about = "event" /\ NoOrder.at = "idle" /\ NoOrder.began = 0 /\ ~WillAlert(NoOrder)
  BY DEF NoOrder, WillAlert
<1>3. PostTyped
  <2> PICK act : act = [p \in People |-> RoleOf[p] = "ADMIN"]
    OBVIOUS
  <2> PICK yes, no : yes = [p \in People |-> TRUE] /\ no = [p \in People |-> FALSE]
    OBVIOUS
  <2> PICK acc : acc = {p \in People : RoleOf[p] = "ADMIN"}
    OBVIOUS
  <2>a. {act, yes, no} \subseteq [People -> BOOLEAN] /\ acc \in SUBSET People
    <3>1. act \in [People -> BOOLEAN]
      BY Zenon
    <3>2. yes \in [People -> BOOLEAN] /\ no \in [People -> BOOLEAN]
      OBVIOUS
    <3> QED BY <3>1, <3>2
  <2>b. post \in [key : BOOLEAN, url : BOOLEAN, off : {{}}, active : {act}, account : {acc},
                  mails : {yes}, alerts : {yes}, factor : {no}, running : {TRUE}, org : {TRUE},
                  over : BOOLEAN, plan : {"demo"}, pending : {NoOne}, tokens : {{}}]
    BY DEF MailerInit
  <2>1. post \in PostType /\ post.tokens = {} /\ post.pending = NoOne
    BY ONLY <2>a, <2>b DEF PostType
  <2> QED BY <2>1, FS_EmptySet DEF PostTyped
<1>4. OrderTyped /\ MailTyped
  BY <1>1, RestFits DEF OrderTyped, MailTyped
<1>5. HistTyped
  <2>1. [p \in People |-> [mails |-> 0, alerts |-> 0]] \in [People -> [{"mails", "alerts"} -> Nat]]
    <3>1. [mails |-> 0, alerts |-> 0] \in [{"mails", "alerts"} -> Nat]
      OBVIOUS
    <3> QED BY <3>1
  <2> PICK off : off = [p \in People |-> [mails |-> 0, alerts |-> 0]]
    OBVIOUS
  <2>2. vow \in VowType
    BY <1>1, <2>1 DEF VowType
  <2> QED BY <1>1, <2>2 DEF HistTyped
<1>6. Unasked
  BY <1>1, <1>2 DEF Unasked, AlertWanted
<1>7. Notices
  <2>1. \A h \in Handlers, p \in People, s \in Subjects : ~Carries(h, p, s)
    BY <1>1, <1>2 DEF Carries, Subjects
  <2> QED BY <1>1, <2>1 DEF Notices, TrueNotice, AtRest, Unheard
<1>8. Boxes
  <2>1. \A h \in Handlers, w \in Kinds \X People : ~Asks(h, w)
    BY <1>1, <1>2 DEF Asks, Kinds
  <2> QED BY <1>1, <2>1 DEF Boxes, Reaches
<1> QED BY <1>3, <1>4, <1>5, <1>6, <1>7, <1>8 DEF MailerInv, MailerTyped

LEMMA MailerStep == MailerInv /\ [MailerNext]_letters => MailerInv'
<1> SUFFICES ASSUME MailerInv, [MailerNext]_letters PROVE MailerInv'
  OBVIOUS
<1>1. ASSUME NEW h \in Handlers, NEW p \in People,
             \/ AskReset(h, p) \/ AskCode(h, p) \/ AskInvite(h, p)
             \/ DropFactor(h, p) \/ ToggleUser(h, p)
             \/ LogInElsewhere(h, p) \/ StreamFails(h, p)
             \/ NotifyServiceCompleted(h, p) \/ NotifyServiceEdited(h, p)
      PROVE  MailerInv'
  BY <1>1, AskResetKeeps, NewOrders
<1>2. ASSUME NEW h \in Handlers, NEW t \in post.tokens, FollowReset(h, t) \/ TypeCode(h, t) \/ FollowInvitation(h, t)
      PROVE  MailerInv'
  BY <1>2, UseSteps
<1>3. ASSUME NEW h \in Handlers, NEW b \in BOOLEAN, SwitchOrg(h, b) \/ DecidePlan(h, b)
      PROVE  MailerInv'
  BY <1>3, NewOrders
<1>4. ASSUME NEW h \in Handlers,
             FindExpired(h) \/ SetPlan(h) \/ WarnExpiringDemos(h) \/ NotifyStorageNearLimit(h)
      PROVE  MailerInv'
  BY <1>4, NewOrders
<1>5. ASSUME NEW h \in Handlers,
             \/ KillOld(h) \/ CreateToken(h) \/ Welcome(h) \/ TellRequester(h) \/ ClearPending(h) \/ Reopen(h)
             \/ Die(h)
      PROVE  MailerInv'
  BY <1>5, KillOldKeeps, CreateTokenKeeps, WelcomeKeeps, TellRequesterKeeps, EndSteps, DieKeeps
<1>6. ASSUME NEW h \in Handlers,
             \/ WriteFactor(h) \/ WriteSuspension(h) \/ WriteOpen(h) \/ WritePaid(h)
      PROVE  MailerInv'
  BY <1>6, MoveSteps
<1>7. ASSUME NEW h \in Handlers,
             \/ TellPassword(h) \/ TellInviter(h) \/ NotifyNewDeviceLogin(h)
             \/ NotifyVideoProcessingFailed(h) \/ NotifyExternals(h)
      PROVE  MailerInv'
  BY <1>7, EventSteps
<1>8. ASSUME NEW h \in Handlers,
             NotifyTwoFactorStatusChanged(h) \/ WriteToggle(h) \/ NotifyOrgAdmins(h)
      PROVE  MailerInv'
  BY <1>8, SubjectSteps
<1>9. ASSUME NEW p \in People, DropUser(p) \/ AskPlan(p) PROVE MailerInv'
  BY <1>9, DropUserKeeps, AskPlanKeeps
<1>10. ASSUME NEW p \in People, NEW pref \in {"mails", "alerts"}, NEW on \in BOOLEAN, UpdatePreferences(p, pref, on)
       PROVE  MailerInv'
  BY <1>10, UpdatePreferencesKeeps
<1>11. ASSUME NEW t \in Switchable, NEW on \in BOOLEAN, SetTemplateEnabled(t, on) PROVE MailerInv'
  BY <1>11, SetTemplateKeeps
<1>12. ASSUME NEW m \in outbox, Hand(m) \/ Skip(m) \/ Refuse(m) PROVE MailerInv'
  BY <1>12, HandKeeps, SkipKeeps, RefuseKeeps
<1>13. ASSUME UNCHANGED letters PROVE MailerInv'
  <2>1. UNCHANGED <<post, orders, outbox, last, inbox, vow, ordered, mishaps>>
    BY <1>13 DEF letters
  <2>2. MailerTyped'
    BY <2>1 DEF MailerInv, MailerTyped, PostTyped, HistTyped, OrderTyped, MailTyped
  <2>3. Unasked'
    BY <2>1 DEF MailerInv, Unasked, Wanted, AlertWanted
  <2>4. \A p \in People, s \in Subjects : TrueNotice(p, s) => (TrueNotice(p, s))'
    <3> SUFFICES ASSUME NEW p \in People, NEW s \in Subjects, TrueNotice(p, s) PROVE (TrueNotice(p, s))'
      OBVIOUS
    <3>1. QuietFor(p, s)
      BY <2>1 DEF QuietFor, Now
    <3> QED BY <3>1, QuietNotice
  <2>5. \A w : Reaches(w) => (Reaches(w))'
    BY <2>1 DEF Reaches, Lives, Mailed, Asks
  <2> QED BY <2>1, <2>2, <2>3, <2>4, <2>5 DEF MailerInv, Notices, Boxes
<1>14. CASE MailerNext
  <2>1. CASE \E h \in Handlers :
       \/ \E p \in People :
            \/ AskReset(h, p) \/ AskCode(h, p) \/ AskInvite(h, p)
            \/ DropFactor(h, p) \/ ToggleUser(h, p)
            \/ LogInElsewhere(h, p) \/ StreamFails(h, p)
            \/ NotifyServiceCompleted(h, p) \/ NotifyServiceEdited(h, p)
       \/ \E t \in post.tokens : FollowReset(h, t) \/ TypeCode(h, t) \/ FollowInvitation(h, t)
       \/ \E b \in BOOLEAN : SwitchOrg(h, b) \/ DecidePlan(h, b)
    BY <1>1, <1>2, <1>3, <2>1
  <2>2. CASE \E h \in Handlers :
       \/ FindExpired(h) \/ SetPlan(h) \/ WarnExpiringDemos(h) \/ NotifyStorageNearLimit(h)
       \/ KillOld(h) \/ CreateToken(h) \/ TellPassword(h) \/ WriteFactor(h) \/ NotifyTwoFactorStatusChanged(h)
       \/ Welcome(h) \/ TellInviter(h) \/ WriteToggle(h) \/ WriteSuspension(h) \/ WriteOpen(h)
       \/ TellRequester(h) \/ ClearPending(h) \/ WritePaid(h) \/ Reopen(h) \/ NotifyNewDeviceLogin(h)
       \/ NotifyVideoProcessingFailed(h) \/ NotifyOrgAdmins(h) \/ NotifyExternals(h) \/ Die(h)
    BY <1>4, <1>5, <1>6, <1>7, <1>8, <2>2
  <2> QED BY <1>9, <1>10, <1>11, <1>12, <1>14, <2>1, <2>2 DEF MailerNext
<1> QED BY <1>13, <1>14

\* A finite set of numbers has a greatest: the sizes of the sets that have none would have
\* a least, and a set of that size is one of them less an element.
LEMMA FiniteMax ==
  ASSUME NEW S \in SUBSET Nat, IsFiniteSet(S), S # {}
  PROVE  \E x \in S : \A y \in S : y <= x
<1> DEFINE Bad == {X \in SUBSET Nat : IsFiniteSet(X) /\ X # {} /\ ~\E x \in X : \A y \in X : y <= x}
           Sizes == {Cardinality(X) : X \in Bad}
<1> SUFFICES ASSUME S \in Bad PROVE FALSE
  OBVIOUS
<1>1. Sizes \subseteq Nat /\ Sizes # {}
  BY FS_CardinalityType
<1>2. PICK c \in Sizes : \A d \in Sizes : ~(d < c)
  <2>1. \E c \in Sizes : \A d \in Sizes : ~(<<d, c>> \in OpToRel(<, Nat))
    BY <1>1, WFMin, NatLessThanWellFounded
  <2>2. \A d, c \in Nat : <<d, c>> \in OpToRel(<, Nat) <=> d < c
    BY DEF OpToRel
  <2> QED BY <1>1, <2>1, <2>2
<1>3. PICK X \in Bad : Cardinality(X) = c
  OBVIOUS
<1>4. PICK x \in X : TRUE
  OBVIOUS
<1>5. IsFiniteSet(X \ {x}) /\ Cardinality(X \ {x}) < Cardinality(X) /\ X \ {x} \in SUBSET Nat
  <2>1. IsFiniteSet(X) /\ x \in X /\ X \in SUBSET Nat
    BY <1>4
  <2> HIDE DEF Bad
  <2>2. Cardinality(X) \in Nat /\ IsFiniteSet(X \ {x}) /\ Cardinality(X \ {x}) = Cardinality(X) - 1
    BY <2>1, FS_RemoveElement, FS_CardinalityType
  <2> QED BY <2>1, <2>2
<1>6. X \ {x} \notin Bad
  BY <1>2, <1>3, <1>5
<1>7. CASE X \ {x} = {}
  BY <1>3, <1>4, <1>7
<1>8. CASE \E z \in X \ {x} : \A y \in X \ {x} : y <= z
  <2>1. PICK z \in X \ {x} : \A y \in X \ {x} : y <= z
    BY <1>8
  <2>2. x \in Nat /\ z \in Nat
    BY <1>4, <2>1
  <2>3. CASE x <= z
    BY <2>1, <2>2, <2>3
  <2>4. CASE z <= x
    BY <2>1, <2>2, <2>4
  <2> QED BY <2>2, <2>3, <2>4
<1> QED BY <1>5, <1>6, <1>7, <1>8

LEMMA NewestOfLiving ==
  ASSUME MailerInv, NEW w \in Kinds \X People, Lives(w) # {}
  PROVE  Newest(w[1], w[2]) # {} /\ Newest(w[1], w[2]) \subseteq Lives(w)
<1>1. Newest(w[1], w[2]) = {t \in Lives(w) : \A u \in Lives(w) : u.n <= t.n}
  BY DEF Newest, Lives
<1> PICK S : S = {t.n : t \in Lives(w)}
  OBVIOUS
<1>2. Lives(w) \subseteq TokenType /\ IsFiniteSet(Lives(w))
  <2>1. Lives(w) \subseteq post.tokens /\ IsFiniteSet(post.tokens)
    BY DEF Lives, MailerInv, MailerTyped, PostTyped
  <2> QED BY <2>1, PostFacts, FS_Subset
<1>3. S \in SUBSET Nat /\ S # {}
  BY <1>2 DEF TokenType
<1>4. IsFiniteSet(S)
  <2> DEFINE f == [t \in Lives(w) |-> t.n]
  <2>1. f \in Surjection(Lives(w), S)
    BY DEF Surjection
  <2> QED BY <1>2, <2>1, FS_Surjection
<1>5. PICK x \in S : \A y \in S : y <= x
  BY <1>3, <1>4, FiniteMax
<1> QED BY <1>1, <1>5

LEMMA MailerInvSuffices == MailerInv => MailsAddUp
<1> SUFFICES ASSUME MailerInv PROVE MailsAddUp
  OBVIOUS
<1>1. ASSUME Delivered PROVE outbox = {} /\ \A h \in Handlers : orders[h] = NoOrder
  BY <1>1 DEF Delivered, MailerInv, MailerTyped, OrderTyped, OrderFits
<1>2. BoxHasLiveOne
  <2> SUFFICES ASSUME Delivered, NEW w \in vow.told \ vow.upset
               PROVE  Newest(w[1], w[2]) # {} /\ \A t \in Newest(w[1], w[2]) : t.n \in inbox
    BY DEF BoxHasLiveOne
  <2>1. w \in Kinds \X People
    BY DEF MailerInv, MailerTyped, HistTyped, VowType
  <2>2. Reaches(w)
    BY <2>1 DEF MailerInv, Boxes
  <2>3. \A h \in Handlers : orders[h].at = "idle"
    BY <1>1 DEF NoOrder
  <2>4. Lives(w) # {} /\ \A t \in Lives(w) : t.n \in inbox
    BY <1>1, <2>2, <2>3 DEF Reaches, Mailed
  <2> QED BY <2>1, <2>4, NewestOfLiving
<1>3. LastNoticeIsTrue
  <2> SUFFICES ASSUME Delivered, NEW p \in People, NEW s \in Subjects, <<p, s>> \notin vow.blurred
               PROVE  last[p][s] = "unsaid" \/ last[p][s] = Now(p, s)
    BY DEF LastNoticeIsTrue
  <2>1. TrueNotice(p, s)
    BY DEF MailerInv, Notices
  <2>2. \A h \in Handlers : ~Carries(h, p, s)
    BY <1>1 DEF Carries, NoOrder, Subjects
  <2> QED BY <1>1, <2>1, <2>2 DEF TrueNotice, AtRest
<1>4. NobodyUnasked
  BY DEF MailerInv, Unasked, Wanted, NobodyUnasked
<1> QED BY <1>2, <1>3, <1>4 DEF MailsAddUp

\* An order is about what its stage says, a mail somebody awaits is the one its handler
\* wrote, and no handler awaits two.
THEOREM MailerTypeCorrect == MailerSpec => []MailerTyped
<1>1. MailerInv => MailerTyped
  BY DEF MailerInv
<1> QED BY <1>1, MailerInitInv, MailerStep, PTL DEF MailerSpec

\* Mails add up, however handlers, mails and the provider's answers interleave: whoever was
\* last told of a link or a code has one that works, the last notice about a subject is true,
\* and nobody is mailed who switched such mails off before the handler began.
THEOREM MailsAlwaysAddUp == MailerSpec => []MailsAddUp
<1> QED BY MailerInitInv, MailerStep, MailerInvSuffices, PTL DEF MailerSpec
=============================================================================
