---------------------------- MODULE ServicesProofs ----------------------------
(***************************************************************************)
(* Proofs about Services, for any number of handlers, any texts and edits, *)
(* and about Portal, below.                                                *)
(* The invariant has a part for each promise: what a view under way has    *)
(* made of its texts, what a permanent deletion has already erased, and    *)
(* how many announcements are still owed.                                  *)
(***************************************************************************)
EXTENDS Services, Portal, FiniteSetTheorems, TLAPS

\* One text of a view: only a description is remembered, and only by a view
\* that found no language.
Good(x, f) ==
  LET part == x.part[f] IN
  /\ part.text = None => part.at = "done" /\ part.status = "original"
  /\ part.text # None => x.at = "view"
  /\ part.status = "translated" => part.shown = part.text
  /\ part.at \in {"config", "cache", "ask"} => part.lang # x.to
  /\ part.at \in {"keep", "persist"} => f = "description" /\ part.lang # None
  /\ part.at = "keep" => part.status = "same"

\* The description of a view, as long as it is the one that was written first.
Faithful(x, d) ==
  LET part == x.part["description"] IN
  part.text # None =>
    /\ part.lang \in {None} \union Verdicts(part.text)
    /\ part.status = "same" => part.lang = x.to
    /\ d \in {None, part.text}

KnownLanguage == svc.description # None /\ svc.lang # None => svc.lang \in Verdicts(svc.description)

Views     == \A r \in Requests, f \in Fields : Good(req[r], f)
OwnHashes == \A p \in Fields \X Languages : cache[p].of = cache[p].hash
Spoken    == ~edited => KnownLanguage /\ \A r \in Requests : Faithful(req[r], svc.description)
\* Nobody has found the service before it is created.
Unborn    == svc.state = "none" => /\ \A r \in Requests : At(r, "idle")
                                   /\ told = 0 /\ published = 0

LanguageInv == TypeOK /\ Views /\ OwnHashes /\ Spoken /\ Unborn

\* A permanent deletion that nothing overlapped, and what it has left.
Alone   == \A r \in Requests : req[r].at \in Purging => \A q \in Requests \ {r} : At(q, "idle")
Erasing == \A r \in Requests :
             /\ req[r].at \in {"translations", "rewrite"} => links = << >>
             /\ At(r, "rewrite") => \A p \in Fields \X Languages : cache[p] = NoRow
ReadsErased(x) == /\ x.at \in {"idle", "view"}
                  /\ x.part["title"].text \in {None, Erased} /\ x.part["description"].text = None
Gone    == svc.state = "purged" =>
             /\ svc.title = Erased /\ svc.description = None /\ ~svc.public /\ links = << >>
             /\ \A p \in Fields \X Languages : cache[p].of \in {None, Erased}
             /\ \A r \in Requests : ReadsErased(req[r])
EraseInv == "purge" \notin met => Alone /\ Erasing /\ Gone

\* Handlers that will announce the publication.
Owes(x) == x.at = "announce" \/ (x.at = "prepare" /\ x.was)
Owing   == {r \in Requests : Owes(req[r])}
OneWriter == \A p, q \in Requests : At(p, "write") /\ At(q, "write") => p = q
ReadsPublic == \A r \in Requests : At(r, "write") => req[r].was = svc.public
Orderly   == met \intersect {"updates", "purge"} = {}
AnnounceInv == Orderly => /\ OneWriter /\ ReadsPublic
                          /\ ~unannounced => told + Cardinality(Owing) = published

IInv == LanguageInv /\ EraseInv /\ AnnounceInv

-----------------------------------------------------------------------------
(* A step of a handler: it goes on with x.                                 *)

RowsTyped == /\ svc \in Service /\ cache \in [Fields \X Languages -> Row]
             /\ links \in Seq(0 .. MaxDays + Life) /\ ai \in {"off", "later", "on"}
             /\ now \in 0 .. MaxDays /\ edited \in BOOLEAN /\ unannounced \in BOOLEAN
             /\ published \in Nat /\ told \in Nat

Steps(r, x) == /\ req' = [req EXCEPT ![r] = x]
               /\ calls' \in 0 .. MaxCalls /\ faults' \in 0 .. MaxFaults
               /\ met' \subseteq {"updates", "purge"} /\ met \subseteq met'

\* A request that is no view.
Blank(x) == /\ x.at # "view"
            /\ \A f \in Fields : /\ x.part[f].text = None /\ x.part[f].at = "done"
                                 /\ x.part[f].status = "original"

LEMMA Typed ==
  ASSUME IInv, NEW r \in Requests
  PROVE  /\ RowsTyped /\ req \in [Requests -> Request] /\ req[r] \in Request
         /\ \A f \in Fields : req[r].part[f] \in Part /\ Good(req[r], f)
         /\ calls \in 0 .. MaxCalls /\ faults \in 0 .. MaxFaults
         /\ met \subseteq {"updates", "purge"}
         /\ ~At(r, "idle") => svc.state # "none"
<1>1. TypeOK /\ Views /\ Unborn
  BY DEF IInv, LanguageInv
<1>2. req[r] \in Request
  BY <1>1 DEF TypeOK
<1>3. \A f \in Fields : req[r].part[f] \in Part
  BY <1>2 DEF Request
<1> QED
  BY <1>1, <1>2, <1>3 DEF TypeOK, RowsTyped, Views, Unborn

LEMMA Bounds == MaxCalls \in Nat /\ MaxFaults \in Nat /\ MaxDays \in Nat /\ Life \in Nat
BY BoundAssumption

LEMMA NoPartType == NoPart \in Part
BY DEF NoPart, Part, None

LEMMA IdleType == Idle \in Request /\ Idle.at = "idle" /\ Blank(Idle)
<1>1. [f \in Fields |-> NoPart] \in [Fields -> Part]
  BY NoPartType
<1> QED
  BY <1>1 DEF Idle, Request, Blank, NoPart, Languages

LEMMA StartSteps ==
  ASSUME IInv, NEW r \in Requests, NEW x \in Request, Start(r, x)
  PROVE  Steps(r, x)
<1>1. calls' \in 0 .. MaxCalls /\ faults' \in 0 .. MaxFaults
  BY Typed, Bounds DEF Start
<1> QED
  BY <1>1, Typed DEF Steps, Start

LEMMA GotoSteps ==
  ASSUME IInv, NEW r \in Requests, NEW x \in Request, Goto(r, x), faults' = faults \/ Fault
  PROVE  Steps(r, x) /\ met' = met
<1>1. calls' \in 0 .. MaxCalls /\ faults' \in 0 .. MaxFaults
  BY Typed, Bounds DEF Goto, Fault
<1> QED
  BY <1>1, Typed DEF Steps, Goto

LEMMA IdleSteps ==
  ASSUME IInv, NEW r \in Requests, Goto(r, Idle), faults' = faults \/ Fault
  PROVE  Steps(r, Idle) /\ met' = met
BY IdleType, GotoSteps

\* A handler that is no view goes to its next await.
LEMMA OnwardSteps ==
  ASSUME IInv, NEW r \in Requests, ~At(r, "view"),
         NEW step \in {"announce", "mint", "translations", "rewrite"},
         Onward(r, step), faults' = faults
  PROVE  LET x == [req[r] EXCEPT !.at = step]
         IN  Steps(r, x) /\ met' = met /\ x \in Request /\ x.at = step /\ Blank(x)
<1> DEFINE x == [req[r] EXCEPT !.at = step]
<1>1. x \in Request /\ x.at = step /\ x.part = req[r].part
  BY Typed DEF Request, Updating, Sharing, Purging
<1>2. Blank(x)
  BY <1>1, Typed DEF Blank, Good, At
<1>3. Steps(r, x) /\ met' = met
  BY <1>1, GotoSteps DEF Onward
<1> QED
  BY <1>1, <1>2, <1>3

\* A view goes on with one of its texts.
LEMMA TurnSteps ==
  ASSUME IInv, NEW r \in Requests, NEW f \in Fields, NEW part \in Part,
         Turn(r, f, part), faults' = faults \/ Fault
  PROVE  LET x == [req[r] EXCEPT !.part[f] = part]
         IN  /\ Steps(r, x) /\ met' = met /\ x \in Request /\ x.part[f] = part
             /\ \A g \in Fields \ {f} : x.part[g] = req[r].part[g]
             /\ x.at = req[r].at /\ x.to = req[r].to /\ x.known = req[r].known
<1> DEFINE x == [req[r] EXCEPT !.part[f] = part]
<1>1. /\ x.part = [req[r].part EXCEPT ![f] = part] /\ req[r].part \in [Fields -> Part]
      /\ x.at = req[r].at /\ x.to = req[r].to /\ x.known = req[r].known
  BY Typed DEF Request
<1>2. x \in Request
  BY <1>1, Typed DEF Request
<1>3. Steps(r, x) /\ met' = met
  BY <1>2, GotoSteps DEF Turn
<1> QED
  BY <1>1, <1>2, <1>3

-----------------------------------------------------------------------------
(* What a step keeps of what views know.                                   *)

LEMMA LanguageKept ==
  ASSUME IInv, NEW r \in Requests, NEW x \in Request, Steps(r, x), RowsTyped', OwnHashes',
         \A f \in Fields : Good(x, f), svc'.state # "none",
         ~edited' => /\ ~edited /\ KnownLanguage' /\ Faithful(x, svc'.description)
                     /\ svc'.description \in {None, svc.description} \/ svc.state = "none"
  PROVE  LanguageInv'
<1>1. req' = [req EXCEPT ![r] = x] /\ req' \in [Requests -> Request] /\ req'[r] = x
      /\ \A q \in Requests \ {r} : req'[q] = req[q]
  BY Typed DEF Steps
<1>2. TypeOK'
  BY <1>1 DEF TypeOK, RowsTyped, Steps
<1>3. Views'
  <2> SUFFICES ASSUME NEW q \in Requests, NEW f \in Fields PROVE Good(req'[q], f)
    BY DEF Views, Good
  <2> QED
    BY <1>1, Typed
<1>4. Spoken'
  <2> SUFFICES ASSUME ~edited', NEW q \in Requests PROVE Faithful(req'[q], svc'.description)
    BY DEF Spoken
  <2>1. CASE q = r
    BY <2>1, <1>1 DEF Faithful
  <2>2. CASE q # r
    <3>1. req'[q] = req[q] /\ Faithful(req[q], svc.description)
      BY <2>2, <1>1 DEF IInv, LanguageInv, Spoken
    <3>2. svc.state = "none" => req[q].part["description"].text = None
      BY Typed DEF IInv, LanguageInv, Unborn, At, Good, Fields
    <3> QED
      BY <3>1, <3>2 DEF Faithful
  <2> QED
    BY <2>1, <2>2
<1> QED
  BY <1>2, <1>3, <1>4 DEF LanguageInv, Unborn

\* Handlers that are no view know nothing of languages.
LEMMA BlankGood ==
  ASSUME NEW x \in Request, Blank(x)
  PROVE  (\A f \in Fields : Good(x, f)) /\ \A d : Faithful(x, d)
BY DEF Blank, Good, Faithful, Fields

LEMMA BlankKeeps ==
  ASSUME IInv, NEW r \in Requests, NEW x \in Request, Steps(r, x), Blank(x), RowsTyped',
         OwnHashes', svc'.state # "none",
         ~edited' => /\ ~edited /\ KnownLanguage'
                     /\ svc'.description \in {None, svc.description} \/ svc.state = "none"
  PROVE  LanguageInv'
BY BlankGood, LanguageKept

LEMMA RowsKept ==
  ASSUME IInv, UNCHANGED <<svc, cache, edited>>
  PROVE  /\ OwnHashes'
         /\ ~edited' => /\ ~edited /\ KnownLanguage'
                         /\ svc'.description \in {None, svc.description}
BY DEF IInv, LanguageInv, OwnHashes, Spoken, KnownLanguage

-----------------------------------------------------------------------------
(* What a step keeps of a permanent deletion.                              *)

LEMMA StartErases ==
  ASSUME IInv, NEW r \in Requests, NEW x \in Request, Start(r, x), UNCHANGED <<cache, links>>,
         x.at \notin {"idle", "translations", "rewrite"},
         svc'.state = "purged" => svc' = svc /\ ReadsErased(x)
  PROVE  EraseInv'
<1> SUFFICES ASSUME "purge" \notin met' PROVE Alone' /\ Erasing' /\ Gone'
  BY DEF EraseInv
<1>1. /\ "purge" \notin met /\ ~Others(r, Purging)
      /\ x.at \in Purging => \A p \in Requests \ {r} : At(p, "idle")
  BY DEF Start
<1>2. /\ req' = [req EXCEPT ![r] = x] /\ req'[r] = x
      /\ \A q \in Requests \ {r} : req'[q] = req[q]
  BY Typed DEF Start
<1>3. Alone /\ Erasing /\ Gone
  BY <1>1 DEF IInv, EraseInv
<1>4. Alone'
  BY <1>1, <1>2, <1>3 DEF Alone, At, Others, Purging
<1>5. Erasing'
  BY <1>1, <1>2, <1>3 DEF Erasing, At
<1>6. Gone'
  BY <1>2, <1>3 DEF Gone, ReadsErased
<1> QED
  BY <1>4, <1>5, <1>6

\* A handler that is under way, but is no permanent deletion, finds none alone.
LEMMA WorkErases ==
  ASSUME IInv, NEW r \in Requests, NEW x \in Request, Steps(r, x), met' = met,
         ~At(r, "idle"), req[r].at \notin Purging, x.at \notin Purging,
         svc'.state = "purged" => svc.state = "purged",
         svc.state = "purged" /\ ReadsErased(req[r]) =>
           /\ UNCHANGED <<svc, links>> /\ ReadsErased(x)
           /\ \A p \in Fields \X Languages : cache'[p].of \in {cache[p].of, Erased}
  PROVE  EraseInv'
<1> SUFFICES ASSUME "purge" \notin met' PROVE Alone' /\ Erasing' /\ Gone'
  BY DEF EraseInv
<1>1. /\ req'[r] = x /\ \A q \in Requests \ {r} : req'[q] = req[q]
  BY Typed DEF Steps
<1>2. Alone /\ Erasing /\ Gone
  BY DEF IInv, EraseInv
<1>3. \A q \in Requests : req'[q].at \notin Purging
  BY <1>1, <1>2 DEF Alone, At
<1>4. Alone' /\ Erasing'
  BY <1>3 DEF Alone, Erasing, At, Purging
<1>5. Gone'
  BY <1>1, <1>2 DEF Gone, ReadsErased
<1> QED
  BY <1>4, <1>5

\* In particular one that no purged service has met.
LEMMA OtherWorkErases ==
  ASSUME IInv, NEW r \in Requests, NEW x \in Request, Steps(r, x), met' = met,
         req[r].at \notin Purging \union {"idle", "view"}, x.at \notin Purging,
         svc'.state = "purged" => svc.state = "purged"
  PROVE  EraseInv'
BY WorkErases DEF ReadsErased, At

-----------------------------------------------------------------------------
(* What a step keeps of the announcements.                                 *)

LEMMA Counting ==
  ASSUME NEW S \in SUBSET Requests, NEW r \in Requests
  PROVE  /\ IsFiniteSet(S) /\ Cardinality(S) \in Nat
         /\ Cardinality(S \ {r}) = IF r \in S THEN Cardinality(S) - 1 ELSE Cardinality(S)
         /\ Cardinality(S \union {r}) = IF r \in S THEN Cardinality(S) ELSE Cardinality(S) + 1
<1>1. IsFiniteSet(S)
  BY RequestsAssumption, FS_Subset
<1> QED
  BY <1>1, FS_CardinalityType, FS_AddElement, FS_RemoveElement

LEMMA OwingStep ==
  ASSUME IInv, NEW r \in Requests, NEW x \in Request, Steps(r, x)
  PROVE  /\ Owing \in SUBSET Requests /\ Cardinality(Owing) \in Nat
         /\ Owes(x) => Owing' = Owing \union {r}
         /\ ~Owes(x) => Owing' = Owing \ {r}
         /\ r \in Owing <=> Owes(req[r])
<1>1. /\ req'[r] = x /\ \A q \in Requests \ {r} : req'[q] = req[q]
  BY Typed DEF Steps
<1>2. Owing \in SUBSET Requests
  BY DEF Owing
<1>3. Owes(x) => Owing' = Owing \union {r}
  BY <1>1 DEF Owing, Owes
<1>4. ~Owes(x) => Owing' = Owing \ {r}
  BY <1>1 DEF Owing, Owes
<1>5. Cardinality(Owing) \in Nat
  BY <1>2, Counting
<1> QED
  BY <1>2, <1>3, <1>4, <1>5 DEF Owing

LEMMA AnnounceKept ==
  ASSUME IInv, NEW r \in Requests, NEW x \in Request, Steps(r, x), Owes(x) <=> Owes(req[r]),
         x.at # "write", UNCHANGED <<told, published>>, ~unannounced' => ~unannounced,
         svc'.public = svc.public
  PROVE  AnnounceInv'
<1> SUFFICES ASSUME Orderly' PROVE /\ OneWriter' /\ ReadsPublic'
                                   /\ ~unannounced' => told' + Cardinality(Owing') = published'
  BY DEF AnnounceInv
<1>1. Orderly
  BY DEF Orderly, Steps
<1>2. OneWriter /\ ReadsPublic /\ (~unannounced => told + Cardinality(Owing) = published)
  BY <1>1 DEF IInv, AnnounceInv
<1>3. /\ req'[r] = x /\ \A q \in Requests \ {r} : req'[q] = req[q]
  BY Typed DEF Steps
<1>4. Owing' = Owing
  BY OwingStep
<1>5. OneWriter' /\ ReadsPublic'
  BY <1>2, <1>3 DEF OneWriter, ReadsPublic, At
<1> QED
  BY <1>2, <1>4, <1>5

-----------------------------------------------------------------------------
(* A view and its texts.                                                   *)

LEMMA FirstStepGood ==
  ASSUME NEW f \in Fields, NEW t \in Texts \union {None}, NEW known \in Languages \union {None},
         NEW to \in Languages
  PROVE  LET part == FirstStep(f, t, known, to)
         IN  /\ part \in Part /\ part.text = t
             /\ t = None => part.at = "done" /\ part.status = "original"
             /\ part.status # "translated"
             /\ part.at \in {"config", "cache", "ask"} => part.lang # to
             /\ part.at \in {"keep", "persist"} => f = "description" /\ part.lang # None
             /\ part.at = "keep" => part.status = "same"
             /\ part.status = "same" => part.lang = to
             /\ part.lang \in {None, Detected(known, t)}
<1> DEFINE lang == Detected(known, t)
<1>1. t # None => t \in Texts /\ lang \in Languages \union {None}
  BY TextsAssumption DEF Detected
<1>2. CASE t = None
  BY <1>2 DEF FirstStep, NoPart, Part
<1>3. CASE t # None /\ t \notin Eligible[f]
  BY <1>1, <1>3 DEF FirstStep, NoPart, Part
<1>4. CASE t # None /\ t \in Eligible[f] /\ lang = to
  <2>1. FirstStep(f, t, known, to) =
          [NoPart EXCEPT !.text = t, !.status = "same", !.lang = to,
                         !.at = IF f = "description" /\ known = None THEN "keep" ELSE "done"]
    BY <1>4 DEF FirstStep, NoPart
  <2>2. to # None
    BY DEF Languages, None
  <2> QED
    BY <1>1, <1>4, <2>1, <2>2 DEF NoPart, Part
<1>5. CASE t # None /\ t \in Eligible[f] /\ lang # to
  <2>1. FirstStep(f, t, known, to) = [NoPart EXCEPT !.text = t, !.at = "config", !.lang = lang]
    BY <1>5 DEF FirstStep, NoPart
  <2> HIDE DEF lang
  <2>2. FirstStep(f, t, known, to) \in Part
    BY <1>1, <1>5, <2>1 DEF NoPart, Part
  <2> QED
    BY <1>5, <2>1, <2>2 DEF NoPart, lang
<1> QED
  BY <1>2, <1>3, <1>4, <1>5

\* Unless somebody edited it, a description was recognised or remembered rightly.
LEMMA ViewKeeps ==
  ASSUME IInv, NEW r \in Requests, NEW who \in {"staff", "external", "history", "link"},
         NEW to \in Languages, View(r, who, to)
  PROVE  IInv'
<1> DEFINE part(f) == FirstStep(f, svc[f], svc.lang, to)
           x == [Idle EXCEPT !.at = "view", !.to = to, !.known = svc.lang,
                             !.part = [f \in Fields |-> part(f)]]
<1>1. /\ svc \in Service /\ svc.lang \in Languages \union {None} /\ svc.state # "none"
      /\ \A f \in Fields : svc[f] \in Texts \union {None}
  BY Typed DEF View, Visible, RowsTyped, Service, Fields
<1>2. \A f \in Fields : part(f) \in Part
  BY <1>1, FirstStepGood
<1>3. /\ x \in Request /\ x.at = "view" /\ x.to = to
      /\ \A f \in Fields : x.part[f] = part(f)
  BY <1>1, <1>2, IdleType DEF Idle, Request
<1>4. \A f \in Fields : x.part[f].text = svc[f] /\ Good(x, f)
  BY <1>1, <1>3, FirstStepGood DEF Good
<1>5. Start(r, x) /\ UNCHANGED <<rows, past>>
  BY DEF View
<1>6. /\ Steps(r, x) /\ RowsTyped' /\ UNCHANGED <<svc, cache, links, edited, told, published, unannounced>>
  BY <1>3, <1>5, StartSteps, Typed DEF rows, past, RowsTyped
<1>7. ~edited => Faithful(x, svc'.description)
  <2> SUFFICES ASSUME ~edited, svc.description # None
               PROVE  /\ part("description").lang \in {None} \union Verdicts(svc.description)
                      /\ part("description").status = "same" => part("description").lang = to
    BY <1>3, <1>4, <1>6 DEF Faithful, Fields
  <2>1. KnownLanguage
    BY DEF IInv, LanguageInv, Spoken
  <2>2. Detected(svc.lang, svc.description) \in {None} \union Verdicts(svc.description)
    BY <1>1, <2>1, TextsAssumption DEF KnownLanguage, Detected, Service, Verdicts
  <2>3. part("description").lang \in {None, Detected(svc.lang, svc.description)}
        /\ (part("description").status = "same" => part("description").lang = to)
    <3>1. "description" \in Fields /\ svc["description"] = svc.description
      BY DEF Fields
    <3> QED
      BY <1>1, <3>1, FirstStepGood
  <2> QED
    BY <2>2, <2>3
<1> HIDE DEF x
<1>8. LanguageInv'
  BY <1>1, <1>3, <1>4, <1>6, <1>7, RowsKept, LanguageKept
<1>9. EraseInv'
  <2>1. CASE "purge" \in met
    BY <2>1, <1>5 DEF EraseInv, Start
  <2>2. CASE "purge" \notin met
    <3>1. svc'.state = "purged" => svc' = svc /\ ReadsErased(x)
      BY <2>2, <1>3, <1>4, <1>6 DEF IInv, EraseInv, Gone, ReadsErased, Fields
    <3> QED
      BY <3>1, <1>3, <1>5, <1>6, StartErases
  <2> QED
    BY <2>1, <2>2
<1>10. AnnounceInv'
  <2>1. ~Owes(x) /\ ~Owes(req[r])
    BY <1>3, <1>5 DEF Owes, Start, At
  <2> QED
    BY <2>1, <1>3, <1>6, AnnounceKept
<1> QED
  BY <1>8, <1>9, <1>10 DEF IInv

\* What a view does with one of its texts, whatever it is.
LEMMA TurnKeeps ==
  ASSUME IInv, NEW r \in Requests, NEW f \in Fields, NEW part \in Part,
         At(r, "view"), Turn(r, f, part), faults' = faults \/ Fault,
         req[r].part[f].at # "done", part.text = req[r].part[f].text,
         part.status = "translated" => part.shown = part.text,
         part.at \in {"config", "cache", "ask"} => part.lang # req[r].to,
         part.at # "keep", part.at = "persist" => f = "description" /\ part.lang # None,
         ~edited /\ f = "description" =>
           /\ part.lang \in {None} \union Verdicts(part.text)
           /\ part.status = "same" => part.lang = req[r].to,
         RowsTyped', OwnHashes', UNCHANGED <<links, edited, told, published, unannounced>>,
         svc' = svc \/ (f = "description" /\ \E lang : svc' = [svc EXCEPT !.lang = lang]),
         ~edited => KnownLanguage',
         \A p \in Fields \X Languages : cache'[p].of = cache[p].of \/ (p[1] = f /\ cache'[p].of = part.text)
  PROVE  IInv'
<1> DEFINE x == [req[r] EXCEPT !.part[f] = part]
<1>1. /\ Steps(r, x) /\ met' = met /\ x \in Request /\ x.part[f] = part
      /\ \A g \in Fields \ {f} : x.part[g] = req[r].part[g]
      /\ x.at = req[r].at /\ x.to = req[r].to /\ x.known = req[r].known
  BY TurnSteps
<1> HIDE DEF x
<1>2. /\ svc.state # "none" /\ part.text # None
      /\ svc'.state = svc.state /\ svc'.description = svc.description /\ svc'.public = svc.public
  BY Typed DEF Good, At, RowsTyped, Service
<1>3. \A g \in Fields : Good(x, g)
  BY <1>1, <1>2, Typed DEF Good, At
<1>4. ~edited => Faithful(x, svc'.description)
  <2> SUFFICES ASSUME ~edited PROVE Faithful(x, svc'.description)
    OBVIOUS
  <2>1. Faithful(req[r], svc.description)
    BY DEF IInv, LanguageInv, Spoken
  <2>2. CASE f = "description"
    BY <2>1, <2>2, <1>1, <1>2 DEF Faithful
  <2>3. CASE f # "description"
    BY <2>1, <2>3, <1>1, <1>2 DEF Faithful, Fields
  <2> QED
    BY <2>2, <2>3
<1>5. LanguageInv'
  BY <1>1, <1>2, <1>3, <1>4, LanguageKept
<1>6. EraseInv'
  <2>1. svc.state = "purged" /\ ReadsErased(req[r]) =>
          /\ UNCHANGED <<svc, links>> /\ ReadsErased(x)
          /\ \A p \in Fields \X Languages : cache'[p].of \in {cache[p].of, Erased}
    <3> SUFFICES ASSUME ReadsErased(req[r])
                 PROVE  /\ UNCHANGED <<svc, links>> /\ ReadsErased(x)
                        /\ \A p \in Fields \X Languages : cache'[p].of \in {cache[p].of, Erased}
      OBVIOUS
    <3>1. f = "title" /\ part.text = Erased
      BY <1>2 DEF ReadsErased, Fields
    <3>2. ReadsErased(x)
      BY <3>1, <1>1 DEF ReadsErased, Fields
    <3> QED
      BY <3>1, <3>2
  <2> QED
    BY <2>1, <1>1, <1>2, WorkErases DEF At, Purging
<1>7. AnnounceInv'
  <2>1. ~Owes(x) /\ ~Owes(req[r]) /\ x.at # "write"
    BY <1>1 DEF Owes, At
  <2> QED
    BY <2>1, <1>1, <1>2, AnnounceKept
<1> QED
  BY <1>5, <1>6, <1>7 DEF IInv

LEMMA PartFacts ==
  ASSUME IInv, NEW r \in Requests, NEW f \in Fields, At(r, "view"), req[r].part[f].at # "done"
  PROVE  LET part == req[r].part[f] IN
         /\ part \in Part /\ part.text \in Texts /\ Good(req[r], f)
         /\ req[r].to \in Languages
         /\ ~edited /\ f = "description" =>
              /\ part.lang \in {None} \union Verdicts(part.text)
              /\ part.status = "same" => part.lang = req[r].to
              /\ svc.description \in {None, part.text}
<1>1. /\ req[r].part[f] \in Part /\ Good(req[r], f) /\ req[r].to \in Languages
  BY Typed DEF Request
<1>2. req[r].part[f].text \in Texts
  BY <1>1 DEF Good, Part
<1>3. ~edited => Faithful(req[r], svc.description)
  BY DEF IInv, LanguageInv, Spoken
<1> QED
  BY <1>1, <1>2, <1>3, TextsAssumption DEF Faithful

\* A step of a view that writes no row.
LEMMA ReadTurn ==
  ASSUME IInv, NEW r \in Requests, NEW f \in Fields, NEW part \in Part,
         At(r, "view"), Turn(r, f, part), faults' = faults \/ Fault, UNCHANGED <<rows, past>>,
         req[r].part[f].at # "done", part.text = req[r].part[f].text,
         part.status = "translated" => part.shown = part.text,
         part.at \in {"config", "cache", "ask"} => part.lang # req[r].to,
         part.at # "keep", part.at = "persist" => f = "description" /\ part.lang # None,
         ~edited /\ f = "description" =>
           /\ part.lang \in {None} \union Verdicts(part.text)
           /\ part.status = "same" => part.lang = req[r].to
  PROVE  IInv'
<1>1. /\ RowsTyped' /\ UNCHANGED <<svc, cache, links, edited, told, published, unannounced>>
  BY Typed DEF rows, past, RowsTyped
<1>2. OwnHashes' /\ (~edited => KnownLanguage')
  BY <1>1, RowsKept
<1> QED
  BY <1>1, <1>2, TurnKeeps

LEMMA ReadConfigKeeps ==
  ASSUME IInv, NEW r \in Requests, NEW f \in Fields, ReadConfig(r, f) PROVE IInv'
<1> DEFINE old == req[r].part[f]
           on  == [old EXCEPT !.at = "cache"]
           off == [old EXCEPT !.at = "done", !.status = "untranslated"]
<1>1. /\ At(r, "view") /\ old.at = "config" /\ UNCHANGED <<rows, past>> /\ faults' = faults
      /\ Turn(r, f, on) \/ Turn(r, f, off)
  BY DEF ReadConfig, PartAt, Done
<1>2. /\ old \in Part /\ old.lang # req[r].to
      /\ old.status = "translated" => old.shown = old.text
  BY <1>1, PartFacts DEF Good
<1>3. /\ on \in Part /\ on.at = "cache" /\ on.text = old.text /\ on.lang = old.lang
      /\ on.status = old.status /\ on.shown = old.shown
  BY <1>2 DEF Part
<1>4. /\ off \in Part /\ off.at = "done" /\ off.text = old.text /\ off.lang = old.lang
      /\ off.status = "untranslated"
  BY <1>2 DEF Part
<1> HIDE DEF on, off
<1>5. CASE Turn(r, f, on)
  BY <1>1, <1>2, <1>3, <1>5, PartFacts, ReadTurn
<1>6. CASE Turn(r, f, off)
  BY <1>1, <1>2, <1>4, <1>6, PartFacts, ReadTurn
<1> QED
  BY <1>1, <1>5, <1>6

\* The hash of a translation is that of its own text.
LEMMA ReadCacheKeeps ==
  ASSUME IInv, NEW r \in Requests, NEW f \in Fields, ReadCache(r, f) PROVE IInv'
<1> DEFINE old == req[r].part[f]
           row == cache[<<f, req[r].to>>]
           hit == [old EXCEPT !.at = "done", !.status = "translated", !.shown = row.of]
           ask == [old EXCEPT !.at = "ask"]
<1>1. /\ At(r, "view") /\ old.at = "cache" /\ UNCHANGED <<rows, past>> /\ faults' = faults
      /\ (row.hash = old.text /\ Turn(r, f, hit)) \/ Turn(r, f, ask)
  BY DEF ReadCache, PartAt
<1>2. old \in Part /\ old.text \in Texts /\ old.lang # req[r].to /\ req[r].to \in Languages
  BY <1>1, PartFacts DEF Good
<1>3. row.of = row.hash
  BY <1>2 DEF IInv, LanguageInv, OwnHashes
<1>4. /\ ask \in Part /\ ask.at = "ask" /\ ask.text = old.text /\ ask.lang = old.lang
      /\ ask.status = old.status /\ ask.shown = old.shown
  BY <1>2 DEF Part
<1>5. CASE row.hash = old.text /\ Turn(r, f, hit)
  <2>1. /\ hit \in Part /\ hit.shown = old.text /\ hit.text = old.text /\ hit.at = "done"
        /\ hit.lang = old.lang /\ hit.status = "translated"
    BY <1>2, <1>3, <1>5 DEF Part
  <2> HIDE DEF hit
  <2> QED
    BY <1>1, <1>5, <2>1, PartFacts, ReadTurn
<1>6. CASE Turn(r, f, ask)
  <2>1. old.status = "translated" => old.shown = old.text
    BY <1>1, PartFacts DEF Good
  <2> HIDE DEF ask
  <2> QED
    BY <1>1, <1>2, <1>4, <1>6, <2>1, PartFacts, ReadTurn
<1> QED
  BY <1>1, <1>5, <1>6

LEMMA AskKeeps ==
  ASSUME IInv, NEW r \in Requests, NEW f \in Fields, Ask(r, f) PROVE IInv'
<1> DEFINE old == req[r].part[f]
           same(lang, at) == [old EXCEPT !.status = "same", !.lang = lang, !.at = at]
           save(lang) == [old EXCEPT !.at = "save", !.lang = lang]
<1>1. /\ At(r, "view") /\ old.at = "ask" /\ UNCHANGED <<rows, past>> /\ faults' = faults
  BY DEF Ask, PartAt
<1>2. /\ old \in Part /\ old.text \in Texts /\ old.lang # req[r].to /\ req[r].to \in Languages
      /\ Named[old.text] \subseteq Languages \union {None}
  BY <1>1, PartFacts, TextsAssumption DEF Good
<1>3. PICK lang \in (Named[old.text] \ {None}) \union {old.lang} :
        IF lang = req[r].to
        THEN Turn(r, f, same(lang, IF Remembers(r, f, lang) THEN "persist" ELSE "done"))
        ELSE Turn(r, f, save(lang))
  BY DEF Ask
<1>4. lang \in Languages \union {None}
  BY <1>2, <1>3 DEF Part
<1>5. CASE lang = req[r].to
  <2>1. PICK at \in {"persist", "done"} :
          Turn(r, f, same(lang, at)) /\ (at = "persist" => f = "description" /\ lang # None)
    BY <1>3, <1>5 DEF Remembers
  <2>2. /\ same(lang, at) \in Part /\ lang \in Verdicts(old.text)
        /\ same(lang, at).text = old.text /\ same(lang, at).lang = lang
        /\ same(lang, at).at = at /\ same(lang, at).status = "same"
    BY <1>2, <1>3, <1>4, <1>5 DEF Part, Verdicts
  <2> HIDE DEF same
  <2> QED
    BY <1>1, <1>5, <2>1, <2>2, ReadTurn
<1>6. CASE lang # req[r].to
  <2>1. /\ save(lang) \in Part /\ save(lang).text = old.text /\ save(lang).lang = lang
        /\ save(lang).at = "save" /\ save(lang).status = old.status
        /\ save(lang).shown = old.shown
    BY <1>2, <1>4 DEF Part
  <2>2. ~edited /\ f = "description" =>
          lang \in {None} \union Verdicts(old.text) /\ old.status # "same"
    BY <1>1, <1>2, <1>3, PartFacts DEF Verdicts
  <2>3. old.status = "translated" => old.shown = old.text
    BY <1>1, PartFacts DEF Good
  <2>4. Turn(r, f, save(lang))
    BY <1>3, <1>6
  <2> HIDE DEF save
  <2> QED
    BY <1>1, <2>1, <2>2, <2>3, <2>4, ReadTurn
<1> QED
  BY <1>5, <1>6

LEMMA PartFailsKeeps ==
  ASSUME IInv, NEW r \in Requests, NEW f \in Fields, PartFails(r, f) PROVE IInv'
<1> DEFINE old == req[r].part[f]
           end(status) == [old EXCEPT !.at = "done", !.status = status]
<1>1. /\ At(r, "view") /\ old.at # "done" /\ UNCHANGED <<rows, past>> /\ Fault
  BY DEF PartFails
<1>2. PICK status \in {"failed", "error"} : Turn(r, f, end(status))
  BY DEF PartFails, Done
<1>3. /\ end(status) \in Part /\ end(status).text = old.text /\ end(status).lang = old.lang
      /\ end(status).at = "done" /\ end(status).status = status
  BY <1>1, PartFacts DEF Part
<1> HIDE DEF end
<1> QED
  BY <1>1, <1>2, <1>3, PartFacts, ReadTurn

LEMMA SaveKeeps ==
  ASSUME IInv, NEW r \in Requests, NEW f \in Fields, Save(r, f) PROVE IInv'
<1> DEFINE old == req[r].part[f]
           new(at) == [old EXCEPT !.status = "translated", !.shown = old.text, !.at = at]
           made == [of |-> old.text, hash |-> old.text]
<1>1. /\ At(r, "view") /\ old.at = "save" /\ faults' = faults
      /\ UNCHANGED <<svc, links, ai, now, past>>
      /\ cache' = [cache EXCEPT ![<<f, req[r].to>>] = made]
  BY DEF Save, PartAt
<1>2. old \in Part /\ old.text \in Texts /\ req[r].to \in Languages
  BY <1>1, PartFacts
<1>3. PICK at \in {"persist", "done"} :
        Turn(r, f, new(at)) /\ (at = "persist" => f = "description" /\ old.lang # None)
  BY DEF Save, Remembers
<1>4. /\ new(at) \in Part /\ new(at).text = old.text /\ new(at).lang = old.lang
      /\ new(at).at = at /\ new(at).status = "translated" /\ new(at).shown = old.text
  BY <1>2 DEF Part
<1>5. made \in Row /\ made.of = old.text /\ made.hash = old.text
  BY <1>2 DEF Row
<1> HIDE DEF made, new
<1>6. cache \in [Fields \X Languages -> Row]
  BY Typed DEF RowsTyped
<1>7. RowsTyped'
  BY <1>1, <1>5, <1>6, Typed DEF RowsTyped, past
<1>8. \A p \in Fields \X Languages :
        cache'[p] = cache[p] \/ (p[1] = f /\ cache'[p] = made)
  BY <1>1, <1>6
<1>9. OwnHashes' /\ (~edited => KnownLanguage')
  BY <1>1, <1>5, <1>8 DEF IInv, LanguageInv, OwnHashes, Spoken, KnownLanguage
<1>10. UNCHANGED <<links, edited, told, published, unannounced>>
  BY <1>1 DEF past
<1>11. \A p \in Fields \X Languages :
         cache'[p].of = cache[p].of \/ (p[1] = f /\ cache'[p].of = new(at).text)
  BY <1>4, <1>5, <1>8
<1> QED
  BY <1>1, <1>3, <1>4, <1>7, <1>9, <1>10, <1>11, PartFacts, TurnKeeps

\* What is remembered is the language of the description that was read.
LEMMA RememberKeeps ==
  ASSUME IInv, NEW r \in Requests, NEW f \in Fields, Keep(r, f) \/ Persist(r, f) PROVE IInv'
<1> DEFINE old == req[r].part[f]
           new(status) == [old EXCEPT !.at = "done", !.status = status]
<1>1. /\ At(r, "view") /\ old.at \in {"keep", "persist"} /\ faults' = faults
      /\ UNCHANGED <<cache, links, ai, now, past>>
      /\ svc' = [svc EXCEPT !.lang = old.lang]
  BY DEF Keep, Persist, PartAt
<1>2. /\ old \in Part /\ old.text \in Texts /\ f = "description" /\ old.lang # None
      /\ old.status = "translated" => old.shown = old.text
  BY <1>1, PartFacts DEF Good
<1>3. PICK status \in {"same", old.status} :
        Turn(r, f, new(status)) /\ (old.at = "persist" => status = old.status)
  BY DEF Keep, Persist, Done, PartAt
<1>4. /\ new(status) \in Part /\ new(status).text = old.text /\ new(status).lang = old.lang
      /\ new(status).at = "done" /\ new(status).status = status
      /\ new(status).shown = old.shown
  BY <1>2 DEF Part
<1> HIDE DEF new
<1>5. svc' \in Service /\ svc'.description = svc.description /\ svc'.lang = old.lang
  BY <1>1, <1>2, Typed DEF RowsTyped, Service, Part
<1>6. RowsTyped' /\ UNCHANGED <<links, edited, told, published, unannounced>>
  BY <1>1, <1>5, Typed DEF RowsTyped, past
<1>7. OwnHashes'
  BY <1>1 DEF IInv, LanguageInv, OwnHashes
<1>8. ~edited => KnownLanguage'
  BY <1>1, <1>2, <1>5, PartFacts DEF KnownLanguage
<1>9. status = old.status
  BY <1>1, <1>3, PartFacts DEF Good
<1>10. ~edited /\ f = "description" =>
         /\ old.lang \in {None} \union Verdicts(old.text)
         /\ status = "same" => old.lang = req[r].to
  BY <1>1, <1>9, PartFacts
<1>11. \E lang : svc' = [svc EXCEPT !.lang = lang]
  BY <1>1
<1> QED
  BY <1>1, <1>2, <1>3, <1>4, <1>6, <1>7, <1>8, <1>9, <1>10, <1>11, TurnKeeps

LEMMA TranslateKeeps ==
  ASSUME IInv, NEW r \in Requests, NEW f \in Fields, Translate(r, f) PROVE IInv'
BY RememberKeeps, ReadConfigKeeps, ReadCacheKeeps, AskKeeps, SaveKeeps DEF Translate

-----------------------------------------------------------------------------
(* The other handlers: calls and reads first.                              *)

LEMMA CallKeeps ==
  ASSUME IInv, NEW r \in Requests, NEW x \in Request, Blank(x), Start(r, x),
         x.at \in {"write", "find", "trash", "links"}, x.at = "write" => x.was = svc.public,
         svc.state \in {"live", "trashed"}, UNCHANGED <<rows, past>>
  PROVE  IInv'
<1>1. /\ Steps(r, x) /\ RowsTyped'
      /\ UNCHANGED <<svc, cache, links, edited, told, published, unannounced>>
  BY StartSteps, Typed DEF rows, past, RowsTyped
<1>2. LanguageInv'
  BY <1>1, BlankKeeps, RowsKept
<1>3. EraseInv'
  BY <1>1, StartErases
<1>4. AnnounceInv'
  <2> SUFFICES ASSUME Orderly' PROVE /\ OneWriter' /\ ReadsPublic'
                                     /\ ~unannounced' => told' + Cardinality(Owing') = published'
    BY DEF AnnounceInv
  <2>1. Orderly /\ (x.at = "write" => ~Others(r, Updating))
    BY DEF Orderly, Start, Updating
  <2>2. OneWriter /\ ReadsPublic /\ (~unannounced => told + Cardinality(Owing) = published)
    BY <2>1 DEF IInv, AnnounceInv
  <2>3. /\ req'[r] = x /\ \A q \in Requests \ {r} : req'[q] = req[q]
    BY <1>1, Typed DEF Steps
  <2>4. Owing' = Owing
    BY <1>1, OwingStep DEF Owes, Start, At
  <2>5. OneWriter'
    BY <2>1, <2>2, <2>3 DEF OneWriter, Others, Updating, At
  <2>6. ReadsPublic'
    BY <1>1, <2>2, <2>3 DEF ReadsPublic, At
  <2> QED
    BY <1>1, <2>2, <2>4, <2>5, <2>6
<1> QED
  BY <1>2, <1>3, <1>4 DEF IInv

LEMMA BlankStart ==
  /\ \A step \in {"find", "trash", "links"} :
       LET x == [Idle EXCEPT !.at = step] IN x \in Request /\ Blank(x) /\ x.at = step
  /\ \A d \in Dtos, b \in BOOLEAN :
       LET x == [Idle EXCEPT !.at = "write", !.dto = d, !.was = b]
       IN  x \in Request /\ Blank(x) /\ x.at = "write" /\ x.was = b
  /\ \A b \in BOOLEAN :
       LET x == [Idle EXCEPT !.at = "prepare", !.was = b]
       IN  x \in Request /\ Blank(x) /\ x.at = "prepare" /\ x.was = b
<1>1. Idle \in Request /\ \A f \in Fields : Idle.part[f] = NoPart
  BY IdleType DEF Idle
<1>2. ASSUME NEW x, x.part = Idle.part, x.at # "view" PROVE Blank(x)
  BY <1>1, <1>2 DEF Blank, NoPart
<1>3. ASSUME NEW step \in {"find", "trash", "links"}
      PROVE  LET x == [Idle EXCEPT !.at = step] IN x \in Request /\ Blank(x) /\ x.at = step
  <2> DEFINE x == [Idle EXCEPT !.at = step]
  <2>1. x \in Request /\ x.at = step /\ x.part = Idle.part
    BY <1>1 DEF Request, Updating, Sharing, Purging
  <2> QED
    BY <1>2, <2>1
<1>4. ASSUME NEW d \in Dtos, NEW b \in BOOLEAN
      PROVE  LET x == [Idle EXCEPT !.at = "write", !.dto = d, !.was = b]
             IN  x \in Request /\ Blank(x) /\ x.at = "write" /\ x.was = b
  <2> DEFINE x == [Idle EXCEPT !.at = "write", !.dto = d, !.was = b]
  <2>1. x \in Request /\ x.at = "write" /\ x.part = Idle.part /\ x.was = b
    BY <1>1 DEF Request, Updating, Sharing, Purging
  <2> QED
    BY <1>2, <2>1
<1>5. ASSUME NEW b \in BOOLEAN
      PROVE  LET x == [Idle EXCEPT !.at = "prepare", !.was = b]
             IN  x \in Request /\ Blank(x) /\ x.at = "prepare" /\ x.was = b
  <2> DEFINE x == [Idle EXCEPT !.at = "prepare", !.was = b]
  <2>1. x \in Request /\ x.at = "prepare" /\ x.part = Idle.part /\ x.was = b
    BY <1>1 DEF Request, Updating, Sharing, Purging
  <2> QED
    BY <1>2, <2>1
<1> QED
  BY <1>3, <1>4, <1>5

LEMMA CallsKeep ==
  ASSUME IInv, NEW r \in Requests,
         (\E d \in Dtos : Update(r, d)) \/ Share(r) \/ Remove(r) \/ PermanentDelete(r)
  PROVE  IInv'
<1>1. ASSUME NEW d \in Dtos, Update(r, d) PROVE IInv'
  <2> DEFINE x == [Idle EXCEPT !.at = "write", !.dto = d, !.was = svc.public]
  <2>1. svc.public \in BOOLEAN
    BY Typed DEF RowsTyped, Service
  <2>2. x \in Request /\ Blank(x) /\ x.at = "write" /\ x.was = svc.public
    BY <2>1, BlankStart
  <2>3. Start(r, x) /\ svc.state = "live" /\ UNCHANGED <<rows, past>>
    BY <1>1 DEF Update
  <2> HIDE DEF x
  <2> QED
    BY <2>2, <2>3, CallKeeps
<1>2. CASE Share(r)
  BY <1>2, BlankStart, CallKeeps DEF Share
<1>3. CASE Remove(r)
  BY <1>3, BlankStart, CallKeeps DEF Remove
<1>4. CASE PermanentDelete(r)
  BY <1>4, BlankStart, CallKeeps DEF PermanentDelete
<1> QED
  BY <1>1, <1>2, <1>3, <1>4

\* A handler that is no permanent deletion, and no row but links changes.
LEMMA QuietStep ==
  ASSUME IInv, NEW r \in Requests, NEW x \in Request, Steps(r, x), met' = met, Blank(x),
         ~At(r, "idle"), req[r].at \notin Purging, x.at \in {"idle", "announce", "mint"},
         Owes(x) <=> Owes(req[r]), RowsTyped',
         UNCHANGED <<svc, cache, edited, told, published, unannounced>>,
         At(r, "view") => x.at = "idle" /\ UNCHANGED links
  PROVE  IInv'
<1>1. LanguageInv'
  BY RowsKept, BlankKeeps, Typed
<1>2. AnnounceInv'
  BY AnnounceKept
<1>3. ReadsErased(req[r]) => UNCHANGED links /\ ReadsErased(x)
  BY DEF ReadsErased, At, Blank, Fields
<1>4. EraseInv'
  BY <1>3, WorkErases DEF Purging
<1> QED
  BY <1>1, <1>2, <1>4 DEF IInv

LEMMA QuietStepsKeep ==
  ASSUME IInv, NEW r \in Requests,
         Answer(r) \/ Prepared(r) \/ FindLink(r) \/ MintLink(r)
  PROVE  IInv'
<1>1. CASE Answer(r)
  <2>1. /\ At(r, "view") /\ Goto(r, Idle) /\ faults' = faults
        /\ UNCHANGED <<svc, cache, links, ai, now, edited, told, published, unannounced>>
    BY <1>1 DEF Answer, rows, past
  <2>2. RowsTyped'
    BY <2>1, Typed DEF RowsTyped
  <2>3. ~Owes(req[r]) /\ ~Owes(Idle) /\ req[r].at \notin Purging /\ ~At(r, "idle")
    BY <2>1, IdleType DEF Owes, At, Purging
  <2> QED
    BY <2>1, <2>2, <2>3, IdleType, IdleSteps, QuietStep
<1>2. CASE Prepared(r)
  <2>1. /\ At(r, "prepare") /\ faults' = faults
        /\ UNCHANGED <<svc, cache, links, ai, now, edited, told, published, unannounced>>
    BY <1>2 DEF Prepared, rows, past
  <2>2. RowsTyped'
    BY <2>1, Typed DEF RowsTyped
  <2>3. req[r].at \notin Purging /\ ~At(r, "idle") /\ ~At(r, "view")
    BY <2>1 DEF At, Purging
  <2>4. CASE req[r].was
    <3> DEFINE x == [req[r] EXCEPT !.at = "announce"]
    <3>1. Steps(r, x) /\ met' = met /\ x \in Request /\ x.at = "announce" /\ Blank(x)
      BY <1>2, <2>1, <2>3, <2>4, OnwardSteps DEF Prepared
    <3>2. Owes(x) /\ Owes(req[r])
      BY <2>1, <2>4, <3>1 DEF Owes, At
    <3> HIDE DEF x
    <3> QED
      BY <2>1, <2>2, <2>3, <3>1, <3>2, QuietStep
  <2>5. CASE ~req[r].was
    <3>1. ~Owes(req[r]) /\ ~Owes(Idle)
      BY <2>1, <2>5, IdleType DEF Owes, At
    <3>2. Goto(r, Idle)
      BY <1>2, <2>5 DEF Prepared
    <3> QED
      BY <2>1, <2>2, <2>3, <3>1, <3>2, IdleType, IdleSteps, QuietStep
  <2> QED
    BY <2>4, <2>5
<1>3. CASE FindLink(r)
  <2>1. /\ At(r, "find") /\ faults' = faults
        /\ UNCHANGED <<svc, cache, links, ai, now, edited, told, published, unannounced>>
    BY <1>3 DEF FindLink, rows, past
  <2>2. RowsTyped'
    BY <2>1, Typed DEF RowsTyped
  <2>3. /\ req[r].at \notin Purging /\ ~At(r, "idle") /\ ~At(r, "view")
        /\ ~Owes(req[r]) /\ ~Owes(Idle)
    BY <2>1, IdleType DEF At, Purging, Owes
  <2>4. CASE Goto(r, Idle)
    BY <2>1, <2>2, <2>3, <2>4, IdleType, IdleSteps, QuietStep
  <2>5. CASE Onward(r, "mint")
    <3> DEFINE x == [req[r] EXCEPT !.at = "mint"]
    <3>1. Steps(r, x) /\ met' = met /\ x \in Request /\ x.at = "mint" /\ Blank(x)
      BY <2>1, <2>3, <2>5, OnwardSteps
    <3>2. ~Owes(x)
      BY <3>1 DEF Owes
    <3> HIDE DEF x
    <3> QED
      BY <2>1, <2>2, <2>3, <3>1, <3>2, QuietStep
  <2> QED
    BY <1>3, <2>4, <2>5 DEF FindLink
<1>4. CASE MintLink(r)
  <2>1. /\ At(r, "mint") /\ faults' = faults /\ Goto(r, Idle)
        /\ UNCHANGED <<svc, cache, ai, now, edited, told, published, unannounced>>
        /\ links' = Append(links, now + Life)
    BY <1>4 DEF MintLink, past
  <2>2. now + Life \in 0 .. MaxDays + Life
    BY Bounds, Typed DEF RowsTyped
  <2>3. RowsTyped'
    <3>1. links' \in Seq(0 .. MaxDays + Life)
      BY <2>1, <2>2, Typed DEF RowsTyped
    <3> QED
      BY <2>1, <3>1, Typed DEF RowsTyped
  <2>4. /\ req[r].at \notin Purging /\ ~At(r, "idle") /\ ~At(r, "view")
        /\ ~Owes(req[r]) /\ ~Owes(Idle)
    BY <2>1, IdleType DEF At, Purging, Owes
  <2> QED
    BY <2>1, <2>3, <2>4, IdleType, IdleSteps, QuietStep
<1> QED
  BY <1>1, <1>2, <1>3, <1>4

-----------------------------------------------------------------------------
(* The handlers that announce.                                             *)

\* The service did not exist, so nothing else is under way.
LEMMA CreateKeeps ==
  ASSUME IInv, NEW r \in Requests, NEW d \in Drafts, NEW auto \in BOOLEAN,
         NEW manifest \in BOOLEAN, Create(r, d.title, d.description, auto, manifest)
  PROVE  IInv'
<1> DEFINE was == auto /\ ~manifest
           x == [Idle EXCEPT !.at = "prepare", !.was = was]
<1>1. /\ d.title \in Texts /\ d.description \in Texts \union {None}
      /\ d.description # None => Guess[d.description] \in {None} \union Verdicts(d.description)
      /\ d.description # None => Guess[d.description] \in Languages \union {None}
  BY DtosAssumption, TextsAssumption DEF Verdicts
<1>2. /\ x \in Request /\ Blank(x) /\ x.at = "prepare" /\ x.was = was
  BY BlankStart
<1>3. Start(r, x) /\ UNCHANGED <<cache, links, ai, now, edited, told>>
  BY DEF Create
<1>4. /\ svc.state = "none" /\ \A q \in Requests : At(q, "idle")
      /\ told = 0 /\ published = 0
  BY DEF Create, IInv, LanguageInv, Unborn
<1>5. /\ svc' \in Service /\ svc'.state = "live" /\ svc'.description = d.description
      /\ svc'.lang = IF d.description = None THEN None ELSE Guess[d.description]
  BY <1>1 DEF Create, Service
<1>6. /\ published' = IF auto THEN 1 ELSE 0
      /\ unannounced' = (auto /\ manifest)
  BY DEF Create
<1>7. Steps(r, x) /\ RowsTyped'
  BY <1>2, <1>3, <1>5, <1>6, StartSteps, Typed DEF RowsTyped
<1>8. KnownLanguage'
  BY <1>1, <1>5 DEF KnownLanguage
<1>9. OwnHashes'
  BY <1>3 DEF IInv, LanguageInv, OwnHashes
<1>10. LanguageInv'
  BY <1>2, <1>3, <1>4, <1>5, <1>7, <1>8, <1>9, BlankKeeps
<1>11. EraseInv'
  BY <1>2, <1>3, <1>5, StartErases
<1>12. AnnounceInv'
  <2>1. /\ req'[r] = x /\ \A q \in Requests \ {r} : req'[q] = req[q]
    BY <1>7, Typed DEF Steps
  <2>2. OneWriter' /\ ReadsPublic'
    BY <1>2, <1>4, <2>1 DEF OneWriter, ReadsPublic, At
  <2>3. Owing = {}
    BY <1>4 DEF Owing, Owes, At
  <2>4. CASE was
    <3>1. Owing' = {r}
      BY <1>2, <1>7, <2>3, <2>4, OwingStep DEF Owes
    <3>2. Cardinality(Owing') = 1 /\ told' = 0 /\ published' = 1
      BY <3>1, <2>4, <1>3, <1>4, <1>6, FS_Singleton
    <3> QED
      BY <3>2, <2>2 DEF AnnounceInv
  <2>5. CASE ~was
    <3>1. Owing' = {}
      BY <1>2, <1>7, <2>3, <2>5, OwingStep DEF Owes
    <3>2. Cardinality(Owing') = 0 /\ told' = 0 /\ (~unannounced' => published' = 0)
      BY <3>1, <2>5, <1>3, <1>4, <1>6, FS_EmptySet
    <3> QED
      BY <3>2, <2>2 DEF AnnounceInv
  <2> QED
    BY <2>4, <2>5
<1> QED
  BY <1>10, <1>11, <1>12 DEF IInv

LEMMA EditedType ==
  ASSUME IInv, NEW r \in Requests
  PROVE  LET d == req[r].dto new == Edited(d)
         IN  /\ new \in Service /\ new.state = svc.state /\ new.lang = svc.lang
             /\ d.description = None => new.description = svc.description
<1> DEFINE d == req[r].dto
           new == Edited(d)
<1>1. /\ d.title \in Texts \union {None} /\ d.description \in Texts \union {None}
  BY Typed, DtosAssumption DEF Request, NoDto
<1>2. svc \in Service
  BY Typed DEF RowsTyped
<1>3. /\ Chosen(d.title, svc.title) \in Texts \union {None}
      /\ Chosen(d.description, svc.description) \in Texts \union {None}
      /\ (IF d.public = None THEN svc.public ELSE d.public = "yes") \in BOOLEAN
      /\ d.description = None => Chosen(d.description, svc.description) = svc.description
  BY <1>1, <1>2 DEF Chosen, Service
<1>4. new = [svc EXCEPT !.title = Chosen(d.title, svc.title),
                        !.description = Chosen(d.description, svc.description),
                        !.public = IF d.public = None THEN svc.public ELSE d.public = "yes"]
  BY <1>2 DEF Edited, Service
<1> HIDE DEF d, new
<1>5. /\ new \in Service /\ new.state = svc.state /\ new.lang = svc.lang
      /\ new.description = Chosen(d.description, svc.description)
  BY <1>2, <1>3, <1>4 DEF Service
<1> QED
  BY <1>3, <1>5 DEF d, new

\* The one edit that is under way is the one that sees the service become public.
LEMMA WriteUpdateKeeps == ASSUME IInv, NEW r \in Requests, WriteUpdate(r) PROVE IInv'
<1> DEFINE d == req[r].dto
           goes == svc'.public /\ ~req[r].was
           next == [req[r] EXCEPT !.at = "announce"]
<1>1. /\ At(r, "write") /\ faults' = faults /\ svc' = Edited(d)
      /\ edited' = (edited \/ d.description # None)
      /\ published' = published + (IF svc'.public /\ ~svc.public THEN 1 ELSE 0)
      /\ UNCHANGED <<cache, links, ai, now, told, unannounced>>
  BY DEF WriteUpdate
<1>2. /\ svc' \in Service /\ svc'.state = svc.state /\ svc'.lang = svc.lang
      /\ d.description = None => svc'.description = svc.description
  BY <1>1, EditedType
<1>3. RowsTyped'
  <2>1. edited' \in BOOLEAN
    BY <1>1, Typed DEF RowsTyped
  <2>2. published' \in Nat
    BY <1>1, Typed DEF RowsTyped
  <2> QED
    BY <1>1, <1>2, <2>1, <2>2, Typed DEF RowsTyped
<1>4. /\ svc'.state # "none" /\ OwnHashes' /\ req[r].at \notin Purging \union {"idle", "view"}
  BY <1>1, <1>2, Typed DEF IInv, LanguageInv, OwnHashes, At, Purging
<1>5. ~edited' => /\ ~edited /\ KnownLanguage'
                  /\ svc'.description \in {None, svc.description}
  BY <1>1, <1>2 DEF IInv, LanguageInv, Spoken, KnownLanguage
<1>6. PICK x \in Request : /\ Steps(r, x) /\ met' = met /\ Blank(x) /\ x.at \notin Purging
                            /\ x.at # "write" /\ (Owes(x) <=> goes)
  <2>1. CASE goes
    <3>1. Onward(r, "announce")
      BY <2>1 DEF WriteUpdate
    <3>2. Steps(r, next) /\ met' = met /\ next \in Request /\ next.at = "announce" /\ Blank(next)
      BY <3>1, <1>1, OnwardSteps DEF At
    <3>3. Owes(next) /\ next.at \notin Purging
      BY <3>2 DEF Owes, Purging
    <3> HIDE DEF next
    <3> QED
      BY <2>1, <3>2, <3>3
  <2>2. CASE ~goes
    <3>1. Goto(r, Idle)
      BY <2>2 DEF WriteUpdate
    <3>2. Steps(r, Idle) /\ met' = met /\ ~Owes(Idle) /\ Idle.at \notin Purging
      BY <3>1, <1>1, IdleSteps, IdleType DEF Owes, Purging
    <3> QED
      BY <2>2, <3>2, IdleType
  <2> QED
    BY <2>1, <2>2
<1>7. LanguageInv'
  BY <1>3, <1>4, <1>5, <1>6, BlankKeeps
<1>8. EraseInv'
  BY <1>2, <1>4, <1>6, OtherWorkErases
<1>9. AnnounceInv'
  <2> SUFFICES ASSUME Orderly' PROVE /\ OneWriter' /\ ReadsPublic'
                                     /\ ~unannounced' => told' + Cardinality(Owing') = published'
    BY DEF AnnounceInv
  <2>1. OneWriter /\ ReadsPublic /\ (~unannounced => told + Cardinality(Owing) = published)
    BY <1>6 DEF Orderly, IInv, AnnounceInv
  <2>2. /\ req'[r] = x /\ \A q \in Requests \ {r} : req'[q] = req[q]
    BY <1>6, Typed DEF Steps
  <2>3. OneWriter' /\ ReadsPublic'
    BY <1>1, <1>6, <2>1, <2>2 DEF OneWriter, ReadsPublic, At
  <2>4. req[r].was = svc.public /\ ~Owes(req[r])
    BY <1>1, <2>1 DEF ReadsPublic, Owes, At
  <2>5. Owing \in SUBSET Requests /\ r \notin Owing /\ Cardinality(Owing) \in Nat
    BY <1>6, <2>4, OwingStep
  <2>6. told \in Nat /\ published \in Nat
    BY Typed DEF RowsTyped
  <2>7. CASE goes
    <3>1. Owing' = Owing \union {r}
      BY <1>6, <2>7, OwingStep
    <3>2. Cardinality(Owing') = Cardinality(Owing) + 1
      BY <3>1, <2>5, Counting
    <3>3. published' = published + 1
      BY <1>1, <2>4, <2>7
    <3> QED
      BY <1>1, <2>1, <2>3, <2>5, <2>6, <3>2, <3>3
  <2>8. CASE ~goes
    <3>1. Owing' = Owing
      BY <1>6, <2>5, <2>8, OwingStep
    <3>2. published' = published
      BY <1>1, <2>4, <2>6, <2>8
    <3> HIDE DEF goes
    <3> QED
      BY <1>1, <2>1, <2>3, <3>1, <3>2
  <2> QED
    BY <2>7, <2>8
<1> QED
  BY <1>7, <1>8, <1>9 DEF IInv

LEMMA AnnounceKeeps == ASSUME IInv, NEW r \in Requests, Announce(r) PROVE IInv'
<1>1. /\ At(r, "announce") /\ faults' = faults /\ told' = told + 1 /\ Goto(r, Idle)
      /\ UNCHANGED <<svc, cache, links, ai, now, edited, published, unannounced>>
  BY DEF Announce, rows
<1>2. Steps(r, Idle) /\ met' = met /\ RowsTyped'
  <2>1. Steps(r, Idle) /\ met' = met
    BY <1>1, IdleSteps
  <2>2. RowsTyped'
    <3>1. told' \in Nat
      BY <1>1, Typed DEF RowsTyped
    <3> QED
      BY <1>1, <3>1, Typed DEF RowsTyped
  <2> QED
    BY <2>1, <2>2
<1>3. LanguageInv'
  BY <1>1, <1>2, IdleType, RowsKept, BlankKeeps, Typed DEF At
<1>4. EraseInv'
  BY <1>1, <1>2, IdleType, OtherWorkErases DEF At, Purging
<1>5. AnnounceInv'
  <2> SUFFICES ASSUME Orderly' PROVE /\ OneWriter' /\ ReadsPublic'
                                     /\ ~unannounced' => told' + Cardinality(Owing') = published'
    BY DEF AnnounceInv
  <2>1. OneWriter /\ ReadsPublic /\ (~unannounced => told + Cardinality(Owing) = published)
    BY <1>2 DEF Orderly, IInv, AnnounceInv
  <2>2. /\ req'[r] = Idle /\ \A q \in Requests \ {r} : req'[q] = req[q]
    BY <1>2, Typed DEF Steps
  <2>3. OneWriter' /\ ReadsPublic'
    BY <1>1, <2>1, <2>2, IdleType DEF OneWriter, ReadsPublic, At
  <2>4. Owes(req[r]) /\ ~Owes(Idle)
    BY <1>1, IdleType DEF Owes, At
  <2>5. /\ Owing \in SUBSET Requests /\ r \in Owing /\ Owing' = Owing \ {r}
        /\ Cardinality(Owing) \in Nat
    BY <1>2, <2>4, IdleType, OwingStep
  <2>6. Cardinality(Owing') = Cardinality(Owing) - 1
    BY <2>5, Counting
  <2>7. told \in Nat /\ published \in Nat
    BY Typed DEF RowsTyped
  <2> QED
    BY <1>1, <2>1, <2>3, <2>5, <2>6, <2>7
<1> QED
  BY <1>3, <1>4, <1>5 DEF IInv

\* Nothing is owed any more of what is known to be lost.
LEMMA LossKeeps ==
  ASSUME IInv, NEW r \in Requests, PrepareFails(r) \/ AnnounceFails(r)
  PROVE  IInv'
<1>1. /\ req[r].at \in {"prepare", "announce"} /\ Fault /\ Goto(r, Idle)
      /\ UNCHANGED <<svc, cache, links, ai, now, edited, published, told>>
      /\ unannounced' \in BOOLEAN /\ (Owes(req[r]) \/ unannounced => unannounced')
  BY Typed DEF PrepareFails, AnnounceFails, rows, At, Owes, Request, RowsTyped
<1>2. Steps(r, Idle) /\ met' = met /\ RowsTyped'
  <2>1. Steps(r, Idle) /\ met' = met
    BY <1>1, IdleSteps
  <2>2. RowsTyped'
    BY <1>1, Typed DEF RowsTyped
  <2> QED
    BY <2>1, <2>2
<1>3. LanguageInv'
  BY <1>1, <1>2, IdleType, RowsKept, BlankKeeps, Typed DEF At
<1>4. EraseInv'
  BY <1>1, <1>2, IdleType, OtherWorkErases DEF Purging
<1>5. AnnounceInv'
  <2>1. CASE Owes(req[r])
    <3> SUFFICES ASSUME Orderly' PROVE OneWriter' /\ ReadsPublic'
      BY <1>1, <2>1 DEF AnnounceInv
    <3>1. OneWriter /\ ReadsPublic
      BY <1>2 DEF Orderly, IInv, AnnounceInv
    <3>2. /\ req'[r] = Idle /\ \A q \in Requests \ {r} : req'[q] = req[q]
      BY <1>2, Typed DEF Steps
    <3> QED
      BY <1>1, <3>1, <3>2, IdleType DEF OneWriter, ReadsPublic, At
  <2>2. CASE ~Owes(req[r])
    <3>1. ~Owes(Idle) /\ (~unannounced' => ~unannounced)
      BY <1>1, IdleType DEF Owes
    <3> QED
      BY <2>2, <3>1, <1>1, <1>2, IdleType, AnnounceKept
  <2> QED
    BY <2>1, <2>2
<1> QED
  BY <1>3, <1>4, <1>5 DEF IInv

-----------------------------------------------------------------------------
(* The trash and the permanent deletion.                                   *)

LEMMA WriteTrashedKeeps == ASSUME IInv, NEW r \in Requests, WriteTrashed(r) PROVE IInv'
<1>1. /\ At(r, "trash") /\ faults' = faults /\ Goto(r, Idle)
      /\ UNCHANGED <<cache, links, ai, now, edited, published, told, unannounced>>
      /\ svc' = [svc EXCEPT !.state = IF @ = "purged" THEN @ ELSE "trashed"]
  BY DEF WriteTrashed, past
<1>2. /\ svc' \in Service /\ svc'.state # "none" /\ (svc'.state = "purged" => svc.state = "purged")
      /\ svc'.description = svc.description /\ svc'.lang = svc.lang /\ svc'.public = svc.public
  BY <1>1, Typed DEF RowsTyped, Service, At
<1>3. Steps(r, Idle) /\ met' = met
  BY <1>1, IdleSteps
<1>4. RowsTyped'
  BY <1>1, <1>2, Typed DEF RowsTyped
<1>5. /\ OwnHashes'
      /\ ~edited' => /\ ~edited /\ KnownLanguage' /\ svc'.description \in {None, svc.description}
  BY <1>1, <1>2 DEF IInv, LanguageInv, OwnHashes, Spoken, KnownLanguage
<1>6. LanguageInv'
  BY <1>2, <1>3, <1>4, <1>5, IdleType, BlankKeeps
<1>7. EraseInv'
  BY <1>1, <1>2, <1>3, IdleType, OtherWorkErases DEF At, Purging
<1>8. AnnounceInv'
  <2>1. ~Owes(req[r]) /\ ~Owes(Idle)
    BY <1>1, IdleType DEF Owes, At
  <2> QED
    BY <2>1, <1>1, <1>2, <1>3, IdleType, AnnounceKept
<1> QED
  BY <1>6, <1>7, <1>8 DEF IInv

\* A permanent deletion that nothing overlapped is alone with the rows.
LEMMA PurgeAlone ==
  ASSUME IInv, NEW r \in Requests, NEW x \in Request, Steps(r, x), req[r].at \in Purging,
         "purge" \notin met
  PROVE  /\ req'[r] = x /\ \A q \in Requests \ {r} : req'[q] = req[q] /\ At(q, "idle")
         /\ Erasing /\ Gone
<1>1. /\ req'[r] = x /\ \A q \in Requests \ {r} : req'[q] = req[q]
  BY Typed DEF Steps
<1>2. Alone /\ Erasing /\ Gone
  BY DEF IInv, EraseInv
<1> QED
  BY <1>1, <1>2 DEF Alone

\* It finds no service that has been purged.
LEMMA NotYetGone ==
  ASSUME IInv, NEW r \in Requests, req[r].at \in Purging, "purge" \notin met
  PROVE  svc.state # "purged"
BY DEF IInv, EraseInv, Gone, ReadsErased, Purging

LEMMA DropKeeps ==
  ASSUME IInv, NEW r \in Requests, DropLinks(r) \/ DropTranslations(r)
  PROVE  IInv'
<1> DEFINE empty == [p \in Fields \X Languages |-> NoRow]
<1>1. PICK step \in {"translations", "rewrite"} :
        /\ Onward(r, step) /\ faults' = faults
        /\ req[r].at = IF step = "translations" THEN "links" ELSE "translations"
        /\ UNCHANGED <<svc, ai, now, edited, published, told, unannounced>>
        /\ step = "translations" => links' = << >> /\ cache' = cache
        /\ step = "rewrite" => cache' = empty /\ links' = links
  BY DEF DropLinks, DropTranslations, past, At
<1> DEFINE x == [req[r] EXCEPT !.at = step]
<1>2. req[r].at \in Purging /\ ~At(r, "view") /\ ~At(r, "idle")
  BY <1>1 DEF Purging, At
<1>3. Steps(r, x) /\ met' = met /\ x \in Request /\ x.at = step /\ Blank(x)
  BY <1>1, <1>2, OnwardSteps
<1> HIDE DEF x
<1>4. NoRow \in Row /\ NoRow.of = NoRow.hash /\ NoRow.of = None
  BY DEF Row, NoRow
<1>5. RowsTyped'
  <2>1. links' \in Seq(0 .. MaxDays + Life)
    <3>1. links \in Seq(0 .. MaxDays + Life) /\ << >> \in Seq(0 .. MaxDays + Life)
      BY Typed DEF RowsTyped
    <3> QED
      BY <1>1, <3>1
  <2>2. cache' \in [Fields \X Languages -> Row]
    BY <1>1, <1>4, Typed DEF RowsTyped
  <2> QED
    BY <1>1, <2>1, <2>2, Typed DEF RowsTyped
<1>6. /\ OwnHashes'
      /\ ~edited' => /\ ~edited /\ KnownLanguage' /\ svc'.description \in {None, svc.description}
  BY <1>1, <1>4 DEF IInv, LanguageInv, OwnHashes, Spoken, KnownLanguage
<1>7. LanguageInv'
  BY <1>1, <1>2, <1>3, <1>5, <1>6, BlankKeeps, Typed
<1>8. EraseInv'
  <2> SUFFICES ASSUME "purge" \notin met' PROVE Alone' /\ Erasing' /\ Gone'
    BY DEF EraseInv
  <2>1. /\ req'[r] = x /\ \A q \in Requests \ {r} : req'[q] = req[q] /\ At(q, "idle")
        /\ Erasing
    BY <1>2, <1>3, PurgeAlone
  <2>2. svc'.state # "purged"
    BY <1>1, <1>2, <1>3, NotYetGone
  <2>3. Alone'
    BY <2>1 DEF Alone, At, Purging
  <2>4. links' = << >> /\ (step = "rewrite" => cache' = empty)
    BY <1>1, <2>1 DEF Erasing
  <2>5. Erasing'
    BY <1>3, <2>1, <2>4 DEF Erasing, At
  <2> QED
    BY <2>2, <2>3, <2>5 DEF Gone
<1>9. AnnounceInv'
  <2>1. ~Owes(req[r]) /\ ~Owes(x) /\ x.at # "write"
    BY <1>1, <1>3 DEF Owes
  <2> QED
    BY <2>1, <1>1, <1>3, AnnounceKept
<1> QED
  BY <1>7, <1>8, <1>9 DEF IInv

LEMMA RewriteKeeps == ASSUME IInv, NEW r \in Requests, Rewrite(r) PROVE IInv'
<1>1. /\ At(r, "rewrite") /\ faults' = faults /\ Goto(r, Idle) /\ req[r].at \in Purging
      /\ UNCHANGED <<cache, links, ai, now, edited, published, told, unannounced>>
      /\ svc' = [state |-> "purged", title |-> Erased, description |-> None, lang |-> None,
                 public |-> FALSE]
  BY DEF Rewrite, past, At, Purging
<1>2. svc' \in Service /\ svc'.state = "purged" /\ svc'.description = None
      /\ svc'.title = Erased /\ ~svc'.public
  BY <1>1, TextsAssumption DEF Service
<1>3. Steps(r, Idle) /\ met' = met
  BY <1>1, IdleSteps
<1>4. RowsTyped'
  BY <1>1, <1>2, Typed DEF RowsTyped
<1>5. OwnHashes' /\ (~edited' => ~edited /\ KnownLanguage' /\ svc'.description \in {None, svc.description})
  BY <1>1, <1>2 DEF IInv, LanguageInv, OwnHashes, Spoken, KnownLanguage
<1>6. LanguageInv'
  BY <1>2, <1>3, <1>4, <1>5, IdleType, BlankKeeps
<1>7. EraseInv'
  <2> SUFFICES ASSUME "purge" \notin met' PROVE Alone' /\ Erasing' /\ Gone'
    BY DEF EraseInv
  <2>1. /\ req'[r] = Idle /\ \A q \in Requests \ {r} : req'[q] = req[q] /\ At(q, "idle")
        /\ Erasing
    BY <1>1, <1>3, IdleType, PurgeAlone
  <2>2. \A q \in Requests : req'[q].at = "idle"
    BY <2>1, IdleType DEF At
  <2>3. Alone' /\ Erasing'
    BY <2>2 DEF Alone, Erasing, At, Purging
  <2>4. links' = << >> /\ \A p \in Fields \X Languages : cache'[p].of \in {None, Erased}
    <3>1. links = << >> /\ \A p \in Fields \X Languages : cache[p] = NoRow
      BY <1>1, <2>1 DEF Erasing, At
    <3>2. NoRow.of = None
      BY DEF NoRow
    <3> QED
      BY <1>1, <3>1, <3>2
  <2>5. \A q \in Requests : ReadsErased(req'[q])
    <3>1. ReadsErased(Idle)
      BY IdleType DEF ReadsErased, Blank, Fields
    <3> SUFFICES ASSUME NEW q \in Requests \ {r} PROVE ReadsErased(req[q])
      BY <2>1, <3>1
    <3>2. At(q, "idle") /\ \A f \in Fields : Good(req[q], f)
      BY <2>1, Typed
    <3> QED
      BY <3>2 DEF ReadsErased, Good, At, Fields
  <2> QED
    BY <1>2, <2>3, <2>4, <2>5 DEF Gone, ReadsErased
<1>8. AnnounceInv'
  <2> SUFFICES ASSUME Orderly' PROVE /\ OneWriter' /\ ReadsPublic'
                                     /\ ~unannounced' => told' + Cardinality(Owing') = published'
    BY DEF AnnounceInv
  <2>1. Orderly /\ "purge" \notin met
    BY <1>3 DEF Orderly
  <2>2. ~unannounced => told + Cardinality(Owing) = published
    BY <2>1 DEF IInv, AnnounceInv
  <2>3. /\ req'[r] = Idle /\ \A q \in Requests \ {r} : req'[q] = req[q] /\ At(q, "idle")
    BY <1>1, <1>3, <2>1, IdleType, PurgeAlone
  <2>4. OneWriter' /\ ReadsPublic'
    BY <2>3, IdleType DEF OneWriter, ReadsPublic, At
  <2>5. Owing' = Owing
    BY <1>1, <1>3, IdleType, OwingStep DEF Owes, At
  <2> QED
    BY <1>1, <2>2, <2>4, <2>5
<1> QED
  BY <1>6, <1>7, <1>8 DEF IInv

-----------------------------------------------------------------------------
LEMMA StateFacts ==
  ASSUME IInv
  PROVE  /\ RowsTyped /\ req \in [Requests -> Request]
         /\ calls \in 0 .. MaxCalls /\ faults \in 0 .. MaxFaults
         /\ met \subseteq {"updates", "purge"}
BY DEF IInv, LanguageInv, TypeOK, RowsTyped

\* A day, or a change of the settings.
LEMMA ElsewhereKeeps ==
  ASSUME IInv, DayPasses \/ \E to \in {"off", "later", "on"} : UpdateOpenAiSettings(to)
  PROVE  IInv'
<1>1. /\ UNCHANGED <<svc, cache, links, req, met, edited, published, told, unannounced, faults>>
      /\ now' \in 0 .. MaxDays /\ ai' \in {"off", "later", "on"} /\ calls' \in 0 .. MaxCalls
  BY Bounds, StateFacts DEF DayPasses, UpdateOpenAiSettings, past, RowsTyped
<1>2. TypeOK'
  BY <1>1 DEF IInv, LanguageInv, TypeOK
<1>3. LanguageInv'
  BY <1>1, <1>2 DEF IInv, LanguageInv, Views, Good, OwnHashes, Spoken, KnownLanguage, Faithful,
                    Unborn, At
<1>4. EraseInv'
  BY <1>1 DEF IInv, EraseInv, Alone, Erasing, Gone, ReadsErased, At
<1>5. Owing' = Owing
  BY <1>1 DEF Owing, Owes
<1>6. AnnounceInv'
  BY <1>1, <1>5 DEF IInv, AnnounceInv, Orderly, OneWriter, ReadsPublic, At
<1> QED
  BY <1>3, <1>4, <1>6 DEF IInv

LEMMA CrashKeeps == ASSUME IInv, Crash PROVE IInv'
<1>1. /\ UNCHANGED <<svc, cache, links, ai, now, calls, met, edited, published, told>>
      /\ req' = [r \in Requests |-> Idle] /\ faults' \in 0 .. MaxFaults
      /\ unannounced' \in BOOLEAN
      /\ ~unannounced' => ~unannounced /\ \A r \in Requests : ~Owes(req[r])
  <2>1. /\ UNCHANGED <<svc, cache, links, ai, now, calls, met, edited, published, told>>
        /\ req' = [r \in Requests |-> Idle] /\ faults' \in 0 .. MaxFaults
    BY Bounds, StateFacts DEF Crash, Fault, rows
  <2>2. unannounced' = (unannounced \/ \E r \in Requests : At(r, "announce") \/ (At(r, "prepare") /\ req[r].was))
    BY DEF Crash
  <2>3. ~unannounced' => ~unannounced /\ \A r \in Requests : ~Owes(req[r])
    BY <2>2 DEF Owes, At
  <2>4. unannounced' \in BOOLEAN
    BY <2>2, StateFacts DEF RowsTyped
  <2> QED
    BY <2>1, <2>3, <2>4
<1>2. \A r \in Requests : req'[r] = Idle
  BY <1>1
<1>3. TypeOK'
  BY <1>1, IdleType DEF IInv, LanguageInv, TypeOK
<1>4. Views' /\ Unborn'
  BY <1>1, <1>2, IdleType, BlankGood DEF Views, Good, IInv, LanguageInv, Unborn, At
<1>5. Spoken' /\ OwnHashes'
  <2>1. \A r \in Requests : Faithful(req'[r], svc'.description)
    BY <1>2, IdleType, BlankGood
  <2> QED
    BY <1>1, <2>1 DEF IInv, LanguageInv, Spoken, OwnHashes, KnownLanguage, Faithful
<1>6. EraseInv'
  <2>1. ReadsErased(Idle)
    BY IdleType DEF ReadsErased, Blank, Fields
  <2>2. Alone' /\ Erasing'
    BY <1>2, IdleType DEF Alone, Erasing, At, Purging
  <2>3. Gone => Gone'
    BY <1>1, <1>2, <2>1 DEF Gone, ReadsErased
  <2> QED
    BY <1>1, <2>2, <2>3 DEF IInv, EraseInv
<1>7. AnnounceInv'
  <2>1. OneWriter' /\ ReadsPublic'
    BY <1>2, IdleType DEF OneWriter, ReadsPublic, At
  <2>2. Owing' = {}
    BY <1>2, IdleType DEF Owing, Owes
  <2>3. ~unannounced' => Owing = {}
    BY <1>1 DEF Owing
  <2> QED
    BY <1>1, <2>1, <2>2, <2>3 DEF IInv, AnnounceInv, Orderly
<1> QED
  BY <1>3, <1>4, <1>5, <1>6, <1>7 DEF IInv, LanguageInv

LEMMA InitInv == Init => IInv
<1> SUFFICES ASSUME Init PROVE IInv
  OBVIOUS
<1>1. \A r \in Requests : req[r] = Idle
  BY DEF Init
<1>2. TypeOK
  <2>1. svc \in Service /\ cache \in [Fields \X Languages -> Row]
    BY DEF Init, Service, Row, NoRow
  <2>2. req \in [Requests -> Request] /\ calls \in 0 .. MaxCalls /\ faults \in 0 .. MaxFaults
        /\ now \in 0 .. MaxDays
    BY IdleType, Bounds DEF Init
  <2>3. links \in Seq(0 .. MaxDays + Life)
    BY DEF Init
  <2> QED
    BY <2>1, <2>2, <2>3 DEF Init, TypeOK
<1>3. Views /\ OwnHashes /\ Unborn
  BY <1>1, IdleType, BlankGood DEF Init, Views, OwnHashes, Unborn, At, NoRow
<1>4. Spoken
  BY <1>1, IdleType, BlankGood DEF Init, Spoken, KnownLanguage
<1>5. EraseInv
  BY <1>1, IdleType DEF Init, EraseInv, Alone, Erasing, Gone, At, Purging
<1>6. AnnounceInv
  <2>1. Owing = {}
    BY <1>1, IdleType DEF Owing, Owes
  <2>2. Cardinality(Owing) = 0
    BY <2>1, FS_EmptySet
  <2> QED
    <3>1. OneWriter /\ ReadsPublic
      BY <1>1, IdleType DEF OneWriter, ReadsPublic, At
    <3>2. told = 0 /\ published = 0
      BY DEF Init
    <3> QED
      BY <2>2, <3>1, <3>2 DEF AnnounceInv
<1> QED
  BY <1>2, <1>3, <1>4, <1>5, <1>6 DEF IInv, LanguageInv

LEMMA NextKeeps == IInv /\ [Next]_vars => IInv'
<1> SUFFICES ASSUME IInv, [Next]_vars PROVE IInv'
  OBVIOUS
<1>1. CASE UNCHANGED vars
  <2>1. UNCHANGED <<svc, cache, links, ai, now, req, calls, faults, met, edited, published, told,
                    unannounced>>
    BY <1>1 DEF vars, rows, past
  <2>2. TypeOK'
    BY <2>1 DEF IInv, LanguageInv, TypeOK
  <2>3. LanguageInv'
    BY <2>1, <2>2 DEF IInv, LanguageInv, Views, Good, OwnHashes, Spoken, KnownLanguage, Faithful,
                      Unborn, At
  <2>4. EraseInv' /\ AnnounceInv'
    BY <2>1 DEF IInv, EraseInv, Alone, Erasing, Gone, ReadsErased, At, AnnounceInv, Orderly,
                OneWriter, ReadsPublic, Owing, Owes
  <2> QED
    BY <2>3, <2>4 DEF IInv
<1>2. ASSUME NEW r \in Requests, Call(r) PROVE IInv'
  <2>1. CASE \E who \in {"staff", "external", "history", "link"}, to \in Languages : View(r, who, to)
    BY <2>1, ViewKeeps
  <2>2. CASE \E d \in Drafts, auto, manifest \in BOOLEAN :
               Create(r, d.title, d.description, auto, manifest)
    BY <2>2, CreateKeeps
  <2> QED
    BY <1>2, <2>1, <2>2, CallsKeep DEF Call
<1>3. ASSUME NEW r \in Requests, Continue(r) PROVE IInv'
  BY <1>3, TranslateKeeps, QuietStepsKeep, WriteUpdateKeeps, AnnounceKeeps, WriteTrashedKeeps,
     DropKeeps, RewriteKeeps DEF Continue
<1>4. ASSUME NEW r \in Requests, Fail(r) PROVE IInv'
  BY <1>4, PartFailsKeeps, LossKeeps DEF Fail
<1> QED
  BY <1>1, <1>2, <1>3, <1>4, ElsewhereKeeps, CrashKeeps DEF Next

THEOREM Invariant == Spec => []IInv
BY InitInv, NextKeeps, PTL DEF Spec

\* Every row and every handler of a service is well-formed.
THEOREM TypeCorrect == Spec => []TypeOK
<1>1. IInv => TypeOK
  BY DEF IInv, LanguageInv
<1> QED
  BY <1>1, Invariant, PTL

\* What is shown as a translation is one of the text that is read, and what is
\* shown as it was written was itself taken for one in the reader's language,
\* unless it was edited (translateField, persistDetectedLanguage).
THEOREM ReadersUnderstand == Spec => []ShownInLanguage
<1>1. IInv => ShownInLanguage
  <2> SUFFICES ASSUME IInv, NEW r \in Requests, NEW f \in Fields, PartAt(r, f, "done")
               PROVE  LET part == req[r].part[f] IN
                      /\ part.status = "translated" => part.shown = part.text
                      /\ (part.status = "same" /\ f = "description" /\ ~edited) =>
                           req[r].to \in Verdicts(part.text)
    BY DEF ShownInLanguage
  <2>1. Good(req[r], f) /\ (~edited => Faithful(req[r], svc.description))
    BY DEF IInv, LanguageInv, Views, Spoken
  <2>2. req[r].to # None
    BY Typed DEF Request, Languages, None
  <2> QED
    BY <2>1, <2>2 DEF Good, Faithful
<1> QED
  BY <1>1, Invariant, PTL

\* A permanent deletion that nothing overlapped leaves no text of the service,
\* no translation and no link, and none comes back (permanentDelete).
THEOREM NothingComesBack == Spec => []ErasedStaysErased
<1>1. IInv => ErasedStaysErased
  BY DEF IInv, EraseInv, Gone, ErasedStaysErased
<1> QED
  BY <1>1, Invariant, PTL

\* A service is announced each time it becomes public, and only then, but for
\* the overlaps and losses that are named (create, update).
THEOREM NewsAddUp == Spec => []AnnouncedOnce
<1>1. IInv => AnnouncedOnce
  <2> SUFFICES ASSUME IInv, \A r \in Requests : req[r].at \notin {"prepare", "announce"},
                      Orderly, ~unannounced
               PROVE  told = published
    BY DEF AnnouncedOnce, Orderly
  <2>1. told + Cardinality(Owing) = published
    BY DEF IInv, AnnounceInv
  <2>2. Owing = {}
    BY DEF Owing, Owes
  <2>3. Cardinality(Owing) = 0
    BY <2>2, FS_EmptySet
  <2>4. told \in Nat
    BY StateFacts DEF RowsTyped
  <2> QED
    BY <2>1, <2>3, <2>4
<1> QED
  BY <1>1, Invariant, PTL

-----------------------------------------------------------------------------
(* Proofs about Portal, for any rows, readers and roles.  The invariant is   *)
(* about what a request under way has read: what it would be shown now is in *)
(* what it could have been shown, unless both its account and the rows have  *)
(* changed, or its restriction was lifted.                                   *)

USE PortalAssumption, PeopleAssumption

\* What a request that has been let in carries.
Carried(q) ==
  /\ DOMAIN q = {"at", "who", "end", "part", "owner", "mode", "seen", "odd", "changed"}
  /\ q.at \in {"mode", "query", "answer"} /\ q.end \in DOMAIN Ends /\ q.who \in Accounts /\ q.mode \in Modes
  /\ q.at = "mode" => Worker(q.who)

MailTypes ==
  {NoMail} \union [at : {"editors", "asset"}, about : Services]
           \union [at : {"admins", "externals"}, about : Services, owner : Owners \union {NoOwner}]
           \union [at : {"sent"}, about : Services, to : SUBSET Accounts,
                   owner : Owners \union {NoOwner}]

DbTyped == db \in Db /\ wrote \in 0..MaxChanges
Requested == /\ reading \in [Readers -> {reading[r] : r \in Readers}]
             /\ \A r \in Readers : reading[r] = NotReading \/ Carried(reading[r])
MailTyped == mailing \in MailTypes

\* A request that has still to ask its queries.
Reading(q) == q.at \in {"mode", "query"}
Its(d, q) == Query(d, q.end, q.part, q.who, q.owner, q.mode)
Excused(c) == "lifted" \in c \/ {"account", "rows"} \subseteq c

\* What a request is shown when it asks now is in what it could have been shown, as long
\* as nothing but its account, or nothing but the rows, has changed.
Followed(d, q) ==
  /\ Reading(q) => Now(d, q.end, q.part, q.who) \in q.seen
  /\ Reading(q) /\ ~External(q.who) => q.owner = OwnerOf(d, q.who)
  /\ q.at = "query" =>
       /\ q.owner # OwnerOf(d, q.who) \/ q.mode # ModeOf(d, q.who) => "account" \in q.changed
       /\ Excused(q.changed) \/ Its(d, q) \in q.seen
  /\ q.at = "answer" /\ q.odd => Excused(q.changed)

PortalInv == /\ DbTyped /\ Requested /\ MailTyped
             /\ \A r \in Readers : Followed(db, reading[r])

-----------------------------------------------------------------------------
(* What a query depends on.                                                 *)

\* Two databases show the same to whoever is neither a manager nor restricted.
SameView(d, b) ==
  /\ Live(d, Services) = Live(b, Services) /\ Live(d, Assets) = Live(b, Assets)
  /\ \A a \in Live(b, Assets) : d.active[a] = b.active[a]
  /\ \A s \in Services : d.public[s] = b.public[s] /\ d.archived[s] = b.archived[s]
  /\ \A a \in Assets : d.owner[a] = b.owner[a]

LEMMA LiveIn == ASSUME NEW d, NEW X PROVE Live(d, X) \subseteq X
  BY DEF Live

LEMMA SameQuery ==
  ASSUME NEW d, NEW b, SameView(d, b), NEW u \in Accounts, ~Manager(u), NEW e, NEW part, NEW o, NEW m,
         Worker(u) => m # "RESTRICTED", e \in DOMAIN Ends
  PROVE  Query(d, e, part, u, o, m) = Query(b, e, part, u, o, m)
<1> DEFINE LS == Live(b, Services)
           LA == Live(b, Assets)
<1>1. /\ LS = Live(d, Services) /\ LA = Live(d, Assets) /\ LS \subseteq Services /\ LA \subseteq Assets
      /\ \A a \in LA : d.active[a] = b.active[a]
      /\ \A s \in Services : d.public[s] = b.public[s] /\ d.archived[s] = b.archived[s]
      /\ \A s \in Services : AssetOf[s] \in Assets
      /\ \A a \in Assets : d.owner[a] = b.owner[a]
  BY LiveIn DEF SameView
<1> HIDE DEF LS, LA
<1>2. Granted(d, u, m) = Assets /\ Granted(b, u, m) = Assets
  BY DEF Granted
<1>3. Owned(d, o) = Owned(b, o)
  BY <1>1 DEF Owned
<1>4. PublicOf(d, o) = PublicOf(b, o) /\ CompletedOf(d, o) = CompletedOf(b, o)
  BY <1>1, <1>3 DEF PublicOf, CompletedOf
<1>5. ServiceList(d, u, o, m, FALSE) = ServiceList(b, u, o, m, FALSE)
  BY <1>1, <1>2, <1>4 DEF ServiceList, LS
<1>6. ServiceStats(d, u, o) = ServiceStats(b, u, o) /\ ServiceOptions(d, u, o) = ServiceOptions(b, u, o)
  BY <1>1, <1>4 DEF ServiceStats, ServiceOptions, LS
<1>7. AssetList(d, u, o, m) = AssetList(b, u, o, m)
  BY <1>1, <1>2 DEF AssetList, LA
<1>8. AssetStats(d, u, o, m, part) = AssetStats(b, u, o, m, part)
  <2> DEFINE Some(x) == {a \in Live(x, Assets) :
                 /\ ~Manager(u) => x.active[a]
                 /\ a \in Granted(x, u, m)
                 /\ External(u) => x.owner[a] = o}
  <2>1. Some(d) = Some(b) /\ Some(b) \subseteq LA
    BY <1>1, <1>2 DEF LA
  <2> HIDE DEF Some
  <2>2. Active(d, Some(d)) = Active(b, Some(b))
    BY <1>1, <2>1 DEF Active
  <2>3. /\ AssetStats(d, u, o, m, part) =
             CASE part = "total"  -> Some(d)
               [] part = "active" -> Active(d, Some(d))
               [] part = "used"   -> {a \in Some(d) : \E s \in Services : AssetOf[s] = a}
        /\ AssetStats(b, u, o, m, part) =
             CASE part = "total"  -> Some(b)
               [] part = "active" -> Active(b, Some(b))
               [] part = "used"   -> {a \in Some(b) : \E s \in Services : AssetOf[s] = a}
    BY DEF AssetStats, Some
  <2> QED BY <2>1, <2>2, <2>3
<1>9. AssetOptions(d, u, o, m) = AssetOptions(b, u, o, m)
  BY <1>1, <1>2 DEF AssetOptions, LA
<1>10. Dashboard(d, u, o, m, part) = Dashboard(b, u, o, m, part)
  <2>1. Active(d, Live(d, Assets)) = Active(b, Live(b, Assets)) /\ Active(b, Live(b, Assets)) \subseteq Assets
    BY <1>1 DEF Active, LA
  <2> DEFINE Mine(x) == {a \in Active(x, Live(x, Assets)) :
                                  IF External(u) THEN x.owner[a] = o
                                                 ELSE a \in Granted(x, u, m)}
             Some(x) == {s \in Live(x, Services) : /\ Worker(u) => WorkerOf[s] = u
                                                   /\ External(u) => s \in PublicOf(x, o)}
  <2>2. Mine(d) = Mine(b)
    BY <1>1, <1>2, <2>1
  <2>3. Some(d) = Some(b)
    BY <1>1, <1>4 DEF LS
  <2> HIDE DEF Mine, Some
  <2>4. \A x \in {d, b} : Dashboard(x, u, o, m, part) =
          CASE part = "assets" -> Mine(x) [] part = "services" -> Some(x)
            [] part = "workers" -> {} [] part = "owners" -> {}
    BY DEF Dashboard, Mine, Some
  <2> QED BY <2>2, <2>3, <2>4
<1>11. Distinct(d, u, o) = Distinct(b, u, o)
  <2>1. Live(d, Owned(d, o)) = Live(b, Owned(b, o))
    <3>1. Live(d, Owned(d, o)) = LA \intersect Owned(d, o) /\ Live(b, Owned(b, o)) = LA \intersect Owned(b, o)
      BY <1>1 DEF Live, Owned, LA
    <3> QED BY <3>1, <1>3
  <2> QED BY <1>1, <2>1 DEF Distinct, LS
<1> QED BY <1>5, <1>6, <1>7, <1>8, <1>9, <1>10, <1>11 DEF Query, Ends

-----------------------------------------------------------------------------
(* Changes.                                                                 *)

SameAccounts(d) == /\ \A u \in With("EXTERNAL") : d.owner[u] = db.owner[u]
                   /\ d.mode = db.mode /\ d.grants = db.grants

\* A change of rows, or of an account, of which others see nothing.
Change(d) == d \in Db /\ (SameAccounts(d) \/ SameView(d, db))

LEMMA FieldsOfDb ==
  ASSUME DbTyped
  PROVE  /\ db = [state |-> db.state, active |-> db.active, public |-> db.public, archived |-> db.archived,
                  batch |-> db.batch, owner |-> db.owner, mode |-> db.mode, grants |-> db.grants]
         /\ db.state  \in [Rows -> States]
         /\ db.active \in [Assets \union Owners \union Accounts -> BOOLEAN]
         /\ db.public \in [Services -> BOOLEAN]
         /\ db.archived \in [Services -> BOOLEAN]
         /\ db.batch  \in [Rows -> 0..MaxChanges]
         /\ db.owner  \in [Assets \union With("EXTERNAL") -> Owners \union {NoOwner}]
         /\ db.mode   \in [With("WORKER") -> Modes]
         /\ db.grants \in [With("WORKER") -> SUBSET Assets]
  BY DEF DbTyped, Db

LEMMA WithIn == ASSUME NEW role PROVE With(role) \subseteq Accounts
  BY DEF With

LEMMA SetAssetAccessChanges ==
  ASSUME DbTyped, NEW u \in With("WORKER"), NEW m \in Modes, NEW g \in SUBSET Assets
  PROVE  Change([db EXCEPT !.mode[u] = m, !.grants[u] = IF m = "UNRESTRICTED" THEN {} ELSE g])
<1> DEFINE d == [db EXCEPT !.mode[u] = m, !.grants[u] = IF m = "UNRESTRICTED" THEN {} ELSE g]
<1>1. d \in Db
  BY FieldsOfDb DEF Db
<1>2. SameView(d, db)
  BY FieldsOfDb DEF SameView, Live
<1> QED BY <1>1, <1>2 DEF Change

LEMMA UpdateUserChanges ==
  ASSUME DbTyped, NEW u \in Accounts
  PROVE  /\ External(u) => \A o \in Owners : Change([db EXCEPT !.owner[u] = o])
         /\ Worker(u)   => \A m \in Modes : Change([db EXCEPT !.mode[u] = m])
<1>1. ASSUME External(u), NEW o \in Owners PROVE Change([db EXCEPT !.owner[u] = o])
  <2> DEFINE d == [db EXCEPT !.owner[u] = o]
  <2>1. d \in Db
    BY <1>1, FieldsOfDb DEF Db, External, With
  <2>2. SameView(d, db)
    BY <1>1, FieldsOfDb DEF SameView, Live, External, With
  <2> QED BY <2>1, <2>2 DEF Change
<1>2. ASSUME Worker(u), NEW m \in Modes PROVE Change([db EXCEPT !.mode[u] = m])
  <2> DEFINE d == [db EXCEPT !.mode[u] = m]
  <2>1. d \in Db
    BY <1>2, FieldsOfDb DEF Db, Worker, With
  <2>2. SameView(d, db)
    BY <1>2, FieldsOfDb DEF SameView, Live
  <2> QED BY <2>1, <2>2 DEF Change
<1> QED BY <1>1, <1>2

LEMMA ToggleUserChanges ==
  ASSUME DbTyped, NEW u \in Accounts
  PROVE  Change([db EXCEPT !.active[u] = ~@])
<1>1. [db EXCEPT !.active[u] = ~@] \in Db
  BY FieldsOfDb DEF Db
<1>2. SameAccounts([db EXCEPT !.active[u] = ~@])
  BY FieldsOfDb DEF SameAccounts
<1> QED BY <1>1, <1>2 DEF Change

LEMMA AssignOwnerChanges ==
  ASSUME DbTyped, NEW a \in Assets, NEW o \in Owners
  PROVE  Change([db EXCEPT !.owner[a] = o])
<1>1. [db EXCEPT !.owner[a] = o] \in Db
  BY FieldsOfDb DEF Db
<1>2. SameAccounts([db EXCEPT !.owner[a] = o])
  BY FieldsOfDb, WithIn DEF SameAccounts
<1> QED BY <1>1, <1>2 DEF Change

LEMMA ToggleStatusChanges ==
  ASSUME DbTyped, NEW a \in Assets, NEW b \in BOOLEAN
  PROVE  Change([db EXCEPT !.active[a] = b])
<1>1. [db EXCEPT !.active[a] = b] \in Db
  BY FieldsOfDb DEF Db
<1>2. SameAccounts([db EXCEPT !.active[a] = b])
  BY FieldsOfDb DEF SameAccounts
<1> QED BY <1>1, <1>2 DEF Change

LEMMA DeactivateOwnerChanges ==
  ASSUME DbTyped, NEW o \in Owners
  PROVE  Change([db EXCEPT !.active =
           [x \in DOMAIN @ |-> @[x] /\ x # o /\ ~(x \in Assets /\ db.owner[x] = o)]])
<1> DEFINE d == [db EXCEPT !.active =
           [x \in DOMAIN @ |-> @[x] /\ x # o /\ ~(x \in Assets /\ db.owner[x] = o)]]
<1>1. d \in Db
  BY FieldsOfDb DEF Db
<1>2. SameAccounts(d)
  BY FieldsOfDb DEF SameAccounts
<1> QED BY <1>1, <1>2 DEF Change

LEMMA TrashedChanges ==
  ASSUME DbTyped, wrote < MaxChanges, NEW xs
  PROVE  Change(Trashed(xs))
<1>1. Trashed(xs) \in Db
  <2>1. wrote + 1 \in 0..MaxChanges
    BY DEF DbTyped
  <2> QED BY <2>1, FieldsOfDb DEF Db, Trashed, States
<1>2. SameAccounts(Trashed(xs))
  BY FieldsOfDb DEF SameAccounts, Trashed
<1> QED BY <1>1, <1>2 DEF Change

LEMMA RestoreChanges ==
  ASSUME DbTyped, NEW xs
  PROVE  Change([db EXCEPT !.state  = [y \in Rows |-> IF y \in xs THEN "live" ELSE @[y]],
                           !.batch  = [y \in Rows |-> IF y \in xs THEN 0 ELSE @[y]],
                           !.active = [y \in DOMAIN @ |-> @[y] \/ y \in xs]])
<1> DEFINE d == [db EXCEPT !.state  = [y \in Rows |-> IF y \in xs THEN "live" ELSE @[y]],
                           !.batch  = [y \in Rows |-> IF y \in xs THEN 0 ELSE @[y]],
                           !.active = [y \in DOMAIN @ |-> @[y] \/ y \in xs]]
<1>1. d \in Db
  <2>1. [y \in Rows |-> IF y \in xs THEN "live" ELSE db.state[y]] \in [Rows -> States]
    BY FieldsOfDb DEF States
  <2>2. [y \in Rows |-> IF y \in xs THEN 0 ELSE db.batch[y]] \in [Rows -> 0..MaxChanges]
    <3>1. 0 \in 0..MaxChanges
      OBVIOUS
    <3> QED BY <3>1, FieldsOfDb
  <2>3. [y \in DOMAIN db.active |-> db.active[y] \/ y \in xs]
           \in [Assets \union Owners \union Accounts -> BOOLEAN]
    BY FieldsOfDb
  <2> QED BY <2>1, <2>2, <2>3, FieldsOfDb DEF Db
<1>2. SameAccounts(d)
  BY FieldsOfDb DEF SameAccounts
<1> QED BY <1>1, <1>2 DEF Change

PurgedDb(x) ==
  [db EXCEPT !.state[x] = "purged",
             !.active = [y \in DOMAIN @ |-> @[y] /\ y # x],
             !.public = [s \in Services |-> @[s] /\ s # x],
             !.owner  = [y \in DOMAIN @ |-> IF y = x /\ x \in Accounts THEN NoOwner ELSE @[y]],
             !.grants = [u \in DOMAIN @ |-> IF u = x THEN {} ELSE @[u] \ {x}]]

LEMMA PurgeChanges ==
  ASSUME DbTyped, NEW x \in InTrash(db, Rows)
  PROVE  Change(PurgedDb(x))
<1> DEFINE d == PurgedDb(x)
<1>0. x \in Rows /\ db.state[x] = "deleted"
  BY DEF InTrash
<1>1. d \in Db
  BY <1>0, FieldsOfDb DEF Db, PurgedDb, States
<1>2. CASE x \in Services \union Owners
  <2>1. \A u \in With("EXTERNAL") : d.owner[u] = db.owner[u]
    BY <1>2, FieldsOfDb, WithIn DEF PurgedDb
  <2>2. d.mode = db.mode
    BY FieldsOfDb DEF PurgedDb
  <2>3. d.grants = [u \in With("WORKER") |-> IF u = x THEN {} ELSE db.grants[u] \ {x}]
    BY FieldsOfDb DEF PurgedDb
  <2>4. \A u \in With("WORKER") : d.grants[u] = db.grants[u]
    <3> TAKE u \in With("WORKER")
    <3>1. u # x /\ x \notin Assets /\ db.grants[u] \subseteq Assets
      BY <1>2, FieldsOfDb, WithIn
    <3> QED BY <2>3, <3>1
  <2>5. d.grants = db.grants
    <3>1. /\ d.grants \in [With("WORKER") -> SUBSET Assets]
          /\ db.grants \in [With("WORKER") -> SUBSET Assets]
      BY <1>1, FieldsOfDb DEF Db
    <3> HIDE DEF d
    <3> QED BY <2>4, <3>1
  <2> QED BY <1>1, <2>1, <2>2, <2>5 DEF Change, SameAccounts
<1>3. CASE x \in Assets \union Accounts
  <2>1. \A y \in Rows : d.state[y] = IF y = x THEN "purged" ELSE db.state[y]
    BY <1>0, FieldsOfDb DEF PurgedDb
  <2>2. \A X \in {Services, Assets} : Live(d, X) = Live(db, X)
    BY <2>1, <1>0 DEF Live, Rows
  <2>3. \A a \in Live(db, Assets) : d.active[a] = db.active[a]
    BY <1>0, FieldsOfDb DEF PurgedDb, Live
  <2>4. \A s \in Services : d.public[s] = db.public[s] /\ d.archived[s] = db.archived[s]
    BY <1>3, FieldsOfDb DEF PurgedDb
  <2>5. \A a \in Assets : d.owner[a] = db.owner[a]
    BY <1>3, FieldsOfDb DEF PurgedDb
  <2> QED BY <1>1, <2>2, <2>3, <2>4, <2>5 DEF Change, SameView
<1> QED BY <1>0, <1>2, <1>3 DEF Rows

LEMMA UpdateServiceChanges ==
  ASSUME DbTyped, NEW s \in Services, NEW b \in BOOLEAN, NEW z \in BOOLEAN
  PROVE  Change([db EXCEPT !.public[s] = b, !.archived[s] = z])
<1>1. [db EXCEPT !.public[s] = b, !.archived[s] = z] \in Db
  BY FieldsOfDb DEF Db
<1>2. SameAccounts([db EXCEPT !.public[s] = b, !.archived[s] = z])
  BY FieldsOfDb DEF SameAccounts
<1> QED BY <1>1, <1>2 DEF Change

Committed == /\ Change(db') /\ wrote < MaxChanges /\ wrote' = wrote + 1
             /\ reading' = [r \in Readers |-> Watched(reading[r], db')]

LEMMA CommitChanges ==
  ASSUME NEW d, Change(d), Commit(d) PROVE Committed
  BY DEF Commit, Committed

LEMMA PortalChangeCommits ==
  ASSUME DbTyped, PortalChange PROVE Committed /\ mailing' = mailing
<1>1. ASSUME NEW u \in With("WORKER"), NEW m \in Modes, NEW g \in SUBSET Assets, SetAssetAccess(u, m, g)
      PROVE Committed /\ mailing' = mailing
  BY <1>1, SetAssetAccessChanges, CommitChanges DEF SetAssetAccess
<1>2. ASSUME NEW u \in Accounts, UpdateUser(u) PROVE Committed /\ mailing' = mailing
  <2>1. mailing' = mailing
    BY <1>2 DEF UpdateUser
  <2>2. CASE \E o \in Active(db, Owners) : External(u) /\ Commit([db EXCEPT !.owner[u] = o])
    BY <2>1, <2>2, UpdateUserChanges, CommitChanges DEF Active
  <2>3. CASE \E m \in Modes : Worker(u) /\ Commit([db EXCEPT !.mode[u] = m])
    BY <2>1, <2>3, UpdateUserChanges, CommitChanges
  <2> QED BY <1>2, <2>2, <2>3 DEF UpdateUser
<1>3. ASSUME NEW u \in Accounts, ToggleUser(u) PROVE Committed /\ mailing' = mailing
  BY <1>3, ToggleUserChanges, CommitChanges DEF ToggleUser
<1>4. ASSUME NEW xs, Commit(Trashed(xs)), UNCHANGED mailing PROVE Committed /\ mailing' = mailing
  BY <1>4, TrashedChanges, CommitChanges DEF Commit
<1>5. ASSUME NEW u \in Accounts, RemoveUser(u) PROVE Committed /\ mailing' = mailing
  BY <1>5, <1>4 DEF RemoveUser
<1>6. ASSUME NEW a \in Assets, NEW o \in Owners, AssignOwner(a, o) PROVE Committed /\ mailing' = mailing
  BY <1>6, AssignOwnerChanges, CommitChanges DEF AssignOwner
<1>7. ASSUME NEW a \in Assets, NEW b \in BOOLEAN, ToggleStatus(a, b) PROVE Committed /\ mailing' = mailing
  BY <1>7, ToggleStatusChanges, CommitChanges DEF ToggleStatus
<1>8. ASSUME NEW o \in Owners, DeactivateOwner(o) PROVE Committed /\ mailing' = mailing
  BY <1>8, DeactivateOwnerChanges, CommitChanges DEF DeactivateOwner
<1>9. ASSUME NEW o \in Owners, RemoveOwner(o) PROVE Committed /\ mailing' = mailing
  BY <1>9, <1>4 DEF RemoveOwner
<1>10. ASSUME NEW s \in Services, RemoveService(s) PROVE Committed /\ mailing' = mailing
  BY <1>10, <1>4 DEF RemoveService
<1>11. ASSUME NEW a \in Assets, RemoveAsset(a) PROVE Committed /\ mailing' = mailing
  BY <1>11, <1>4 DEF RemoveAsset
<1>12. ASSUME NEW x \in InTrash(db, Rows), Purge(x) PROVE Committed /\ mailing' = mailing
  BY <1>12, PurgeChanges, CommitChanges DEF Purge, PurgedDb
<1>13. ASSUME NEW x, NEW xs, Restore(x, xs) PROVE Committed /\ mailing' = mailing
  <2> DEFINE d == [db EXCEPT !.state  = [y \in Rows |-> IF y \in {x} \union xs THEN "live" ELSE @[y]],
                             !.batch  = [y \in Rows |-> IF y \in {x} \union xs THEN 0 ELSE @[y]],
                             !.active = [y \in DOMAIN @ |-> @[y] \/ y \in {x} \union xs]]
  <2>1. Commit(d) /\ mailing' = mailing
    BY <1>13 DEF Restore
  <2>2. Change(d)
    BY RestoreChanges
  <2> HIDE DEF d
  <2> QED BY <2>1, <2>2, CommitChanges
<1> QED BY <1>1, <1>2, <1>3, <1>5, <1>6, <1>7, <1>8, <1>9, <1>10, <1>11, <1>12, <1>13
        DEF PortalChange

-----------------------------------------------------------------------------
(* Requests that read while something changes.                              *)

\* What a change adds to what a request under way has met.
Adds(q, d) ==
  (IF Lifted(q, d) THEN {"lifted"} ELSE {}) \union
  (IF \/ OwnerOf(d, q.who) # OwnerOf(db, q.who) \/ ModeOf(d, q.who) # ModeOf(db, q.who)
      \/ Worker(q.who) /\ d.grants[q.who] # db.grants[q.who]
   THEN {"account"} ELSE {"rows"})

LEMMA WatchedFields ==
  ASSUME NEW q, Carried(q), NEW d
  PROVE  LET n == Watched(q, d)
         IN /\ Carried(n) /\ n.at = q.at /\ n.who = q.who /\ n.end = q.end /\ n.part = q.part
            /\ n.owner = q.owner /\ n.mode = q.mode /\ n.odd = q.odd
            /\ Reading(q) => /\ n.seen = q.seen \union {Now(d, q.end, q.part, q.who)}
                             /\ n.changed = q.changed \union Adds(q, d)
            /\ ~Reading(q) => n = q
<1>1. CASE Reading(q)
  <2>1. Watched(q, d) = [q EXCEPT !.seen = q.seen \union {Now(d, q.end, q.part, q.who)},
                                  !.changed = q.changed \union Adds(q, d)]
    BY <1>1 DEF Watched, Adds, Reading
  <2>2. /\ Carried(Watched(q, d)) /\ Watched(q, d).at = q.at /\ Watched(q, d).who = q.who
        /\ Watched(q, d).end = q.end /\ Watched(q, d).part = q.part
        /\ Watched(q, d).owner = q.owner /\ Watched(q, d).mode = q.mode /\ Watched(q, d).odd = q.odd
        /\ Watched(q, d).seen = q.seen \union {Now(d, q.end, q.part, q.who)}
        /\ Watched(q, d).changed = q.changed \union Adds(q, d)
    <3> DEFINE ss == q.seen \union {Now(d, q.end, q.part, q.who)}
               cc == q.changed \union Adds(q, d)
    <3>1. Watched(q, d) = [q EXCEPT !.seen = ss, !.changed = cc]
      BY <2>1
    <3> HIDE DEF ss, cc
    <3> DEFINE n == Watched(q, d)
    <3>2. /\ DOMAIN n = DOMAIN q /\ n.at = q.at /\ n.who = q.who /\ n.end = q.end /\ n.part = q.part
          /\ n.owner = q.owner /\ n.mode = q.mode /\ n.odd = q.odd
          /\ n.seen = ss /\ n.changed = cc
      BY <3>1 DEF Carried
    <3> HIDE DEF n
    <3>3. Carried(n)
      BY <3>2 DEF Carried
    <3> QED BY <3>2, <3>3 DEF n, ss, cc
  <2> QED BY <1>1, <2>2
<1>2. CASE ~Reading(q)
  BY <1>2 DEF Watched, Reading
<1> QED BY <1>1, <1>2

LEMMA ChangeIsFollowed ==
  ASSUME DbTyped, NEW q, Carried(q), NEW d, Change(d), Followed(db, q)
  PROVE  Followed(d, Watched(q, d))
<1> DEFINE n == Watched(q, d)
<1>1. CASE ~Reading(q)
  <2>1. n = q
    BY <1>1, WatchedFields
  <2> QED BY <1>1, <2>1 DEF Followed, Reading
<1>2. CASE Reading(q)
  <2>1. /\ n.at = q.at /\ n.who = q.who /\ n.end = q.end /\ n.part = q.part
        /\ n.owner = q.owner /\ n.mode = q.mode /\ n.odd = q.odd
        /\ n.seen = q.seen \union {Now(d, q.end, q.part, q.who)}
        /\ n.changed = q.changed \union Adds(q, d)
    BY <1>2, WatchedFields
  <2> HIDE DEF n
  <2>2. q.who \in Accounts /\ q.mode \in Modes /\ q.at \in {"mode", "query"}
    BY <1>2 DEF Carried, Reading
  <2>3. ~External(q.who) => q.owner = OwnerOf(d, q.who)
    BY <1>2 DEF Followed, OwnerOf
  <2>4. ASSUME q.at = "query", q.owner # OwnerOf(d, q.who) \/ q.mode # ModeOf(d, q.who)
        PROVE  "account" \in n.changed
    BY <2>1, <2>4 DEF Followed, Adds
  <2>5. ASSUME q.at = "query" PROVE Excused(n.changed) \/ Its(d, q) \in n.seen
    <3>1. CASE q.owner = OwnerOf(d, q.who) /\ q.mode = ModeOf(d, q.who)
      BY <3>1, <2>1 DEF Its, Now
    <3>2. CASE "rows" \in n.changed /\ ~(q.owner = OwnerOf(d, q.who) /\ q.mode = ModeOf(d, q.who))
      BY <3>2, <2>4, <2>5 DEF Excused
    <3>3. CASE Lifted(q, d)
      BY <3>3, <2>1 DEF Excused, Adds
    <3>4. CASE /\ "rows" \notin n.changed /\ ~Lifted(q, d)
               /\ ~(q.owner = OwnerOf(d, q.who) /\ q.mode = ModeOf(d, q.who))
      <4>1. /\ \/ OwnerOf(d, q.who) # OwnerOf(db, q.who)
               \/ ModeOf(d, q.who) # ModeOf(db, q.who)
               \/ Worker(q.who) /\ d.grants[q.who] # db.grants[q.who]
            /\ "rows" \notin q.changed
        BY <3>4, <2>1 DEF Adds
      <4>2. ~Manager(q.who)
        BY <4>1, <2>2 DEF OwnerOf, ModeOf, Manager, Worker, External
      <4>3. SameView(d, db)
        <5>1. ~SameAccounts(d)
          BY <4>1, <2>2 DEF SameAccounts, OwnerOf, ModeOf, External, With
        <5> QED BY <5>1 DEF Change
      <4>4. Worker(q.who) => q.mode # "RESTRICTED"
        <5> SUFFICES ASSUME Worker(q.who), q.mode = "RESTRICTED" PROVE FALSE
          OBVIOUS
        <5>1. ModeOf(d, q.who) \in Modes
          BY <2>2 DEF Change, Db, ModeOf, With, Worker
        <5>2. ModeOf(d, q.who) # "UNRESTRICTED"
          BY <2>5, <3>4 DEF Lifted
        <5>3. q.owner = OwnerOf(d, q.who)
          BY <2>3 DEF Worker, External
        <5> QED BY <5>1, <5>2, <5>3, <3>4 DEF Modes
      <4>5. Its(d, q) = Its(db, q)
        BY <2>2, <4>2, <4>3, <4>4, SameQuery DEF Its, Carried
      <4>6. Excused(q.changed) \/ Its(db, q) \in q.seen
        BY <2>5 DEF Followed
      <4> QED BY <2>1, <4>5, <4>6 DEF Excused
    <3> QED BY <3>1, <3>2, <3>3, <3>4
  <2>6. Followed(d, n)
    <3> HIDE DEF Now, Excused, OwnerOf, ModeOf, External
    <3>1. Its(d, n) = Its(d, q)
      BY <2>1 DEF Its
    <3>2. Now(d, n.end, n.part, n.who) \in n.seen
      BY <2>1
    <3> QED BY <2>1, <2>2, <2>3, <2>4, <2>5, <3>1, <3>2 DEF Followed
  <2> QED BY <2>6 DEF n
<1> QED BY <1>1, <1>2

-----------------------------------------------------------------------------
(* Every step keeps the invariant.                                          *)

LEMMA CommittedKeeps ==
  ASSUME PortalInv, Committed
  PROVE  /\ DbTyped' /\ Requested'
         /\ \A r \in Readers : Followed(db', reading'[r])
<1>1. DbTyped'
  BY DEF PortalInv, DbTyped, Committed, Change
<1>2. ASSUME NEW r \in Readers
      PROVE  /\ reading'[r] = NotReading \/ Carried(reading'[r])
             /\ Followed(db', reading'[r])
  <2>1. reading'[r] = Watched(reading[r], db')
    BY DEF Committed
  <2>2. CASE reading[r] = NotReading
    <3>1. reading'[r] = NotReading
      BY <2>1, <2>2 DEF Watched, NotReading
    <3> QED BY <3>1 DEF Followed, NotReading, Reading
  <2>3. CASE Carried(reading[r])
    <3>1. Followed(db', Watched(reading[r], db'))
      BY <2>3, ChangeIsFollowed DEF PortalInv, Committed
    <3>2. Carried(Watched(reading[r], db'))
      BY <2>3, WatchedFields
    <3> QED BY <2>1, <3>1, <3>2
  <2> QED BY <2>2, <2>3 DEF PortalInv, Requested
<1>3. Requested'
  BY <1>2 DEF Requested, Committed
<1> QED BY <1>1, <1>2, <1>3

\* One request has moved.
LEMMA MovedKeeps ==
  ASSUME PortalInv, UNCHANGED <<db, mailing, wrote>>, NEW r \in Readers, NEW q,
         q = NotReading \/ Carried(q), Followed(db, q), reading' = [reading EXCEPT ![r] = q]
  PROVE  PortalInv'
<1>1. DbTyped' /\ MailTyped'
  BY DEF PortalInv, DbTyped, MailTyped
<1>2. \A p \in Readers : reading'[p] = IF p = r THEN q ELSE reading[p]
  BY DEF PortalInv, Requested
<1>3. Requested'
  BY <1>2 DEF PortalInv, Requested
<1>4. \A p \in Readers : Followed(db', reading'[p])
  BY <1>2 DEF PortalInv
<1> QED BY <1>1, <1>3, <1>4 DEF PortalInv

LEMMA GetKeeps ==
  ASSUME PortalInv, NEW r \in Readers, NEW u \in Accounts, NEW e \in DOMAIN Ends, NEW part,
         Get(r, u, e, part)
  PROVE  PortalInv'
<1> DEFINE fresh == Now(db, e, part, u)
           q == [at |-> IF Worker(u) THEN "mode" ELSE "query", who |-> u, end |-> e, part |-> part,
                 owner |-> OwnerOf(db, u), mode |-> "UNRESTRICTED", seen |-> {fresh},
                 odd |-> FALSE, changed |-> {}]
<1>1. reading' = [reading EXCEPT ![r] = q] /\ UNCHANGED <<db, mailing, wrote>>
  BY DEF Get
<1>2. Carried(q)
  BY DEF Carried, Modes
<1>3. Followed(db, q)
  <2>1. ~Worker(u) => ModeOf(db, u) = "UNRESTRICTED" /\ Its(db, q) = fresh
    BY DEF ModeOf, Its, Now
  <2>2. Now(db, q.end, q.part, q.who) = fresh
    OBVIOUS
  <2> HIDE DEF fresh
  <2> QED BY <2>1, <2>2 DEF Followed, Reading
<1> HIDE DEF q
<1> QED BY <1>1, <1>2, <1>3, MovedKeeps

LEMMA ReadModeKeeps ==
  ASSUME PortalInv, NEW r \in Readers, ReadMode(r) PROVE PortalInv'
<1> DEFINE p == reading[r]
           m == db.mode[p.who]
           q == [p EXCEPT !.at = "query", !.mode = m]
<1>1. Carried(p) /\ p.at = "mode" /\ Followed(db, p) /\ Worker(p.who)
  BY DEF ReadMode, PortalInv, Requested, NotReading, Carried
<1>2. reading' = [reading EXCEPT ![r] = q] /\ UNCHANGED <<db, mailing, wrote>>
  BY DEF ReadMode, PortalInv, Requested
<1>3. m \in Modes /\ m = ModeOf(db, p.who)
  BY <1>1, FieldsOfDb DEF PortalInv, Carried, Worker, With, ModeOf
<1> HIDE DEF p, m
<1>4. /\ DOMAIN q = DOMAIN p /\ q.at = "query" /\ q.mode = m /\ q.who = p.who /\ q.end = p.end
      /\ q.part = p.part /\ q.owner = p.owner /\ q.seen = p.seen /\ q.changed = p.changed
  BY <1>1 DEF Carried
<1> HIDE DEF q
<1>5. Carried(q)
  BY <1>1, <1>3, <1>4 DEF Carried
<1>6. p.owner = OwnerOf(db, p.who)
  BY <1>1 DEF Followed, Reading, Worker, External
<1>7. Its(db, q) = Now(db, p.end, p.part, p.who) /\ Now(db, p.end, p.part, p.who) \in p.seen
  BY <1>1, <1>3, <1>4, <1>6 DEF Its, Now, Followed, Reading
<1>8. Followed(db, q)
  <2> HIDE DEF Its, Now
  <2> QED BY <1>3, <1>4, <1>6, <1>7 DEF Followed
<1> QED BY <1>2, <1>5, <1>8, MovedKeeps

LEMMA RunQueryKeeps ==
  ASSUME PortalInv, NEW r \in Readers, RunQuery(r) PROVE PortalInv'
<1> DEFINE p == reading[r]
           odd == Its(db, p) \notin p.seen
           q == [p EXCEPT !.at = "answer", !.odd = odd]
<1>1. Carried(p) /\ p.at = "query" /\ Followed(db, p)
  BY DEF RunQuery, PortalInv, Requested, NotReading, Carried
<1>2. reading' = [reading EXCEPT ![r] = q] /\ UNCHANGED <<db, mailing, wrote>>
  BY DEF RunQuery, PortalInv, Requested, Its
<1>3. odd => Excused(p.changed)
  BY <1>1 DEF Followed
<1> HIDE DEF p, odd
<1>4. /\ DOMAIN q = DOMAIN p /\ q.at = "answer" /\ q.mode = p.mode /\ q.who = p.who /\ q.end = p.end
      /\ q.odd = odd /\ q.changed = p.changed
  BY <1>1 DEF Carried
<1> HIDE DEF q
<1>5. Carried(q)
  BY <1>1, <1>4 DEF Carried
<1>6. Followed(db, q)
  BY <1>3, <1>4 DEF Followed, Reading
<1> QED BY <1>2, <1>5, <1>6, MovedKeeps

LEMMA ReplyKeeps ==
  ASSUME PortalInv, NEW r \in Readers, Reply(r) PROVE PortalInv'
<1>1. Followed(db, NotReading)
  BY DEF Followed, NotReading, Reading
<1> QED BY <1>1, MovedKeeps DEF Reply

LEMMA MailKeeps ==
  ASSUME PortalInv, UNCHANGED <<db, reading, wrote>>, MailTyped' PROVE PortalInv'
  BY DEF PortalInv, DbTyped, Requested

LEMMA PortalMailKeeps ==
  ASSUME PortalInv, PortalMail PROVE PortalInv'
<1>1. ASSUME NEW s \in Services, NEW b \in BOOLEAN, NEW z \in BOOLEAN, UpdateService(s, b, z)
      PROVE  PortalInv'
  <2>1. MailTyped'
    BY <1>1 DEF UpdateService, PortalInv, MailTyped, MailTypes
  <2>2. CASE db.public[s] = b /\ db.archived[s] = z
    BY <1>1, <2>1, <2>2, MailKeeps DEF UpdateService
  <2>3. CASE ~(db.public[s] = b /\ db.archived[s] = z)
    <3>1. Committed
      BY <1>1, <2>3, UpdateServiceChanges, CommitChanges DEF UpdateService, PortalInv
    <3> QED BY <2>1, <3>1, CommittedKeeps DEF PortalInv
  <2> QED BY <2>2, <2>3
<1>2. ASSUME NEW s \in Services, NotifyVideoFailed(s) PROVE PortalInv'
  <2>1. WorkerOf[s] \in Accounts
    BY WithIn
  <2>2. MailTyped'
    BY <1>2, <2>1 DEF NotifyVideoFailed, MailTyped, MailTypes
  <2> QED BY <1>2, <2>2, MailKeeps DEF NotifyVideoFailed
<1>3. CASE NotifyEdited
  <2>1. mailing.about \in Services
    BY <1>3 DEF NotifyEdited, PortalInv, MailTyped, MailTypes, NoMail
  <2>2. MailTyped'
    BY <1>3, <2>1, WithIn DEF NotifyEdited, MailTyped, MailTypes, Active
  <2> QED BY <1>3, <2>2, MailKeeps DEF NotifyEdited
<1>4. CASE ReadAsset
  <2>1. mailing.about \in Services
    BY <1>4 DEF ReadAsset, PortalInv, MailTyped, MailTypes, NoMail
  <2>2. db.owner[AssetOf[mailing.about]] \in Owners \union {NoOwner}
    BY <2>1, FieldsOfDb DEF PortalInv
  <2>3. MailTyped'
    BY <1>4, <2>1, <2>2 DEF ReadAsset, MailTyped, MailTypes
  <2> QED BY <1>4, <2>3, MailKeeps DEF ReadAsset
<1>5. CASE MailAdmins
  <2>1. MailTyped'
    BY <1>5 DEF MailAdmins, PortalInv, MailTyped, MailTypes, NoMail
  <2> QED BY <1>5, <2>1, MailKeeps DEF MailAdmins
<1>6. CASE MailExternals
  <2>1. mailing.about \in Services /\ mailing.owner \in Owners \union {NoOwner}
    BY <1>6 DEF MailExternals, PortalInv, MailTyped, MailTypes, NoMail
  <2>2. MailTyped'
    BY <1>6, <2>1, WithIn DEF MailExternals, MailTyped, MailTypes, Active
  <2> QED BY <1>6, <2>2, MailKeeps DEF MailExternals
<1>7. CASE Sent
  <2>1. MailTyped'
    BY <1>7 DEF Sent, MailTyped, MailTypes
  <2> QED BY <1>7, <2>1, MailKeeps DEF Sent
<1> QED BY <1>1, <1>2, <1>3, <1>4, <1>5, <1>6, <1>7 DEF PortalMail

LEMMA PortalStep ==
  ASSUME PortalInv, [PortalNext]_portal PROVE PortalInv'
<1>1. CASE PortalChange
  <2>1. Committed /\ mailing' = mailing
    BY <1>1, PortalChangeCommits DEF PortalInv
  <2>2. MailTyped'
    BY <2>1 DEF PortalInv, MailTyped
  <2> QED BY <2>1, <2>2, CommittedKeeps DEF PortalInv
<1>2. CASE PortalRead
  BY <1>2, GetKeeps, ReadModeKeeps, RunQueryKeeps, ReplyKeeps DEF PortalRead
<1>3. CASE PortalMail
  BY <1>3, PortalMailKeeps
<1>4. CASE UNCHANGED portal
  BY <1>4 DEF portal, PortalInv, DbTyped, Requested, MailTyped
<1> QED BY <1>1, <1>2, <1>3, <1>4 DEF PortalNext

LEMMA PortalStart ==
  ASSUME PortalInit PROVE PortalInv
<1>1. DbTyped
  <2>1. 0 \in 0..MaxChanges
    OBVIOUS
  <2>2. db.batch \in [Rows -> 0..MaxChanges]
    BY <2>1 DEF PortalInit, FirstDbs
  <2>3. db.state \in [Rows -> States] /\ db.archived \in [Services -> BOOLEAN]
    BY DEF PortalInit, FirstDbs, States
  <2>4. db.owner \in [Assets \union With("EXTERNAL") -> Owners \union {NoOwner}]
    BY DEF PortalInit, FirstDbs
  <2>5. db \in Db
    BY <2>2, <2>3, <2>4 DEF PortalInit, FirstDbs, Db
  <2> QED BY <2>1, <2>5 DEF PortalInit, DbTyped
<1>2. Requested /\ MailTyped
  BY DEF PortalInit, Requested, MailTyped, MailTypes
<1>3. \A r \in Readers : Followed(db, reading[r])
  BY DEF PortalInit, Followed, NotReading, Reading
<1> QED BY <1>1, <1>2, <1>3 DEF PortalInv

-----------------------------------------------------------------------------
(* The pages.                                                               *)

LEMMA PageFacts ==
  ASSUME DbTyped, NEW u \in Accounts
  PROVE  /\ \A s \in Services : AssetOf[s] \in Assets /\ WorkerOf[s] \in Accounts
         /\ db.active \in [Assets \union Owners \union Accounts -> BOOLEAN]
         /\ Manager(u) <=> ~Worker(u) /\ ~External(u)
         /\ ~(Worker(u) /\ External(u))
  BY FieldsOfDb, WithIn DEF Manager, Worker, External, Roles

LEMMA ServicePages ==
  ASSUME DbTyped, NEW u \in Accounts, NEW o, NEW m PROVE ServicePagesAgree(u, o, m)
<1> DEFINE page == ServiceList(db, u, o, m, FALSE)
           all  == ServiceStats(db, u, o)
<1>1. \A s : s \in PublicOf(db, o) <=>
               s \in Services /\ db.public[s] /\ AssetOf[s] \in Assets /\ db.owner[AssetOf[s]] = o
  BY PageFacts DEF PublicOf, Owned
<1>0. \A s : s \in CompletedOf(db, o) <=> s \in PublicOf(db, o) /\ ~db.archived[s]
  BY DEF CompletedOf
<1>2. \A s : s \in page <=> /\ s \in Services /\ db.state[s] = "live"
                            /\ Worker(u) => WorkerOf[s] = u /\ AssetOf[s] \in Granted(db, u, m)
                            /\ External(u) => s \in CompletedOf(db, o)
  BY DEF ServiceList, Live
<1>3. \A s : s \in all <=> /\ s \in Services /\ db.state[s] = "live"
                           /\ Worker(u) => WorkerOf[s] = u
                           /\ External(u) => s \in CompletedOf(db, o)
  BY DEF ServiceStats, Live
<1>4. m # "RESTRICTED" => Granted(db, u, m) = Assets
  BY DEF Granted
<1>5. ServiceOptions(db, u, o) = {WorkerOf[s] : s \in all} \union {AssetOf[s] : s \in all}
  BY DEF ServiceOptions, ServiceStats
<1>6. page = Live(db, ServiceList(db, u, o, m, TRUE))
  BY DEF ServiceList, Live
<1>7. \A s : s \in ServiceDetail(db, u, o) <=>
               s \in Services /\ db.state[s] = "live" /\ (External(u) => s \in PublicOf(db, o))
  BY DEF ServiceDetail, Live
<1>8. \A s : s \in Playable(db, u, o) <=>
               /\ s \in Services /\ db.state[s] = "live"
               /\ External(u) => db.public[s] /\ db.owner[AssetOf[s]] = o
  BY DEF Playable, Live
<1>9. Playable(db, u, o) = VideoDownloadable(db, u, o)
  BY DEF Playable, VideoDownloadable
<1>10. Downloadable(db) = Live(db, Services)
  BY DEF Downloadable
<1>11. Shared(db) = SharedPlayable(db) /\ SharedDownloadable(db) \subseteq Shared(db)
  BY DEF Shared, SharedPlayable, SharedDownloadable, Live
<1>12. ServiceDetail(db, u, o) = Playable(db, u, o) \intersect Downloadable(db)
  BY <1>1, <1>7, <1>8, <1>10, PageFacts DEF Live
<1> HIDE DEF page, all
<1>13. page \subseteq ServiceDetail(db, u, o) /\ page \subseteq all
  BY <1>0, <1>2, <1>3, <1>7
<1>14. m # "RESTRICTED" \/ Manager(u) => all \subseteq page
  BY <1>2, <1>3, <1>4, PageFacts
<1>15. m # "RESTRICTED" \/ Manager(u) => page = all
  BY <1>13, <1>14 DEF page, all, ServiceList, ServiceStats
<1>16. External(u) => page = {s \in ServiceDetail(db, u, o) : ~db.archived[s]}
  BY <1>0, <1>2, <1>7, PageFacts
<1> QED BY <1>5, <1>6, <1>9, <1>11, <1>12, <1>13, <1>14, <1>15, <1>16 DEF ServicePagesAgree, page, all

LEMMA AssetPages ==
  ASSUME DbTyped, NEW u \in Accounts, NEW o, NEW m PROVE AssetPagesAgree(u, o, m)
<1> DEFINE page == AssetList(db, u, o, m)
           open == AssetDetail(db, u, o)
           list == ServiceList(db, u, o, m, FALSE)
<1>1. \A a : a \in page <=> /\ a \in Assets /\ db.state[a] = "live"
                            /\ ~Manager(u) => db.active[a]
                            /\ a \in Granted(db, u, m)
                            /\ External(u) => db.owner[a] = o
  BY DEF AssetList, Live
<1>2. \A a : a \in open <=> a \in Assets /\ db.state[a] = "live" /\ (External(u) => db.owner[a] = o)
  BY DEF AssetDetail, Live
<1>3. AssetStats(db, u, o, m, "total") = page /\ AssetStats(db, u, o, m, "active") = Active(db, page)
  BY DEF AssetStats, AssetList
<1>4. AssetOptions(db, u, o, m) = {db.owner[a] : a \in page}
  BY DEF AssetOptions, AssetList
<1>5. \A s : s \in PublicOf(db, o) <=>
               s \in Services /\ db.public[s] /\ AssetOf[s] \in Assets /\ db.owner[AssetOf[s]] = o
  BY PageFacts DEF PublicOf, Owned
<1>6. ASSUME NEW a \in open PROVE History(db, u, a) \subseteq ServiceDetail(db, u, o)
  <2>1. External(u) => db.owner[a] = o
    BY <1>2
  <2> HIDE DEF open
  <2> QED BY <2>1, <1>5, PageFacts DEF History, ServiceDetail, Live
<1>7. \A s \in list : s \in Services /\ db.state[s] = "live" /\ (External(u) => s \in PublicOf(db, o))
  BY DEF ServiceList, Live, CompletedOf
<1>8. \A x \in Owners : Manager(u) => Holdings(db, x) = {a \in Active(db, page) : db.owner[a] = x}
  <2>1. Manager(u) => page = Live(db, Assets)
    BY <1>1, PageFacts DEF Granted, Live
  <2> QED BY <2>1 DEF Holdings
<1> HIDE DEF page, open, list
<1>9. ASSUME NEW s \in list, AssetOf[s] \in Live(db, Assets)
      PROVE  \E a \in open : s \in History(db, u, a)
  <2>1. AssetOf[s] \in open
    BY <1>2, <1>5, <1>7, <1>9 DEF Live
  <2>2. s \in History(db, u, AssetOf[s])
    BY <1>5, <1>7 DEF History, Live
  <2> QED BY <2>1, <2>2
<1>10. list \subseteq (UNION {History(db, u, a) : a \in open}) \union
                      {s \in Services : AssetOf[s] \notin Live(db, Assets)}
  BY <1>7, <1>9
<1>11. page \subseteq open
  BY <1>1, <1>2
<1> QED BY <1>3, <1>4, <1>6, <1>8, <1>10, <1>11 DEF AssetPagesAgree, page, open, list

LEMMA DashboardPage ==
  ASSUME DbTyped, NEW u \in Accounts, NEW o, NEW m PROVE DashboardAgrees(u, o, m)
<1> DEFINE all == Dashboard(db, u, o, m, "services")
<1>1. ServiceStats(db, u, o) = {s \in all : External(u) => ~db.archived[s]}
  BY DEF Dashboard, ServiceStats, CompletedOf
<1>2. Dashboard(db, u, o, m, "assets") = Active(db, AssetList(db, u, o, m))
  <2>1. \A a : a \in Dashboard(db, u, o, m, "assets") <=>
                 /\ a \in Assets /\ db.state[a] = "live" /\ db.active[a]
                 /\ IF External(u) THEN db.owner[a] = o ELSE a \in Granted(db, u, m)
    BY DEF Dashboard, Active, Live
  <2>2. \A a : a \in Active(db, AssetList(db, u, o, m)) <=>
                 /\ a \in Assets /\ db.state[a] = "live" /\ db.active[a]
                 /\ a \in Granted(db, u, m) /\ (External(u) => db.owner[a] = o)
    BY DEF AssetList, Active, Live
  <2>3. External(u) => Granted(db, u, m) = Assets
    BY PageFacts DEF Granted
  <2> QED BY <2>1, <2>2, <2>3
<1>3. \A s : s \in all <=> /\ s \in Services /\ db.state[s] = "live"
                           /\ Worker(u) => WorkerOf[s] = u
                           /\ External(u) => s \in PublicOf(db, o)
  BY DEF Dashboard, Live
<1>4. Distinct(db, u, o) =
        {AssetOf[s] : s \in {x \in Services :
            /\ db.state[x] = "live"
            /\ Worker(u) => WorkerOf[x] = u
            /\ External(u) => /\ db.public[x] /\ AssetOf[x] \in Assets
                              /\ db.owner[AssetOf[x]] = o /\ db.state[AssetOf[x]] = "live"}}
  BY DEF Distinct, Live, Owned
<1>5. \A s : s \in PublicOf(db, o) <=>
               s \in Services /\ db.public[s] /\ AssetOf[s] \in Assets /\ db.owner[AssetOf[s]] = o
  BY PageFacts DEF PublicOf, Owned
<1>6. Manager(u) => Dashboard(db, u, o, m, "owners") \subseteq OwnerList(db)
  BY DEF Dashboard, OwnerList, Active
<1>7. Manager(u) => Dashboard(db, u, o, m, "workers") \subseteq UserList(db, u)
  <2> SUFFICES ASSUME Manager(u), NEW x \in Dashboard(db, u, o, m, "workers")
               PROVE  x \in UserList(db, u)
    OBVIOUS
  <2>1. x \in Accounts /\ RoleOf[x] = "WORKER" /\ db.state[x] = "live"
    BY DEF Dashboard, Active, Live, With
  <2> QED BY <2>1, PageFacts DEF UserList, Live
<1> HIDE DEF all
<1>8. Distinct(db, u, o) = {a \in {AssetOf[s] : s \in all} : External(u) => a \in Live(db, Assets)}
  BY <1>3, <1>4, <1>5, PageFacts DEF Live
<1> QED BY <1>1, <1>2, <1>6, <1>7, <1>8 DEF DashboardAgrees, all

-----------------------------------------------------------------------------
(* Theorems.                                                                *)

\* The rows are of their types whatever is assigned, removed, restored and purged.
THEOREM RowsTypeCorrect == PortalSpec => [](db \in Db)
<1>1. PortalInv => db \in Db
  BY DEF PortalInv, DbTyped
<1> QED BY <1>1, PortalStart, PortalStep, PTL DEF PortalSpec

\* Between requests, the pages of every reader agree with one another: lists, counters,
\* filters, details, the player and the dashboard.
THEOREM PagesAlwaysAgree == PortalSpec => []PagesAgree
<1>1. PortalInv => PagesAgree
  BY ServicePages, AssetPages, DashboardPage DEF PagesAgree, PortalInv
<1> QED BY <1>1, PortalStart, PortalStep, PTL DEF PortalSpec

\* However rows and accounts change between its reads, an answer is what the request
\* would have shown at one moment, save for the two cases ListOfOneMoment names.
THEOREM AnswersAreOfOneMoment == PortalSpec => []ListOfOneMoment
<1>1. PortalInv => ListOfOneMoment
  BY DEF PortalInv, ListOfOneMoment, Followed, Excused
<1> QED BY <1>1, PortalStart, PortalStep, PTL DEF PortalSpec

\* Whoever is mailed that a service was published can open it, unless it was removed,
\* withdrawn or moved to another owner since the asset was read.
THEOREM MailedReadersCanOpen == PortalSpec => MailedCanOpen
<1> DEFINE Sends == mailing.at = "externals" /\ mailing'.at = "sent"
           Opens == LET s == mailing.about
                    IN \/ db.state[s] # "live" \/ ~db.public[s] \/ db.owner[AssetOf[s]] # mailing.owner
                       \/ \A u \in mailing'.to : s \in ServiceDetail(db, u, db.owner[u])
<1>1. ASSUME PortalInv, [PortalNext]_portal, Sends PROVE Opens
  <2>1. ~PortalChange
    BY <1>1, PortalChangeCommits DEF PortalInv
  <2>2. ~PortalRead /\ ~UNCHANGED portal
    BY <1>1 DEF PortalRead, Get, ReadMode, RunQuery, Reply, portal
  <2>3. PortalMail
    BY <1>1, <2>1, <2>2 DEF PortalNext
  <2>4. MailExternals
    BY <1>1, <2>3 DEF PortalMail, UpdateService, NotifyVideoFailed, NotifyEdited, ReadAsset,
                      MailAdmins, MailExternals, Sent, NoMail
  <2>5. mailing.about \in Services
    BY <1>1 DEF PortalInv, MailTyped, MailTypes, NoMail
  <2>6. AssetOf[mailing.about] \in Assets
    BY <2>5
  <2>7. \A u \in mailing'.to : db.owner[u] = mailing.owner
    BY <2>4 DEF MailExternals
  <2> QED BY <2>5, <2>6, <2>7 DEF ServiceDetail, PublicOf, Owned, Live
<1>2. PortalInv /\ [PortalNext]_portal => [Sends => Opens]_portal
  BY <1>1
<1> QED BY <1>2, PortalStart, PortalStep, PTL DEF PortalSpec, MailedCanOpen
=============================================================================
