-------------------------------- MODULE Services --------------------------------
(***************************************************************************)
(* One service as its readers see it: the text, its language and the       *)
(* translations that are made when somebody reads it (TranslationService), *)
(* the mails that announce its publication, and the links it is shared     *)
(* with (ServicesService), up to its permanent deletion (TrashService).    *)
(*                                                                          *)
(* A request is a process r whose req[r].at names its next await; a view    *)
(* translates the title and the description side by side.                   *)
(***************************************************************************)
EXTENDS Naturals, FiniteSets, Sequences

CONSTANTS Requests,  \* concurrent handlers
          Texts, Erased, \* texts, and the title a permanent deletion writes
          Guess,     \* what detectLanguageHeuristic takes a text for, by its frequent words
          Named,     \* what the model may take it for; both are mistaken at times
          Eligible,  \* the texts of a field that are worth a translation
          Drafts, Dtos, \* the services and the edits users make
          Life,      \* days a link lives
          MaxCalls, MaxDays, MaxFaults \* bounds

Languages == {"es", "en"}
Fields == {"title", "description"}
None == "none"

ASSUME RequestsAssumption == IsFiniteSet(Requests)
ASSUME TextsAssumption ==
  /\ Erased \in Texts /\ None \notin Texts
  /\ Guess \in [Texts -> Languages \union {None}]
  /\ Named \in [Texts -> SUBSET (Languages \union {None})]
  /\ Eligible \in [Fields -> SUBSET Texts]
ASSUME DtosAssumption ==
  /\ Drafts \subseteq [title : Texts, description : Texts \union {None}]
  /\ Dtos \subseteq [title : Texts \union {None}, description : Texts \union {None},
                         public : {"yes", "no", None}]
ASSUME BoundAssumption == {Life, MaxCalls, MaxDays, MaxFaults} \subseteq Nat /\ Life > 0

VARIABLES
  svc,    \* the row of the service
  cache,  \* ServiceTranslation: the text each was made of and its hash, by field and language
  links,  \* ServiceShareLink: the day each ends
  ai,     \* AiProviderSetting: off, on, or on for services that are created later
  now,
  req, calls, faults,
  met,       \* history: handlers that have been under way at once
  edited,    \* history: the description was edited
  published, told, \* history: times the service became public, and was announced
  unannounced \* history: created with a manifest, or an announcement was lost

rows == <<svc, cache, links, ai, now>>
past == <<edited, published, told, unannounced>>
vars == <<rows, req, calls, faults, met, past>>

Service == [state : {"none", "live", "trashed", "purged"}, title : Texts \union {None},
            description : Texts \union {None}, lang : Languages \union {None}, public : BOOLEAN]
NoRow == [of |-> None, hash |-> None]
Row   == [of : Texts, hash : Texts] \union {NoRow}
Part  == [at : {"keep", "config", "cache", "ask", "save", "persist", "done"},
          status : {"original", "translated", "same", "untranslated", "failed", "error"},
          text : Texts \union {None}, shown : Texts \union {None}, lang : Languages \union {None}]
NoPart == [at |-> "done", status |-> "original", text |-> None, shown |-> None, lang |-> None]
NoDto == [title |-> None, description |-> None, public |-> None]
Updating == {"write", "announce"}
Sharing  == {"find", "mint"}
Purging  == {"links", "translations", "rewrite"}
Request == [at : {"idle", "view", "prepare", "trash"} \union Updating \union Sharing \union Purging,
            part : [Fields -> Part], to : Languages, known : Languages \union {None},
            dto : Dtos \union {NoDto}, was : BOOLEAN]
Idle == [at |-> "idle", part |-> [f \in Fields |-> NoPart], to |-> "es", known |-> None,
         dto |-> NoDto, was |-> FALSE]

TypeOK ==
  /\ svc \in Service
  /\ cache \in [Fields \X Languages -> Row]
  /\ links \in Seq(0 .. MaxDays + Life)
  /\ ai \in {"off", "later", "on"}
  /\ now \in 0 .. MaxDays
  /\ req \in [Requests -> Request]
  /\ calls \in 0 .. MaxCalls /\ faults \in 0 .. MaxFaults
  /\ met \subseteq {"updates", "purge"}
  /\ edited \in BOOLEAN /\ unannounced \in BOOLEAN
  /\ published \in Nat /\ told \in Nat

Init ==
  /\ svc = [state |-> "none", title |-> None, description |-> None, lang |-> None, public |-> FALSE]
  /\ cache = [p \in Fields \X Languages |-> NoRow]
  /\ links = << >> /\ ai \in {"off", "later", "on"} /\ now = 0
  /\ req = [r \in Requests |-> Idle]
  /\ calls = 0 /\ faults = 0 /\ met = {}
  /\ edited = FALSE /\ published = 0 /\ told = 0 /\ unannounced = FALSE

-----------------------------------------------------------------------------
At(r, step) == req[r].at = step
Goto(r, to) == req' = [req EXCEPT ![r] = to] /\ UNCHANGED <<calls, met>>
Onward(r, step) == Goto(r, [req[r] EXCEPT !.at = step])
Fault == faults < MaxFaults /\ faults' = faults + 1

Others(r, steps) == \E p \in Requests \ {r} : req[p].at \in steps
Start(r, to) ==
  /\ At(r, "idle")
  /\ calls < MaxCalls /\ calls' = calls + 1
  /\ req' = [req EXCEPT ![r] = to]
  /\ met' = met \union
       (IF to.at \in Updating /\ Others(r, Updating) THEN {"updates"} ELSE {}) \union
       (IF \/ to.at \in Purging /\ \E p \in Requests \ {r} : ~At(p, "idle")
           \/ Others(r, Purging)
        THEN {"purge"} ELSE {})
  /\ UNCHANGED faults

-----------------------------------------------------------------------------
(* Translation, when somebody reads the service.                            *)

\* What translateField decides before its first await.
Detected(known, t) == IF known = None THEN Guess[t] ELSE known
FirstStep(f, t, known, to) ==
  LET part == [NoPart EXCEPT !.text = t]
      lang == Detected(known, t)
  IN  CASE t = None -> part
        [] t # None /\ t \notin Eligible[f] -> [part EXCEPT !.status = "untranslated"]
        [] t # None /\ t \in Eligible[f] /\ lang = to ->
             [part EXCEPT !.status = "same", !.lang = to,
                          !.at = IF f = "description" /\ known = None THEN "keep" ELSE "done"]
        [] OTHER -> [part EXCEPT !.at = "config", !.lang = lang]

\* findOne and findAll for the staff and for the owner of the asset, the history
\* of a worker, which shows what is in the trash, and a shared link.
Visible(who) ==
  CASE who = "staff"    -> svc.state = "live"
    [] who = "external" -> svc.state = "live" /\ svc.public
    [] who = "history"  -> svc.state # "none"
    [] who = "link"     -> svc.state = "live" /\ \E i \in DOMAIN links : links[i] >= now

View(r, who, to) ==
  /\ Visible(who)
  /\ Start(r, [Idle EXCEPT !.at = "view", !.to = to, !.known = svc.lang,
                           !.part = [f \in Fields |-> FirstStep(f, svc[f], svc.lang, to)]])
  /\ UNCHANGED <<rows, past>>

PartAt(r, f, step) == At(r, "view") /\ req[r].part[f].at = step
Turn(r, f, part) == Goto(r, [req[r] EXCEPT !.part[f] = part])
Done(r, f, status) == Turn(r, f, [req[r].part[f] EXCEPT !.at = "done", !.status = status])
\* persistDetectedLanguage: by id, if the row that was read had none.
Remembers(r, f, lang) == f = "description" /\ req[r].known = None /\ lang # None

\* Whatever the text has become since it was read.
Keep(r, f) ==
  /\ PartAt(r, f, "keep")
  /\ svc' = [svc EXCEPT !.lang = req[r].part[f].lang]
  /\ Done(r, f, "same")
  /\ UNCHANGED <<cache, links, ai, now, faults, past>>

ReadConfig(r, f) ==
  /\ PartAt(r, f, "config")
  /\ IF ai = "on" THEN Turn(r, f, [req[r].part[f] EXCEPT !.at = "cache"])
     ELSE Done(r, f, "untranslated")
  /\ UNCHANGED <<rows, faults, past>>

\* Mutant: a translation is one whatever it was made of.
ReadAnyCache(r, f) ==
  LET row == cache[<<f, req[r].to>>] IN
  /\ PartAt(r, f, "cache")
  /\ IF row # NoRow
     THEN Turn(r, f, [req[r].part[f] EXCEPT !.at = "done", !.status = "translated", !.shown = row.of])
     ELSE Turn(r, f, [req[r].part[f] EXCEPT !.at = "ask"])
  /\ UNCHANGED <<rows, faults, past>>

ReadCache(r, f) ==
  LET row == cache[<<f, req[r].to>>] IN
  /\ PartAt(r, f, "cache")
  /\ IF row.hash = req[r].part[f].text
     THEN Turn(r, f, [req[r].part[f] EXCEPT !.at = "done", !.status = "translated", !.shown = row.of])
     ELSE Turn(r, f, [req[r].part[f] EXCEPT !.at = "ask"])
  /\ UNCHANGED <<rows, faults, past>>

\* A language the model does not name, or that is not one of ours, is the one
\* detected before.
Ask(r, f) ==
  LET part == req[r].part[f] IN
  /\ PartAt(r, f, "ask")
  /\ \E named \in Named[part.text] :
       LET lang == IF named = None THEN part.lang ELSE named IN
       IF lang = req[r].to
       THEN Turn(r, f, [part EXCEPT !.status = "same", !.lang = lang,
                                    !.at = IF Remembers(r, f, lang) THEN "persist" ELSE "done"])
       ELSE Turn(r, f, [part EXCEPT !.at = "save", !.lang = lang])
  /\ UNCHANGED <<rows, faults, past>>

Save(r, f) ==
  LET part == req[r].part[f] IN
  /\ PartAt(r, f, "save")
  /\ cache' = [cache EXCEPT ![<<f, req[r].to>>] = [of |-> part.text, hash |-> part.text]]
  /\ Turn(r, f, [part EXCEPT !.status = "translated", !.shown = part.text,
                             !.at = IF Remembers(r, f, part.lang) THEN "persist" ELSE "done"])
  /\ UNCHANGED <<svc, links, ai, now, faults, past>>

Persist(r, f) ==
  /\ PartAt(r, f, "persist")
  /\ svc' = [svc EXCEPT !.lang = req[r].part[f].lang]
  /\ Done(r, f, req[r].part[f].status)
  /\ UNCHANGED <<cache, links, ai, now, faults, past>>

\* What fails inside the try shows the original, the rest fails the whole view.
PartFails(r, f) ==
  /\ At(r, "view") /\ req[r].part[f].at # "done" /\ Fault
  /\ Done(r, f, IF req[r].part[f].at \in {"ask", "save", "persist"} THEN "failed" ELSE "error")
  /\ UNCHANGED <<rows, past>>

Answer(r) ==
  /\ At(r, "view") /\ \A f \in Fields : req[r].part[f].at = "done"
  /\ Goto(r, Idle)
  /\ UNCHANGED <<rows, faults, past>>

UpdateOpenAiSettings(to) ==
  /\ ai # to /\ ai' = to
  /\ calls < MaxCalls /\ calls' = calls + 1
  /\ UNCHANGED <<svc, cache, links, now, req, faults, met, past>>

-----------------------------------------------------------------------------
(* Creation, edits and what they announce.                                  *)

\* auto_publish_services decides whether it is public.  createWithUploadManifest
\* announces nothing.
Create(r, t, d, auto, manifest) ==
  /\ svc.state = "none"
  /\ svc' = [state |-> "live", title |-> t, description |-> d, public |-> auto,
             lang |-> IF d = None THEN None ELSE Guess[d]]
  /\ published' = IF auto THEN 1 ELSE 0
  /\ unannounced' = (auto /\ manifest)
  /\ Start(r, [Idle EXCEPT !.at = "prepare", !.was = auto /\ ~manifest])
  /\ UNCHANGED <<cache, links, ai, now, edited, told>>

Prepared(r) ==
  /\ At(r, "prepare")
  /\ IF req[r].was THEN Onward(r, "announce") ELSE Goto(r, Idle)
  /\ UNCHANGED <<rows, faults, past>>

PrepareFails(r) ==
  /\ At(r, "prepare") /\ Fault
  /\ Goto(r, Idle)
  /\ unannounced' = (unannounced \/ req[r].was)
  /\ UNCHANGED <<rows, edited, published, told>>

Update(r, d) ==
  /\ svc.state = "live"
  /\ Start(r, [Idle EXCEPT !.at = "write", !.dto = d, !.was = svc.public])
  /\ UNCHANGED <<rows, past>>

Chosen(new, old) == IF new = None THEN old ELSE new
Edited(d) == [svc EXCEPT !.title = Chosen(d.title, @), !.description = Chosen(d.description, @),
                         !.public = IF d.public = None THEN @ ELSE d.public = "yes"]

\* Mutant: whoever makes an edit of a public service announces it.
WriteAnnounced(r) ==
  /\ At(r, "write")
  /\ svc' = Edited(req[r].dto)
  /\ edited' = (edited \/ req[r].dto.description # None)
  /\ published' = published + (IF svc'.public /\ ~svc.public THEN 1 ELSE 0)
  /\ IF svc'.public THEN Onward(r, "announce") ELSE Goto(r, Idle)
  /\ UNCHANGED <<cache, links, ai, now, faults, told, unannounced>>

\* By id, and without a look at the language of the description: an edit of what
\* was private when it was read, and is public now, is the one that announces it.
WriteUpdate(r) ==
  /\ At(r, "write")
  /\ svc' = Edited(req[r].dto)
  /\ edited' = (edited \/ req[r].dto.description # None)
  /\ published' = published + (IF svc'.public /\ ~svc.public THEN 1 ELSE 0)
  /\ IF svc'.public /\ ~req[r].was THEN Onward(r, "announce") ELSE Goto(r, Idle)
  /\ UNCHANGED <<cache, links, ai, now, faults, told, unannounced>>

\* notifyServiceCompleted: the administrators and the owner of the asset.
Announce(r) ==
  /\ At(r, "announce")
  /\ told' = told + 1
  /\ Goto(r, Idle)
  /\ UNCHANGED <<rows, faults, edited, published, unannounced>>

\* It never throws: nobody tries again.
AnnounceFails(r) ==
  /\ At(r, "announce") /\ Fault
  /\ unannounced' = TRUE
  /\ Goto(r, Idle)
  /\ UNCHANGED <<rows, edited, published, told>>

-----------------------------------------------------------------------------
(* Share links.                                                             *)

Share(r) ==
  /\ svc.state = "live"
  /\ Start(r, [Idle EXCEPT !.at = "find"])
  /\ UNCHANGED <<rows, past>>

FindLink(r) ==
  /\ At(r, "find")
  /\ IF \E i \in DOMAIN links : links[i] > now THEN Goto(r, Idle) ELSE Onward(r, "mint")
  /\ UNCHANGED <<rows, faults, past>>

MintLink(r) ==
  /\ At(r, "mint")
  /\ links' = Append(links, now + Life)
  /\ Goto(r, Idle)
  /\ UNCHANGED <<svc, cache, ai, now, faults, past>>

DayPasses ==
  /\ now < MaxDays /\ now' = now + 1
  /\ UNCHANGED <<svc, cache, links, ai, req, calls, faults, met, past>>

-----------------------------------------------------------------------------
(* The trash and the permanent deletion.                                    *)

Remove(r) ==
  /\ svc.state = "live"
  /\ Start(r, [Idle EXCEPT !.at = "trash"])
  /\ UNCHANGED <<rows, past>>

WriteTrashed(r) ==
  /\ At(r, "trash")
  /\ svc' = [svc EXCEPT !.state = IF @ = "purged" THEN @ ELSE "trashed"]
  /\ Goto(r, Idle)
  /\ UNCHANGED <<cache, links, ai, now, faults, past>>

PermanentDelete(r) ==
  /\ svc.state = "trashed"
  /\ Start(r, [Idle EXCEPT !.at = "links"])
  /\ UNCHANGED <<rows, past>>

DropLinks(r) ==
  /\ At(r, "links")
  /\ links' = << >>
  /\ Onward(r, "translations")
  /\ UNCHANGED <<svc, cache, ai, now, faults, past>>

\* Mutant: the translations stay.
DropNoTranslations(r) ==
  /\ At(r, "translations")
  /\ Onward(r, "rewrite")
  /\ UNCHANGED <<rows, faults, past>>

DropTranslations(r) ==
  /\ At(r, "translations")
  /\ cache' = [p \in Fields \X Languages |-> NoRow]
  /\ Onward(r, "rewrite")
  /\ UNCHANGED <<svc, links, ai, now, faults, past>>

Rewrite(r) ==
  /\ At(r, "rewrite")
  /\ svc' = [state |-> "purged", title |-> Erased, description |-> None, lang |-> None,
             public |-> FALSE]
  /\ Goto(r, Idle)
  /\ UNCHANGED <<cache, links, ai, now, faults, past>>

\* The process dies, and every handler with it; what it still had to announce is
\* never announced.
Crash ==
  /\ Fault
  /\ \E r \in Requests : ~At(r, "idle")
  /\ req' = [r \in Requests |-> Idle]
  /\ unannounced' = (unannounced \/ \E r \in Requests : At(r, "announce") \/ (At(r, "prepare") /\ req[r].was))
  /\ UNCHANGED <<rows, calls, met, edited, published, told>>

-----------------------------------------------------------------------------
Call(r) ==
  \/ \E who \in {"staff", "external", "history", "link"}, to \in Languages : View(r, who, to)
  \/ \E d \in Drafts, auto, manifest \in BOOLEAN : Create(r, d.title, d.description, auto, manifest)
  \/ \E d \in Dtos : Update(r, d)
  \/ Share(r) \/ Remove(r) \/ PermanentDelete(r)

Translate(r, f) ==
  Keep(r, f) \/ ReadConfig(r, f) \/ ReadCache(r, f) \/ Ask(r, f) \/ Save(r, f) \/ Persist(r, f)

Continue(r) ==
  \/ \E f \in Fields : Translate(r, f)
  \/ Answer(r) \/ Prepared(r) \/ WriteUpdate(r) \/ Announce(r) \/ FindLink(r) \/ MintLink(r)
  \/ WriteTrashed(r) \/ DropLinks(r) \/ DropTranslations(r) \/ Rewrite(r)

Fail(r) == (\E f \in Fields : PartFails(r, f)) \/ PrepareFails(r) \/ AnnounceFails(r)

Next ==
  \/ \E r \in Requests : Call(r) \/ Continue(r) \/ Fail(r)
  \/ \E to \in {"off", "later", "on"} : UpdateOpenAiSettings(to)
  \/ DayPasses \/ Crash

Spec == Init /\ [][Next]_vars

-----------------------------------------------------------------------------
(* Properties.                                                              *)

\* What a reader is given as a translation was made of the very text he reads,
\* although others read, translate and edit it meanwhile; and he is told that
\* the description is in his language only if that very text was taken for one
\* in it, by its words or by the model and never by what was made of another
\* text, as long as nobody edited it (translateField, persistDetectedLanguage).
Verdicts(t) == {Guess[t]} \union Named[t]
ShownInLanguage ==
  \A r \in Requests : \A f \in Fields :
    LET part == req[r].part[f] IN
    PartAt(r, f, "done") =>
      /\ part.status = "translated" => part.shown = part.text
      /\ (part.status = "same" /\ f = "description" /\ ~edited) => req[r].to \in Verdicts(part.text)

\* Whenever a service has become public, it has been announced, once: unless two
\* edits overlapped, one of them overlapped the permanent deletion, it was
\* created with a manifest, or the mails failed (create, update).
AnnouncedOnce ==
  (/\ \A r \in Requests : req[r].at \notin {"prepare", "announce"}
   /\ met \intersect {"updates", "purge"} = {}
   /\ ~unannounced) => told = published

\* What a permanent deletion erases stays erased, in the row, in the
\* translations and in the links, unless a handler was under way meanwhile
\* that had read it (permanentDelete).
ErasedStaysErased ==
  (svc.state = "purged" /\ "purge" \notin met) =>
    /\ svc.title = Erased /\ svc.description = None /\ ~svc.public
    /\ \A p \in Fields \X Languages : cache[p].of \in {None, Erased}
    /\ links = << >>
===============================================================================
