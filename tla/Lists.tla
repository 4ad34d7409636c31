--------------------------------- MODULE Lists ---------------------------------
(***************************************************************************)
(* The lists of the portal, page by page: what a table, a list that grows   *)
(* on a phone, or an endless one shows of the rows that match its search    *)
(* and its filters, while these change, searches wait for the keyboard,     *)
(* answers are late or kept from before, the language is switched, and rows *)
(* come and go.                                                             *)
(***************************************************************************)
EXTENDS Naturals, Sequences, FiniteSets, SequencesExt, FiniteSetsExt

CONSTANTS
  Items,      \* rows that may exist, in the order the API sorts them
  Filters, Match,  \* values of a search or a filter, and the rows each lets through
  Off,        \* the filter that is off
  Limits,     \* rows per page
  Batch,      \* rows per page on a phone
  MaxTurns    \* bound: rows that come, go or change, and languages that are switched

ASSUME ListsAssumption ==
  /\ Items \subseteq Nat /\ IsFiniteSet(Items) /\ Off \in Filters
  /\ Match \in [Filters -> SUBSET Items] /\ Match[Off] = Items
  /\ Limits \subseteq Nat \ {0} /\ Batch \in Nat \ {0} /\ MaxTurns \in Nat

VARIABLES
  stored,    \* row -> 0 when there is none, else how often it was changed
  earlier,   \* history: what was stored before
  list,      \* the page in the browser
  why,       \* history: why rows may be out of reach
  turns

lists == <<stored, earlier, list, why, turns>>

Languages == {"es", "en"}
Screens == {"users", "owners", "assets", "services", "trash", "organizations"}
\* On a phone two lists grow by a button, one by scrolling, two stay as they are.
Feed(l)   == l.phone /\ l.screen \in {"services", "trash"}
Scroll(l) == l.phone /\ l.screen = "assets"

\* Rows in the order of the API, and one page of them.
InOrder(ids) ==
  CHOOSE s \in [1..Cardinality(ids) -> ids] : \A j, k \in DOMAIN s : j < k => s[j] < s[k]
PageOf(s, page, size) ==
  SubSeq(s, (page - 1) * size + 1, IF page * size < Len(s) THEN page * size ELSE Len(s))

\* What the API answers when `rows` are stored, and what is there before it does.
Present(rows) == {i \in Items : rows[i] # 0}
MatchingIn(rows, search, filter) == Present(rows) \intersect Match[search] \intersect Match[filter]
ListingIn(rows, ids) == LET all == InOrder(ids) IN [k \in DOMAIN all |-> <<all[k], rows[all[k]]>>]
SliceIn(rows, search, filter, page, size) ==
  LET ids == MatchingIn(rows, search, filter)
  IN [rows |-> PageOf(ListingIn(rows, ids), page, size),
      pages |-> (Cardinality(ids) + size - 1) \div size]
Matching(search, filter) == MatchingIn(stored, search, filter)
Slice(search, filter, page, size) == SliceIn(stored, search, filter, page, size)
Awaited == [rows |-> <<>>, pages |-> 1]

-----------------------------------------------------------------------------
(* Each page: what its query asks for, which of its handlers and effects    *)
(* lead back to the first page, and which buttons it has.                   *)

\* Only the services are asked for in a language.
Asking(l, size) ==
  [page |-> l.page, size |-> size, search |-> l.search, filter |-> l.filter,
   lang |-> IF l.screen = "services" THEN l.language ELSE "any"]

AskUsers(l)    == Asking(l, l.limit)
AskOwners(l)   == Asking(l, l.limit)
AskAssets(l)   == Asking(l, l.limit)
AskServices(l) == Asking(l, IF l.phone THEN Batch ELSE l.limit)
AskTrash(l)    == Asking(l, IF l.phone THEN Batch ELSE l.limit)
\* All of them at once: their page is cut out in the browser.
AskOrganizations == Asking([screen |-> "organizations", page |-> 1, search |-> Off, filter |-> Off],
                           Cardinality(Items) + 1)

Asked(l) == CASE l.screen = "users"    -> AskUsers(l)
              [] l.screen = "owners"   -> AskOwners(l)
              [] l.screen = "assets"   -> AskAssets(l)
              [] l.screen = "services" -> AskServices(l)
              [] l.screen = "trash"    -> AskTrash(l)
              [] l.screen = "organizations" -> AskOrganizations

\* Changes whose handler calls setPage(1), and those an effect follows up.
UsersHandlers    == {"typed", "filter", "limit"}
UsersOnPhone     == {"typed", "filter"}
OwnersHandlers   == {"typed", "filter", "limit"}
OwnersOnPhone    == {"typed", "filter"}
AssetsEffect     == {"search", "filter", "limit"}
ServicesEffect   == {"search", "filter", "limit"}
ServicesOnPhone  == {"filter"}
TrashHandlers    == {"typed", "filter", "limit"}
TrashOnPhone     == {}
\* The effect of both lists that grow: it empties them, too.
FeedEffect       == {"search", "filter"}
OrganizationsHandlers == {"typed", "limit"}

Handlers(l) ==
  CASE l.screen = "users"    -> IF l.phone THEN UsersOnPhone ELSE UsersHandlers
    [] l.screen = "owners"   -> IF l.phone THEN OwnersOnPhone ELSE OwnersHandlers
    [] l.screen = "assets"   -> {}
    [] l.screen = "services" -> IF l.phone THEN ServicesOnPhone ELSE {}
    [] l.screen = "trash"    -> IF l.phone THEN TrashOnPhone ELSE TrashHandlers
    [] l.screen = "organizations" -> OrganizationsHandlers

\* Mutant: a filter leaves a table on the page it is on.
EffectsBeforeFilters(l) ==
  IF Feed(l) THEN FeedEffect
  ELSE IF l.screen \in {"assets", "services"} /\ ~l.phone THEN {"search", "limit"} ELSE {}

Effects(l) ==
  IF Feed(l) THEN FeedEffect
  ELSE IF l.phone THEN {}
  ELSE CASE l.screen = "assets"   -> AssetsEffect
         [] l.screen = "services" -> ServicesEffect
         [] OTHER -> {}

\* The buttons of a table: whether it has any, the page it shows, and the last
\* page "next" leads to.  Most tables give way to an empty state that has none.
UsersFooter(l)    == [there |-> ~l.phone /\ l.shown.rows # <<>>, page |-> l.page, last |-> l.shown.pages]
OwnersFooter(l)   == [there |-> ~l.phone /\ l.shown.rows # <<>>, page |-> l.page, last |-> l.shown.pages]
AssetsFooter(l)   == [there |-> ~l.phone /\ l.shown.rows # <<>>, page |-> l.page, last |-> l.shown.pages]
ServicesFooter(l) == [there |-> ~l.phone /\ l.shown.rows # <<>>, page |-> l.page, last |-> l.shown.pages]
TrashFooter(l)    == [there |-> ~l.phone /\ ~l.loading /\ l.shown.pages > 0, page |-> l.page,
                      last |-> l.shown.pages]

\* The organisations that match, in the browser.
Ids(rows) == {rows[k][1] : k \in DOMAIN rows}
Found(l) == InOrder(Ids(l.shown.rows) \intersect Match[l.search] \intersect Match[l.filter])
OrganizationsFooter(l) ==
  LET pages == Max({1, (Len(Found(l)) + l.limit - 1) \div l.limit})
  IN [there |-> Found(l) # <<>>, page |-> IF l.page < pages THEN l.page ELSE pages, last |-> pages]

Footer(l) == CASE l.screen = "users"    -> UsersFooter(l)
               [] l.screen = "owners"   -> OwnersFooter(l)
               [] l.screen = "assets"   -> AssetsFooter(l)
               [] l.screen = "services" -> ServicesFooter(l)
               [] l.screen = "trash"    -> TrashFooter(l)
               [] l.screen = "organizations" -> OrganizationsFooter(l)

\* "View more" under a list that grows.
MoreServices(l) == l.items # <<>> /\ l.page < l.shown.pages /\ ~l.loading
MoreTrash(l)    == l.items # <<>> /\ l.page < l.shown.pages /\ ~l.loading
More(l) == IF l.screen = "services" THEN MoreServices(l) ELSE MoreTrash(l)

\* What the API would answer now, and what it may have answered before: an answer
\* is kept for a while, and shown when the page asks the same again.
FreshOf(l) == LET q == Asked(l) IN Slice(q.search, q.filter, q.page, q.size)
Fresh == FreshOf(list)
Pasts == earlier \union {stored}
KeptAnswers(q) == {SliceIn(rows, q.search, q.filter, q.page, q.size) : rows \in Pasts}

-----------------------------------------------------------------------------
(* One change of the page, with its effects.                                *)

\* What the endless list of a phone keeps, and whether its end is observed.
NoPages == <<>>
HasNext(l) == l.parts # NoPages /\ Len(l.parts) < Last(l.parts).pages
\* The element to observe is there while the table of the same page has rows.
Sentinel(l) == ~l.loading /\ l.shown.rows # <<>>
\* The effect runs when hasNextPage changes, and looks for the element then.
Watching(l, old) == Sentinel(l) /\ (old.observed \/ HasNext(l) # HasNext(old))

\* The parts kept of a search: each but the last said that more follow.
KeptParts(search) ==
  LET parts(past) == [n \in DOMAIN past |-> SliceIn(past[n], search, Off, n, Batch)]
      all == {parts(past) : past \in UNION {[1..n -> Pasts] : n \in 1..Cardinality(Items)}}
  IN {NoPages} \union {ps \in all : \A n \in 1..(Len(ps) - 1) : n < ps[n].pages}

ListsInit ==
  /\ stored \in [Items -> {0, 1}] /\ earlier = {}
  /\ \E s \in Screens, p \in BOOLEAN, n \in Limits :
       /\ s = "organizations" => ~p
       /\ list = [screen |-> s, phone |-> p, language |-> "es", page |-> 1, limit |-> n,
                  typed |-> Off, search |-> Off, filter |-> Off, shown |-> Awaited, loading |-> TRUE,
                  items |-> <<>>, parts |-> NoPages, observed |-> FALSE]
  /\ why = {} /\ turns = 0

\* The effect of a list that grows, when its answer is another one: it goes by the
\* page alone, not by what is there already.
Grow(l, answer) ==
  IF ~Feed(l) THEN l.items ELSE IF l.page = 1 THEN answer.rows ELSE l.items \o answer.rows

\* What is there when l asks something else: nothing yet, or an answer kept.
WithAnswer(l) ==
  {[l EXCEPT !.shown = Awaited, !.loading = TRUE]} \union
  {[l EXCEPT !.shown = a, !.loading = FALSE, !.items = Grow(l, a)] : a \in KeptAnswers(Asked(l))}

\* The state l after the handler of `change`, and the effects of its render.
Followed(l, change) ==
  LET handled == IF change \in Handlers(l) THEN [l EXCEPT !.page = 1] ELSE l
  IN IF change \notin Effects(l) THEN handled
     ELSE [handled EXCEPT !.page = 1, !.items = IF Feed(l) THEN <<>> ELSE @]

\* Why rows may be out of reach, or shown twice, once a change has led to l.
Excuses(l, change) ==
  {e \in {"typing", "left", "dates", "language", "kept"} :
     CASE e = "typing"   -> change = "next" /\ list.typed # list.search
       [] e = "left"     -> change = "next" /\ list.shown # Fresh
       [] e = "dates"    -> Feed(l) /\ change \in Effects(l) /\ Asked(l) = Asked(list)
       [] e = "language" -> Feed(l) /\ change = "language"
       [] e = "kept"     -> Feed(l) /\ Asked(l) # Asked(list) /\ ~l.loading /\ l.shown # FreshOf(l)}
Unwatched(l) == {e \in {"unwatched"} : Scroll(l) /\ HasNext(l) /\ Sentinel(l) /\ ~l.observed}

Render(l, change) ==
  LET settled == Followed(l, change)
      other == Asked(settled) # Asked(list)
  IN \E asked \in IF other THEN WithAnswer(settled) ELSE {settled},
        parts \in IF Scroll(l) /\ l.search # list.search THEN KeptParts(l.search) ELSE {l.parts} :
       LET new == [asked EXCEPT !.parts = parts]
       IN /\ list' = [new EXCEPT !.observed = Watching(new, list)]
          /\ why' = (IF other /\ new.page = 1 THEN {} ELSE why \union Excuses(new, change))
                      \union Unwatched(list')
          /\ turns' = IF change = "language" THEN turns + 1 ELSE turns
          /\ UNCHANGED <<stored, earlier>>

TypeSearch(v) == v # list.typed /\ Render([list EXCEPT !.typed = v], "typed")

\* useDebounce.
Debounce == list.search # list.typed /\ Render([list EXCEPT !.search = list.typed], "search")

PickFilter(f) ==
  /\ list.screen # "organizations"
  /\ f # list.filter
  /\ ~Scroll(list)  \* its filters work on what is loaded
  /\ Render([list EXCEPT !.filter = f], "filter")

\* The dates of a list that grows are a new object each time they are picked.
PickSameDates ==
  /\ Feed(list) /\ list.screen = "services"
  /\ Render(list, "filter")

\* Its switch is on every page; no handler or effect of a list follows it.
SwitchLanguage ==
  /\ turns < MaxTurns
  /\ list.screen = "services"  \* the others ask in no language
  /\ \E g \in Languages \ {list.language} : Render([list EXCEPT !.language = g], "language")

SetLimit(n) ==
  /\ Footer(list).there /\ n # list.limit
  /\ Render([list EXCEPT !.limit = n], "limit")

PreviousPage ==
  /\ Footer(list).there /\ Footer(list).page > 1
  /\ Render([list EXCEPT !.page = @ - 1], "page")

NextPage ==
  /\ Footer(list).there /\ Footer(list).page < Footer(list).last
  /\ Render([list EXCEPT !.page = IF @ < Footer(list).last THEN @ + 1 ELSE Footer(list).last], "next")

ViewMore ==
  /\ Feed(list) /\ More(list)
  /\ Render([list EXCEPT !.page = @ + 1], "next")

-----------------------------------------------------------------------------
(* Answers.                                                                 *)

\* The first answer, or a later one that differs: a poll, or an event.
Arrive ==
  /\ list.loading \/ list.shown # Fresh
  /\ LET l == [list EXCEPT
                 !.shown = Fresh, !.loading = FALSE, !.items = Grow(list, Fresh)]
     IN /\ list' = [l EXCEPT !.observed = Watching(l, list)]
        /\ why' = IF Feed(list) /\ list.page = 1 THEN {}
                  ELSE why \union
                       (IF Scroll(list) /\ HasNext(list) /\ ~Sentinel(list) /\ Fresh.rows # <<>>
                        THEN {"unwatched"} ELSE {})
  /\ UNCHANGED <<stored, earlier, turns>>

\* The endless list: its first part, the next when its end is in view, or all that
\* were loaded again.
Part(n) == Slice(list.search, Off, n, Batch)
SetParts(parts) ==
  LET l == [list EXCEPT !.parts = parts]
  IN /\ list' = [l EXCEPT !.observed = Watching(l, list)]
     /\ UNCHANGED <<stored, earlier, why, turns>>

FirstPart ==
  /\ Scroll(list) /\ list.parts = NoPages
  /\ SetParts(<<Part(1)>>)

\* isFetchingNextPage comes and goes, so the effect runs: it observed before, too.
FetchNextPage ==
  /\ Scroll(list) /\ list.observed /\ HasNext(list)
  /\ SetParts(Append(list.parts, Part(Len(list.parts) + 1)))

Reloaded == [n \in DOMAIN list.parts |-> Part(n)]
Reload ==
  /\ Scroll(list) /\ list.parts # NoPages /\ list.parts # Reloaded
  /\ LET n == Max({1} \union {k \in DOMAIN Reloaded : \A j \in 1..(k - 1) : j < Reloaded[j].pages})
     IN SetParts(SubSeq(Reloaded, 1, n))

-----------------------------------------------------------------------------
(* Rows come, go and change.                                                *)

ChangeRow(i) ==
  /\ turns < MaxTurns /\ turns' = turns + 1
  /\ stored' = [stored EXCEPT ![i] = IF @ = 0 THEN 1 ELSE @ + 1]
  /\ why' = IF list.page > 1 THEN why \union {"left"} ELSE why
  /\ earlier' = earlier \union {stored}
  /\ UNCHANGED list

RemoveRow(i) ==
  /\ turns < MaxTurns /\ turns' = turns + 1
  /\ stored[i] # 0
  /\ stored' = [stored EXCEPT ![i] = 0]
  /\ why' = IF list.page > 1 THEN why \union {"left"} ELSE why
  /\ earlier' = earlier \union {stored}
  /\ UNCHANGED list

Clicks ==
  \/ \E v \in Filters : TypeSearch(v) \/ PickFilter(v)
  \/ \E n \in Limits : SetLimit(n)
  \/ PickSameDates \/ SwitchLanguage \/ PreviousPage \/ NextPage \/ ViewMore
Comings == \E i \in Items : ChangeRow(i) \/ RemoveRow(i)
Arrivals == Debounce \/ Arrive \/ FirstPart \/ FetchNextPage \/ Reload

ListsNext == Clicks \/ Comings \/ Arrivals
ListsSpec == ListsInit /\ [][ListsNext]_lists

-----------------------------------------------------------------------------
(* Properties.                                                              *)

\* Nothing is under way, and what is shown is what the API would answer now.
ListSettled ==
  /\ ~list.loading /\ list.shown = Fresh /\ list.typed = list.search
  /\ Scroll(list) => /\ list.parts # NoPages /\ list.parts = Reloaded
                     /\ ~(list.observed /\ HasNext(list))

\* Rows shown, and rows that the buttons lead to.
Reach ==
  LET all  == Matching(list.search, list.filter)
      foot == Footer(list)
      rows == IF list.screen = "organizations"
              THEN ToSet(PageOf(Found(list), foot.page, list.limit))
              ELSE Ids(list.shown.rows)
  IN IF Feed(list) THEN Ids(list.items) \union (IF More(list) THEN all ELSE {})
     ELSE IF Scroll(list) THEN UNION {Ids(list.parts[n].rows) : n \in DOMAIN list.parts}
     ELSE rows \union {i \in all : /\ foot.there
                                   /\ \/ foot.page > 1 /\ \A r \in rows : i < r
                                      \/ foot.page < foot.last /\ \A r \in rows : i > r}

\* Whatever was searched, filtered, paged or scrolled: every row that matches is
\* shown, or the buttons lead to it, and a list that grows shows no row twice.
\* Except: users and owners on a phone, who show the first page only; a table that
\* rows have left, or that was paged while a search was being typed; a growing list
\* whose rows changed, whose dates were picked again, whose language was switched on
\* a later page, or that showed an old answer of a later page first; an endless list
\* whose answer came before the one of the table, or whose table was empty in between.
NothingOutOfReach ==
  ListSettled =>
    \/ list.phone /\ list.screen \in {"users", "owners"}
    \/ why # {}
    \/ /\ Matching(list.search, list.filter) \subseteq Reach
       /\ Feed(list) => Cardinality(Ids(list.items)) = Len(list.items)
=============================================================================
