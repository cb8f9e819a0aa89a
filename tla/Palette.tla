------------------------------ MODULE Palette ------------------------------
(***************************************************************************)
(* The command palette of the console (components/palette): one list made  *)
(* of the jobs opened lately, commands, pages and the server's search      *)
(* results, ranked against what is typed, with a highlight that the arrow  *)
(* keys move.  The search runs behind a pause in the typing and shows the  *)
(* results it had until the new ones are there (hooks/useGlobalSearch.ts). *)
(* The jobs opened lately are kept in the storage all tabs share; a second *)
(* tab of the same user opens jobs too.                                    *)
(*                                                                         *)
(* Candidates are searched and remembered by the same code as jobs.        *)
(***************************************************************************)
EXTENDS Naturals, FiniteSets, SequencesExt

CONSTANTS
  Tabs,                 \* the tabs, among them "here", which has the palette
  Jobs,                 \* the jobs, in the order the server lists them
  MAX_RECENT,           \* how many jobs are remembered
  SEARCH_RESULT_LIMIT,  \* how many results a search shows
  MaxTyped,             \* bound on changes of the text
  MaxVisits,            \* bound on pages opened
  MaxChanges            \* bound on jobs renamed or deleted

\* The titles and what is typed are words; a search finds the jobs of that title.
Titles == {"al", "be"}

Texts == Titles \cup {"", "a"}

JobIds == ToSet(Jobs)

\* Where a text is found as one run, and where only as letters in order.
Runs == {<<"a", "al">>, <<"al", "al">>, <<"be", "be">>, <<"a", "Clear recent items">>}

Scattered == {<<"be", "bye">>}

VARIABLES
  title,      \* the title the server has of each job, "" once it is deleted
  stored,     \* the storage all tabs share: the jobs opened lately, the last one first
  drawn,      \* in each tab, what of it was last drawn
  viewing,    \* in each tab, the job of the page shown, or "none"
  known,      \* in each tab, the title of each job in its cache, "missing" after a 404
  open, query, term,
  activeId,   \* the option the user moved the highlight to, <<>> if none
  cache,      \* the results of each search, and whether its last request failed
  fetching,   \* the searches under way
  last,       \* the last search of this palette that had results
  typed, visits, changes

tabs == <<stored, drawn, viewing, known>>
palette == <<open, query, term, activeId, cache, fetching, last>>
vars == <<title, stored, drawn, viewing, known, open, query, term, activeId, cache, fetching, last, typed, visits, changes>>

-----------------------------------------------------------------------------
(* The jobs opened lately (recent.ts, RecentTracker.tsx).                  *)

rememberItem(list, item) ==
  LET others == SelectSeq(list, LAMBDA e : e.id # item.id) IN
  IF list # <<>> /\ Head(list) = item THEN list
  ELSE SubSeq(<<item>> \o others, 1, IF Len(others) < MAX_RECENT THEN Len(others) + 1 ELSE MAX_RECENT)

forgetItem(list, id) == SelectSeq(list, LAMBDA e : e.id # id)

\* Mutation: a change starts from what the tab has drawn.
CurrentDrawn(t) == drawn[t]

\* A change starts from what the storage holds now.
Current(t) == stored

\* The page of a job is shown with a title, or is found to be gone.
Tracked(t, list, id, found) ==
  LET with == IF found.title # "" THEN rememberItem(list, [id |-> id, title |-> found.title]) ELSE list
  IN IF found.missing THEN forgetItem(with, id) ELSE with

Visit(t, id) ==
  /\ visits < MaxVisits /\ visits' = visits + 1
  /\ viewing' = [viewing EXCEPT ![t] = id]
  /\ stored' = IF id = "none" THEN stored ELSE Tracked(t, stored, id, known[t][id])
  /\ drawn' = [drawn EXCEPT ![t] = stored']

\* The request of the page shown answers.  A title the page shows already is not noted again.
Loaded(t) ==
  LET id == viewing[t]
      now == IF title[id] = "" THEN [known[t][id] EXCEPT !.missing = TRUE]
             ELSE [title |-> title[id], missing |-> FALSE]
  IN /\ id # "none"
     /\ known' = [known EXCEPT ![t][id] = now]
     /\ stored' = IF now = known[t][id] \/ (now.title = known[t][id].title /\ ~now.missing) THEN stored
                  ELSE Tracked(t, Current(t), id, IF now.missing THEN [now EXCEPT !.title = ""] ELSE now)
     /\ drawn' = [drawn EXCEPT ![t] = stored']
     /\ UNCHANGED <<title, viewing, palette, typed, visits, changes>>

\* The storage event reaches the tab.
Heard(t) ==
  /\ drawn[t] # stored
  /\ drawn' = [drawn EXCEPT ![t] = stored]
  /\ UNCHANGED <<title, stored, viewing, known, palette, typed, visits, changes>>

-----------------------------------------------------------------------------
(* The search (hooks/useGlobalSearch.ts).                                  *)

LongEnough(text) == text \in Titles

settling == query # term

Enabled(q, t) == LongEnough(q) /\ LongEnough(t)

\* The server's answer: the first few jobs, and how many there are.
Found(t) ==
  LET hits == SelectSeq(Jobs, LAMBDA j : title[j] = t) IN
  [items |-> [i \in 1 .. (IF Len(hits) < SEARCH_RESULT_LIMIT THEN Len(hits) ELSE SEARCH_RESULT_LIMIT)
                 |-> [id |-> hits[i], title |-> t]],
   total |-> Len(hits)]

NoPage == [items |-> <<>>, total |-> 0]

NotAsked == [asked |-> FALSE, failed |-> FALSE, page |-> NoPage]

Entry(t) == IF t \in Titles THEN cache[t] ELSE NotAsked

\* Earlier results stay until the new ones are there; a first request that failed has none.
Shown ==
  IF ~LongEnough(query) THEN NoPage
  ELSE IF Entry(term).asked \/ Entry(term).failed THEN Entry(term).page
  ELSE Entry(last).page

\* Mutation: the pause in the typing does not count as loading.
LoadingWhileFetching == LongEnough(query) /\ term \in fetching

loading == LongEnough(query) /\ (settling \/ term \in fetching)

error == LongEnough(query) /\ Entry(term).failed

\* A search that has no results yet is asked for; one that has may be too old.
Begin(t) ==
  \/ ~Entry(t).asked /\ fetching' = fetching \cup {t} /\ cache' = [cache EXCEPT ![t] = NotAsked]
  \/ Entry(t).asked /\ fetching' \in {fetching, fetching \cup {t}} /\ UNCHANGED cache

LastWith(t) == IF Entry(t).asked THEN t ELSE last

\* What the observer does when the text or the search changes.
Observe(q, t) ==
  IF Enabled(q, t) /\ ~(Enabled(query, term) /\ t = term) THEN Begin(t) ELSE UNCHANGED <<cache, fetching>>

Type ==
  /\ open /\ typed < MaxTyped /\ typed' = typed + 1
  /\ \E q \in Texts \ {query} : query' = q /\ Observe(q, term)
  /\ activeId' = <<>>
  /\ drawn' = [drawn EXCEPT !["here"] = stored]
  /\ UNCHANGED <<title, stored, viewing, known, open, term, last, visits, changes>>

\* The pause is over.
Settle ==
  /\ open /\ settling
  /\ term' = query
  /\ Observe(query, query)
  /\ last' = LastWith(query)
  /\ drawn' = [drawn EXCEPT !["here"] = stored]
  /\ UNCHANGED <<title, stored, viewing, known, open, query, activeId, typed, visits, changes>>

\* A request answers or fails, the palette open or not.
Answer ==
  /\ \E t \in fetching :
       /\ fetching' = fetching \ {t}
       /\ \/ cache' = [cache EXCEPT ![t] = [asked |-> TRUE, failed |-> FALSE, page |-> Found(t)]]
             /\ last' = IF open /\ t = term THEN t ELSE last
          \/ cache' = [cache EXCEPT ![t].failed = TRUE] /\ UNCHANGED last
  /\ UNCHANGED <<title, tabs, open, query, term, activeId, typed, visits, changes>>

-----------------------------------------------------------------------------
(* The list (usePaletteItems.tsx, rank.ts).                                *)

Item(group, opens, label, pinned) ==
  [id |-> <<group, opens>>, group |-> group, opens |-> opens, label |-> label, pinned |-> pinned]

RecentItems ==
  LET list == drawn["here"] IN [i \in DOMAIN list |-> Item("Recent", list[i].id, list[i].title, FALSE)]

Actions == IF drawn["here"] = <<>> THEN <<>> ELSE <<Item("Actions", "clear", "Clear recent items", FALSE)>>

Navigation == <<Item("Navigation", "page", "bye", FALSE)>>

\* Mutation: a job is offered as a result although it is offered as a recent one.
NotInRecentEither(hits) == hits

NotInRecent(hits) == SelectSeq(hits, LAMBDA h : ~\E i \in DOMAIN drawn["here"] : drawn["here"][i].id = h.id)

\* Mutation: a result is known by its place in the list.
JobItemByPlace(hit, i) ==
  [Item("Jobs", hit.id, hit.title, TRUE) EXCEPT !.id = <<"Jobs", ToString(i)>>]

JobItem(hit, i) == Item("Jobs", hit.id, hit.title, TRUE)

JobItems ==
  LET hits == NotInRecent(Shown.items) IN
  [i \in DOMAIN hits |-> JobItem(hits[i], i)]
    \o (IF Shown.total > Len(Shown.items) THEN <<Item("Jobs", "all", "all", TRUE)>> ELSE <<>>)

matchItem(q, label) ==
  IF q = "" \/ <<q, label>> \in Runs THEN "run"
  ELSE IF <<q, label>> \in Scattered THEN "scattered" ELSE "none"

\* Letters in order count only while no item holds the text as one run.
rankItems(items, q) ==
  LET strict == \E i \in DOMAIN items : ~items[i].pinned /\ matchItem(q, items[i].label) = "run"
      fits(item) == LET m == matchItem(q, item.label) IN m = "run" \/ (m = "scattered" /\ ~strict)
  IN SelectSeq(items, LAMBDA item : item.pinned \/ fits(item))

ranked == rankItems(RecentItems \o Actions \o Navigation \o JobItems, query)

activeIndex ==
  LET found == {i \in DOMAIN ranked : ranked[i].id = activeId} IN
  IF found = {} THEN 1 ELSE CHOOSE i \in found : TRUE

Active == ranked[activeIndex]

OpenPalette ==
  /\ ~open /\ open' = TRUE
  /\ query' = "" /\ term' = "" /\ activeId' = <<>> /\ last' = ""
  /\ drawn' = [drawn EXCEPT !["here"] = stored]
  /\ UNCHANGED <<title, stored, viewing, known, cache, fetching, typed, visits, changes>>

Close == open' = FALSE /\ query' = "" /\ term' = "" /\ activeId' = <<>> /\ last' = ""

\* The arrow keys, Home and End, and the mouse; the list goes round.
Move ==
  /\ open /\ ranked # <<>>
  /\ \E i \in DOMAIN ranked : i # activeIndex /\ activeId' = ranked[i].id
  /\ UNCHANGED <<title, tabs, open, query, term, cache, fetching, last, typed, visits, changes>>

\* The first Escape clears the text, the next closes the palette.
Escape ==
  /\ open
  /\ IF query # "" THEN query' = "" /\ activeId' = <<>> /\ UNCHANGED <<open, term, last>> ELSE Close
  /\ UNCHANGED <<title, tabs, cache, fetching, typed, visits, changes>>

\* Enter, or a click on an option.
Run ==
  /\ open /\ ranked # <<>> /\ Close
  /\ CASE Active.opens = "clear" ->
            stored' = <<>> /\ drawn' = [drawn EXCEPT !["here"] = <<>>] /\ UNCHANGED <<viewing, visits>>
       [] Active.opens \in JobIds -> Visit("here", Active.opens)
       [] OTHER -> Visit("here", "none")
  /\ UNCHANGED <<title, known, cache, fetching, typed, changes>>

\* What stands where the list would (PaletteDialog.tsx).
Hint ==
  IF ~open \/ ranked # <<>> \/ loading THEN "" ELSE IF query = "a" THEN "Keep typing to search" ELSE "Nothing matches"

-----------------------------------------------------------------------------
\* A link elsewhere in either tab.
Follow ==
  /\ \E t \in Tabs, id \in JobIds \cup {"none"} : id # viewing[t] /\ (t = "here" => ~open) /\ Visit(t, id)
  /\ UNCHANGED <<title, known, palette, typed, changes>>

\* Somebody renames a job, or deletes one.
Change ==
  /\ changes < MaxChanges /\ changes' = changes + 1
  /\ \E j \in JobIds, t \in Titles \cup {""} : title[j] \notin {"", t} /\ title' = [title EXCEPT ![j] = t]
  /\ UNCHANGED <<tabs, palette, typed, visits>>

Init ==
  /\ title = [j \in JobIds |-> "al"]
  /\ stored = <<>> /\ drawn = [t \in Tabs |-> <<>>]
  /\ viewing = [t \in Tabs |-> "none"]
  /\ known = [t \in Tabs |-> [j \in JobIds |-> [title |-> "", missing |-> FALSE]]]
  /\ open = FALSE /\ query = "" /\ term = "" /\ activeId = <<>>
  /\ cache = [t \in Titles |-> NotAsked] /\ fetching = {} /\ last = ""
  /\ typed = 0 /\ visits = 0 /\ changes = 0

Next ==
  \/ OpenPalette \/ Type \/ Settle \/ Answer \/ Move \/ Escape \/ Run
  \/ Follow \/ Change
  \/ \E t \in Tabs : Loaded(t) \/ Heard(t)

Spec == Init /\ [][Next]_vars

-----------------------------------------------------------------------------
(* Properties; what no step may do is written as an action.                *)

TypeOK ==
  /\ title \in [JobIds -> Titles \cup {""}]
  /\ \A list \in {stored} \cup {drawn[t] : t \in Tabs} :
       /\ Len(list) <= MAX_RECENT
       /\ \A i \in DOMAIN list : list[i] \in [id : JobIds, title : Titles]
       /\ IsInjective([i \in DOMAIN list |-> list[i].id])
  /\ viewing \in [Tabs -> JobIds \cup {"none"}]
  /\ known \in [Tabs -> [JobIds -> [title : Titles \cup {""}, missing : BOOLEAN]]]
  /\ open \in BOOLEAN /\ query \in Texts /\ term \in Texts /\ last \in Titles \cup {""}
  /\ \A t \in Titles : Len(cache[t].page.items) <= SEARCH_RESULT_LIMIT
  /\ fetching \subseteq Titles

\* "Nothing matches" (components/palette/PaletteDialog.tsx:155) is said of the text that is
\* typed: unless its search failed, that search has answered, and what it found is among
\* the recent jobs, where the text is held against the title they had.
NothingMatchesIsTrue ==
  Hint = "Nothing matches" /\ ~error => cache[query].asked /\ NotInRecent(cache[query].page.items) = <<>>

\* A job the search found is offered once (components/palette/usePaletteItems.tsx:193): as
\* a recent one or as a result, whichever tabs remembered it meanwhile.  One remembered
\* under a title it no longer has may not be offered.
OfferedOnce ==
  open /\ ~settling =>
    \A i \in DOMAIN Shown.items :
      LET hit == Shown.items[i]
          times == Cardinality({k \in DOMAIN ranked : ranked[k].opens = hit.id})
      IN times = 1 \/ (times = 0 /\ \E k \in DOMAIN drawn["here"] :
                                      drawn["here"][k].id = hit.id /\ matchItem(query, drawn["here"][k].title) = "none")

\* The highlight stays on the option the user moved it to (components/palette/PaletteDialog.tsx:29)
\* while that option is offered, whatever arrives around it.
HighlightStays ==
  open /\ open' /\ activeId # <<>> /\ activeId' = activeId /\ (\E i \in DOMAIN ranked : ranked[i].id = activeId)
    => LET was == Active IN
       (\E i \in DOMAIN ranked' : ranked'[i].group = was.group /\ ranked'[i].opens = was.opens)
         => Active'.group = was.group /\ Active'.opens = was.opens

\* What one tab remembers costs nothing another tab remembered (hooks/useLocalStorage.ts:61):
\* a job leaves the list when it is gone, when the list is cleared, or as the oldest of a full list.
RememberedStays ==
  \A i \in DOMAIN stored :
    (\A k \in DOMAIN stored' : stored'[k].id # stored[i].id)
      => \/ stored' = <<>>
         \/ \E t \in Tabs : viewing'[t] = stored[i].id /\ known'[t][stored[i].id].missing
         \/ i = MAX_RECENT
=============================================================================
