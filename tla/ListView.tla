------------------------------ MODULE ListView ------------------------------
(***************************************************************************)
(* A list whose filters and page live in the URL: the talent directory     *)
(* (pages/CandidatesPage.tsx) and the recruiter's jobs                     *)
(* (components/jobs/RecruiterJobsView.tsx) over hooks/useUrlState.ts and   *)
(* hooks/useClampOffset.ts.  The Back button steps through what was        *)
(* chosen, rows come and go on the server, and the list shows a page that  *)
(* may be of another moment and of another filter.                         *)
(***************************************************************************)
EXTENDS Naturals, Sequences, FiniteSets

CONSTANTS
  MaxRows,    \* the rows of the server are among 1 .. MaxRows, listed in this order
  Sizes,      \* the page sizes on offer
  SizeInUrl,  \* whether the page size is a search param, or kept in the browser's storage
  MaxEntries, \* bound on the entries of the tab's history
  MaxChanges, \* bound on what others change
  MaxPicks,   \* bound on the rows ticked and unticked
  Hasty,      \* whether the user may act before the last gesture has been drawn
  None

RowIds == 1 .. MaxRows
Queries == {"", "even"}

VARIABLES
  rows,       \* on the server
  entries,    \* the URLs of the tab's history
  at,         \* the entry the tab is on
  rendered,   \* the URL of the last render
  unrendered, \* useUrlState's own: what it wrote and is not yet rendered
  size,       \* the page size, when it is not in the URL
  page,       \* the page on the screen, and what was asked for it
  fetch,      \* of the page of the rendered URL
  selected,   \* the rows ticked
  changes,    \* what others have changed
  picks       \* how often a row was ticked or unticked

vars == <<rows, entries, at, rendered, unrendered, size, page, fetch, selected, changes, picks>>

-----------------------------------------------------------------------------
SmallestSize == CHOOSE s \in Sizes : \A t \in Sizes : s <= t

Url == [q : Queries, offset : 0 .. MaxRows + SmallestSize, limit : Sizes]

\* A page with no filters set has a clean URL.
Defaults == [q |-> "", offset |-> 0, limit |-> SmallestSize]

\* Typed text rewrites the entry it is on; a page or a page size adds one.
Pushes == {"offset", "limit"}

Limit(url, s) == IF SizeInUrl THEN url.limit ELSE s

Key(url, s) == [q |-> url.q, offset |-> url.offset, limit |-> Limit(url, s)]

Matches(q, r) == q = "" \/ r % 2 = 0

Listed(q) == {r \in rows : Matches(q, r)}

\* A page of the server's answer, and how many rows there are in all.
PageOf(k) ==
  LET listed == Listed(k.q)
      Place(r) == Cardinality({s \in listed : s < r})
  IN [key |-> k, total |-> Cardinality(listed),
      items |-> {r \in listed : k.offset <= Place(r) /\ Place(r) < k.offset + k.limit}]

TypeOK ==
  /\ rows \subseteq RowIds
  /\ entries \in Seq(Url) /\ Len(entries) \in 1 .. MaxEntries /\ at \in 1 .. Len(entries)
  /\ rendered \in Url
  /\ unrendered \in [params : Url, pushed : BOOLEAN] \cup {None}
  /\ size \in Sizes
  /\ page \in [key : Url, total : 0 .. MaxRows, items : SUBSET RowIds] \cup {None}
  /\ fetch \in {"idle", "sent", "failed"}
  /\ selected \subseteq RowIds
  /\ changes \in 0 .. MaxChanges /\ picks \in 0 .. MaxPicks

-----------------------------------------------------------------------------
(* useUrlState.                                                            *)

History == [entries |-> entries, at |-> at, seen |-> rendered, unrendered |-> unrendered]

\* The update is built on what was last written, not on what was last rendered; a change of
\* anything but the offset starts again at page one.
Updated(current, patch) ==
  LET touched == {k \in DOMAIN patch : patch[k] # current[k]}
      Patched(k) == IF k \in DOMAIN patch THEN patch[k] ELSE current[k]
  IN [current EXCEPT !.q = Patched("q"), !.limit = Patched("limit"),
                     !.offset = IF touched \ {"offset"} # {} THEN 0 ELSE Patched("offset")]

\* Mutation: each update starts from the URL of the last render.
SetStateRendered(h, patch, replace) ==
  LET next == Updated(h.seen, patch)
      push == ~replace /\ \E k \in DOMAIN patch \cap Pushes : patch[k] # h.seen[k]
  IN IF next = h.seen THEN h
     ELSE [entries |-> IF push THEN Append(SubSeq(h.entries, 1, h.at), next)
                               ELSE [h.entries EXCEPT ![h.at] = next],
           at |-> IF push THEN h.at + 1 ELSE h.at, seen |-> h.seen,
           unrendered |-> [params |-> next, pushed |-> push]]

SetState(h, patch, replace) ==
  LET current == IF h.unrendered # None THEN h.unrendered.params ELSE h.seen
      pushed  == h.unrendered # None /\ h.unrendered.pushed
      next    == Updated(current, patch)
      push    == ~replace /\ ~pushed /\ \E k \in DOMAIN patch \cap Pushes : patch[k] # current[k]
  IN IF next = current THEN h
     ELSE [entries |-> IF push THEN Append(SubSeq(h.entries, 1, h.at), next)
                               ELSE [h.entries EXCEPT ![h.at] = next],
           at |-> IF push THEN h.at + 1 ELSE h.at, seen |-> h.seen,
           unrendered |-> [params |-> next, pushed |-> push \/ pushed]]

Goes(h) == /\ Len(h.entries) <= MaxEntries
           /\ entries' = h.entries /\ at' = h.at /\ unrendered' = h.unrendered

\* The last page, when the offset points past it.  The correction is written over the entry.
LastPage(p, l) == ((p.total - 1) \div l) * l

\* Mutation: the last page of a total that is a multiple of the page size is one too far.
PastTheEndByOne(p, url, l) ==
  /\ p # None /\ p.items = {} /\ p.total # 0
  /\ url.offset > (p.total \div l) * l

PastTheEnd(p, url, l) ==
  /\ p # None /\ p.items = {} /\ p.total # 0
  /\ url.offset > LastPage(p, l)

\* Mutation: the correction is a step like any other.
ClampOffsetPushed(h, p, url, l) ==
  IF PastTheEnd(p, url, l) THEN SetState(h, [offset |-> LastPage(p, l)], FALSE) ELSE h

ClampOffset(h, p, url, l) ==
  IF PastTheEnd(p, url, l) THEN SetState(h, [offset |-> LastPage(p, l)], TRUE) ELSE h

-----------------------------------------------------------------------------
(* What the user does.                                                     *)

AllDrawn == rendered = entries[at] /\ unrendered = None

Acts == Hasty \/ AllDrawn

Still == UNCHANGED <<rows, rendered, page, fetch, selected, changes, picks>>

Type(q) ==
  /\ Acts
  /\ Goes(SetState(History, [q |-> q], FALSE))
  /\ UNCHANGED size /\ Still

\* The picker sets the size and then the page, in one tick.
PickSize(s) ==
  /\ Acts /\ page # None /\ page.total > 0
  /\ s # Limit(rendered, size)
  /\ IF SizeInUrl
       THEN /\ Goes(SetState(SetState(History, [limit |-> s], FALSE), [offset |-> 0], FALSE))
            /\ UNCHANGED size
       ELSE /\ Goes(SetState(History, [offset |-> 0], FALSE))
            /\ size' = s
  /\ Still

\* Numbers to click, and Previous and Next with the bounds at which they are disabled.
Targets ==
  LET l     == Limit(rendered, size)
      pages == IF page.total = 0 THEN 1 ELSE (page.total + l - 1) \div l
  IN {(n - 1) * l : n \in 1 .. pages}
     \cup (IF rendered.offset = 0 THEN {} ELSE {IF rendered.offset < l THEN 0 ELSE rendered.offset - l})
     \cup (IF rendered.offset + l >= page.total THEN {} ELSE {rendered.offset + l})

GoToPage ==
  /\ Acts /\ page # None /\ page.total > 0
  /\ \E o \in Targets : Goes(SetState(History, [offset |-> o], FALSE))
  /\ UNCHANGED size /\ Still

Travel(i) ==
  /\ Acts
  /\ i \in {at - 1, at + 1} \cap 1 .. Len(entries)
  /\ at' = i
  /\ UNCHANGED <<entries, unrendered, size>> /\ Still

\* Mutation: only what is on the screen can be selected.
ReconcileVisible(ids) == {r \in ids : r \in page.items}

\* The selection after ids were reported by the table, which lists what is on the screen.
ReconcileSelection(ids) == {r \in ids : r \in page.items \/ r \in selected}

\* One row, or all of the page: ticked unless they all are.
Tick(rs) ==
  /\ page # None /\ page.items # {} /\ picks < MaxPicks
  /\ rs = page.items \/ (Cardinality(rs) = 1 /\ rs \subseteq page.items)
  /\ selected' = ReconcileSelection(IF rs \subseteq selected THEN selected \ rs ELSE selected \cup rs)
  /\ picks' = picks + 1
  /\ UNCHANGED <<rows, entries, at, rendered, unrendered, size, page, fetch, changes>>

ClearSelection ==
  /\ selected # {} /\ picks < MaxPicks
  /\ selected' = {}
  /\ picks' = picks + 1
  /\ UNCHANGED <<rows, entries, at, rendered, unrendered, size, page, fetch, changes>>

-----------------------------------------------------------------------------
(* What happens to it.                                                     *)

\* The rest of a render or of an answer: the effects, and the fetch of a page not asked for yet.
Settle(u, s, p, un) ==
  /\ Goes(ClampOffset([entries |-> entries, at |-> at, seen |-> u, unrendered |-> un], p, u, Limit(u, s)))
  /\ rendered' = u /\ page' = p

\* While a page is on its way, the page before it stays up.
Render ==
  /\ rendered # entries[at] \/ (page # None /\ fetch = "idle" /\ page.key # Key(rendered, size))
  /\ Settle(entries[at], size, page, IF entries[at] # rendered THEN None ELSE unrendered)
  /\ fetch' = IF page # None /\ page.key = Key(entries[at], size) THEN "idle" ELSE "sent"
  /\ UNCHANGED <<rows, size, selected, changes, picks>>

FetchLands ==
  /\ fetch = "sent"
  /\ Settle(rendered, size, PageOf(Key(rendered, size)), unrendered)
  /\ fetch' = "idle"
  /\ UNCHANGED <<rows, size, selected, changes, picks>>

\* The page before it stays up only as long as there is hope of its own.
FetchFails ==
  /\ fetch = "sent"
  /\ fetch' = "failed"
  /\ page' = IF page # None /\ page.key = Key(rendered, size) THEN page ELSE None
  /\ UNCHANGED <<rows, entries, at, rendered, unrendered, size, selected, changes, picks>>

\* "Try again", or the tab comes back into focus.
Refetch ==
  /\ fetch # "sent"
  /\ fetch' = "sent"
  /\ UNCHANGED <<rows, entries, at, rendered, unrendered, size, page, selected, changes, picks>>

\* A row is deleted, or one more is listed.
OthersChange(r) ==
  /\ changes < MaxChanges
  /\ rows' = IF r \in rows THEN rows \ {r} ELSE rows \cup {r}
  /\ changes' = changes + 1
  /\ UNCHANGED <<entries, at, rendered, unrendered, size, page, fetch, selected, picks>>

\* The page opens on a link, which may be to an offset that is no page's.
Init ==
  /\ rows = RowIds
  /\ \E o \in 0 .. MaxRows : entries = <<[Defaults EXCEPT !.offset = o]>>
  /\ at = 1 /\ rendered = entries[1] /\ unrendered = None
  /\ size = SmallestSize /\ page = None /\ fetch = "sent"
  /\ selected = {} /\ changes = 0 /\ picks = 0

Next ==
  \/ \E q \in Queries : Type(q)
  \/ \E s \in Sizes : PickSize(s)
  \/ GoToPage
  \/ \E i \in 1 .. MaxEntries : Travel(i)
  \/ \E rs \in SUBSET RowIds : Tick(rs)
  \/ ClearSelection
  \/ Render \/ FetchLands \/ FetchFails \/ Refetch
  \/ \E r \in RowIds : OthersChange(r)

Spec == Init /\ [][Next]_vars

-----------------------------------------------------------------------------
(* What the page shows.                                                    *)

Body ==
  CASE page = None /\ fetch = "failed" -> "error"
    [] page = None /\ fetch # "failed" -> "skeleton"
    [] page # None /\ page.items = {}  -> "empty"
    [] OTHER                           -> "rows"

Exported == IF selected # {} THEN selected ELSE IF page = None THEN {} ELSE page.items

Empty == IF rendered.q = "" THEN "none yet" ELSE "no match"

\* The box over the rows.
SelectPage ==
  CASE page = None \/ page.items \cap selected = {} -> "none"
    [] page # None /\ page.items \cap selected = page.items /\ page.items # {} -> "all"
    [] OTHER -> "some"

Pager ==
  [ from    |-> rendered.offset + 1,
    to      |-> IF rendered.offset + Limit(rendered, size) < page.total
                  THEN rendered.offset + Limit(rendered, size) ELSE page.total,
    targets |-> Targets ]

Pages == IF page # None /\ page.total > 0 THEN Pager ELSE None

\* The directory as cards: the failure is told above them.
Grid ==
  CASE Body = "error" -> "nothing"
    [] Body = "empty" -> Empty
    [] OTHER          -> Body

Directory ==
  [ table |-> IF Body = "empty" THEN Empty ELSE Body, grid |-> Grid, box |-> SelectPage, pager |-> Pages,
    exported |-> Exported ]

\* The jobs: rows of another page or filter are dimmed.
Jobs ==
  [ table |-> IF Body = "empty" THEN Empty ELSE Body, pager |-> Pages,
    dimmed |-> page # None /\ page.key # Key(rendered, size) ]

-----------------------------------------------------------------------------
(* Properties; what no step may do is written as an action.                *)

\* A list at rest never says it is empty of a filter that matched rows: an offset past the end
\* has been brought back (hooks/useClampOffset.ts:4).
NoFalseEmpty ==
  AllDrawn /\ fetch = "idle" /\ page # None /\ ~Jobs.dimmed /\ page.total > 0
    => Jobs.table = "rows" /\ Directory.grid = "rows"

\* One gesture is one step back: whatever the user chooses from a page that is drawn, every
\* entry before the one it wrote is as it was, and if an entry was added, the page the gesture
\* was made on is right behind it (hooks/useUrlState.ts:150).
OneGestureOneBack ==
  AllDrawn /\ unrendered' # None /\ rendered' = rendered =>
    /\ at' \in {at, at + 1}
    /\ \A i \in 1 .. at - 1 : entries'[i] = entries[i]
    /\ at' = at + 1 => entries'[at] = rendered

\* The page size that was picked is in the URL when the tick is over, and its first page.
PickedSizeIsKept ==
  \A s \in Sizes : SizeInUrl /\ AllDrawn /\ PickSize(s) =>
    entries'[at'].limit = s /\ entries'[at'].offset = 0

\* A correction nobody asked for adds no entry: going Back never lands on a URL that is
\* corrected forward again (hooks/useClampOffset.ts:11).
CorrectionsAddNoStep ==
  fetch # fetch' \/ rendered # rendered' => Len(entries') = Len(entries) /\ at' = at

\* The rows ticked on other pages, and under other filters, are still exported
\* (components/candidates/selection.ts:1): a tick changes nothing but rows on the screen.
SelectionSurvivesPaging ==
  selected' # selected /\ ~ClearSelection => (selected \ selected') \cup (selected' \ selected) \subseteq page.items
=============================================================================
