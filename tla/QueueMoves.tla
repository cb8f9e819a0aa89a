------------------------------ MODULE QueueMoves ------------------------------
(***************************************************************************)
(* The review queue (pages/recruiter/ApplicationsPage.tsx): one tab per    *)
(* stage, a step forward in one click, every other move in a dialog, and   *)
(* scores that are asked for again.  Nothing is drawn before the server    *)
(* has answered; what is on the screen is a page of a tab as it was last   *)
(* fetched, and for a moment a page of the tab before it.                  *)
(***************************************************************************)
EXTENDS Naturals, FiniteSets

CONSTANTS
  NApps,      \* the applications are 1 .. NApps, in the order the queue lists them
  Tabs,       \* the tabs the recruiter looks at: stages
  MaxCalls,   \* bound on the moves asked for
  MaxAsks,    \* bound on the times scores are asked for
  MaxOthers,  \* bound on what others change
  None

AppIds == 1 .. NApps
Calls == 1 .. MaxCalls
Page == 0                   \* the host of the dialog that the drawer opens; a row hosts its own
Button == NApps + 1         \* a row's step forward
Hosts == AppIds \cup {Page}

VARIABLES
  stage,    \* of each application, in the database
  scored,   \* those with a score, in the database
  tab,      \* the stage in the URL
  cache,    \* the page of each tab, as last fetched
  last,     \* the tab whose rows are up, or stay up until the next arrive
  fetch,    \* of each tab's page: what the server read for it lands later
  stale,    \* the tabs whose page was invalidated, or failed to be fetched, after it landed
  call,     \* the moves asked for
  held,     \* the call whose state each host's useStageMove shows
  dialog,   \* the dialog on the screen
  drawer,   \* the application open in the drawer
  gesture,  \* a first click whose second may follow: where, and what the two have moved
  asked,    \* the applications whose scoring was accepted
  asks,     \* how often it was asked for
  timers,   \* the refreshes of scheduleScoreRefresh still to come
  others    \* what others have changed

vars == <<stage, scored, tab, cache, last, fetch, stale, call, held, dialog, drawer, gesture,
          asked, asks, timers, others>>

listVars == <<tab, cache, last, fetch, stale>>
scoreVars == <<asked, asks, timers>>

-----------------------------------------------------------------------------
Stage == {"applied", "screening", "interview", "offer", "hired", "rejected", "withdrawn"}

Terminal == {"hired", "rejected", "withdrawn"}

ForwardStage == [ applied |-> "screening", screening |-> "interview", interview |-> "offer",
                  offer |-> "hired", hired |-> None, rejected |-> None, withdrawn |-> None ]

RecruiterTargets(s) == IF s \in Terminal THEN {} ELSE {ForwardStage[s], "rejected"}

\* The delays of scheduleScoreRefresh, in milliseconds.
Delays == {0, 1500, 4000}

TabPage == [rows : SUBSET AppIds, scored : SUBSET AppIds]

Fetch == [pc : {"idle", "sent", "read", "failed"}, page : TabPage \cup {None}]
Idle == [pc |-> "idle", page |-> None]
Sent == [Idle EXCEPT !.pc = "sent"]

Read(t) == [rows |-> {a \in AppIds : stage[a] = t}, scored |-> scored]

\* by: the button of a row, or the host of a dialog.  heard: whoever called is still there.
Call == [pc : {"unused", "sent", "refused", "done"}, app : AppIds \cup {None}, to : Stage \cup {None},
         by : Hosts \cup {Button, None}, heard : BOOLEAN]

Unused == [pc |-> "unused", app |-> None, to |-> None, by |-> None, heard |-> FALSE]

\* While the tab waits for its first page, the one before it is shown, dimmed.
ShownTab == IF cache[tab] # None \/ fetch[tab].pc = "failed" THEN tab ELSE last
IsPlaceholder == cache[tab] = None
Rows == IF cache[ShownTab] = None THEN {} ELSE cache[ShownTab].rows

RowAt(i) == CHOOSE a \in Rows : Cardinality({b \in Rows : b < a}) = i - 1

IsScoreStalled(a) == a \in Rows /\ a \notin cache[ShownTab].scored

TypeOK ==
  /\ stage \in [AppIds -> Stage] /\ scored \subseteq AppIds
  /\ tab \in Tabs /\ last \in Tabs
  /\ cache \in [Tabs -> TabPage \cup {None}]
  /\ fetch \in [Tabs -> Fetch] /\ stale \subseteq Tabs
  /\ call \in [Calls -> Call]
  /\ held \in [Hosts -> Calls \cup {None}]
  /\ dialog \in [host : Hosts, app : AppIds, from : Stage] \cup {None}
  /\ drawer \in AppIds \cup {None}
  /\ gesture \in [at : AppIds, moved : SUBSET AppIds] \cup {None}
  /\ asked \subseteq AppIds
  /\ asks \in 0 .. MaxAsks /\ timers \subseteq Delays /\ others \in 0 .. MaxOthers

-----------------------------------------------------------------------------
(* The list.                                                               *)

\* What a row hosts goes with it: its dialog, and the ears of its calls.
Unmount(rows) ==
  /\ dialog' = IF dialog # None /\ dialog.host \in AppIds \ rows THEN None ELSE dialog
  /\ held' = [h \in Hosts |-> IF h \in AppIds \ rows THEN None ELSE held[h]]
  /\ call' = [c \in Calls |-> IF call[c].pc = "sent" /\ call[c].by # Page /\ call[c].app \notin rows
                                THEN [call[c] EXCEPT !.heard = FALSE] ELSE call[c]]

\* The server reads the page: what is written from here on is not on it.
ReadPage(t) ==
  /\ fetch[t].pc = "sent"
  /\ fetch' = [fetch EXCEPT ![t] = [pc |-> "read", page |-> Read(t)]]
  /\ UNCHANGED <<stage, scored, tab, cache, last, stale, call, held, dialog, drawer, gesture,
                 scoreVars, others>>

\* The page of a tab that was left lands too, and counts as fresh.
FetchLands(t) ==
  /\ fetch[t].pc = "read"
  /\ fetch' = [fetch EXCEPT ![t] = Idle]
  /\ cache' = [cache EXCEPT ![t] = fetch[t].page]
  /\ stale' = stale \ {t}
  /\ last' = IF t = tab THEN t ELSE last
  /\ IF t \in {tab, ShownTab} THEN Unmount(fetch[t].page.rows) ELSE UNCHANGED <<call, held, dialog>>
  /\ UNCHANGED <<stage, scored, tab, drawer, gesture, scoreVars, others>>

FetchFails(t) ==
  /\ fetch[t].pc \in {"sent", "read"}
  /\ fetch' = [fetch EXCEPT ![t] = IF t = tab THEN [Idle EXCEPT !.pc = "failed"] ELSE Idle]
  /\ stale' = IF cache[t] = None THEN stale ELSE stale \cup {t}
  /\ IF t = tab /\ cache[t] = None THEN Unmount({}) ELSE UNCHANGED <<call, held, dialog>>
  /\ UNCHANGED <<stage, scored, tab, cache, last, drawer, gesture, scoreVars, others>>

\* Mutation: a fetch under way will do.
InvalidateJoins ==
  /\ fetch' = [fetch EXCEPT ![tab] = IF @.pc = "read" THEN @ ELSE Sent]
  /\ stale' = {t \in Tabs : cache[t] # None}

\* Of the tab on the screen a fetch begins: one under way is cancelled if there is a page to
\* show meanwhile, and joined if there is none.  The other tabs are fetched when they are shown.
Invalidate ==
  /\ fetch' = [fetch EXCEPT ![tab] = IF @.pc = "read" /\ cache[tab] = None THEN @ ELSE Sent]
  /\ stale' = {t \in Tabs : cache[t] # None}

\* What failed is begun again when its tab is shown next.
Forgotten == [t \in Tabs |-> IF fetch[t].pc = "failed" THEN Idle ELSE fetch[t]]

\* A fresh page - one that landed less than staleTime ago - is not fetched again.
SwitchTab(t) ==
  /\ dialog = None /\ drawer = None /\ gesture = None
  /\ t # tab
  /\ tab' = t
  /\ \/ fetch' = [Forgotten EXCEPT ![t] = IF @.pc = "idle" THEN Sent ELSE @]
     \/ cache[t] # None /\ t \notin stale /\ fetch' = Forgotten
  /\ last' = IF cache[t] = None THEN last ELSE t
  /\ IF cache[t] = None THEN UNCHANGED <<call, held, dialog>> ELSE Unmount(cache[t].rows)
  /\ UNCHANGED <<stage, scored, cache, stale, drawer, gesture, scoreVars, others>>

\* Another recruiter moves an application, or its candidate withdraws.
OthersMove(a, s) ==
  /\ others < MaxOthers
  /\ s \in RecruiterTargets(stage[a]) \cup (IF stage[a] \in Terminal THEN {} ELSE {"withdrawn"})
  /\ stage' = [stage EXCEPT ![a] = s]
  /\ others' = others + 1
  /\ UNCHANGED <<scored, listVars, call, held, dialog, drawer, gesture, scoreVars>>

-----------------------------------------------------------------------------
(* Moves.                                                                  *)

Begin(c, a, s, by) ==
  /\ call[c].pc = "unused" /\ \A d \in 1 .. c - 1 : call[d].pc # "unused"
  /\ call' = [call EXCEPT ![c] = [pc |-> "sent", app |-> a, to |-> s, by |-> by, heard |-> TRUE]]

\* A busy button takes no click.
Busy(a) == \E c \in Calls : call[c].pc = "sent" /\ call[c].app = a /\ call[c].by = Button /\ call[c].heard

\* Mutation: the rows of the last tab have live buttons.
ForwardOnAnything(i) ==
  /\ dialog = None /\ drawer = None /\ gesture = None
  /\ i <= Cardinality(Rows)
  /\ LET a == RowAt(i) IN
       /\ ~Busy(a) /\ ForwardStage[ShownTab] \notin Terminal \cup {None}
       /\ \E c \in Calls : Begin(c, a, ForwardStage[ShownTab], Button)
       /\ gesture' = [at |-> i, moved |-> {a}]
  /\ UNCHANGED <<stage, scored, listVars, held, dialog, drawer, scoreVars, others>>

\* The button of the i-th row, clicked once: a step forward at once.
Forward(i) ==
  /\ dialog = None /\ drawer = None /\ gesture = None
  /\ ~IsPlaceholder
  /\ i <= Cardinality(Rows)
  /\ LET a == RowAt(i) IN
       /\ ~Busy(a) /\ ForwardStage[ShownTab] \notin Terminal \cup {None}
       /\ \E c \in Calls : Begin(c, a, ForwardStage[ShownTab], Button)
       /\ gesture' = [at |-> i, moved |-> {a}]
  /\ UNCHANGED <<stage, scored, listVars, held, dialog, drawer, scoreVars, others>>

\* Mutation: the second click of a double click is a click.
SecondClickActs ==
  /\ gesture # None
  /\ \/ /\ gesture.at <= Cardinality(Rows) /\ ~IsPlaceholder
        /\ LET a == RowAt(gesture.at) IN
             /\ ~Busy(a)
             /\ \E c \in Calls : Begin(c, a, ForwardStage[ShownTab], Button)
             /\ gesture' = [gesture EXCEPT !.moved = @ \cup {a}]
     \/ gesture' = None /\ UNCHANGED call
  /\ UNCHANGED <<stage, scored, listVars, held, dialog, drawer, scoreVars, others>>

\* The second click falls on whatever row is there by then, and does nothing.
SecondClick ==
  /\ gesture # None
  /\ gesture' = None
  /\ UNCHANGED <<stage, scored, listVars, call, held, dialog, drawer, scoreVars, others>>

\* Mutation: the last move's outcome is still there.
OpenDialogAsIs(h, a, s) ==
  /\ dialog = None
  /\ dialog' = [host |-> h, app |-> a, from |-> s]
  /\ UNCHANGED held

\* requestMove: whatever the host's last move came to is forgotten.
OpenDialog(h, a, s) ==
  /\ dialog = None
  /\ dialog' = [host |-> h, app |-> a, from |-> s]
  /\ held' = [held EXCEPT ![h] = None]

\* A row's menu.
RowMenu(a) ==
  /\ drawer = None /\ gesture = None /\ ~IsPlaceholder
  /\ a \in Rows /\ RecruiterTargets(ShownTab) # {}
  /\ OpenDialog(a, a, ShownTab)
  /\ UNCHANGED <<stage, scored, listVars, call, drawer, gesture, scoreVars, others>>

\* A click on a row, or a step from one row to the next.
OpenDrawer(a) ==
  /\ dialog = None /\ gesture = None
  /\ a \in Rows /\ a # drawer
  /\ drawer' = a
  /\ UNCHANGED <<stage, scored, listVars, call, held, dialog, gesture, scoreVars, others>>

CloseDrawer ==
  /\ drawer # None /\ dialog = None
  /\ drawer' = None
  /\ UNCHANGED <<stage, scored, listVars, call, held, dialog, gesture, scoreVars, others>>

\* The drawer's application is the row's, or one fetched on its own once the row has left.
OpenedStage == IF drawer \in Rows THEN ShownTab ELSE stage[drawer]

DrawerMove ==
  /\ drawer # None
  /\ RecruiterTargets(OpenedStage) # {}
  /\ OpenDialog(Page, drawer, OpenedStage)
  /\ UNCHANGED <<stage, scored, listVars, call, drawer, gesture, scoreVars, others>>

DialogPending == held[dialog.host] # None /\ call[held[dialog.host]].pc = "sent"

\* The dialog stays until the server has answered.
Confirm(s) ==
  /\ dialog # None /\ ~DialogPending
  /\ s \in RecruiterTargets(dialog.from)
  /\ \E c \in Calls : /\ Begin(c, dialog.app, s, dialog.host)
                      /\ held' = [held EXCEPT ![dialog.host] = c]
  /\ UNCHANGED <<stage, scored, listVars, dialog, drawer, gesture, scoreVars, others>>

\* Escape closes it, the move under way or not; so does Cancel, before.
Dismiss ==
  /\ dialog # None
  /\ dialog' = None
  /\ UNCHANGED <<stage, scored, listVars, call, held, drawer, gesture, scoreVars, others>>

\* Who called is told only of the last call it made.
Listening(c) == call[c].heard /\ (call[c].by \in Hosts => held[call[c].by] = c)

\* The server moves it: the queue is fetched again, and the dialog that asked is closed.
Accepted(c) ==
  /\ call[c].pc = "sent"
  /\ call[c].to \in RecruiterTargets(stage[call[c].app])
  /\ stage' = [stage EXCEPT ![call[c].app] = call[c].to]
  /\ call' = [call EXCEPT ![c] = [Unused EXCEPT !.pc = "done"]]
  /\ Invalidate
  /\ dialog' = IF dialog # None /\ dialog.host = call[c].by /\ Listening(c) THEN None ELSE dialog
  /\ held' = [h \in Hosts |-> IF held[h] = c THEN None ELSE held[h]]
  /\ UNCHANGED <<scored, tab, cache, last, drawer, gesture, scoreVars, others>>

\* It refuses, or is not reached: the dialog that asked says so; nothing is fetched.
Refused(c) ==
  /\ call[c].pc = "sent"
  /\ call' = [call EXCEPT ![c] = IF @.by \in Hosts /\ Listening(c) THEN [@ EXCEPT !.pc = "refused"]
                                                                  ELSE [Unused EXCEPT !.pc = "done"]]
  /\ UNCHANGED <<stage, scored, listVars, held, dialog, drawer, gesture, scoreVars, others>>

-----------------------------------------------------------------------------
(* Scoring, asked for again.                                               *)

Ask(accepted) ==
  /\ asks < MaxAsks
  /\ asks' = asks + 1
  /\ asked' = asked \cup accepted
  /\ UNCHANGED <<stage, scored, listVars, call, held, dialog, drawer, gesture, others>>

\* A row that never got a score has a button for it; any row's menu offers it, unless disabled.
MayRescore(a) == a \in Rows /\ (IsScoreStalled(a) \/ ~IsPlaceholder)

\* One application's: refreshed only if it was accepted.  One series of refreshes at a time.
Rescore(a) ==
  /\ MayRescore(a) /\ timers = {}
  /\ \/ Ask({a}) /\ timers' = Delays
     \/ Ask({}) /\ UNCHANGED timers

\* The notice above the table: each request is accepted or not by itself.
RescoreAll ==
  LET stalled == {a \in Rows : IsScoreStalled(a)}
  IN  /\ stalled # {} /\ timers = {}
      /\ \E accepted \in SUBSET stalled : Ask(accepted)
      /\ timers' = Delays

\* The worker.
Score(a) ==
  /\ a \in asked \ scored
  /\ scored' = scored \cup {a}
  /\ UNCHANGED <<stage, listVars, call, held, dialog, drawer, gesture, scoreVars, others>>

\* A timer of scheduleScoreRefresh fires, whether the worker is done or not.
Refresh ==
  /\ \E delay \in timers :
       /\ \A d \in timers : delay <= d
       /\ timers' = timers \ {delay}
  /\ Invalidate
  /\ UNCHANGED <<stage, scored, tab, cache, last, call, held, dialog, drawer, gesture, asked, asks,
                 others>>

-----------------------------------------------------------------------------
Init ==
  /\ stage = [a \in AppIds |-> "applied"]
  /\ scored = {}
  /\ tab = "applied" /\ last = "applied"
  /\ cache = [t \in Tabs |-> None]
  /\ fetch = [t \in Tabs |-> IF t = tab THEN Sent ELSE Idle] /\ stale = {}
  /\ call = [c \in Calls |-> Unused]
  /\ held = [h \in Hosts |-> None]
  /\ dialog = None /\ drawer = None /\ gesture = None
  /\ asked = {} /\ asks = 0 /\ timers = {} /\ others = 0

Answering == \E c \in Calls : Accepted(c) \/ Refused(c)
Fetching(t) == ReadPage(t) \/ FetchLands(t) \/ FetchFails(t)

Recruiter ==
  \/ \E t \in Tabs : SwitchTab(t)
  \/ \E i \in AppIds : Forward(i)
  \/ \E a \in AppIds : RowMenu(a) \/ OpenDrawer(a) \/ Rescore(a)
  \/ SecondClick \/ CloseDrawer \/ DrawerMove \/ Dismiss \/ RescoreAll
  \/ \E s \in Stage : Confirm(s)

Next ==
  \/ Recruiter \/ Answering \/ Refresh
  \/ \E t \in Tabs : Fetching(t)
  \/ \E a \in AppIds : Score(a) \/ \E s \in Stage : OthersMove(a, s)

Spec == Init /\ [][Next]_vars

\* Fetches are answered or fail, and timers fire.  The worker may be as slow as it likes.
Fairness == WF_vars(Refresh) /\ \A t \in Tabs : WF_vars(Fetching(t))

FairSpec == Spec /\ Fairness

-----------------------------------------------------------------------------
\* The two clicks of a double click never move two applications, though the row under the
\* pointer may be another's by the second.
DoubleClickMovesOne == gesture # None => Cardinality(gesture.moved) <= 1

\* What a dialog shows as pending or refused is the move of the application it names, and no
\* answer closes the dialog of another.
DialogIsOfItsCall ==
  dialog # None /\ held[dialog.host] # None => call[held[dialog.host]].app = dialog.app

\* One click moves an application from the tab on the screen to the next, never one that is
\* still up from the tab before.
ClicksMoveTheTabsOwn ==
  \A c \in Calls : call[c].pc = "unused" /\ call'[c].by = Button => call'[c].to = ForwardStage[tab]

\* A score that is there before the last of the refreshes comes to be shown, if the recruiter
\* stays on the tab: no page read before it is what the refreshes leave on the screen.
ScoreAppears ==
  \A a \in AppIds, t \in Tabs :
    (tab = t /\ cache[t] # None /\ a \in asked \cap scored /\ timers # {})
      ~> (tab # t \/ fetch[t].pc = "failed" \/ ~IsScoreStalled(a))
===============================================================================
