------------------------------ MODULE StageMoves ------------------------------
(***************************************************************************)
(* The hiring board of one job in a recruiter's tab.  A move is drawn      *)
(* before the server has answered (hooks/usePipeline.ts), over a list that *)
(* is fetched again and again: by polls while a score is awaited, when the *)
(* window gets focus, after every move.  Other recruiters and candidates   *)
(* change the same applications behind it.                                 *)
(*                                                                         *)
(* The query cache and the mutations are TanStack Query's, as the hooks    *)
(* use them: one fetch at a time, an invalidation that cancels it and      *)
(* begins another, callbacks of mutate() that run for the last call only.  *)
(***************************************************************************)
EXTENDS Naturals, FiniteSets

CONSTANTS
  Apps,         \* the job's applications
  Start,        \* the stage each is in when the board is opened
  Scored,       \* those that have their score by then
  MaxMoves,     \* bound on the recruiter's moves
  MaxChanges,   \* bound on the changes the server makes
  MaxLeaves,    \* bound on the times the recruiter goes to another page
  None

Moves == 1 .. MaxMoves

VARIABLES
  server,    \* the applications as the database has them
  young,     \* those that applied less than SCORE_WAIT_MS ago
  list,      \* keys.jobApplications(jobId) in the query cache
  stale,     \* whether it was invalidated with nobody looking
  fetch,     \* the fetch of it
  move,      \* the calls of useMoveApplication's mutate
  latest,    \* the one whose outcome its callbacks are told
  request,   \* the dialog that confirms a move
  dragged,   \* the card held on the board
  open,      \* whether the board is the page on the screen
  leaves,    \* how often it was left
  due        \* the version of the last move the server has answered to

vars == <<server, young, list, stale, fetch, move, latest, request, dragged, open, leaves, due>>
screen == <<latest, request, dragged, open, leaves>>

-----------------------------------------------------------------------------
(* The stages and what the board offers.                                   *)

Stage == {"applied", "screening", "interview", "offer", "hired", "rejected", "withdrawn"}

\* Every application is in a stage when the board is opened; the bounds are numbers.
ConstantsOK ==
  /\ Start \in [Apps -> Stage] /\ Scored \subseteq Apps
  /\ MaxMoves \in Nat /\ MaxChanges \in Nat /\ MaxLeaves \in Nat

Terminal == {"hired", "rejected", "withdrawn"}

NextStages ==
  [ applied   |-> {"screening", "rejected", "withdrawn"},
    screening |-> {"interview", "rejected", "withdrawn"},
    interview |-> {"offer", "rejected", "withdrawn"},
    offer     |-> {"hired", "rejected", "withdrawn"},
    hired     |-> {}, rejected |-> {}, withdrawn |-> {} ]

RecruiterTargets(s) == NextStages[s] \ {"withdrawn"}

Column == (Stage \ {"rejected", "withdrawn"}) \cup {"closed"}

StageForColumn(c) == IF c = "closed" THEN "rejected" ELSE c

CanDrop(from, c) == StageForColumn(c) \in RecruiterTargets(from)

\* A page of applications.  drawn: the moves written into it ahead of the server.
Snapshot == [ stage   : [Apps -> Stage],
              scored  : SUBSET Apps,
              version : 0 .. MaxChanges,
              drawn   : SUBSET Moves ]

Read == [stage |-> server.stage, scored |-> server.scored, version |-> server.version, drawn |-> {}]

WithStage(page, m, a, s) == [page EXCEPT !.stage[a] = s, !.drawn = @ \cup {m}]

\* Worth polling for.
AwaitingScore(a) == a \notin list.scored /\ list.stage[a] \notin Terminal /\ a \in young

-----------------------------------------------------------------------------
\* sent: the read has not happened yet.  served: its answer is on the way.  over: the moves
\* that had begun when the fetch did.
Fetch == [pc : {"idle", "sent", "served", "failed"}, data : Snapshot \cup {None}, over : SUBSET Moves]

NoFetch == [pc |-> "idle", data |-> None, over |-> {}]

\* drawn, sent: onMutate has run.  answered: the hook's callbacks have, and the refetch they wait
\* for is under way.  refetched: it has ended.  told: the caller's callbacks have run.
Move == [ pc       : {"unused", "sent", "served", "answered", "refetched", "done"},
          app      : Apps \cup {None},
          to       : Stage \cup {None},
          previous : Snapshot \cup {None},
          outcome  : {None, "ok", "refused", "lost"},
          version  : 0 .. MaxChanges,
          told     : BOOLEAN ]

Unused == [pc |-> "unused", app |-> None, to |-> None, previous |-> None,
           outcome |-> None, version |-> 0, told |-> FALSE]

Pending == {m \in Moves : move[m].pc \in {"sent", "served"}}
Begun == {m \in Moves : move[m].pc # "unused"}

TypeOK ==
  /\ server \in [stage : [Apps -> Stage], scored : SUBSET Apps, version : 0 .. MaxChanges]
  /\ young \subseteq Apps
  /\ list \in Snapshot
  /\ stale \in BOOLEAN
  /\ fetch \in Fetch
  /\ move \in [Moves -> Move]
  /\ latest \in Moves \cup {None}
  /\ request \in [app : Apps, to : Stage] \cup {None}
  /\ dragged \in [app : Apps, stage : Stage] \cup {None}
  /\ open \in BOOLEAN
  /\ leaves \in 0 .. MaxLeaves
  /\ due \in 0 .. MaxChanges

-----------------------------------------------------------------------------
(* The server and the others who use it.                                   *)

Change(a, s) ==
  server' = [server EXCEPT !.stage[a] = s, !.version = @ + 1]

\* Another recruiter's move, or the candidate's withdrawal.
OthersMove(a, s) ==
  /\ server.version < MaxChanges
  /\ s \in NextStages[server.stage[a]]
  /\ Change(a, s)
  /\ UNCHANGED <<young, list, stale, fetch, move, screen, due>>

ScoreArrives(a) ==
  /\ a \notin server.scored /\ server.version < MaxChanges
  /\ server' = [server EXCEPT !.scored = @ \cup {a}, !.version = @ + 1]
  /\ UNCHANGED <<young, list, stale, fetch, move, screen, due>>

\* A minute has passed since the application.
GrowsOld(a) ==
  /\ a \in young \ server.scored
  /\ young' = young \ {a}
  /\ UNCHANGED <<server, list, stale, fetch, move, screen, due>>

\* PATCH /applications/{id}: moved, or refused because the stage is no longer what it was.
Serve(m) ==
  /\ move[m].pc = "sent"
  /\ IF move[m].to \in RecruiterTargets(server.stage[move[m].app])
       THEN /\ server.version < MaxChanges
            /\ Change(move[m].app, move[m].to)
            /\ \E outcome \in {"ok", "lost"} :
                 move' = [move EXCEPT ![m].pc = "served", ![m].outcome = outcome,
                                      ![m].version = server.version + 1]
       ELSE /\ move' = [move EXCEPT ![m].pc = "served", ![m].outcome = "refused",
                                    ![m].version = server.version]
            /\ UNCHANGED server
  /\ UNCHANGED <<young, list, stale, fetch, screen, due>>

\* The request does not reach the server.
LoseMove(m) ==
  /\ move[m].pc = "sent"
  /\ move' = [move EXCEPT ![m].pc = "served", ![m].outcome = "lost", ![m].version = 0]
  /\ UNCHANGED <<server, young, list, stale, fetch, screen, due>>

-----------------------------------------------------------------------------
(* The list and its fetches.                                               *)

NewFetch == [NoFetch EXCEPT !.pc = "sent", !.over = Begun]

\* invalidateQueries waits for the fetch it begins, until that ends in whatever way.
Refetched == [m \in Moves |-> IF move[m].pc = "answered" THEN [move[m] EXCEPT !.pc = "refetched"]
                                                          ELSE move[m]]

\* A fetch that somebody begins joins the one under way.
BeginFetch ==
  /\ fetch.pc \in {"idle", "failed"}
  /\ fetch' = NewFetch

Poll ==
  /\ open
  /\ \E a \in Apps : AwaitingScore(a)
  /\ BeginFetch
  /\ UNCHANGED <<server, young, list, stale, move, screen, due>>

\* The window gets focus, and what the list holds is older than staleTime.
Refocus ==
  /\ open
  /\ BeginFetch
  /\ UNCHANGED <<server, young, list, stale, move, screen, due>>

ReadList ==
  /\ fetch.pc = "sent"
  /\ fetch' = [fetch EXCEPT !.pc = "served", !.data = Read]
  /\ UNCHANGED <<server, young, list, stale, move, screen, due>>

FetchLands ==
  /\ fetch.pc = "served"
  /\ list' = fetch.data
  /\ stale' = FALSE
  /\ fetch' = NoFetch
  /\ move' = Refetched
  /\ UNCHANGED <<server, young, screen, due>>

\* Every attempt has failed: what was there stays, under the error.
FetchFails ==
  /\ fetch.pc \in {"sent", "served"}
  /\ fetch' = [NoFetch EXCEPT !.pc = "failed"]
  /\ move' = Refetched
  /\ UNCHANGED <<server, young, list, stale, screen, due>>

-----------------------------------------------------------------------------
(* A move, from the card to the answer.                                    *)

\* The modal dialog keeps the rest of the page out of reach.
RequestMove(a, s) ==
  /\ open /\ request = None
  /\ Moves # Begun
  /\ request' = [app |-> a, to |-> s]

\* pendingId: the application whose move is in flight, as far as the page knows.
PendingId == IF latest # None /\ move[latest].pc \notin {"unused", "done"} THEN move[latest].app ELSE None

\* The card's "Move to..." menu.
MenuMove(a, s) ==
  /\ dragged = None
  /\ s \in RecruiterTargets(list.stage[a]) /\ a # PendingId
  /\ RequestMove(a, s)
  /\ UNCHANGED <<server, young, list, stale, fetch, move, latest, dragged, open, leaves, due>>

\* The drawer's buttons, which stay enabled while a move is in flight.
DrawerMove(a, s) ==
  /\ dragged = None
  /\ s \in RecruiterTargets(list.stage[a])
  /\ RequestMove(a, s)
  /\ UNCHANGED <<server, young, list, stale, fetch, move, latest, dragged, open, leaves, due>>

StartDrag(a) ==
  /\ open /\ request = None /\ dragged = None
  /\ list.stage[a] \notin Terminal /\ a # PendingId
  /\ dragged' = [app |-> a, stage |-> list.stage[a]]
  /\ UNCHANGED <<server, young, list, stale, fetch, move, latest, request, open, leaves, due>>

\* Mutation: the column is taken for the stage it stands for.
DropColumn(c) ==
  /\ dragged # None
  /\ dragged' = None
  /\ IF CanDrop(dragged.stage, c) THEN RequestMove(dragged.app, c) ELSE UNCHANGED request
  /\ UNCHANGED <<server, young, list, stale, fetch, move, latest, open, leaves, due>>

\* The card is dropped on a column, by what it was when it was picked up.
Drop(c) ==
  /\ dragged # None
  /\ dragged' = None
  /\ IF CanDrop(dragged.stage, c) THEN RequestMove(dragged.app, StageForColumn(c))
                                  ELSE UNCHANGED request
  /\ UNCHANGED <<server, young, list, stale, fetch, move, latest, open, leaves, due>>

Cancel ==
  /\ request # None
  /\ request' = None
  /\ UNCHANGED <<server, young, list, stale, fetch, move, latest, dragged, open, leaves, due>>

\* Mutation: a fetch under way is left to land.
ConfirmOverFetch(m) ==
  /\ request # None
  /\ m \notin Begun /\ \A n \in 1 .. m - 1 : n \in Begun
  /\ request' = None
  /\ latest' = m
  /\ list' = WithStage(list, m, request.app, request.to)
  /\ move' = [move EXCEPT ![m] = [Unused EXCEPT !.pc = "sent", !.app = request.app, !.to = request.to,
                                                !.previous = list]]
  /\ UNCHANGED <<server, young, stale, fetch, dragged, open, leaves, due>>

\* confirm: mutate, and its onMutate.
Confirm(m) ==
  /\ request # None
  /\ m \notin Begun /\ \A n \in 1 .. m - 1 : n \in Begun
  /\ request' = None
  /\ latest' = m
  /\ fetch' = NoFetch
  /\ list' = WithStage(list, m, request.app, request.to)
  /\ move' = [Refetched EXCEPT ![m] = [Unused EXCEPT !.pc = "sent", !.app = request.app, !.to = request.to,
                                                     !.previous = list]]
  /\ UNCHANGED <<server, young, stale, dragged, open, leaves, due>>

\* Mutation: the fetch under way is taken to be the one the move needs.
InvalidateJoins(m, page) ==
  IF open
    THEN /\ fetch' = IF fetch.pc \in {"sent", "served"} THEN fetch ELSE NewFetch
         /\ move' = [Refetched EXCEPT ![m].pc = "answered", ![m].previous = None]
         /\ list' = page
         /\ UNCHANGED stale
    ELSE /\ move' = [Refetched EXCEPT ![m].pc = "refetched", ![m].previous = None]
         /\ list' = page /\ stale' = TRUE
         /\ UNCHANGED fetch

\* invalidateQueries: begun again if somebody is looking at it, marked if not.
Invalidate(m, page) ==
  /\ list' = page
  /\ move' = [Refetched EXCEPT ![m].pc = IF open THEN "answered" ELSE "refetched", ![m].previous = None, ![m].version = 0]
  /\ IF open THEN fetch' = NewFetch /\ UNCHANGED stale
             ELSE stale' = TRUE /\ UNCHANGED fetch

\* Mutation: a refusal leaves the card where the recruiter put it, and asks for nothing.
AnswerKeeps(m) ==
  /\ move[m].pc = "served"
  /\ IF move[m].outcome = "ok"
       THEN Invalidate(m, list)
       ELSE /\ move' = [move EXCEPT ![m].pc = "refetched", ![m].previous = None]
            /\ UNCHANGED <<list, fetch, stale>>
  /\ due' = IF move[m].version > due THEN move[m].version ELSE due
  /\ UNCHANGED <<server, young, screen>>

\* The answer: a refusal brings back the page as it was before the move, and then
\* onSettled invalidates.
Answer(m) ==
  /\ move[m].pc = "served"
  /\ Invalidate(m, IF move[m].outcome = "ok" THEN list ELSE move[m].previous)
  /\ due' = IF move[m].version > due THEN move[m].version ELSE due
  /\ UNCHANGED <<server, young, screen>>

\* mutate's own callbacks, for the last call of a page that is still there: the toast.
Tell(m) ==
  /\ move[m].pc = "refetched"
  /\ move' = [move EXCEPT ![m] = [Unused EXCEPT !.pc = "done", !.told = (latest = m)]]
  /\ UNCHANGED <<server, young, list, stale, fetch, screen, due>>

-----------------------------------------------------------------------------
(* The recruiter goes elsewhere and comes back.                            *)

Leave ==
  /\ open /\ request = None /\ dragged = None
  /\ leaves < MaxLeaves
  /\ leaves' = leaves + 1
  /\ open' = FALSE
  /\ latest' = None
  /\ UNCHANGED <<server, young, list, stale, fetch, move, request, dragged, due>>

\* The board is mounted again: its list is fetched if it was invalidated, or is old.
Return ==
  /\ ~open
  /\ open' = TRUE
  /\ IF stale THEN fetch' = IF fetch.pc \in {"sent", "served"} THEN fetch ELSE NewFetch
              ELSE BeginFetch \/ UNCHANGED fetch
  /\ UNCHANGED <<server, young, list, stale, move, latest, request, dragged, leaves, due>>

-----------------------------------------------------------------------------
Init ==
  /\ server = [stage |-> Start, scored |-> Scored, version |-> 0]
  /\ young = Apps \ Scored
  /\ list = Read
  /\ stale = FALSE
  /\ fetch = NoFetch
  /\ move = [m \in Moves |-> Unused]
  /\ latest = None
  /\ request = None
  /\ dragged = None
  /\ open = TRUE
  /\ leaves = 0
  /\ due = 0

Others == \E a \in Apps : \/ \E s \in Stage : OthersMove(a, s)
                          \/ ScoreArrives(a)
                          \/ GrowsOld(a)

Fetching == ReadList \/ FetchLands \/ FetchFails

Answering(m) == Serve(m) \/ LoseMove(m) \/ Answer(m) \/ Tell(m)

Recruiter ==
  \/ \E a \in Apps, s \in Stage : MenuMove(a, s) \/ DrawerMove(a, s)
  \/ \E a \in Apps : StartDrag(a)
  \/ \E c \in Column : Drop(c)
  \/ Cancel
  \/ \E m \in Moves : Confirm(m)
  \/ Refocus \/ Leave \/ Return

Next == Others \/ Poll \/ Fetching \/ Recruiter \/ \E m \in Moves : Answering(m)

Spec == Init /\ [][Next]_vars

\* Whatever was sent is answered, or fails.
Fairness == WF_vars(Fetching) /\ \A m \in Moves : WF_vars(Answering(m))

FairSpec == Spec /\ Fairness

-----------------------------------------------------------------------------
\* No fetch that was begun before a move lands on top of it while the server has not
\* answered: "an in-flight poll landing after this would put the card back where it was".
NoEarlierFetchOverAMove == fetch.pc \in {"sent", "served"} => Pending \subseteq fetch.over

\* When every move has been answered and nothing is being fetched, the board shows no move
\* the server did not make; and if the recruiter has stayed on it, it misses none that the
\* server did make.  Unless the last fetch failed.
QuietBoardIsCurrent ==
  open /\ Pending = {} /\ fetch.pc = "idle" => list.drawn = {} /\ (leaves = 0 => list.version >= due)

\* Nothing from before a move is drawn over it (hooks/usePipeline.ts:36), and a board at rest
\* shows what the server last answered (hooks/usePipeline.ts:62).
BoardIsCurrent == NoEarlierFetchOverAMove /\ QuietBoardIsCurrent

\* A move the server refused does not stay on a board that somebody is looking at.
RefusedMoveGoes ==
  \A m \in Moves : (move[m].outcome = "refused") ~> (~open \/ fetch.pc = "failed" \/ m \notin list.drawn)
===============================================================================
