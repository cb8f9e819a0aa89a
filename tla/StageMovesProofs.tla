-------------------------- MODULE StageMovesProofs --------------------------
(***************************************************************************)
(* Theorems about StageMoves, for every set of applications and every      *)
(* number of moves, of changes by others and of trips to other pages:      *)
(* types, that no fetch from before a move is drawn over it, and that a    *)
(* board at rest is current.                                               *)
(***************************************************************************)
EXTENDS StageMoves, TLAPS

-----------------------------------------------------------------------------
(* The inductive invariants.                                               *)

\* The types, and that what is under way has its data: an unanswered move knows its card and
\* the page before it, an answered fetch its page.
TypeInv ==
  /\ TypeOK
  /\ \A m \in Pending : move[m].app \in Apps /\ move[m].to \in Stage /\ move[m].previous \in Snapshot
  /\ fetch.pc = "served" => fetch.data \in Snapshot

\* Something will still change the list, or has failed to.
Shown == Pending # {} \/ fetch.pc # "idle"

\* A move is only drawn on a page that is to be replaced.
DrawnInv ==
  /\ fetch.pc = "served" => fetch.data.drawn = {}
  /\ list.drawn # {} => Shown \/ stale
  /\ open /\ stale => Shown

\* As long as the recruiter stays, what is fetched was read after the last answer.
StayInv ==
  /\ leaves = 0 => open
  /\ due <= server.version
  /\ \A m \in Moves : move[m].version <= server.version
  /\ leaves = 0 => /\ fetch.pc = "served" => fetch.data.version >= due
                   /\ list.version >= due \/ Shown

-----------------------------------------------------------------------------
(* The operators.                                                          *)

LEMMA ReadIs ==
  ASSUME ConstantsOK, TypeOK
  PROVE  Read \in Snapshot /\ Read.drawn = {} /\ Read.version = server.version
  BY DEF ConstantsOK, TypeOK, Read, Snapshot

LEMMA NewFetchIs ==
  /\ NewFetch \in Fetch /\ NewFetch.pc = "sent" /\ NewFetch.over = Begun
  /\ NoFetch \in Fetch /\ NoFetch.pc = "idle"
  /\ [NoFetch EXCEPT !.pc = "failed"] \in Fetch /\ [NoFetch EXCEPT !.pc = "failed"].pc = "failed"
  /\ Pending \subseteq Begun
  BY DEF NewFetch, NoFetch, Fetch, Begun, Pending

\* A page with a move drawn into it.
LEMMA WithStageIs ==
  ASSUME NEW page \in Snapshot, NEW m \in Moves, NEW a \in Apps, NEW s \in Stage
  PROVE  WithStage(page, m, a, s) \in Snapshot
  BY DEF WithStage, Snapshot

LEMMA UnusedIs == ASSUME ConstantsOK PROVE Unused \in Move
  BY DEF ConstantsOK, Unused, Move

\* The end of a fetch changes nothing of a move that has no answer, and no move's version.
LEMMA RefetchedIs ==
  ASSUME TypeOK
  PROVE  /\ Refetched \in [Moves -> Move]
         /\ \A m \in Moves : /\ Refetched[m].version = move[m].version
                             /\ m \in Pending => Refetched[m] = move[m]
                             /\ m \notin Pending => Refetched[m].pc \notin {"sent", "served"}
  BY DEF TypeOK, Refetched, Move, Pending

\* The stages a recruiter may choose are stages.
LEMMA TargetsAreStages ==
  /\ \A s \in Stage : RecruiterTargets(s) \subseteq Stage /\ NextStages[s] \subseteq Stage
  /\ \A c \in Column : StageForColumn(c) \in Stage
  BY DEF Stage, RecruiterTargets, NextStages, Column, StageForColumn

\* The server's applications: a version, and for each a stage.
Applications == [stage : [Apps -> Stage], scored : SUBSET Apps, version : 0 .. MaxChanges]

LEMMA ChangeIs ==
  ASSUME ConstantsOK, TypeOK, NEW a \in Apps, NEW s \in Stage, server.version < MaxChanges, Change(a, s)
  PROVE  server' \in Applications /\ server'.version = server.version + 1
  <1>1. server.version + 1 \in 0 .. MaxChanges
    BY DEF ConstantsOK, TypeOK
  <1>2. [server.stage EXCEPT ![a] = s] \in [Apps -> Stage]
    BY DEF TypeOK
  <1>3. QED
    BY <1>1, <1>2 DEF TypeOK, Change, Applications

\* A move that is sent has no answer yet, and one that is served none that was heard.
LEMMA PendingMoves ==
  ASSUME TypeInv, NEW m \in Moves, move[m].pc \in {"sent", "served"}
  PROVE  m \in Pending /\ move[m] \in Move /\ move[m].app \in Apps /\ move[m].to \in Stage
         /\ move[m].previous \in Snapshot
  BY DEF TypeInv, TypeOK, Pending

-----------------------------------------------------------------------------
(* Types.                                                                  *)

\* A step that leaves the list, its fetches, the moves and the server as they are.
Elsewhere == UNCHANGED <<server, list, stale, fetch, move, due>>

LEMMA ElsewhereKeepsTypes ==
  ASSUME TypeInv, Elsewhere, TypeOK'
  PROVE  TypeInv'
  BY DEF TypeInv, Elsewhere, Pending

\* What the server does by itself.
LEMMA OthersType ==
  ASSUME ConstantsOK, TypeInv, Others
  PROVE  TypeInv'
  <1>0. TypeOK
    BY DEF TypeInv
  <1> SUFFICES ASSUME server' \in Applications, young' \subseteq Apps,
                      UNCHANGED <<list, stale, fetch, move, screen, due>>
               PROVE  TypeInv'
    <2>1. ASSUME NEW a \in Apps, NEW s \in Stage, OthersMove(a, s)
          PROVE  server' \in Applications
      BY <2>1, <1>0, ChangeIs DEF OthersMove
    <2>2. ASSUME NEW a \in Apps, ScoreArrives(a)
          PROVE  server' \in Applications
      <3>1. server.version + 1 \in 0 .. MaxChanges
        BY <2>2, <1>0 DEF ScoreArrives, TypeOK, ConstantsOK
      <3>2. QED
        BY <2>2, <3>1, <1>0 DEF ScoreArrives, TypeOK, Applications
    <2>3. QED
      BY <2>1, <2>2, <1>0 DEF Others, OthersMove, ScoreArrives, GrowsOld, TypeOK, Applications
  <1>1. TypeOK'
    BY <1>0 DEF TypeOK, screen, Applications
  <1>2. QED
    BY <1>1 DEF TypeInv, Pending

LEMMA ServeType ==
  ASSUME ConstantsOK, TypeInv, NEW m \in Moves, Serve(m) \/ LoseMove(m)
  PROVE  /\ TypeInv'
         /\ Pending' = Pending /\ Begun' = Begun
         /\ server'.version >= server.version
         /\ \A n \in Moves : move'[n].version = move[n].version \/ move'[n].version <= server'.version
  <1>0. TypeOK /\ move[m].pc = "sent" /\ UNCHANGED <<young, list, stale, fetch, screen, due>>
    BY DEF TypeInv, Serve, LoseMove
  <1>1. PICK outcome \in {"ok", "refused", "lost"}, version \in 0 .. MaxChanges :
          /\ move' = [move EXCEPT ![m].pc = "served", ![m].outcome = outcome, ![m].version = version]
          /\ version <= server'.version
          /\ server' \in Applications /\ server'.version >= server.version
    <2>1. server \in Applications /\ server.version \in 0 .. MaxChanges /\ MaxChanges \in Nat
      BY <1>0 DEF TypeOK, Applications, ConstantsOK
    <2>2. CASE LoseMove(m)
      <3>1. /\ move' = [move EXCEPT ![m].pc = "served", ![m].outcome = "lost", ![m].version = 0]
            /\ server' = server
        BY <2>2 DEF LoseMove
      <3>2. 0 <= server'.version /\ server'.version >= server.version /\ 0 \in 0 .. MaxChanges
        BY <2>1, <3>1
      <3>3. QED
        BY <2>1, <3>1, <3>2
    <2>3. CASE Serve(m) /\ move[m].to \notin RecruiterTargets(server.stage[move[m].app])
      BY <2>1, <2>3 DEF Serve
    <2>4. CASE Serve(m) /\ move[m].to \in RecruiterTargets(server.stage[move[m].app])
      <3>1. server.version < MaxChanges /\ Change(move[m].app, move[m].to)
        BY <2>4 DEF Serve
      <3>2. server' \in Applications /\ server'.version = server.version + 1
        BY <3>1, <1>0, PendingMoves, ChangeIs
      <3>3. PICK outcome \in {"ok", "lost"} :
              move' = [move EXCEPT ![m].pc = "served", ![m].outcome = outcome,
                                   ![m].version = server.version + 1]
        BY <2>4 DEF Serve
      <3>4. /\ server.version + 1 \in 0 .. MaxChanges /\ server.version + 1 <= server'.version
            /\ server'.version >= server.version
        BY <2>1, <3>1, <3>2
      <3>5. QED
        BY <3>2, <3>3, <3>4
    <2>5. QED
      BY <2>2, <2>3, <2>4
  <1>2. move[m] \in Move
    BY <1>0 DEF TypeOK
  <1>3. [move[m] EXCEPT !.pc = "served", !.outcome = outcome, !.version = version] \in Move
    BY <1>2 DEF Move
  <1>4. move' \in [Moves -> Move] /\ move'[m].pc = "served" /\ move'[m].version = version
        /\ move'[m].app = move[m].app /\ move'[m].to = move[m].to /\ move'[m].previous = move[m].previous
        /\ \A n \in Moves : n # m => move'[n] = move[n]
    BY <1>0, <1>1, <1>2, <1>3 DEF TypeOK, Move
  <1>5. TypeOK'
    BY <1>0, <1>1, <1>4 DEF TypeOK, screen, Applications
  <1>6. Pending' = Pending /\ Begun' = Begun
    BY <1>0, <1>4 DEF Pending, Begun
  <1>7. TypeInv'
    BY <1>0, <1>4, <1>5, <1>6 DEF TypeInv, Pending
  <1>8. \A n \in Moves : move'[n].version = move[n].version \/ move'[n].version <= server'.version
    BY <1>1, <1>4
  <1>9. QED
    BY <1>1, <1>6, <1>7, <1>8

LEMMA EndOfFetch ==
  ASSUME TypeOK, move' = Refetched
  PROVE  /\ move' \in [Moves -> Move] /\ Pending' = Pending
         /\ \A m \in Pending : move'[m] = move[m]
         /\ \A m \in Moves : move'[m].version = move[m].version
  BY RefetchedIs DEF Pending

\* The steps of a fetch.
LEMMA FetchType ==
  ASSUME ConstantsOK, TypeInv, Poll \/ Refocus \/ Fetching
  PROVE  TypeInv' /\ Pending' = Pending
  <1>0. TypeOK
    BY DEF TypeInv
  <1>1. CASE Poll \/ Refocus
    <2>1. fetch' = NewFetch /\ UNCHANGED <<server, young, list, stale, move, screen, due>>
      BY <1>1 DEF Poll, Refocus, BeginFetch
    <2>2. TypeOK' /\ fetch'.pc = "sent"
      BY <2>1, <1>0, NewFetchIs DEF TypeOK, screen
    <2>3. QED
      BY <2>1, <2>2 DEF TypeInv, Pending
  <1>2. CASE ReadList
    <2>1. /\ fetch' = [fetch EXCEPT !.pc = "served", !.data = Read]
          /\ UNCHANGED <<server, young, list, stale, move, screen, due>>
      BY <1>2 DEF ReadList
    <2>2. Read \in Snapshot
      BY <1>0, ReadIs
    <2>3. fetch' \in Fetch /\ fetch'.data = Read
      BY <2>1, <2>2, <1>0 DEF TypeOK, Fetch
    <2>4. TypeOK'
      BY <2>1, <2>3, <1>0 DEF TypeOK, screen
    <2>5. QED
      BY <2>1, <2>2, <2>3, <2>4 DEF TypeInv, Pending
  <1>3. CASE FetchLands
    <2>1. /\ list' = fetch.data /\ stale' = FALSE /\ fetch' = NoFetch /\ move' = Refetched
          /\ UNCHANGED <<server, young, screen, due>> /\ fetch.pc = "served"
      BY <1>3 DEF FetchLands
    <2>2. list' \in Snapshot
      BY <2>1 DEF TypeInv
    <2>3. TypeOK' /\ fetch'.pc = "idle"
      BY <2>1, <2>2, <1>0, EndOfFetch, NewFetchIs DEF TypeOK, screen
    <2>4. QED
      BY <2>1, <2>3, <1>0, EndOfFetch DEF TypeInv
  <1>4. CASE FetchFails
    <2>1. /\ fetch' = [NoFetch EXCEPT !.pc = "failed"] /\ move' = Refetched
          /\ UNCHANGED <<server, young, list, stale, screen, due>>
      BY <1>4 DEF FetchFails
    <2>2. TypeOK' /\ fetch'.pc = "failed"
      BY <2>1, <1>0, EndOfFetch, NewFetchIs DEF TypeOK, screen
    <2>3. QED
      BY <2>1, <2>2, <1>0, EndOfFetch DEF TypeInv
  <1>5. QED
    BY <1>1, <1>2, <1>3, <1>4 DEF Fetching

\* What the recruiter does before a move is confirmed.
LEMMA GestureType ==
  ASSUME TypeInv,
         \/ \E a \in Apps, s \in Stage : MenuMove(a, s) \/ DrawerMove(a, s)
         \/ \E a \in Apps : StartDrag(a)
         \/ \E c \in Column : Drop(c)
         \/ Cancel
  PROVE  TypeInv' /\ Elsewhere /\ UNCHANGED <<open, leaves>>
  <1>0. TypeOK
    BY DEF TypeInv
  <1> DEFINE Gesture == /\ Elsewhere /\ UNCHANGED <<young, latest, open, leaves>>
                        /\ request' \in [app : Apps, to : Stage] \cup {None}
                        /\ dragged' \in [app : Apps, stage : Stage] \cup {None}
  <1>1. Gesture
    <2>1. ASSUME NEW a \in Apps, NEW s \in Stage, MenuMove(a, s) \/ DrawerMove(a, s)
          PROVE  Gesture
      BY <2>1, <1>0 DEF MenuMove, DrawerMove, RequestMove, Elsewhere, TypeOK
    <2>2. ASSUME NEW a \in Apps, StartDrag(a)
          PROVE  Gesture
      BY <2>2, <1>0 DEF StartDrag, Elsewhere, TypeOK, Snapshot
    <2>3. ASSUME NEW c \in Column, Drop(c)
          PROVE  Gesture
      BY <2>3, <1>0, TargetsAreStages DEF Drop, RequestMove, Elsewhere, TypeOK
    <2>4. CASE Cancel
      BY <2>4, <1>0 DEF Cancel, Elsewhere, TypeOK
    <2>5. QED
      BY <2>1, <2>2, <2>3, <2>4
  <1>2. TypeOK'
    BY <1>0, <1>1 DEF TypeOK, Elsewhere
  <1>3. QED
    BY <1>1, <1>2, ElsewhereKeepsTypes

\* A move is drawn: the fetch under way is given up, and it is the last one called.
LEMMA ConfirmType ==
  ASSUME ConstantsOK, TypeInv, NEW m \in Moves, Confirm(m)
  PROVE  /\ TypeInv' /\ Pending' = Pending \cup {m}
         /\ fetch'.pc = "idle" /\ UNCHANGED <<server, stale, open, leaves, due>>
         /\ \A n \in Moves : move'[n].version = move[n].version \/ move'[n].version = 0
  <1>0. TypeOK
    BY DEF TypeInv
  <1> DEFINE new == [Unused EXCEPT !.pc = "sent", !.app = request.app, !.to = request.to, !.previous = list]
  <1>1. /\ request # None /\ request' = None /\ latest' = m /\ fetch' = NoFetch
        /\ list' = WithStage(list, m, request.app, request.to)
        /\ move' = [Refetched EXCEPT ![m] = new]
        /\ UNCHANGED <<server, young, stale, dragged, open, leaves, due>>
    BY DEF Confirm
  <1>2. request.app \in Apps /\ request.to \in Stage /\ list \in Snapshot
    BY <1>0, <1>1 DEF TypeOK
  <1>3. new \in Move /\ new.pc = "sent" /\ new.app \in Apps /\ new.to \in Stage /\ new.previous \in Snapshot
        /\ new.version = 0
    <2>1. Unused \in Move /\ Unused.version = 0
      BY UnusedIs DEF Unused
    <2>2. QED
      BY <1>2, <2>1 DEF Move
  <1>4. /\ move' \in [Moves -> Move] /\ move'[m] = new
        /\ \A n \in Moves : n # m => move'[n] = Refetched[n]
    BY <1>0, <1>1, <1>3, RefetchedIs
  <1>5. list' \in Snapshot
    BY <1>1, <1>2, WithStageIs
  <1>6. TypeOK' /\ fetch'.pc = "idle"
    BY <1>0, <1>1, <1>4, <1>5, NewFetchIs DEF TypeOK
  <1>7. Pending' = Pending \cup {m}
    BY <1>0, <1>3, <1>4, RefetchedIs DEF Pending
  <1>8. TypeInv'
    BY <1>0, <1>3, <1>4, <1>6, <1>7, RefetchedIs DEF TypeInv, Pending
  <1>9. QED
    BY <1>0, <1>1, <1>3, <1>4, <1>6, <1>7, <1>8, RefetchedIs

\* The answer: a fetch is begun on a board that is open, and the list marked on one that is not.
LEMMA AnswerType ==
  ASSUME ConstantsOK, TypeInv, NEW m \in Moves, Answer(m)
  PROVE  /\ TypeInv' /\ Pending' = Pending \ {m}
         /\ open => fetch' = NewFetch /\ fetch'.pc = "sent" /\ UNCHANGED stale
         /\ ~open => stale' = TRUE /\ UNCHANGED fetch
         /\ due' = due \/ due' = move[m].version
         /\ \A n \in Moves : move'[n].version = move[n].version \/ move'[n].version = 0
         /\ UNCHANGED <<server, open, leaves>>
  <1>0. TypeOK
    BY DEF TypeInv
  <1> DEFINE page == IF move[m].outcome = "ok" THEN list ELSE move[m].previous
             pc == IF open THEN "answered" ELSE "refetched"
  <1>1. /\ move[m].pc = "served" /\ list' = page
        /\ move' = [Refetched EXCEPT ![m].pc = pc, ![m].previous = None, ![m].version = 0]
        /\ IF open THEN fetch' = NewFetch /\ UNCHANGED stale ELSE stale' = TRUE /\ UNCHANGED fetch
        /\ due' = IF move[m].version > due THEN move[m].version ELSE due
        /\ UNCHANGED <<server, young, screen>>
    BY DEF Answer, Invalidate
  <1>2. list' \in Snapshot /\ move[m] \in Move /\ m \in Pending
    BY <1>0, <1>1, PendingMoves DEF TypeOK
  <1>3. Refetched[m] = move[m] /\ Refetched \in [Moves -> Move]
    BY <1>0, <1>2, RefetchedIs
  <1>4. [move[m] EXCEPT !.pc = pc, !.previous = None, !.version = 0] \in Move
    <2>1. 0 \in 0 .. MaxChanges /\ pc \in {"answered", "refetched"}
      BY DEF ConstantsOK
    <2>2. QED
      BY <1>2, <2>1 DEF Move
  <1>5. /\ move' \in [Moves -> Move] /\ move'[m].pc = pc /\ move'[m].version = 0
        /\ \A n \in Moves : n # m => move'[n] = Refetched[n]
    BY <1>1, <1>2, <1>3, <1>4 DEF Move
  <1>6. due' \in 0 .. MaxChanges
    BY <1>0, <1>1, <1>2 DEF TypeOK, Move
  <1>7. TypeOK'
    BY <1>0, <1>1, <1>2, <1>5, <1>6, NewFetchIs DEF TypeOK, screen
  <1>8. Pending' = Pending \ {m}
    BY <1>0, <1>5, RefetchedIs DEF Pending
  <1>9. TypeInv'
    BY <1>0, <1>1, <1>5, <1>7, <1>8, RefetchedIs, NewFetchIs DEF TypeInv, Pending
  <1>10. QED
    BY <1>0, <1>1, <1>5, <1>8, <1>9, RefetchedIs, NewFetchIs DEF screen

LEMMA TellType ==
  ASSUME ConstantsOK, TypeInv, NEW m \in Moves, Tell(m)
  PROVE  /\ TypeInv' /\ Pending' = Pending
         /\ \A n \in Moves : move'[n].version = move[n].version \/ move'[n].version = 0
         /\ UNCHANGED <<server, list, stale, fetch, open, leaves, due>>
  <1>0. TypeOK
    BY DEF TypeInv
  <1> DEFINE new == [Unused EXCEPT !.pc = "done", !.told = (latest = m)]
  <1>1. /\ move[m].pc = "refetched" /\ move' = [move EXCEPT ![m] = new]
        /\ UNCHANGED <<server, young, list, stale, fetch, screen, due>>
    BY DEF Tell
  <1>2. new \in Move /\ new.pc = "done" /\ new.version = 0
    <2>1. Unused \in Move /\ Unused.version = 0 /\ (latest = m) \in BOOLEAN
      BY UnusedIs DEF Unused
    <2>2. QED
      BY <2>1 DEF Move
  <1>3. move' \in [Moves -> Move] /\ move'[m] = new /\ \A n \in Moves : n # m => move'[n] = move[n]
    BY <1>0, <1>1, <1>2 DEF TypeOK
  <1>4. TypeOK'
    BY <1>0, <1>1, <1>3 DEF TypeOK, screen
  <1>5. Pending' = Pending
    BY <1>1, <1>2, <1>3 DEF Pending
  <1>6. TypeInv'
    BY <1>1, <1>2, <1>3, <1>4, <1>5 DEF TypeInv, Pending
  <1>7. QED
    BY <1>1, <1>2, <1>3, <1>5, <1>6 DEF screen

\* The board is left, and returned to.
LEMMA VisitType ==
  ASSUME ConstantsOK, TypeInv, Leave \/ Return
  PROVE  TypeInv' /\ Pending' = Pending /\ UNCHANGED <<server, list, stale, move, due>>
  <1>0. TypeOK
    BY DEF TypeInv
  <1>1. CASE Leave
    <2>1. leaves' \in 0 .. MaxLeaves
      BY <1>0, <1>1 DEF Leave, TypeOK, ConstantsOK
    <2>2. TypeOK'
      BY <1>0, <1>1, <2>1 DEF Leave, TypeOK
    <2>3. QED
      BY <1>1, <2>2 DEF Leave, TypeInv, Pending
  <1>2. CASE Return
    <2>1. fetch' = NewFetch \/ fetch' = fetch
      BY <1>2 DEF Return, BeginFetch
    <2>2. TypeOK'
      BY <1>0, <1>2, <2>1, NewFetchIs DEF Return, TypeOK
    <2>3. QED
      BY <1>2, <2>1, <2>2, NewFetchIs DEF Return, TypeInv, Pending
  <1>3. QED
    BY <1>1, <1>2

LEMMA InitType == ASSUME ConstantsOK, Init PROVE TypeInv
  <1>1. TypeOK
    <2>1. server \in [stage : [Apps -> Stage], scored : SUBSET Apps, version : 0 .. MaxChanges]
      BY DEF Init, ConstantsOK
    <2>2. list \in Snapshot /\ young \subseteq Apps
      BY <2>1 DEF Init, Read, Snapshot
    <2>3. leaves \in 0 .. MaxLeaves /\ due \in 0 .. MaxChanges
      BY DEF Init, ConstantsOK
    <2>4. QED
      BY <2>1, <2>2, <2>3, UnusedIs, NewFetchIs DEF Init, TypeOK
  <1>2. Pending = {} /\ fetch.pc = "idle"
    BY NewFetchIs DEF Init, Pending, Unused
  <1>3. QED
    BY <1>1, <1>2 DEF TypeInv

LEMMA TypeStep == ASSUME ConstantsOK, TypeInv, [Next]_vars PROVE TypeInv'
  <1>1. CASE UNCHANGED vars
    BY <1>1 DEF TypeInv, TypeOK, vars, Pending
  <1>2. CASE Others
    BY <1>2, OthersType
  <1>3. CASE Poll \/ Refocus \/ Fetching
    BY <1>3, FetchType
  <1>4. CASE Recruiter /\ ~Refocus
    BY <1>4, GestureType, ConfirmType, VisitType DEF Recruiter
  <1>5. ASSUME NEW m \in Moves, Answering(m)
        PROVE  TypeInv'
    BY <1>5, ServeType, AnswerType, TellType DEF Answering
  <1>6. QED
    BY <1>1, <1>2, <1>3, <1>4, <1>5 DEF Next

\* Every variable keeps its type, for any applications, moves, changes and visits.
THEOREM TypeCorrect == ASSUME ConstantsOK PROVE Spec => []TypeOK
  <1>1. Init => TypeInv
    BY InitType
  <1>2. TypeInv /\ [Next]_vars => TypeInv'
    BY TypeStep
  <1>3. TypeInv => TypeOK
    BY DEF TypeInv
  <1>4. QED
    BY <1>1, <1>2, <1>3, PTL DEF Spec

-----------------------------------------------------------------------------
(* What a step does to the list, its fetch and what is pending.            *)

\* Every step is one of these: what it does to the list, to its fetch and to the moves.
LEMMA StepIs ==
  ASSUME ConstantsOK, TypeInv, [Next]_vars
  PROVE  \/ /\ UNCHANGED <<list, stale, fetch, open, leaves, due>> /\ Pending' = Pending
            /\ server'.version >= server.version
            /\ \A m \in Moves : move'[m].version \in {move[m].version, 0} \/ move'[m].version <= server'.version
         \/ /\ Poll \/ Refocus \/ Leave \/ Return \/ Fetching
            /\ Pending' = Pending /\ UNCHANGED <<server, due>>
            /\ \A m \in Moves : move'[m].version = move[m].version
         \/ \E m \in Moves : Confirm(m) \/ Answer(m)
  <1>0. TypeOK
    BY DEF TypeInv
  <1>1. CASE UNCHANGED vars \/ Others
    <2>1. UNCHANGED <<list, stale, fetch, move, open, leaves, due>>
      BY <1>1 DEF vars, Others, OthersMove, ScoreArrives, GrowsOld, screen
    <2>2. server'.version >= server.version
      <3>1. server.version \in Nat
        BY <1>0 DEF TypeOK, ConstantsOK
      <3>2. ASSUME NEW a \in Apps, NEW s \in Stage, OthersMove(a, s)
            PROVE  server'.version >= server.version
        BY <3>1, <3>2, <1>0, ChangeIs DEF OthersMove
      <3>3. ASSUME NEW a \in Apps, ScoreArrives(a)
            PROVE  server'.version >= server.version
        <4>1. /\ server \in Applications
              /\ server' = [server EXCEPT !.scored = @ \cup {a}, !.version = @ + 1]
          BY <3>3, <1>0 DEF ScoreArrives, TypeOK, Applications
        <4>2. server'.version = server.version + 1
          BY <4>1 DEF Applications
        <4>3. QED
          BY <3>1, <4>2
      <3>4. CASE UNCHANGED server
        BY <3>1, <3>4
      <3>5. QED
        BY <1>1, <3>2, <3>3, <3>4 DEF Others, GrowsOld, vars
    <2>3. QED
      BY <2>1, <2>2 DEF Pending
  <1>2. CASE Poll \/ Refocus \/ Fetching
    <2>1. UNCHANGED <<server, due>> /\ (move' = move \/ move' = Refetched)
      BY <1>2 DEF Poll, Refocus, Fetching, ReadList, FetchLands, FetchFails
    <2>2. QED
      BY <1>0, <1>2, <2>1, FetchType, EndOfFetch
  <1>3. CASE Leave \/ Return
    BY <1>3, VisitType
  <1>4. CASE \E m \in Moves : Confirm(m) \/ Answer(m)
    BY <1>4
  <1>5. CASE Recruiter /\ ~Refocus /\ ~Leave /\ ~Return /\ ~\E m \in Moves : Confirm(m)
    <2>1. Elsewhere /\ UNCHANGED <<open, leaves>>
      BY <1>5, GestureType DEF Recruiter
    <2>2. server.version \in Nat
      BY <1>0 DEF TypeOK, ConstantsOK
    <2>3. QED
      BY <2>1, <2>2 DEF Elsewhere, Pending
  <1>6. ASSUME NEW m \in Moves, Serve(m) \/ LoseMove(m) \/ Tell(m)
        PROVE  /\ UNCHANGED <<list, stale, fetch, open, leaves, due>> /\ Pending' = Pending
               /\ server'.version >= server.version
               /\ \A n \in Moves : move'[n].version \in {move[n].version, 0} \/ move'[n].version <= server'.version
    <2>1. server.version \in Nat
      BY <1>0 DEF TypeOK, ConstantsOK
    <2>2. CASE Tell(m)
      BY <2>1, <2>2, TellType
    <2>3. CASE Serve(m) \/ LoseMove(m)
      BY <2>3, ServeType DEF Serve, LoseMove, screen
    <2>4. QED
      BY <1>6, <2>2, <2>3
  <1>7. QED
    BY <1>1, <1>2, <1>3, <1>4, <1>5, <1>6 DEF Next, Answering

-----------------------------------------------------------------------------
(* Nothing from before a move is drawn over it.                            *)

LEMMA FetchStep ==
  ASSUME ConstantsOK, TypeInv, NoEarlierFetchOverAMove, [Next]_vars
  PROVE  NoEarlierFetchOverAMove'
  <1>1. ASSUME NEW m \in Moves, Confirm(m)
        PROVE  NoEarlierFetchOverAMove'
    BY <1>1, ConfirmType DEF NoEarlierFetchOverAMove
  <1>2. ASSUME NEW m \in Moves, Answer(m)
        PROVE  NoEarlierFetchOverAMove'
    BY <1>2, AnswerType, NewFetchIs DEF NoEarlierFetchOverAMove
  <1>3. CASE UNCHANGED fetch /\ Pending' = Pending
    BY <1>3 DEF NoEarlierFetchOverAMove
  <1>4. CASE (Poll \/ Refocus \/ Leave \/ Return \/ Fetching) /\ Pending' = Pending
    <2>1. \/ fetch' \in {fetch, NewFetch} \/ fetch'.pc \in {"idle", "failed"}
          \/ fetch.pc = "sent" /\ fetch' = [fetch EXCEPT !.pc = "served", !.data = Read]
      BY <1>4, NewFetchIs
         DEF Poll, Refocus, Leave, Return, BeginFetch, Fetching, ReadList, FetchLands, FetchFails
    <2>2. fetch \in Fetch
      BY DEF TypeInv, TypeOK
    <2>3. QED
      BY <1>4, <2>1, <2>2, NewFetchIs DEF NoEarlierFetchOverAMove, Fetch
  <1>5. QED
    BY <1>1, <1>2, <1>3, <1>4, StepIs

\* "An in-flight poll landing after this would put the card back where it was": no fetch that
\* began before a move is still under way while the move has no answer.
THEOREM NothingLandsOverAMove == ASSUME ConstantsOK PROVE Spec => []NoEarlierFetchOverAMove
  <1>1. Init => TypeInv /\ NoEarlierFetchOverAMove
    BY InitType, NewFetchIs DEF Init, NoEarlierFetchOverAMove
  <1>2. TypeInv /\ NoEarlierFetchOverAMove /\ [Next]_vars => (TypeInv /\ NoEarlierFetchOverAMove)'
    BY TypeStep, FetchStep
  <1>3. QED
    BY <1>1, <1>2, PTL DEF Spec

-----------------------------------------------------------------------------
(* A board at rest.                                                        *)

BoardInv == TypeInv /\ NoEarlierFetchOverAMove /\ DrawnInv /\ StayInv

LEMMA DrawnStep ==
  ASSUME ConstantsOK, TypeInv, DrawnInv, [Next]_vars
  PROVE  DrawnInv'
  <1>0. TypeOK
    BY DEF TypeInv
  <1>1. ASSUME NEW m \in Moves, Confirm(m)
        PROVE  DrawnInv'
    BY <1>1, ConfirmType DEF DrawnInv, Shown
  <1>2. ASSUME NEW m \in Moves, Answer(m)
        PROVE  DrawnInv'
    BY <1>2, AnswerType, <1>0 DEF DrawnInv, Shown, TypeOK
  <1>3. CASE UNCHANGED <<list, stale, fetch, open>> /\ Pending' = Pending
    BY <1>3 DEF DrawnInv, Shown
  <1>4. CASE Pending' = Pending /\ (Poll \/ Refocus \/ Leave \/ Return \/ FetchFails)
    <2>1. /\ UNCHANGED <<list, stale>>
          /\ fetch' = fetch \/ fetch'.pc = "sent" \/ fetch'.pc = "failed"
          /\ open' /\ ~open /\ stale => fetch'.pc # "idle"
          /\ open' => open \/ Return
      <3>1. CASE Return
        BY <3>1, NewFetchIs DEF Return, BeginFetch
      <3>2. CASE Leave
        BY <3>2 DEF Leave
      <3>3. CASE Poll \/ Refocus \/ FetchFails
        <4>1. UNCHANGED <<list, stale, open>>
          BY <3>3 DEF Poll, Refocus, FetchFails, screen
        <4>2. fetch'.pc = "sent" \/ fetch'.pc = "failed"
          BY <3>3, NewFetchIs DEF Poll, Refocus, BeginFetch, FetchFails
        <4>3. QED
          BY <4>1, <4>2, Zenon
      <3>4. QED
        BY <1>4, <3>1, <3>2, <3>3
    <2>2. QED
      BY <1>0, <1>4, <2>1 DEF DrawnInv, Shown, TypeOK
  <1>5. CASE ReadList /\ Pending' = Pending
    <2>1. fetch' = [fetch EXCEPT !.pc = "served", !.data = Read] /\ fetch \in Fetch
          /\ UNCHANGED <<list, stale, open>>
      BY <1>0, <1>5 DEF ReadList, screen, TypeOK
    <2>2. fetch'.pc = "served" /\ fetch'.data = Read
      BY <2>1 DEF Fetch
    <2>3. QED
      BY <1>0, <2>1, <2>2, ReadIs DEF DrawnInv, Shown
  <1>6. CASE FetchLands
    BY <1>6, NewFetchIs DEF FetchLands, DrawnInv
  <1>7. QED
    BY <1>1, <1>2, <1>3, <1>4, <1>5, <1>6, StepIs DEF Fetching

LEMMA StayStep ==
  ASSUME ConstantsOK, TypeInv, StayInv, [Next]_vars
  PROVE  StayInv'
  <1>0. TypeOK /\ TypeInv'
    BY TypeStep DEF TypeInv
  <1>1. /\ leaves \in Nat /\ due \in Nat /\ server.version \in Nat /\ list.version \in Nat
        /\ server'.version \in Nat
        /\ \A m \in Moves : move[m].version \in Nat /\ move'[m].version \in Nat
    BY <1>0 DEF TypeInv, TypeOK, Snapshot, Move, ConstantsOK
  <1>2. ASSUME NEW m \in Moves, Confirm(m)
        PROVE  StayInv'
    BY <1>1, <1>2, ConfirmType DEF StayInv, Shown
  <1>3. ASSUME NEW m \in Moves, Answer(m)
        PROVE  StayInv'
    <2>1. /\ server' = server /\ open' = open /\ leaves' = leaves
          /\ due' = due \/ due' = move[m].version
          /\ open => fetch'.pc = "sent"
          /\ \A n \in Moves : move'[n].version = move[n].version \/ move'[n].version = 0
      BY <1>3, AnswerType
    <2>2. due' <= server'.version /\ \A n \in Moves : move'[n].version <= server'.version
      <3>1. due <= server.version /\ \A n \in Moves : move[n].version <= server.version
        BY DEF StayInv
      <3>2. server' = server /\ 0 <= server.version
        BY <1>1, <2>1
      <3>3. QED
        BY <2>1, <3>1, <3>2, Zenon
    <2>3. leaves' = 0 => open' /\ fetch'.pc = "sent"
      <3>1. leaves = 0 => open
        BY DEF StayInv
      <3>2. QED
        BY <2>1, <3>1, Zenon
    <2>4. QED
      BY <2>2, <2>3 DEF StayInv, Shown
  <1>4. CASE /\ UNCHANGED <<list, fetch, open, leaves, due>> /\ Pending' = Pending
             /\ server'.version >= server.version
             /\ \A m \in Moves : move'[m].version \in {move[m].version, 0} \/ move'[m].version <= server'.version
    BY <1>1, <1>4 DEF StayInv, Shown
  <1>5. CASE /\ Pending' = Pending /\ UNCHANGED <<server, due>>
             /\ \A m \in Moves : move'[m].version = move[m].version
             /\ Poll \/ Refocus \/ Leave \/ Return \/ FetchFails
    <2>1. /\ UNCHANGED list
          /\ fetch' = fetch \/ fetch'.pc = "sent" \/ fetch'.pc = "failed"
          /\ leaves' = 0 => leaves = 0 /\ (open => open')
      <3>1. CASE Return
        BY <3>1, NewFetchIs DEF Return, BeginFetch
      <3>2. CASE Leave
        BY <1>1, <3>2 DEF Leave
      <3>3. CASE Poll \/ Refocus \/ FetchFails
        <4>1. UNCHANGED <<list, stale, open, leaves>>
          BY <3>3 DEF Poll, Refocus, FetchFails, screen
        <4>2. fetch'.pc = "sent" \/ fetch'.pc = "failed"
          BY <3>3, NewFetchIs DEF Poll, Refocus, BeginFetch, FetchFails
        <4>3. QED
          BY <4>1, <4>2, Zenon
      <3>4. QED
        BY <1>5, <3>1, <3>2, <3>3
    <2>2. QED
      BY <1>5, <2>1 DEF StayInv, Shown
  <1>6. CASE /\ Pending' = Pending /\ UNCHANGED <<server, due>>
             /\ \A m \in Moves : move'[m].version = move[m].version
             /\ ReadList
    <2>1. fetch' = [fetch EXCEPT !.pc = "served", !.data = Read] /\ fetch \in Fetch
          /\ UNCHANGED <<list, open, leaves>>
      BY <1>0, <1>6 DEF ReadList, screen, TypeOK
    <2>2. fetch'.pc = "served" /\ fetch'.data = Read
      BY <2>1 DEF Fetch
    <2>3. QED
      BY <1>0, <1>6, <2>1, <2>2, ReadIs DEF StayInv, Shown
  <1>7. CASE /\ UNCHANGED <<server, due>>
             /\ \A m \in Moves : move'[m].version = move[m].version
             /\ FetchLands
    BY <1>7, NewFetchIs DEF FetchLands, StayInv, screen
  <1>8. QED
    BY <1>2, <1>3, <1>4, <1>5, <1>6, <1>7, StepIs DEF Fetching

LEMMA BoardHolds == ASSUME ConstantsOK PROVE Spec => []BoardInv
  <1>1. Init => BoardInv
    <2>1. SUFFICES ASSUME Init PROVE BoardInv
      OBVIOUS
    <2>2. server.version = 0 /\ list.version = 0 /\ list.drawn = {} /\ fetch.pc = "idle" /\ due = 0
      BY <2>1, NewFetchIs DEF Init, Read
    <2>3. \A m \in Moves : move[m].version = 0
      BY <2>1 DEF Init, Unused
    <2>4. TypeInv /\ NoEarlierFetchOverAMove
      BY <2>1, <2>2, InitType DEF NoEarlierFetchOverAMove
    <2>5. DrawnInv
      BY <2>1, <2>2 DEF Init, DrawnInv
    <2>6. StayInv
      BY <2>1, <2>2, <2>3 DEF Init, StayInv
    <2>7. QED
      BY <2>4, <2>5, <2>6 DEF BoardInv
  <1>2. BoardInv /\ [Next]_vars => BoardInv'
    BY TypeStep, FetchStep, DrawnStep, StayStep DEF BoardInv
  <1>3. QED
    BY <1>1, <1>2, PTL DEF Spec

\* A board at rest shows no move the server did not make, and misses none that it made as long
\* as the recruiter has stayed; and nothing from before a move is drawn over it.
THEOREM BoardStaysCurrent == ASSUME ConstantsOK PROVE Spec => []BoardIsCurrent
  <1>1. BoardInv => BoardIsCurrent
    BY DEF BoardInv, DrawnInv, StayInv, Shown, BoardIsCurrent, QuietBoardIsCurrent
  <1>2. QED
    BY <1>1, BoardHolds, PTL
=============================================================================
