------------------------------- MODULE MCTab --------------------------------
(***************************************************************************)
(* Instances for TLC of one browser tab: the session it keeps, and the     *)
(* hiring board it shows, whose moves are drawn ahead of the server.       *)
(***************************************************************************)
EXTENDS MCClientSession

CONSTANT None

VARIABLES
  world,  \* which of the instances below this behaviour is of; it never changes
  server, young, list, stale, fetch, move, latest, request, dragged, stageMovesOpen, leaves,
  due

\* On the board two candidates have an offer.
Offered == [a \in {ann, bob} |-> "offer"]

\* Or there is one, who is being interviewed.
Interviewed == [a \in {1} |-> "interview"]

HiringBoard ==
  INSTANCE StageMoves WITH
    Apps <- {ann, bob}, Start <- Offered, Scored <- {ann, bob}, MaxMoves <- 2,
    MaxChanges <- 1, MaxLeaves <- 0, open <- stageMovesOpen

OneCard ==
  INSTANCE StageMoves WITH
    Apps <- {1}, Start <- Interviewed, Scored <- {1}, MaxMoves <- 2, MaxChanges <- 2,
    MaxLeaves <- 0, open <- stageMovesOpen

CardLeft ==
  INSTANCE StageMoves WITH
    Apps <- {1}, Start <- Interviewed, Scored <- {1}, MaxMoves <- 2, MaxChanges <- 1,
    MaxLeaves <- 1, open <- stageMovesOpen

ASSUME HiringBoard!ConstantsOK /\ OneCard!ConstantsOK /\ CardLeft!ConstantsOK

stageMovesVars ==
  <<server, young, list, stale, fetch, move, latest, request, dragged, stageMovesOpen,
    leaves, due>>

\* The variables of the modules that a behaviour is not of are off;
\* those of ClientSession stay as they began.
Off == "off"
NoStageMoves ==
  /\ server = Off /\ young = Off /\ list = Off /\ stale = Off /\ fetch = Off /\ move = Off
  /\ latest = Off /\ request = Off /\ dragged = Off /\ stageMovesOpen = Off /\ leaves = Off
  /\ due = Off

MCInit ==
  \/ /\ world = "session" /\ Init
     /\ NoStageMoves
  \/ /\ world = "board" /\ HiringBoard!Init
     /\ Init
  \/ /\ world = "one card" /\ OneCard!Init
     /\ Init
  \/ /\ world = "card left" /\ CardLeft!Init
     /\ Init

MCNext ==
  /\ UNCHANGED world
  /\ \/ /\ world = "session" /\ Next
        /\ UNCHANGED stageMovesVars
     \/ /\ world = "board" /\ HiringBoard!Next
        /\ UNCHANGED vars
     \/ /\ world = "one card" /\ OneCard!Next
        /\ UNCHANGED vars
     \/ /\ world = "card left" /\ CardLeft!Next
        /\ UNCHANGED vars

mcVars ==
  <<world, vars, stageMovesVars>>

MCSpec == MCInit /\ [][MCNext]_mcVars

\* Every variable keeps the type that its module gives it.
TypesOK ==
  /\ world = "session" => TypeOK
  /\ world = "board" => HiringBoard!TypeOK
  /\ world = "one card" => OneCard!TypeOK
  /\ world = "card left" => CardLeft!TypeOK

\* Nothing from before a move is drawn over it (frontend/src/hooks/usePipeline.ts:36), and a board
\* at rest shows what the server last answered (frontend/src/hooks/usePipeline.ts:62).
BoardIsCurrent ==
  /\ world = "board" => HiringBoard!BoardIsCurrent
  /\ world = "one card" => OneCard!BoardIsCurrent
  /\ world = "card left" => CardLeft!BoardIsCurrent
=============================================================================
