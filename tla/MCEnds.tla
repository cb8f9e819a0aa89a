------------------------------- MODULE MCEnds -------------------------------
(***************************************************************************)
(* Instances for TLC of what must happen in the end: to requests that wait *)
(* for a row lock, to runs, with idempotency keys, and in the console.     *)
(***************************************************************************)
EXTENDS TLC

CONSTANTS r1, r2, None, null

VARIABLES
  world,  \* which of the instances below this behaviour is of; it never changes
  exists, inputs, score, recorded, delivered, request, run,
  record, idempotencyRequest, committed,
  status, terms, profile, stage, history, jobLock, candidateLock, applicationsRequest, clock,
  toasts, nextId, pending, paused, timers,
  jobPageClock, job, jobPageRun, jobPageRequest, old, publishes, changes, losses, failures,
  tab, page, pubs, contents, fetching, fresh, awaited, started, ended,
  server, young, list, stale, fetch, move, latest, stageMovesRequest, dragged, open, leaves,
  due,
  queueMovesStage, scored, queueMovesTab, cache, last, queueMovesFetch, queueMovesStale,
  call, held, dialog, drawer, gesture, asked, asks, queueMovesTimers, others

\* One candidate at two jobs, who withdraws from the first.
Calls ==
  [op : {"apply"}, job : {"j1", "j2"}, candidate : {"c1"}]
    \cup [op : {"withdraw"}, job : {"j1"}, candidate : {"c1"}]

Open == [max_applications |-> null, min_experience_years |-> 0, required_skills |-> {}]
Skilled == [years_experience |-> 1, skills |-> {"skill"}]

\* On the board Ann is being interviewed.
AnnApplied == [a \in {"ann"} |-> "interview"]

Processing ==
  INSTANCE ApplicationProcessing WITH
    Requests <- {r1}, MaxVersion <- 1, MaxAttempts <- 2,
    Faults <- {"unreachable", "unanswered", "attempt_lost"}, NoScore <- None

Keys ==
  INSTANCE Idempotency WITH
    Requests <- {r1, r2}, Bodies <- {"b1", "b2"}, Unique <- FALSE,
    Faults <- {"fails", "unconfirmed", "crash", "redis", "redis_lost", "slow", "late"},
    Nothing <- None, request <- idempotencyRequest

Locks ==
  INSTANCE Applications WITH
    Jobs <- {"j1", "j2"}, Candidates <- {"c1"}, Requests <- {r1, r2},
    Statuses <- {"published"}, Calls <- Calls, Terms <- {Open}, Profiles <- {Skilled},
    MaxActive <- 1, Free <- None, Null <- null, request <- applicationsRequest

Messages ==
  INSTANCE Toasts WITH
    MAX_TOASTS <- 2, MaxShown <- 3

Page ==
  INSTANCE JobPage WITH
    Tabs <- {"publishing"}, MaxPublishes <- 1, MaxChanges <- 0, MaxLosses <- 1,
    Returns <- FALSE, MaxFailures <- 0, clock <- jobPageClock, run <- jobPageRun,
    request <- jobPageRequest

LiveBoard ==
  INSTANCE StageMoves WITH
    Apps <- {"ann"}, Start <- AnnApplied, Scored <- {}, MaxMoves <- 1, MaxChanges <- 1,
    MaxLeaves <- 1, request <- stageMovesRequest

Rescores ==
  INSTANCE QueueMoves WITH
    NApps <- 1, Tabs <- {"applied", "screening"}, MaxCalls <- 0, MaxAsks <- 1,
    MaxOthers <- 0, stage <- queueMovesStage, tab <- queueMovesTab,
    fetch <- queueMovesFetch, stale <- queueMovesStale, timers <- queueMovesTimers

OneTab ==
  INSTANCE QueueMoves WITH
    NApps <- 1, Tabs <- {"applied"}, MaxCalls <- 0, MaxAsks <- 2, MaxOthers <- 1,
    stage <- queueMovesStage, tab <- queueMovesTab, fetch <- queueMovesFetch,
    stale <- queueMovesStale, timers <- queueMovesTimers

ASSUME /\ Processing!ConstantsOK /\ Keys!ConstantsOK /\ Locks!ConstantsOK
       /\ LiveBoard!ConstantsOK

applicationProcessingVars ==
  <<exists, inputs, score, recorded, delivered, request, run>>
idempotencyVars ==
  <<record, idempotencyRequest, committed>>
applicationsVars ==
  <<status, terms, profile, stage, history, jobLock, candidateLock, applicationsRequest,
    clock>>
toastsVars ==
  <<toasts, nextId, pending, paused, timers>>
jobPageVars ==
  <<jobPageClock, job, jobPageRun, jobPageRequest, old, publishes, changes, losses,
    failures, tab, page, pubs, contents, fetching, fresh, awaited, started, ended>>
stageMovesVars ==
  <<server, young, list, stale, fetch, move, latest, stageMovesRequest, dragged, open,
    leaves, due>>
queueMovesVars ==
  <<queueMovesStage, scored, queueMovesTab, cache, last, queueMovesFetch, queueMovesStale,
    call, held, dialog, drawer, gesture, asked, asks, queueMovesTimers, others>>

\* The modules that a behaviour is not of stay as they began.

MCInit ==
  \/ /\ world = "processing" /\ Processing!Init
     /\ Keys!Init /\ Locks!Init /\ Messages!Init /\ Page!Init /\ LiveBoard!Init
     /\ Rescores!Init
  \/ /\ world = "keys" /\ Keys!Init
     /\ Processing!Init /\ Locks!Init /\ Messages!Init /\ Page!Init /\ LiveBoard!Init
     /\ Rescores!Init
  \/ /\ world = "locks" /\ Locks!Init
     /\ Processing!Init /\ Keys!Init /\ Messages!Init /\ Page!Init /\ LiveBoard!Init
     /\ Rescores!Init
  \/ /\ world = "toasts" /\ Messages!Init
     /\ Processing!Init /\ Keys!Init /\ Locks!Init /\ Page!Init /\ LiveBoard!Init
     /\ Rescores!Init
  \/ /\ world = "job page" /\ Page!Init
     /\ Processing!Init /\ Keys!Init /\ Locks!Init /\ Messages!Init /\ LiveBoard!Init
     /\ Rescores!Init
  \/ /\ world = "board" /\ LiveBoard!Init
     /\ Processing!Init /\ Keys!Init /\ Locks!Init /\ Messages!Init /\ Page!Init
     /\ Rescores!Init
  \/ /\ world = "scores" /\ Rescores!Init
     /\ Processing!Init /\ Keys!Init /\ Locks!Init /\ Messages!Init /\ Page!Init
     /\ LiveBoard!Init
  \/ /\ world = "one tab" /\ OneTab!Init
     /\ Processing!Init /\ Keys!Init /\ Locks!Init /\ Messages!Init /\ Page!Init
     /\ LiveBoard!Init

MCNext ==
  /\ UNCHANGED world
  /\ \/ /\ world = "processing" /\ Processing!Next
        /\ UNCHANGED <<idempotencyVars, applicationsVars, toastsVars, jobPageVars,
                       stageMovesVars, queueMovesVars>>
     \/ /\ world = "keys" /\ Keys!Next
        /\ UNCHANGED <<applicationProcessingVars, applicationsVars, toastsVars, jobPageVars,
                       stageMovesVars, queueMovesVars>>
     \/ /\ world = "locks" /\ Locks!Next
        /\ UNCHANGED <<applicationProcessingVars, idempotencyVars, toastsVars, jobPageVars,
                       stageMovesVars, queueMovesVars>>
     \/ /\ world = "toasts" /\ Messages!Next
        /\ UNCHANGED <<applicationProcessingVars, idempotencyVars, applicationsVars,
                       jobPageVars, stageMovesVars, queueMovesVars>>
     \/ /\ world = "job page" /\ Page!Next
        /\ UNCHANGED <<applicationProcessingVars, idempotencyVars, applicationsVars,
                       toastsVars, stageMovesVars, queueMovesVars>>
     \/ /\ world = "board" /\ LiveBoard!Next
        /\ UNCHANGED <<applicationProcessingVars, idempotencyVars, applicationsVars,
                       toastsVars, jobPageVars, queueMovesVars>>
     \/ /\ world = "scores" /\ Rescores!Next
        /\ UNCHANGED <<applicationProcessingVars, idempotencyVars, applicationsVars,
                       toastsVars, jobPageVars, stageMovesVars>>
     \/ /\ world = "one tab" /\ OneTab!Next
        /\ UNCHANGED <<applicationProcessingVars, idempotencyVars, applicationsVars,
                       toastsVars, jobPageVars, stageMovesVars>>

mcVars ==
  <<world, applicationProcessingVars, idempotencyVars, applicationsVars, toastsVars,
  jobPageVars, stageMovesVars, queueMovesVars>>

MCSpec ==
  /\ MCInit /\ [][MCNext]_mcVars
  /\ \A r \in {r1} : WF_(Processing!vars)(world = "processing" /\ Processing!Scoring(r))
  /\ \A r \in {r1} : WF_(Processing!vars)(world = "processing" /\ Processing!Notifying(r))
  /\ \A r \in {r1} : WF_(Processing!vars)(world = "processing" /\ Processing!NotFound(r))
  /\ \A r \in {r1, r2} : WF_(Keys!vars)(world = "keys" /\ Keys!Goes(r))
  /\ WF_(Keys!vars)(world = "keys" /\ Keys!ExpireClaim)
  /\ \A r \in {r1, r2} : WF_(Locks!vars)(world = "locks" /\ Locks!Step(r))
  /\ WF_(Messages!vars)(world = "toasts" /\ Messages!TimeOut)
  /\ WF_(Messages!vars)(world = "toasts" /\ Messages!Settled)
  /\ WF_(Page!vars)(world = "job page" /\ Page!GraceEnds)
  /\ WF_(Page!vars)(world = "job page" /\ Page!PollQuery(Page!Job))
  /\ WF_(Page!vars)(world = "job page" /\ Page!PollQuery(Page!Pub("processing")))
  /\ WF_(Page!vars)(world = "job page" /\ Page!Accepted)
  /\ WF_(Page!vars)(world = "job page" /\ Page!reportPublish)
  /\ WF_(Page!vars)(world = "job page" /\ Page!Refused)
  /\ WF_(Page!vars)(world = "job page" /\ Page!ReadJob)
  /\ WF_(Page!vars)(world = "job page" /\ Page!ReadPublication)
  /\ WF_(Page!vars)(world = "job page" /\ Page!ReadContent)
  /\ WF_(Page!vars)(world = "job page" /\ Page!Commit)
  /\ WF_(Page!vars)(world = "job page" /\ Page!Starting)
  /\ WF_(Page!vars)(world = "job page" /\ Page!AnsweredElsewhere)
  /\ WF_(LiveBoard!vars)(world = "board" /\ LiveBoard!Fetching)
  /\ WF_(LiveBoard!vars)(world = "board" /\ LiveBoard!Answering(1))
  /\ WF_(Rescores!vars)(world = "scores" /\ Rescores!Refresh)
  /\ WF_(Rescores!vars)(world = "scores" /\ Rescores!Fetching("applied"))
  /\ WF_(Rescores!vars)(world = "scores" /\ Rescores!Fetching("screening"))
  /\ WF_(OneTab!vars)(world = "one tab" /\ OneTab!Refresh)
  /\ WF_(OneTab!vars)(world = "one tab" /\ OneTab!Fetching("applied"))


\* Every run ends (backend/app/applications/workflow.py:55).
RunEnds == Processing!RunEnds

\* No request waits for ever, neither on a row lock (backend/app/applications/service.py:168)
\* nor, while it is tried again, on an idempotency key (backend/app/core/idempotency.py:102).
EveryRequestAnswered ==
  /\ Locks!EveryRequestAnswered
  /\ Keys!RetriesAreAnswered

\* A message of a request that settles goes (frontend/src/components/ui/Toast.tsx:102), and one
\* that is being read is not taken away (frontend/src/components/ui/Toast.tsx:167).
MessagesGoInTime ==
  /\ [][world = "toasts" => Messages!ReadInPeace]_mcVars
  /\ Messages!LoadingGoes

\* A page that watches a stuck job offers to start it again
\* (frontend/src/components/job-detail/PublishingTab.tsx:153).
StuckIsOffered == Page!StuckIsOffered

\* A move that was refused leaves the board (frontend/src/hooks/usePipeline.ts:54).
RefusedMoveGoes == LiveBoard!RefusedMoveGoes

\* A score that is there before the last refresh is shown to the recruiter who asked for it and
\* stays on the tab (frontend/src/hooks/queries.ts:413).
ScoreAppears ==
  /\ Rescores!ScoreAppears
  /\ OneTab!ScoreAppears
=============================================================================
