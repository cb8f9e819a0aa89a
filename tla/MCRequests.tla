----------------------------- MODULE MCRequests -----------------------------
(***************************************************************************)
(* Instances for TLC of the API's requests and the runs they start, for    *)
(* what must never be so however they race: the content of a job, the      *)
(* rules of applying, idempotency keys (the server's side, and the job     *)
(* editor's), sessions and the scores.                                     *)
(***************************************************************************)
EXTENDS AuthSessions, TLC

CONSTANTS r1, r2, r3, r4, none, null

VARIABLES
  world,  \* which of the instances below this behaviour is of; it never changes
  job, jobPublishingRequest, run, latest,
  status, terms, profile, stage, history, jobLock, candidateLock, applicationsRequest, clock,
  record, idempotencyRequest, committed,
  exists, inputs, score, recorded, delivered, applicationProcessingRequest,
  applicationProcessingRun,
  text, edits, current, post, posts, handlers, submitOnceRecord, created, draft, page,
  submitOnceJob, submitOnceStage, mine

Three == {r1, r2, r3}
Four == Three \cup {r4}

\* Two candidates at one job; the first may be moved on, and withdraw.
Calls ==
  [op : {"apply"}, job : {"j1"}, candidate : {"c1", "c2"}]
    \cup [op : {"withdraw"}, job : {"j1"}, candidate : {"c1"}]
    \cup [op : {"advance"}, job : {"j1"}, candidate : {"c1"}, to : {"screening", "interview", "rejected"}]

\* One candidate at two jobs, who withdraws from the first.
AtTwoJobs ==
  [op : {"apply"}, job : {"j1", "j2"}, candidate : {"c1"}]
    \cup [op : {"withdraw"}, job : {"j1"}, candidate : {"c1"}]

Hiring == {"draft", "published", "closed"}

Open == [max_applications |-> null, min_experience_years |-> 0, required_skills |-> {}]
Capped == [max_applications |-> 1, min_experience_years |-> 1, required_skills |-> {"skill"}]

Junior == [years_experience |-> 0, skills |-> {"skill"}]
Senior == [years_experience |-> 1, skills |-> {}]
Skilled == [years_experience |-> 1, skills |-> {"skill"}]

Contents ==
  INSTANCE JobPublishing WITH
    NoError <- none, NoRun <- none, Requests <- Three, MaxText <- 3,
    Faults <- {"unanswered", "report_lost"}, request <- jobPublishingRequest

Rules ==
  INSTANCE Applications WITH
    Jobs <- {"j1"}, Candidates <- {"c1", "c2"}, Requests <- Three, Statuses <- Hiring,
    Calls <- Calls, Terms <- {Open, Capped}, Profiles <- {Junior, Senior, Skilled},
    MaxActive <- 1, Free <- none, Null <- null, request <- applicationsRequest

Limits ==
  INSTANCE Applications WITH
    Jobs <- {"j1", "j2"}, Candidates <- {"c1"}, Requests <- Three,
    Statuses <- {"published"}, Calls <- AtTwoJobs, Terms <- {Open}, Profiles <- {Skilled},
    MaxActive <- 1, Free <- none, Null <- null, request <- applicationsRequest

Keys ==
  INSTANCE Idempotency WITH
    Requests <- Three, Bodies <- {"b1", "b2"}, Unique <- FALSE, Faults <- {"fails"},
    Nothing <- none, request <- idempotencyRequest

Scores ==
  INSTANCE ApplicationProcessing WITH
    NoScore <- none, Requests <- {r1, r2}, MaxVersion <- 2, MaxAttempts <- 1,
    Faults <- {"unreachable", "unanswered", "attempt_lost"},
    request <- applicationProcessingRequest, run <- applicationProcessingRun

FaultyKeys ==
  INSTANCE Idempotency WITH
    Requests <- Three, Bodies <- {"b1", "b2"}, Unique <- FALSE,
    Faults <- {"fails", "unconfirmed", "crash", "redis", "redis_lost", "slow", "late"},
    Nothing <- none, request <- idempotencyRequest

Confirmations ==
  INSTANCE ApplicationProcessing WITH
    NoScore <- none, Requests <- {r1, r2}, MaxVersion <- 1, MaxAttempts <- 2,
    Faults <- {"attempt_lost", "stray"}, request <- applicationProcessingRequest,
    run <- applicationProcessingRun

RetriedScores ==
  INSTANCE ApplicationProcessing WITH
    NoScore <- none, Requests <- {r1}, MaxVersion <- 2, MaxAttempts <- 2,
    Faults <- {"unreachable", "unanswered", "attempt_lost"},
    request <- applicationProcessingRequest, run <- applicationProcessingRun

Create ==
  INSTANCE SubmitOnce WITH
    Sends <- "job", MaxEdits <- 1, MaxPosts <- 3, Drops <- FALSE, None <- none,
    record <- submitOnceRecord, job <- submitOnceJob, stage <- submitOnceStage

ASSUME /\ Rules!ConstantsOK /\ Limits!ConstantsOK /\ Keys!ConstantsOK /\ ConstantsOK
       /\ Scores!ConstantsOK /\ RetriedScores!ConstantsOK
       /\ FaultyKeys!ConstantsOK /\ Confirmations!ConstantsOK /\ Create!ConstantsOK

jobPublishingVars ==
  <<job, jobPublishingRequest, run, latest>>
applicationsVars ==
  <<status, terms, profile, stage, history, jobLock, candidateLock, applicationsRequest,
    clock>>
idempotencyVars ==
  <<record, idempotencyRequest, committed>>
applicationProcessingVars ==
  <<exists, inputs, score, recorded, delivered, applicationProcessingRequest,
    applicationProcessingRun>>
submitOnceVars ==
  <<text, edits, current, post, posts, handlers, submitOnceRecord, created, draft, page,
    submitOnceJob, submitOnceStage, mine>>

\* The variables of the modules that a behaviour is not of are off;
\* those of AuthSessions stay as they began.
Off == "off"
NoJobPublishing ==
  /\ job = Off /\ jobPublishingRequest = Off /\ run = Off /\ latest = Off
NoApplications ==
  /\ status = Off /\ terms = Off /\ profile = Off /\ stage = Off /\ history = Off
  /\ jobLock = Off /\ candidateLock = Off /\ applicationsRequest = Off /\ clock = Off
NoIdempotency ==
  /\ record = Off /\ idempotencyRequest = Off /\ committed = Off
NoApplicationProcessing ==
  /\ exists = Off /\ inputs = Off /\ score = Off /\ recorded = Off /\ delivered = Off
  /\ applicationProcessingRequest = Off /\ applicationProcessingRun = Off
NoSubmitOnce ==
  /\ text = Off /\ edits = Off /\ current = Off /\ post = Off /\ posts = Off
  /\ handlers = Off /\ submitOnceRecord = Off /\ created = Off /\ draft = Off /\ page = Off
  /\ submitOnceJob = Off /\ submitOnceStage = Off /\ mine = Off

MCInit ==
  \/ /\ world = "content" /\ Contents!Init
     /\ Init /\ NoApplications /\ NoIdempotency /\ NoApplicationProcessing /\ NoSubmitOnce
  \/ /\ world = "rules" /\ Rules!Init
     /\ Init /\ NoJobPublishing /\ NoIdempotency /\ NoApplicationProcessing /\ NoSubmitOnce
  \/ /\ world = "limits" /\ Limits!Init
     /\ Init /\ NoJobPublishing /\ NoIdempotency /\ NoApplicationProcessing /\ NoSubmitOnce
  \/ /\ world = "keys" /\ Keys!Init
     /\ Init /\ NoJobPublishing /\ NoApplications /\ NoApplicationProcessing /\ NoSubmitOnce
  \/ /\ world = "sessions" /\ Init
     /\ NoJobPublishing /\ NoApplications /\ NoIdempotency /\ NoApplicationProcessing
     /\ NoSubmitOnce
  \/ /\ world = "scores" /\ Scores!Init
     /\ Init /\ NoJobPublishing /\ NoApplications /\ NoIdempotency /\ NoSubmitOnce
  \/ /\ world = "keys and faults" /\ FaultyKeys!Init
     /\ Init /\ NoJobPublishing /\ NoApplications /\ NoApplicationProcessing /\ NoSubmitOnce
  \/ /\ world = "confirmations" /\ Confirmations!Init
     /\ Init /\ NoJobPublishing /\ NoApplications /\ NoIdempotency /\ NoSubmitOnce
  \/ /\ world = "retried scores" /\ RetriedScores!Init
     /\ Init /\ NoJobPublishing /\ NoApplications /\ NoIdempotency /\ NoSubmitOnce
  \/ /\ world = "create" /\ Create!Init
     /\ Init /\ NoJobPublishing /\ NoApplications /\ NoIdempotency
     /\ NoApplicationProcessing

MCNext ==
  /\ UNCHANGED world
  /\ \/ /\ world = "content" /\ Contents!Next
        /\ UNCHANGED <<vars, applicationsVars, idempotencyVars, applicationProcessingVars,
                       submitOnceVars>>
     \/ /\ world = "rules" /\ Rules!Next
        /\ UNCHANGED <<vars, jobPublishingVars, idempotencyVars, applicationProcessingVars,
                       submitOnceVars>>
     \/ /\ world = "limits" /\ Limits!Next
        /\ UNCHANGED <<vars, jobPublishingVars, idempotencyVars, applicationProcessingVars,
                       submitOnceVars>>
     \/ /\ world = "keys" /\ Keys!Next
        /\ UNCHANGED <<vars, jobPublishingVars, applicationsVars, applicationProcessingVars,
                       submitOnceVars>>
     \/ /\ world = "sessions" /\ Next
        /\ UNCHANGED <<jobPublishingVars, applicationsVars, idempotencyVars,
                       applicationProcessingVars, submitOnceVars>>
     \/ /\ world = "scores" /\ Scores!Next
        /\ UNCHANGED <<vars, jobPublishingVars, applicationsVars, idempotencyVars,
                       submitOnceVars>>
     \/ /\ world = "keys and faults" /\ FaultyKeys!Next
        /\ UNCHANGED <<vars, jobPublishingVars, applicationsVars, applicationProcessingVars,
                       submitOnceVars>>
     \/ /\ world = "confirmations" /\ Confirmations!Next
        /\ UNCHANGED <<vars, jobPublishingVars, applicationsVars, idempotencyVars,
                       submitOnceVars>>
     \/ /\ world = "retried scores" /\ RetriedScores!Next
        /\ UNCHANGED <<vars, jobPublishingVars, applicationsVars, idempotencyVars,
                       submitOnceVars>>
     \/ /\ world = "create" /\ Create!Next
        /\ UNCHANGED <<vars, jobPublishingVars, applicationsVars, idempotencyVars,
                       applicationProcessingVars>>

mcVars ==
  <<world, vars, jobPublishingVars, applicationsVars, idempotencyVars,
  applicationProcessingVars, submitOnceVars>>

MCSpec == MCInit /\ [][MCNext]_mcVars

\* Every variable keeps the type that its module gives it.
TypesOK ==
  /\ world = "content" => Contents!TypeOK
  /\ world = "rules" => Rules!TypeOK
  /\ world = "limits" => Limits!TypeOK
  /\ world = "keys" => Keys!TypeOK
  /\ world = "sessions" => TypeOK
  /\ world = "scores" => Scores!TypeOK
  /\ world = "keys and faults" => FaultyKeys!TypeOK
  /\ world = "confirmations" => Confirmations!TypeOK
  /\ world = "retried scores" => RetriedScores!TypeOK
  /\ world = "create" => Create!TypeOK

\* The content of a published job is that of the newest run that completed
\* (backend/app/publishing/activities.py:127), and every edit of it is analysed in the end
\* (backend/app/publishing/service.py:84).
ContentCatchesUp ==
  /\ world = "content" => Contents!NewestRunWins /\ Contents!ContentCatchesUp

\* The history of an application is a legal path to its stage
\* (backend/app/applications/service.py:287).
HistoryMatchesStage == world = "rules" => Rules!HistoryMatchesStage

\* Nobody is admitted against the job's rules of that moment, nor beyond the candidate's limit
\* (backend/app/applications/service.py:154,192).
AdmissionRules ==
  /\ [](world = "limits" => Limits!ActiveWithinLimit)
  /\ [][world = "rules" => Rules!AdmissionRules]_mcVars

\* Requests with one key do the operation at most once and are given one answer, what is replayed
\* has happened (backend/app/core/idempotency.py:106,130), and the editor's key creates a job once
\* (frontend/src/pages/recruiter/JobEditorPage.tsx:118).
AtMostOnce ==
  /\ world = "keys" => Keys!AtMostOnce /\ Keys!AnswersAgree
  /\ world = "keys and faults" => FaultyKeys!ReplayIsReal
  /\ world = "create" => Create!SentSafely

\* A candidate is sent one confirmation at most (backend/app/applications/activities.py:102).
SentAtMostOnce == world = "confirmations" => Confirmations!SentAtMostOnce

\* A completed run leaves a score no older than its start, and the confirmation on record
\* (backend/app/applications/processor.py:45).
RunLeavesItsMark ==
  /\ world = "scores" => Scores!RunLeavesItsMark
  /\ world = "retried scores" => RetriedScores!RunLeavesItsMark

\* Requests, and the runs they start, are interchangeable.
Symmetry == Permutations(Three)
=============================================================================
