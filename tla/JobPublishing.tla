---------------------------- MODULE JobPublishing ----------------------------
(***************************************************************************)
(* One job, the recruiters' requests about it, and the publishing runs     *)
(* they start: backend/app/jobs, backend/app/publishing, and the part of   *)
(* Temporal and of the worker those rely on.                               *)
(*                                                                         *)
(* The API writes the job's row, commits, and only then asks Temporal for  *)
(* a run; the run's activities write the same row from the worker.  The    *)
(* two meet nowhere else.  Everything between a load that locks the row    *)
(* (jobs.service.get_job, lock=True) and the commit is one action: another *)
(* writer of the row waits for the commit, another reader sees the row as  *)
(* it was before.                                                          *)
(*                                                                         *)
(* A text is its version number, a failure reason is the run that failed,  *)
(* a timestamp is whether it is set.  The number of attempts an activity   *)
(* has is abstracted: any number may fail before the run gives up on it.   *)
(***************************************************************************)
EXTENDS Naturals

CONSTANTS
  Requests,   \* API requests: each publishes or edits once, and may start one run
  MaxText,    \* bound on the versions of the job's text
  NoError,    \* publish_error is null
  NoRun,      \* the workflow id has never been used
  Faults      \* what may go wrong, a subset of FaultKinds

FaultKinds ==
  { "unreachable",   \* start_workflow fails and nothing has started
    "unanswered",    \* start_workflow fails at its deadline, the run has started
    "api_crash",     \* the API process dies between a commit and the next call
    "exhausted",     \* an activity fails more often than it is retried
    "report_lost",   \* the worker dies between an activity's commit and its report
    "stray" }        \* an attempt outlives its timeout, or the run it belongs to

ASSUME MaxTextAssumption == MaxText \in Nat \ {0}
ASSUME NoErrorAssumption == NoError \notin Requests
ASSUME NoRunAssumption == NoRun \notin Requests
ASSUME FaultsAssumption == Faults \subseteq FaultKinds

VARIABLES
  job,       \* the row of table jobs, with the content derived from its text
  request,   \* the progress of each API request
  run,       \* the publishing run each request started, if it started one
  latest     \* the last run started under the job's workflow id

vars == <<job, request, run, latest>>

-----------------------------------------------------------------------------
JobStatus == {"draft", "processing", "published", "publish_failed", "closed"}
Absent == "absent"

\* Version 0 of a text is no text: nothing written, read or stored yet.
Text == 0 .. MaxText
Content == [analysis : Text, breakdown : Text]

Job == [ status        : JobStatus \cup {Absent},
         published_at  : BOOLEAN,
         publish_error : Requests \cup {NoError},
         text          : Text,
         content       : Content ]

\* starting, refreshing: committed, about to call start_workflow.
\* reverting: a publish whose start failed, about to put the status back.
\* accepted, saved, refused, unavailable: answered with 202, 200, 4xx, 503.
Pending == {"starting", "refreshing", "reverting"}
Answered == {"accepted", "saved", "refused", "unavailable"}

Request == [ pc              : {"idle", "crashed"} \cup Pending \cup Answered,
             previous_status : JobStatus,
             previous_error  : Requests \cup {NoError} ]

\* The steps a run can be at; the last three of Working run an activity that writes.
Writing == {"storing", "marking_ready", "compensating"}
Working == {"analysing"} \cup Writing
Ended == {"completed", "failed", "terminated"}

Run == [ step      : {"not_started"} \cup Working \cup Ended,
         done      : BOOLEAN,          \* the step's activity has committed, unreported
         analysis  : Text,             \* what extract_skills_and_keywords read
         breakdown : Text,             \* what break_down_description read
         strays    : SUBSET Writing ]  \* attempts still running that nobody waits for

TypeOK ==
  /\ job \in Job
  /\ request \in [Requests -> Request]
  /\ run \in [Requests -> Run]
  /\ latest \in Requests \cup {NoRun}

NoContent == [analysis |-> 0, breakdown |-> 0]

Init ==
  /\ job = [ status |-> Absent, published_at |-> FALSE, publish_error |-> NoError,
             text |-> 0, content |-> NoContent ]
  /\ request = [r \in Requests |-> [ pc |-> "idle", previous_status |-> "draft",
                                     previous_error |-> NoError ]]
  /\ run = [r \in Requests |-> [ step |-> "not_started", done |-> FALSE,
                                 analysis |-> 0, breakdown |-> 0, strays |-> {} ]]
  /\ latest = NoRun

-----------------------------------------------------------------------------
(***************************************************************************)
(* The job's row, written in one transaction each (app/jobs/service.py).   *)
(***************************************************************************)
Exists == job.status # Absent

\* The job's id is used once: text is still 0 only before the first create.
CreateJob ==
  /\ ~Exists
  /\ job.text = 0
  /\ job' = [job EXCEPT !.status = "draft", !.text = 1]
  /\ UNCHANGED <<request, run, latest>>

CloseJob ==
  /\ Exists
  /\ job' = [job EXCEPT !.status = "closed"]
  /\ UNCHANGED <<request, run, latest>>

\* Mutation of ReopenJob: the publication date survives.
ReopenKeepsDate ==
  /\ job.status = "closed"
  /\ job' = [job EXCEPT !.status = "draft"]
  /\ UNCHANGED <<request, run, latest>>

ReopenJob ==
  /\ job.status = "closed"
  /\ job' = [job EXCEPT !.status = "draft", !.published_at = FALSE]
  /\ UNCHANGED <<request, run, latest>>

\* The rows derived from the job go with it (ON DELETE CASCADE).
DeleteJob ==
  /\ Exists
  /\ job' = [job EXCEPT !.status = Absent, !.published_at = FALSE,
                        !.publish_error = NoError, !.content = NoContent]
  /\ UNCHANGED <<request, run, latest>>

-----------------------------------------------------------------------------
(***************************************************************************)
(* PATCH /jobs/{id} with new text (jobs.service.update_job, then the       *)
(* router): refused while closed or processing; a job that is published    *)
(* is analysed again.                                                      *)
(***************************************************************************)
Goto(r, pc) == request' = [request EXCEPT ![r].pc = pc]

EditRefused(r) ==
  /\ request[r].pc = "idle"
  /\ job.status \in {Absent, "closed", "processing"}
  /\ Goto(r, "refused")
  /\ UNCHANGED <<job, run, latest>>

Edit(r) ==
  /\ request[r].pc = "idle"
  /\ job.status \in {"draft", "publish_failed", "published"}
  /\ job.text < MaxText
  /\ job' = [job EXCEPT !.text = @ + 1]
  /\ Goto(r, IF job.status = "published" THEN "refreshing" ELSE "saved")
  /\ UNCHANGED <<run, latest>>

(***************************************************************************)
(* POST /jobs/{id}/publish (publishing.service.publish_job), up to its     *)
(* commit.                                                                 *)
(***************************************************************************)
PublishRefused(r) ==
  /\ request[r].pc = "idle"
  /\ job.status \in {Absent, "closed"}
  /\ Goto(r, "refused")
  /\ UNCHANGED <<job, run, latest>>

PublishNothingToDo(r) ==
  /\ request[r].pc = "idle"
  /\ job.status = "published"
  /\ Goto(r, "accepted")
  /\ UNCHANGED <<job, run, latest>>

\* Mutation of Publish: a published job may be published again.
PublishAgain(r) ==
  /\ request[r].pc = "idle"
  /\ job.status \in {"draft", "publish_failed", "published"}
  /\ request' = [request EXCEPT ![r] = [ pc |-> "starting",
                                         previous_status |-> job.status,
                                         previous_error |-> job.publish_error ]]
  /\ job' = [job EXCEPT !.status = "processing", !.publish_error = NoError]
  /\ UNCHANGED <<run, latest>>

Publish(r) ==
  /\ request[r].pc = "idle"
  /\ job.status \in {"draft", "publish_failed", "processing"}
  /\ request' = [request EXCEPT ![r] = [ pc |-> "starting",
                                         previous_status |-> job.status,
                                         previous_error |-> job.publish_error ]]
  /\ IF job.status = "processing"
       THEN UNCHANGED job
       ELSE job' = [job EXCEPT !.status = "processing", !.publish_error = NoError]
  /\ UNCHANGED <<run, latest>>

(***************************************************************************)
(* TemporalJobPublisher.start.  Under TERMINATE_EXISTING the run in flight *)
(* ends without running its compensation; the attempt it had in flight     *)
(* may go on in the worker, which is not told.                             *)
(***************************************************************************)
Live(q) == run[q].step \in Working

Terminated(x) ==
  [x EXCEPT !.step = "terminated",
            !.done = FALSE,
            !.strays = IF "stray" \in Faults /\ ~x.done THEN @ \cup ({x.step} \cap Writing)
                       ELSE @]

FreshRun == [ step |-> "analysing", done |-> FALSE, analysis |-> 0, breakdown |-> 0,
              strays |-> {} ]

\* Mutations of StartWorkflow: attach to the run in flight (USE_EXISTING), or leave it
\* running beside the new one.
StartAttaches(r) ==
  IF \E q \in Requests : Live(q)
    THEN UNCHANGED <<run, latest>>
    ELSE run' = [run EXCEPT ![r] = FreshRun] /\ latest' = r

StartsBeside(r) ==
  /\ run' = [run EXCEPT ![r] = FreshRun]
  /\ latest' = r

StartWorkflow(r) ==
  /\ run' = [q \in Requests |-> IF q = r THEN FreshRun
                                ELSE IF Live(q) THEN Terminated(run[q])
                                ELSE run[q]]
  /\ latest' = r

\* WorkflowUnavailableError: publish_job reverts its own change and answers 503,
\* refresh_content logs and lets the edit stand.
StartFailed(r) ==
  Goto(r, CASE request[r].pc = "refreshing" -> "saved"
            [] request[r].previous_status = "processing" -> "unavailable"
            [] OTHER -> "reverting")

Start(r) ==
  /\ request[r].pc \in {"starting", "refreshing"}
  /\ Goto(r, IF request[r].pc = "starting" THEN "accepted" ELSE "saved")
  /\ StartWorkflow(r)
  /\ UNCHANGED job

StartUnreachable(r) ==
  /\ "unreachable" \in Faults
  /\ request[r].pc \in {"starting", "refreshing"}
  /\ StartFailed(r)
  /\ UNCHANGED <<job, run, latest>>

StartUnanswered(r) ==
  /\ "unanswered" \in Faults
  /\ request[r].pc \in {"starting", "refreshing"}
  /\ StartFailed(r)
  /\ StartWorkflow(r)
  /\ UNCHANGED job

\* Mutation of Revert: the 503 goes out and the job stays in processing.
RevertForgotten(r) ==
  /\ request[r].pc = "reverting"
  /\ Goto(r, "unavailable")
  /\ UNCHANGED <<job, run, latest>>

\* UPDATE jobs SET status = previous WHERE status = 'processing'
Revert(r) ==
  /\ request[r].pc = "reverting"
  /\ Goto(r, "unavailable")
  /\ job' = IF job.status = "processing"
              THEN [job EXCEPT !.status = request[r].previous_status,
                               !.publish_error = request[r].previous_error]
              ELSE job
  /\ UNCHANGED <<run, latest>>

ApiCrash(r) ==
  /\ "api_crash" \in Faults
  /\ request[r].pc \in Pending
  /\ Goto(r, "crashed")
  /\ UNCHANGED <<job, run, latest>>

-----------------------------------------------------------------------------
(***************************************************************************)
(* What the activities do to the database (PublishingActivities).          *)
(***************************************************************************)
\* Mutation of StoreJobContent: what an earlier run has stored is not replaced.
StoreOverNothing(j, x) ==
  IF j.status = Absent \/ j.content.analysis # 0 THEN j
  ELSE [j EXCEPT !.content = [analysis |-> x.analysis, breakdown |-> x.breakdown]]

StoreJobContent(j, x) ==
  IF j.status = Absent THEN j
  ELSE [j EXCEPT !.content = [analysis |-> x.analysis, breakdown |-> x.breakdown]]

\* Mutations of MarkJobPublished: not a compare-and-set; a status the enum lacks.
MarkUnconditionally(j) ==
  IF j.status = Absent THEN j
  ELSE [j EXCEPT !.status = "published", !.published_at = TRUE, !.publish_error = NoError]

MarkReady(j) ==
  IF j.status # "processing" THEN j ELSE [j EXCEPT !.status = "ready", !.published_at = TRUE]

MarkJobPublished(j) ==
  IF j.status # "processing" THEN j
  ELSE [j EXCEPT !.status = "published", !.published_at = TRUE, !.publish_error = NoError]

MarkJobPublishFailed(j, q) ==
  IF j.status # "processing" THEN j
  ELSE [j EXCEPT !.status = "publish_failed", !.publish_error = q]

Effect(step, q) ==
  CASE step = "storing" -> StoreJobContent(job, run[q])
    [] step = "marking_ready" -> MarkJobPublished(job)
    [] step = "compensating" -> MarkJobPublishFailed(job, q)

(***************************************************************************)
(* The run (PublishJobWorkflow.run).  Steps 1 and 2 run side by side and   *)
(* each reads the job for itself.                                          *)
(***************************************************************************)
Gathered(x) ==
  IF x.analysis # 0 /\ x.breakdown # 0 THEN [x EXCEPT !.step = "storing"] ELSE x

ExtractSkillsAndKeywords(q) ==
  /\ run[q].step = "analysing"
  /\ run[q].analysis = 0
  /\ Exists
  /\ run' = [run EXCEPT ![q] = Gathered([@ EXCEPT !.analysis = job.text])]
  /\ UNCHANGED <<job, request, latest>>

BreakDownDescription(q) ==
  /\ run[q].step = "analysing"
  /\ run[q].breakdown = 0
  /\ Exists
  /\ run' = [run EXCEPT ![q] = Gathered([@ EXCEPT !.breakdown = job.text])]
  /\ UNCHANGED <<job, request, latest>>

\* One attempt at a writing step commits.
Execute(q) ==
  /\ run[q].step \in Writing
  /\ ~run[q].done
  /\ run[q].step = "storing" => Exists
  /\ job' = Effect(run[q].step, q)
  /\ run' = [run EXCEPT ![q].done = TRUE]
  /\ UNCHANGED <<request, latest>>

Report(q) ==
  /\ run[q].step \in Writing
  /\ run[q].done
  /\ run' = [run EXCEPT ![q].done = FALSE,
                        ![q].step = CASE @ = "storing" -> "marking_ready"
                                      [] @ = "marking_ready" -> "completed"
                                      [] @ = "compensating" -> "failed"]
  /\ UNCHANGED <<job, request, latest>>

\* The attempt's commit stands, its report is lost: the activity will run again.
LoseReport(q) ==
  /\ "report_lost" \in Faults
  /\ run[q].done
  /\ run' = [run EXCEPT ![q].done = FALSE]
  /\ UNCHANGED <<job, request, latest>>

\* Mutation of GiveUp: the run fails without its compensation.
GiveUpSilently(q) ==
  /\ run[q].step \in {"analysing", "storing", "marking_ready"}
  /\ ~run[q].done
  /\ \/ "exhausted" \in Faults
     \/ ~Exists /\ run[q].step # "marking_ready"
  /\ run' = [run EXCEPT ![q].step = "failed"]
  /\ UNCHANGED <<job, request, latest>>

\* Out of retries, or JobNotFound: compensate.  The compensation itself never gives up.
GiveUp(q) ==
  /\ run[q].step \in {"analysing", "storing", "marking_ready"}
  /\ ~run[q].done
  /\ \/ "exhausted" \in Faults
     \/ ~Exists /\ run[q].step # "marking_ready"
  /\ run' = [run EXCEPT ![q].step = "compensating"]
  /\ UNCHANGED <<job, request, latest>>

\* An attempt outlives its start-to-close timeout; the next one starts beside it.
TimeOut(q) ==
  /\ "stray" \in Faults
  /\ run[q].step \in Writing
  /\ ~run[q].done
  /\ run' = [run EXCEPT ![q].strays = @ \cup {run[q].step}]
  /\ UNCHANGED <<job, request, latest>>

\* A stray attempt commits, or dies with its worker.
StrayCommits(q) ==
  \E step \in run[q].strays :
    /\ job' = Effect(step, q)
    /\ run' = [run EXCEPT ![q].strays = @ \ {step}]
    /\ UNCHANGED <<request, latest>>

StrayDies(q) ==
  \E step \in run[q].strays :
    /\ run' = [run EXCEPT ![q].strays = @ \ {step}]
    /\ UNCHANGED <<job, request, latest>>

-----------------------------------------------------------------------------
Recruiter == CreateJob \/ CloseJob \/ ReopenJob \/ DeleteJob

Api(r) ==
  \/ EditRefused(r) \/ Edit(r)
  \/ PublishRefused(r) \/ PublishNothingToDo(r) \/ Publish(r)
  \/ Start(r) \/ StartUnreachable(r) \/ StartUnanswered(r) \/ Revert(r)
  \/ ApiCrash(r)

Worker(q) ==
  \/ ExtractSkillsAndKeywords(q) \/ BreakDownDescription(q)
  \/ Execute(q) \/ Report(q) \/ LoseReport(q) \/ GiveUp(q)
  \/ TimeOut(q) \/ StrayCommits(q) \/ StrayDies(q)

Next ==
  \/ Recruiter
  \/ \E r \in Requests : Api(r)
  \/ \E q \in Requests : Worker(q)

Spec == Init /\ [][Next]_vars

(***************************************************************************)
(* A request that has begun goes on unless its process dies, and a worker  *)
(* polls the queue.  A report that is lost again and again still arrives   *)
(* in the end: the compensation is retried without limit and the other     *)
(* activities give up.  Nobody has to click anything.                      *)
(***************************************************************************)
Fairness ==
  /\ \A r \in Requests : /\ WF_vars(Start(r))
                         /\ WF_vars(Revert(r))
  /\ \A q \in Requests : /\ WF_vars(ExtractSkillsAndKeywords(q))
                         /\ WF_vars(BreakDownDescription(q))
                         /\ WF_vars(Execute(q))
                         /\ WF_vars(~Exists /\ GiveUp(q))
                         /\ SF_vars(Report(q))

FairSpec == Spec /\ Fairness

-----------------------------------------------------------------------------
(***************************************************************************)
(* What must hold.                                                         *)
(***************************************************************************)

\* Somebody will still move the job out of processing: the request that moved it in
\* has not yet started its run or put the status back, or a run is under way that has
\* yet to mark the job published or failed.
OwnedByRequest(r) ==
  /\ request[r].pc \in {"starting", "reverting", "crashed"}
  /\ request[r].previous_status # "processing"

OwnedByRun(q) ==
  /\ Live(q)
  /\ run[q].done => run[q].step = "storing"

\* A job is never left in processing with nobody to move it on: publish_job commits
\* the status before it starts the run and puts it back if the start fails, and a run
\* that gives up compensates.  Only a crash of the API in between strands it.
NoOrphanedProcessing ==
  job.status = "processing" =>
    \E r \in Requests : OwnedByRequest(r) \/ OwnedByRun(r)

\* What a recruiter and a candidate read beside the status fits it: published_at is set
\* exactly from publication to reopening, and a job that is processing or published
\* shows no failure of an earlier attempt.
FieldsFitStatus ==
  /\ job.status \in {"draft", "processing", "publish_failed"} => ~job.published_at
  /\ job.status = "published" => job.published_at
  /\ job.status \in {"processing", "published"} => job.publish_error = NoError
  /\ job.status = "publish_failed" => job.publish_error # NoError

\* "The newest request wins" (publisher.py): when nothing is under way, the stored
\* content of a published job is what the newest run read.
Quiet ==
  \A r \in Requests : /\ request[r].pc \notin Pending
                      /\ ~Live(r)
                      /\ run[r].strays = {}

NewestRunWins ==
  (Quiet /\ job.status = "published" /\ run[latest].step = "completed") =>
    /\ job.content.analysis = run[latest].analysis
    /\ job.content.breakdown = run[latest].breakdown

\* Every edit of a published job is analysed in the end: when nothing is under way the
\* stored content is that of the present text, both halves of it.
ContentCatchesUp ==
  (Quiet /\ job.status = "published" /\ run[latest].step = "completed") =>
    job.content = [analysis |-> job.text, breakdown |-> job.text]

\* A closed job stays closed, with its publication date, whatever runs, strays and
\* reverts are still under way: only a recruiter reopens it (to draft) or deletes it.
OnlyReopenLeavesClosed ==
  [][job.status = "closed" =>
       \/ job'.status = "closed" /\ job'.published_at = job.published_at
       \/ job'.status = "draft" /\ ~job'.published_at /\ UNCHANGED <<request, run>>
       \/ job'.status = Absent]_vars

\* Publishing comes to an end without anybody's help, unless an API process dies.
ProcessingEnds ==
  job.status = "processing" ~>
    job.status # "processing" \/ \E r \in Requests : request[r].pc = "crashed"

\* A run under way settles the job even if the API has crashed since: publishing again
\* heals a job whose run was lost.
RunSettlesJob ==
  (job.status = "processing" /\ \E q \in Requests : OwnedByRun(q)) ~> job.status # "processing"

Lifecycle == INSTANCE JobLifecycle WITH status <- job.status, published_at <- job.published_at

\* The status and the publication date move only as JobLifecycle promises.
ImplementsLifecycle == Lifecycle!Spec
-----------------------------------------------------------------------------
(***************************************************************************)
(* What the documentation says and the code does not do.                   *)
(***************************************************************************)

\* publishing/router.py: an accepted publish "becomes published ... or publish_failed with
\* a reason" -- unless a recruiter closes or deletes the job.  Stated of a publish that
\* found the job in processing and started its run while another was starting too; with
\* two requests, no third can have moved the job since.
AcceptedPublishSettles ==
  \A r \in Requests :
    (/\ request[r].pc = "accepted" /\ request[r].previous_status = "processing"
     /\ OwnedByRun(r)
     /\ job.status = "processing")
      ~> job.status \in {"published", "publish_failed", "closed", Absent}
=============================================================================
