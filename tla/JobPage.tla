------------------------------ MODULE JobPage ------------------------------
(***************************************************************************)
(* A recruiter's page of one job while it is being published               *)
(* (pages/JobDetailPage.tsx, components/job-detail): the job, the run of   *)
(* the publishing workflow and the content it stored are three queries,    *)
(* read again every second while the page believes the job is being        *)
(* published, each keyed by what the page knows of the job.  The page      *)
(* tells a running workflow from a stuck one, offers to start it again,    *)
(* and says by a toast how a publishing it started has ended.  A request   *)
(* is answered with what the server has then.                              *)
(***************************************************************************)
EXTENDS Naturals, FiniteSets

CONSTANTS
  Tabs,          \* the tabs that are opened, of "publishing" and "content"
  MaxPublishes,  \* bound on the publish requests
  MaxChanges,    \* bound on what others do to the job
  MaxLosses,     \* bound on the runs that are lost with the workflow engine
  Returns,       \* whether the recruiter leaves the window and comes back
  MaxFailures,   \* bound on the reads of the job that fail
  None

Statuses == {"draft", "processing", "published", "publish_failed", "closed"}

VARIABLES
  clock,      \* the changes made to the job and the runs started
  job,        \* on the server: its status, when it last changed, and its content's version
  run,        \* the latest run: how it is, how far, and when it was started
  request,    \* the publish request under way
  old,        \* changes up to this one are more than NEW_RUN_GRACE_MS ago
  publishes, changes, losses, failures,
  tab,        \* the tab that is open
  page,       \* the job as the page knows it
  pubs,       \* the run as the page knows it, under "processing" and under another status of the job
  contents,   \* the content the page knows, one entry for each time it was processed
  fetching,   \* the queries being read
  fresh,      \* those read since the server last changed
  awaited,    \* what is still to be read before the publish request counts as done
  started,    \* the "Publishing started" toast
  ended       \* how runs have ended since this page's last publish request

server == <<clock, job, run, old>>
console == <<tab, page, pubs, contents, fetching, awaited, started>>
vars == <<server, request, publishes, changes, losses, failures, console, fresh, ended>>

Job == <<"job">>

Pub(status) == <<"publication", status>>

Content(processed) == <<"content", processed>>

Entry(status) == IF status = "processing" THEN "processing" ELSE "other"

\* What the page has not read, or is not waiting for.
Unread == [status |-> "unread"]

NoRequest == [from |-> "nobody"]

-----------------------------------------------------------------------------
(* How far a run has got, as the page sees it (publishProgress).           *)

\* Mutation: a job may be starting its next run for ever.
NewRunStartingForever(j, r) == r # None /\ r.status # "running" /\ r.started < j.at

\* Mutation: a finished run is never an earlier one.
NoNewRunStarting(j, r) == FALSE

\* The run on record ended and began before the job last changed, a moment ago.
newRunStarting(j, r) == r # None /\ r.status # "running" /\ r.started < j.at /\ j.at > old

publishProgress(j, r) ==
  LET is(status) == r # None /\ r.status = status IN
  IF (j.status = "processing" /\ newRunStarting(j, r)) \/ is("running") THEN "running"
  ELSE IF j.status = "processing" THEN "stuck"
  ELSE IF j.status = "publish_failed" \/ (r # None /\ ~is("completed")) THEN "failed"
  ELSE IF is("completed") \/ j.status = "published" THEN "completed" ELSE "idle"

\* What the Publishing tab shows.
outcome ==
  IF tab # "publishing" \/ page = Unread \/ pubs[Entry(page.status)] = Unread THEN "nothing"
  ELSE publishProgress(page, pubs[Entry(page.status)].run)

\* What the Content tab shows: nothing yet, or a version.
contentShown ==
  IF tab # "content" \/ page = Unread \/ page.content = 0 \/ contents[page.content] = 0 THEN 0
  ELSE contents[page.content]

-----------------------------------------------------------------------------
(* The server.                                                             *)

\* A change of the job's row; what the page has read is of before.
Write(status, content) ==
  /\ clock' = clock + 1 /\ fresh' = {}
  /\ job' = [status |-> status, at |-> clock', content |-> content]

Commit ==
  /\ request.from # "nobody" /\ request.phase = "sent"
  /\ \/ /\ job.status \in {"draft", "publish_failed"}
        /\ Write("processing", job.content)
        /\ request' = [request EXCEPT !.phase = "committed", !.was = job.status]
        /\ ended' = IF request.from = "header" THEN {} ELSE ended
     \/ /\ job.status = "processing"
        /\ request' = [request EXCEPT !.phase = "committed", !.was = job.status]
        /\ UNCHANGED <<clock, job, fresh, ended>>
     \/ /\ job.status \in {"published", "closed"}
        /\ request' = [request EXCEPT !.phase = IF job.status = "published" THEN "done" ELSE "refused"]
        /\ UNCHANGED <<clock, job, fresh, ended>>
  /\ UNCHANGED <<run, old, publishes, changes, losses, failures, console>>

\* The new run replaces the one there is.
Start ==
  /\ request.from # "nobody" /\ request.phase = "committed"
  /\ clock' = clock + 1 /\ fresh' = {}
  /\ run' = [status |-> "running", step |-> "analysing", started |-> clock']
  /\ request' = [request EXCEPT !.phase = "done"]
  /\ UNCHANGED <<job, old, publishes, changes, losses, failures, console, ended>>

\* The workflow engine cannot be reached: the status is put back.
StartFails ==
  /\ request.from # "nobody" /\ request.phase = "committed"
  /\ request' = [request EXCEPT !.phase = "refused"]
  /\ IF request.was # "processing" /\ job.status = "processing"
     THEN Write(request.was, job.content) /\ ended' = ended \cup {request.was}
     ELSE UNCHANGED <<clock, job, fresh, ended>>
  /\ UNCHANGED <<run, old, publishes, changes, losses, failures, console>>

Step(step) == run' = [run EXCEPT !.step = step]

\* The run stores the content, marks the job and ends; one that fails marks it failed first.
Run ==
  /\ run # None /\ run.status = "running"
  /\ \/ run.step = "analysing" /\ Step("stored") /\ Write(job.status, job.content + 1) /\ UNCHANGED ended
     \/ /\ run.step = "stored" /\ Step("marked")
        /\ IF job.status = "processing"
           THEN Write("published", job.content) /\ ended' = ended \cup {"published"}
           ELSE UNCHANGED <<clock, job, fresh, ended>>
     \/ /\ run.step \in {"analysing", "stored"} /\ Step("failed")
        /\ IF job.status = "processing"
           THEN Write("publish_failed", job.content) /\ ended' = ended \cup {"publish_failed"}
           ELSE UNCHANGED <<clock, job, fresh, ended>>
     \/ /\ run.step \in {"marked", "failed"}
        /\ run' = [run EXCEPT !.status = IF run.step = "marked" THEN "completed" ELSE "failed"]
        /\ fresh' = {} /\ UNCHANGED <<clock, job, ended>>
  /\ UNCHANGED <<old, request, publishes, changes, losses, failures, console>>

\* A recruiter elsewhere closes the job or reopens it, or publishes it.
Elsewhere ==
  /\ changes < MaxChanges /\ changes' = changes + 1
  /\ \/ job.status # "closed" /\ Write("closed", job.content) /\ UNCHANGED <<request, publishes>>
     \/ job.status = "closed" /\ Write("draft", job.content) /\ UNCHANGED <<request, publishes>>
     \/ /\ request.from = "nobody" /\ job.status \in {"draft", "publish_failed"} /\ publishes < MaxPublishes
        /\ publishes' = publishes + 1
        /\ request' = [from |-> "elsewhere", phase |-> "sent", was |-> job.status]
        /\ UNCHANGED <<clock, job, fresh>>
  /\ UNCHANGED <<run, old, losses, failures, console, ended>>

\* A run is lost with the engine: it has ended, and marks nothing.
Lost ==
  /\ run # None /\ run.status = "running"
  /\ losses < MaxLosses /\ losses' = losses + 1
  /\ run' = [run EXCEPT !.status = "terminated"] /\ fresh' = {}
  /\ UNCHANGED <<clock, job, old, request, publishes, changes, failures, console, ended>>

AnsweredElsewhere ==
  /\ request.from = "elsewhere" /\ request.phase \in {"done", "refused"}
  /\ request' = NoRequest
  /\ UNCHANGED <<server, publishes, changes, losses, failures, console, fresh, ended>>

\* The time a run may take to start passes; a request to start one is given up sooner.
GraceEnds ==
  /\ old < job.at /\ old' = job.at
  /\ request.from # "nobody" => request.phase # "committed"
  /\ UNCHANGED <<clock, job, run, request, publishes, changes, losses, failures, console, fresh, ended>>

-----------------------------------------------------------------------------
(* The page.                                                               *)

\* The queries of what is on the page, when it knows the job to be so.
Active(known, open) ==
  {Job} \cup (IF known = Unread THEN {}
              ELSE IF open = "publishing" THEN {Pub(known.status)}
              ELSE IF open = "content" /\ known.content > 0 THEN {Content(known.content)} ELSE {})

Has(q) ==
  CASE q[1] = "job" -> page # Unread
    [] q[1] = "publication" -> pubs[Entry(q[2])] # Unread
    [] q[1] = "content" -> contents[q[2]] # 0

\* A query that comes onto the page is read, unless it was read within the last seconds.
Opened(known, open, again) == {q \in Active(known, open) \ Active(page, tab) : ~Has(q) \/ again}

\* Mutation: the toast stays until it is dismissed.
settlePublishNot(status) == started' = started

\* Once the workflow has ended, the toast that announced it gives way to how it ended.
settlePublish(status) == started' = (started /\ status = "processing")

\* Of the entries for the other statuses only the one in use is kept: they take no part in what
\* the page tells of a job being published.
ReadJob ==
  /\ Job \in fetching
  /\ page' = job
  /\ pubs' = IF page # Unread /\ page.status # job.status THEN [pubs EXCEPT !.other = Unread] ELSE pubs
  /\ \E again \in BOOLEAN : fetching' = (fetching \ {Job}) \cup Opened(job, tab, again)
  /\ awaited' = awaited \ {Job} /\ fresh' = fresh \cup {Job}
  /\ settlePublish(job.status)
  /\ UNCHANGED <<server, request, publishes, changes, losses, failures, tab, contents, ended>>

\* What the server says of the latest run.
Described == IF run = None THEN None ELSE [status |-> run.status, started |-> run.started]

\* The run is not described while the engine cannot be reached; that is not modelled.
ReadPublication ==
  /\ \E status \in Statuses :
       /\ Pub(status) \in fetching
       /\ pubs' = IF status \notin {"processing", page.status} THEN pubs
                  ELSE [pubs EXCEPT ![Entry(status)] = [status |-> "read", run |-> Described]]
       /\ fetching' = fetching \ {Pub(status)} /\ awaited' = awaited \ {Pub(status)}
       /\ fresh' = fresh \cup {Pub(status)}
  /\ UNCHANGED <<server, request, publishes, changes, losses, failures, tab, page, contents, started, ended>>

\* Mutation: what was read is kept for the job, whichever run stored it.
KeyedByJob(processed) == DOMAIN contents

\* The entry a read is kept under.
Keyed(processed) == {processed}

ReadContent ==
  /\ \E processed \in DOMAIN contents :
       /\ Content(processed) \in fetching
       /\ contents' = [p \in DOMAIN contents |-> IF p \in Keyed(processed) THEN job.content ELSE contents[p]]
       /\ fetching' = fetching \ {Content(processed)} /\ awaited' = awaited \ {Content(processed)}
  /\ UNCHANGED <<server, request, publishes, changes, losses, failures, tab, page, pubs, started, fresh, ended>>

\* A read of the job fails for good: the page keeps what it knew.
ReadFails ==
  /\ failures < MaxFailures /\ failures' = failures + 1
  /\ Job \in fetching /\ page # Unread
  /\ fetching' = fetching \ {Job} /\ awaited' = awaited \ {Job}
  /\ UNCHANGED <<server, request, publishes, changes, losses, tab, page, pubs, contents, started, fresh, ended>>

\* While the job is known to be processing, it and its run are read again every second.
Polled == IF page = Unread \/ page.status # "processing" THEN {} ELSE Active(page, tab) \cap {Job, Pub("processing")}

PollQuery(q) ==
  /\ q \in Polled \ fetching /\ fetching' = fetching \cup {q}
  /\ UNCHANGED <<server, request, publishes, changes, losses, failures, tab, page, pubs, contents, awaited, started, fresh, ended>>

Poll == PollQuery(Job) \/ PollQuery(Pub("processing"))

\* The recruiter comes back to the window: what is on the page is read again.
Focus ==
  /\ Returns
  /\ fetching' = fetching \cup Active(page, tab) /\ fetching' # fetching
  /\ UNCHANGED <<server, request, publishes, changes, losses, failures, tab, page, pubs, contents, awaited, started, fresh, ended>>

OpenTab ==
  /\ page # Unread
  /\ \E open \in Tabs \ {tab}, again \in BOOLEAN :
       tab' = open /\ fetching' = fetching \cup Opened(page, open, again)
  /\ UNCHANGED <<server, request, publishes, changes, losses, failures, page, pubs, contents, awaited, started, fresh, ended>>

\* Asks for the job to be published, in the header or with a button of the Publishing tab; a
\* second request beside the first is not modelled.
publish ==
  /\ request.from = "nobody" /\ page # Unread
  /\ publishes < MaxPublishes /\ publishes' = publishes + 1
  /\ \E from \in {"header", "tab"} :
       /\ \/ from = "header" /\ page.status \in {"draft", "publish_failed"}
          \/ from = "tab" /\ <<page.status, outcome>> \in
               {<<"draft", "idle">>, <<"publish_failed", "failed">>, <<"processing", "stuck">>}
       /\ request' = [from |-> from, phase |-> "sent", was |-> page.status]
  /\ UNCHANGED <<server, changes, losses, failures, console, fresh, ended>>

Mine == request.from \in {"header", "tab"}

\* Mutation: the request counts as done before the jobs are read again.
AcceptedAtOnce ==
  /\ Mine /\ request.phase = "done"
  /\ request' = [request EXCEPT !.phase = "reading"]
  /\ fetching' = fetching \cup Active(page, tab) /\ awaited' = {}
  /\ UNCHANGED <<server, publishes, changes, losses, failures, tab, page, pubs, contents, started, fresh, ended>>

\* The request was accepted: everything of the jobs is read again, and the request counts as done
\* when that is.
Accepted ==
  /\ Mine /\ request.phase = "done"
  /\ request' = [request EXCEPT !.phase = "reading"]
  /\ fetching' = fetching \cup Active(page, tab) /\ awaited' = Active(page, tab)
  /\ UNCHANGED <<server, publishes, changes, losses, failures, tab, page, pubs, contents, started, fresh, ended>>

\* The header says what stands in the cache by then: that it started, or already how it ended.
reportPublish ==
  /\ Mine /\ request.phase = "reading" /\ awaited = {}
  /\ request' = NoRequest
  /\ started' = IF request.from = "header" THEN page.status = "processing" ELSE started
  /\ UNCHANGED <<server, publishes, changes, losses, failures, tab, page, pubs, contents, fetching, awaited, fresh, ended>>

\* What the toasts say when the header reports, or the "started" toast gives way.
Said ==
  IF (reportPublish /\ request.from = "header") \/ (started /\ ReadJob)
  THEN {page'.status} \cap {"published", "publish_failed"} ELSE {}

Refused ==
  /\ Mine /\ request.phase = "refused" /\ request' = NoRequest
  /\ UNCHANGED <<server, publishes, changes, losses, failures, console, fresh, ended>>

Init ==
  /\ clock = 1 /\ job = [status |-> "draft", at |-> 1, content |-> 0] /\ run = None /\ old = 0
  /\ request = NoRequest /\ publishes = 0 /\ changes = 0 /\ losses = 0 /\ failures = 0
  /\ tab \in Tabs /\ page = Unread
  /\ pubs = [e \in {"processing", "other"} |-> Unread] /\ contents = [v \in 1 .. MaxPublishes |-> 0]
  /\ fetching = {Job} /\ fresh = {} /\ awaited = {} /\ started = FALSE /\ ended = {}

Starting == Start \/ StartFails

Next ==
  \/ Commit \/ Starting \/ Run \/ Elsewhere \/ Lost \/ AnsweredElsewhere \/ GraceEnds
  \/ ReadJob \/ ReadPublication \/ ReadContent \/ ReadFails \/ Poll \/ Focus \/ OpenTab
  \/ publish \/ Accepted \/ reportPublish \/ Refused

\* The clock and the polls go on, requests are answered; nobody has to publish or to come back.
Fairness ==
  /\ WF_vars(GraceEnds) /\ WF_vars(PollQuery(Job)) /\ WF_vars(PollQuery(Pub("processing")))
  /\ WF_vars(Accepted) /\ WF_vars(reportPublish) /\ WF_vars(Refused)
  /\ WF_vars(ReadJob) /\ WF_vars(ReadPublication) /\ WF_vars(ReadContent)
  /\ WF_vars(Commit) /\ WF_vars(Starting) /\ WF_vars(AnsweredElsewhere)

Spec == Init /\ [][Next]_vars

FairSpec == Spec /\ Fairness

-----------------------------------------------------------------------------
(* Properties; what no step may do is written as an action.                *)

TypeOK ==
  /\ job.status \in Statuses /\ job.at <= clock /\ job.content <= publishes
  /\ run = None \/ run.status \in {"running", "completed", "failed", "terminated"}
  /\ request.from \in {"nobody", "header", "tab", "elsewhere"}
  /\ page = Unread \/ (page.status \in Statuses /\ page.at <= job.at /\ page.content <= job.content)
  /\ awaited \subseteq fetching
  /\ started \in BOOLEAN /\ ended \subseteq Statuses

InFlight == run # None /\ run.status = "running"

\* The page does not take a run that ended for the one that starts
\* (components/job-detail/publishing.ts:49): when what it shows is current, a job it calls stuck has
\* no run, nor one about to start; but for a job's first run, and one started again from there.
StuckIsTrue ==
  outcome = "stuck" /\ {Job, Pub("processing")} \subseteq fresh =>
    /\ ~InFlight
    /\ (request.from # "nobody" /\ request.phase = "committed") => (run = None \/ request.was = "processing")

\* What the Content tab shows is never of an earlier run than the one whose time stands beside it
\* (hooks/queries.ts:112).
ContentIsOfTheRun == contentShown > 0 => contentShown >= page.content

\* "Publishing started" never stands beside a job the page knows to be live or failed
\* (components/job-detail/JobActions.tsx:49).
StartedGivesWay == started => page.status = "processing"

\* What the toast says of the end of a publishing is how it ended (components/job-detail/JobActions.tsx:68).
SaidIsReal == Said \subseteq ended

\* A job marked as publishing with no run in flight
Stuck == job.status = "processing" /\ ~InFlight /\ request.from = "nobody"

\* A page that watches a stuck job offers to start it again
\* (components/job-detail/PublishingTab.tsx:153).
StuckIsOffered ==
  LET watched == Stuck /\ tab = "publishing" /\ page # Unread /\ page.status = "processing" IN
  watched ~> (outcome = "stuck" \/ ~watched)
=============================================================================
