----------------------------- MODULE Attention -----------------------------
(***************************************************************************)
(* What the recruiter's dashboard says needs a hand                        *)
(* (hooks/useDashboardData.ts, components/dashboard/metrics.ts,            *)
(* attentionItems, and AttentionCard.tsx).  Five rules read a dozen        *)
(* queries, and a list is only asked for once a count said there is        *)
(* something in it.  The answers come in any order, some fail, the world   *)
(* moves between them, and a refresh asks for everything again.  There is  *)
(* one job, which takes Cap applications, and one application; the counts  *)
(* of the other statuses and stages take no part.                          *)
(***************************************************************************)
EXTENDS Naturals, FiniteSets

CONSTANTS
  Cap,            \* the job's max_applications
  stuckProcessing, scoreWait, staleApplied,   \* the ages past which a rule holds
  MaxClock,       \* bound on the time that passes
  MaxChanges,     \* bound on what happens to the job and the application
  MaxFailures,    \* bound on the requests that fail
  MaxRefreshes,   \* bound on the refreshes
  None            \* no application

VARIABLES
  now,      \* the page's clock
  job,      \* its status, and when that last changed
  application,
  changes, failures, refreshes,
  queries,  \* what the page holds of each request
  clean     \* the rules that found nothing at some moment since the page was opened or refreshed

vars == <<now, job, application, changes, failures, refreshes, queries, clean>>

Counts == {"publish_failed", "processing", "published", "applied"}

\* The list a count decides about; the intake of a capped job comes after the list it is in.
Decides == [failedJobs |-> "publish_failed", processingJobs |-> "processing",
            publishedJobs |-> "published", oldestApplied |-> "applied", intake |-> "publishedJobs"]

Lists == DOMAIN Decides

Queries == Counts \cup Lists \cup {"recent"}

Rules == {"publish_failed", "capacity", "stuck_processing", "unscored", "stale_applied"}

-----------------------------------------------------------------------------
(* The job and the application.                                            *)

JobWith(status) == IF job.status = status THEN {job} ELSE {}

Received == IF application = None THEN {} ELSE {application}

InApplied == {a \in Received : a.stage = "applied"}

\* What the server answers.
Rows(q) ==
  CASE q \in {"publish_failed", "failedJobs"} -> JobWith("publish_failed")
    [] q \in {"processing", "processingJobs"} -> JobWith("processing")
    [] q \in {"published", "publishedJobs"} -> JobWith("published")
    [] q \in {"applied", "oldestApplied"} -> InApplied
    [] OTHER -> Received

-----------------------------------------------------------------------------
(* The rules (attentionItems).                                             *)

Old(row, age) == now - row.at > age

Full(received) == Cardinality(received) * 5 >= Cap * 4

\* Whether a rule finds something in the rows it reads.
Finds(rule, rows) ==
  CASE rule = "publish_failed" -> rows # {}
    [] rule = "capacity" -> Full(rows)
    [] rule = "stuck_processing" -> \E j \in rows : Old(j, stuckProcessing)
    [] rule = "unscored" -> \E a \in rows : ~a.scored /\ Old(a, scoreWait)
    [] rule = "stale_applied" -> \E a \in rows : a.stage = "applied" /\ Old(a, staleApplied)

\* The query a rule reads its rows from.
ReadsFrom == [publish_failed |-> "failedJobs", capacity |-> "intake", stuck_processing |-> "processingJobs",
              unscored |-> "recent", stale_applied |-> "oldestApplied"]

\* Whether a rule has something on the server now; the intake is that of a published job.
Has(rule) ==
  /\ rule = "capacity" => job.status = "published"
  /\ Finds(rule, Rows(ReadsFrom[rule]))

\* The rules that find nothing, and those that have found nothing before.
CleanNow == {rule \in Rules : ~Has(rule)'}

Noted == clean' = clean \cup CleanNow

To(status) == job' = [status |-> status, at |-> now] /\ UNCHANGED application

\* The job is published, or published again: from its row on the card, or elsewhere.
Publish == job.status \in {"draft", "publish_failed"} /\ To("processing")

Settle == job.status = "processing" /\ \E status \in {"published", "publish_failed"} : To(status)

CloseOrReopen ==
  \/ job.status # "closed" /\ To("closed")
  \/ job.status = "closed" /\ To("draft")

Apply ==
  /\ job.status = "published" /\ application = None
  /\ application' = [stage |-> "applied", at |-> now, scored |-> FALSE] /\ UNCHANGED job

\* The score arrives, by itself or because it was asked for again from the card.
Score ==
  /\ application # None /\ ~application.scored
  /\ application' = [application EXCEPT !.scored = TRUE] /\ UNCHANGED job

Advance ==
  /\ application # None /\ application.stage = "applied"
  /\ application' = [application EXCEPT !.stage = "screening"] /\ UNCHANGED job

Change ==
  /\ changes < MaxChanges /\ changes' = changes + 1
  /\ Publish \/ Settle \/ CloseOrReopen \/ Apply \/ Score \/ Advance
  /\ UNCHANGED <<now, failures, refreshes, queries>> /\ Noted

Tick ==
  /\ now < MaxClock /\ now' = now + 1
  /\ UNCHANGED <<job, application, changes, failures, refreshes, queries>> /\ Noted

-----------------------------------------------------------------------------
(* The queries.                                                            *)

enabled(q) == q \in Lists => queries[Decides[q]].rows # {}

\* A request for what was never read forgets that it failed.
Fetch(query) == [query EXCEPT !.fetching = TRUE, !.failed = @ /\ query.read]

Answered(q) == [read |-> TRUE, rows |-> Rows(q), fetching |-> FALSE, failed |-> FALSE, stale |-> FALSE]

\* A list whose count has just said there is something in it is asked for, unless what is kept of
\* it was read only seconds ago.
Answer ==
  /\ \E q \in Queries, recently \in BOOLEAN :
       /\ queries[q].fetching
       /\ LET opened(l) == l \in Lists /\ Decides[l] = q /\ ~enabled(l) /\ Rows(q) # {}
              kept(l) == recently /\ queries[l].read /\ ~queries[l].stale
          IN queries' = [l \in Queries |->
               IF l = q THEN Answered(q)
               ELSE IF opened(l) /\ ~kept(l) THEN Fetch(queries[l]) ELSE queries[l]]
  /\ UNCHANGED <<now, job, application, changes, failures, refreshes>> /\ Noted

\* A request that fails keeps what was read before.
Fail ==
  /\ failures < MaxFailures /\ failures' = failures + 1
  /\ \E q \in Queries :
       /\ queries[q].fetching
       /\ queries' = [queries EXCEPT ![q].fetching = FALSE, ![q].failed = TRUE]
  /\ UNCHANGED <<now, job, application, changes, refreshes>> /\ Noted

\* The newest applications are asked for again while a score is on its way.
Poll ==
  /\ ~queries["recent"].fetching
  /\ \E a \in queries["recent"].rows : ~a.scored /\ ~Old(a, scoreWait)
  /\ queries' = [queries EXCEPT !["recent"] = Fetch(@)]
  /\ UNCHANGED <<now, job, application, changes, failures, refreshes>> /\ Noted

\* Mutation: only the jobs are asked for again.
RefreshedJobsOnly(q) == q \notin {"applied", "oldestApplied", "recent", "intake"}

\* Everything of the jobs and of the applications is asked for again.
Refreshed(q) == TRUE

refresh ==
  /\ refreshes < MaxRefreshes /\ refreshes' = refreshes + 1
  /\ queries' = [q \in Queries |->
                   IF ~Refreshed(q) THEN queries[q]
                   ELSE LET marked == [queries[q] EXCEPT !.stale = TRUE]
                        IN IF enabled(q) THEN Fetch(marked) ELSE marked]
  /\ UNCHANGED <<now, job, application, changes, failures>>
  /\ clean' = CleanNow

-----------------------------------------------------------------------------
(* What the page shows.                                                    *)

Loading(q) == queries[q].fetching /\ ~queries[q].read

\* The intake is asked for each job listed; any other list keeps its rows when it is not asked for.
Kept(q) == IF q = "intake" /\ ~enabled(q) THEN {} ELSE queries[q].rows

items == {rule \in Rules : Finds(rule, Kept(ReadsFrom[rule]))}

\* Mutation: the lists a count decides about are not waited for.
isLoadingCounts == \E q \in Counts \cup {"recent"} : Loading(q)

isLoading == \E q \in Queries : Loading(q)

error == \E q \in {"failedJobs", "processingJobs", "oldestApplied"} : queries[q].failed

\* A failed list is said first, then that there is more to come, then what there is.
AttentionCard ==
  CASE error -> "error"
    [] ~error /\ isLoading -> "loading"
    [] ~error /\ ~isLoading /\ items = {} -> "all clear"
    [] OTHER -> "items"

\* What the head of the page says of the day.
summary ==
  CASE isLoading -> "where hiring stands"
    [] ~isLoading /\ items = {} /\ queries["applied"].rows = {} -> "all caught up"
    [] OTHER -> "you have"

Init ==
  /\ now = 0 /\ job \in [status : {"processing", "published"}, at : {0}] /\ application = None
  /\ changes = 0 /\ failures = 0 /\ refreshes = 0
  /\ queries = [q \in Queries |-> [read |-> FALSE, rows |-> {}, fetching |-> q \notin Lists, failed |-> FALSE, stale |-> FALSE]]
  /\ clean = Rules

Next == Change \/ Tick \/ Answer \/ Fail \/ Poll \/ refresh

Spec == Init /\ [][Next]_vars

-----------------------------------------------------------------------------
(* Properties.                                                             *)

TypeOK ==
  /\ now \in 0 .. MaxClock
  /\ job \in [status : {"draft", "processing", "published", "publish_failed", "closed"}, at : 0 .. MaxClock]
  /\ Received \subseteq [stage : {"applied", "screening"}, at : 0 .. MaxClock, scored : BOOLEAN]
  /\ changes \in 0 .. MaxChanges /\ failures \in 0 .. MaxFailures /\ refreshes \in 0 .. MaxRefreshes
  /\ \A q \in Queries : Cardinality(queries[q].rows) <= 1 /\ (queries[q].failed => ~queries[q].fetching \/ queries[q].read)
  /\ clean \subseteq Rules

\* The page says that there is nothing to do, and no request failed: when one did, the head of the
\* page and, for some requests, the card say it all the same.
AllIsWell ==
  /\ AttentionCard = "all clear" \/ summary = "all caught up"
  /\ \A q \in Queries : ~queries[q].failed

\* "All clear" is never shown for a check that has not run yet (hooks/useDashboardData.ts:151):
\* for every rule, its rows were read, or the count that decides about them said there are none.
ClearIsChecked ==
  AllIsWell =>
    \A rule \in Rules : LET q == ReadsFrom[rule] IN
      \/ queries[q].read
      \/ q \in Lists /\ queries[Decides[q]].read /\ ~enabled(q)
      \/ q = "intake" /\ queries["published"].read /\ ~enabled("publishedJobs")

\* What the page says once everything was answered is of now (hooks/useDashboardData.ts:117): if
\* all is well, then no rule had something all the time since the page was last refreshed.
ClearIsCurrent == AllIsWell /\ (\A q \in Queries : ~queries[q].fetching) => clean = Rules
=============================================================================
