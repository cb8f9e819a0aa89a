------------------------ MODULE ApplicationProcessing ------------------------
(***************************************************************************)
(* What follows an application: the ProcessApplication run that scores it  *)
(* and confirms it to the candidate, started when the candidate applies    *)
(* and again by POST /applications/{id}/process                            *)
(* (backend/app/applications/processor.py, workflow.py, activities.py).    *)
(*                                                                         *)
(* One application.  The score is a function of the candidate's profile    *)
(* and of what the job's posting mentions; each is a version number, and a *)
(* score is the pair of versions it was computed from.  The two activities *)
(* run side by side; each statement of an activity is an action.           *)
(***************************************************************************)
EXTENDS Naturals

CONSTANTS
  Requests,      \* each may start one run, or attach to one
  MaxVersion,    \* bound on the versions of the profile and of the posting
  MaxAttempts,   \* settings.application_processing_max_attempts
  NoScore,       \* match_score is null
  Faults         \* what may go wrong, a subset of FaultKinds

FaultKinds ==
  { "unreachable",   \* start_workflow fails and nothing has started
    "unanswered",    \* start_workflow fails at its deadline, the run has started
    "attempt_lost",  \* an attempt fails or its worker dies, before or after its commit
    "stray" }        \* an attempt outlives its timeout, or the run it belongs to

Version == 1 .. MaxVersion
Inputs == [profile : Version, posting : Version]

\* What an instance must give the constants.
ConstantsOK ==
  /\ MaxVersion \in Nat \ {0} /\ MaxAttempts \in Nat \ {0}
  /\ Faults \subseteq FaultKinds
  /\ NoScore \notin Inputs

VARIABLES
  exists,      \* the application has not been deleted with its job or its candidate
  inputs,      \* the versions as they are now
  score,       \* applications.match_score
  recorded,    \* the row in notifications
  delivered,   \* how many confirmations have gone out
  request,     \* the progress of each request, and the inputs when it was accepted
  run          \* the run each request started, if it started one

vars == <<exists, inputs, score, recorded, delivered, request, run>>
database == <<exists, inputs, score, recorded, delivered>>

-----------------------------------------------------------------------------
\* score_application: loaded has read the profile, read the posting too; send_application_received:
\* inserted has the message to send.  done: committed (and sent), the worker has yet to report.
ScoreStep == {"waiting", "loaded", "read", "done", "reported"}
NotifyStep == {"waiting", "inserted", "done", "reported"}

Run == [ step     : {"not_started", "running", "completed", "failed"},
         scoring  : ScoreStep,
         notifying : NotifyStep,
         tries    : [scoring : 1 .. MaxAttempts, notifying : 1 .. MaxAttempts],
         have     : Inputs,                  \* what the scoring attempt has read
         strays   : SUBSET Inputs,           \* what stray attempts are about to write
         unsent   : BOOLEAN ]                \* a stray attempt is about to send

Request == [pc : {"idle", "accepted", "unavailable"}, since : Inputs]

TypeOK ==
  /\ exists \in BOOLEAN
  /\ inputs \in Inputs
  /\ score \in Inputs \cup {NoScore}
  /\ recorded \in BOOLEAN
  /\ delivered \in Nat
  /\ request \in [Requests -> Request]
  /\ run \in [Requests -> Run]

First == [profile |-> 1, posting |-> 1]

FreshRun == [ step |-> "running", scoring |-> "waiting", notifying |-> "waiting",
              tries |-> [scoring |-> 1, notifying |-> 1], have |-> First,
              strays |-> {}, unsent |-> FALSE ]

\* The candidate has just applied.
Init ==
  /\ exists = TRUE
  /\ inputs = First
  /\ score = NoScore
  /\ recorded = FALSE
  /\ delivered = 0
  /\ request = [r \in Requests |-> [pc |-> "idle", since |-> First]]
  /\ run = [r \in Requests |-> [FreshRun EXCEPT !.step = "not_started"]]

-----------------------------------------------------------------------------
(***************************************************************************)
(* TemporalApplicationProcessor.start, for an application that was found.  *)
(***************************************************************************)
Live(q) == run[q].step = "running"

\* USE_EXISTING
StartWorkflow(r) ==
  run' = IF \E q \in Requests : Live(q) THEN run ELSE [run EXCEPT ![r] = FreshRun]

Accept(r, pc) == request' = [request EXCEPT ![r] = [pc |-> pc, since |-> inputs]]

Start(r) ==
  /\ request[r].pc = "idle"
  /\ exists
  /\ StartWorkflow(r)
  /\ Accept(r, "accepted")
  /\ UNCHANGED database

StartFails(r) ==
  /\ request[r].pc = "idle"
  /\ exists
  /\ \/ "unreachable" \in Faults /\ UNCHANGED run
     \/ "unanswered" \in Faults /\ StartWorkflow(r)
  /\ Accept(r, "unavailable")
  /\ UNCHANGED database

-----------------------------------------------------------------------------
(***************************************************************************)
(* Others: the profile, the job and its extracted skills are edited.       *)
(***************************************************************************)
EditInput ==
  /\ exists
  /\ \E part \in {"profile", "posting"} :
       /\ inputs[part] < MaxVersion
       /\ inputs' = [inputs EXCEPT ![part] = @ + 1]
  /\ UNCHANGED <<exists, score, recorded, delivered, request, run>>

\* The notification's row goes too.
Delete ==
  /\ exists
  /\ exists' = FALSE
  /\ score' = NoScore
  /\ recorded' = FALSE
  /\ UNCHANGED <<inputs, delivered, request, run>>

-----------------------------------------------------------------------------
(***************************************************************************)
(* score_application.                                                      *)
(***************************************************************************)
Load(q) ==
  /\ Live(q)
  /\ run[q].scoring = "waiting"
  /\ exists
  /\ run' = [run EXCEPT ![q].scoring = "loaded", ![q].have.profile = inputs.profile]
  /\ UNCHANGED <<database, request>>

ReadMentioned(q) ==
  /\ Live(q)
  /\ run[q].scoring = "loaded"
  /\ run' = [run EXCEPT ![q].scoring = "read", ![q].have.posting = inputs.posting]
  /\ UNCHANGED <<database, request>>

\* Mutation of Store: an application is scored once.
StoreOnce(have) == score' = IF exists /\ score = NoScore THEN have ELSE score

\* UPDATE applications SET match_score: nothing if the application is gone.
Store(have) == score' = IF exists THEN have ELSE score

WriteScore(q) ==
  /\ Live(q)
  /\ run[q].scoring = "read"
  /\ Store(run[q].have)
  /\ run' = [run EXCEPT ![q].scoring = "done"]
  /\ UNCHANGED <<exists, inputs, recorded, delivered, request>>

(***************************************************************************)
(* send_application_received.                                              *)
(***************************************************************************)
\* Mutation of InsertNotification: no dedupe key.
InsertAlways(q) ==
  /\ Live(q)
  /\ run[q].notifying = "waiting"
  /\ exists
  /\ recorded' = TRUE
  /\ run' = [run EXCEPT ![q].notifying = "inserted"]
  /\ UNCHANGED <<exists, inputs, score, delivered, request>>

\* INSERT ... ON CONFLICT (dedupe_key) DO NOTHING
InsertNotification(q) ==
  /\ Live(q)
  /\ run[q].notifying = "waiting"
  /\ exists
  /\ recorded' = TRUE
  /\ run' = [run EXCEPT ![q].notifying = IF recorded THEN "done" ELSE "inserted"]
  /\ UNCHANGED <<exists, inputs, score, delivered, request>>

Send(q) ==
  /\ Live(q)
  /\ run[q].notifying = "inserted"
  /\ delivered' = delivered + 1
  /\ run' = [run EXCEPT ![q].notifying = "done"]
  /\ UNCHANGED <<exists, inputs, score, recorded, request>>

-----------------------------------------------------------------------------
(***************************************************************************)
(* The run (ProcessApplicationWorkflow.run).  asyncio.gather raises with   *)
(* the first activity that fails, and the run is over.                     *)
(***************************************************************************)
Activities == {"scoring", "notifying"}

\* The last report completes the run.
Report(q, activity) ==
  LET reported == [run[q] EXCEPT ![activity] = "reported"]
  IN  /\ Live(q)
      /\ run[q][activity] = "done"
      /\ run' = [run EXCEPT ![q] =
           IF \A other \in Activities : reported[other] = "reported"
             THEN [reported EXCEPT !.step = "completed"] ELSE reported]
      /\ UNCHANGED <<database, request>>

\* An attempt that is abandoned goes on in the worker, if it can still do anything.
Abandon(x, activity) ==
  CASE "stray" \notin Faults -> x
    [] "stray" \in Faults /\ activity = "scoring" /\ x.scoring \in {"loaded", "read"} ->
         [x EXCEPT !.strays = @ \cup {x.have}]
    [] "stray" \in Faults /\ activity = "notifying" /\ x.notifying = "inserted" ->
         [x EXCEPT !.unsent = TRUE]
    [] OTHER -> x

\* The run is over; the other activity's attempt is not told.
Fail(x, activity) ==
  LET Other == CHOOSE other \in Activities : other # activity
  IN  [Abandon(x, Other) EXCEPT !.step = "failed"]

\* Mutation of Again: maximum_attempts is not passed on.
AgainForever(x, activity) == [x EXCEPT ![activity] = "waiting"]

\* The next attempt, while there are some left; the first to run out fails the run.
Again(x, activity) ==
  IF x.tries[activity] < MaxAttempts
    THEN [x EXCEPT ![activity] = "waiting", !.tries[activity] = @ + 1]
    ELSE Fail(x, activity)

\* An attempt fails, or nobody hears of it again.
LoseAttempt(q, activity) ==
  /\ "attempt_lost" \in Faults
  /\ Live(q)
  /\ run[q][activity] # "reported"
  /\ run' = [run EXCEPT ![q] = Again(run[q], activity)]
  /\ UNCHANGED <<database, request>>

\* An attempt outlives its start-to-close timeout.
TimeOut(q, activity) ==
  /\ "stray" \in Faults
  /\ Live(q)
  /\ run[q][activity] \in {"loaded", "read", "inserted"}
  /\ run' = [run EXCEPT ![q] = Again(Abandon(run[q], activity), activity)]
  /\ UNCHANGED <<database, request>>

\* ApplicationNotFound is not retried.
NotFound(q) ==
  /\ Live(q)
  /\ ~exists
  /\ \E activity \in Activities :
       /\ run[q][activity] = "waiting"
       /\ run' = [run EXCEPT ![q] = Fail(run[q], activity)]
  /\ UNCHANGED <<database, request>>

StrayWrites(q) ==
  \E have \in run[q].strays :
    /\ Store(have)
    /\ run' = [run EXCEPT ![q].strays = @ \ {have}]
    /\ UNCHANGED <<exists, inputs, recorded, delivered, request>>

StraySends(q) ==
  /\ run[q].unsent
  /\ delivered' = delivered + 1
  /\ run' = [run EXCEPT ![q].unsent = FALSE]
  /\ UNCHANGED <<exists, inputs, score, recorded, request>>

-----------------------------------------------------------------------------
Scoring(q) == Load(q) \/ ReadMentioned(q) \/ WriteScore(q) \/ Report(q, "scoring")
Notifying(q) == InsertNotification(q) \/ Send(q) \/ Report(q, "notifying")

Next ==
  \/ EditInput \/ Delete
  \/ \E r \in Requests : Start(r) \/ StartFails(r)
  \/ \E q \in Requests :
       \/ Scoring(q) \/ Notifying(q) \/ NotFound(q)
       \/ \E activity \in Activities : LoseAttempt(q, activity) \/ TimeOut(q, activity)
       \/ StrayWrites(q) \/ StraySends(q)

Spec == Init /\ [][Next]_vars

\* A worker polls the queue, for either activity.
Fairness ==
  \A q \in Requests : WF_vars(Scoring(q)) /\ WF_vars(Notifying(q)) /\ WF_vars(NotFound(q))

FairSpec == Spec /\ Fairness

-----------------------------------------------------------------------------
(***************************************************************************)
(* Properties.                                                             *)
(***************************************************************************)
\* However often the activity is repeated, by retries, by strays or by POST /process, the
\* candidate is sent one confirmation at most.
SentAtMostOnce == delivered <= 1

\* When nothing is under way, a completed run has left a score that is no older, in either of
\* its inputs, than the moment the run was asked for; and the confirmation is on record.
Quiet == \A q \in Requests : ~Live(q)

AtLeast(new, old) == new.profile >= old.profile /\ new.posting >= old.posting

RunLeavesItsMark ==
  Quiet /\ exists =>
    \A q \in Requests : run[q].step = "completed" =>
      recorded /\ score # NoScore /\ AtLeast(score, request[q].since)

\* Every run ends: both activities have bounded attempts.
RunEnds == \A q \in Requests : Live(q) ~> ~Live(q)
=============================================================================
