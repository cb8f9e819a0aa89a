----------------------------- MODULE Applications -----------------------------
(***************************************************************************)
(* Applying to jobs and moving applications through the hiring pipeline:   *)
(* backend/app/applications/service.py, called concurrently by candidates  *)
(* and recruiters, each request in one READ COMMITTED transaction.         *)
(*                                                                         *)
(* apply_to_job is several statements, each seeing what has committed when *)
(* it runs; two row locks (job, then candidate) hold off the writers that  *)
(* matter.  advance_stage reads and writes under one row lock and is one   *)
(* action.  So is every other writer of a locked row: it waits for the     *)
(* lock, writes and commits.                                               *)
(*                                                                         *)
(* A job is here only its status and its terms; JobPublishing says when    *)
(* the status changes.  An application is its (job, candidate) pair, which *)
(* a unique constraint makes an identifier.                                *)
(***************************************************************************)
EXTENDS Naturals, Sequences, FiniteSets, SequencesExt

CONSTANTS
  Jobs, Candidates, Requests,
  Statuses,    \* the statuses jobs take
  Calls,       \* what a request may ask for, a subset of Call
  Terms,       \* the terms a job may have
  Profiles,    \* the profiles a candidate may have
  MaxActive,   \* settings.max_applications_per_candidate
  Free,        \* nobody holds the row lock
  Null         \* SQL NULL

JobStatus == {"draft", "processing", "published", "publish_failed", "closed"}
Absent == "absent"

Stage == {"applied", "screening", "interview", "offer", "hired", "rejected", "withdrawn"}
Terminal == {"hired", "rejected", "withdrawn"}
NotApplied == "not_applied"

AllowedTransitions ==
  [ applied   |-> {"screening", "rejected", "withdrawn"},
    screening |-> {"interview", "rejected", "withdrawn"},
    interview |-> {"offer", "rejected", "withdrawn"},
    offer     |-> {"hired", "rejected", "withdrawn"},
    hired     |-> {},
    rejected  |-> {},
    withdrawn |-> {} ]

\* apply: POST /jobs/{id}/applications; advance: POST /applications/{id}/stage, where a
\* recruiter may not withdraw; withdraw: DELETE /applications/{id}.
Call ==
  [op : {"apply", "withdraw"}, job : Jobs, candidate : Candidates]
    \cup [op : {"advance"}, job : Jobs, candidate : Candidates, to : Stage \ {"withdrawn"}]

\* What an instance must give the constants.
ConstantsOK ==
  /\ Statuses \subseteq JobStatus
  /\ Calls \subseteq Call
  /\ MaxActive \in Nat \ {0}
  /\ Free \notin Requests
  /\ \A t \in Terms : /\ t.max_applications \in (Nat \ {0}) \cup {Null}
                      /\ t.min_experience_years \in Nat
                      /\ IsFiniteSet(t.required_skills)

VARIABLES
  status,         \* of each job
  terms,          \* of each job: cap, required experience and skills
  profile,        \* of each candidate, Null once the account is deleted
  stage,          \* of each application
  history,        \* application_stage_changes of each application, by id
  jobLock,        \* who holds each job's row lock
  candidateLock,  \* who holds each candidate's row lock
  request,        \* the progress of each request
  clock           \* the next transaction's now()

vars == <<status, terms, profile, stage, history, jobLock, candidateLock, request, clock>>
rows == <<status, terms, profile, stage, history>>
locks == <<jobLock, candidateLock>>

-----------------------------------------------------------------------------
Waiting == {"lock_job", "lock_candidate", "count_active", "count_job", "insert",
            "lock_application"}

\* How the request was answered.
Answer == {"created", "moved", "unchanged", "not_found", "job_not_open", "not_eligible",
           "limit_reached", "capacity_reached", "duplicate", "illegal_transition"}

StageChange == [from_stage : Stage \cup {Null}, to_stage : Stage, changed_at : Nat]

\* loaded: the stage an unlocked load has put in the session's identity map.
NoRequest == [pc |-> "idle", call |-> Null, began |-> 0, loaded |-> Null]

TypeOK ==
  /\ status \in [Jobs -> Statuses \cup {Absent}]
  /\ terms \in [Jobs -> Terms]
  /\ profile \in [Candidates -> Profiles \cup {Null}]
  /\ stage \in [Jobs \X Candidates -> Stage \cup {NotApplied}]
  /\ history \in [Jobs \X Candidates -> Seq(StageChange)]
  /\ jobLock \in [Jobs -> Requests \cup {Free}]
  /\ candidateLock \in [Candidates -> Requests \cup {Free}]
  /\ request \in [Requests -> [ pc     : {"idle"} \cup Waiting \cup Answer,
                                call   : Calls \cup {Null},
                                began  : Nat,
                                loaded : Stage \cup {NotApplied, Null} ]]
  /\ clock \in Nat

Init ==
  /\ status \in [Jobs -> Statuses]
  /\ terms \in [Jobs -> Terms]
  /\ profile \in [Candidates -> Profiles]
  /\ stage = [a \in Jobs \X Candidates |-> NotApplied]
  /\ history = [a \in Jobs \X Candidates |-> <<>>]
  /\ jobLock = [j \in Jobs |-> Free]
  /\ candidateLock = [c \in Candidates |-> Free]
  /\ request = [r \in Requests |-> NoRequest]
  /\ clock = 0

-----------------------------------------------------------------------------
JobOf(r) == request[r].call.job
CandidateOf(r) == request[r].call.candidate
ApplicationOf(r) == <<JobOf(r), CandidateOf(r)>>

Goto(r, pc) == request' = [request EXCEPT ![r].pc = pc]

\* Commit and rollback both release the transaction's locks.
EndTransaction(r, answer) ==
  /\ Goto(r, answer)
  /\ jobLock' = [j \in Jobs |-> IF jobLock[j] = r THEN Free ELSE jobLock[j]]
  /\ candidateLock' =
       [c \in Candidates |-> IF candidateLock[c] = r THEN Free ELSE candidateLock[c]]

\* A mutation: the refused transaction is left open while the answer is sent.
RefuseHolding(r, error) ==
  /\ Goto(r, error)
  /\ UNCHANGED <<rows, locks, clock>>

\* A DomainError: nothing has been written, and apply_to_job rolls back at once.
Refuse(r, error) ==
  /\ EndTransaction(r, error)
  /\ UNCHANGED <<rows, clock>>

(***************************************************************************)
(* The request's transaction begins with the lookup of its user, and takes *)
(* its now() there.  A candidate's withdrawal also loads the application,  *)
(* unlocked, to check that it is theirs.  The id of an application is not  *)
(* known before the application is.                                        *)
(***************************************************************************)
Begin(r, call) ==
  /\ request[r].pc = "idle"
  /\ call.op # "advance" => profile[call.candidate] # Null
  /\ call.op # "apply" => stage[<<call.job, call.candidate>>] # NotApplied
  /\ request' = [request EXCEPT ![r] =
       [ pc     |-> IF call.op = "apply" THEN "lock_job" ELSE "lock_application",
         call   |-> call,
         began  |-> clock,
         loaded |-> IF call.op = "withdraw" THEN stage[<<call.job, call.candidate>>]
                    ELSE Null ]]
  /\ clock' = clock + 1
  /\ UNCHANGED <<rows, locks>>

-----------------------------------------------------------------------------
(***************************************************************************)
(* apply_to_job.                                                           *)
(***************************************************************************)
\* A mutation: the job is read without its lock.
LockJobNot(r) ==
  /\ request[r].pc = "lock_job"
  /\ IF status[JobOf(r)] = Absent
       THEN Refuse(r, "not_found")
       ELSE Goto(r, "lock_candidate") /\ UNCHANGED <<rows, locks, clock>>

LockJob(r) ==
  /\ request[r].pc = "lock_job"
  /\ jobLock[JobOf(r)] = Free
  /\ IF status[JobOf(r)] = Absent
       THEN Refuse(r, "not_found")
       ELSE /\ jobLock' = [jobLock EXCEPT ![JobOf(r)] = r]
            /\ Goto(r, "lock_candidate")
            /\ UNCHANGED <<rows, candidateLock, clock>>

Eligible(j, c) ==
  /\ profile[c].years_experience >= terms[j].min_experience_years
  /\ \/ terms[j].required_skills = {}
     \/ terms[j].required_skills \cap profile[c].skills # {}

LockCandidate(r) ==
  LET j == JobOf(r)
      c == CandidateOf(r)
  IN  /\ request[r].pc = "lock_candidate"
      /\ candidateLock[c] = Free
      /\ CASE profile[c] = Null -> Refuse(r, "not_found")
           [] profile[c] # Null /\ status[j] # "published" ->
                Refuse(r, IF status[j] = "closed" /\ stage[<<j, c>>] # NotApplied
                            THEN "job_not_open" ELSE "not_found")
           [] profile[c] # Null /\ status[j] = "published" /\ ~Eligible(j, c) ->
                Refuse(r, "not_eligible")
           [] OTHER -> /\ candidateLock' = [candidateLock EXCEPT ![c] = r]
                       /\ Goto(r, "count_active")
                       /\ UNCHANGED <<rows, jobLock, clock>>

Active(c) == {j \in Jobs : stage[<<j, c>>] \notin Terminal \cup {NotApplied}}
Received(j) == {c \in Candidates : stage[<<j, c>>] # NotApplied}

\* A mutation: the candidate's lock ends with the count.
CountActiveUnlocks(r) ==
  /\ request[r].pc = "count_active"
  /\ IF Cardinality(Active(CandidateOf(r))) >= MaxActive
       THEN Refuse(r, "limit_reached")
       ELSE /\ Goto(r, "count_job")
            /\ candidateLock' = [candidateLock EXCEPT ![CandidateOf(r)] = Free]
            /\ UNCHANGED <<rows, jobLock, clock>>

CountActive(r) ==
  /\ request[r].pc = "count_active"
  /\ IF Cardinality(Active(CandidateOf(r))) >= MaxActive
       THEN Refuse(r, "limit_reached")
       ELSE Goto(r, "count_job") /\ UNCHANGED <<rows, locks, clock>>

CapReached(j) ==
  /\ terms[j].max_applications # Null
  /\ Cardinality(Received(j)) >= terms[j].max_applications

CountJob(r) ==
  /\ request[r].pc = "count_job"
  /\ IF CapReached(JobOf(r))
       THEN Refuse(r, "capacity_reached")
       ELSE Goto(r, "insert") /\ UNCHANGED <<rows, locks, clock>>

FirstChange(r) ==
  [from_stage |-> Null, to_stage |-> "applied", changed_at |-> request[r].began]

\* The pre-check and the unique constraint both answer duplicate.
Insert(r) ==
  LET a == ApplicationOf(r)
  IN  /\ request[r].pc = "insert"
      /\ IF stage[a] # NotApplied
           THEN Refuse(r, "duplicate")
           ELSE /\ stage' = [stage EXCEPT ![a] = "applied"]
                /\ history' = [history EXCEPT ![a] = <<FirstChange(r)>>]
                /\ EndTransaction(r, "created")
                /\ UNCHANGED <<status, terms, profile, clock>>

(***************************************************************************)
(* advance_stage, from the locked load to the commit.  The locked load     *)
(* overwrites what an earlier load left in the session.                    *)
(***************************************************************************)
Target(r) ==
  IF request[r].call.op = "withdraw" THEN "withdrawn" ELSE request[r].call.to

Move(r, current) ==
  LET a == ApplicationOf(r)
      change == [ from_stage |-> current, to_stage |-> Target(r),
                  changed_at |-> request[r].began ]
  IN  CASE current = NotApplied -> Refuse(r, "not_found")
        [] current = Target(r) -> Refuse(r, "unchanged")
        [] current \in Stage \ {Target(r)} /\ Target(r) \notin AllowedTransitions[current] ->
             Refuse(r, "illegal_transition")
        [] OTHER -> /\ stage' = [stage EXCEPT ![a] = Target(r)]
                    /\ history' = [history EXCEPT ![a] = Append(@, change)]
                    /\ EndTransaction(r, "moved")
                    /\ UNCHANGED <<status, terms, profile, clock>>

\* A mutation: the stage the unlocked load saw is trusted.
AdvanceStageLoaded(r) ==
  /\ request[r].pc = "lock_application"
  /\ Move(r, IF request[r].loaded = Null THEN stage[ApplicationOf(r)] ELSE request[r].loaded)

AdvanceStage(r) ==
  /\ request[r].pc = "lock_application"
  /\ Move(r, stage[ApplicationOf(r)])

-----------------------------------------------------------------------------
(***************************************************************************)
(* The writers of the rows apply_to_job locks.                             *)
(***************************************************************************)
ChangeStatus(j) ==
  /\ jobLock[j] = Free
  /\ status[j] # Absent
  /\ \E s \in Statuses : status' = [status EXCEPT ![j] = s]
  /\ UNCHANGED <<terms, profile, stage, history, locks, request, clock>>

UpdateJob(j) ==
  /\ jobLock[j] = Free
  /\ status[j] \notin {Absent, "closed", "processing"}
  /\ \E t \in Terms : terms' = [terms EXCEPT ![j] = t]
  /\ UNCHANGED <<status, profile, stage, history, locks, request, clock>>

\* Its applications and their history go with the job, or with the candidate.
Cascade(gone) ==
  /\ stage' = [a \in Jobs \X Candidates |-> IF a \in gone THEN NotApplied ELSE stage[a]]
  /\ history' = [a \in Jobs \X Candidates |-> IF a \in gone THEN <<>> ELSE history[a]]

DeleteJob(j) ==
  /\ jobLock[j] = Free
  /\ status[j] # Absent
  /\ status' = [status EXCEPT ![j] = Absent]
  /\ Cascade({j} \X Candidates)
  /\ UNCHANGED <<terms, profile, locks, request, clock>>

\* The skills are rows of another table: replacing them does not wait for the lock.
UpdateCandidate(c) ==
  /\ profile[c] # Null
  /\ \E p \in Profiles :
       /\ candidateLock[c] = Free \/ p.years_experience = profile[c].years_experience
       /\ profile' = [profile EXCEPT ![c] = p]
  /\ UNCHANGED <<status, terms, stage, history, locks, request, clock>>

DeleteCandidate(c) ==
  /\ candidateLock[c] = Free
  /\ profile[c] # Null
  /\ profile' = [profile EXCEPT ![c] = Null]
  /\ Cascade(Jobs \X {c})
  /\ UNCHANGED <<status, terms, locks, request, clock>>

-----------------------------------------------------------------------------
Step(r) ==
  \/ LockJob(r) \/ LockCandidate(r) \/ CountActive(r) \/ CountJob(r) \/ Insert(r)
  \/ AdvanceStage(r)

Others ==
  \/ \E j \in Jobs : ChangeStatus(j) \/ UpdateJob(j) \/ DeleteJob(j)
  \/ \E c \in Candidates : UpdateCandidate(c) \/ DeleteCandidate(c)

Next ==
  \/ \E r \in Requests : Step(r) \/ \E call \in Calls : Begin(r, call)
  \/ Others

Spec == Init /\ [][Next]_vars

\* A transaction goes on once it can.  (Each is finite, and none begins for ever: a lock that is
\* free again and again is free for good.)
Fairness == \A r \in Requests : WF_vars(Step(r))

FairSpec == Spec /\ Fairness

-----------------------------------------------------------------------------
(***************************************************************************)
(* Properties; what no step may do is written as an action.                *)
(***************************************************************************)
\* A chain of legal moves, from the application's submission.
IsPath(changes) ==
  \A i \in DOMAIN changes :
    IF i = 1
      THEN changes[i].from_stage = Null /\ changes[i].to_stage = "applied"
      ELSE /\ changes[i].from_stage = changes[i - 1].to_stage
           /\ changes[i].to_stage \in AllowedTransitions[changes[i].from_stage]

\* Rule 3, for the candidate: however many requests race, no candidate ever has more active
\* applications than the limit.
ActiveWithinLimit == \A c \in Candidates : Cardinality(Active(c)) <= MaxActive

\* The application row and its history never disagree: the entries, in the order they were
\* written, are a legal path through the pipeline that ends at the application's stage.
HistoryMatchesStage ==
  \A a \in Jobs \X Candidates :
    /\ IsPath(history[a])
    /\ (stage[a] = NotApplied) <=> (history[a] = <<>>)
    /\ stage[a] # NotApplied => Last(history[a]).to_stage = stage[a]

\* Rules 2 and 3, for the job, at the moment that counts: when an application is committed the
\* job is published, the candidate has the required years, and the job is within its cap, by
\* the job's terms and the candidate's row of that same moment.
AdmissionRules ==
  \A j \in Jobs, c \in Candidates :
    stage[<<j, c>>] = NotApplied /\ stage'[<<j, c>>] # NotApplied =>
      /\ status[j] = "published"
      /\ profile[c].years_experience >= terms[j].min_experience_years
      /\ ~CapReached(j)

\* No request waits for ever on a row lock: every request that has begun is answered.
EveryRequestAnswered ==
  \A r \in Requests : request[r].pc \in Waiting ~> request[r].pc \in Answer
=============================================================================
