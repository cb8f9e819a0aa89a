----------------------------- MODULE Idempotency -----------------------------
(***************************************************************************)
(* Requests that carry the same Idempotency-Key for the same endpoint and  *)
(* user, the record of that key in Redis, and the operation they protect:  *)
(* backend/app/core/idempotency.py.  Keys are independent of one another,  *)
(* so one is enough.                                                       *)
(*                                                                         *)
(* Each Redis command is an action of its own, and so is the operation:    *)
(* its transaction commits or does not.  A request body is its fingerprint *)
(* and an answer is whose operation it reports, and how that went.         *)
(***************************************************************************)
EXTENDS Naturals, FiniteSets

CONSTANTS
  Requests,
  Bodies,     \* fingerprints of request bodies
  Unique,     \* whether the database refuses to do the operation twice
  Nothing,    \* no body, no answer
  Faults      \* what may go wrong, a subset of FaultKinds

FaultKinds ==
  { "fails",        \* the operation raises a 5xx or is cancelled, nothing committed
    "unconfirmed",  \* the operation raises although its transaction committed
    "crash",        \* the API process dies
    "redis",        \* a Redis command fails, or its reply does not arrive
    "redis_lost",   \* Redis restarts without its data
    "slow",         \* an operation outlasts IDEMPOTENCY_LOCK_SECONDS
    "late" }        \* a retry comes after IDEMPOTENCY_TTL_SECONDS

Answer == [of : Requests, refused : BOOLEAN]

\* What an instance must give the constants.
ConstantsOK ==
  /\ Unique \in BOOLEAN
  /\ Nothing \notin Bodies \cup Answer
  /\ Faults \subseteq FaultKinds

VARIABLES
  record,      \* the key's record in Redis
  request,     \* the progress of each request
  committed    \* the requests whose operation's transaction committed

vars == <<record, request, committed>>

-----------------------------------------------------------------------------
Record == [ state  : {"absent", "in_progress", "done"},
            body   : Bodies \cup {Nothing},
            answer : Answer \cup {Nothing} ]

\* claiming, reading: about to SET NX, about to GET.  running: in the operation.
\* storing, releasing: it is over, its outcome not yet recorded.
Protected == {"running", "storing", "releasing"}

Request == [ pc     : {"idle", "claiming", "reading", "unprotected", "crashed"} \cup Protected
                        \cup {"answered", "replayed", "failed", "in_progress", "reused"},
             body   : Bodies \cup {Nothing},
             answer : Answer \cup {Nothing} ]

NoRecord == [state |-> "absent", body |-> Nothing, answer |-> Nothing]
InProgress(r) == [state |-> "in_progress", body |-> request[r].body, answer |-> Nothing]

Done(r) == [state |-> "done", body |-> request[r].body, answer |-> request[r].answer]

TypeOK ==
  /\ record \in Record
  /\ request \in [Requests -> Request]
  /\ committed \subseteq Requests

Init ==
  /\ record = NoRecord
  /\ request = [r \in Requests |-> [pc |-> "idle", body |-> Nothing, answer |-> Nothing]]
  /\ committed = {}

Goto(r, pc) == request' = [request EXCEPT ![r].pc = pc]

-----------------------------------------------------------------------------
(***************************************************************************)
(* The claim.                                                              *)
(***************************************************************************)
Arrive(r, body) ==
  /\ request[r].pc = "idle"
  /\ request' = [request EXCEPT ![r].pc = "claiming", ![r].body = body]
  /\ UNCHANGED <<record, committed>>

\* Mutation of Claim: GET, and SET if there was none, without NX.
ClaimAlways(r) ==
  /\ request[r].pc = "claiming"
  /\ record.state # "done"
  /\ record' = InProgress(r)
  /\ Goto(r, "running")
  /\ UNCHANGED committed

\* SET NX EX lock_seconds
Claim(r) ==
  /\ request[r].pc = "claiming"
  /\ IF record.state = "absent"
       THEN record' = InProgress(r) /\ Goto(r, "running")
       ELSE UNCHANGED record /\ Goto(r, "reading")
  /\ UNCHANGED committed

Replay(r) ==
  request' = [request EXCEPT ![r].pc = "replayed", ![r].answer = record.answer]

\* GET: an expired record is claimed again.
Read(r) ==
  /\ request[r].pc = "reading"
  /\ CASE record.state = "absent" -> Goto(r, "claiming")
       [] record.state # "absent" /\ record.body # request[r].body -> Goto(r, "reused")
       [] record.state = "in_progress" /\ record.body = request[r].body -> Goto(r, "in_progress")
       [] record.state = "done" /\ record.body = request[r].body -> Replay(r)
  /\ UNCHANGED <<record, committed>>

\* RedisError while claiming: the request runs unprotected.
ClaimFails(r) ==
  /\ "redis" \in Faults
  /\ request[r].pc \in {"claiming", "reading"}
  /\ \/ UNCHANGED record
     \/ request[r].pc = "claiming" /\ record.state = "absent" /\ record' = InProgress(r)
  /\ Goto(r, "unprotected")
  /\ UNCHANGED committed

\* Told 409 idempotency_in_progress, the client tries again.
Retry(r) ==
  /\ request[r].pc = "in_progress"
  /\ Goto(r, "claiming")
  /\ UNCHANGED <<record, committed>>

-----------------------------------------------------------------------------
(***************************************************************************)
(* The operation, and what follows from its outcome.                       *)
(***************************************************************************)
Running(r) == request[r].pc \in {"running", "unprotected"}

\* Where a request with this outcome goes on, and what it will answer.
Outcome(r, refused) ==
  request' = [request EXCEPT
    ![r].pc = IF @ = "running" THEN "storing" ELSE "answered",
    ![r].answer = [of |-> r, refused |-> refused]]

\* Mutation of Fail: a 5xx is stored like any other answer.
FailStored(r) ==
  /\ Running(r)
  /\ "fails" \in Faults
  /\ UNCHANGED committed
  /\ Outcome(r, FALSE)
  /\ UNCHANGED record

Commits(r) ==
  /\ Unique => committed = {}
  /\ committed' = committed \cup {r}

Succeed(r) ==
  /\ Running(r)
  /\ Commits(r)
  /\ Outcome(r, FALSE)
  /\ UNCHANGED record

\* A DomainError below 500: a duplicate, or any other rule.
Refuse(r) ==
  /\ Running(r)
  /\ Outcome(r, TRUE)
  /\ UNCHANGED <<record, committed>>

Fail(r) ==
  /\ Running(r)
  /\ \/ "fails" \in Faults /\ UNCHANGED committed
     \/ "unconfirmed" \in Faults /\ Commits(r)
  /\ Goto(r, IF request[r].pc = "running" THEN "releasing" ELSE "failed")
  /\ UNCHANGED record

\* Mutation of Store: SET NX, which leaves the claim where it is.
StoreIfAbsent(r) ==
  /\ request[r].pc = "storing"
  /\ record' = IF record.state = "absent" THEN Done(r) ELSE record
  /\ Goto(r, "answered")
  /\ UNCHANGED committed

\* SET, whatever is there by now.
Store(r) ==
  /\ request[r].pc = "storing"
  /\ record' = Done(r)
  /\ Goto(r, "answered")
  /\ UNCHANGED committed

\* DELETE, whatever is there by now.
Release(r) ==
  /\ request[r].pc = "releasing"
  /\ record' = NoRecord
  /\ Goto(r, "failed")
  /\ UNCHANGED committed

\* RedisError while storing or releasing: swallowed.  (Applied, only its reply lost, it is a
\* Store or a Release.)
RecordFails(r) ==
  /\ "redis" \in Faults
  /\ request[r].pc \in {"storing", "releasing"}
  /\ Goto(r, IF request[r].pc = "storing" THEN "answered" ELSE "failed")
  /\ UNCHANGED <<record, committed>>

Crash(r) ==
  /\ "crash" \in Faults
  /\ request[r].pc \in Protected \cup {"claiming", "reading", "unprotected"}
  /\ Goto(r, "crashed")
  /\ UNCHANGED <<record, committed>>

-----------------------------------------------------------------------------
(***************************************************************************)
(* Expiry.  A claim outlives the requests that run under it, unless one of *)
(* them is slow; an answer outlives the retries, unless one is late.       *)
(***************************************************************************)
\* Mutation of ExpireClaim: the claim was set without EX.
ClaimNeverExpires ==
  /\ record.state = "in_progress"
  /\ UNCHANGED vars

ExpireClaim ==
  /\ record.state = "in_progress"
  /\ "slow" \in Faults \/ \A r \in Requests : request[r].pc \notin Protected \cup {"unprotected"}
  /\ record' = NoRecord
  /\ UNCHANGED <<request, committed>>

ExpireAnswer ==
  /\ record.state = "done"
  /\ "late" \in Faults
  /\ record' = NoRecord
  /\ UNCHANGED <<request, committed>>

LoseRecord ==
  /\ "redis_lost" \in Faults
  /\ record # NoRecord
  /\ record' = NoRecord
  /\ UNCHANGED <<request, committed>>

Operate(r) == Succeed(r) \/ Refuse(r) \/ Fail(r)

\* What a request does as long as its process lives.
Goes(r) == Claim(r) \/ Read(r) \/ Retry(r) \/ Operate(r) \/ Store(r) \/ Release(r)

Next ==
  \/ \E r \in Requests :
       \/ \E body \in Bodies : Arrive(r, body)
       \/ Goes(r) \/ ClaimFails(r) \/ RecordFails(r) \/ Crash(r)
  \/ ExpireClaim \/ ExpireAnswer \/ LoseRecord

Spec == Init /\ [][Next]_vars

\* A process that has not died goes on, Redis expires what it was told to, and a client told
\* to wait tries again.
Fairness ==
  /\ \A r \in Requests : WF_vars(Goes(r))
  /\ WF_vars(ExpireClaim)

FairSpec == Spec /\ Fairness

-----------------------------------------------------------------------------
(***************************************************************************)
(* Properties.                                                             *)
(***************************************************************************)

\* "Run operation at most once per key and owner": however many requests race and however
\* often the operation fails in between.
AtMostOnce == Cardinality(committed) <= 1

\* "... and answer every retry the same way": all answers given to one key are the same.
Given(r) == request[r].pc \in {"answered", "replayed"}

AnswersAgree ==
  \A r, q \in Requests : Given(r) /\ Given(q) => request[r].answer = request[q].answer

\* What is replayed has happened: a stored 2xx is of an operation that committed, a stored
\* refusal is of one that was refused, and either is of the body the retry has sent.
ReplayIsReal ==
  \A r \in Requests : request[r].pc = "replayed" =>
    LET answer == request[r].answer
    IN  /\ answer # Nothing
        /\ answer.refused <=> answer.of \notin committed
        /\ request[answer.of].answer = answer
        /\ request[answer.of].body = request[r].body

\* A client that sends its request again whenever it is told to wait is answered in the end,
\* whatever process or Redis command fails meanwhile.
RetriesAreAnswered ==
  \A r \in Requests :
    request[r].pc = "claiming" ~>
      request[r].pc \in {"answered", "replayed", "failed", "reused", "crashed"}
=============================================================================
