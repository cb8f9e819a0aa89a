-------------------------- MODULE IdempotencyProofs --------------------------
(***************************************************************************)
(* Theorems about Idempotency, for every number of requests and bodies.    *)
(*                                                                         *)
(* Whatever fails, what is replayed has happened.  When the only thing     *)
(* that fails is the operation itself, it is done at most once and all     *)
(* answers agree: whoever has claimed the key is alone until the record    *)
(* says how it went.  (A process that dies, a Redis that fails or forgets, *)
(* and an operation that outlasts its claim may have it done again, as     *)
(* idempotency.py says.)                                                   *)
(***************************************************************************)
EXTENDS Idempotency, FiniteSetTheorems, TLAPS

-----------------------------------------------------------------------------
(* The inductive invariants.                                               *)

\* A request whose own operation has an outcome.
Settled == {"storing", "answered", "crashed"}

Real(r) ==
  LET answer == request[r].answer
  IN  /\ request[r].pc \in Settled
      /\ answer \in Answer
      /\ answer.of = r
      /\ answer.refused <=> r \notin committed

\* What is about to be stored is the outcome of the request's own operation.
StoredIsReal == \A r \in Requests : request[r].pc = "storing" => Real(r)

\* An answer that is of a request with this body.
IsOf(answer, body) ==
  /\ answer \in Answer
  /\ Real(answer.of)
  /\ request[answer.of].answer = answer
  /\ request[answer.of].body = body

RecordIsReal == record.state = "done" => IsOf(record.answer, record.body)

ReplayedIsReal ==
  \A r \in Requests : request[r].pc = "replayed" => IsOf(request[r].answer, request[r].body)

\* Before its operation is over, a request has not committed.
Before == {"idle", "claiming", "reading", "in_progress", "running", "unprotected"}

NotYet == \A r \in Requests : request[r].pc \in Before => r \notin committed

RealInv == TypeOK /\ NotYet /\ StoredIsReal /\ RecordIsReal /\ ReplayedIsReal

\* Whoever runs under a claim is alone, and the claim is still there.
OneClaim ==
  \A r \in Requests : request[r].pc \in Protected =>
    /\ record.state = "in_progress"
    /\ \A q \in Requests : request[q].pc \in Protected => q = r

NeverUnprotected == \A r \in Requests : request[r].pc \notin {"unprotected", "crashed"}

\* That the operation was done is about to be recorded, or has been.
CommittedIsKept ==
  committed # {} => record.state = "done" \/ \E r \in Requests : request[r].pc = "storing"

GivenIsRecorded ==
  \A r \in Requests : Given(r) => record.state = "done" /\ request[r].answer = record.answer

Single == \A r, q \in committed : r = q

OnceInv == TypeOK /\ OneClaim /\ NeverUnprotected /\ CommittedIsKept /\ GivenIsRecorded /\ Single

-----------------------------------------------------------------------------
(* Types.                                                                  *)

PC == {"idle", "claiming", "reading", "unprotected", "crashed"} \cup Protected
        \cup {"answered", "replayed", "failed", "in_progress", "reused"}

\* Moving a request on changes nothing but where it is.
LEMMA GotoStep ==
  ASSUME TypeOK, NEW r \in Requests, NEW pc \in PC, Goto(r, pc)
  PROVE  /\ request' \in [Requests -> Request]
         /\ \A q \in Requests :
              /\ request'[q].pc = IF q = r THEN pc ELSE request[q].pc
              /\ request'[q].body = request[q].body
              /\ request'[q].answer = request[q].answer
  <1>1. [request[r] EXCEPT !.pc = pc] \in Request
    BY DEF TypeOK, Request, PC
  <1>2. QED
    BY <1>1 DEF TypeOK, Goto, Request

\* What an operation leaves behind is an answer of the request that ran it.
LEMMA OutcomeStep ==
  ASSUME TypeOK, NEW r \in Requests, NEW refused \in BOOLEAN, Running(r), Outcome(r, refused)
  PROVE  /\ request' \in [Requests -> Request]
         /\ request'[r].pc = IF request[r].pc = "running" THEN "storing" ELSE "answered"
         /\ request'[r].body = request[r].body
         /\ request'[r].answer \in Answer
         /\ request'[r].answer.of = r /\ request'[r].answer.refused = refused
         /\ \A q \in Requests \ {r} : request'[q] = request[q]
  <1> DEFINE answer == [of |-> r, refused |-> refused]
             new(pc) == [request[r] EXCEPT !.pc = pc, !.answer = answer]
  <1>1. answer \in Answer
    BY DEF Answer
  <1>2. \A pc \in {"storing", "answered"} : new(pc) \in Request
    BY <1>1 DEF TypeOK, Request, Protected
  <1>3. request' = [request EXCEPT ![r] = new(IF request[r].pc = "running" THEN "storing" ELSE "answered")]
    BY DEF Outcome, TypeOK
  <1>4. QED
    BY <1>1, <1>2, <1>3 DEF TypeOK, Request

\* A request that hears of the record's answer keeps its own body.
LEMMA ReplayStep ==
  ASSUME TypeOK, NEW r \in Requests, Replay(r)
  PROVE  /\ request' \in [Requests -> Request]
         /\ request'[r].pc = "replayed" /\ request'[r].body = request[r].body
         /\ request'[r].answer = record.answer
         /\ \A q \in Requests \ {r} : request'[q] = request[q]
  <1>1. [request[r] EXCEPT !.pc = "replayed", !.answer = record.answer] \in Request
    BY DEF TypeOK, Request, Record
  <1>2. QED
    BY <1>1 DEF Replay, TypeOK, Request

\* Every record that is written is one.
LEMMA RecordTypes ==
  ASSUME TypeOK, NEW r \in Requests
  PROVE  NoRecord \in Record /\ InProgress(r) \in Record /\ Done(r) \in Record
  BY DEF TypeOK, Record, Request, NoRecord, InProgress, Done

\* The branches of a GET.
LEMMA ReadBranches ==
  ASSUME TypeOK, NEW r \in Requests, Read(r)
  PROVE  /\ request[r].pc = "reading" /\ UNCHANGED <<record, committed>>
         /\ \/ \E pc \in {"claiming", "reused", "in_progress"} : Goto(r, pc)
            \/ record.state = "done" /\ record.body = request[r].body /\ Replay(r)
  BY DEF Read, TypeOK, Record

\* Every Redis command and every operation leaves each variable in its type.
LEMMA TypeStep == TypeOK /\ [Next]_vars => TypeOK'
  <1> SUFFICES ASSUME TypeOK, [Next]_vars
               PROVE  TypeOK'
    OBVIOUS
  <1>1. ASSUME NEW r \in Requests, NEW body \in Bodies, Arrive(r, body)
        PROVE  TypeOK'
    <2>1. [request[r] EXCEPT !.pc = "claiming", !.body = body] \in Request
      BY DEF TypeOK, Request
    <2>2. QED
      BY <1>1, <2>1 DEF Arrive, TypeOK
  <1>2. ASSUME NEW r \in Requests, Claim(r) \/ ClaimFails(r) \/ Retry(r)
        PROVE  TypeOK'
    <2>1. \E pc \in {"running", "reading", "unprotected", "claiming"} : Goto(r, pc)
      BY <1>2 DEF Claim, ClaimFails, Retry
    <2>2. request' \in [Requests -> Request]
      BY <2>1, GotoStep DEF PC, Protected
    <2>3. record' \in {record, InProgress(r)} /\ UNCHANGED committed
      BY <1>2 DEF Claim, ClaimFails, Retry
    <2>4. QED
      BY <2>2, <2>3, RecordTypes DEF TypeOK
  <1>3. ASSUME NEW r \in Requests, Read(r)
        PROVE  TypeOK'
    <2>1. request' \in [Requests -> Request]
      BY <1>3, ReadBranches, GotoStep, ReplayStep DEF PC
    <2>2. QED
      BY <1>3, <2>1, ReadBranches DEF TypeOK
  <1>4. ASSUME NEW r \in Requests, Succeed(r) \/ Refuse(r)
        PROVE  TypeOK'
    <2>1. request' \in [Requests -> Request]
      BY <1>4, OutcomeStep DEF Succeed, Refuse
    <2>2. QED
      BY <1>4, <2>1 DEF Succeed, Refuse, Commits, TypeOK
  <1>5. ASSUME NEW r \in Requests, Fail(r)
        PROVE  TypeOK'
    <2>1. \E pc \in {"releasing", "failed"} : Goto(r, pc)
      BY <1>5 DEF Fail
    <2>2. request' \in [Requests -> Request]
      BY <2>1, GotoStep DEF PC, Protected
    <2>3. QED
      BY <1>5, <2>2 DEF Fail, Commits, TypeOK
  <1>6. ASSUME NEW r \in Requests, Store(r) \/ Release(r) \/ RecordFails(r) \/ Crash(r)
        PROVE  TypeOK'
    <2>1. \E pc \in {"answered", "failed", "crashed"} : Goto(r, pc)
      BY <1>6 DEF Store, Release, RecordFails, Crash
    <2>2. request' \in [Requests -> Request]
      BY <2>1, GotoStep DEF PC
    <2>3. record' \in {record, Done(r), NoRecord} /\ UNCHANGED committed
      BY <1>6 DEF Store, Release, RecordFails, Crash
    <2>4. QED
      BY <2>2, <2>3, RecordTypes DEF TypeOK
  <1>7. CASE ExpireClaim \/ ExpireAnswer \/ LoseRecord
    BY <1>7 DEF ExpireClaim, ExpireAnswer, LoseRecord, NoRecord, Record, TypeOK
  <1>8. CASE UNCHANGED vars
    BY <1>8 DEF vars, TypeOK
  <1>9. QED
    BY <1>1, <1>2, <1>3, <1>4, <1>5, <1>6, <1>7, <1>8 DEF Next, Goes, Operate

\* Every variable keeps its type, whatever fails.
THEOREM TypeCorrect == Spec => []TypeOK
  <1>1. Init => TypeOK
    BY DEF Init, TypeOK, NoRecord, Record, Request
  <1>2. QED
    BY <1>1, TypeStep, PTL DEF Spec

-----------------------------------------------------------------------------
(* What is replayed has happened.                                          *)

\* Whatever a request, or a fault that befalls it, may do.
Acts(r) == (\E b \in Bodies : Arrive(r, b)) \/ Goes(r) \/ ClaimFails(r) \/ RecordFails(r) \/ Crash(r)

\* What one request does, the others and whether they have committed do not notice.
LEMMA OthersKept ==
  ASSUME TypeOK, NEW q \in Requests, NEW r \in Requests, q # r, Acts(q)
  PROVE  request'[r] = request[r] /\ (r \in committed' <=> r \in committed)
  <1>1. CASE \E b \in Bodies : Arrive(q, b)
    BY <1>1 DEF Arrive, TypeOK
  <1>2. CASE Claim(q) \/ Retry(q) \/ Store(q) \/ Release(q) \/ ClaimFails(q) \/ RecordFails(q) \/ Crash(q)
    <2>1. UNCHANGED committed /\ \E pc \in PC : Goto(q, pc)
      BY <1>2 DEF Claim, Retry, Store, Release, ClaimFails, RecordFails, Crash, PC, Protected
    <2>2. QED
      BY <2>1 DEF Goto, TypeOK
  <1>3. CASE Read(q)
    <2>1. UNCHANGED committed /\ (Replay(q) \/ \E pc \in PC : Goto(q, pc))
      BY <1>3, ReadBranches DEF PC
    <2>2. QED
      BY <2>1 DEF Goto, Replay, TypeOK
  <1>4. CASE Succeed(q) \/ Refuse(q)
    <2>1. request'[r] = request[r]
      BY <1>4, OutcomeStep DEF Succeed, Refuse
    <2>2. QED
      BY <1>4, <2>1 DEF Succeed, Refuse, Commits
  <1>5. CASE Fail(q)
    <2>1. \E pc \in PC : Goto(q, pc)
      BY <1>5 DEF Fail, PC, Protected
    <2>2. request'[r] = request[r]
      BY <2>1 DEF Goto, TypeOK
    <2>3. QED
      BY <1>5, <2>2 DEF Fail, Commits
  <1>6. QED
    BY <1>1, <1>2, <1>3, <1>4, <1>5 DEF Acts, Goes, Operate

\* An outcome is final: neither another request, nor what the request itself still does, changes
\* it, and nobody takes the request's body or its commit back.
LEMMA OutcomeIsFinal ==
  ASSUME TypeOK, [Next]_vars, NEW r \in Requests, Real(r)
  PROVE  Real(r)' /\ request'[r].answer = request[r].answer /\ request'[r].body = request[r].body
  <1>1. ASSUME NEW q \in Requests, q # r, Acts(q)
        PROVE  Real(r)' /\ request'[r].answer = request[r].answer /\ request'[r].body = request[r].body
    BY <1>1, OthersKept DEF Real
  <1>2. ASSUME Acts(r)
        PROVE  Real(r)' /\ request'[r].answer = request[r].answer /\ request'[r].body = request[r].body
    <2>1. request[r].pc \in Settled
      BY DEF Real
    <2>2. Store(r) \/ RecordFails(r) \/ Crash(r)
      BY <1>2, <2>1 DEF Settled, Acts, Arrive, Goes, Claim, Read, Retry, Operate, Succeed, Refuse, Fail, Running,
                        Release, ClaimFails
    <2>3. UNCHANGED committed /\ \E pc \in {"answered", "crashed"} : Goto(r, pc)
      BY <2>1, <2>2 DEF Settled, Store, RecordFails, Crash
    <2>4. QED
      BY <2>3, GotoStep DEF PC, Real, Settled
  <1>3. CASE ExpireClaim \/ ExpireAnswer \/ LoseRecord \/ UNCHANGED vars
    BY <1>3 DEF ExpireClaim, ExpireAnswer, LoseRecord, vars, Real
  <1>4. QED
    BY <1>1, <1>2, <1>3 DEF Next, Acts

\* What is an answer of a request stays one.
LEMMA IsOfKept ==
  ASSUME TypeOK, [Next]_vars, NEW answer, NEW body, IsOf(answer, body)
  PROVE  IsOf(answer, body)'
  <1>1. answer.of \in Requests
    BY DEF IsOf, Answer
  <1>2. QED
    BY <1>1, OutcomeIsFinal DEF IsOf

\* Where a request goes when it does not answer: the steps that say nothing of an outcome.
LEMMA PlainSteps ==
  ASSUME TypeOK, NEW r \in Requests, Acts(r)
  PROVE  \/ Succeed(r) \/ Refuse(r)
         \/ record.state = "done" /\ record.body = request[r].body /\ Replay(r)
         \/ /\ request[r].pc # "replayed"
            /\ request'[r].pc \notin {"storing", "replayed"}
  <1>1. CASE \E b \in Bodies : Arrive(r, b)
    BY <1>1 DEF Arrive, TypeOK, Request
  <1>2. CASE Claim(r) \/ Retry(r) \/ Store(r) \/ Release(r) \/ ClaimFails(r) \/ RecordFails(r)
             \/ Crash(r) \/ Fail(r)
    <2>1. request[r].pc # "replayed" /\ \E pc \in PC \ {"storing", "replayed"} : Goto(r, pc)
      BY <1>2 DEF Claim, Retry, Store, Release, ClaimFails, RecordFails, Crash, Fail, Running, PC, Protected
    <2>2. QED
      BY <2>1, GotoStep
  <1>3. CASE Read(r)
    <2>1. CASE \E pc \in {"claiming", "reused", "in_progress"} : Goto(r, pc)
      BY <1>3, <2>1, ReadBranches, GotoStep DEF PC
    <2>2. QED
      BY <1>3, <2>1, ReadBranches
  <1>4. QED
    BY <1>1, <1>2, <1>3 DEF Acts, Goes, Operate

\* A step is a request's or the clock's; a request is moved only by itself.
LEMMA OwnSteps ==
  ASSUME TypeOK, [Next]_vars, NEW r \in Requests, request'[r] # request[r]
  PROVE  Acts(r)
  <1>1. ASSUME NEW q \in Requests, Acts(q), q # r
        PROVE  FALSE
    BY <1>1, OthersKept
  <1>2. CASE ExpireClaim \/ ExpireAnswer \/ LoseRecord \/ UNCHANGED vars
    BY <1>2 DEF ExpireClaim, ExpireAnswer, LoseRecord, vars
  <1>3. QED
    BY <1>1, <1>2 DEF Next, Acts

\* A request comes to store an answer, or to replay one, in no other way, and a replay is final.
LEMMA EntersStoring ==
  ASSUME TypeOK, [Next]_vars, NEW r \in Requests,
         request[r].pc # "storing", request'[r].pc = "storing"
  PROVE  Succeed(r) \/ Refuse(r)
  <1>1. Acts(r)
    BY OwnSteps
  <1>2. ~Replay(r)
    BY ReplayStep
  <1>3. QED
    BY <1>1, <1>2, PlainSteps

LEMMA EntersReplayed ==
  ASSUME TypeOK, [Next]_vars, NEW r \in Requests,
         request[r].pc # "replayed", request'[r].pc = "replayed"
  PROVE  record.state = "done" /\ record.body = request[r].body /\ Replay(r)
  <1>1. Acts(r)
    BY OwnSteps
  <1>2. ~(Succeed(r) \/ Refuse(r))
    BY OutcomeStep DEF Succeed, Refuse
  <1>3. QED
    BY <1>1, <1>2, PlainSteps

LEMMA ReplayIsFinal ==
  ASSUME TypeOK, [Next]_vars, NEW r \in Requests, request[r].pc = "replayed"
  PROVE  request'[r] = request[r]
  BY OwnSteps DEF Acts, Arrive, Goes, Claim, Read, Retry, Operate, Succeed, Refuse, Fail, Running, Store,
                  Release, ClaimFails, RecordFails, Crash, Protected

\* A request whose operation is not over has not begun another.
LEMMA StaysBefore ==
  ASSUME TypeOK, [Next]_vars, NEW r \in Requests, request'[r].pc \in Before
  PROVE  request[r].pc \in Before /\ (r \in committed' <=> r \in committed)
  <1>1. ASSUME Acts(r)
        PROVE  request[r].pc \in Before /\ UNCHANGED committed
    <2>1. CASE (\E b \in Bodies : Arrive(r, b)) \/ Claim(r) \/ Retry(r) \/ Read(r) \/ ClaimFails(r)
      BY <2>1 DEF Arrive, Claim, Retry, Read, ClaimFails, Before
    <2>2. CASE Succeed(r) \/ Refuse(r)
      BY <2>2, OutcomeStep DEF Succeed, Refuse, Before
    <2>3. CASE Store(r) \/ Release(r) \/ RecordFails(r) \/ Crash(r) \/ Fail(r)
      <3>1. \E pc \in PC \ Before : Goto(r, pc)
        BY <2>3 DEF Store, Release, RecordFails, Crash, Fail, PC, Protected, Before
      <3>2. QED
        BY <3>1, GotoStep
    <2>4. QED
      BY <1>1, <2>1, <2>2, <2>3 DEF Acts, Goes, Operate
  <1>2. ASSUME NEW q \in Requests, Acts(q), q # r
        PROVE  request[r].pc \in Before /\ (r \in committed' <=> r \in committed)
    BY <1>2, OthersKept
  <1>3. CASE ExpireClaim \/ ExpireAnswer \/ LoseRecord \/ UNCHANGED vars
    BY <1>3 DEF ExpireClaim, ExpireAnswer, LoseRecord, vars
  <1>4. QED
    BY <1>1, <1>2, <1>3 DEF Next, Acts

\* Only an answer's own request writes it into the record.
LEMMA WritesAnswer ==
  ASSUME TypeOK, [Next]_vars, record' # record, record'.state = "done"
  PROVE  \E r \in Requests : Store(r)
  <1>1. ASSUME NEW r \in Requests, Acts(r)
        PROVE  Store(r)
    <2>1. ~(Claim(r) \/ ClaimFails(r) \/ Release(r))
      <3>1. InProgress(r).state # "done" /\ NoRecord.state # "done"
        BY DEF InProgress, NoRecord
      <3>2. QED
        BY <3>1 DEF Claim, ClaimFails, Release
    <2>2. ~((\E b \in Bodies : Arrive(r, b)) \/ Read(r) \/ Retry(r) \/ RecordFails(r) \/ Crash(r))
      BY DEF Arrive, Read, Retry, RecordFails, Crash
    <2>3. ~Operate(r)
      BY DEF Operate, Succeed, Refuse, Fail
    <2>4. QED
      BY <1>1, <2>1, <2>2, <2>3 DEF Acts, Goes
  <1>2. ~(ExpireClaim \/ ExpireAnswer \/ LoseRecord \/ UNCHANGED vars)
    BY DEF ExpireClaim, ExpireAnswer, LoseRecord, vars, NoRecord
  <1>3. QED
    BY <1>1, <1>2 DEF Next, Acts

\* Whatever fails, no step stores, keeps or replays an answer that nobody was given.
LEMMA RealStep == RealInv /\ [Next]_vars => RealInv'
  <1> SUFFICES ASSUME RealInv, [Next]_vars
               PROVE  RealInv'
    OBVIOUS
  <1>0. TypeOK /\ TypeOK'
    BY TypeStep DEF RealInv
  <1>1. StoredIsReal'
    <2> SUFFICES ASSUME NEW r \in Requests, request'[r].pc = "storing"
                 PROVE  Real(r)'
      BY DEF StoredIsReal
    <2>1. CASE request[r].pc = "storing"
      BY <1>0, <2>1, OutcomeIsFinal DEF RealInv, StoredIsReal
    <2>2. CASE request[r].pc # "storing"
      <3>1. Succeed(r) \/ Refuse(r)
        BY <1>0, <2>2, EntersStoring
      <3>2. r \notin committed
        BY <3>1 DEF RealInv, NotYet, Before, Succeed, Refuse, Running
      <3>3. CASE Succeed(r)
        BY <1>0, <3>3, OutcomeStep DEF Succeed, Commits, Real, Settled
      <3>4. CASE Refuse(r)
        BY <1>0, <3>2, <3>4, OutcomeStep DEF Refuse, Real, Settled
      <3>5. QED
        BY <3>1, <3>3, <3>4
    <2>3. QED
      BY <2>1, <2>2
  <1>2. RecordIsReal'
    <2> SUFFICES ASSUME record'.state = "done"
                 PROVE  IsOf(record.answer, record.body)'
      BY DEF RecordIsReal
    <2>1. CASE record' = record
      <3>1. IsOf(record.answer, record.body)
        BY <2>1 DEF RealInv, RecordIsReal
      <3>2. QED
        BY <1>0, <2>1, <3>1, IsOfKept DEF IsOf
    <2>2. CASE record' # record
      <3>1. PICK r \in Requests : Store(r)
        BY <1>0, <2>2, WritesAnswer
      <3>2. Real(r)
        BY <3>1 DEF RealInv, StoredIsReal, Store
      <3>3. record'.answer = request[r].answer /\ record'.body = request[r].body
        BY <3>1 DEF Store, Done
      <3>4. QED
        BY <1>0, <3>2, <3>3, OutcomeIsFinal DEF IsOf, Real
    <2>3. QED
      BY <2>1, <2>2
  <1>3. ReplayedIsReal'
    <2> SUFFICES ASSUME NEW r \in Requests, request'[r].pc = "replayed"
                 PROVE  IsOf(request[r].answer, request[r].body)'
      BY DEF ReplayedIsReal
    <2>1. CASE request[r].pc = "replayed"
      <3>1. request'[r] = request[r]
        BY <1>0, <2>1, ReplayIsFinal
      <3>2. IsOf(request[r].answer, request[r].body)
        BY <2>1 DEF RealInv, ReplayedIsReal
      <3>3. QED
        BY <1>0, <3>1, <3>2, IsOfKept DEF IsOf
    <2>2. CASE request[r].pc # "replayed"
      <3>1. record.state = "done" /\ record.body = request[r].body /\ Replay(r)
        BY <1>0, <2>2, EntersReplayed
      <3>2. IsOf(record.answer, record.body)
        BY <3>1 DEF RealInv, RecordIsReal
      <3>3. request'[r].answer = record.answer /\ request'[r].body = record.body
        BY <1>0, <3>1, ReplayStep
      <3>4. QED
        BY <1>0, <3>2, <3>3, IsOfKept DEF IsOf
    <2>3. QED
      BY <2>1, <2>2
  <1>4. NotYet'
    <2> SUFFICES ASSUME NEW r \in Requests, request'[r].pc \in Before
                 PROVE  r \notin committed'
      BY DEF NotYet
    <2>1. request[r].pc \in Before /\ (r \in committed' <=> r \in committed)
      BY <1>0, StaysBefore
    <2>2. QED
      BY <2>1 DEF RealInv, NotYet
  <1>5. QED
    BY <1>0, <1>1, <1>2, <1>3, <1>4 DEF RealInv

\* "... answer every retry the same way": whatever fails, an answer that is replayed was the
\* outcome of an operation that was done or refused as it says, and that was asked for with the
\* body the retry has sent.
THEOREM Replays == ASSUME ConstantsOK PROVE Spec => []ReplayIsReal
  <1>1. Init => RealInv
    BY DEF Init, RealInv, TypeOK, NoRecord, Record, Request, NotYet, StoredIsReal, RecordIsReal,
           ReplayedIsReal
  <1>2. RealInv => ReplayIsReal
    <2> SUFFICES ASSUME RealInv, NEW r \in Requests, request[r].pc = "replayed"
                 PROVE  LET answer == request[r].answer
                        IN  /\ answer # Nothing
                            /\ answer.refused <=> answer.of \notin committed
                            /\ request[answer.of].answer = answer
                            /\ request[answer.of].body = request[r].body
      BY DEF ReplayIsReal
    <2>1. IsOf(request[r].answer, request[r].body)
      BY DEF RealInv, ReplayedIsReal
    <2>2. request[r].answer # Nothing
      BY <2>1 DEF IsOf, ConstantsOK
    <2>3. QED
      BY <2>1, <2>2 DEF IsOf, Real
  <1>3. QED
    BY <1>1, <1>2, RealStep, PTL DEF Spec

-----------------------------------------------------------------------------
(* The operation is done once, and all answers agree.                      *)

\* Processes live, Redis answers and remembers, and no operation outlasts its claim.
OnlyFails == Faults \subseteq {"fails"}

\* While a request runs under its claim, nobody else does, nobody has been answered, and until it
\* is over nothing has been committed.
LEMMA Alone ==
  ASSUME OnceInv, NEW r \in Requests, request[r].pc \in Protected
  PROVE  /\ record.state = "in_progress"
         /\ \A q \in Requests \ {r} : request[q].pc \notin Protected
         /\ \A q \in Requests : ~Given(q)
         /\ request[r].pc # "storing" => committed = {}
  <1>1. record.state = "in_progress" /\ \A q \in Requests \ {r} : request[q].pc \notin Protected
    BY DEF OnceInv, OneClaim
  <1>2. \A q \in Requests : ~Given(q)
    BY <1>1 DEF OnceInv, GivenIsRecorded
  <1>3. request[r].pc # "storing" => committed = {}
    BY <1>1 DEF OnceInv, CommittedIsKept, Protected
  <1>4. QED
    BY <1>1, <1>2, <1>3

\* Arriving, waiting and being told of a record leave the record and what is done alone.
LEMMA Waits ==
  ASSUME OnceInv, TypeOK', UNCHANGED <<record, committed>>, NEW r \in Requests,
         request[r].pc \notin Protected,
         \A q \in Requests \ {r} : request'[q] = request[q],
         request'[r].pc \notin Protected \cup {"unprotected", "crashed", "answered"},
         request'[r].pc = "replayed" => record.state = "done" /\ request'[r].answer = record.answer
  PROVE  OnceInv'
  <1>1. OneClaim' /\ NeverUnprotected'
    BY DEF OnceInv, OneClaim, NeverUnprotected
  <1>2. CommittedIsKept'
    BY DEF OnceInv, CommittedIsKept, Protected
  <1>3. GivenIsRecorded' /\ Single'
    BY DEF OnceInv, GivenIsRecorded, Given, Single
  <1>4. QED
    BY <1>1, <1>2, <1>3 DEF OnceInv

LEMMA OnceStep ==
  ASSUME OnlyFails
  PROVE  OnceInv /\ [Next]_vars => OnceInv'
  <1> SUFFICES ASSUME OnceInv, [Next]_vars
               PROVE  OnceInv'
    OBVIOUS
  <1>0. TypeOK /\ TypeOK'
    BY TypeStep DEF OnceInv
  <1>1. ASSUME NEW r \in Requests, NEW body \in Bodies, Arrive(r, body)
        PROVE  OnceInv'
    <2>1. /\ request[r].pc = "idle" /\ request'[r].pc = "claiming"
          /\ \A q \in Requests \ {r} : request'[q] = request[q]
      BY <1>0, <1>1 DEF Arrive, TypeOK, Request
    <2>2. QED
      BY <1>0, <1>1, <2>1, Waits DEF Arrive, Protected
  <1>2. ASSUME NEW r \in Requests, Claim(r)
        PROVE  OnceInv'
    <2>1. CASE record.state # "absent"
      <3>1. request[r].pc = "claiming" /\ Goto(r, "reading") /\ UNCHANGED <<record, committed>>
        BY <1>2, <2>1 DEF Claim
      <3>2. /\ request'[r].pc = "reading" /\ \A q \in Requests \ {r} : request'[q] = request[q]
        BY <1>0, <3>1 DEF Goto, TypeOK, Request
      <3>3. QED
        BY <1>0, <3>1, <3>2, Waits DEF Protected
    <2>2. CASE record.state = "absent"
      <3>1. Goto(r, "running") /\ record' = InProgress(r) /\ UNCHANGED committed
        BY <1>2, <2>2 DEF Claim
      <3>2. request'[r].pc = "running" /\ \A q \in Requests \ {r} : request'[q] = request[q]
        BY <1>0, <3>1 DEF Goto, TypeOK, Request
      <3>3. \A q \in Requests : request[q].pc \notin Protected /\ ~Given(q)
        BY <2>2 DEF OnceInv, OneClaim, GivenIsRecorded
      <3>4. committed = {}
        BY <2>2, <3>3 DEF OnceInv, CommittedIsKept, Protected
      <3>5. OneClaim' /\ NeverUnprotected'
        BY <3>1, <3>2, <3>3 DEF OnceInv, OneClaim, NeverUnprotected, InProgress
      <3>6. CommittedIsKept' /\ Single'
        BY <3>1, <3>4 DEF CommittedIsKept, Single
      <3>7. GivenIsRecorded'
        BY <3>2, <3>3 DEF GivenIsRecorded, Given
      <3>8. QED
        BY <1>0, <3>5, <3>6, <3>7 DEF OnceInv
    <2>3. QED
      BY <2>1, <2>2
  <1>3. ASSUME NEW r \in Requests, Read(r)
        PROVE  OnceInv'
    <2>1. request[r].pc = "reading" /\ UNCHANGED <<record, committed>>
      BY <1>0, <1>3, ReadBranches
    <2>2. CASE \E pc \in {"claiming", "reused", "in_progress"} : Goto(r, pc)
      <3>1. /\ request'[r].pc \in {"claiming", "reused", "in_progress"}
            /\ \A q \in Requests \ {r} : request'[q] = request[q]
        BY <1>0, <2>2 DEF Goto, TypeOK, Request
      <3>2. QED
        BY <1>0, <2>1, <3>1, Waits DEF Protected
    <2>3. CASE record.state = "done" /\ Replay(r)
      BY <1>0, <2>1, <2>3, ReplayStep, Waits DEF Protected
    <2>4. QED
      BY <1>0, <1>3, <2>2, <2>3, ReadBranches
  <1>4. ASSUME NEW r \in Requests, Retry(r)
        PROVE  OnceInv'
    <2>1. /\ request'[r].pc = "claiming"
          /\ \A q \in Requests \ {r} : request'[q] = request[q]
      BY <1>0, <1>4 DEF Retry, Goto, TypeOK, Request
    <2>2. QED
      BY <1>0, <1>4, <2>1, Waits DEF Retry, Protected
  <1>5. ASSUME NEW r \in Requests, Succeed(r) \/ Refuse(r)
        PROVE  OnceInv'
    <2>1. request[r].pc = "running"
      BY <1>5 DEF OnceInv, NeverUnprotected, Succeed, Refuse, Running
    <2>2. request'[r].pc = "storing" /\ \A q \in Requests \ {r} : request'[q] = request[q]
      BY <1>0, <1>5, <2>1, OutcomeStep DEF Succeed, Refuse
    <2>3. /\ record.state = "in_progress" /\ record' = record
          /\ \A q \in Requests \ {r} : request[q].pc \notin Protected
          /\ \A q \in Requests : ~Given(q)
          /\ committed = {}
      BY <1>5, <2>1, Alone DEF Protected, Succeed, Refuse
    <2>4. OneClaim' /\ NeverUnprotected'
      BY <2>2, <2>3 DEF OnceInv, OneClaim, NeverUnprotected
    <2>5. CommittedIsKept'
      BY <2>2 DEF CommittedIsKept
    <2>6. GivenIsRecorded'
      BY <2>2, <2>3 DEF GivenIsRecorded, Given
    <2>7. Single'
      BY <1>5, <2>3 DEF Succeed, Refuse, Commits, Single
    <2>8. QED
      BY <1>0, <2>4, <2>5, <2>6, <2>7 DEF OnceInv
  <1>6. ASSUME NEW r \in Requests, Fail(r)
        PROVE  OnceInv'
    <2>1. request[r].pc = "running" /\ Goto(r, "releasing") /\ UNCHANGED <<record, committed>>
      BY <1>6 DEF OnceInv, NeverUnprotected, Fail, Running, OnlyFails
    <2>2. request'[r].pc = "releasing" /\ \A q \in Requests \ {r} : request'[q] = request[q]
      BY <1>0, <2>1 DEF Goto, TypeOK, Request
    <2>3. /\ record.state = "in_progress"
          /\ \A q \in Requests \ {r} : request[q].pc \notin Protected
          /\ \A q \in Requests : ~Given(q)
          /\ committed = {}
      BY <2>1, Alone DEF Protected
    <2>4. OneClaim' /\ NeverUnprotected'
      BY <2>1, <2>2, <2>3 DEF OnceInv, OneClaim, NeverUnprotected
    <2>5. CommittedIsKept' /\ Single'
      BY <2>1, <2>3 DEF CommittedIsKept, Single
    <2>6. GivenIsRecorded'
      BY <2>2, <2>3 DEF GivenIsRecorded, Given
    <2>7. QED
      BY <1>0, <2>4, <2>5, <2>6 DEF OnceInv
  <1>7. ASSUME NEW r \in Requests, Store(r)
        PROVE  OnceInv'
    <2>1. /\ request[r].pc = "storing" /\ record' = Done(r) /\ Goto(r, "answered")
          /\ UNCHANGED committed
      BY <1>7 DEF Store
    <2>2. /\ request'[r].pc = "answered" /\ request'[r].answer = request[r].answer
          /\ \A q \in Requests \ {r} : request'[q] = request[q]
      BY <1>0, <2>1 DEF Goto, TypeOK, Request
    <2>3. /\ \A q \in Requests \ {r} : request[q].pc \notin Protected
          /\ \A q \in Requests : ~Given(q)
      BY <2>1, Alone DEF Protected
    <2>4. record'.state = "done" /\ record'.answer = request[r].answer
      BY <2>1 DEF Done
    <2>5. OneClaim' /\ NeverUnprotected'
      BY <2>2, <2>3 DEF OnceInv, OneClaim, NeverUnprotected, Protected
    <2>6. CommittedIsKept' /\ Single'
      BY <2>1, <2>4 DEF OnceInv, CommittedIsKept, Single
    <2>7. GivenIsRecorded'
      BY <2>2, <2>3, <2>4 DEF GivenIsRecorded, Given
    <2>8. QED
      BY <1>0, <2>5, <2>6, <2>7 DEF OnceInv
  <1>8. ASSUME NEW r \in Requests, Release(r)
        PROVE  OnceInv'
    <2>1. /\ request[r].pc = "releasing" /\ Goto(r, "failed") /\ UNCHANGED committed
      BY <1>8 DEF Release
    <2>2. request'[r].pc = "failed" /\ \A q \in Requests \ {r} : request'[q] = request[q]
      BY <1>0, <2>1 DEF Goto, TypeOK, Request
    <2>3. /\ \A q \in Requests \ {r} : request[q].pc \notin Protected
          /\ \A q \in Requests : ~Given(q)
          /\ committed = {}
      BY <2>1, Alone DEF Protected
    <2>4. OneClaim' /\ NeverUnprotected'
      BY <2>2, <2>3 DEF OnceInv, OneClaim, NeverUnprotected, Protected
    <2>5. CommittedIsKept' /\ Single' /\ GivenIsRecorded'
      BY <2>1, <2>2, <2>3 DEF CommittedIsKept, Single, GivenIsRecorded, Given
    <2>6. QED
      BY <1>0, <2>4, <2>5 DEF OnceInv
  <1>9. CASE ExpireClaim
    <2>1. /\ record.state = "in_progress" /\ UNCHANGED <<request, committed>>
          /\ \A r \in Requests : request[r].pc \notin Protected
      BY <1>9 DEF ExpireClaim, OnlyFails
    <2>2. committed = {} /\ \A r \in Requests : ~Given(r)
      BY <2>1 DEF OnceInv, CommittedIsKept, GivenIsRecorded, Protected
    <2>3. OneClaim' /\ NeverUnprotected'
      BY <2>1 DEF OnceInv, OneClaim, NeverUnprotected
    <2>4. CommittedIsKept' /\ Single' /\ GivenIsRecorded'
      BY <2>1, <2>2 DEF CommittedIsKept, Single, GivenIsRecorded, Given
    <2>5. QED
      BY <1>0, <2>3, <2>4 DEF OnceInv
  <1>10. CASE UNCHANGED vars
    BY <1>10 DEF vars, OnceInv, TypeOK, OneClaim, NeverUnprotected, CommittedIsKept, GivenIsRecorded, Given, Single
  <1>11. \A r \in Requests : ~(ClaimFails(r) \/ RecordFails(r) \/ Crash(r))
    BY DEF OnlyFails, ClaimFails, RecordFails, Crash
  <1>12. ~(ExpireAnswer \/ LoseRecord)
    BY DEF OnlyFails, ExpireAnswer, LoseRecord
  <1>13. QED
    BY <1>1, <1>2, <1>3, <1>4, <1>5, <1>6, <1>7, <1>8, <1>9, <1>10, <1>11, <1>12 DEF Next, Goes, Operate

\* Two requests are never both done.
LEMMA AtMostOneMember ==
  ASSUME NEW S, \A a, b \in S : a = b
  PROVE  Cardinality(S) <= 1
  <1>1. CASE S = {}
    BY <1>1, FS_EmptySet
  <1>2. CASE S # {}
    <2>1. PICK a \in S : S = {a}
      BY <1>2
    <2>2. QED
      BY <2>1, FS_Singleton
  <1>3. QED
    BY <1>1, <1>2

\* "Run operation at most once per key and owner, and answer every retry the same way": however
\* many requests with one key race, and however often the operation fails in between, it commits
\* at most once, and whoever is answered is told the same.
THEOREM Once == ASSUME ConstantsOK, OnlyFails PROVE Spec => [](AtMostOnce /\ AnswersAgree)
  <1>1. Init => OnceInv
    BY DEF Init, OnceInv, TypeOK, NoRecord, Record, Request, OneClaim, NeverUnprotected, CommittedIsKept,
           GivenIsRecorded, Given, Single, Protected
  <1>2. OnceInv => AtMostOnce /\ AnswersAgree
    BY AtMostOneMember DEF OnceInv, Single, AtMostOnce, AnswersAgree, GivenIsRecorded
  <1>3. QED
    BY <1>1, <1>2, OnceStep, PTL DEF Spec
=============================================================================
