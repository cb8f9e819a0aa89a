-------------------------- MODULE ApplicationsProofs --------------------------
(***************************************************************************)
(* Theorems about Applications, for any jobs, candidates, requests, terms  *)
(* and profiles.                                                           *)
(*                                                                         *)
(* What makes apply_to_job safe is who holds which row lock: the job's     *)
(* from the moment its status is read, the candidate's from the moment     *)
(* their years are, both until the insert commits.  Whoever else could     *)
(* change what was checked needs one of the two, so it is still true when  *)
(* the application is inserted; and so are the two counts, which only      *)
(* another insert could raise.                                             *)
(***************************************************************************)
EXTENDS Applications, FiniteSetTheorems, TLAPS

-----------------------------------------------------------------------------
(* The inductive invariant.                                                *)

\* Where an application that is being made holds both locks; where it holds the job's.
Counting == {"count_active", "count_job", "insert"}
HasJob == {"lock_candidate"} \cup Counting
Applying == {"lock_job"} \cup HasJob

CallsFit ==
  \A r \in Requests :
    /\ request[r].pc # "idle" => request[r].call \in Calls
    /\ request[r].pc \in Applying => request[r].call.op = "apply"
    /\ request[r].pc = "lock_application" => request[r].call.op # "apply"

TypeInv == TypeOK /\ CallsFit

LocksHeld ==
  \A r \in Requests :
    /\ request[r].pc \in HasJob => jobLock[JobOf(r)] = r
    /\ request[r].pc \in Counting => candidateLock[CandidateOf(r)] = r

\* What has been checked of the job and of the candidate.
Fits(r) ==
  /\ status[JobOf(r)] = "published"
  /\ profile[CandidateOf(r)].years_experience >= terms[JobOf(r)].min_experience_years

Admitted == \A r \in Requests : request[r].pc \in Counting => Fits(r)

CountsFinite ==
  /\ \A j \in Jobs : IsFiniteSet(Received(j))
  /\ \A c \in Candidates : IsFiniteSet(Active(c))

\* What has been counted.
UnderLimit ==
  \A r \in Requests :
    request[r].pc \in {"count_job", "insert"} => Cardinality(Active(CandidateOf(r))) < MaxActive

UnderCap == \A r \in Requests : request[r].pc = "insert" => ~CapReached(JobOf(r))

RulesInv ==
  TypeInv /\ LocksHeld /\ Admitted /\ CountsFinite /\ UnderLimit /\ UnderCap /\ ActiveWithinLimit

\* The history's own invariant.
HistoryInv == TypeInv /\ HistoryMatchesStage

-----------------------------------------------------------------------------
(* How a request goes on.                                                  *)

PC == {"idle"} \cup Waiting \cup Answer

Request == [ pc : PC, call : Calls \cup {Null}, began : Nat, loaded : Stage \cup {NotApplied, Null} ]

\* Moving a request on changes nothing but where it is.
LEMMA GotoStep ==
  ASSUME TypeOK, NEW r \in Requests, NEW pc \in PC, Goto(r, pc)
  PROVE  /\ request' \in [Requests -> Request]
         /\ \A q \in Requests :
              /\ request'[q].pc = IF q = r THEN pc ELSE request[q].pc
              /\ request'[q].call = request[q].call
              /\ request'[q].began = request[q].began
              /\ JobOf(q)' = JobOf(q) /\ CandidateOf(q)' = CandidateOf(q)
  <1>0. request \in [Requests -> Request]
    BY DEF TypeOK, Request, PC
  <1>1. [request[r] EXCEPT !.pc = pc] \in Request
    BY <1>0 DEF Request
  <1>2. request' \in [Requests -> Request] /\ request'[r] = [request[r] EXCEPT !.pc = pc]
    BY <1>0, <1>1 DEF Goto
  <1>3. \A q \in Requests \ {r} : request'[q] = request[q]
    BY <1>0 DEF Goto
  <1>4. \A q \in Requests :
              /\ request'[q].pc = IF q = r THEN pc ELSE request[q].pc
              /\ request'[q].call = request[q].call
              /\ request'[q].began = request[q].began
    BY <1>0, <1>2, <1>3 DEF Request
  <1>5. QED
    BY <1>2, <1>4 DEF JobOf, CandidateOf

\* The end of a transaction answers its request and releases what it had locked.
LEMMA EndTransactionStep ==
  ASSUME TypeOK, NEW r \in Requests, NEW answer \in Answer, EndTransaction(r, answer)
  PROVE  /\ request' \in [Requests -> Request]
         /\ jobLock' \in [Jobs -> Requests \cup {Free}]
         /\ candidateLock' \in [Candidates -> Requests \cup {Free}]
         /\ \A q \in Requests :
              /\ request'[q].pc = IF q = r THEN answer ELSE request[q].pc
              /\ request'[q].call = request[q].call
              /\ JobOf(q)' = JobOf(q) /\ CandidateOf(q)' = CandidateOf(q)
         /\ \A j \in Jobs : jobLock'[j] = IF jobLock[j] = r THEN Free ELSE jobLock[j]
         /\ \A c \in Candidates :
              candidateLock'[c] = IF candidateLock[c] = r THEN Free ELSE candidateLock[c]
  <1>1. Goto(r, answer)
    BY DEF EndTransaction
  <1>2. QED
    BY <1>1, GotoStep DEF EndTransaction, TypeOK, PC

\* A transaction begins with its call, and with no lock.
LEMMA BeginStep ==
  ASSUME TypeOK, NEW r \in Requests, NEW call \in Calls, ConstantsOK, Begin(r, call)
  PROVE  /\ request' \in [Requests -> Request]
         /\ request[r].pc = "idle" /\ request'[r].call = call
         /\ request'[r].pc = IF call.op = "apply" THEN "lock_job" ELSE "lock_application"
         /\ \A q \in Requests \ {r} : request'[q] = request[q]
         /\ UNCHANGED <<rows, locks>> /\ clock' \in Nat
  <1> DEFINE a == <<call.job, call.candidate>>
             x == [ pc     |-> IF call.op = "apply" THEN "lock_job" ELSE "lock_application",
                    call   |-> call,
                    began  |-> clock,
                    loaded |-> IF call.op = "withdraw" THEN stage[a] ELSE Null ]
  <1>1. a \in Jobs \X Candidates
    BY DEF ConstantsOK, Call
  <1>2. stage[a] \in Stage \cup {NotApplied}
    BY <1>1 DEF TypeOK
  <1>3. x \in Request
    BY <1>2 DEF Request, PC, Waiting, TypeOK
  <1>4. request' = [request EXCEPT ![r] = x] /\ request[r].pc = "idle"
    BY DEF Begin
  <1>5. UNCHANGED <<rows, locks>> /\ clock' \in Nat
    BY DEF Begin, TypeOK
  <1> HIDE DEF a
  <1>6. QED
    BY <1>3, <1>4, <1>5 DEF TypeOK, Request, PC

\* What a request that has begun is about.
LEMMA CallTypes ==
  ASSUME ConstantsOK, TypeInv, NEW r \in Requests, request[r].pc # "idle"
  PROVE  /\ request[r].call \in Calls
         /\ JobOf(r) \in Jobs /\ CandidateOf(r) \in Candidates /\ ApplicationOf(r) \in Jobs \X Candidates
         /\ request[r].pc = "lock_application" => Target(r) \in Stage
  <1>1. request[r].call \in Call
    BY DEF ConstantsOK, TypeInv, CallsFit
  <1>2. JobOf(r) \in Jobs /\ CandidateOf(r) \in Candidates
    BY <1>1 DEF Call, JobOf, CandidateOf
  <1>3. ASSUME request[r].pc = "lock_application"
        PROVE  Target(r) \in Stage
    <2>1. request[r].call.op # "apply"
      BY <1>3 DEF TypeInv, CallsFit
    <2>2. CASE request[r].call.op = "withdraw"
      BY <2>2 DEF Target, Stage
    <2>3. CASE request[r].call.op # "withdraw"
      BY <1>1, <2>1, <2>3 DEF Target, Call
    <2>4. QED
      BY <2>2, <2>3
  <1>4. QED
    BY <1>2, <1>3 DEF ApplicationOf, TypeInv, CallsFit

\* A statement of a request's transaction ends it, or moves it on: locking one more row, or none.
Ends(r) == \E answer \in Answer : EndTransaction(r, answer)

LEMMA StepBranches ==
  ASSUME ConstantsOK, TypeInv, NEW r \in Requests, Step(r)
  PROVE  /\ request[r].pc \in Waiting /\ UNCHANGED <<status, terms, profile, clock>>
         /\ \/ UNCHANGED rows /\ Ends(r)
            \/ /\ request[r].pc = "lock_job" /\ jobLock[JobOf(r)] = Free
               /\ jobLock' = [jobLock EXCEPT ![JobOf(r)] = r]
               /\ Goto(r, "lock_candidate") /\ UNCHANGED <<rows, candidateLock>>
            \/ /\ request[r].pc = "lock_candidate" /\ candidateLock[CandidateOf(r)] = Free
               /\ status[JobOf(r)] = "published" /\ Eligible(JobOf(r), CandidateOf(r))
               /\ candidateLock' = [candidateLock EXCEPT ![CandidateOf(r)] = r]
               /\ Goto(r, "count_active") /\ UNCHANGED <<rows, jobLock>>
            \/ /\ request[r].pc = "count_active"
               /\ ~(Cardinality(Active(CandidateOf(r))) >= MaxActive)
               /\ Goto(r, "count_job") /\ UNCHANGED <<rows, locks>>
            \/ /\ request[r].pc = "count_job" /\ ~CapReached(JobOf(r))
               /\ Goto(r, "insert") /\ UNCHANGED <<rows, locks>>
            \/ /\ request[r].pc = "insert" /\ stage[ApplicationOf(r)] = NotApplied
               /\ stage' = [stage EXCEPT ![ApplicationOf(r)] = "applied"]
               /\ history' = [history EXCEPT ![ApplicationOf(r)] = <<FirstChange(r)>>]
               /\ Ends(r)
            \/ /\ request[r].pc = "lock_application"
               /\ stage[ApplicationOf(r)] # NotApplied
               /\ Target(r) \in AllowedTransitions[stage[ApplicationOf(r)]]
               /\ stage' = [stage EXCEPT ![ApplicationOf(r)] = Target(r)]
               /\ history' = [history EXCEPT ![ApplicationOf(r)] =
                    Append(@, [ from_stage |-> stage[ApplicationOf(r)], to_stage |-> Target(r),
                                changed_at |-> request[r].began ])]
               /\ Ends(r)
  <1> USE DEF Refuse, Ends, Answer, Waiting, rows, locks
  <1>1. CASE LockJob(r)
    BY <1>1 DEF LockJob
  <1>2. CASE LockCandidate(r)
    BY <1>2 DEF LockCandidate
  <1>3. CASE CountActive(r)
    BY <1>3 DEF CountActive
  <1>4. CASE CountJob(r)
    BY <1>4 DEF CountJob
  <1>5. CASE Insert(r)
    BY <1>5 DEF Insert
  <1>6. CASE AdvanceStage(r)
    <2> DEFINE current == stage[ApplicationOf(r)]
    <2>1. request[r].pc = "lock_application" /\ current \in Stage \cup {NotApplied}
      BY <1>6, CallTypes DEF AdvanceStage, TypeInv, TypeOK
    <2>2. Move(r, current)
      BY <1>6 DEF AdvanceStage
    <2>3. CASE current = NotApplied
      BY <2>1, <2>2, <2>3 DEF Move, Stage
    <2>4. CASE current # NotApplied /\ current = Target(r)
      BY <2>1, <2>2, <2>4 DEF Move
    <2>5. CASE current # NotApplied /\ current # Target(r) /\ Target(r) \notin AllowedTransitions[current]
      BY <2>1, <2>2, <2>5 DEF Move
    <2>6. CASE current # NotApplied /\ current # Target(r) /\ Target(r) \in AllowedTransitions[current]
      BY <2>1, <2>2, <2>6 DEF Move
    <2>7. QED
      BY <2>3, <2>4, <2>5, <2>6
  <1>7. QED
    BY <1>1, <1>2, <1>3, <1>4, <1>5, <1>6 DEF Step

-----------------------------------------------------------------------------
(* Types.                                                                  *)

\* Every request's call stays the one it began with.
LEMMA CallsStep ==
  ASSUME ConstantsOK, TypeInv, NEW r \in Requests, NEW call \in Calls, Step(r) \/ Begin(r, call)
  PROVE  /\ request' \in [Requests -> Request]
         /\ jobLock' \in [Jobs -> Requests \cup {Free}]
         /\ candidateLock' \in [Candidates -> Requests \cup {Free}]
         /\ CallsFit'
  <1>0. TypeOK
    BY DEF TypeInv
  <1>1. CASE Begin(r, call)
    <2>1. /\ request'[r].call = call
          /\ request'[r].pc = IF call.op = "apply" THEN "lock_job" ELSE "lock_application"
          /\ \A q \in Requests \ {r} : request'[q] = request[q]
      BY <1>0, <1>1, BeginStep
    <2>2. /\ request' \in [Requests -> Request] /\ UNCHANGED locks
      BY <1>0, <1>1, BeginStep
    <2>3. CallsFit'
      <3> SUFFICES ASSUME NEW q \in Requests
                   PROVE  /\ request'[q].pc # "idle" => request'[q].call \in Calls
                          /\ request'[q].pc \in Applying => request'[q].call.op = "apply"
                          /\ request'[q].pc = "lock_application" => request'[q].call.op # "apply"
        BY DEF CallsFit
      <3>1. CASE q = r
        BY <2>1, <3>1 DEF Applying, HasJob, Counting
      <3>2. CASE q # r
        BY <2>1, <3>2 DEF TypeInv, CallsFit
      <3>3. QED
        BY <3>1, <3>2
    <2>4. QED
      BY <1>0, <2>2, <2>3 DEF TypeOK, locks
  <1>2. CASE Step(r)
    <2>1. request[r].pc \in Waiting /\ request[r].pc # "idle"
      BY <1>2, StepBranches DEF Waiting
    <2>2. CASE Ends(r)
      <3>1. PICK answer \in Answer : EndTransaction(r, answer)
        BY <2>2 DEF Ends
      <3>2. answer \notin Applying /\ answer # "lock_application" /\ answer # "idle"
        BY DEF Answer, Applying, HasJob, Counting
      <3>3. QED
        BY <1>0, <2>1, <3>1, <3>2, EndTransactionStep DEF TypeInv, CallsFit
    <2>3. CASE ~Ends(r)
      <3>1. PICK pc \in HasJob : /\ Goto(r, pc) /\ request[r].pc \in Applying
                                 /\ jobLock' \in {jobLock, [jobLock EXCEPT ![JobOf(r)] = r]}
                                 /\ candidateLock' \in
                                      {candidateLock, [candidateLock EXCEPT ![CandidateOf(r)] = r]}
        BY <1>2, <2>3, StepBranches DEF HasJob, Counting, Applying, locks
      <3>2. pc \in PC /\ pc \in Applying /\ pc # "lock_application" /\ pc # "idle"
        BY DEF PC, Waiting, HasJob, Counting, Applying
      <3>3. /\ request' \in [Requests -> Request]
            /\ \A q \in Requests : /\ request'[q].pc = IF q = r THEN pc ELSE request[q].pc
                                   /\ request'[q].call = request[q].call
        BY <1>0, <3>1, <3>2, GotoStep
      <3>4. CallsFit'
        BY <2>1, <3>1, <3>2, <3>3 DEF TypeInv, CallsFit
      <3>5. QED
        BY <1>0, <3>1, <3>3, <3>4 DEF TypeOK
    <2>4. QED
      BY <2>2, <2>3
  <1>3. QED
    BY <1>1, <1>2

LEMMA TypeStep ==
  ASSUME ConstantsOK
  PROVE  TypeInv /\ [Next]_vars => TypeInv'
  <1> SUFFICES ASSUME TypeInv, [Next]_vars
               PROVE  TypeInv'
    OBVIOUS
  <1>0. TypeOK /\ CallsFit
    BY DEF TypeInv
  <1>1. ASSUME NEW r \in Requests, NEW call \in Calls, Begin(r, call)
        PROVE  TypeInv'
    <2>1. request' \in [Requests -> Request] /\ CallsFit'
      BY <1>1, CallsStep
    <2>2. UNCHANGED <<rows, locks>> /\ clock' \in Nat
      BY <1>0, <1>1, BeginStep
    <2>3. QED
      BY <1>0, <2>1, <2>2 DEF TypeInv, TypeOK, rows, locks, Request, PC
  <1>2. ASSUME NEW r \in Requests, Step(r)
        PROVE  TypeInv'
    <2>1. PICK call \in Calls : call = request[r].call
      BY <1>2, StepBranches, CallTypes DEF Waiting
    <2>2. /\ request' \in [Requests -> Request] /\ CallsFit'
          /\ jobLock' \in [Jobs -> Requests \cup {Free}]
          /\ candidateLock' \in [Candidates -> Requests \cup {Free}]
      BY <1>2, CallsStep
    <2>3. UNCHANGED <<status, terms, profile, clock>>
      BY <1>2, StepBranches
    <2>4. /\ stage' \in [Jobs \X Candidates -> Stage \cup {NotApplied}]
          /\ history' \in [Jobs \X Candidates -> Seq(StageChange)]
      <3> DEFINE a == ApplicationOf(r)
                 change == [ from_stage |-> stage[a], to_stage |-> Target(r),
                             changed_at |-> request[r].began ]
      <3>1. request[r].began \in Nat
        BY <1>0 DEF TypeOK
      <3>2. CASE UNCHANGED <<stage, history>>
        BY <1>0, <3>2 DEF TypeOK
      <3>3. CASE /\ stage' = [stage EXCEPT ![a] = "applied"]
                 /\ history' = [history EXCEPT ![a] = <<FirstChange(r)>>]
        <4>1. FirstChange(r) \in StageChange
          BY <3>1 DEF FirstChange, StageChange, Stage
        <4>2. <<FirstChange(r)>> \in Seq(StageChange)
          BY <4>1
        <4>3. QED
          BY <1>0, <3>3, <4>2 DEF TypeOK, Stage
      <3>4. CASE /\ request[r].pc = "lock_application" /\ stage[a] # NotApplied
                 /\ stage' = [stage EXCEPT ![a] = Target(r)]
                 /\ history' = [history EXCEPT ![a] = Append(@, change)]
        <4>1. a \in Jobs \X Candidates /\ Target(r) \in Stage
          BY <3>4, CallTypes
        <4>2. stage[a] \in Stage /\ history[a] \in Seq(StageChange)
          BY <1>0, <3>4, <4>1 DEF TypeOK
        <4>3. change \in StageChange
          BY <3>1, <4>1, <4>2 DEF StageChange
        <4> HIDE DEF change
        <4>4. Append(history[a], change) \in Seq(StageChange)
          BY <4>2, <4>3
        <4>5. QED
          BY <1>0, <3>4, <4>1, <4>4 DEF TypeOK
      <3>5. QED
        BY <1>2, <3>2, <3>3, <3>4, StepBranches DEF rows
    <2>5. QED
      BY <1>0, <2>2, <2>3, <2>4 DEF TypeInv, TypeOK, Request, PC
  <1>3. ASSUME NEW j \in Jobs, ChangeStatus(j) \/ UpdateJob(j)
        PROVE  TypeInv'
    BY <1>0, <1>3 DEF ChangeStatus, UpdateJob, TypeInv, TypeOK, CallsFit, locks
  <1>4. ASSUME NEW gone \in SUBSET (Jobs \X Candidates), Cascade(gone)
        PROVE  /\ stage' \in [Jobs \X Candidates -> Stage \cup {NotApplied}]
               /\ history' \in [Jobs \X Candidates -> Seq(StageChange)]
    <2>1. << >> \in Seq(StageChange)
      OBVIOUS
    <2>2. QED
      BY <1>0, <1>4, <2>1 DEF Cascade, TypeOK
  <1>5. ASSUME NEW j \in Jobs, DeleteJob(j)
        PROVE  TypeInv'
    <2>1. /\ stage' \in [Jobs \X Candidates -> Stage \cup {NotApplied}]
          /\ history' \in [Jobs \X Candidates -> Seq(StageChange)]
      BY <1>4, <1>5 DEF DeleteJob
    <2>2. QED
      BY <1>0, <1>5, <2>1 DEF DeleteJob, TypeInv, TypeOK, CallsFit, locks
  <1>6. ASSUME NEW c \in Candidates, UpdateCandidate(c)
        PROVE  TypeInv'
    BY <1>0, <1>6 DEF UpdateCandidate, TypeInv, TypeOK, CallsFit, locks
  <1>7. ASSUME NEW c \in Candidates, DeleteCandidate(c)
        PROVE  TypeInv'
    <2>1. /\ stage' \in [Jobs \X Candidates -> Stage \cup {NotApplied}]
          /\ history' \in [Jobs \X Candidates -> Seq(StageChange)]
      BY <1>4, <1>7 DEF DeleteCandidate
    <2>2. QED
      BY <1>0, <1>7, <2>1 DEF DeleteCandidate, TypeInv, TypeOK, CallsFit, locks
  <1>8. CASE UNCHANGED vars
    BY <1>0, <1>8 DEF vars, TypeInv, TypeOK, CallsFit
  <1>9. QED
    BY <1>1, <1>2, <1>3, <1>5, <1>6, <1>7, <1>8 DEF Next, Others

LEMMA TypeInit == ConstantsOK /\ Init => TypeInv
  <1>1. << >> \in Seq(StageChange)
    OBVIOUS
  <1>2. Init => TypeOK
    BY <1>1 DEF Init, TypeOK, NoRequest
  <1>3. Init => CallsFit
    BY DEF Init, NoRequest, CallsFit, Applying, HasJob, Counting
  <1>4. QED
    BY <1>2, <1>3 DEF TypeInv

\* Every variable keeps its type, and every request that has begun is one the callers make.
THEOREM TypeCorrect == ASSUME ConstantsOK PROVE Spec => []TypeOK
  <1>1. TypeInv => TypeOK
    BY DEF TypeInv
  <1>2. QED
    BY <1>1, TypeInit, TypeStep, PTL DEF Spec

-----------------------------------------------------------------------------
(* The history is the way the application has come.                        *)

\* A legal move made at the end of a path continues it.
LEMMA PathGoesOn ==
  ASSUME NEW s \in Seq(StageChange), NEW change \in StageChange, IsPath(s), s # <<>>,
         change.from_stage = Last(s).to_stage,
         change.to_stage \in AllowedTransitions[change.from_stage]
  PROVE  /\ IsPath(Append(s, change)) /\ Append(s, change) # <<>>
         /\ Last(Append(s, change)) = change
  BY DEF Last, IsPath

LEMMA HistoryStep ==
  ASSUME ConstantsOK
  PROVE  HistoryInv /\ [Next]_vars => HistoryInv'
  <1> SUFFICES ASSUME HistoryInv, [Next]_vars
               PROVE  HistoryInv'
    OBVIOUS
  <1>0. TypeInv /\ TypeInv' /\ TypeOK /\ HistoryMatchesStage
    BY TypeStep DEF HistoryInv, TypeInv
  <1> DEFINE Matches(changes, now) ==
        /\ IsPath(changes)
        /\ (now = NotApplied) <=> (changes = <<>>)
        /\ now # NotApplied => Last(changes).to_stage = now
  <1>1. \A a \in Jobs \X Candidates : Matches(history[a], stage[a])
    BY <1>0 DEF HistoryMatchesStage
  <1>2. Matches(<<>>, NotApplied)
    BY DEF IsPath
  <1>3. SUFFICES \A a \in Jobs \X Candidates : Matches(history'[a], stage'[a])
    BY <1>0 DEF HistoryInv, HistoryMatchesStage
  <1>4. ASSUME NEW gone \in SUBSET (Jobs \X Candidates), Cascade(gone)
        PROVE  \A a \in Jobs \X Candidates : Matches(history'[a], stage'[a])
    <2> HIDE DEF Matches
    <2>1. QED
      BY <1>1, <1>2, <1>4 DEF Cascade
  <1>5. ASSUME NEW r \in Requests, Step(r)
        PROVE  \A a \in Jobs \X Candidates : Matches(history'[a], stage'[a])
    <2> DEFINE b == ApplicationOf(r)
               change == [ from_stage |-> stage[b], to_stage |-> Target(r),
                           changed_at |-> request[r].began ]
    <2>0. b \in Jobs \X Candidates
      BY <1>0, <1>5, StepBranches, CallTypes DEF Waiting
    <2>1. CASE UNCHANGED <<stage, history>>
      BY <1>1, <2>1
    <2>2. CASE /\ stage' = [stage EXCEPT ![b] = "applied"]
               /\ history' = [history EXCEPT ![b] = <<FirstChange(r)>>]
      <3>1. Matches(<<FirstChange(r)>>, "applied")
        BY DEF IsPath, FirstChange, Last, NotApplied
      <3> HIDE DEF Matches
      <3>2. QED
        BY <1>0, <1>1, <2>0, <2>2, <3>1 DEF TypeOK
    <2>3. CASE /\ request[r].pc = "lock_application" /\ stage[b] # NotApplied
               /\ Target(r) \in AllowedTransitions[stage[b]]
               /\ stage' = [stage EXCEPT ![b] = Target(r)]
               /\ history' = [history EXCEPT ![b] = Append(@, change)]
      <3>1. Target(r) \in Stage /\ stage[b] \in Stage /\ history[b] \in Seq(StageChange)
            /\ request[r].began \in Nat
        BY <1>0, <2>0, <2>3, CallTypes DEF TypeOK
      <3>2. change \in StageChange
        BY <3>1 DEF StageChange
      <3>3. IsPath(history[b]) /\ history[b] # <<>> /\ Last(history[b]).to_stage = stage[b]
        BY <1>1, <2>0, <2>3
      <3>4. /\ IsPath(Append(history[b], change)) /\ Append(history[b], change) # <<>>
            /\ Last(Append(history[b], change)) = change
        BY <2>3, <3>1, <3>2, <3>3, PathGoesOn
      <3>5. Matches(Append(history[b], change), Target(r))
        BY <3>1, <3>4 DEF Stage, NotApplied
      <3> HIDE DEF Matches, change
      <3>6. QED
        BY <1>0, <1>1, <2>0, <2>3, <3>5 DEF TypeOK
    <2>4. QED
      BY <1>0, <1>5, <2>1, <2>2, <2>3, StepBranches DEF rows
  <1>6. ASSUME NEW r \in Requests, NEW call \in Calls, Begin(r, call)
        PROVE  UNCHANGED <<stage, history>>
    BY <1>6 DEF Begin, rows
  <1>7. ASSUME NEW j \in Jobs, ChangeStatus(j) \/ UpdateJob(j)
        PROVE  UNCHANGED <<stage, history>>
    BY <1>7 DEF ChangeStatus, UpdateJob
  <1>8. ASSUME NEW c \in Candidates, UpdateCandidate(c)
        PROVE  UNCHANGED <<stage, history>>
    BY <1>8 DEF UpdateCandidate
  <1>9. CASE UNCHANGED <<stage, history>>
    BY <1>1, <1>9
  <1>10. ASSUME NEW j \in Jobs, DeleteJob(j)
         PROVE  \A a \in Jobs \X Candidates : Matches(history'[a], stage'[a])
    BY <1>4, <1>10 DEF DeleteJob
  <1>11. ASSUME NEW c \in Candidates, DeleteCandidate(c)
         PROVE  \A a \in Jobs \X Candidates : Matches(history'[a], stage'[a])
    BY <1>4, <1>11 DEF DeleteCandidate
  <1>12. QED
    BY <1>5, <1>6, <1>7, <1>8, <1>9, <1>10, <1>11 DEF Next, Others, vars

\* Whatever requests, edits and deletions interleave, an application's history is a legal path
\* through the pipeline, from its submission to the stage it is in.
THEOREM HistoryIsTrue == ASSUME ConstantsOK PROVE Spec => []HistoryMatchesStage
  <1>1. Init => HistoryMatchesStage
    BY DEF Init, HistoryMatchesStage, IsPath
  <1>2. ConstantsOK /\ Init => HistoryInv
    BY <1>1, TypeInit DEF HistoryInv
  <1>3. HistoryInv => HistoryMatchesStage
    BY DEF HistoryInv
  <1>4. QED
    BY <1>2, <1>3, HistoryStep, PTL DEF Spec

-----------------------------------------------------------------------------
(* The locks, and what they keep true.                                     *)

\* No step takes a lock from the request that holds it, and a request goes on only with its own.
LEMMA LockStep == ConstantsOK /\ TypeInv /\ LocksHeld /\ [Next]_vars => LocksHeld'
  <1> SUFFICES ASSUME ConstantsOK, TypeInv, LocksHeld, [Next]_vars
               PROVE  LocksHeld'
    OBVIOUS
  <1>0. TypeOK
    BY DEF TypeInv
  <1>1. ASSUME NEW r \in Requests, NEW call \in Calls, Begin(r, call)
        PROVE  LocksHeld'
    <2>1. request'[r].pc \notin HasJob
      BY <1>0, <1>1, BeginStep DEF HasJob, Counting
    <2>2. \A q \in Requests \ {r} : request'[q] = request[q]
      BY <1>0, <1>1, BeginStep
    <2>3. UNCHANGED locks
      BY <1>0, <1>1, BeginStep
    <2>4. QED
      BY <2>1, <2>2, <2>3 DEF LocksHeld, JobOf, CandidateOf, locks, HasJob
  <1>2. ASSUME NEW r \in Requests, Step(r)
        PROVE  LocksHeld'
    <2>0. JobOf(r) \in Jobs /\ CandidateOf(r) \in Candidates
      BY <1>2, StepBranches, CallTypes DEF Waiting
    <2>1. CASE Ends(r)
      <3>1. PICK answer \in Answer : EndTransaction(r, answer)
        BY <2>1 DEF Ends
      <3>2. answer \notin HasJob
        BY DEF Answer, HasJob, Counting
      <3> SUFFICES ASSUME NEW q \in Requests, request'[q].pc \in HasJob
                   PROVE  /\ jobLock'[JobOf(q)'] = q
                          /\ request'[q].pc \in Counting => candidateLock'[CandidateOf(q)'] = q
        BY DEF LocksHeld, HasJob
      <3>3. /\ q # r /\ request'[q].pc = request[q].pc
            /\ JobOf(q)' = JobOf(q) /\ CandidateOf(q)' = CandidateOf(q)
        BY <1>0, <3>1, <3>2, EndTransactionStep
      <3>4. JobOf(q) \in Jobs /\ CandidateOf(q) \in Candidates
        BY <3>3, CallTypes DEF HasJob, Counting
      <3>5. QED
        BY <1>0, <3>1, <3>3, <3>4, EndTransactionStep DEF LocksHeld
    <2>2. CASE /\ request[r].pc = "lock_job" /\ jobLock[JobOf(r)] = Free
               /\ jobLock' = [jobLock EXCEPT ![JobOf(r)] = r]
               /\ Goto(r, "lock_candidate") /\ UNCHANGED candidateLock
      <3>1. \A q \in Requests :
              /\ request'[q].pc = IF q = r THEN "lock_candidate" ELSE request[q].pc
              /\ JobOf(q)' = JobOf(q) /\ CandidateOf(q)' = CandidateOf(q)
        BY <1>0, <2>2, GotoStep DEF PC, Waiting
      <3>2. \A q \in Requests \ {r} : request[q].pc \in HasJob => JobOf(q) # JobOf(r)
        BY <2>2 DEF LocksHeld, ConstantsOK
      <3>3. QED
        BY <1>0, <2>0, <2>2, <3>1, <3>2 DEF LocksHeld, TypeOK, HasJob, Counting
    <2>3. CASE /\ request[r].pc = "lock_candidate" /\ candidateLock[CandidateOf(r)] = Free
               /\ candidateLock' = [candidateLock EXCEPT ![CandidateOf(r)] = r]
               /\ Goto(r, "count_active") /\ UNCHANGED jobLock
      <3>1. \A q \in Requests :
              /\ request'[q].pc = IF q = r THEN "count_active" ELSE request[q].pc
              /\ JobOf(q)' = JobOf(q) /\ CandidateOf(q)' = CandidateOf(q)
        BY <1>0, <2>3, GotoStep DEF PC, Waiting
      <3>2. \A q \in Requests \ {r} : request[q].pc \in Counting => CandidateOf(q) # CandidateOf(r)
        BY <2>3 DEF LocksHeld, ConstantsOK
      <3>3. QED
        BY <1>0, <2>0, <2>3, <3>1, <3>2 DEF LocksHeld, TypeOK, HasJob, Counting
    <2>4. CASE /\ request[r].pc \in Counting /\ UNCHANGED locks
               /\ \E pc \in Counting : Goto(r, pc)
      <3>1. PICK pc \in Counting : Goto(r, pc)
        BY <2>4
      <3>2. \A q \in Requests :
              /\ request'[q].pc = IF q = r THEN pc ELSE request[q].pc
              /\ JobOf(q)' = JobOf(q) /\ CandidateOf(q)' = CandidateOf(q)
        BY <1>0, <3>1, GotoStep DEF PC, Waiting, Counting
      <3>3. QED
        BY <2>4, <3>2 DEF LocksHeld, locks, HasJob
    <2>5. QED
      BY <1>2, <2>1, <2>2, <2>3, <2>4, StepBranches DEF Counting
  <1>3. CASE Others \/ UNCHANGED vars
    <2>1. UNCHANGED <<locks, request>>
      BY <1>3 DEF Others, ChangeStatus, UpdateJob, DeleteJob, UpdateCandidate, DeleteCandidate, vars, locks
    <2>2. QED
      BY <2>1 DEF LocksHeld, locks, JobOf, CandidateOf
  <1>4. QED
    BY <1>1, <1>2, <1>3 DEF Next

\* Nothing that was checked, or counted, grows.
NoneAdded ==
  /\ \A j \in Jobs : Received(j)' \subseteq Received(j)
  /\ \A c \in Candidates : Active(c)' \subseteq Active(c)

LEMMA SameStage ==
  ASSUME UNCHANGED stage
  PROVE  NoneAdded
  BY DEF NoneAdded, Received, Active

LEMMA CountsFall ==
  ASSUME CountsFinite, NoneAdded
  PROVE  /\ CountsFinite'
         /\ \A j \in Jobs : /\ Cardinality(Received(j)) \in Nat /\ Cardinality(Received(j)') \in Nat
                            /\ Cardinality(Received(j)') <= Cardinality(Received(j))
         /\ \A c \in Candidates : /\ Cardinality(Active(c)) \in Nat /\ Cardinality(Active(c)') \in Nat
                                  /\ Cardinality(Active(c)') <= Cardinality(Active(c))
  <1>1. \A j \in Jobs : /\ IsFiniteSet(Received(j)) /\ IsFiniteSet(Received(j)')
                        /\ Cardinality(Received(j)') <= Cardinality(Received(j))
    BY FS_Subset DEF CountsFinite, NoneAdded
  <1>2. \A c \in Candidates : /\ IsFiniteSet(Active(c)) /\ IsFiniteSet(Active(c)')
                              /\ Cardinality(Active(c)') <= Cardinality(Active(c))
    BY FS_Subset DEF CountsFinite, NoneAdded
  <1>3. CountsFinite'
    BY <1>1, <1>2 DEF CountsFinite
  <1>4. QED
    BY <1>1, <1>2, <1>3, FS_CardinalityType

\* As long as nothing is added, the limit and the caps that were counted still hold.
LEMMA CountsKept ==
  ASSUME ConstantsOK, RulesInv, NoneAdded,
         \A q \in Requests : request'[q].pc \in {"count_job", "insert"} =>
           /\ JobOf(q) \in Jobs /\ CandidateOf(q) \in Candidates
           /\ JobOf(q)' = JobOf(q) /\ CandidateOf(q)' = CandidateOf(q)
           /\ \/ request[q].pc \in {"count_job", "insert"}
              \/ ~(Cardinality(Active(CandidateOf(q))) >= MaxActive)
           /\ request'[q].pc = "insert" =>
                /\ request[q].pc = "insert" \/ ~CapReached(JobOf(q))
                /\ terms'[JobOf(q)] = terms[JobOf(q)] /\ terms[JobOf(q)] \in Terms
  PROVE  CountsFinite' /\ UnderLimit' /\ UnderCap' /\ ActiveWithinLimit'
  <1>1. CountsFinite /\ UnderLimit /\ UnderCap /\ ActiveWithinLimit /\ MaxActive \in Nat
    BY DEF RulesInv, ConstantsOK
  <1>2. /\ CountsFinite'
        /\ \A j \in Jobs : /\ Cardinality(Received(j)) \in Nat /\ Cardinality(Received(j)') \in Nat
                            /\ Cardinality(Received(j)') <= Cardinality(Received(j))
        /\ \A c \in Candidates : /\ Cardinality(Active(c)) \in Nat /\ Cardinality(Active(c)') \in Nat
                                  /\ Cardinality(Active(c)') <= Cardinality(Active(c))
    BY <1>1, CountsFall
  <1>3. ActiveWithinLimit'
    BY <1>1, <1>2 DEF ActiveWithinLimit
  <1>4. UnderLimit'
    <2> SUFFICES ASSUME NEW q \in Requests, request'[q].pc \in {"count_job", "insert"}
                 PROVE  Cardinality(Active(CandidateOf(q))') < MaxActive
      BY DEF UnderLimit
    <2>1. CandidateOf(q) \in Candidates /\ CandidateOf(q)' = CandidateOf(q)
      OBVIOUS
    <2>2. Cardinality(Active(CandidateOf(q))) < MaxActive
      BY <1>1, <1>2, <2>1 DEF UnderLimit
    <2>3. \A c \in Candidates : c = CandidateOf(q) => Active(CandidateOf(q))' = Active(c)'
      BY <2>1 DEF Active
    <2>4. QED
      BY <1>1, <1>2, <2>1, <2>2, <2>3
  <1>5. UnderCap'
    <2> SUFFICES ASSUME NEW q \in Requests, request'[q].pc = "insert"
                 PROVE  ~CapReached(JobOf(q))'
      BY DEF UnderCap
    <2>1. /\ JobOf(q) \in Jobs /\ JobOf(q)' = JobOf(q)
          /\ terms'[JobOf(q)] = terms[JobOf(q)] /\ terms[JobOf(q)] \in Terms
      OBVIOUS
    <2>2. ~CapReached(JobOf(q))
      BY <1>1 DEF UnderCap
    <2>3. Received(JobOf(q))' = {c \in Candidates : stage'[<<JobOf(q), c>>] # NotApplied}
      BY <2>1 DEF Received
    <2>4. \A j \in Jobs : j = JobOf(q) => Received(JobOf(q))' = Received(j)'
      BY <2>3 DEF Received
    <2>5. Cardinality(Received(JobOf(q))') <= Cardinality(Received(JobOf(q)))
          /\ Cardinality(Received(JobOf(q))') \in Nat /\ Cardinality(Received(JobOf(q))) \in Nat
      BY <1>2, <2>1, <2>4
    <2>6. terms[JobOf(q)].max_applications \in Nat \cup {Null}
      BY <2>1 DEF ConstantsOK
    <2>7. QED
      BY <2>1, <2>2, <2>5, <2>6 DEF CapReached
  <1>6. QED
    BY <1>2, <1>3, <1>4, <1>5

\* One more application of one candidate for one job: the counts grow by one, for them alone.
LEMMA CountsGrow ==
  ASSUME CountsFinite, stage \in [Jobs \X Candidates -> Stage \cup {NotApplied}],
         NEW j \in Jobs, NEW c \in Candidates,
         stage' = [stage EXCEPT ![<<j, c>>] = "applied"]
  PROVE  /\ CountsFinite'
         /\ Cardinality(Active(c)) \in Nat /\ Cardinality(Active(c)') <= Cardinality(Active(c)) + 1
         /\ \A i \in Jobs \ {j} : Received(i)' = Received(i)
         /\ \A d \in Candidates \ {c} : Active(d)' = Active(d)
  <1>1. \A i \in Jobs, d \in Candidates :
          stage'[<<i, d>>] = IF i = j /\ d = c THEN "applied" ELSE stage[<<i, d>>]
    OBVIOUS
  <1>2. /\ \A i \in Jobs \ {j} : Received(i)' = Received(i)
        /\ \A d \in Candidates \ {c} : Active(d)' = Active(d)
    BY <1>1 DEF Received, Active
  <1>3. Received(j)' = Received(j) \cup {c}
    BY <1>1 DEF Received, NotApplied
  <1>4. Active(c)' = Active(c) \cup {j}
    BY <1>1 DEF Active, NotApplied, Terminal
  <1>5. IsFiniteSet(Received(j)) /\ IsFiniteSet(Active(c))
    BY DEF CountsFinite
  <1>6. IsFiniteSet(Received(j)')
    BY <1>3, <1>5, FS_AddElement
  <1>7. /\ IsFiniteSet(Active(c)') /\ Cardinality(Active(c)) \in Nat
        /\ Cardinality(Active(c)') = IF j \in Active(c) THEN Cardinality(Active(c))
                                     ELSE Cardinality(Active(c)) + 1
    BY <1>4, <1>5, FS_AddElement, FS_CardinalityType
  <1>8. \A i \in Jobs : IsFiniteSet(Received(i)')
    BY <1>2, <1>6 DEF CountsFinite
  <1>9. \A d \in Candidates : IsFiniteSet(Active(d)')
    BY <1>2, <1>7 DEF CountsFinite
  <1>10. CountsFinite'
    BY <1>8, <1>9 DEF CountsFinite
  <1>11. QED
    BY <1>2, <1>7, <1>10

LEMMA RulesStep == ConstantsOK /\ RulesInv /\ [Next]_vars => RulesInv'
  <1> SUFFICES ASSUME ConstantsOK, RulesInv, [Next]_vars
               PROVE  RulesInv'
    OBVIOUS
  <1>0. TypeInv /\ TypeInv' /\ TypeOK /\ LocksHeld /\ LocksHeld'
    BY TypeStep, LockStep DEF RulesInv, TypeInv
  <1>a. \A q \in Requests : request[q].pc # "idle" =>
           JobOf(q) \in Jobs /\ CandidateOf(q) \in Candidates /\ terms[JobOf(q)] \in Terms
    BY <1>0, CallTypes DEF TypeOK
  <1> DEFINE Done == Admitted' /\ CountsFinite' /\ UnderLimit' /\ UnderCap' /\ ActiveWithinLimit'
  <1>b. SUFFICES Done
    BY <1>0 DEF RulesInv
  <1>1. ASSUME NEW r \in Requests, NEW call \in Calls, Begin(r, call)
        PROVE  Done
    <2>1. request'[r].pc \notin Counting /\ \A q \in Requests \ {r} : request'[q] = request[q]
      BY <1>0, <1>1, BeginStep DEF Counting
    <2>2. UNCHANGED rows
      BY <1>0, <1>1, BeginStep
    <2>3. \A q \in Requests : request'[q].pc \in Counting =>
             q # r /\ request[q].pc = request'[q].pc /\ JobOf(q)' = JobOf(q) /\ CandidateOf(q)' = CandidateOf(q)
      BY <2>1 DEF JobOf, CandidateOf
    <2>4. Admitted'
      BY <2>2, <2>3 DEF RulesInv, Admitted, Fits, rows
    <2>5. QED
      BY <1>a, <2>2, <2>3, <2>4, SameStage, CountsKept DEF rows, Counting
  <1>2. ASSUME NEW r \in Requests, Step(r)
        PROVE  Done
    <2>0. /\ request[r].pc # "idle" /\ UNCHANGED <<status, terms, profile>>
          /\ JobOf(r) \in Jobs /\ CandidateOf(r) \in Candidates
      BY <1>0, <1>2, StepBranches, CallTypes DEF Waiting
    <2>1. ASSUME NEW pc \in PC, Goto(r, pc), NoneAdded,
                 pc \in Counting => request[r].pc \in Counting \/ Fits(r),
                 pc \in {"count_job", "insert"} =>
                   \/ request[r].pc \in {"count_job", "insert"}
                   \/ ~(Cardinality(Active(CandidateOf(r))) >= MaxActive),
                 pc = "insert" => request[r].pc = "insert" \/ ~CapReached(JobOf(r))
          PROVE  Done
      <3>1. \A q \in Requests :
              /\ request'[q].pc = IF q = r THEN pc ELSE request[q].pc
              /\ JobOf(q)' = JobOf(q) /\ CandidateOf(q)' = CandidateOf(q)
        BY <1>0, <2>1, GotoStep
      <3>2. Admitted'
        BY <2>0, <2>1, <3>1 DEF RulesInv, Admitted, Fits
      <3>3. QED
        BY <1>a, <2>0, <2>1, <3>1, <3>2, CountsKept
    <2>2. CASE NoneAdded /\ Ends(r)
      <3>1. PICK answer \in Answer : Goto(r, answer)
        BY <2>2 DEF Ends, EndTransaction
      <3>2. answer \in PC /\ answer \notin Counting
        BY DEF PC, Answer, Counting
      <3>3. QED
        BY <2>1, <2>2, <3>1, <3>2 DEF Counting
    <2>3. CASE Goto(r, "lock_candidate") /\ UNCHANGED stage
      BY <2>1, <2>3, SameStage DEF PC, Waiting, Counting
    <2>4. CASE /\ status[JobOf(r)] = "published" /\ Eligible(JobOf(r), CandidateOf(r))
               /\ Goto(r, "count_active") /\ UNCHANGED stage
      BY <2>1, <2>4, SameStage DEF PC, Waiting, Counting, Fits, Eligible
    <2>5. CASE /\ request[r].pc = "count_active"
               /\ ~(Cardinality(Active(CandidateOf(r))) >= MaxActive)
               /\ Goto(r, "count_job") /\ UNCHANGED stage
      BY <2>1, <2>5, SameStage DEF PC, Waiting, Counting
    <2>6. CASE /\ request[r].pc = "count_job" /\ ~CapReached(JobOf(r))
               /\ Goto(r, "insert") /\ UNCHANGED stage
      BY <2>1, <2>6, SameStage DEF PC, Waiting, Counting
    <2>7. CASE /\ request[r].pc = "insert"
               /\ stage' = [stage EXCEPT ![ApplicationOf(r)] = "applied"] /\ Ends(r)
      <3>0. PICK j \in Jobs, c \in Candidates : j = JobOf(r) /\ c = CandidateOf(r)
        BY <2>0
      <3>1. PICK answer \in Answer : EndTransaction(r, answer)
        BY <2>7 DEF Ends
      <3>2. answer \notin Counting
        BY DEF Answer, Counting
      <3>3. \A q \in Requests : request'[q].pc \in Counting =>
              /\ q # r /\ request[q].pc = request'[q].pc
              /\ JobOf(q)' = JobOf(q) /\ CandidateOf(q)' = CandidateOf(q)
              /\ JobOf(q) \in Jobs \ {j} /\ CandidateOf(q) \in Candidates \ {c}
        <4>1. \A q \in Requests \ {r} : request[q].pc \in Counting => JobOf(q) # j /\ CandidateOf(q) # c
          BY <1>0, <2>7, <3>0 DEF LocksHeld, HasJob, Counting
        <4>2. QED
          BY <1>0, <1>a, <3>1, <3>2, <4>1, EndTransactionStep DEF Counting
      <3>4. /\ CountsFinite'
            /\ Cardinality(Active(c)) \in Nat /\ Cardinality(Active(c)') <= Cardinality(Active(c)) + 1
            /\ \A i \in Jobs \ {j} : Received(i)' = Received(i)
            /\ \A d \in Candidates \ {c} : Active(d)' = Active(d)
        <4>1. CountsFinite /\ stage \in [Jobs \X Candidates -> Stage \cup {NotApplied}]
          BY <1>0 DEF RulesInv, TypeOK
        <4>2. stage' = [stage EXCEPT ![<<j, c>>] = "applied"]
          BY <2>7, <3>0 DEF ApplicationOf
        <4>3. QED
          BY <4>1, <4>2, CountsGrow
      <3>5. Admitted'
        BY <2>0, <3>3 DEF RulesInv, Admitted, Fits
      <3>6. UnderLimit'
        <4> SUFFICES ASSUME NEW q \in Requests, request'[q].pc \in {"count_job", "insert"}
                     PROVE  Cardinality(Active(CandidateOf(q))') < MaxActive
          BY DEF UnderLimit
        <4>1. PICK d \in Candidates \ {c} : d = CandidateOf(q) /\ d = CandidateOf(q)'
          BY <3>3 DEF Counting
        <4>2. Active(CandidateOf(q))' = Active(d)' /\ Active(CandidateOf(q)) = Active(d)
          BY <4>1 DEF Active
        <4>3. Cardinality(Active(d)) < MaxActive
          BY <3>3, <4>1, <4>2 DEF RulesInv, UnderLimit, Counting
        <4>4. QED
          BY <3>4, <4>2, <4>3
      <3>7. UnderCap'
        <4> SUFFICES ASSUME NEW q \in Requests, request'[q].pc = "insert"
                     PROVE  ~CapReached(JobOf(q))'
          BY DEF UnderCap
        <4>1. PICK i \in Jobs \ {j} : i = JobOf(q) /\ i = JobOf(q)'
          BY <3>3 DEF Counting
        <4>2. ~CapReached(i)
          BY <3>3, <4>1 DEF RulesInv, UnderCap, CapReached, Counting
        <4>3. ~CapReached(i)'
          BY <2>0, <3>4, <4>1, <4>2 DEF CapReached
        <4>4. QED
          BY <4>1, <4>3 DEF CapReached, Received
      <3>8. ActiveWithinLimit'
        <4> SUFFICES ASSUME NEW d \in Candidates
                     PROVE  Cardinality(Active(d)') <= MaxActive
          BY DEF ActiveWithinLimit
        <4>1. CASE d # c
          BY <3>4, <4>1 DEF RulesInv, ActiveWithinLimit
        <4>2. CASE d = c
          <5>1. Active(CandidateOf(r)) = Active(c)
            BY <3>0
          <5>2. Cardinality(Active(c)) < MaxActive
            BY <2>7, <5>1 DEF RulesInv, UnderLimit
          <5>3. Cardinality(Active(c)') \in Nat
            BY <3>4, FS_CardinalityType DEF CountsFinite
          <5>4. QED
            BY <3>4, <4>2, <5>2, <5>3 DEF ConstantsOK
        <4>3. QED
          BY <4>1, <4>2
      <3>9. QED
        BY <3>4, <3>5, <3>6, <3>7, <3>8
    <2>8. CASE /\ request[r].pc = "lock_application" /\ Ends(r)
               /\ stage[ApplicationOf(r)] # NotApplied
               /\ Target(r) \in AllowedTransitions[stage[ApplicationOf(r)]]
               /\ stage' = [stage EXCEPT ![ApplicationOf(r)] = Target(r)]
      <3>1. ApplicationOf(r) \in Jobs \X Candidates /\ stage[ApplicationOf(r)] \in Stage
        BY <1>0, <2>0, <2>8, CallTypes DEF TypeOK
      <3>2. stage[ApplicationOf(r)] \notin Terminal \cup {NotApplied}
        BY <2>8, <3>1 DEF AllowedTransitions, Terminal
      <3>3. \A i \in Jobs, d \in Candidates :
              stage'[<<i, d>>] = stage[<<i, d>>] \/ stage[<<i, d>>] \notin Terminal \cup {NotApplied}
        BY <1>0, <2>8, <3>1, <3>2 DEF TypeOK
      <3>4. NoneAdded
        BY <3>3 DEF NoneAdded, Received, Active
      <3>5. QED
        BY <2>2, <2>8, <3>4
    <2>9. QED
      BY <1>0, <1>2, <2>2, <2>3, <2>4, <2>5, <2>6, <2>7, <2>8, StepBranches, SameStage DEF rows
  <1>3. ASSUME NEW j \in Jobs, ChangeStatus(j) \/ UpdateJob(j) \/ DeleteJob(j)
        PROVE  Done
    <2>1. jobLock[j] = Free /\ UNCHANGED <<request, profile>>
      BY <1>3 DEF ChangeStatus, UpdateJob, DeleteJob
    <2>2. \A i \in Jobs \ {j} : status'[i] = status[i] /\ terms'[i] = terms[i]
      BY <1>0, <1>3 DEF ChangeStatus, UpdateJob, DeleteJob, TypeOK
    <2>3. NoneAdded
      BY <1>3, SameStage DEF ChangeStatus, UpdateJob, DeleteJob, Cascade, NoneAdded, Received, Active, NotApplied
    <2>4. \A q \in Requests : request[q].pc \in Counting => JobOf(q) # j
      BY <2>1 DEF LocksHeld, HasJob, ConstantsOK, RulesInv
    <2>5. \A q \in Requests : JobOf(q)' = JobOf(q) /\ CandidateOf(q)' = CandidateOf(q)
      BY <2>1 DEF JobOf, CandidateOf
    <2>6. Admitted'
      BY <1>a, <2>1, <2>2, <2>4, <2>5 DEF RulesInv, Admitted, Fits, Counting
    <2>7. QED
      BY <1>a, <2>1, <2>2, <2>3, <2>4, <2>5, <2>6, CountsKept DEF Counting
  <1>4. ASSUME NEW c \in Candidates, UpdateCandidate(c) \/ DeleteCandidate(c)
        PROVE  Done
    <2>1. UNCHANGED <<request, status, terms>>
      BY <1>4 DEF UpdateCandidate, DeleteCandidate
    <2>2. NoneAdded
      BY <1>4, SameStage DEF UpdateCandidate, DeleteCandidate, Cascade, NoneAdded, Received, Active, NotApplied
    <2>3. \A d \in Candidates : candidateLock[d] # Free \/ d # c =>
             profile'[d].years_experience = profile[d].years_experience
      BY <1>0, <1>4 DEF UpdateCandidate, DeleteCandidate, TypeOK
    <2>4. \A q \in Requests : JobOf(q)' = JobOf(q) /\ CandidateOf(q)' = CandidateOf(q)
      BY <2>1 DEF JobOf, CandidateOf
    <2>5. \A q \in Requests : request[q].pc \in Counting => candidateLock[CandidateOf(q)] # Free
      BY <1>0 DEF LocksHeld, ConstantsOK
    <2>6. Admitted'
      BY <1>a, <2>1, <2>3, <2>4, <2>5 DEF RulesInv, Admitted, Fits, Counting
    <2>7. QED
      BY <1>a, <2>1, <2>2, <2>4, <2>6, CountsKept
  <1>5. CASE UNCHANGED vars
    <2>1. UNCHANGED <<request, status, terms, profile, stage>>
      BY <1>5 DEF vars
    <2>2. \A q \in Requests : JobOf(q)' = JobOf(q) /\ CandidateOf(q)' = CandidateOf(q)
      BY <2>1 DEF JobOf, CandidateOf
    <2>3. Admitted'
      BY <2>1, <2>2 DEF RulesInv, Admitted, Fits
    <2>4. QED
      BY <1>a, <2>1, <2>2, <2>3, SameStage, CountsKept
  <1>6. QED
    BY <1>1, <1>2, <1>3, <1>4, <1>5 DEF Next, Others

LEMMA RulesInit == ConstantsOK /\ Init => RulesInv
  <1> SUFFICES ASSUME ConstantsOK, Init
               PROVE  RulesInv
    OBVIOUS
  <1>1. TypeInv
    BY TypeInit
  <1>2. \A r \in Requests : request[r].pc \notin HasJob
    BY DEF Init, NoRequest, HasJob, Counting
  <1>3. /\ \A j \in Jobs : Received(j) = {}
        /\ \A c \in Candidates : Active(c) = {}
    BY DEF Init, Received, Active
  <1>4. CountsFinite /\ ActiveWithinLimit
    BY <1>3, FS_EmptySet DEF CountsFinite, ActiveWithinLimit, ConstantsOK
  <1>5. QED
    BY <1>1, <1>2, <1>4 DEF RulesInv, LocksHeld, Admitted, UnderLimit, UnderCap, HasJob, Counting

\* Rule 3, for the candidate: however many applications race, no candidate has more active ones
\* than the limit.
THEOREM WithinLimit == ASSUME ConstantsOK PROVE Spec => []ActiveWithinLimit
  <1>1. RulesInv => ActiveWithinLimit
    BY DEF RulesInv
  <1>2. QED
    BY <1>1, RulesInit, RulesStep, PTL DEF Spec

\* An application comes to be only by an insert, whose checks still hold.
LEMMA AdmissionStep == ConstantsOK /\ RulesInv /\ [Next]_vars => AdmissionRules
  <1> SUFFICES ASSUME ConstantsOK, RulesInv, [Next]_vars, NEW j \in Jobs, NEW c \in Candidates,
                      stage[<<j, c>>] = NotApplied, stage'[<<j, c>>] # NotApplied
               PROVE  /\ status[j] = "published"
                      /\ profile[c].years_experience >= terms[j].min_experience_years
                      /\ ~CapReached(j)
    BY DEF AdmissionRules
  <1>0. TypeInv /\ TypeOK
    BY DEF RulesInv, TypeInv
  <1>1. \E r \in Requests : Step(r)
    BY DEF Next, Others, Begin, ChangeStatus, UpdateJob, DeleteJob, UpdateCandidate, DeleteCandidate,
           Cascade, vars, rows
  <1>2. PICK r \in Requests : Step(r)
    BY <1>1
  <1>3. /\ request[r].pc = "insert"
        /\ stage' = [stage EXCEPT ![ApplicationOf(r)] = "applied"]
    BY <1>0, <1>2, StepBranches DEF rows, TypeOK
  <1>4. ApplicationOf(r) = <<j, c>>
    BY <1>0, <1>3 DEF TypeOK
  <1>5. JobOf(r) = j /\ CandidateOf(r) = c
    BY <1>4 DEF ApplicationOf
  <1>6. Fits(r) /\ ~CapReached(JobOf(r))
    BY <1>3 DEF RulesInv, Admitted, UnderCap, Counting
  <1>7. QED
    BY <1>5, <1>6 DEF Fits

\* Rules 2 and 3, for the job: whenever an application is committed, the job is published, the
\* candidate has the years it asks for, and it is within its cap, as things are at that moment.
THEOREM Admission == ASSUME ConstantsOK PROVE Spec => [][AdmissionRules]_vars
  BY RulesInit, RulesStep, AdmissionStep, PTL DEF Spec
=============================================================================
