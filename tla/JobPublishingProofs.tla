------------------------- MODULE JobPublishingProofs -------------------------
(***************************************************************************)
(* Theorems about JobPublishing, for every set of requests and every       *)
(* number of edits, and for every set of faults unless a theorem says      *)
(* which it excludes.                                                      *)
(***************************************************************************)
EXTENDS JobPublishing, TLAPS

Assumptions == /\ MaxText \in Nat \ {0}
               /\ NoError \notin Requests
               /\ NoRun \notin Requests
               /\ Faults \subseteq FaultKinds

\* What the module assumes of its constants, under one name.
LEMMA AssumptionsHold == Assumptions
  BY MaxTextAssumption, NoErrorAssumption, NoRunAssumption, FaultsAssumption
  DEF Assumptions

-----------------------------------------------------------------------------
(***************************************************************************)
(* Types.                                                                  *)
(***************************************************************************)

\* What an activity writes is a job's row again.
LEMMA EffectType ==
  ASSUME TypeOK, NEW q \in Requests, NEW step \in Writing
  PROVE  Effect(step, q) \in Job
  <1>1. job \in Job /\ run[q] \in Run
    BY DEF TypeOK
  <1>2. StoreJobContent(job, run[q]) \in Job
    BY <1>1 DEF StoreJobContent, Job, Run, Content
  <1>3. MarkJobPublished(job) \in Job
    BY <1>1 DEF MarkJobPublished, Job, JobStatus
  <1>4. MarkJobPublishFailed(job, q) \in Job
    BY <1>1 DEF MarkJobPublishFailed, Job, JobStatus
  <1>5. QED
    BY <1>2, <1>3, <1>4 DEF Effect, Writing

\* Moving a request on leaves it a request.
LEMMA GotoType ==
  ASSUME TypeOK, NEW r \in Requests,
         NEW pc \in {"idle", "crashed"} \cup Pending \cup Answered, Goto(r, pc)
  PROVE  request' \in [Requests -> Request]
  BY DEF TypeOK, Goto, Request

\* Whatever a start of a run leaves behind is a run.
LEMMA StartWorkflowType ==
  ASSUME TypeOK, NEW r \in Requests, StartWorkflow(r)
  PROVE  run' \in [Requests -> Run] /\ latest' \in Requests
  <1>1. FreshRun \in Run
    BY AssumptionsHold DEF FreshRun, Run, Text, Working, Assumptions
  <1>2. ASSUME NEW q \in Requests PROVE Terminated(run[q]) \in Run
    <2>1. run[q] \in Run
      BY DEF TypeOK
    <2>2. run[q].strays \cup ({run[q].step} \cap Writing) \in SUBSET Writing
      BY <2>1 DEF Run
    <2>3. QED
      BY <2>1, <2>2 DEF Terminated, Run, Ended
  <1>3. QED
    BY <1>1, <1>2 DEF StartWorkflow, TypeOK

\* Every write of a request, a run or an activity leaves each variable in its type, however
\* many requests there are and whatever fails.
THEOREM TypeCorrect == Spec => []TypeOK
  <1> USE AssumptionsHold DEF Assumptions
  <1>1. Init => TypeOK
    BY DEF Init, TypeOK, Job, Request, Run, Content, Text, NoContent, Absent, JobStatus
  <1>2. TypeOK /\ [Next]_vars => TypeOK'
    <2> SUFFICES ASSUME TypeOK, [Next]_vars
                 PROVE  TypeOK'
      OBVIOUS
    <2>1. CASE Recruiter
      <3> USE DEF TypeOK, Job
      <3>1. job' \in Job
        <4>1. CASE CreateJob
          <5>1. 1 \in Text
            BY DEF Text
          <5>2. QED
            BY <4>1, <5>1 DEF CreateJob, JobStatus
        <4>2. CASE CloseJob
          BY <4>2 DEF CloseJob, JobStatus
        <4>3. CASE ReopenJob
          BY <4>3 DEF ReopenJob, JobStatus
        <4>4. CASE DeleteJob
          <5>1. NoContent \in Content
            BY DEF NoContent, Content, Text
          <5>2. QED
            BY <4>4, <5>1 DEF DeleteJob
        <4>5. QED
          BY <2>1, <4>1, <4>2, <4>3, <4>4 DEF Recruiter
      <3>2. QED
        BY <2>1, <3>1 DEF Recruiter, CreateJob, CloseJob, ReopenJob, DeleteJob
    <2>2. ASSUME NEW r \in Requests, Api(r)
          PROVE  TypeOK'
      <3>1. CASE EditRefused(r) \/ PublishRefused(r) \/ PublishNothingToDo(r) \/ ApiCrash(r)
        BY <3>1, GotoType
        DEF EditRefused, PublishRefused, PublishNothingToDo, ApiCrash, TypeOK, Answered
      <3>2. CASE Edit(r)
        <4>1. job' \in Job
          BY <3>2 DEF Edit, TypeOK, Job, Text
        <4>2. request' \in [Requests -> Request]
          BY <3>2, GotoType DEF Edit, Pending, Answered
        <4>3. QED
          BY <3>2, <4>1, <4>2 DEF Edit, TypeOK
      <3>3. CASE Publish(r)
        <4>1. job' \in Job
          BY <3>3 DEF Publish, TypeOK, Job, JobStatus
        <4>2. request' \in [Requests -> Request]
          BY <3>3 DEF Publish, TypeOK, Job, Request, JobStatus, Pending
        <4>3. QED
          BY <3>3, <4>1, <4>2 DEF Publish, TypeOK
      <3>4. CASE Start(r)
        <4>1. request' \in [Requests -> Request]
          BY <3>4, GotoType DEF Start, Answered
        <4>2. QED
          BY <3>4, <4>1, StartWorkflowType DEF Start, TypeOK
      <3>5. CASE StartUnreachable(r) \/ StartUnanswered(r)
        <4>1. request' \in [Requests -> Request]
          BY <3>5, GotoType
          DEF StartUnreachable, StartUnanswered, StartFailed, Answered, Pending
        <4>2. QED
          BY <3>5, <4>1, StartWorkflowType DEF StartUnreachable, StartUnanswered, TypeOK
      <3>6. CASE Revert(r)
        <4>1. job' \in Job
          <5>1. job \in Job /\ request[r] \in Request
            BY DEF TypeOK
          <5>2. [job EXCEPT !.status = request[r].previous_status,
                            !.publish_error = request[r].previous_error] \in Job
            BY <5>1 DEF Job, Request
          <5>3. QED
            BY <3>6, <5>1, <5>2 DEF Revert
        <4>2. request' \in [Requests -> Request]
          BY <3>6, GotoType DEF Revert, Answered
        <4>3. QED
          BY <3>6, <4>1, <4>2 DEF Revert, TypeOK
      <3>7. QED
        BY <2>2, <3>1, <3>2, <3>3, <3>4, <3>5, <3>6 DEF Api
    <2>3. ASSUME NEW q \in Requests, Worker(q)
          PROVE  TypeOK'
      <3>1. run[q] \in Run /\ job \in Job
        BY DEF TypeOK
      <3>2. CASE ExtractSkillsAndKeywords(q) \/ BreakDownDescription(q)
        <4>1. job.text \in Text
          BY <3>1 DEF Job
        <4>2. /\ [run[q] EXCEPT !.analysis = job.text] \in Run
              /\ [run[q] EXCEPT !.breakdown = job.text] \in Run
          BY <3>1, <4>1 DEF Run
        <4>3. ASSUME NEW x \in Run PROVE Gathered(x) \in Run
          BY DEF Gathered, Run, Working, Writing
        <4>4. QED
          BY <3>2, <4>2, <4>3 DEF ExtractSkillsAndKeywords, BreakDownDescription, TypeOK
      <3>3. CASE Execute(q)
        <4>1. job' \in Job
          BY <3>3, EffectType DEF Execute
        <4>2. [run[q] EXCEPT !.done = TRUE] \in Run
          BY <3>1 DEF Run
        <4>3. QED
          BY <3>3, <4>1, <4>2 DEF Execute, TypeOK
      <3>4. CASE Report(q)
        <4>1. \A step \in {"marking_ready", "completed", "failed"} :
                 [run[q] EXCEPT !.done = FALSE, !.step = step] \in Run
          BY <3>1 DEF Run, Working, Writing, Ended
        <4>2. run'[q] \in Run
          BY <3>4, <4>1 DEF Report, Writing, TypeOK
        <4>3. QED
          BY <3>4, <4>2 DEF Report, TypeOK
      <3>5. CASE LoseReport(q)
        <4>1. [run[q] EXCEPT !.done = FALSE] \in Run
          BY <3>1 DEF Run
        <4>2. QED
          BY <3>5, <4>1 DEF LoseReport, TypeOK
      <3>6. CASE GiveUp(q)
        <4>1. [run[q] EXCEPT !.step = "compensating"] \in Run
          BY <3>1 DEF Run, Working, Writing
        <4>2. QED
          BY <3>6, <4>1 DEF GiveUp, TypeOK
      <3>7. ASSUME NEW strays \in SUBSET Writing
            PROVE  [run[q] EXCEPT !.strays = strays] \in Run
        BY <3>1 DEF Run
      <3>8. CASE TimeOut(q)
        <4>1. run[q].strays \cup {run[q].step} \in SUBSET Writing
          BY <3>1, <3>8 DEF TimeOut, Run
        <4>2. QED
          BY <3>7, <3>8, <4>1 DEF TimeOut, TypeOK
      <3>9. CASE StrayCommits(q) \/ StrayDies(q)
        <4>1. PICK step \in run[q].strays :
                /\ job' = Effect(step, q) \/ UNCHANGED job
                /\ run' = [run EXCEPT ![q].strays = @ \ {step}]
                /\ UNCHANGED <<request, latest>>
          BY <3>9 DEF StrayCommits, StrayDies
        <4>2. run[q].strays \ {step} \in SUBSET Writing /\ step \in Writing
          BY <3>1 DEF Run
        <4>3. job' \in Job
          BY <3>1, <4>1, <4>2, EffectType
        <4>4. QED
          BY <3>7, <4>1, <4>2, <4>3 DEF TypeOK
      <3>10. QED
        BY <2>3, <3>2, <3>3, <3>4, <3>5, <3>6, <3>8, <3>9 DEF Worker
    <2>4. CASE UNCHANGED vars
      BY <2>4 DEF vars, TypeOK
    <2>5. QED
      BY <2>1, <2>2, <2>3, <2>4 DEF Next
  <1>3. QED
    BY <1>1, <1>2, PTL DEF Spec

-----------------------------------------------------------------------------
(***************************************************************************)
(* No job is stranded in processing.                                       *)
(***************************************************************************)

\* An activity moves a job out of processing or leaves its status alone: it never moves
\* one in.  Only the two last steps move it.
LEMMA EffectStatus ==
  ASSUME TypeOK, NEW q \in Requests, NEW step \in Writing
  PROVE  /\ step = "storing" => Effect(step, q).status = job.status
         /\ step # "storing" => Effect(step, q).status # "processing"
         /\ Effect(step, q).status = "processing" => job.status = "processing"
  <1>1. job \in Job
    BY DEF TypeOK
  <1>2. StoreJobContent(job, run[q]).status = job.status
    BY <1>1 DEF StoreJobContent, Job
  <1>3. MarkJobPublished(job).status # "processing"
    BY <1>1 DEF MarkJobPublished, Job
  <1>4. MarkJobPublishFailed(job, q).status # "processing"
    BY <1>1 DEF MarkJobPublishFailed, Job
  <1>5. QED
    BY <1>2, <1>3, <1>4 DEF Effect, Writing

\* The invariant is inductive: whoever owns the processing keeps it until the job leaves
\* processing or somebody else takes over.
LEMMA OwnerStep ==
  ASSUME TypeOK, NoOrphanedProcessing, [Next]_vars
  PROVE  NoOrphanedProcessing'
  <1> SUFFICES ASSUME job'.status = "processing"
               PROVE  \E r \in Requests : OwnedByRequest(r)' \/ OwnedByRun(r)'
    BY DEF NoOrphanedProcessing
  <1>1. CASE Recruiter
    BY <1>1 DEF Recruiter, CreateJob, CloseJob, ReopenJob, DeleteJob, TypeOK, Job, Absent
  <1>2. ASSUME NEW r \in Requests, Api(r)
        PROVE  \E o \in Requests : OwnedByRequest(o)' \/ OwnedByRun(o)'
    <2> DEFINE Untouched(o) == request'[o] = request[o] /\ run'[o] = run[o]
    <2>1. ASSUME NEW o \in Requests, OwnedByRequest(o) \/ OwnedByRun(o), Untouched(o)
          PROVE  OwnedByRequest(o)' \/ OwnedByRun(o)'
      BY <2>1 DEF OwnedByRequest, OwnedByRun, Live
    <2>2. CASE \/ EditRefused(r) \/ Edit(r) \/ PublishRefused(r) \/ PublishNothingToDo(r)
      <3>1. /\ job.status = "processing"
            /\ request[r].pc = "idle"
            /\ request'[r].previous_status = request[r].previous_status
            /\ run' = run
            /\ \A o \in Requests : o # r => request'[o] = request[o]
        BY <2>2 DEF EditRefused, Edit, PublishRefused, PublishNothingToDo, Goto, TypeOK,
                    Job, Request
      <3>2. PICK o \in Requests : OwnedByRequest(o) \/ OwnedByRun(o)
        BY <3>1 DEF NoOrphanedProcessing
      <3>3. QED
        BY <3>1, <3>2 DEF OwnedByRequest, OwnedByRun, Live
    <2>3. CASE Publish(r)
      <3>1. CASE job.status = "processing"
        <4>1. PICK o \in Requests : OwnedByRequest(o) \/ OwnedByRun(o)
          BY <3>1 DEF NoOrphanedProcessing
        <4>2. QED
          BY <2>3, <4>1 DEF Publish, OwnedByRequest, OwnedByRun, Live, TypeOK
      <3>2. CASE job.status # "processing"
        BY <2>3, <3>2 DEF Publish, OwnedByRequest, TypeOK
      <3>3. QED
        BY <3>1, <3>2
    <2>4. CASE Start(r) \/ StartUnanswered(r)
      <3>1. run'[r] = FreshRun
        BY <2>4 DEF Start, StartUnanswered, StartWorkflow
      <3>2. QED
        BY <3>1 DEF OwnedByRun, Live, FreshRun, Working
    <2>5. CASE StartUnreachable(r)
      <3>1. PICK o \in Requests : OwnedByRequest(o) \/ OwnedByRun(o)
        BY <2>5 DEF StartUnreachable, NoOrphanedProcessing
      <3>2. CASE o = r /\ OwnedByRequest(r)
        BY <2>5, <3>2 DEF StartUnreachable, StartFailed, Goto, OwnedByRequest, TypeOK, Request
      <3>3. CASE o # r \/ OwnedByRun(o)
        BY <2>5, <3>1, <3>3
        DEF StartUnreachable, StartFailed, Goto, OwnedByRequest, OwnedByRun, Live, TypeOK
      <3>4. QED
        BY <3>1, <3>2, <3>3
    <2>6. CASE Revert(r)
      <3>1. job.status = "processing" /\ request[r].previous_status = "processing"
        BY <2>6 DEF Revert, TypeOK, Job, Request
      <3>2. PICK o \in Requests : OwnedByRequest(o) \/ OwnedByRun(o)
        BY <3>1 DEF NoOrphanedProcessing
      <3>3. QED
        BY <2>6, <3>1, <3>2 DEF Revert, Goto, OwnedByRequest, OwnedByRun, Live, TypeOK
    <2>7. CASE ApiCrash(r)
      <3>1. PICK o \in Requests : OwnedByRequest(o) \/ OwnedByRun(o)
        BY <2>7 DEF ApiCrash, NoOrphanedProcessing
      <3>2. QED
        BY <2>7, <3>1
        DEF ApiCrash, Goto, OwnedByRequest, OwnedByRun, Live, TypeOK, Request, Pending
    <2>8. QED
      BY <1>2, <2>2, <2>3, <2>4, <2>5, <2>6, <2>7 DEF Api
  <1>3. ASSUME NEW q \in Requests, Worker(q)
        PROVE  \E o \in Requests : OwnedByRequest(o)' \/ OwnedByRun(o)'
    <2>1. run[q] \in Run /\ request' = request
      BY <1>3 DEF Worker, ExtractSkillsAndKeywords, BreakDownDescription, Execute, Report,
         LoseReport, GiveUp, TimeOut, StrayCommits, StrayDies, TypeOK
    <2>2. job.status = "processing"
      <3>1. CASE Execute(q)
        BY <3>1, EffectStatus DEF Execute
      <3>2. CASE StrayCommits(q)
        BY <2>1, <3>2, EffectStatus DEF StrayCommits, Run
      <3>3. QED
        BY <1>3, <3>1, <3>2 DEF Worker, ExtractSkillsAndKeywords, BreakDownDescription,
           Report, LoseReport, GiveUp, TimeOut, StrayDies
    <2>3. PICK o \in Requests : OwnedByRequest(o) \/ OwnedByRun(o)
      BY <2>2 DEF NoOrphanedProcessing
    <2>4. CASE OwnedByRequest(o) \/ o # q
      <3>1. o # q => run'[o] = run[o]
        BY <1>3 DEF Worker, ExtractSkillsAndKeywords, BreakDownDescription, Execute, Report,
           LoseReport, GiveUp, TimeOut, StrayCommits, StrayDies, TypeOK
      <3>2. QED
        BY <2>1, <2>3, <2>4, <3>1 DEF OwnedByRequest, OwnedByRun, Live
    <2>5. CASE o = q /\ OwnedByRun(q)
      <3> SUFFICES OwnedByRun(q)'
        OBVIOUS
      <3>1. CASE ExtractSkillsAndKeywords(q) \/ BreakDownDescription(q)
        <4>1. ~run[q].done /\ run[q].step = "analysing"
          BY <2>5, <3>1 DEF ExtractSkillsAndKeywords, BreakDownDescription, OwnedByRun
        <4>2. PICK x \in Run : /\ x.step = "analysing" /\ ~x.done
                              /\ run' = [run EXCEPT ![q] = Gathered(x)]
          <5>1. job.text \in Text
            BY DEF TypeOK, Job
          <5>2. /\ [run[q] EXCEPT !.analysis = job.text] \in Run
                /\ [run[q] EXCEPT !.breakdown = job.text] \in Run
            BY <2>1, <5>1 DEF Run
          <5>3. QED
            BY <2>1, <3>1, <4>1, <5>2
            DEF ExtractSkillsAndKeywords, BreakDownDescription, Run, TypeOK
        <4>3. run'[q].step \in {"analysing", "storing"} /\ ~run'[q].done
          BY <4>2 DEF Gathered, Run, TypeOK
        <4>4. QED
          BY <4>3 DEF OwnedByRun, Live, Working, Writing
      <3>2. CASE Execute(q)
        <4>1. run[q].step = "storing"
          BY <3>2, EffectStatus DEF Execute
        <4>2. QED
          BY <2>1, <2>5, <3>2, <4>1 DEF Execute, OwnedByRun, Live, Run, TypeOK
      <3>3. CASE Report(q)
        BY <2>1, <2>5, <3>3 DEF Report, OwnedByRun, Live, Run, Working, Writing, TypeOK
      <3>4. CASE LoseReport(q) \/ TimeOut(q) \/ StrayCommits(q) \/ StrayDies(q)
        BY <2>1, <2>5, <3>4
        DEF LoseReport, TimeOut, StrayCommits, StrayDies, OwnedByRun, Live, Run, TypeOK
      <3>5. CASE GiveUp(q)
        BY <2>1, <2>5, <3>5 DEF GiveUp, OwnedByRun, Live, Run, Working, Writing, TypeOK
      <3>6. QED
        BY <1>3, <3>1, <3>2, <3>3, <3>4, <3>5 DEF Worker
    <2>6. QED
      BY <2>3, <2>4, <2>5
  <1>4. CASE UNCHANGED vars
    BY <1>4 DEF vars, NoOrphanedProcessing, OwnedByRequest, OwnedByRun, Live
  <1>5. QED
    BY <1>1, <1>2, <1>3, <1>4 DEF Next

\* However many recruiters publish, edit, close, reopen and delete, whatever Temporal
\* and the worker do: a job in processing has somebody who will still move it on, or the
\* API process that should have has crashed.
THEOREM NoOrphans == Spec => []NoOrphanedProcessing
  <1>1. Init => NoOrphanedProcessing
    BY DEF Init, NoOrphanedProcessing, Absent
  <1>2. QED
    BY <1>1, TypeCorrect, OwnerStep, PTL DEF Spec

-----------------------------------------------------------------------------
(***************************************************************************)
(* The row's fields fit its status.  FieldsFitStatus is not inductive: a   *)
(* revert writes back what its request remembered, so that has to fit too, *)
(* and create_job starts from the row Init and DeleteJob leave.            *)
(***************************************************************************)
PreviousFits(r) ==
  request[r].pc \in {"starting", "reverting"} =>
    /\ request[r].previous_status \in {"draft", "publish_failed", "processing"}
    /\ request[r].pc = "reverting" => request[r].previous_status # "processing"
    /\ request[r].previous_status = "publish_failed" => request[r].previous_error # NoError

FieldsInv ==
  /\ FieldsFitStatus
  /\ job.status = Absent => ~job.published_at
  /\ \A r \in Requests : PreviousFits(r)

\* Every step keeps the row's fields fit for its status, and with them what a revert
\* would write back.
LEMMA FieldsStep ==
  ASSUME TypeOK, FieldsInv, [Next]_vars
  PROVE  FieldsInv'
  <1> DEFINE RowFits == FieldsFitStatus /\ (job.status = Absent => ~job.published_at)
  <1> USE AssumptionsHold DEF Assumptions
  <1>1. RowFits /\ job \in Job
    BY DEF FieldsInv, TypeOK
  <1>2. job' = job => RowFits'
    BY <1>1 DEF FieldsFitStatus
  <1>3. request' = request => \A o \in Requests : PreviousFits(o)'
    BY DEF FieldsInv, PreviousFits
  <1>4. CASE Recruiter
    <2>1. RowFits'
      <3>1. CASE CreateJob
        BY <1>1, <3>1 DEF CreateJob, Exists, FieldsFitStatus, Job, Absent
      <3>2. CASE CloseJob
        BY <1>1, <3>2 DEF CloseJob, FieldsFitStatus, Job, Absent
      <3>3. CASE ReopenJob
        BY <1>1, <3>3 DEF ReopenJob, FieldsFitStatus, Job, Absent
      <3>4. CASE DeleteJob
        BY <1>1, <3>4 DEF DeleteJob, FieldsFitStatus, Job, Absent
      <3>5. QED
        BY <1>4, <3>1, <3>2, <3>3, <3>4 DEF Recruiter
    <2>2. QED
      BY <1>3, <1>4, <2>1
      DEF Recruiter, CreateJob, CloseJob, ReopenJob, DeleteJob, FieldsInv
  <1>5. ASSUME NEW r \in Requests, Api(r)
        PROVE  FieldsInv'
    <2>1. \A o \in Requests \ {r} : PreviousFits(o)'
      BY <1>5 DEF Api, EditRefused, Edit, PublishRefused, PublishNothingToDo, Publish, Start,
         StartUnreachable, StartUnanswered, StartFailed, Revert, ApiCrash, Goto, FieldsInv,
         PreviousFits, TypeOK
    <2>2. ASSUME NEW pc \in {"idle", "crashed", "refreshing"} \cup Answered, Goto(r, pc)
          PROVE  PreviousFits(r)'
      BY <2>2 DEF Goto, PreviousFits, TypeOK, Request, Answered
    <2>3. CASE EditRefused(r) \/ PublishRefused(r) \/ PublishNothingToDo(r) \/ ApiCrash(r)
      <3>1. PreviousFits(r)' /\ job' = job
        BY <2>2, <2>3
        DEF EditRefused, PublishRefused, PublishNothingToDo, ApiCrash, Answered
      <3>2. QED
        BY <1>2, <2>1, <3>1 DEF FieldsInv
    <2>4. CASE Edit(r)
      <3>1. PreviousFits(r)'
        BY <2>2, <2>4 DEF Edit, Answered
      <3>2. RowFits'
        BY <1>1, <2>4 DEF Edit, FieldsFitStatus, Job
      <3>3. QED
        BY <2>1, <3>1, <3>2 DEF FieldsInv
    <2>5. CASE Publish(r)
      <3>1. PreviousFits(r)'
        BY <1>1, <2>5 DEF Publish, PreviousFits, FieldsFitStatus, TypeOK
      <3>2. RowFits'
        BY <1>1, <2>5 DEF Publish, FieldsFitStatus, Job, Absent
      <3>3. QED
        BY <2>1, <3>1, <3>2 DEF FieldsInv
    <2>6. CASE Start(r)
      <3>1. PreviousFits(r)' /\ job' = job
        BY <2>2, <2>6 DEF Start, Answered
      <3>2. QED
        BY <1>2, <2>1, <3>1 DEF FieldsInv
    <2>7. CASE StartUnreachable(r) \/ StartUnanswered(r)
      <3>1. job' = job /\ StartFailed(r) /\ request[r].pc \in {"starting", "refreshing"}
        BY <2>7 DEF StartUnreachable, StartUnanswered
      <3>2. PreviousFits(r)'
        BY <2>2, <3>1 DEF StartFailed, Goto, FieldsInv, PreviousFits, TypeOK, Request, Answered
      <3>3. QED
        BY <1>2, <2>1, <3>1, <3>2 DEF FieldsInv
    <2>8. CASE Revert(r)
      <3>1. PreviousFits(r)'
        BY <2>2, <2>8 DEF Revert, Answered
      <3>2. RowFits'
        BY <1>1, <2>8
        DEF Revert, FieldsFitStatus, FieldsInv, PreviousFits, Job, TypeOK, Request, Absent
      <3>3. QED
        BY <2>1, <3>1, <3>2 DEF FieldsInv
    <2>9. QED
      BY <1>5, <2>3, <2>4, <2>5, <2>6, <2>7, <2>8 DEF Api
  <1>6. ASSUME NEW q \in Requests, Worker(q)
        PROVE  FieldsInv'
    <2>1. request' = request
      BY <1>6 DEF Worker, ExtractSkillsAndKeywords, BreakDownDescription, Execute, Report,
         LoseReport, GiveUp, TimeOut, StrayCommits, StrayDies
    <2>2. \/ job' = job
          \/ \E step \in Writing : job' = Effect(step, q)
      BY <1>6 DEF Worker, ExtractSkillsAndKeywords, BreakDownDescription, Execute, Report,
         LoseReport, GiveUp, TimeOut, StrayCommits, StrayDies, TypeOK, Run
    <2>3. ASSUME NEW step \in Writing, job' = Effect(step, q)
          PROVE  RowFits'
      <3>1. CASE step = "storing"
        BY <1>1, <2>3, <3>1 DEF Effect, StoreJobContent, FieldsFitStatus, Job
      <3>2. CASE step = "marking_ready"
        BY <1>1, <2>3, <3>2 DEF Effect, MarkJobPublished, FieldsFitStatus, Job, Absent
      <3>3. CASE step = "compensating"
        BY <1>1, <2>3, <3>3 DEF Effect, MarkJobPublishFailed, FieldsFitStatus, Job, Absent
      <3>4. QED
        BY <3>1, <3>2, <3>3 DEF Writing
    <2>4. QED
      BY <1>2, <1>3, <2>1, <2>2, <2>3 DEF FieldsInv
  <1>7. CASE UNCHANGED vars
    BY <1>2, <1>3, <1>7 DEF vars, FieldsInv
  <1>8. QED
    BY <1>4, <1>5, <1>6, <1>7 DEF Next

\* The strengthened invariant holds of every run of the specification.
LEMMA FieldsInvariant == Spec => [](TypeOK /\ FieldsInv)
  <1>1. Init => FieldsInv
    BY DEF Init, FieldsInv, FieldsFitStatus, PreviousFits, Absent
  <1>2. QED
    BY <1>1, TypeCorrect, FieldsStep, PTL DEF Spec

\* A reader of the row never sees a publication date on a job that is not published or
\* closed, nor the failure of an earlier attempt on one that is processing or published.
THEOREM FieldsAlwaysFit == Spec => []FieldsFitStatus
  BY FieldsInvariant, PTL DEF FieldsInv

-----------------------------------------------------------------------------
(***************************************************************************)
(* The job's visible state is that of JobLifecycle.                        *)
(***************************************************************************)

\* Every step of the code is a step of the lifecycle, or leaves the status and the
\* publication date alone.
LEMMA LifecycleStep ==
  ASSUME TypeOK, FieldsInv, [Next]_vars
  PROVE  [Lifecycle!Next]_<<job.status, job.published_at>>
  <1> DEFINE Stutters == UNCHANGED <<job.status, job.published_at>>
  <1> USE DEF Lifecycle!Next, Lifecycle!Absent
  <1>1. job \in Job
    BY DEF TypeOK
  <1>2. CASE Recruiter
    <2>1. CASE CreateJob
      BY <1>1, <2>1 DEF CreateJob, Exists, Lifecycle!Create, FieldsInv, Job, Absent
    <2>2. CASE CloseJob
      BY <1>1, <2>2 DEF CloseJob, Exists, Lifecycle!Close, Job, Absent
    <2>3. CASE ReopenJob
      BY <1>1, <2>3 DEF ReopenJob, Lifecycle!Reopen, Job
    <2>4. CASE DeleteJob
      BY <1>1, <2>4 DEF DeleteJob, Exists, Lifecycle!Delete, Job, Absent
    <2>5. QED
      BY <1>2, <2>1, <2>2, <2>3, <2>4 DEF Recruiter
  <1>3. ASSUME NEW r \in Requests, Api(r)
        PROVE  [Lifecycle!Next]_<<job.status, job.published_at>>
    <2>1. CASE Edit(r)
      BY <1>1, <2>1 DEF Edit, Job
    <2>2. CASE Publish(r)
      BY <1>1, <2>2 DEF Publish, Lifecycle!Publish, Job
    <2>3. CASE Revert(r)
      <3>1. request[r].previous_status \in {"draft", "publish_failed"}
        BY <2>3 DEF Revert, FieldsInv, PreviousFits
      <3>2. QED
        BY <1>1, <2>3, <3>1 DEF Revert, Lifecycle!UndoStart, Job
    <2>4. CASE job' = job
      BY <2>4
    <2>5. QED
      BY <1>3, <2>1, <2>2, <2>3, <2>4 DEF Api, EditRefused, PublishRefused,
         PublishNothingToDo, Start, StartUnreachable, StartUnanswered, ApiCrash
  <1>4. ASSUME NEW q \in Requests, Worker(q)
        PROVE  [Lifecycle!Next]_<<job.status, job.published_at>>
    <2>1. \/ job' = job
          \/ \E step \in Writing : job' = Effect(step, q)
      BY <1>4 DEF Worker, ExtractSkillsAndKeywords, BreakDownDescription, Execute, Report,
         LoseReport, GiveUp, TimeOut, StrayCommits, StrayDies, TypeOK, Run
    <2>2. ASSUME NEW step \in Writing, job' = Effect(step, q)
          PROVE  [Lifecycle!Next]_<<job.status, job.published_at>>
      <3>1. CASE step = "storing"
        BY <1>1, <2>2, <3>1 DEF Effect, StoreJobContent, Job
      <3>2. CASE step = "marking_ready"
        BY <1>1, <2>2, <3>2 DEF Effect, MarkJobPublished, Lifecycle!Succeed, Job
      <3>3. CASE step = "compensating"
        BY <1>1, <2>2, <3>3 DEF Effect, MarkJobPublishFailed, Lifecycle!Fail, Job
      <3>4. QED
        BY <3>1, <3>2, <3>3 DEF Writing
    <2>3. QED
      BY <2>1, <2>2
  <1>5. CASE UNCHANGED vars
    BY <1>5 DEF vars
  <1>6. QED
    BY <1>2, <1>3, <1>4, <1>5 DEF Next

\* Whatever the requests, the runs and Temporal do, a job moves only along the edges of
\* its documented lifecycle.
THEOREM Implements == Spec => ImplementsLifecycle
  <1>1. Init => Lifecycle!Init
    BY DEF Init, Lifecycle!Init, Lifecycle!Absent, Absent
  <1>2. TypeOK /\ FieldsInv /\ [Next]_vars => [Lifecycle!Next]_(Lifecycle!vars)
    BY LifecycleStep DEF Lifecycle!vars
  <1>3. QED
    BY <1>1, <1>2, FieldsInvariant, PTL DEF Spec, ImplementsLifecycle, Lifecycle!Spec

-----------------------------------------------------------------------------
(***************************************************************************)
(* A closed job.                                                           *)
(***************************************************************************)

\* No activity moves a closed job, however late it commits.
LEMMA EffectOnClosed ==
  ASSUME TypeOK, NEW q \in Requests, NEW step \in Writing, job.status = "closed"
  PROVE  /\ Effect(step, q).status = "closed"
         /\ Effect(step, q).published_at = job.published_at
  BY DEF TypeOK, Job, Effect, Writing, StoreJobContent, MarkJobPublished,
         MarkJobPublishFailed, Absent

\* No run, stray attempt or revert that is still under way when a recruiter closes a job
\* ever takes it out of closed again.
THEOREM ClosedStays == Spec => OnlyReopenLeavesClosed
  <1> DEFINE Kept == \/ job'.status = "closed" /\ job'.published_at = job.published_at
                     \/ job'.status = "draft" /\ ~job'.published_at /\ UNCHANGED <<request, run>>
                     \/ job'.status = Absent
  <1>1. ASSUME TypeOK, [Next]_vars, job.status = "closed"
        PROVE  Kept
    <2>1. job \in Job
      BY <1>1 DEF TypeOK
    <2>2. CASE Recruiter
      BY <1>1, <2>1, <2>2
      DEF Recruiter, CreateJob, CloseJob, ReopenJob, DeleteJob, Exists, Job, Absent
    <2>3. ASSUME NEW r \in Requests, Api(r)
          PROVE  job' = job
      BY <1>1, <2>3 DEF Api, EditRefused, Edit, PublishRefused, PublishNothingToDo, Publish,
         Start, StartUnreachable, StartUnanswered, Revert, ApiCrash
    <2>4. ASSUME NEW q \in Requests, Worker(q)
          PROVE  job'.status = "closed" /\ job'.published_at = job.published_at
      <3>1. \/ job' = job
            \/ \E step \in Writing : job' = Effect(step, q)
        BY <1>1, <2>4 DEF Worker, ExtractSkillsAndKeywords, BreakDownDescription, Execute,
           Report, LoseReport, GiveUp, TimeOut, StrayCommits, StrayDies, TypeOK, Run
      <3>2. QED
        BY <1>1, <3>1, EffectOnClosed
    <2>5. CASE UNCHANGED vars
      BY <1>1, <2>5 DEF vars
    <2>6. QED
      BY <1>1, <2>2, <2>3, <2>4, <2>5 DEF Next
  <1>2. TypeOK /\ [Next]_vars => [job.status = "closed" => Kept]_vars
    BY <1>1
  <1>3. QED
    BY <1>2, TypeCorrect, PTL DEF Spec, OnlyReopenLeavesClosed

-----------------------------------------------------------------------------
(***************************************************************************)
(* The newest request wins.  A run that TERMINATE_EXISTING has ended       *)
(* writes nothing more unless an attempt of it outlives it, so here nothing *)
(* strays.  NewestRunWins is not inductive: that the content is the newest *)
(* run's has to be known from the step that stores it on, that no other    *)
(* run writes, and that nothing is published, nor put back to published,   *)
(* before a run has been started.                                          *)
(***************************************************************************)
NoStrays == \A q \in Requests : run[q].strays = {}

OnlyWritesAreDone == \A q \in Requests : run[q].done => run[q].step \in Writing

OnlyTheLatestIsLive == \A q \in Requests : Live(q) => q = latest

NothingBeforeTheText ==
  job.text = 0 =>
    /\ ~Exists
    /\ latest = NoRun
    /\ \A r \in Requests : request[r].pc \notin Pending

PublishedByARun ==
  /\ job.status = "published" => latest # NoRun
  /\ \A r \in Requests : request[r].previous_status # "published"

HasStored(q) ==
  \/ run[q].step = "storing" /\ run[q].done
  \/ run[q].step \in {"marking_ready", "completed"}

ContentIsTheLatests ==
  (Exists /\ latest # NoRun /\ HasStored(latest)) =>
    job.content = [analysis |-> run[latest].analysis, breakdown |-> run[latest].breakdown]

NewestInv ==
  /\ NoStrays
  /\ OnlyWritesAreDone
  /\ OnlyTheLatestIsLive
  /\ NothingBeforeTheText
  /\ PublishedByARun
  /\ ContentIsTheLatests

\* What a start leaves behind: the new run, at its beginning, and no other under way.
LEMMA StartedAlone ==
  ASSUME TypeOK, NoStrays, OnlyWritesAreDone, OnlyTheLatestIsLive, "stray" \notin Faults,
         NEW r \in Requests, StartWorkflow(r)
  PROVE  /\ latest' = r
         /\ run'[r] = FreshRun
         /\ NoStrays'
         /\ OnlyWritesAreDone'
         /\ OnlyTheLatestIsLive'
  <1>1. latest' = r /\ run'[r] = FreshRun
    BY DEF StartWorkflow
  <1>2. ASSUME NEW q \in Requests, q # r
        PROVE  /\ run'[q].strays = {}
               /\ ~Live(q)'
               /\ run'[q].done => run'[q].step \in Writing
    <2>1. run[q] \in Run /\ run[q].strays = {} /\ (run[q].done => run[q].step \in Writing)
      BY DEF TypeOK, NoStrays, OnlyWritesAreDone
    <2>2. CASE Live(q)
      BY <1>2, <2>1, <2>2 DEF StartWorkflow, Terminated, Live, Run, Working, Writing
    <2>3. CASE ~Live(q)
      BY <1>2, <2>1, <2>3 DEF StartWorkflow, Live
    <2>4. QED
      BY <2>2, <2>3
  <1>3. QED
    BY <1>1, <1>2 DEF NoStrays, OnlyWritesAreDone, OnlyTheLatestIsLive, FreshRun

\* A run's step moves that run alone, which was under way and stays so or ends, and writes
\* the row only when an activity commits.
LEMMA WorkerStep ==
  ASSUME TypeOK, NoStrays, OnlyWritesAreDone, "stray" \notin Faults,
         NEW q \in Requests, Worker(q)
  PROVE  /\ Live(q)
         /\ run'[q].strays = {}
         /\ run'[q].done => run'[q].step \in Writing
         /\ \A o \in Requests \ {q} : run'[o] = run[o]
         /\ UNCHANGED <<request, latest>>
         /\ job' = job \/ Execute(q)
  <1>1. run[q] \in Run /\ run[q].strays = {} /\ (run[q].done => run[q].step \in Writing)
    BY DEF TypeOK, NoStrays, OnlyWritesAreDone
  <1>2. ~TimeOut(q) /\ ~StrayCommits(q) /\ ~StrayDies(q)
    BY <1>1 DEF TimeOut, StrayCommits, StrayDies
  <1>3. CASE ExtractSkillsAndKeywords(q) \/ BreakDownDescription(q)
    <2>1. ASSUME NEW x \in Run, x.strays = {}, ~x.done
          PROVE  Gathered(x).strays = {} /\ ~Gathered(x).done
      BY <2>1 DEF Gathered, Run
    <2>2. /\ [run[q] EXCEPT !.analysis = job.text] \in Run
          /\ [run[q] EXCEPT !.breakdown = job.text] \in Run
      BY <1>1 DEF Run, TypeOK, Job
    <2>3. ~run[q].done
      BY <1>1, <1>3 DEF ExtractSkillsAndKeywords, BreakDownDescription, Writing
    <2>4. \A text \in Text :
            /\ [run[q] EXCEPT !.analysis = text].strays = {}
            /\ ~[run[q] EXCEPT !.analysis = text].done
            /\ [run[q] EXCEPT !.breakdown = text].strays = {}
            /\ ~[run[q] EXCEPT !.breakdown = text].done
      BY <1>1, <2>3 DEF Run
    <2>5. job.text \in Text
      BY DEF TypeOK, Job
    <2>6. QED
      BY <1>3, <2>1, <2>2, <2>4, <2>5
      DEF ExtractSkillsAndKeywords, BreakDownDescription, Live, Working, TypeOK
  <1>4. CASE Execute(q)
    BY <1>1, <1>4 DEF Execute, Live, Working, TypeOK, Run
  <1>5. CASE Report(q)
    BY <1>1, <1>5 DEF Report, Live, Working, TypeOK, Run
  <1>6. CASE LoseReport(q)
    BY <1>1, <1>6 DEF LoseReport, Live, Working, TypeOK, Run
  <1>7. CASE GiveUp(q)
    BY <1>1, <1>7 DEF GiveUp, Live, Working, Writing, TypeOK, Run
  <1>8. QED
    BY <1>2, <1>3, <1>4, <1>5, <1>6, <1>7 DEF Worker

\* A run comes to have stored its content only by storing it, and from then on what it has
\* read stays as it is.
LEMMA StoredStep ==
  ASSUME TypeOK, NoStrays, OnlyWritesAreDone, "stray" \notin Faults,
         NEW q \in Requests, Worker(q), HasStored(q)'
  PROVE  /\ run'[q].analysis = run[q].analysis
         /\ run'[q].breakdown = run[q].breakdown
         /\ HasStored(q) \/ (Execute(q) /\ run[q].step = "storing")
  <1>1. run[q] \in Run /\ run[q].strays = {} /\ (run[q].done => run[q].step \in Writing)
    BY DEF TypeOK, NoStrays, OnlyWritesAreDone
  <1>2. ~TimeOut(q) /\ ~StrayCommits(q) /\ ~StrayDies(q)
    BY <1>1 DEF TimeOut, StrayCommits, StrayDies
  <1>3. ~ExtractSkillsAndKeywords(q) /\ ~BreakDownDescription(q)
    <2> SUFFICES ASSUME ExtractSkillsAndKeywords(q) \/ BreakDownDescription(q)
                 PROVE  FALSE
      OBVIOUS
    <2>1. ~run[q].done /\ run[q].step = "analysing"
      BY <1>1 DEF ExtractSkillsAndKeywords, BreakDownDescription, Writing
    <2>2. ASSUME NEW x \in Run, x.step = "analysing", ~x.done
          PROVE  Gathered(x).step \in {"analysing", "storing"} /\ ~Gathered(x).done
      BY <2>2 DEF Gathered, Run
    <2>3. ASSUME NEW text \in Text
          PROVE  /\ [run[q] EXCEPT !.analysis = text] \in Run
                 /\ [run[q] EXCEPT !.analysis = text].step = "analysing"
                 /\ ~[run[q] EXCEPT !.analysis = text].done
                 /\ [run[q] EXCEPT !.breakdown = text] \in Run
                 /\ [run[q] EXCEPT !.breakdown = text].step = "analysing"
                 /\ ~[run[q] EXCEPT !.breakdown = text].done
      BY <1>1, <2>1 DEF Run
    <2>4. job.text \in Text
      BY DEF TypeOK, Job
    <2>5. run'[q].step \in {"analysing", "storing"} /\ ~run'[q].done
      BY <2>2, <2>3, <2>4 DEF ExtractSkillsAndKeywords, BreakDownDescription, TypeOK
    <2>6. QED
      BY <2>5 DEF HasStored
  <1>4. CASE Execute(q)
    BY <1>1, <1>4 DEF Execute, HasStored, Writing, TypeOK, Run
  <1>5. CASE Report(q)
    BY <1>1, <1>5 DEF Report, HasStored, Writing, TypeOK, Run
  <1>6. CASE LoseReport(q)
    BY <1>1, <1>6 DEF LoseReport, HasStored, TypeOK, Run
  <1>7. CASE GiveUp(q)
    BY <1>1, <1>7 DEF GiveUp, HasStored, TypeOK, Run
  <1>8. QED
    BY <1>2, <1>3, <1>4, <1>5, <1>6, <1>7 DEF Worker

\* A start, a recruiter or a worker's step leaves at most one run under way, and the content
\* that of the newest run once it is stored.
LEMMA NewestStep ==
  ASSUME TypeOK, NewestInv, "stray" \notin Faults, [Next]_vars
  PROVE  NewestInv'
  <1> USE AssumptionsHold DEF Assumptions
  <1>1. job \in Job /\ \A r \in Requests : request[r] \in Request /\ run[r] \in Run
    BY DEF TypeOK
  <1>2. UNCHANGED <<run, latest>> =>
          NoStrays' /\ OnlyWritesAreDone' /\ OnlyTheLatestIsLive'
    BY DEF NewestInv, NoStrays, OnlyWritesAreDone, OnlyTheLatestIsLive, Live
  <1>3. (UNCHANGED <<run, latest>> /\ (job'.status = Absent \/ job'.content = job.content)
           /\ (Exists' => Exists \/ latest = NoRun)) => ContentIsTheLatests'
    BY DEF NewestInv, ContentIsTheLatests, HasStored, Exists
  <1>4. CASE Recruiter
    <2>1. NothingBeforeTheText'
      <3>1. CASE CreateJob
        BY <1>1, <3>1 DEF CreateJob, NothingBeforeTheText, Job
      <3>2. CASE CloseJob \/ ReopenJob \/ DeleteJob
        <4>1. Exists /\ job'.text = job.text
          BY <1>1, <3>2 DEF CloseJob, ReopenJob, DeleteJob, Exists, Job, Absent
        <4>2. QED
          BY <4>1 DEF NewestInv, NothingBeforeTheText
      <3>3. QED
        BY <1>4, <3>1, <3>2 DEF Recruiter
    <2>2. PublishedByARun'
      BY <1>1, <1>4 DEF Recruiter, CreateJob, CloseJob, ReopenJob, DeleteJob, NewestInv,
         PublishedByARun, Job, Absent
    <2>3. ContentIsTheLatests'
      <3>1. job'.status = Absent \/ job'.content = job.content
        BY <1>1, <1>4 DEF Recruiter, CreateJob, CloseJob, ReopenJob, DeleteJob, Job
      <3>2. Exists' => Exists \/ latest = NoRun
        BY <1>1, <1>4 DEF Recruiter, CreateJob, CloseJob, ReopenJob, DeleteJob, Job, Exists,
           NewestInv, NothingBeforeTheText, Absent
      <3>3. QED
        BY <1>3, <1>4, <3>1, <3>2 DEF Recruiter, CreateJob, CloseJob, ReopenJob, DeleteJob
    <2>4. QED
      BY <1>2, <1>4, <2>1, <2>2, <2>3
      DEF Recruiter, CreateJob, CloseJob, ReopenJob, DeleteJob, NewestInv
  <1>5. ASSUME NEW r \in Requests, Api(r)
        PROVE  NewestInv'
    <2>1. \A o \in Requests : request'[o].previous_status # "published"
      BY <1>1, <1>5 DEF Api, EditRefused, Edit, PublishRefused, PublishNothingToDo, Publish,
         Start, StartUnreachable, StartUnanswered, StartFailed, Revert, ApiCrash, Goto,
         NewestInv, PublishedByARun, TypeOK, Request
    <2>2. CASE Start(r) \/ StartUnanswered(r)
      <3>1. StartWorkflow(r) /\ job' = job /\ request[r].pc \in Pending
        BY <2>2 DEF Start, StartUnanswered, Pending
      <3>2. /\ latest' = r
            /\ run'[r] = FreshRun
            /\ NoStrays' /\ OnlyWritesAreDone' /\ OnlyTheLatestIsLive'
        BY <3>1, StartedAlone DEF NewestInv
      <3>3. job.text # 0
        BY <3>1 DEF NewestInv, NothingBeforeTheText
      <3>4. ~HasStored(latest)'
        BY <3>2 DEF HasStored, FreshRun
      <3>5. QED
        BY <2>1, <3>1, <3>2, <3>3, <3>4
        DEF NewestInv, NothingBeforeTheText, PublishedByARun, ContentIsTheLatests
    <2>3. CASE ~Start(r) /\ ~StartUnanswered(r)
      <3>1. UNCHANGED <<run, latest>> /\ job'.content = job.content /\ (Exists' => Exists)
        BY <1>1, <1>5, <2>3 DEF Api, EditRefused, Edit, PublishRefused, PublishNothingToDo,
           Publish, StartUnreachable, Revert, ApiCrash, Job, Exists, Absent
      <3>2. NothingBeforeTheText'
        <4>1. job.text = 0 => ~Exists
          BY DEF NewestInv, NothingBeforeTheText
        <4>2. job.text # 0 => job'.text # 0
          <5>1. CASE Edit(r)
            BY <1>1, <5>1 DEF Edit, Job, Text
          <5>2. CASE ~Edit(r)
            BY <1>1, <1>5, <2>3, <5>2 DEF Api, EditRefused, PublishRefused,
               PublishNothingToDo, Publish, StartUnreachable, Revert, ApiCrash, Job
          <5>3. QED
            BY <5>1, <5>2
        <4>3. ~Exists => job' = job
          BY <1>1, <1>5, <2>3 DEF Api, EditRefused, Edit, PublishRefused, PublishNothingToDo,
             Publish, StartUnreachable, Revert, ApiCrash, Exists, Absent
        <4>4. ASSUME job.text = 0, job' = job
              PROVE  \A o \in Requests : request'[o].pc \notin Pending
          BY <1>1, <1>5, <2>3, <4>4 DEF Api, EditRefused, Edit, PublishRefused,
             PublishNothingToDo, Publish, StartUnreachable, Revert, ApiCrash, Goto, Exists,
             Absent, NewestInv, NothingBeforeTheText, TypeOK, Request, Pending
        <4>5. QED
          BY <3>1, <4>1, <4>2, <4>3, <4>4 DEF NewestInv, NothingBeforeTheText, Exists
      <3>3. job'.status = "published" => job.status = "published"
        BY <1>1, <1>5, <2>3 DEF Api, EditRefused, Edit, PublishRefused, PublishNothingToDo,
           Publish, StartUnreachable, Revert, ApiCrash, Job, Request, NewestInv,
           PublishedByARun
      <3>4. QED
        BY <1>2, <1>3, <2>1, <3>1, <3>2, <3>3 DEF NewestInv, PublishedByARun
    <2>4. QED
      BY <2>2, <2>3
  <1>6. ASSUME NEW q \in Requests, Worker(q)
        PROVE  NewestInv'
    <2>1. /\ Live(q) /\ q = latest
          /\ run'[q].strays = {}
          /\ run'[q].done => run'[q].step \in Writing
          /\ \A o \in Requests \ {q} : run'[o] = run[o]
          /\ UNCHANGED <<request, latest>>
          /\ job' = job \/ Execute(q)
      BY <1>6, WorkerStep DEF NewestInv, OnlyTheLatestIsLive
    <2>2. NoStrays' /\ OnlyWritesAreDone' /\ OnlyTheLatestIsLive'
      BY <2>1 DEF NewestInv, NoStrays, OnlyWritesAreDone, OnlyTheLatestIsLive, Live
    <2>3. Execute(q) => /\ job'.text = job.text
                        /\ Exists' => Exists
                        /\ ~Exists => job' = job
                        /\ job' \in Job
                        /\ run[q].step # "storing" => job'.content = job.content
      <3>1. ASSUME NEW step \in Writing
            PROVE  /\ Effect(step, q).text = job.text
                   /\ job.status = Absent => Effect(step, q) = job
                   /\ step # "storing" => Effect(step, q).content = job.content
        BY <1>1 DEF Effect, Writing, StoreJobContent, MarkJobPublished, MarkJobPublishFailed,
           Job, Absent
      <3>2. QED
        BY <3>1, EffectType DEF Execute, Exists
    <2>4. NothingBeforeTheText'
      BY <2>1, <2>3 DEF NewestInv, NothingBeforeTheText, Exists
    <2>5. PublishedByARun'
      BY <1>1, <2>1 DEF NewestInv, PublishedByARun
    <2>6. ContentIsTheLatests'
      <3> SUFFICES ASSUME Exists', HasStored(q)'
                   PROVE  job'.content = [analysis |-> run'[q].analysis,
                                          breakdown |-> run'[q].breakdown]
        BY <2>1 DEF ContentIsTheLatests
      <3>1. /\ run'[q].analysis = run[q].analysis
            /\ run'[q].breakdown = run[q].breakdown
            /\ HasStored(q) \/ (Execute(q) /\ run[q].step = "storing")
        BY <1>6, StoredStep DEF NewestInv
      <3>2. CASE Execute(q) /\ run[q].step = "storing"
        <4>1. job' = StoreJobContent(job, run[q]) /\ Exists
          BY <3>2 DEF Execute, Effect
        <4>2. QED
          BY <1>1, <3>1, <4>1 DEF StoreJobContent, Exists, Job
      <3>3. CASE HasStored(q) /\ ~(Execute(q) /\ run[q].step = "storing")
        <4>1. Exists /\ job'.content = job.content
          BY <2>1, <2>3, <3>3 DEF Exists
        <4>2. QED
          BY <2>1, <3>1, <3>3, <4>1 DEF NewestInv, ContentIsTheLatests
      <3>4. QED
        BY <3>1, <3>2, <3>3
    <2>7. QED
      BY <2>2, <2>4, <2>5, <2>6 DEF NewestInv
  <1>7. CASE UNCHANGED vars
    BY <1>2, <1>3, <1>7 DEF vars, NewestInv, NothingBeforeTheText, PublishedByARun, Exists
  <1>8. QED
    BY <1>4, <1>5, <1>6, <1>7 DEF Next

\* The strengthened invariant holds of every behaviour in which no attempt strays.
LEMMA NewestInvariant ==
  ASSUME "stray" \notin Faults
  PROVE  Spec => [](TypeOK /\ NewestInv)
  <1>1. Init => NewestInv
    BY DEF Init, NewestInv, NoStrays, OnlyWritesAreDone, OnlyTheLatestIsLive, Live, Working,
       Writing, NothingBeforeTheText, Exists, PublishedByARun, ContentIsTheLatests, Absent,
       Pending
  <1>2. TypeOK /\ NewestInv /\ [Next]_vars => NewestInv'
    BY NewestStep
  <1>3. QED
    BY <1>1, <1>2, TypeCorrect, PTL DEF Spec

\* "The newest request wins" (publisher.py), for any number of requests, edits, failures,
\* lost answers, lost reports and crashes of the API, as long as no attempt outlives the run
\* it belongs to: the stored content of a published job is what the newest run read.
THEOREM NewestWins ==
  ASSUME "stray" \notin Faults
  PROVE  Spec => []NewestRunWins
  <1>1. TypeOK /\ NewestInv => NewestRunWins
    BY DEF TypeOK, Job, Content, NewestInv, PublishedByARun, ContentIsTheLatests, HasStored,
       Exists, Absent, NewestRunWins
  <1>2. QED
    BY <1>1, NewestInvariant, PTL

-----------------------------------------------------------------------------
(***************************************************************************)
(* Edits are caught up with.  An edit of a published job commits before    *)
(* its run starts, so the newest run may be behind the text as long as a   *)
(* request is about to start another.  A start that never reaches Temporal *)
(* and an API that dies before it starts its run leave the text ahead for  *)
(* good, so here neither happens.                                          *)
(***************************************************************************)
ReadsBeforeItStores ==
  \A q \in Requests :
    run[q].step \in {"storing", "marking_ready", "completed"} =>
      run[q].analysis # 0 /\ run[q].breakdown # 0

AboutToStart(r) == request[r].pc \in {"starting", "refreshing"}

HasReadTheText(q) ==
  /\ run[q].analysis \in {0, job.text}
  /\ run[q].breakdown \in {0, job.text}

LatestIsUpToDate ==
  (job.status \in {"processing", "published"} /\ latest # NoRun) =>
    HasReadTheText(latest) \/ \E r \in Requests : AboutToStart(r)

CaughtUpInv ==
  /\ NewestInv
  /\ ReadsBeforeItStores
  /\ LatestIsUpToDate

StartsArrive == Faults \cap {"stray", "unreachable", "api_crash"} = {}

\* What one step of a run reads: nothing, or the job's text of this moment, and both halves
\* of it before it stores anything.
LEMMA ReadStep ==
  ASSUME TypeOK, ReadsBeforeItStores, NoStrays, OnlyWritesAreDone, "stray" \notin Faults,
         NEW q \in Requests, Worker(q)
  PROVE  /\ run'[q].analysis # run[q].analysis => run'[q].analysis = job.text
         /\ run'[q].breakdown # run[q].breakdown => run'[q].breakdown = job.text
         /\ run'[q].step \in {"storing", "marking_ready", "completed"} =>
              run'[q].analysis # 0 /\ run'[q].breakdown # 0
  <1>1. run[q] \in Run
    BY DEF TypeOK
  <1>2. CASE ExtractSkillsAndKeywords(q) \/ BreakDownDescription(q)
    <2>1. job.text \in Text
      BY DEF TypeOK, Job
    <2>2. PICK x \in Run : /\ x.step = "analysing"
                           /\ x.analysis \in {run[q].analysis, job.text}
                           /\ x.breakdown \in {run[q].breakdown, job.text}
                           /\ run' = [run EXCEPT ![q] = Gathered(x)]
      <3>1. /\ [run[q] EXCEPT !.analysis = job.text] \in Run
            /\ [run[q] EXCEPT !.breakdown = job.text] \in Run
        BY <1>1, <2>1 DEF Run
      <3>2. run[q].step = "analysing"
        BY <1>2 DEF ExtractSkillsAndKeywords, BreakDownDescription
      <3>3. QED
        BY <1>1, <1>2, <3>1, <3>2 DEF ExtractSkillsAndKeywords, BreakDownDescription, Run
    <2>3. /\ Gathered(x).analysis = x.analysis
          /\ Gathered(x).breakdown = x.breakdown
          /\ Gathered(x).step \in {"storing", "marking_ready", "completed"} =>
               x.analysis # 0 /\ x.breakdown # 0
      BY <2>2 DEF Gathered, Run
    <2>4. run'[q] = Gathered(x)
      BY <2>2 DEF TypeOK
    <2>5. QED
      BY <2>2, <2>3, <2>4
  <1>3. CASE ~ExtractSkillsAndKeywords(q) /\ ~BreakDownDescription(q)
    <2>1. ~TimeOut(q) /\ ~StrayCommits(q) /\ ~StrayDies(q)
      BY DEF TimeOut, StrayCommits, StrayDies, NoStrays
    <2>2. /\ run'[q].analysis = run[q].analysis
          /\ run'[q].breakdown = run[q].breakdown
      BY <1>1, <1>3, <2>1 DEF Worker, Execute, Report, LoseReport, GiveUp, TypeOK, Run
    <2>3. run'[q].step \in {"storing", "marking_ready", "completed"} =>
            run[q].step \in {"storing", "marking_ready", "completed"}
      BY <1>1, <1>3, <2>1
      DEF Worker, Execute, Report, LoseReport, GiveUp, Writing, TypeOK, Run
    <2>4. QED
      BY <2>2, <2>3 DEF ReadsBeforeItStores
  <1>4. QED
    BY <1>2, <1>3

\* Whoever moves the text ahead of the newest run is about to start the next one.
LEMMA CaughtUpStep ==
  ASSUME TypeOK, CaughtUpInv, StartsArrive, [Next]_vars
  PROVE  ReadsBeforeItStores' /\ LatestIsUpToDate'
  <1> DEFINE Current(status) == status \in {"processing", "published"}
  <1> USE AssumptionsHold DEF Assumptions
  <1>1. job \in Job /\ \A r \in Requests : request[r] \in Request /\ run[r] \in Run
    BY DEF TypeOK
  <1>2. UNCHANGED run => ReadsBeforeItStores'
    BY DEF CaughtUpInv, ReadsBeforeItStores
  <1>3. CASE Recruiter
    <2>1. ~Current(job'.status) /\ UNCHANGED run
      BY <1>1, <1>3 DEF Recruiter, CreateJob, CloseJob, ReopenJob, DeleteJob, Job, Absent
    <2>2. QED
      BY <1>2, <2>1 DEF LatestIsUpToDate
  <1>4. ASSUME NEW r \in Requests, Api(r)
        PROVE  ReadsBeforeItStores' /\ LatestIsUpToDate'
    <2>1. ~StartUnreachable(r) /\ ~ApiCrash(r)
      BY DEF StartsArrive, StartUnreachable, ApiCrash
    <2>2. CASE Start(r) \/ StartUnanswered(r)
      <3>1. StartWorkflow(r)
        BY <2>2 DEF Start, StartUnanswered
      <3>2. latest' = r /\ run'[r] = FreshRun
        BY <3>1 DEF StartWorkflow
      <3>3. ASSUME NEW q \in Requests, q # r
            PROVE  run'[q] = run[q] \/ run'[q].step = "terminated"
        BY <1>1, <3>1, <3>3 DEF StartWorkflow, Terminated, Run
      <3>4. QED
        BY <3>2, <3>3 DEF CaughtUpInv, ReadsBeforeItStores, LatestIsUpToDate, HasReadTheText,
           FreshRun
    <2>3. CASE Edit(r) \/ Publish(r)
      <3>1. UNCHANGED <<run, latest>>
        BY <2>3 DEF Edit, Publish
      <3>2. Current(job'.status) => AboutToStart(r)'
        BY <1>1, <2>3 DEF Edit, Publish, Goto, AboutToStart, TypeOK, Job, Request
      <3>3. QED
        BY <1>2, <3>1, <3>2 DEF LatestIsUpToDate
    <2>4. CASE EditRefused(r) \/ PublishRefused(r) \/ PublishNothingToDo(r) \/ Revert(r)
      <3>1. UNCHANGED <<run, latest>> /\ job'.text = job.text /\ ~AboutToStart(r)
        BY <1>1, <2>4 DEF EditRefused, PublishRefused, PublishNothingToDo, Revert,
           AboutToStart, Job
      <3>2. Current(job'.status) => Current(job.status)
        BY <1>1, <2>4 DEF EditRefused, PublishRefused, PublishNothingToDo, Revert, Job,
           Request, CaughtUpInv, NewestInv, PublishedByARun
      <3>3. \A o \in Requests \ {r} : request'[o] = request[o]
        BY <2>4 DEF EditRefused, PublishRefused, PublishNothingToDo, Revert, Goto, TypeOK
      <3>4. QED
        BY <1>2, <3>1, <3>2, <3>3
        DEF CaughtUpInv, LatestIsUpToDate, HasReadTheText, AboutToStart
    <2>5. QED
      BY <1>4, <2>1, <2>2, <2>3, <2>4 DEF Api
  <1>5. ASSUME NEW q \in Requests, Worker(q)
        PROVE  ReadsBeforeItStores' /\ LatestIsUpToDate'
    <2>1. "stray" \notin Faults
      BY DEF StartsArrive
    <2>2. /\ q = latest
          /\ \A o \in Requests \ {q} : run'[o] = run[o]
          /\ UNCHANGED <<request, latest>>
          /\ job' = job \/ Execute(q)
      BY <1>5, <2>1, WorkerStep DEF CaughtUpInv, NewestInv, OnlyTheLatestIsLive
    <2>3. /\ run'[q].analysis # run[q].analysis => run'[q].analysis = job.text
          /\ run'[q].breakdown # run[q].breakdown => run'[q].breakdown = job.text
          /\ run'[q].step \in {"storing", "marking_ready", "completed"} =>
               run'[q].analysis # 0 /\ run'[q].breakdown # 0
      BY <1>5, <2>1, ReadStep DEF CaughtUpInv, NewestInv
    <2>4. ReadsBeforeItStores'
      BY <2>2, <2>3 DEF CaughtUpInv, ReadsBeforeItStores
    <2>5. job'.text = job.text /\ (Current(job'.status) => Current(job.status))
      <3>1. ASSUME NEW step \in Writing
            PROVE  /\ Effect(step, q).text = job.text
                   /\ Current(Effect(step, q).status) => Current(job.status)
        BY <1>1 DEF Effect, Writing, StoreJobContent, MarkJobPublished, MarkJobPublishFailed,
           Job
      <3>2. QED
        BY <2>2, <3>1 DEF Execute
    <2>6. HasReadTheText(q) => HasReadTheText(q)'
      BY <2>3, <2>5 DEF HasReadTheText
    <2>7. LatestIsUpToDate'
      BY <2>2, <2>5, <2>6 DEF CaughtUpInv, LatestIsUpToDate, AboutToStart, HasReadTheText
    <2>8. QED
      BY <2>4, <2>7
  <1>6. CASE UNCHANGED vars
    BY <1>2, <1>6 DEF vars, CaughtUpInv, LatestIsUpToDate, HasReadTheText, AboutToStart
  <1>7. QED
    BY <1>3, <1>4, <1>5, <1>6 DEF Next

\* When nothing is under way and the newest run has completed, a published job's content is
\* that of its present text, both halves of it, however the edits, publishes, terminated runs
\* and unanswered starts before came to overlap.
THEOREM CatchesUp ==
  ASSUME StartsArrive
  PROVE  Spec => []ContentCatchesUp
  <1> USE AssumptionsHold DEF Assumptions
  <1>1. Init => ReadsBeforeItStores /\ LatestIsUpToDate
    BY DEF Init, ReadsBeforeItStores, LatestIsUpToDate
  <1>2. TypeOK /\ NewestInv /\ ReadsBeforeItStores /\ LatestIsUpToDate /\ [Next]_vars
          => ReadsBeforeItStores' /\ LatestIsUpToDate'
    BY CaughtUpStep DEF CaughtUpInv
  <1>3. ASSUME TypeOK, CaughtUpInv PROVE ContentCatchesUp
    <2> SUFFICES ASSUME Quiet, job.status = "published", run[latest].step = "completed"
                 PROVE  job.content = [analysis |-> job.text, breakdown |-> job.text]
      BY DEF ContentCatchesUp
    <2>1. latest \in Requests
      BY <1>3 DEF TypeOK, CaughtUpInv, NewestInv, PublishedByARun
    <2>2. job.content = [analysis |-> run[latest].analysis,
                         breakdown |-> run[latest].breakdown]
      BY <1>3, <2>1 DEF CaughtUpInv, NewestInv, ContentIsTheLatests, HasStored, Exists, Absent
    <2>3. \A r \in Requests : ~AboutToStart(r)
      BY DEF Quiet, AboutToStart, Pending
    <2>4. HasReadTheText(latest)
      BY <1>3, <2>1, <2>3 DEF CaughtUpInv, LatestIsUpToDate
    <2>5. run[latest].analysis # 0 /\ run[latest].breakdown # 0
      BY <1>3, <2>1 DEF CaughtUpInv, ReadsBeforeItStores
    <2>6. QED
      BY <2>2, <2>4, <2>5 DEF HasReadTheText
  <1>4. TypeOK /\ NewestInv /\ ReadsBeforeItStores /\ LatestIsUpToDate => ContentCatchesUp
    BY <1>3 DEF CaughtUpInv
  <1>5. "stray" \notin Faults
    BY DEF StartsArrive
  <1>6. Spec => [](TypeOK /\ NewestInv)
    BY <1>5, NewestInvariant
  <1>7. QED
    BY <1>1, <1>2, <1>4, <1>6, PTL DEF Spec
=============================================================================
