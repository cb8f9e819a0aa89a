---------------------------- MODULE JobLifecycle ----------------------------
(***************************************************************************)
(* What a job posting promises to everybody who looks at it: its status    *)
(* moves only along the edges below, a published job has a publication     *)
(* date, and a reopened one has none.  The abstract specification of       *)
(* backend/app/jobs; JobPublishing implements it.                          *)
(*                                                                         *)
(*   absent -> draft -> processing -> published                            *)
(*               ^          |  `----> publish_failed -> processing         *)
(*               |          `-> draft, publish_failed  (start undone)      *)
(*               `-- closed <- any                                         *)
(***************************************************************************)
VARIABLES status, published_at

vars == <<status, published_at>>

JobStatus == {"draft", "processing", "published", "publish_failed", "closed"}

\* The row does not exist: not created yet, or deleted.
Absent == "absent"

Init ==
  /\ status = Absent
  /\ published_at = FALSE

(***************************************************************************)
(* Recruiters.                                                             *)
(***************************************************************************)
Create ==
  /\ status = Absent
  /\ status' = "draft"
  /\ published_at' = FALSE

Publish ==
  /\ status \in {"draft", "publish_failed"}
  /\ status' = "processing"
  /\ UNCHANGED published_at

Close ==
  /\ status # Absent
  /\ status' = "closed"
  /\ UNCHANGED published_at

Reopen ==
  /\ status = "closed"
  /\ status' = "draft"
  /\ published_at' = FALSE

Delete ==
  /\ status # Absent
  /\ status' = Absent
  /\ published_at' = FALSE

(***************************************************************************)
(* The publishing workflow, and the request that could not start it.       *)
(***************************************************************************)
Succeed ==
  /\ status = "processing"
  /\ status' = "published"
  /\ published_at' = TRUE

Fail ==
  /\ status = "processing"
  /\ status' = "publish_failed"
  /\ UNCHANGED published_at

UndoStart ==
  /\ status = "processing"
  /\ status' \in {"draft", "publish_failed"}
  /\ UNCHANGED published_at

Next ==
  Create \/ Publish \/ Close \/ Reopen \/ Delete \/ Succeed \/ Fail \/ UndoStart

Spec == Init /\ [][Next]_vars
=============================================================================
