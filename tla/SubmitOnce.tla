----------------------------- MODULE SubmitOnce -----------------------------
(***************************************************************************)
(* What must not be done twice: a job is created from the editor           *)
(* (pages/recruiter/JobEditorPage.tsx), an application is sent from the    *)
(* job's page (components/job-detail/ApplyPanel.tsx).  Both send a POST    *)
(* with an Idempotency-Key (hooks/useIdempotencyKey.ts) and press again    *)
(* when no answer came.  The server keeps a record for every key           *)
(* (backend/app/core/idempotency.py; its failures are in Idempotency).     *)
(***************************************************************************)
EXTENDS Naturals, FiniteSets

CONSTANTS
  Sends,    \* "job" or "application"
  MaxEdits, \* bound on the changes of what is sent
  MaxPosts, \* bound on the requests
  Drops,    \* whether a connection may drop while the server still works on the request
  None

Texts == 0 .. MaxEdits
KeyNumbers == 0 .. (MaxPosts + 2)
Answers == {"created", "refused", "duplicate", "closed", "in progress", "server error", "nothing"}

\* Something is sent, the bounds are numbers, and None is neither an answer nor a key.
ConstantsOK ==
  /\ Sends \in {"job", "application"} /\ Drops \in BOOLEAN
  /\ MaxEdits \in Nat /\ MaxPosts \in Nat
  /\ None \notin Answers \cup [input : Texts, key : KeyNumbers]

VARIABLES
  text,     \* what the form holds: the number of the last edit it shows
  edits,
  current,  \* the key of the form, and the input it stands for
  post,     \* the request of the form
  posts,
  handlers, \* the requests the server is working on
  record,   \* what the server keeps for each key
  created,  \* for each text, how many jobs or applications there are
  draft,    \* the letter, in the tab's session storage
  page,     \* "form", "away", "done"
  job,      \* whether it is open, and is to the page; whether the candidate is eligible
  stage,    \* of the application, if there is one
  mine      \* the candidate's own applications: what the list says, its fetch, the answer kept

vars == <<text, edits, current, post, posts, handlers, record, created, draft, page, job, stage, mine>>

NoPost == [pc |-> "idle", key |-> 0, text |-> 0, answer |-> None]

Exists == \E t \in Texts : created[t] > 0

TypeOK ==
  /\ text \in Texts /\ edits \in Texts /\ draft \in Texts
  /\ current \in [input : Texts, key : KeyNumbers]
  /\ posts \in 0 .. MaxPosts
  /\ post \in [pc : {"idle", "sent", "working", "answered"}, key : KeyNumbers, text : Texts, answer : Answers \cup {None}]
  /\ handlers \subseteq [key : KeyNumbers, text : Texts]
  /\ record \in [KeyNumbers -> {None, "in progress", "created", "refused", "duplicate", "closed"}]
  /\ created \in [Texts -> 0 .. MaxPosts]
  /\ page \in {"form", "away", "done"}
  /\ job \in [open : BOOLEAN, known : BOOLEAN, eligible : BOOLEAN]
  /\ stage \in {"applied", "withdrawn"}
  /\ mine \in [has : {"no", "applied", "withdrawn"}, fetch : {"idle", "asked", "no", "applied", "withdrawn"},
               submitted : BOOLEAN]

-----------------------------------------------------------------------------
(* The key.                                                                *)

\* A key nobody has used, or none that anybody remembers.
FreshKey == CHOOSE k \in KeyNumbers \ {0} : record[k] = None /\ k \notin {post.key, current.key}

\* One key for as long as the input stays and no answer came: a render makes the next one.
Rendered(cur, t) == current' = IF cur # None /\ cur.input = t THEN cur ELSE [input |-> t, key |-> FreshKey]

\* No answer: a dropped connection, or a 5xx.
Unanswered(answer) == answer \in {"nothing", "server error"}

\* Mutation: every end of a request ends the action.
SettleAlways(answer) == None

settle(answer) == IF Unanswered(answer) THEN current ELSE None

-----------------------------------------------------------------------------
(* The form.                                                               *)

Pending == post.pc # "idle"

\* The editor's inputs are disabled while it saves, the letter's is not.
Type ==
  /\ page = "form"
  /\ Sends = "job" => ~Pending
  /\ edits < MaxEdits
  /\ edits' = edits + 1 /\ text' = edits + 1
  /\ Rendered(current, edits + 1)
  /\ draft' = IF Sends = "application" THEN text' ELSE draft
  /\ UNCHANGED <<post, posts, handlers, record, created, page, job, stage, mine>>

\* The panel over the list of the candidate's applications: the application if there is one.
Panel ==
  IF mine.has # "no" \/ mine.submitted THEN "applied"
  ELSE IF job.known THEN "form" ELSE "closed"

ApplyForm ==
  [ letter |-> text,
    notice |-> IF job.eligible THEN "meets the requirements" ELSE "what the profile lacks",
    submit |-> CASE ~job.eligible           -> "blocked"
                 [] job.eligible /\ Pending -> "loading"
                 [] OTHER                   -> "ready" ]

Submit ==
  /\ page = "form" /\ ~Pending
  /\ Sends = "application" => Panel = "form" /\ ApplyForm.submit = "ready"
  /\ posts < MaxPosts
  /\ post' = [pc |-> "sent", key |-> current.key, text |-> text, answer |-> None]
  /\ posts' = posts + 1
  /\ UNCHANGED <<text, edits, current, handlers, record, created, draft, page, job, stage, mine>>

\* Mutation: the list stays as it is.
LeftAlone == mine

\* The list is read again, for an answer that says it is out of date.
Invalidated == [mine EXCEPT !.fetch = "asked"]

\* The answer, or the lack of one.  A form that was left hears nothing; the list is still read again.
Hear ==
  /\ post.pc = "answered"
  /\ post' = NoPost
  /\ IF page = "form" THEN Rendered(settle(post.answer), text) ELSE UNCHANGED current
  /\ draft' = IF page = "form" /\ post.answer \in {"created", "duplicate"} THEN 0 ELSE draft
  /\ page' = IF Sends = "job" /\ page = "form" /\ post.answer = "created" THEN "done" ELSE page
  /\ mine' = CASE Sends = "application" /\ post.answer = "created" ->
                    [Invalidated EXCEPT !.submitted = (page = "form")]
               [] Sends = "application" /\ page = "form" /\ post.answer = "duplicate" -> Invalidated
               [] OTHER -> mine
  /\ job' = IF page = "form" /\ post.answer = "closed" THEN [job EXCEPT !.known = job.open] ELSE job
  /\ UNCHANGED <<text, edits, posts, handlers, record, created, stage>>

\* To the profile, or anywhere else: the draft stays.
Leave ==
  /\ Sends = "application" /\ page = "form"
  /\ page' = "away"
  /\ mine' = [mine EXCEPT !.submitted = FALSE]
  /\ UNCHANGED <<text, edits, current, post, posts, handlers, record, created, draft, job, stage>>

\* Mutation: the draft is read from the form that was left.
ReturnBlank ==
  /\ page = "away" /\ ~Pending
  /\ page' = "form"
  /\ text' = 0
  /\ draft' = 0
  /\ Rendered(None, 0)
  /\ mine' = Invalidated
  /\ job' = [job EXCEPT !.known = job.open]
  /\ UNCHANGED <<edits, post, posts, handlers, record, created, stage>>

\* A new form over the draft, with a key of its own; the profile may have been brought up to date.
Return ==
  /\ page = "away" /\ ~Pending
  /\ page' = "form"
  /\ text' = draft
  /\ Rendered(None, draft)
  /\ mine' = Invalidated
  /\ \E eligible \in {job.eligible, TRUE} : job' = [job EXCEPT !.known = job.open, !.eligible = eligible]
  /\ UNCHANGED <<edits, post, posts, handlers, record, created, draft, stage>>

AppliedCard ==
  [ sent     |-> mine.submitted,
    stage    |-> IF mine.has = "no" THEN "applied" ELSE mine.has,
    withdraw |-> ~mine.submitted /\ mine.has = "applied" ]

\* Withdrawn, once it is confirmed.
Withdraw ==
  /\ page = "form" /\ Panel = "applied" /\ AppliedCard.withdraw
  /\ stage' = "withdrawn"
  /\ mine' = Invalidated
  /\ UNCHANGED <<text, edits, current, post, posts, handlers, record, created, draft, page, job>>

-----------------------------------------------------------------------------
(* The server, and the network.                                            *)

Answered(answer) == post' = [post EXCEPT !.pc = "answered", !.answer = answer]

\* The request never arrives.
LoseRequest ==
  /\ post.pc = "sent"
  /\ Answered("nothing")
  /\ UNCHANGED <<text, edits, current, posts, handlers, record, created, draft, page, job, stage, mine>>

\* It claims the key, hears the stored answer, or is told that another request has the key.
Arrive ==
  /\ post.pc = "sent"
  /\ CASE record[post.key] = None ->
            /\ record' = [record EXCEPT ![post.key] = "in progress"]
            /\ handlers' = handlers \cup {[key |-> post.key, text |-> post.text]}
            /\ post' = [post EXCEPT !.pc = "working"]
       [] record[post.key] = "in progress" ->
            /\ Answered("in progress")
            /\ UNCHANGED <<record, handlers>>
       [] OTHER ->
            /\ \/ Answered(record[post.key])
               \/ Answered("nothing")
            /\ UNCHANGED <<record, handlers>>
  /\ UNCHANGED <<text, edits, current, posts, created, draft, page, job, stage, mine>>

\* The connection drops, or the browser gives up, while the server goes on.
Drop ==
  /\ Drops
  /\ post.pc = "working"
  /\ Answered("nothing")
  /\ UNCHANGED <<text, edits, current, posts, handlers, record, created, draft, page, job, stage, mine>>

IsOf(h) == post.pc = "working" /\ post.key = h.key

\* The answer reaches the form if it still waits for it.
Reply(h, answer) ==
  IF IsOf(h) THEN Answered(answer) \/ Answered("nothing") ELSE UNCHANGED post

\* Mutation: nobody looks for an application of the candidate's before there is another.
OutcomeUnchecked == IF Sends = "application" /\ ~job.open THEN "closed" ELSE "created"

Outcome ==
  CASE Sends = "application" /\ Exists               -> "duplicate"
    [] Sends = "application" /\ ~Exists /\ ~job.open -> "closed"
    [] OTHER                                         -> "created"

\* The server is done with a request: it acts or refuses, keeps the answer for the key, and says so.
Finish(h) ==
  /\ \E outcome \in {Outcome, "refused"} :
       /\ created' = IF outcome = "created" THEN [created EXCEPT ![h.text] = @ + 1] ELSE created
       /\ record' = [record EXCEPT ![h.key] = outcome]
       /\ Reply(h, outcome)
  /\ handlers' = handlers \ {h}
  /\ UNCHANGED <<text, edits, current, posts, draft, page, job, stage, mine>>

\* Mutation: the failure is kept for the key, as an answer would be.
FailKept(h) ==
  /\ record' = [record EXCEPT ![h.key] = "server error"]
  /\ Reply(h, "server error")
  /\ handlers' = handlers \ {h}
  /\ UNCHANGED <<text, edits, current, posts, created, draft, page, job, stage, mine>>

\* Something it needs is down: nothing was done, and the key is free again.
Fail(h) ==
  /\ record' = [record EXCEPT ![h.key] = None]
  /\ Reply(h, "server error")
  /\ handlers' = handlers \ {h}
  /\ UNCHANGED <<text, edits, current, posts, created, draft, page, job, stage, mine>>

\* The list of one's own applications is read, and shown.
ReadMine ==
  /\ mine.fetch = "asked"
  /\ mine' = [mine EXCEPT !.fetch = IF Exists THEN stage ELSE "no"]
  /\ UNCHANGED <<text, edits, current, post, posts, handlers, record, created, draft, page, job, stage>>

ShowMine ==
  /\ mine.fetch \notin {"idle", "asked"}
  /\ mine' = [mine EXCEPT !.fetch = "idle", !.has = mine.fetch]
  /\ UNCHANGED <<text, edits, current, post, posts, handlers, record, created, draft, page, job, stage>>

\* The recruiter closes the job.
CloseJob ==
  /\ Sends = "application" /\ job.open
  /\ job' = [job EXCEPT !.open = FALSE]
  /\ UNCHANGED <<text, edits, current, post, posts, handlers, record, created, draft, page, stage, mine>>

Init ==
  /\ text = 0 /\ edits = 0 /\ draft = 0
  /\ current = [input |-> 0, key |-> 1]
  /\ post = NoPost /\ posts = 0
  /\ handlers = {}
  /\ record = [k \in KeyNumbers |-> None]
  /\ created = [t \in Texts |-> 0]
  /\ page = "form"
  /\ job \in [open : {TRUE}, known : {TRUE}, eligible : BOOLEAN]
  /\ stage = "applied"
  /\ mine = [has |-> "no", fetch |-> "idle", submitted |-> FALSE]

Next ==
  \/ Type \/ Submit \/ Hear \/ Leave \/ Return
  \/ LoseRequest \/ Arrive \/ Drop
  \/ \E h \in handlers : Finish(h) \/ Fail(h)
  \/ Withdraw \/ ReadMine \/ ShowMine \/ CloseJob

Spec == Init /\ [][Next]_vars

-----------------------------------------------------------------------------
(* Properties.                                                             *)

\* "A double-clicked Save or a retry after a timeout must not create the job twice"
\* (pages/recruiter/JobEditorPage.tsx:118): what is sent without being changed is done once.
DoneOnce == \A t \in Texts : created[t] <= 1

\* The letter survives a trip to the profile (components/job-detail/ApplyPanel.tsx:75), and is
\* dropped only once the application is in.
LetterSurvives ==
  Sends = "application" /\ ~Exists => draft = edits /\ (page = "form" => text = edits)

\* A refusal that says the page is out of date moves the panel on (ApplyPanel.tsx:199): once the
\* letter has been dropped and the list is read, no form is offered for an application that is in.
PanelMovesOn ==
  Sends = "application" /\ page = "form" /\ edits > 0 /\ draft = 0 /\ mine.fetch = "idle" => Panel = "applied"

\* What is sent is done once and not lost, and the panel says what became of it.
SentSafely == DoneOnce /\ LetterSurvives /\ PanelMovesOn
=============================================================================
