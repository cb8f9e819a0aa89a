# SmartHire in TLA+

SmartHire is a small applicant-tracking system: a FastAPI service over Postgres, a Temporal
worker that publishes jobs and processes applications, Redis for idempotency keys, and a React
console. This directory models the parts of it in which two things can happen at once, in the
service and in the console, checks them with TLC, and proves with TLAPS what matters most of
publishing, applying, processing, idempotency keys and sessions, and of the console's session, hiring board and
submissions, for any number of requests, users, tokens and cards.

Paths below are relative to the repository. `app/` stands for `backend/app/`,
and `fe/` for `frontend/src/`.

## 1. The system

| Component | State it keeps | Operations | Depends on |
|---|---|---|---|
| Jobs (`app/jobs`) | `jobs`: status, `published_at`, `publish_error`, text, terms | create, edit, close, reopen, delete, list, search | Publishing, when a published job's text is edited |
| Publishing (`app/publishing`) | sections, keywords and extracted skills of a job; the `PublishJob` run in Temporal | publish, refresh content, the run's five activities, read content | Jobs (the same row), Temporal, Skills |
| Applications (`app/applications/service.py`, `router.py`) | `applications` and `application_stage_changes` | apply, advance, withdraw, history, list | Jobs and Candidates (row locks), Idempotency, Application processing |
| Application processing (`app/applications/processor.py`, `workflow.py`, `activities.py`) | `match_score`; the `ProcessApplication` run | start or attach, score, confirm | Temporal, Candidates, Publishing's extracted skills, Notifications |
| Notifications (`app/notifications`) | `notifications`, one row per dedupe key | send | - |
| Idempotency keys (`app/core/idempotency.py`) | a record per (endpoint, user, key) in Redis | run an operation at most once, replay its answer | Redis; protects applying |
| Authentication (`app/auth`) | `users`, `refresh_tokens` | login, refresh (rotation), logout, reuse detection | - |
| Candidates (`app/candidates`) | `candidates`, their skills | register, edit, delete | Authentication, Skills |
| Skills (`app/skills`) | the shared vocabulary | resolve names to rows | - |
| Content analysis (`app/publishing/content.py`), match scoring (`app/applications/scoring.py`) | none: pure functions | sections, keywords, skills of a text; a score | - |
| Worker (`app/worker.py`), Temporal client (`app/core/temporal.py`) | attempts in flight; a lazy connection | poll, execute, shut down; connect | - |
| Console: session (`fe/auth`, `fe/api/client.ts`) | the pair of tokens in memory, the refresh token across page loads, who is on the screen | sign in and out, refresh once for all who wait, retry | Authentication |
| Console: hiring board (`fe/components/pipeline`, `fe/hooks/usePipeline.ts`), review queue (`fe/pages/recruiter/ApplicationsPage.tsx`) | lists of applications in the query cache, optimistic moves, dialogs | move, confirm, ask for a score, poll | Applications |
| Console: lists (`fe/hooks/useUrlState.ts`, two tables) | page, size and filters in the URL; the rows ticked | filter, page, tick, export, go back | Candidates, Jobs |
| Console: forms (job editor, profile, `ApplyPanel`, `RegisterPage`) | drafts, baselines, an idempotency key per attempt | type, save, send, leave, retry | Jobs, Applications, Candidates, Authentication |
| Console: open jobs (`fe/components/jobs`, `fe/lib/match.ts`), a job's page (`fe/components/job-detail`) | what the cache has of jobs, profile, own applications, runs, content | show, preview the rules, watch a publishing | Jobs, Publishing, Applications |
| Console: dashboard (`fe/components/dashboard`, `fe/hooks/useDashboardData.ts`) | a dozen answers read at different times | count, list, refresh | Applications, Jobs |
| Console: shell (`fe/components/Layout.tsx`, `fe/components/ui`), palette (`fe/components/palette`) | a stack of overlays, focus, a question, messages, recent items | open, close, ask, search, notify | Jobs, Candidates |
| Configuration, logging, errors, pagination, health, migrations, seed script | none that matters here | | |

How they meet:

- **The job's row is the meeting point of the API and the worker.** The API commits
  `status = 'processing'` and only then asks Temporal for a run. The run's activities write the
  same row. Nothing else connects the two: no transaction spans them, so every gap between a commit
  and the next call is a place for a crash, a failed call, or somebody else's step.
- **Temporal identifies a run by a workflow id.** Publishing replaces the run in flight
  (`TERMINATE_EXISTING`); processing an application attaches to it (`USE_EXISTING`). Terminating a
  run does not stop the attempt its activity has in the worker.
- **Applying holds two row locks**, the job's and then the candidate's, over several READ COMMITTED
  statements. Everybody who writes one of those rows waits.
- **Refreshing a session holds the token's lock, then the user's**; ending every session holds the
  token, the user, and then every other token of the user.
- **The console sees the server through answers.** Each was true when it was given. Between a
  request and its answer the user types, navigates, signs out, asks again; other tabs and other
  people change what was asked about. A cache is read by several pages and invalidated by whoever
  has changed something, and an optimistic move is drawn over it before anybody has agreed.
- **Redis is shared by all API processes** and each of its commands is atomic, but nothing ties a
  command to the Postgres transaction it is about.

### What is hard

Concurrency between requests (two publishes, two applications, two refreshes, two retries with one
key); between a request and a run; between two runs of one workflow id; between an attempt that
nobody waits for and whatever came after it. Failure of each call between a commit and the next one.
Lost reports, so that an activity is executed twice. Deadlines that pass after the call took effect.
Expiry of a claim whose owner is still working. In the console: an answer that was overtaken by a click,
a sign-out, a navigation or another tab; an optimistic move beside a fetch; a list that changes under
its pages. `PROJECT.json` lists the gravest of these, each at the line where it bites, under `hazards`,
with the property that watches it.

### What makes each component correct

- *Jobs, publishing*: the status moves only along its lifecycle; nobody but a recruiter takes a job
  out of `closed`; a job is never left in `processing` with nobody to move it on; the fields beside
  the status fit it; the content stored in the end is that of the newest run, and of the present text.
- *Applications*: the candidate's limit and the job's cap hold under races; nobody is admitted
  against the rules in force at the commit; the history is a legal path to the stage; a terminal
  stage is final; nobody waits for ever.
- *Application processing, notifications*: one confirmation at most; a completed run leaves a score
  that is not older than the run; every run ends.
- *Idempotency*: at most one execution; one answer; what is replayed has happened; retries are
  answered.
- *Authentication*: one live token per session; an ended session stays ended; no deadlock.
- *Console, session*: the tokens are of whoever is on the screen; signed out means no tokens; a
  refresh that is retried is never taken for theft.
- *Console, moves*: nothing older is drawn over a move; a board at rest shows what the server has; a
  double click moves one candidate; a refused move goes.
- *Console, forms and lists*: nothing typed is lost without asking; nobody else's edit is
  overwritten; what is sent once is done once; a list never calls itself empty wrongly; one gesture
  is one step back.
- *Console, what it says*: "you can apply", "stuck", "published", "nothing matches", "all clear", "no
  applications yet" are said only when they are so, as far as what was read can tell.
- *Console, shell*: the surface on top has focus; every question is answered; scrolling is held
  exactly while something is open.

## 2. The modules

Every module reads the source as follows. A block that runs between a `SELECT ... FOR UPDATE` and
its commit is one action when nothing it reads can be changed by somebody else in between, and is
cut into its statements when something can. What is answered to a client is the `pc` a request ends
in. A text, profile or posting is a version number, a timestamp is whether it is set, a failure
reason is the run that failed. Operators marked "Mutation" are the definition after them with
a plausible bug put in; nothing uses them, and `PROJECT.json` lists under `mutants` which property
each one breaks. `ConstantsOK` is what a module asks of its constants, and every instance assumes it.

In the console a request, its answer, and the render after it are three steps wherever something
else can happen between them; a click and the state it sets are one. TanStack Query, React Router
and the browser are modelled from how the code uses them and marked external in the map.

### JobLifecycle

What a job promises to everybody who looks at it, from `jobs/enums.py` and `docs/WORKFLOWS.md` as the
code realises them: a status and whether there is a publication date, and the eight moves a
recruiter, a run or a failed start can make. It is the abstract specification `JobPublishing`
implements, by the refinement mapping `status <- job.status, published_at <- job.published_at`.

### JobPublishing

One job; requests that each publish or edit it once; the run each may start.

| Variable | Code |
|---|---|
| `job` | the row of `jobs`, and in `content` which version of the text its keywords and skills (`analysis`) and its sections (`breakdown`) were derived from |
| `request[r]` | where request `r` is between its commit, its `start_workflow` and its revert, and what `publish_job` remembers in `previous_status` and `previous_error` |
| `run[q]` | the run request `q` started: its step, what its two analyses have read, whether the step's activity has committed without having been reported, and the attempts nobody waits for |
| `latest` | the run that holds the workflow id |

`CreateJob`, `CloseJob`, `ReopenJob`, `DeleteJob` are `jobs/service.py`. `Edit` and `EditRefused` are
`update_job` with the router's decision to analyse a published job again. `Publish`, `PublishNothingToDo`,
`PublishRefused` are `publish_job` up to its commit; `Start`, `StartUnreachable`, `StartUnanswered` the
call to Temporal; `Revert` the compare-and-set that puts the status back. `ExtractSkillsAndKeywords`
and `BreakDownDescription` are the two analyses that run side by side and each read the job;
`Execute`, `Report` and `LoseReport` an attempt of one of the three writing activities committing and being
heard of, or not; `GiveUp` the move to the compensation. `TimeOut`, `Terminated`, `StrayCommits`
and `StrayDies` are attempts that outlive the run or their timeout.

The number of attempts of an activity is abstracted: any number may be lost before the run gives up.
The run's signals and queries do not change the database and are left out.

### Applications

`apply_to_job` statement by statement (`LockJob`, `LockCandidate`, `CountActive`, `CountJob`,
`Insert`), `advance_stage` and `withdraw_application` (`AdvanceStage`, which reads and writes under
the application's lock), and every writer of the rows that are locked:
status and terms of the job, profile of the candidate, deletion of either, with the cascade. `began`
is Postgres' `now()`, the time the *transaction* began, which is what `changed_at` defaults to.
`Begin` is where it is taken: `get_current_user` runs the first statement. The profile's skills
live in another table and are not protected by the candidate's lock, and `UpdateCandidate` says so;
that is why `AdmissionRules` speaks of experience and not of skills. A stage is compared with what
the locked load sees; `loaded`, what an earlier unlocked load has left in the session, is there
because a load that does not refresh the identity map would use it.

### ApplicationProcessing

One application, requests that start its processing or attach to it, and the runs. The three
statements of `score_application` (`Load`, `ReadMentioned`, `WriteScore`) and the two of
`send_application_received` (`InsertNotification`, `Send`) are actions. A score is the pair of versions
it was computed from. Attempts are counted to `MaxAttempts`, since the run fails with the first
activity that runs out of them (`Fail`), which is what `asyncio.gather` does. `Abandon` is an attempt
that goes on in the worker when its run is over or its timeout has passed.

### Idempotency

One key. Each Redis command is an action (`Claim` is `SET NX EX`, `Read` is `GET`, `Store` is `SET EX`,
`Release` is `DEL`), and so is the protected operation, which succeeds (`Succeed`), is refused by a
rule (`Refuse`) or fails (`Fail`). The constant `Unique` says whether the database itself would refuse
to do the operation twice, as it does when applying; the stronger `FALSE` is used wherever the
property allows.

### AuthSessions

One user's tokens. `Refresh` and `Logout` are the locked load of the token and the branches that
follow it; `LockUser`, `Issue` and `EndEverySession` the rest of the transaction, cut where it may
have to wait. The DELETE of `_end_every_session` works on the snapshot it began with (`seen`) and
waits for every row of it that somebody has locked (`Blocking`). `Abort` is Postgres rolling back
the victim of a deadlock, or a dead client's transaction. `Awaits` is the wait-for graph.

### ClientSession

One browser tab and the session in it (`fe/api/client.ts`, `fe/auth`). `tab` is one record, because the
back/forward cache keeps all of a page and may bring all of it back (`PageHide`, `PageShow`,
`PageLoad`). `SignIn`, `LoggedIn`, `SignOut`, the refresh (`RefreshAnswered`, `RefreshUnanswered`,
`RefreshAgain`) and requests that are sent, denied, wait for the one refresh under way, and are
sent again. The server's side is what `AuthSessions` says of one user's tokens, seen from outside: a
token is live, just rotated, spent or ended, and presenting a spent one is an alarm. `Mishaps` are
rarer events that can be switched on one by one.

### StageMoves, QueueMoves

`StageMoves` is the hiring board: `MenuMove`, `DrawerMove`, `Drop` and `Confirm` draw a move into the
cached list (`onMutate` cancels the fetch under way), `Serve` is the server's answer, `Answer` the
rollback of a refusal and the invalidation; `Poll` and `Refocus` fetch the list again, others move
and score the same applications, `Leave` and `Return` unmount the board. `QueueMoves` is the review queue, where
nothing is drawn ahead: a step forward in one click, every other move in a dialog that a row or
the drawer hosts, placeholder rows of the tab before. Each tab has a query of its own: the server reads
the page (`ReadPage`), and the answer lands later (`FetchLands`), on the screen or, if the tab was left, behind it; a page that
landed less than `staleTime` ago is not fetched again when its tab is shown (`SwitchTab`).
`Invalidate` cancels the fetch of the tab on the screen and begins another, or joins it while there is no page yet. Scores
are asked for again and read by three timers (`Refresh`), which fire whether the worker is done (`Score`) or not.

### ListView

The talent directory and the recruiter's jobs: `SetState` of `useUrlState` with the update that is not
yet rendered, `ClampOffset`, the page size in the URL or in storage, history entries and the Back
button, ticked rows, rows that come and go.

### SavedForm, SubmitOnce, Register

`SavedForm` is a form over something others change too, in its two instances (`Of`): the job editor, with its
statuses, publishing, guard and patch, and the candidate's profile. `SubmitOnce` is a POST with an idempotency key,
for a new job and for an application; the server keeps the key's record, an answer may be lost, and a
refusal tells the page what it did not know. `Register` is the two steps of signing up and the two
requests at the end, each with its late answer: the inputs (`Type`), "Edit" and the steps above the form
(`GoBack`) stay live meanwhile, the submit button does not.

### Board, JobPage

`Board` holds the server's job, profile and applications beside what the console has read of each, and
says of every job what the card would say. `JobPage` is a recruiter's page of a job that is being
published: three queries keyed by what the page believes, polls, the grace period, the toast.

### Shell, Palette, Fuzzy, Toasts

`Shell` is the stack of overlays and where focus goes; `Palette` the list under the command palette in
a tab beside another tab; `Fuzzy` its matching, as functions over texts of two letters, checked
against a definition by subsets; `Toasts` the messages in the corner.

### Funnel, Trend, Attention

Three cards of the dashboard, each with the requests it is drawn from and a server that moves in
between. `Attention` keeps the chain in which a count decides whether a list is asked for.

### Proofs

`JobPublishingProofs`, `ApplicationsProofs`, `ApplicationProcessingProofs`, `IdempotencyProofs`, `AuthSessionsProofs`,
`ClientSessionProofs`, `StageMovesProofs`, `SubmitOnceProofs`.

The theorems about the module each is named after, with the inductive invariants and lemmas they
rest on (section 5). They add no behaviour.

### MC modules

`MCJobPublishing`, `MCAuthSessions`, `MCClientSession`, `MCSubmitOnce` and `MCRegister` extend one module and name the
small sets its configurations use. The others hold several instances each: `MCRequests`, `MCTab` and `MCForms`, which extend `AuthSessions`, `MCClientSession` and
`SubmitOnce` and instantiate the rest, `MCEnds`, `MCPages`. A variable `world` says which instance a behaviour is of; it is chosen
at the start and never changes, so a run checks its instances side by side and nothing of one
reaches another. A module that a behaviour is not of has its variables off, or, where liveness is checked, as they
began. A property of such a run is a conjunction of the properties of its modules that belong together: it
says of which worlds each speaks (`world = "..." => ...`), and names the lines they are about. The
properties themselves are stated and explained at the end of each module, and in the tables below a
property of a run is followed by theirs. Each of those parts has a mutant of its own under `mutants`, so that none
stands only because another in the same conjunction is violated first. Where fairness is needed it is
spelt out for each world.

Symmetry is used only in runs without liveness, and only over values no property or initial
state tells apart.

## 3. The runs

`CHECK_DEADLOCK FALSE` everywhere: each request is made once, so a behaviour ends when all of them
have been answered and nobody edits anything. That *requests* do not get stuck is a property of its
own (`EveryRequestAnswered`, `RunEnds`, `ProcessingEnds`, and `NoDeadlock`, which fails).

### Runs that pass

| Run | World | Instance |
|---|---|---|
| `faults` | | `JobPublishing`: 2 requests, 2 texts, every fault |
| `settles` | | `JobPublishing`: 2 requests, 2 texts, fair, every fault but strays |
| `requests` | content | `JobPublishing`: 3 requests, 3 texts; starts go unanswered, reports are lost |
| | rules | `Applications`: 2 candidates, 1 job with changing status and terms, changing profiles; 3 requests at a time |
| | limits | `Applications`: 1 candidate, 2 jobs, limit 1, 3 requests |
| | keys | `Idempotency`: 3 requests, 2 bodies, operations that fail |
| | keys and faults | the same, every fault |
| | sessions | `AuthSessions`: 4 requests, 4 tokens |
| | scores, retried scores | `ApplicationProcessing`: 2 requests and 1 attempt, 1 request and 2 attempts; 2 versions of each input |
| | confirmations | `ApplicationProcessing`: 2 requests, 2 attempts, strays |
| | create | `SubmitOnce`: a job, 1 edit, 3 requests, no dropped connections |
| `ends` | processing, keys, locks | the same modules with 1 or 2 requests, fair |
| | toasts | `Toasts`: 3 messages, 2 shown at once, fair |
| | job page | `JobPage`: 1 publish, 1 run lost, fair |
| | board | `StageMoves`: 1 move, 1 change, leaving once, fair |
| | scores, one tab | `QueueMoves`: 1 application and 2 tabs, its score asked for once; 1 tab, asked for twice, 1 change by others; fair |
| `tab` | session | `ClientSession`: 2 users, 3 pairs, 2 hidden pages, 2 retries |
| | board, one card, card left | `StageMoves`, 2 moves: 2 cards with an offer, 1 change; 1 card that can move twice, 2 changes; the same card, 1 change, on a board that is left once |
| `forms` | list, picks, stored size | `ListView`: 3 rows, sizes 1 and 2, 3 history entries |
| | job form, profile form | `SavedForm`: 2 edits, 2 saves, 1 change by others |
| | apply | `SubmitOnce`: an application, 2 edits, 2 requests, dropped connections |
| | queue, two tabs, one row | `QueueMoves`: 2 applications, 2 moves, 1 change by others; both tabs and 1 move; 1 application, both tabs and 2 moves |
| | register | `Register`: 2 addresses, 3 edits, 2 attempts |
| | board, fit, board of others | `Board`: 2 jobs; skills and years; changes by others |
| | job page (4) | `JobPage`: 2 publishes; content with the window left; both tabs; others and failed reads |
| `pages` | shell | `Shell`: 2 questions, 2 surfaces |
| | palette, two tabs | `Palette`: 2 jobs; typing, a deleted job; a second tab |
| | matching | `Fuzzy`: labels of 4 letters, 2 terms of 2 |
| | funnel, trend | `Funnel`: 2 applications, 1 move, 5 requests; `Trend`: 3 applications, 3 days, pages of 2 |
| | attention, failures | `Attention`: 1 change and a refresh; a failed request |
| | messages | `Toasts`: 3 messages |

What they show, beside the types (`TypeOK` of each module, `TypesOK` of those that hold several):

| Run | Property | Says |
|---|---|---|
| `faults` | `NoOrphanedProcessing` | a job in `processing` has somebody who will move it on, unless the process that should have died |
| | `FieldsFitStatus` | publication date and error fit the status |
| | `OnlyReopenLeavesClosed` | nobody but a recruiter takes a job out of `closed` |
| | `ImplementsLifecycle` | every step is one of `JobLifecycle` |
| `settles` | `NewestRunWins` | the content stored in the end is the newest run's, with every fault but strays |
| | `ProcessingEnds` | publishing ends unless an API process dies |
| | `RunSettlesJob` | even then, if a run is under way |
| `requests` | `ContentCatchesUp` | that content is of the present text, and of the newest of three runs (`NewestRunWins`) |
| | `HistoryMatchesStage` | the history is a legal path to the stage, so that a terminal stage is final |
| | `AdmissionRules` | nobody is admitted against the rules of the moment of the commit, nor beyond the limit (`ActiveWithinLimit`) |
| | `AtMostOnce` | one execution; one answer (`AnswersAgree`); what is replayed has happened, for that body (`ReplayIsReal`); the editor creates a job once (`SentSafely`) |
| | `SentAtMostOnce` | one confirmation at most |
| | `OneLiveToken`, `EndedStaysEnded` | one live token per session; an ended one stays ended |
| | `RunLeavesItsMark` | a completed run's score is no older than the run |
| `ends` | `RunEnds` | every processing run ends |
| | `EveryRequestAnswered` | no request waits for ever on a row lock; a client that retries is answered (`RetriesAreAnswered`) |
| | `MessagesGoInTime` | "loading" goes (`LoadingGoes`); a message being read stays (`ReadInPeace`) |
| | `StuckIsOffered` | a stuck job is offered again |
| | `RefusedMoveGoes` | a refused move leaves the board |
| | `ScoreAppears` | a score that is there before the last refresh appears in the queue, if the recruiter stays on the tab and the fetch does not fail |
| `tab` | `NoHalfSignIn` | a tab that shows nobody signed in holds no tokens |
| | `NothingOfOthers` | tokens and cache are of the user on the screen; the token is parked only between pages; a sign-out by button forgets the place |
| | `RefreshesAreSafe` | a refresh presents the token the tab holds (`PresentsWhatItHolds`) and no retry is taken for theft (`NoFalseAlarm`) |
| | `BoardIsCurrent` | nothing from before a move is drawn over it (`NoEarlierFetchOverAMove`); a board at rest is current (`QuietBoardIsCurrent`) |
| `forms` | `ClicksAreOfTheirRow` | one move for two clicks; a dialog is of its call; clicks are of the tab |
| | `ListsKeepTheirPlace` | never falsely empty; one gesture, one step back; the picked size stays; corrections add no step; the selection survives |
| | `SentSafely` | done once (`DoneOnce`); the letter survives (`LetterSurvives`); the panel moves on (`PanelMovesOn`) |
| | `FormsAreHonest` | nothing lost unasked (`NothingLostUnasked`); others' edits stay (`OthersEditsStay`); never registered twice; the meter agrees with the rule |
| | `CardsAreHonest` | cards say what the server would; offers are whole; own doing shows |
| | `PublishingIsTold` | stuck is true; content is of its run; "started" gives way; what the toasts say is so (`SaidIsReal`) |
| `pages` | `OverlaysGiveBack` | scrolling is held while something is open; focus; landing; no question is forgotten |
| | `SearchIsFaithful` | "nothing matches", one offer, the highlight, what is remembered; matching against its definition |
| | `DashboardIsTrue` | what the numbers may say of several answers; "all clear" was checked and is current |

Why these bounds are enough to be interesting. Two requests already give a publish beside a publish,
a publish beside an edit, a run replaced by another, and a revert that meets somebody else's
processing; the third in `content` gives a run that is replaced twice, and an edit of a published job
while a refresh is under way. Two texts tell stale content from present content, three let a text be
edited twice. With a limit of 1, two applications already race for the last place; the third request
withdraws and makes room, and so does the deletion of a job. In `rules` three requests are enough
for two moves that race after the application, for two applications that race for the one place of a
capped job, and all calls are drawn from the whole set. Two attempts are one retry and one giving
up. Four requests of one user are a sign-in, a rotation, and a reuse of the rotated token racing with another
refresh or a sign-out; the run `deadlock` has five.

In the console, two users in turn are enough for one's answers to arrive in the other's session;
three pairs for a refresh beside a sign-in; two hidden pages for one that comes back after another.
Two moves of different cards with one change are a move that is refused beside one that is accepted, in either order; two of one card with two changes
are both accepted, or overtaken by somebody else's. Three rows in
pages of one or two give a last page that empties, and three history entries a Back over a correction.
One change by others, wherever it falls, is what makes an answer stale; two of the user's own steps
race with each other. Texts of four letters let a term of two be spelled in two ways.

Why faults are left out of a run, where they are:

- `content` leaves out strays, because a terminated run's attempt can store its content last (see
  below), and unreachable starts, because a refresh whose start failed is logged and the content stays
  old, as `refresh_content` says. Runs that give up are left out for size: the properties speak of a newest run
  that completed.
- `settles` leaves out strays for size; `ProcessingEnds` excepts the crash of the API, because
  `publish_job` documents that a job is then stranded until somebody publishes again.
- `scores` leave out strays, which may write an old score last; the processing has no guard against
  it and promises none.
- `keys` has only operations that fail. With a lost record, an expired answer, or an operation
  committed but unconfirmed, a second execution is what the comment in `idempotency.py` concedes; for a
  slow operation see below.
- `tab` has no mishaps. `slow` outlasts the grace period that the retries of a refresh rely on
  (`NoFalseAlarm`); `sleep`, `timers`, `early` and `late` each break `NoHalfSignIn` (with `late`, a user who signs in beside what is
  still under way, that is the run `late`); `timers` and `early` also break `ButtonForgetsPlace` and
  `PresentsWhatItHolds`, `early` and `late` also `TokensAreTheUsers`.
- `create` drops no connection, which is the run `twice`. `apply` does: the database refuses a second
  application of its own.
- On the board of `tab` two cards are never left, for size; one card is. Two changes of two cards are left to the theorem (section 5). A board left and opened again with a fetch under way may be
  stale until the next poll, so what `QuietBoardIsCurrent` says of the version on the screen it says of a board that
  was not left; that no move is drawn on it which the server did not make it says of every board.
- The worker that scores may be as slow as it likes, so `ScoreAppears` speaks only of a score that is there while a
  refresh is still to come: the queue promises the others nothing (see the other disagreements). A second series of refreshes begins when the
  first is over: two of them only fetch more often.
- In the lists a user acts on what is drawn (`Hasty` is off): what two gestures before one render do is among the
  other disagreements (`useUrlState.ts:154`).

### Fairness

- *Publishing*: a request that has begun goes on unless its process dies (weak fairness on `Start`
  and `Revert`, which the crash disables); a worker polls the queue and Temporal schedules
  every activity (weak fairness on the analyses, on `Execute`, and on giving up when the job is gone,
  which is not retried). A report may be lost repeatedly, but Temporal retries, so one arrives in
  the end: strong fairness on `Report`. There is no fairness on recruiters, on faults, or on giving up
  otherwise.
- *Applications*: weak fairness on each request's step: the process goes on, and with two requests a
  lock, once free, stays free for the one that waits. (With more, Postgres' queue of waiters would
  have to be said.)
- *Application processing*: weak fairness on each activity's next step.
- *Idempotency*: weak fairness on each live request's next step, on a client told to wait trying
  again, and on Redis expiring a claim: it was set with an expiry.
- *Console*: timers fire (the time of a message, the grace period, polls, the delayed refreshes) and
  requests are answered or fail (weak fairness on each). None on the user, who may stop anywhere,
  nor on failures, other people and the worker that scores: no timer waits for it.

### Runs that find something

Each checks what a comment or a document says, and TLC finds a behaviour of the code that disagrees.

| Run | Says | Is |
|---|---|---|
| `undone` | "Undo only our own change, and only if it still stands" (`app/publishing/service.py:69-70`) | the revert undoes the `processing` that another, accepted publish relies on; that one's run then changes nothing, and a publish answered 202 never settles |
| `late` | "all or nothing: no half-signed-in tab" (`fe/auth/AuthProvider.tsx:113`) | a refresh that a late 401 of the last user's has started stores its pair after the failed sign-in was cleared |
| `twice` | "a retry after a timeout must not create the job twice" (`fe/pages/recruiter/JobEditorPage.tsx:118`) | the retry finds the first attempt still at work, is told to retry shortly (409), and the page takes that for an answer and drops the key |
| `taken` | "An edit answers whatever the server last objected to; a stale notice would mislead." (`fe/pages/RegisterPage.tsx:83`) | the email can be edited while the request is under way; its late `duplicate_email` then marks the new address as taken |
| `deadlock` | "one order everywhere, so no deadlock" (`app/auth/service.py:80-82`) | ending every session locks tokens after the user, and a refresh the user after its token |

### Other disagreements, which no run is about

The models have these behaviours, and the properties above are stated so as to allow them.

- `app/publishing/publisher.py:67-70` says that replacing the run in flight keeps stale content from
  being published. The run of an old text can still finish between the new publish's commit and its
  start; the newer run then repairs the content.
- `app/publishing/workflow.py:19-21` says that a double-clicked Publish attaches to the run in
  progress; `TERMINATE_EXISTING` replaces it.
- `app/core/temporal.py:29` says of `WorkflowUnavailableError` that no workflow was started; it is also
  raised when only the answer was late (`StartUnanswered`).
- `app/publishing/publisher.py:33-34` says that two publishing runs never race each other; the
  attempt a terminated run leaves in the worker can store its content last (`StrayCommits`).
- `app/applications/router.py:197` says that a history is read oldest first. It is ordered by the time
  the transactions *began*, which is not the order in which they got the row's lock (`began` in `Applications`).
- `app/applications/processor.py:43-44` says that nothing can go stale mid-run; a request can attach to a
  run that has read its inputs, and newer inputs are then not scored. `RunLeavesItsMark` speaks only of the
  request that started the run.
- `app/applications/workflow.py:53-54` says that a failed score does not hold back the confirmation;
  `asyncio.gather` fails the run with the first activity that runs out of attempts (`Fail`), and a
  confirmation that is still queued is not attempted.
- `app/core/idempotency.py:116` says "at most once"; a claim expires under an operation that outlasts
  `IDEMPOTENCY_LOCK_SECONDS` (the fault `slow`), and a retry runs it again beside the first.

In the console:

- `fe/components/profile/ProfileEditor.tsx:80,105-108`: the inputs stay live while a save is under way,
  the guard is off, and the answer resets the form: what was typed meanwhile is lost, where
  `fe/hooks/useUnsavedChangesGuard.ts:7` speaks of unsaved edits. `NothingLostUnasked` is therefore checked of the job editor.
- `fe/components/applications/useRescore.ts:15`: "The new score appears here in a moment". The queue is read again at once, after 1.5 s
  and after 4 s (`fe/hooks/queries.ts:413-417`); a score that takes longer appears when something else has the queue read. A
  recruiter who leaves the tab while it is being fetched may also come back to a page that was read before the score, landed behind the other
  tab, and counts as fresh for `staleTime`.
- `fe/pages/RegisterPage.tsx:350` says that the account is ready after the address has been edited.
- `fe/components/job-detail/JobActions.tsx:66-73` reports the cached status when the read after the end of
  a publishing fails. `SaidIsReal` is checked with failed reads for one publish only.
- `fe/components/jobs/CandidateJobBoard.tsx:121`: the board says "You can apply" of a job that is full:
  the cap is the server's to check, and `CardsAreHonest` leaves it out.
- `fe/components/job-detail/publishing.ts:30,59,88-90`: a job can flash as stuck when its first run, or one started
  again from there, is slow to begin.
- `fe/pages/recruiter/DashboardPage.tsx:145-154` and `fe/hooks/useDashboardData.ts:151-162` say "all caught up"
  while a request has failed; `fe/components/dashboard/DashboardKpis.tsx:16-18` shows 0 for what failed;
  `fe/hooks/useDashboardData.ts:70-77,112` keeps rows whose count has dropped to none;
  `fe/components/dashboard/metrics.ts:45-50` over-reports by the moves made between two counts.
- `app/applications/service.py:259-268` counts and selects in two statements: a page and its total may be
  of two moments (`Trend`).
- `fe/components/palette/PaletteDialog.tsx:78-84,205-206`: a key pressed before the list has rendered does nothing;
  `fe/components/palette/usePaletteItems.tsx:50-51,193`: a job remembered under an old title hides the result
  under its new one.
- `fe/components/ui/ConfirmDialog.tsx:101-109`: a click that was meant for one question may answer the next;
  closing the last overlay may leave focus on the body when its opener is gone.
- `fe/api/client.ts:159-163`: a late 401 of the last user's request is retried with the next user's token.
- `fe/hooks/usePipeline.ts:37-38`: the rollback of the first of two moves wipes the second's optimistic state
  until the next fetch; `fe/components/pipeline/useStageChange.tsx:86-90` says "back in" the stage it was moved from even when
  somebody has moved it on.
- `fe/hooks/useUrlState.ts:154`: an update that was not rendered outlives its URL;
  `fe/components/jobs/useDebouncedUrlText.ts:27-31`: the same text typed again within the delay is not written;
  `fe/hooks/useHotkeys.ts:71-81`: a half-typed shortcut survives keys pressed in a field;
  `fe/hooks/useJobsExtras.ts:44-52`: an equal count hides a change of the list;
  `fe/components/ui/TagInput.tsx:211`: text is dropped at the limit of tags, and by a paste;
  `fe/pages/recruiter/JobEditorPage.tsx:201-204`: a save answered late navigates away from another page;
  `fe/components/ui/Toast.tsx`: a message pushed out or dismissed while its request runs never tells its failure.

## 4. Assumptions about what is outside

Postgres: READ COMMITTED, row locks held to the end of the transaction, `now()` fixed at its start, a
`DELETE` that waits for the locked rows of its snapshot, cascades, one victim per deadlock. Temporal: one
live run per workflow id; a terminated run runs no compensation; an activity is executed at least once;
an attempt is not told that nobody waits for it any more. Redis: atomic commands. The definitions
about these are marked external in the map of `PROJECT.json`.

## 5. What is proved

`JobPublishingProofs`, for every set `Requests`, every `MaxText`, every `Faults`, under the four
assumptions `JobPublishing` makes of its constants: at least one version of the text, `NoError` and `NoRun` are
not requests, and faults are of the listed kinds. No assumption about fairness is used.

- `TypeCorrect`: `Spec => []TypeOK`. One step per action, with lemmas for the three operators that
  build new values (`EffectType`, `GotoType`, `StartWorkflowType`).
- `NoOrphans`: `Spec => []NoOrphanedProcessing`. The invariant is inductive as it stands,
  relative to the types, because it names who owns the job: the request that moved it into `processing` and has not yet
  started its run or undone it, or a run that has not yet committed its last step. `OwnerStep` says that an owner stays one until
  the job leaves `processing` or hands it to another owner. The delicate cases are a start that terminates the
  owner's run (the new run owns the job), and a stray attempt or a compensation that
  commits (it takes the job out of `processing` itself).
- `FieldsAlwaysFit`: `Spec => []FieldsFitStatus`. Not inductive: a revert writes back what its
  request remembered, and creating starts from the row `Init` or `DeleteJob` left. `FieldsInv` adds that what is
  remembered fits too (`PreviousFits`), and that a job that does not exist has no publication date.
- `ClosedStays`: `Spec => OnlyReopenLeavesClosed`, by cases over the actions; an activity that
  meets a closed job leaves its status and date alone (`EffectOnClosed`).
- `Implements`: `Spec => ImplementsLifecycle`. Every step is one of `JobLifecycle` or leaves its
  variables alone (`LifecycleStep`); it needs `FieldsInv` for the revert, which must go back to `draft` or
  `publish_failed` and to nothing else.

- `NewestWins`: `Spec => []NewestRunWins`, assuming `"stray" \notin Faults`. `NewestInv` says that only the run that
  holds the workflow id is under way (`OnlyTheLatestIsLive`), that an activity that has committed
  unreported is one of the writing ones, that a job is published only once a run has been started, and that the content is
  what the latest run read from the moment it has stored it (`ContentIsTheLatests`). The assumption cannot be dropped: a
  stray can store last (section 3).
- `CatchesUp`: `Spec => []ContentCatchesUp`, assuming moreover that starts reach Temporal and the API does not die before
  one (`StartsArrive`). `CaughtUpInv` adds that a run reads both halves before it stores, and `LatestIsUpToDate`: an
  edit of a job in `processing` or `published` has a request about to start a run, or the latest run has read the present text
  or has yet to read it.

`ApplicationsProofs`, for any jobs, candidates, requests, calls, terms and profiles, assuming `ConstantsOK`:

- `TypeCorrect`: `Spec => []TypeOK`, with what each statement is reached with (`CallsFit`).
- `HistoryIsTrue`: `Spec => []HistoryMatchesStage`, inductive relative to the types: a move is legal from the stage that the
  load under the lock sees, which is the last entry.
- `WithinLimit` and `Admission`: `Spec => []ActiveWithinLimit` and `Spec => [][AdmissionRules]_vars`, from `RulesInv`. Neither is
  inductive, since what admits an application was checked some statements earlier. `RulesInv` says
  which request holds which lock at which statement (`LocksHeld`), and that what has been
  checked or counted is still so: `Admitted`, `UnderLimit`, `UnderCap`. Every other action either
  needs one of the two locks or cannot raise a count (`NoneAdded`).

`ApplicationProcessingProofs`, assuming `ConstantsOK`:

- `TypeCorrect`; `OneConfirmation`: `Spec => []SentAtMostOnce`, with every fault, strays included. `SentInv` says that at most one
  attempt, of those of all runs, is about to send (`OneSender`), that nobody has sent then, and that the row is there first.
- `MarkIsLeft`: `Spec => []RunLeavesItsMark`, assuming `"stray" \notin Faults` as the runs that check it do. `MarkInv` orders
  the runs: one is live, its request came after every run that has completed (`InOrder`), and what its scoring has read is no older
  than its request (`ReadSince`), so whatever it writes over an earlier score is not older either (`ScoreIsKept`).

`IdempotencyProofs`, for any requests and bodies:

- `TypeCorrect`, with no assumption; `Replays`: `Spec => []ReplayIsReal`, with every fault, assuming `ConstantsOK`. `RealInv`
  follows an answer from the operation to the record and to who is given it.
- `Once`: `Spec => [](AtMostOnce /\ AnswersAgree)`, assuming that nothing but the operation fails (`OnlyFails`), as the world
  `keys` does. `OnceInv`: whoever runs under a claim is alone (`OneClaim`), and that the operation was done is recorded or about to be.
  With the other faults the property is false, as `idempotency.py` concedes (section 3).

`AuthSessionsProofs`, for any requests and `MaxTokens`; no fault is excluded, aborts of deadlocked and dead requests included:

- `TypeCorrect`; `OneLive` and `StaysEnded`: `Spec => []OneLiveToken`, `Spec => []EndedStaysEnded`, from `IInv`: a request that
  has found its token holds that row (`TokenHeld`), the user's row is held by whoever issues or deletes, and by nobody else
  (`UserHeld`), so a token about to be rotated is live (`RotatesLive`), and no live token of the session is missing from the snapshot
  of a `DELETE` (`SeenIsWhole`). `Invariant` states `IInv` itself.

`ClientSessionProofs`, for any users and requests of a page, any number of pairs, hidden pages and retries, assuming
`ConstantsOK`. It begins with what each operator on the tab sets and leaves alone.

- `TypeCorrect`: `Spec => []TypeOK`, with every mishap; `TypeInv` bounds the pairs that a tab can refer to by those that were issued (`Fit`).
- `NoAlarm`: `Spec => []NoFalseAlarm`, assuming `"slow" \notin Mishaps`. `AlarmInv`: a page that is put away holds no token
  and exchanges nothing (`OnePage`), and a used pair that the tab may still present is being exchanged at this moment, or its
  exchange was given up or frozen (`UsedIsAbandoned`).
- `NoneSignedInHalfway` and `NothingIsOthers`: `Spec => []NoHalfSignIn`, `Spec => []NothingOfOthers`, assuming
  `Mishaps \subseteq {"slow"}`; `SafeRefreshes`: `Spec => []RefreshesAreSafe`, assuming `Mishaps = {}`. `SessionInv` says what each
  point of a sign-in, a sign-out, a restoration and a refresh implies of the rest of the tab (`Whole`), whose the tokens are (`Owned`), and that
  a page the browser has put away is whole and at rest, so that bringing it back brings nothing of the next
  user's. TLC checked it on the instance of `tab`, with and without `slow`, before it was proved. With any of the other mishaps
  it is false, since `NoHalfSignIn` is (section 3). Of `RefreshesAreSafe`, `slow`, `timers` and `early` break a part; with
  `sleep` and `late` it is neither refuted nor proved.

`StageMovesProofs`, for any candidates, stages they start in, moves, changes by others and trips to other pages, assuming `ConstantsOK`. No
assumption is made on failures: any read and any move may be lost.

- `TypeCorrect`: `Spec => []TypeOK`. A rollback writes back the page that a move remembered and an answered fetch
  the page it read, so `TypeInv` adds that both are pages.
- `NothingLandsOverAMove`: `Spec => []NoEarlierFetchOverAMove`, inductive relative to the types: a move joins the unanswered ones in
  the step that cancels the fetch under way, and a fetch that begins later knows it.
- `BoardStaysCurrent`: `Spec => []BoardIsCurrent`. `QuietBoardIsCurrent` is not inductive, since it says nothing while something
  is under way. `DrawnInv`: what a fetch brings has no move drawn on it; moves are drawn on the list only while one is unanswered, a fetch is under way or has
  failed, or the list is stale; and a stale list on the screen is being fetched, or that fetch has failed. `StayInv`, for a board that has not been left:
  an answered fetch was read after the last answer, and a list that is older is about to be replaced. The delicate case is the rollback: the page it restores may
  show another move and be older than an answer since; the invalidation in the same handler is what
  makes up for both.

`SubmitOnceProofs`, for any number of edits and requests, assuming `ConstantsOK`:

- `TypeCorrect`: `Spec => []TypeOK`. A form without a key is given a fresh one, so `TypeInv` counts the keys that were used: there are
  two more than requests, and one is always free (`FreshKey`).
- `SentSafelyAlways`: `Spec => []SentSafely`, for an application whatever connections do, and for a job while none drops under the
  server (`~Drops`). For a job, `JobInv`: the server works on the form's request and on no other, the form's key is of its present text, and
  a text that was created is recorded under that key, so that a repeated request is answered from the record. With dropped connections
  a key can be let go whose request is still at work, and the property is false: the run `twice`. For an application the database
  has the last word, and `ApplicationInv` says of the page that it does not hear of an application that is not there, and
  that a letter that was dropped is one whose application the list shows or is being asked for.

Of the assumptions on faults and mishaps: each is what the run that checks the property also leaves out or less, and
section 3 says what the code does with the rest.

Only model-checked: all liveness (fairness and `ENABLED` are out of the prover's reach); the moves
of the queue, the editors, registration, lists, the open jobs, a job's page, the shell, palette, messages and dashboard, with their types;
what `Fuzzy` and `Trend` compute, which is by recursion over data. A theorem is about a module's own `Spec`: where a run has the
module as one world among several, the property it checks is the theorem's under `world = "..." =>`.

## 6. What is not modelled

- Access tokens, passwords, roles, the command-line tool: no state that races.
- The text of anything: sections, keywords, names, messages. What a run stores is which version
  of the text it read.
- The statements of `store_job_content` and the three reads of `get_content`: planned below.
- Registration in the API, the shared skills vocabulary, the merge of two edits of one profile's skills: planned.
- In the console: a candidate's own list of applications, the recruiter's view of one candidate, the
  activity feeds and tables that order what they are given, icons, styles, the theme. The text
  inputs' own state (tags, search boxes) beyond what they send.
- Fetches that wait for the network: offline, TanStack Query pauses a fetch, which is then neither loading nor
  failed. `Funnel`, `Attention` and `Palette` take every fetch to be sent. The fetches of the queue that a return to the window begins.
- In `Attention`, the server's read and the answer's arrival are one step (`Answer`). A refresh cancels a fetch under way if
  something was read before, and joins it if nothing was: only in the second case, a refresh while the page is opening, can an
  answer be older than the refresh, and what `ClearIsCurrent` says is then not shown.
- Listing, searching, pagination, health, logging, configuration, migrations, seed and benchmark
  scripts: nothing the properties could tell apart. Stylesheets and generated types.

## 7. The plan

In this order.

1. **ContentStore**: `store_job_content` statement by statement under READ COMMITTED, two runs' stores
   racing, and `get_content` reading between them. Properties: content is of one run, unique positions and keywords
   never fail the newer store; abstract specification: an atomic register of content.
2. **Registration in the API**: `register`, `resolve_skills`, `update_candidate`, statement by statement with their
   unique constraints, composed with `Register` and `SavedForm`.
3. **ClientSession with AuthSessions**: the tab's server replaced by the module itself.
4. **Content analysis and scoring** as functions over short token sequences, against reference
   definitions: no overlapping matches, longest match, every section's text accounted for; the score's bounds and
   monotonicity, with its rounding.
5. **Proofs** of what is left and within reach: `QueueMoves` (two clicks move one application: the invariant relates the
   button's row to the call under way), `Board` (a card says what the server would answer), `SavedForm` (nothing is lost unasked), and
   the types of the console's modules without recursion.
