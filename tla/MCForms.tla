------------------------------ MODULE MCForms -------------------------------
(***************************************************************************)
(* Instances for TLC of what a user of the console reads and fills in:     *)
(* its lists, the editors, the application, registration, the board of     *)
(* candidates and the page of a job.                                       *)
(***************************************************************************)
EXTENDS SubmitOnce, TLC

VARIABLES
  world,  \* which of the instances below this behaviour is of; it never changes
  rows, entries, at, rendered, unrendered, size, listViewPage, fetch, selected, changes,
  picks,
  server, status, known, baseline, values, save, place, asking, shown, typed, saves, others,
  queueMovesStage, scored, tab, cache, last, queueMovesFetch, stale, call, held, dialog,
  drawer, gesture, asked, asks, timers, queueMovesOthers,
  accounts, registerDraft, step, touched, registerCreated, request, error, signedIn,
  registerEdits, attempts,
  jobs, profile, boardMine, boardKnown, boardFetch, boardStale, boardPage, boardRequest,
  own, boardChanges,
  clock, jobPageJob, run, jobPageRequest, old, publishes, jobPageChanges, losses, failures,
  jobPageTab, jobPagePage, pubs, contents, fetching, fresh, awaited, started, ended

Lists ==
  INSTANCE ListView WITH
    MaxRows <- 3, Sizes <- {1, 2}, SizeInUrl <- TRUE, MaxEntries <- 3, MaxChanges <- 1,
    MaxPicks <- 0, Hasty <- FALSE, page <- listViewPage

Picks ==
  INSTANCE ListView WITH
    MaxRows <- 3, Sizes <- {1, 2}, SizeInUrl <- TRUE, MaxEntries <- 2, MaxChanges <- 0,
    MaxPicks <- 2, Hasty <- FALSE, page <- listViewPage

StoredSize ==
  INSTANCE ListView WITH
    MaxRows <- 3, Sizes <- {1, 2}, SizeInUrl <- FALSE, MaxEntries <- 2, MaxChanges <- 1,
    MaxPicks <- 0, Hasty <- FALSE, page <- listViewPage

JobForm ==
  INSTANCE SavedForm WITH
    Of <- "job", MaxTyped <- 2, MaxSaves <- 2, MaxOthers <- 1

ProfileForm ==
  INSTANCE SavedForm WITH
    Of <- "profile", MaxTyped <- 2, MaxSaves <- 1, MaxOthers <- 1

Queue ==
  INSTANCE QueueMoves WITH
    NApps <- 2, Tabs <- {"applied"}, MaxCalls <- 2, MaxAsks <- 0, MaxOthers <- 1,
    stage <- queueMovesStage, fetch <- queueMovesFetch, others <- queueMovesOthers

TwoTabs ==
  INSTANCE QueueMoves WITH
    NApps <- 2, Tabs <- {"applied", "screening"}, MaxCalls <- 1, MaxAsks <- 0,
    MaxOthers <- 0, stage <- queueMovesStage, fetch <- queueMovesFetch,
    others <- queueMovesOthers

OneRow ==
  INSTANCE QueueMoves WITH
    NApps <- 1, Tabs <- {"applied", "screening"}, MaxCalls <- 2, MaxAsks <- 0,
    MaxOthers <- 0, stage <- queueMovesStage, fetch <- queueMovesFetch,
    others <- queueMovesOthers

Registering ==
  INSTANCE Register WITH
    Emails <- {"a", "b"}, MaxEdits <- 3, MaxAttempts <- 2, draft <- registerDraft,
    created <- registerCreated, edits <- registerEdits

TwoJobs ==
  INSTANCE Board WITH
    Jobs <- {1, 2}, Skills <- {"s"}, MaxYears <- 0, MAX_ACTIVE_APPLICATIONS <- 1,
    MaxOwn <- 2, MaxChanges <- 0, mine <- boardMine, known <- boardKnown,
    fetch <- boardFetch, stale <- boardStale, page <- boardPage, request <- boardRequest,
    changes <- boardChanges

Fit ==
  INSTANCE Board WITH
    Jobs <- {1}, Skills <- {"s", "t"}, MaxYears <- 1, MAX_ACTIVE_APPLICATIONS <- 1,
    MaxOwn <- 1, MaxChanges <- 0, mine <- boardMine, known <- boardKnown,
    fetch <- boardFetch, stale <- boardStale, page <- boardPage, request <- boardRequest,
    changes <- boardChanges

Others ==
  INSTANCE Board WITH
    Jobs <- {1}, Skills <- {"s"}, MaxYears <- 0, MAX_ACTIVE_APPLICATIONS <- 1, MaxOwn <- 1,
    MaxChanges <- 1, mine <- boardMine, known <- boardKnown, fetch <- boardFetch,
    stale <- boardStale, page <- boardPage, request <- boardRequest, changes <- boardChanges

Watched ==
  INSTANCE JobPage WITH
    Tabs <- {"publishing"}, MaxPublishes <- 2, MaxChanges <- 0, MaxLosses <- 0,
    Returns <- FALSE, MaxFailures <- 0, job <- jobPageJob, request <- jobPageRequest,
    changes <- jobPageChanges, tab <- jobPageTab, page <- jobPagePage

Left ==
  INSTANCE JobPage WITH
    Tabs <- {"content"}, MaxPublishes <- 2, MaxChanges <- 0, MaxLosses <- 0,
    Returns <- TRUE, MaxFailures <- 0, job <- jobPageJob, request <- jobPageRequest,
    changes <- jobPageChanges, tab <- jobPageTab, page <- jobPagePage

BothTabs ==
  INSTANCE JobPage WITH
    Tabs <- {"publishing", "content"}, MaxPublishes <- 1, MaxChanges <- 0, MaxLosses <- 0,
    Returns <- FALSE, MaxFailures <- 0, job <- jobPageJob, request <- jobPageRequest,
    changes <- jobPageChanges, tab <- jobPageTab, page <- jobPagePage

Shared ==
  INSTANCE JobPage WITH
    Tabs <- {"content"}, MaxPublishes <- 1, MaxChanges <- 1, MaxLosses <- 0,
    Returns <- FALSE, MaxFailures <- 1, job <- jobPageJob, request <- jobPageRequest,
    changes <- jobPageChanges, tab <- jobPageTab, page <- jobPagePage

ASSUME ConstantsOK

listViewVars ==
  <<rows, entries, at, rendered, unrendered, size, listViewPage, fetch, selected, changes,
    picks>>
savedFormVars ==
  <<server, status, known, baseline, values, save, place, asking, shown, typed, saves,
    others>>
queueMovesVars ==
  <<queueMovesStage, scored, tab, cache, last, queueMovesFetch, stale, call, held, dialog,
    drawer, gesture, asked, asks, timers, queueMovesOthers>>
registerVars ==
  <<accounts, registerDraft, step, touched, registerCreated, request, error, signedIn,
    registerEdits, attempts>>
boardVars ==
  <<jobs, profile, boardMine, boardKnown, boardFetch, boardStale, boardPage, boardRequest,
    own, boardChanges>>
jobPageVars ==
  <<clock, jobPageJob, run, jobPageRequest, old, publishes, jobPageChanges, losses,
    failures, jobPageTab, jobPagePage, pubs, contents, fetching, fresh, awaited, started,
    ended>>

\* The variables of the modules that a behaviour is not of are off;
\* those of SubmitOnce stay as they began.
Off == "off"
NoListView ==
  /\ rows = Off /\ entries = Off /\ at = Off /\ rendered = Off /\ unrendered = Off
  /\ size = Off /\ listViewPage = Off /\ fetch = Off /\ selected = Off /\ changes = Off
  /\ picks = Off
NoSavedForm ==
  /\ server = Off /\ status = Off /\ known = Off /\ baseline = Off /\ values = Off
  /\ save = Off /\ place = Off /\ asking = Off /\ shown = Off /\ typed = Off /\ saves = Off
  /\ others = Off
NoQueueMoves ==
  /\ queueMovesStage = Off /\ scored = Off /\ tab = Off /\ cache = Off /\ last = Off
  /\ queueMovesFetch = Off /\ stale = Off /\ call = Off /\ held = Off /\ dialog = Off
  /\ drawer = Off /\ gesture = Off /\ asked = Off /\ asks = Off /\ timers = Off
  /\ queueMovesOthers = Off
NoRegister ==
  /\ accounts = Off /\ registerDraft = Off /\ step = Off /\ touched = Off
  /\ registerCreated = Off /\ request = Off /\ error = Off /\ signedIn = Off
  /\ registerEdits = Off /\ attempts = Off
NoBoard ==
  /\ jobs = Off /\ profile = Off /\ boardMine = Off /\ boardKnown = Off /\ boardFetch = Off
  /\ boardStale = Off /\ boardPage = Off /\ boardRequest = Off /\ own = Off
  /\ boardChanges = Off
NoJobPage ==
  /\ clock = Off /\ jobPageJob = Off /\ run = Off /\ jobPageRequest = Off /\ old = Off
  /\ publishes = Off /\ jobPageChanges = Off /\ losses = Off /\ failures = Off
  /\ jobPageTab = Off /\ jobPagePage = Off /\ pubs = Off /\ contents = Off /\ fetching = Off
  /\ fresh = Off /\ awaited = Off /\ started = Off /\ ended = Off

\* Nothing is sent in the behaviours of other modules.
Unsent == Init /\ job.eligible

MCInit ==
  \/ /\ world = "list" /\ Lists!Init
     /\ Unsent /\ NoSavedForm /\ NoQueueMoves /\ NoRegister /\ NoBoard /\ NoJobPage
  \/ /\ world = "picks" /\ Picks!Init
     /\ Unsent /\ NoSavedForm /\ NoQueueMoves /\ NoRegister /\ NoBoard /\ NoJobPage
  \/ /\ world = "stored size" /\ StoredSize!Init
     /\ Unsent /\ NoSavedForm /\ NoQueueMoves /\ NoRegister /\ NoBoard /\ NoJobPage
  \/ /\ world = "job form" /\ JobForm!Init
     /\ Unsent /\ NoListView /\ NoQueueMoves /\ NoRegister /\ NoBoard /\ NoJobPage
  \/ /\ world = "profile form" /\ ProfileForm!Init
     /\ Unsent /\ NoListView /\ NoQueueMoves /\ NoRegister /\ NoBoard /\ NoJobPage
  \/ /\ world = "apply" /\ Init
     /\ NoListView /\ NoSavedForm /\ NoQueueMoves /\ NoRegister /\ NoBoard /\ NoJobPage
  \/ /\ world = "queue" /\ Queue!Init
     /\ Unsent /\ NoListView /\ NoSavedForm /\ NoRegister /\ NoBoard /\ NoJobPage
  \/ /\ world = "two tabs" /\ TwoTabs!Init
     /\ Unsent /\ NoListView /\ NoSavedForm /\ NoRegister /\ NoBoard /\ NoJobPage
  \/ /\ world = "one row" /\ OneRow!Init
     /\ Unsent /\ NoListView /\ NoSavedForm /\ NoRegister /\ NoBoard /\ NoJobPage
  \/ /\ world = "register" /\ Registering!Init
     /\ Unsent /\ NoListView /\ NoSavedForm /\ NoQueueMoves /\ NoBoard /\ NoJobPage
  \/ /\ world = "board" /\ TwoJobs!Init
     /\ Unsent /\ NoListView /\ NoSavedForm /\ NoQueueMoves /\ NoRegister /\ NoJobPage
  \/ /\ world = "fit" /\ Fit!Init
     /\ Unsent /\ NoListView /\ NoSavedForm /\ NoQueueMoves /\ NoRegister /\ NoJobPage
  \/ /\ world = "board of others" /\ Others!Init
     /\ Unsent /\ NoListView /\ NoSavedForm /\ NoQueueMoves /\ NoRegister /\ NoJobPage
  \/ /\ world = "job page" /\ Watched!Init
     /\ Unsent /\ NoListView /\ NoSavedForm /\ NoQueueMoves /\ NoRegister /\ NoBoard
  \/ /\ world = "job page left" /\ Left!Init
     /\ Unsent /\ NoListView /\ NoSavedForm /\ NoQueueMoves /\ NoRegister /\ NoBoard
  \/ /\ world = "job page tabs" /\ BothTabs!Init
     /\ Unsent /\ NoListView /\ NoSavedForm /\ NoQueueMoves /\ NoRegister /\ NoBoard
  \/ /\ world = "job page of others" /\ Shared!Init
     /\ Unsent /\ NoListView /\ NoSavedForm /\ NoQueueMoves /\ NoRegister /\ NoBoard

MCNext ==
  /\ UNCHANGED world
  /\ \/ /\ world = "list" /\ Lists!Next
        /\ UNCHANGED <<vars, savedFormVars, queueMovesVars, registerVars, boardVars,
                       jobPageVars>>
     \/ /\ world = "picks" /\ Picks!Next
        /\ UNCHANGED <<vars, savedFormVars, queueMovesVars, registerVars, boardVars,
                       jobPageVars>>
     \/ /\ world = "stored size" /\ StoredSize!Next
        /\ UNCHANGED <<vars, savedFormVars, queueMovesVars, registerVars, boardVars,
                       jobPageVars>>
     \/ /\ world = "job form" /\ JobForm!Next
        /\ UNCHANGED <<vars, listViewVars, queueMovesVars, registerVars, boardVars,
                       jobPageVars>>
     \/ /\ world = "profile form" /\ ProfileForm!Next
        /\ UNCHANGED <<vars, listViewVars, queueMovesVars, registerVars, boardVars,
                       jobPageVars>>
     \/ /\ world = "apply" /\ Next
        /\ UNCHANGED <<listViewVars, savedFormVars, queueMovesVars, registerVars, boardVars,
                       jobPageVars>>
     \/ /\ world = "queue" /\ Queue!Next
        /\ UNCHANGED <<vars, listViewVars, savedFormVars, registerVars, boardVars,
                       jobPageVars>>
     \/ /\ world = "two tabs" /\ TwoTabs!Next
        /\ UNCHANGED <<vars, listViewVars, savedFormVars, registerVars, boardVars,
                       jobPageVars>>
     \/ /\ world = "one row" /\ OneRow!Next
        /\ UNCHANGED <<vars, listViewVars, savedFormVars, registerVars, boardVars,
                       jobPageVars>>
     \/ /\ world = "register" /\ Registering!Next
        /\ UNCHANGED <<vars, listViewVars, savedFormVars, queueMovesVars, boardVars,
                       jobPageVars>>
     \/ /\ world = "board" /\ TwoJobs!Next
        /\ UNCHANGED <<vars, listViewVars, savedFormVars, queueMovesVars, registerVars,
                       jobPageVars>>
     \/ /\ world = "fit" /\ Fit!Next
        /\ UNCHANGED <<vars, listViewVars, savedFormVars, queueMovesVars, registerVars,
                       jobPageVars>>
     \/ /\ world = "board of others" /\ Others!Next
        /\ UNCHANGED <<vars, listViewVars, savedFormVars, queueMovesVars, registerVars,
                       jobPageVars>>
     \/ /\ world = "job page" /\ Watched!Next
        /\ UNCHANGED <<vars, listViewVars, savedFormVars, queueMovesVars, registerVars,
                       boardVars>>
     \/ /\ world = "job page left" /\ Left!Next
        /\ UNCHANGED <<vars, listViewVars, savedFormVars, queueMovesVars, registerVars,
                       boardVars>>
     \/ /\ world = "job page tabs" /\ BothTabs!Next
        /\ UNCHANGED <<vars, listViewVars, savedFormVars, queueMovesVars, registerVars,
                       boardVars>>
     \/ /\ world = "job page of others" /\ Shared!Next
        /\ UNCHANGED <<vars, listViewVars, savedFormVars, queueMovesVars, registerVars,
                       boardVars>>

mcVars ==
  <<world, vars, listViewVars, savedFormVars, queueMovesVars, registerVars, boardVars,
  jobPageVars>>

MCSpec == MCInit /\ [][MCNext]_mcVars

\* Every variable keeps the type that its module gives it.
TypesOK ==
  /\ world = "list" => Lists!TypeOK
  /\ world = "picks" => Picks!TypeOK
  /\ world = "stored size" => StoredSize!TypeOK
  /\ world = "job form" => JobForm!TypeOK
  /\ world = "profile form" => ProfileForm!TypeOK
  /\ world = "apply" => TypeOK
  /\ world = "queue" => Queue!TypeOK
  /\ world = "two tabs" => TwoTabs!TypeOK
  /\ world = "one row" => OneRow!TypeOK
  /\ world = "register" => Registering!TypeOK
  /\ world = "board" => TwoJobs!TypeOK
  /\ world = "fit" => Fit!TypeOK
  /\ world = "board of others" => Others!TypeOK
  /\ world = "job page" => Watched!TypeOK
  /\ world = "job page left" => Left!TypeOK
  /\ world = "job page tabs" => BothTabs!TypeOK
  /\ world = "job page of others" => Shared!TypeOK

\* One gesture on a list is one step back, and a correction that nobody asked for is none
\* (frontend/src/hooks/useClampOffset.ts:24); the size picked is the one in the URL
\* (frontend/src/hooks/useUrlState.ts:150); the rows ticked elsewhere are still exported; and a list
\* at rest never says that it is empty of a filter that matched rows.
ListsKeepTheirPlace ==
  /\ [](/\ world = "list" => Lists!NoFalseEmpty
        /\ world = "picks" => Picks!NoFalseEmpty
        /\ world = "stored size" => StoredSize!NoFalseEmpty)
  /\ [][/\ world = "list" =>
             /\ Lists!OneGestureOneBack
             /\ Lists!CorrectionsAddNoStep
             /\ Lists!PickedSizeIsKept
        /\ world = "picks" =>
             /\ Picks!OneGestureOneBack
             /\ Picks!CorrectionsAddNoStep
             /\ Picks!PickedSizeIsKept
             /\ Picks!SelectionSurvivesPaging
        /\ world = "stored size" =>
             /\ StoredSize!OneGestureOneBack
             /\ StoredSize!CorrectionsAddNoStep]_mcVars

\* The job editor asks before it throws away unsaved edits
\* (frontend/src/hooks/useUnsavedChangesGuard.ts:7), and what others saved meanwhile stays
\* (frontend/src/components/jobs/jobForm.ts:194); an account that the form knows of is not
\* registered again (frontend/src/pages/RegisterPage.tsx:63), and the meter scores exactly the
\* passwords the API accepts (frontend/src/components/auth/password.ts:110).
FormsAreHonest ==
  /\ [](world = "register" => Registering!NeverRegisteredTwice /\ Registering!ScoredIfAccepted)
  /\ [][/\ world = "job form" => JobForm!NothingLostUnasked /\ JobForm!OthersEditsStay
        /\ world = "profile form" => ProfileForm!OthersEditsStay]_mcVars

\* A double click moves one application (frontend/src/components/applications/ApplicationActions.tsx:113),
\* a click moves a row of the tab on the screen (frontend/src/pages/recruiter/ApplicationsPage.tsx:266),
\* and a dialog shows the outcome of its own move
\* (frontend/src/components/applications/useStageMove.tsx:40).
ClicksAreOfTheirRow ==
  /\ [](/\ world = "queue" => Queue!DoubleClickMovesOne /\ Queue!DialogIsOfItsCall
        /\ world = "two tabs" => TwoTabs!DoubleClickMovesOne /\ TwoTabs!DialogIsOfItsCall
        /\ world = "one row" => OneRow!DoubleClickMovesOne /\ OneRow!DialogIsOfItsCall)
  /\ [][/\ world = "queue" => Queue!ClicksMoveTheTabsOwn
        /\ world = "two tabs" => TwoTabs!ClicksMoveTheTabsOwn
        /\ world = "one row" => OneRow!ClicksMoveTheTabsOwn]_mcVars

\* A card says what the server would answer, the fit filters hide no job that the server would let
\* the candidate apply to (frontend/src/lib/match.ts:47), and what they have done themselves shows
\* once nothing is being read (frontend/src/hooks/queries.ts:257).
CardsAreHonest ==
  /\ world = "board" =>
       /\ TwoJobs!CardsAreHonest
       /\ TwoJobs!OffersAreWhole
       /\ TwoJobs!QuietBoardIsCurrent
  /\ world = "fit" => Fit!CardsAreHonest /\ Fit!OffersAreWhole /\ Fit!QuietBoardIsCurrent
  /\ world = "board of others" => Others!CardsAreHonest /\ Others!OffersAreWhole

\* A job that the page calls stuck has no run (frontend/src/components/job-detail/publishing.ts:55),
\* "Publishing started" does not outlive the publishing and the toast says how it ended
\* (frontend/src/components/job-detail/JobActions.tsx:49,68), and the content shown is of the run
\* whose time stands beside it (frontend/src/hooks/queries.ts:113).
PublishingIsTold ==
  /\ [](/\ world = "job page" =>
             /\ Watched!StuckIsTrue
             /\ Watched!StartedGivesWay
             /\ Watched!ContentIsOfTheRun
        /\ world = "job page left" =>
             /\ Left!StuckIsTrue
             /\ Left!StartedGivesWay
             /\ Left!ContentIsOfTheRun
        /\ world = "job page tabs" =>
             /\ BothTabs!StuckIsTrue
             /\ BothTabs!StartedGivesWay
             /\ BothTabs!ContentIsOfTheRun
        /\ world = "job page of others" =>
             /\ Shared!StuckIsTrue
             /\ Shared!StartedGivesWay
             /\ Shared!ContentIsOfTheRun)
  /\ [][/\ world = "job page" => Watched!SaidIsReal
        /\ world = "job page left" => Left!SaidIsReal
        /\ world = "job page tabs" => BothTabs!SaidIsReal
        /\ world = "job page of others" => Shared!SaidIsReal]_mcVars
=============================================================================
