------------------------------ MODULE MCPages -------------------------------
(***************************************************************************)
(* Instances for TLC of the console around its pages, the shell and the    *)
(* command palette, and of the dashboard.                                  *)
(***************************************************************************)
EXTENDS TLC

CONSTANTS None

VARIABLES
  world,  \* which of the instances below this behaviour is of; it never changes
  page, ui, menu, mobile, mobileOpen, pending, tone, answers, keys, singleKeys,
  title, stored, drawn, viewing, known, open, query, term, activeId, cache, fetching, last,
  typed, visits, changes,
  label, keywords, terms,
  applications, moves, counts, reads,
  today, created, waiting, recent, applied, oldest,
  now, job, application, attentionChanges, failures, refreshes, queries, clean,
  toasts, nextId, toastsPending, paused, timers

Frame ==
  INSTANCE Shell WITH
    MaxAsks <- 2, MaxOpen <- 2

Finder ==
  INSTANCE Palette WITH
    Tabs <- {"here"}, Jobs <- <<"j1", "j2">>, MAX_RECENT <- 2, SEARCH_RESULT_LIMIT <- 2,
    MaxTyped <- 2, MaxVisits <- 1, MaxChanges <- 1

TwoTabs ==
  INSTANCE Palette WITH
    Tabs <- {"here", "there"}, Jobs <- <<"j1", "j2">>, MAX_RECENT <- 2,
    SEARCH_RESULT_LIMIT <- 1, MaxTyped <- 1, MaxVisits <- 2, MaxChanges <- 0

Matching ==
  INSTANCE Fuzzy WITH
    MaxText <- 4, MaxTerm <- 2, MaxTerms <- 2

Counted ==
  INSTANCE Funnel WITH
    MaxApplications <- 2, MaxMoves <- 1, MaxReads <- 5

Recent ==
  INSTANCE Trend WITH
    RECENT_LIMIT <- 2, WEEK <- 1, MaxApplications <- 3, MaxDays <- 3, staleApplied <- 1

Alerts ==
  INSTANCE Attention WITH
    Cap <- 1, stuckProcessing <- 0, scoreWait <- 0, staleApplied <- 0, MaxClock <- 1,
    MaxChanges <- 1, MaxFailures <- 0, MaxRefreshes <- 1, changes <- attentionChanges

Failing ==
  INSTANCE Attention WITH
    Cap <- 1, stuckProcessing <- 0, scoreWait <- 0, staleApplied <- 0, MaxClock <- 1,
    MaxChanges <- 1, MaxFailures <- 1, MaxRefreshes <- 0, changes <- attentionChanges

Messages ==
  INSTANCE Toasts WITH
    MAX_TOASTS <- 2, MaxShown <- 2, pending <- toastsPending

shellVars ==
  <<page, ui, menu, mobile, mobileOpen, pending, tone, answers, keys, singleKeys>>
paletteVars ==
  <<title, stored, drawn, viewing, known, open, query, term, activeId, cache, fetching,
    last, typed, visits, changes>>
fuzzyVars ==
  <<label, keywords, terms>>
funnelVars ==
  <<applications, moves, counts, reads>>
trendVars ==
  <<today, created, waiting, recent, applied, oldest>>
attentionVars ==
  <<now, job, application, attentionChanges, failures, refreshes, queries, clean>>
toastsVars ==
  <<toasts, nextId, toastsPending, paused, timers>>

\* The variables of the modules that a behaviour is not of are off.
Off == "off"
NoShell ==
  /\ page = Off /\ ui = Off /\ menu = Off /\ mobile = Off /\ mobileOpen = Off
  /\ pending = Off /\ tone = Off /\ answers = Off /\ keys = Off /\ singleKeys = Off
NoPalette ==
  /\ title = Off /\ stored = Off /\ drawn = Off /\ viewing = Off /\ known = Off
  /\ open = Off /\ query = Off /\ term = Off /\ activeId = Off /\ cache = Off
  /\ fetching = Off /\ last = Off /\ typed = Off /\ visits = Off /\ changes = Off
NoFuzzy ==
  /\ label = Off /\ keywords = Off /\ terms = Off
NoFunnel ==
  /\ applications = Off /\ moves = Off /\ counts = Off /\ reads = Off
NoTrend ==
  /\ today = Off /\ created = Off /\ waiting = Off /\ recent = Off /\ applied = Off
  /\ oldest = Off
NoAttention ==
  /\ now = Off /\ job = Off /\ application = Off /\ attentionChanges = Off /\ failures = Off
  /\ refreshes = Off /\ queries = Off /\ clean = Off
NoToasts ==
  /\ toasts = Off /\ nextId = Off /\ toastsPending = Off /\ paused = Off /\ timers = Off

MCInit ==
  \/ /\ world = "shell" /\ Frame!Init
     /\ NoPalette /\ NoFuzzy /\ NoFunnel /\ NoTrend /\ NoAttention /\ NoToasts
  \/ /\ world = "palette" /\ Finder!Init
     /\ NoShell /\ NoFuzzy /\ NoFunnel /\ NoTrend /\ NoAttention /\ NoToasts
  \/ /\ world = "two tabs" /\ TwoTabs!Init
     /\ NoShell /\ NoFuzzy /\ NoFunnel /\ NoTrend /\ NoAttention /\ NoToasts
  \/ /\ world = "matching" /\ Matching!Init
     /\ NoShell /\ NoPalette /\ NoFunnel /\ NoTrend /\ NoAttention /\ NoToasts
  \/ /\ world = "funnel" /\ Counted!Init
     /\ NoShell /\ NoPalette /\ NoFuzzy /\ NoTrend /\ NoAttention /\ NoToasts
  \/ /\ world = "trend" /\ Recent!Init
     /\ NoShell /\ NoPalette /\ NoFuzzy /\ NoFunnel /\ NoAttention /\ NoToasts
  \/ /\ world = "attention" /\ Alerts!Init
     /\ NoShell /\ NoPalette /\ NoFuzzy /\ NoFunnel /\ NoTrend /\ NoToasts
  \/ /\ world = "failures" /\ Failing!Init
     /\ NoShell /\ NoPalette /\ NoFuzzy /\ NoFunnel /\ NoTrend /\ NoToasts
  \/ /\ world = "messages" /\ Messages!Init
     /\ NoShell /\ NoPalette /\ NoFuzzy /\ NoFunnel /\ NoTrend /\ NoAttention

MCNext ==
  /\ UNCHANGED world
  /\ \/ /\ world = "shell" /\ Frame!Next
        /\ UNCHANGED <<paletteVars, fuzzyVars, funnelVars, trendVars, attentionVars,
                       toastsVars>>
     \/ /\ world = "palette" /\ Finder!Next
        /\ UNCHANGED <<shellVars, fuzzyVars, funnelVars, trendVars, attentionVars,
                       toastsVars>>
     \/ /\ world = "two tabs" /\ TwoTabs!Next
        /\ UNCHANGED <<shellVars, fuzzyVars, funnelVars, trendVars, attentionVars,
                       toastsVars>>
     \/ /\ world = "matching" /\ Matching!Next
        /\ UNCHANGED <<shellVars, paletteVars, funnelVars, trendVars, attentionVars,
                       toastsVars>>
     \/ /\ world = "funnel" /\ Counted!Next
        /\ UNCHANGED <<shellVars, paletteVars, fuzzyVars, trendVars, attentionVars,
                       toastsVars>>
     \/ /\ world = "trend" /\ Recent!Next
        /\ UNCHANGED <<shellVars, paletteVars, fuzzyVars, funnelVars, attentionVars,
                       toastsVars>>
     \/ /\ world = "attention" /\ Alerts!Next
        /\ UNCHANGED <<shellVars, paletteVars, fuzzyVars, funnelVars, trendVars, toastsVars>>
     \/ /\ world = "failures" /\ Failing!Next
        /\ UNCHANGED <<shellVars, paletteVars, fuzzyVars, funnelVars, trendVars, toastsVars>>
     \/ /\ world = "messages" /\ Messages!Next
        /\ UNCHANGED <<shellVars, paletteVars, fuzzyVars, funnelVars, trendVars,
                       attentionVars>>

mcVars ==
  <<world, shellVars, paletteVars, fuzzyVars, funnelVars, trendVars, attentionVars,
  toastsVars>>

MCSpec == MCInit /\ [][MCNext]_mcVars

\* Every variable keeps the type that its module gives it.
TypesOK ==
  /\ world = "shell" => Frame!TypeOK
  /\ world = "palette" => Finder!TypeOK
  /\ world = "two tabs" => TwoTabs!TypeOK
  /\ world = "matching" => Matching!TypeOK
  /\ world = "funnel" => Counted!TypeOK
  /\ world = "trend" => Recent!TypeOK
  /\ world = "attention" => Alerts!TypeOK
  /\ world = "failures" => Failing!TypeOK
  /\ world = "messages" => Messages!TypeOK

\* The page behind is held exactly while a surface is open and the one on top keeps focus
\* (frontend/src/components/ui/useOverlay.ts:30,122), a new page does not leave focus nowhere
\* (frontend/src/components/Layout.tsx:350), and every question put to the user is answered
\* (frontend/src/components/ui/ConfirmDialog.tsx:101).
OverlaysGiveBack ==
  /\ [](world = "shell" => Frame!HeldWhileOpen /\ Frame!NoQuestionForgotten)
  /\ [][world = "shell" => Frame!FocusIsNotTaken /\ Frame!PageIsLandedOn]_mcVars

\* "Nothing matches" is said of the text that is typed (frontend/src/components/palette/PaletteDialog.tsx:155),
\* no job is offered twice, and the highlight stays on its option whatever arrives; a term is found
\* exactly when its letters are there in order (frontend/src/components/palette/fuzzy.ts:54), and what
\* is marked spells it; no tab forgets what another remembered (frontend/src/hooks/useLocalStorage.ts:61).
SearchIsFaithful ==
  /\ [](/\ world = "palette" => Finder!NothingMatchesIsTrue /\ Finder!OfferedOnce
        /\ world = "two tabs" => TwoTabs!NothingMatchesIsTrue /\ TwoTabs!OfferedOnce
        /\ world = "matching" =>
             /\ Matching!FindsAllThere
             /\ Matching!MarksSpellTheTerm
             /\ Matching!LabelWins
             /\ Matching!HighlightIsFaithful)
  /\ [][/\ world = "palette" => Finder!HighlightStays
        /\ world = "two tabs" => TwoTabs!RememberedStays]_mcVars

\* What the dashboard draws from several answers is so: the funnel is off by the moves made meanwhile
\* only (frontend/src/components/dashboard/metrics.ts:45), a cut-off page never passes for a quiet week
\* nor hides who has waited too long (frontend/src/components/dashboard/metrics.ts:113), and "all clear"
\* was checked, and is of now (frontend/src/hooks/useDashboardData.ts:117,151).
DashboardIsTrue ==
  /\ world = "funnel" => Counted!OverReportsMovesOnly /\ Counted!NoneYetIsCounted
  /\ world = "trend" => Recent!DaysAreCounted /\ Recent!ChangeIsReal /\ Recent!OldestAreListed
  /\ world = "attention" => Alerts!ClearIsChecked /\ Alerts!ClearIsCurrent
  /\ world = "failures" => Failing!ClearIsChecked /\ Failing!ClearIsCurrent
=============================================================================
