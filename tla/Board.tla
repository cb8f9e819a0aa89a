------------------------------- MODULE Board -------------------------------
(***************************************************************************)
(* A candidate's board of the open jobs                                    *)
(* (components/jobs/CandidateJobBoard.tsx, JobBoardCard.tsx), the jobs     *)
(* recommended to them, and a job's page, where they apply or withdraw.    *)
(* The board says of every job whether they can apply, from three reads:   *)
(* the jobs, their profile and their own applications.  The rule is the    *)
(* server's (backend/app/applications/service.py), previewed by            *)
(* lib/match.ts.  What is read again when they apply, withdraw or save     *)
(* their profile is in hooks/queries.ts.                                   *)
(***************************************************************************)
EXTENDS Naturals, FiniteSets

CONSTANTS
  Jobs,
  Skills,
  MaxYears,                \* bound on the years of experience
  MAX_ACTIVE_APPLICATIONS, \* the server's setting, and the number the console knows
  MaxOwn,                  \* bound on what the candidate does
  MaxChanges,              \* bound on what recruiters and others do
  None

Queries == {"jobs", "profile", "mine"}
Pages == {"board", "job", "profile"}

\* What the server knows of a job; full: it has received as many applications as it takes.
Postings == [open : BOOLEAN, needs : SUBSET Skills, years : 0 .. MaxYears, full : BOOLEAN]

Profiles == [skills : SUBSET Skills, years : 0 .. MaxYears]

VARIABLES
  jobs,     \* on the server
  profile,
  mine,     \* for each job the candidate's application: None, "active" or "ended"
  known,    \* what the console has read
  fetch,    \* the read of each query: "idle", "asked", or the answer under way
  stale,    \* the queries that were invalidated while no page shows them
  page,
  request,  \* what the candidate has asked for
  own, changes

server == <<jobs, profile, mine>>
vars == <<server, known, fetch, stale, page, request, own, changes>>

Idle == [now |-> "idle"]

NoRequest == [asks |-> "nothing"]

-----------------------------------------------------------------------------
(* The rule and its preview.                                               *)

\* Rules 2 and 3 and what comes before and after them, in the server's order.
Verdict(j) ==
  CASE ~jobs[j].open -> "not open"
    [] jobs[j].open /\ (profile.years < jobs[j].years
         \/ (jobs[j].needs # {} /\ jobs[j].needs \cap profile.skills = {})) -> "not eligible"
    [] OTHER ->
         IF Cardinality({k \in Jobs : mine[k] = "active"}) >= MAX_ACTIVE_APPLICATIONS THEN "limit"
         ELSE IF jobs[j].full THEN "full" ELSE IF mine[j] # None THEN "duplicate" ELSE "created"

\* Mutation: a job's skills are all needed.
skillMatchAll(p, j) == [matched |-> IF j.needs \subseteq p.skills THEN j.needs ELSE {}, missing |-> j.needs \ p.skills]

\* Names of skills are normalised by the server before either side reads them.
skillMatch(p, j) == [matched |-> j.needs \cap p.skills, missing |-> j.needs \ p.skills]

eligibility(p, j) ==
  LET match == skillMatch(p, j) IN
  p.years >= j.years /\ ~(match.missing # {} /\ match.matched = {})

\* Mutation: every application counts.
countActiveOrEnded(applications) == Cardinality({j \in Jobs : applications[j] # None})

countActive(applications) == Cardinality({j \in Jobs : applications[j] = "active"})

-----------------------------------------------------------------------------
(* What the candidate is shown.                                            *)

Has(q) == known[q] # None

atCap == Has("mine") /\ countActive(known.mine) >= MAX_ACTIVE_APPLICATIONS

\* A profile that is not read yet hides no job, and says nothing of any.
buildBoard(filters) ==
  {j \in DOMAIN known.jobs :
     /\ j \in filters.among
     /\ ~(filters.eligibleOnly /\ Has("profile") /\ ~eligibility(known.profile, known.jobs[j]))
     /\ ~(filters.hideApplied /\ Has("mine") /\ known.mine[j] # None)}

JobBoardCard(j) ==
  IF Has("mine") /\ known.mine[j] # None THEN "Applied"
  ELSE IF ~Has("profile") THEN "nothing"
  ELSE IF ~eligibility(known.profile, known.jobs[j]) THEN "Not eligible yet"
  ELSE IF atCap THEN "At your application limit" ELSE "You can apply"

recommendJobs ==
  {j \in DOMAIN known.jobs : known.mine[j] = None /\ eligibility(known.profile, known.jobs[j])}

hasBoardFilters(filters) == filters.among # Jobs \/ filters.eligibleOnly \/ filters.hideApplied

\* The board has one page here; one past the end says there are no open roles.
CandidateJobBoard(filters) ==
  IF ~Has("jobs") THEN "loading" ELSE IF buildBoard(filters) # {} THEN "roles"
  ELSE IF hasBoardFilters(filters) THEN "No roles match your filters" ELSE "No open roles right now"

RecommendedJobs ==
  IF ~Has("jobs") THEN "loading" ELSE IF recommendJobs # {} THEN "roles"
  ELSE IF known.profile.skills = {} THEN "Add your skills to get matched" ELSE "No new matches right now"

-----------------------------------------------------------------------------
(* The reads.                                                              *)

ActiveOn(p) == IF p = "board" THEN Queries ELSE IF p = "job" THEN {"profile", "mine"} ELSE {"profile"}

Published == [j \in {k \in Jobs : jobs[k].open} |-> jobs[j]]

Now == [jobs |-> Published, profile |-> profile, mine |-> mine]

Asked == [now |-> "asked"]

Serve ==
  /\ \E q \in Queries : fetch[q] = Asked /\ fetch' = [fetch EXCEPT ![q] = [now |-> "answered", data |-> Now[q]]]
  /\ UNCHANGED <<server, known, stale, page, request, own, changes>>

\* An answer is taken for fresh whenever it was invalidated.
Arrive ==
  /\ \E q \in Queries :
       /\ fetch[q].now = "answered"
       /\ known' = [known EXCEPT ![q] = fetch[q].data]
       /\ fetch' = [fetch EXCEPT ![q] = Idle] /\ stale' = stale \ {q}
  /\ UNCHANGED <<server, page, request, own, changes>>

\* A page reads what it shows, unless it was read within the last seconds.
Open ==
  /\ \E p \in Pages \ {page}, again \in BOOLEAN :
       LET read == {q \in ActiveOn(p) \ ActiveOn(page) : ~Has(q) \/ q \in stale \/ again} IN
       /\ page' = p
       /\ fetch' = [q \in Queries |-> IF q \in read /\ fetch[q] = Idle THEN Asked ELSE fetch[q]]
  /\ request = NoRequest
  /\ UNCHANGED <<server, known, stale, request, own, changes>>

\* The candidate comes back to the window.
Refocus ==
  /\ fetch' = [q \in Queries |-> IF q \in ActiveOn(page) /\ fetch[q] = Idle THEN Asked ELSE fetch[q]]
  /\ fetch' # fetch
  /\ UNCHANGED <<server, known, stale, page, request, own, changes>>

\* Mutation: a read under way is as good as a new one.
invalidateQueriesJoining(q) ==
  /\ fetch' = IF q \in ActiveOn(page) /\ fetch[q] = Idle THEN [fetch EXCEPT ![q] = Asked] ELSE fetch
  /\ stale' = IF q \in ActiveOn(page) THEN stale ELSE stale \cup {q}

\* What is on the page is read anew, whatever read is under way; the rest when it is shown next.
invalidateQueries(q) ==
  /\ fetch' = IF q \in ActiveOn(page) THEN [fetch EXCEPT ![q] = Asked] ELSE fetch
  /\ stale' = IF q \in ActiveOn(page) THEN stale ELSE stale \cup {q}

-----------------------------------------------------------------------------
(* What the candidate does; they stay on the page until it is answered.    *)

Ask(r) ==
  /\ request = NoRequest /\ own < MaxOwn /\ own' = own + 1
  /\ request' = r
  /\ UNCHANGED <<server, known, fetch, stale, page, changes>>

\* The form is there for a job not applied to, and only for the eligible; the page reads the job
\* by itself, so that it may know it better than the board does.
Apply ==
  /\ page = "job" /\ Has("profile") /\ Has("mine")
  /\ \E j \in Jobs : known.mine[j] = None /\ jobs[j].open /\ eligibility(known.profile, jobs[j])
                     /\ Ask([asks |-> "apply", of |-> j])

Withdraw ==
  /\ page = "job" /\ Has("profile") /\ Has("mine")
  /\ \E j \in Jobs : known.mine[j] = "active" /\ Ask([asks |-> "withdraw", of |-> j])

SaveProfile ==
  /\ page = "profile" /\ Has("profile")
  /\ \E p \in Profiles \ {known.profile} : Ask([asks |-> "save", of |-> p])

Commit ==
  /\ LET j == request.of IN
     \/ /\ request.asks = "apply"
        /\ mine' = IF Verdict(j) = "created" THEN [mine EXCEPT ![j] = "active"] ELSE mine
        /\ request' = [asks |-> "answered", of |-> "mine",
                       changed |-> Verdict(j) \in {"created", "duplicate"}]
        /\ UNCHANGED profile
     \/ /\ request.asks = "withdraw"
        /\ mine' = IF mine[j] = "active" THEN [mine EXCEPT ![j] = "ended"] ELSE mine
        /\ request' = [asks |-> "answered", of |-> "mine", changed |-> mine[j] = "active"]
        /\ UNCHANGED profile
     \/ /\ request.asks = "save" /\ profile' = j
        /\ request' = [asks |-> "answered", of |-> "profile", changed |-> TRUE]
        /\ UNCHANGED mine
  /\ UNCHANGED <<jobs, known, fetch, stale, page, own, changes>>

\* A saved profile is the answer, and is kept at once.
Answered ==
  /\ request.asks = "answered" /\ request' = NoRequest
  /\ IF request.changed THEN invalidateQueries(request.of) ELSE UNCHANGED <<fetch, stale>>
  /\ known' = IF request.of = "profile" THEN [known EXCEPT !.profile = profile] ELSE known
  /\ UNCHANGED <<server, page, own, changes>>

\* A recruiter closes a job or ends an application; others fill a job.
Others ==
  /\ changes < MaxChanges /\ changes' = changes + 1
  /\ \E j \in Jobs :
       \/ jobs[j].open /\ jobs' = [jobs EXCEPT ![j].open = FALSE] /\ UNCHANGED mine
       \/ jobs[j].open /\ ~jobs[j].full /\ jobs' = [jobs EXCEPT ![j].full = TRUE] /\ UNCHANGED mine
       \/ mine[j] = "active" /\ mine' = [mine EXCEPT ![j] = "ended"] /\ UNCHANGED jobs
  /\ UNCHANGED <<profile, known, fetch, stale, page, request, own>>

Init ==
  /\ jobs \in [Jobs -> {p \in Postings : p.open /\ ~p.full}]
  /\ profile \in Profiles /\ mine = [j \in Jobs |-> None]
  /\ known = [q \in Queries |-> None] /\ stale = {}
  /\ page = "board" /\ fetch = [q \in Queries |-> Asked]
  /\ request = NoRequest /\ own = 0 /\ changes = 0

Next ==
  \/ Serve \/ Arrive \/ Open \/ Refocus
  \/ Apply \/ Withdraw \/ SaveProfile \/ Commit \/ Answered \/ Others

Spec == Init /\ [][Next]_vars

-----------------------------------------------------------------------------
(* Properties.                                                             *)

TypeOK ==
  /\ jobs \in [Jobs -> Postings] /\ profile \in Profiles /\ mine \in [Jobs -> {None, "active", "ended"}]
  /\ Has("jobs") => \A j \in DOMAIN known.jobs : known.jobs[j] \in Postings
  /\ Has("profile") => known.profile \in Profiles
  /\ Has("mine") => known.mine \in [Jobs -> {None, "active", "ended"}]
  /\ \A q \in Queries : fetch[q].now \in {"idle", "asked", "answered"}
  /\ stale \subseteq Queries /\ page \in Pages
  /\ request.asks \in {"nothing", "apply", "withdraw", "save", "answered"}

\* What the candidate has done themselves shows once nothing is being read: the board's profile and
\* applications are the server's, as long as nobody else changes them (hooks/queries.ts:257, :390).
QuietBoardIsCurrent ==
  page = "board" /\ request = NoRequest /\ changes = 0 /\ (\A q \in Queries : fetch[q] = Idle)
    => known = Now

\* Every card says what the server would answer, when the board has read it all
\* (components/jobs/CandidateJobBoard.tsx:121); a full job is not known to be full.
CardsAreHonest ==
  known = Now => \A j \in DOMAIN known.jobs :
    LET card == JobBoardCard(j) IN
    /\ card = "Applied" => Verdict(j) \in {"duplicate", "limit", "full", "not eligible"}
    /\ card = "You can apply" => Verdict(j) \in {"created", "full"}
    /\ card = "At your application limit" => Verdict(j) = "limit"
    /\ card = "Not eligible yet" => Verdict(j) = "not eligible"

\* Switching the fit filters on hides no job the server would let them apply to; no job is
\* recommended that it would turn down on skills or experience (components/candidate/recommend.ts:3),
\* and nothing is said to be missing that is there.
OffersAreWhole ==
  LET fits == [among |-> Jobs, eligibleOnly |-> TRUE, hideApplied |-> TRUE]
      taken == {j \in Jobs : Verdict(j) = "created"} IN
  known = Now =>
    /\ \A j \in recommendJobs : Verdict(j) \notin {"not eligible", "not open", "duplicate"}
    /\ taken \subseteq buildBoard(fits) \cap recommendJobs
    /\ taken # {} => CandidateJobBoard(fits) = "roles" /\ RecommendedJobs = "roles"
    /\ CandidateJobBoard([among |-> Jobs, eligibleOnly |-> FALSE, hideApplied |-> FALSE])
         = "No open roles right now" => \A j \in Jobs : Verdict(j) = "not open"
=============================================================================
