------------------------------- MODULE Trend -------------------------------
(***************************************************************************)
(* What the recruiter's dashboard makes of one page of the applications:   *)
(* how many came in each day, from the newest ones                         *)
(* (components/dashboard/metrics.ts, dailyTrend), and which have waited    *)
(* longest, from the last page of those still in "applied"                 *)
(* (hooks/useDashboardData.ts).  The server counts and then selects, in    *)
(* two statements, and the offset of the last page comes from a count read *)
(* before; applications arrive in between.                                 *)
(***************************************************************************)
EXTENDS Naturals, FiniteSets, SequencesExt

CONSTANTS
  RECENT_LIMIT,     \* how many applications one request returns
  WEEK,             \* how many days make a week; the trend covers two
  MaxApplications,  \* bound on the applications received
  MaxDays,          \* bound on the days that pass
  staleApplied      \* after how many days an application has waited too long

VARIABLES
  today,
  created,   \* the day each application came in, the first one first
  waiting,   \* those still in "applied"
  recent,    \* the page of the newest: "none", counted by the server, or shown
  applied,   \* the count of those in "applied", and what arrived and left since it was read
  oldest     \* the last page of them

vars == <<today, created, waiting, recent, applied, oldest>>

Ids == DOMAIN created

Unread == [state |-> "none", total |-> 0, rows |-> {}, seen |-> 0, torn |-> 0]

NotRead == [read |-> FALSE, n |-> 0, since |-> 0, gone |-> 0]

NoPage == [read |-> FALSE, rows |-> {}, there |-> {}, since |-> 0, gone |-> 0, day |-> 0]

-----------------------------------------------------------------------------
Arrive ==
  /\ Len(created) < MaxApplications
  /\ created' = Append(created, today)
  /\ waiting' = waiting \cup {Len(created')}
  /\ recent' = IF recent.state = "counted" THEN [recent EXCEPT !.torn = @ + 1] ELSE recent
  /\ applied' = IF applied.read THEN [applied EXCEPT !.since = @ + 1] ELSE applied
  /\ UNCHANGED <<today, oldest>>

\* An application is moved on, or left.
Leave ==
  /\ \E i \in waiting : waiting' = waiting \ {i}
  /\ applied' = IF applied.read THEN [applied EXCEPT !.gone = @ + 1] ELSE applied
  /\ UNCHANGED <<today, created, recent, oldest>>

NextDay ==
  /\ today < MaxDays /\ today' = today + 1
  /\ UNCHANGED <<created, waiting, recent, applied, oldest>>

\* The newest of a set of applications, after the first few.
Newest(set, offset, limit) ==
  {i \in set : LET newer == Cardinality({j \in set : j > i}) IN newer >= offset /\ newer < offset + limit}

CountRecent ==
  /\ recent.state = "none"
  /\ recent' = [Unread EXCEPT !.state = "counted", !.total = Len(created)]
  /\ UNCHANGED <<today, created, waiting, applied, oldest>>

SelectRecent ==
  /\ recent.state = "counted"
  /\ recent' = [recent EXCEPT !.state = "shown", !.rows = Newest(Ids, 0, RECENT_LIMIT), !.seen = Len(created)]
  /\ UNCHANGED <<today, created, waiting, applied, oldest>>

CountApplied ==
  /\ applied' = [read |-> TRUE, n |-> Cardinality(waiting), since |-> 0, gone |-> 0]
  /\ UNCHANGED <<today, created, waiting, recent, oldest>>

\* Mutation: the first page.
OffsetOfFirst(n) == 0

\* The list is newest-first, so the oldest are its last page.
Offset(n) == IF n > RECENT_LIMIT THEN n - RECENT_LIMIT ELSE 0

ReadOldest ==
  /\ applied.read /\ applied.n > 0
  /\ oldest' = [read |-> TRUE, rows |-> Newest(waiting, Offset(applied.n), RECENT_LIMIT),
                there |-> waiting, since |-> applied.since, gone |-> applied.gone, day |-> today]
  /\ UNCHANGED <<today, created, waiting, recent, applied>>

-----------------------------------------------------------------------------
(* The trend.                                                              *)

truncated == recent.total > Cardinality(recent.rows)

\* The day of the oldest application loaded, when there are more than were loaded.
coverageStart ==
  IF truncated /\ recent.rows # {} THEN created[CHOOSE i \in recent.rows : \A j \in recent.rows : i <= j] ELSE 0

\* Mutation: the day of the oldest one loaded counts as covered.
completeWithOldest(day) == ~truncated \/ day >= coverageStart

complete(day) == ~truncated \/ day > coverageStart

countOf(day) == Cardinality({i \in recent.rows : created[i] = day})

\* The days of the two weeks that end today; those before the first are left out.
Window(from, to) == {d \in 1 .. today : d + from > today /\ d + to <= today}

Total(days) == Cardinality({i \in recent.rows : created[i] \in days})

weekSum(days) == [known |-> \A d \in days : complete(d), n |-> Total(days)]

thisWeek == weekSum(Window(WEEK, 0))

lastWeek == weekSum(Window(2 * WEEK, WEEK))

\* The change against last week, when both weeks are covered.
weekOverWeek == [known |-> thisWeek.known /\ lastWeek.known, up |-> thisWeek.n > lastWeek.n, down |-> thisWeek.n < lastWeek.n]

\* What is said of a day: a number, or that number "or more".
TrendTable == [d \in Window(2 * WEEK, 0) |-> [count |-> countOf(d), orMore |-> ~complete(d)]]

\* The applications listed as waiting for too long.
staleRows == {i \in oldest.rows : created[i] + staleApplied < oldest.day}

Init ==
  /\ today = 1 /\ created = <<>> /\ waiting = {}
  /\ recent = Unread /\ applied = NotRead /\ oldest = NoPage

Next ==
  \/ Arrive \/ Leave \/ NextDay
  \/ CountRecent \/ SelectRecent \/ CountApplied \/ ReadOldest

Spec == Init /\ [][Next]_vars

-----------------------------------------------------------------------------
(* Properties.                                                             *)

TypeOK ==
  /\ today \in 1 .. MaxDays
  /\ created \in Seq(1 .. MaxDays) /\ Len(created) <= MaxApplications /\ waiting \subseteq Ids
  /\ recent.state \in {"none", "counted", "shown"} /\ recent.rows \subseteq Ids
  /\ Cardinality(recent.rows) <= RECENT_LIMIT
  /\ applied.n \in 0 .. MaxApplications
  /\ oldest.rows \subseteq oldest.there /\ Cardinality(oldest.rows) <= RECENT_LIMIT

\* The applications of some days that the server had when it selected the page.
Received(days) == Cardinality({i \in 1 .. recent.seen : created[i] \in days})

\* A day not marked "or more" (components/dashboard/metrics.ts:138) misses at most what arrived
\* between the count and the rows of the same answer, and no day shows too many.
DaysAreCounted ==
  recent.state = "shown" =>
    \A d \in DOMAIN TrendTable :
      /\ TrendTable[d].count <= Received({d})
      /\ TrendTable[d].orMore \/ TrendTable[d].count + recent.torn >= Received({d})

\* A truncated page never passes for a quiet week (components/dashboard/metrics.ts:113): a
\* change against last week is the change there was.
ChangeIsReal ==
  recent.state = "shown" /\ recent.torn = 0 /\ weekOverWeek.known =>
    LET now == Received(Window(WEEK, 0))
        before == Received(Window(2 * WEEK, WEEK))
    IN (weekOverWeek.up <=> now > before) /\ (weekOverWeek.down <=> now < before)

\* Nobody who has waited too long is missed (hooks/useDashboardData.ts:91): unless so many have
\* left since the count that the last page is past the end of the list, of those who waited when
\* it was read at most as many of the oldest are missed as arrived since the count.
OldestAreListed ==
  LET missed == {i \in oldest.there : \A j \in oldest.rows : i < j}
      overdue == {i \in oldest.there : created[i] + staleApplied < oldest.day}
  IN oldest.read /\ oldest.gone < RECENT_LIMIT + oldest.since =>
       /\ Cardinality(missed) <= oldest.since
       /\ oldest.since = 0 /\ overdue # {} => staleRows # {}
=============================================================================
