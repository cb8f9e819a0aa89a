------------------------------- MODULE Funnel -------------------------------
(***************************************************************************)
(* The headline numbers of the recruiter's dashboard: how many             *)
(* applications are at each stage, each from a request of its own          *)
(* (hooks/queries.ts, useStageCounts), and the funnel made of them         *)
(* (components/dashboard/metrics.ts, buildFunnel).  Applications arrive    *)
(* and move between the requests, and a request may fail.                  *)
(***************************************************************************)
EXTENDS Integers, Sequences, FiniteSets, SequencesExt

CONSTANTS
  MaxApplications,  \* bound on the applications received
  MaxMoves,         \* bound on their moves
  MaxReads          \* bound on the requests

PIPELINE_STAGES == <<"applied", "screening", "hired">>

Left == {"rejected", "withdrawn"}

Stages == ToSet(PIPELINE_STAGES) \cup Left

\* Where an application may go; screening stands for the stages between.
NEXT_STAGES ==
  [s \in Stages |-> CASE s = "applied"   -> {"screening"} \cup Left
                      [] s = "screening" -> {"hired"} \cup Left
                      [] OTHER -> {}]

NoCount == -1

VARIABLES
  applications,  \* of each, its stage and how far along the pipeline it got
  moves,         \* how many moves have been made
  counts,        \* the last count read of each stage, when, and whether the last request failed
  reads

vars == <<applications, moves, counts, reads>>

-----------------------------------------------------------------------------
Apply ==
  /\ Len(applications) < MaxApplications
  /\ applications' = Append(applications, [stage |-> "applied", got |-> 1])
  /\ UNCHANGED <<moves, counts, reads>>

Move ==
  /\ moves < MaxMoves /\ moves' = moves + 1
  /\ \E i \in DOMAIN applications : \E to \in NEXT_STAGES[applications[i].stage] :
       applications' = [applications EXCEPT ![i] =
                          [stage |-> to,
                           got |-> IF to \in Left THEN @.got ELSE CHOOSE k \in 1 .. 3 : PIPELINE_STAGES[k] = to]]
  /\ UNCHANGED <<counts, reads>>

At(stage) == Cardinality({i \in DOMAIN applications : applications[i].stage = stage})

\* A count is read, for the first time or again; one that fails keeps what was read before.
Read ==
  /\ reads < MaxReads /\ reads' = reads + 1
  /\ \E s \in Stages :
       \/ counts' = [counts EXCEPT ![s] = [n |-> At(s), moves |-> moves, failed |-> FALSE]]
       \/ counts' = [counts EXCEPT ![s].failed = TRUE]
  /\ UNCHANGED <<applications, moves>>

isLoading == \E s \in Stages : counts[s].n = NoCount /\ ~counts[s].failed

isError == \E s \in Stages : counts[s].failed

Count(s) == IF counts[s].n = NoCount THEN 0 ELSE counts[s].n

Sum(set) ==
  LET total[rest \in SUBSET set] ==
        IF rest = {} THEN 0 ELSE LET s == CHOOSE s \in rest : TRUE IN Count(s) + total[rest \ {s}]
  IN total[set]

\* Mutation: those who left count towards every stage.
reachedByAllWhoLeft(k) == Sum({PIPELINE_STAGES[i] : i \in k .. Len(PIPELINE_STAGES)} \cup Left)

\* Those at a stage or past it; those who left count towards the first alone.
reached(k) ==
  Sum({PIPELINE_STAGES[i] : i \in k .. Len(PIPELINE_STAGES)} \cup (IF k = 1 THEN Left ELSE {}))

entered == reached(1)

\* Mutation: the funnel is drawn from what has been read so far.
FunnelCardEarly ==
  IF isError THEN "error" ELSE IF entered = 0 THEN "none yet" ELSE "table"

\* What the funnel's card shows.
FunnelCard ==
  IF isError THEN "error" ELSE IF isLoading THEN "loading" ELSE IF entered = 0 THEN "none yet" ELSE "table"

\* The number of applications at the head of the page, "-" while unknown.
Applications == IF isLoading THEN "-" ELSE entered

\* A workspace with no application is shown the first steps instead of the cards.
emptyWorkspace == ~isLoading /\ ~isError /\ entered = 0

Init ==
  /\ applications = <<>> /\ moves = 0 /\ reads = 0
  /\ counts = [s \in Stages |-> [n |-> NoCount, moves |-> 0, failed |-> FALSE]]

Next == Apply \/ Move \/ Read

Spec == Init /\ [][Next]_vars

-----------------------------------------------------------------------------
(* Properties.                                                             *)

TypeOK ==
  /\ \A i \in DOMAIN applications : applications[i] \in [stage : Stages, got : 1 .. 3]
  /\ Len(applications) <= MaxApplications /\ moves \in 0 .. MaxMoves /\ reads \in 0 .. MaxReads
  /\ counts \in [Stages -> [n : NoCount .. MaxApplications, moves : 0 .. MaxMoves, failed : BOOLEAN]]

\* How many moves were made since the earliest count on the screen was read.
Since ==
  LET first == CHOOSE s \in Stages : \A t \in Stages : counts[s].moves <= counts[t].moves
  IN moves - counts[first].moves

\* The funnel does not over-report how far people got (components/dashboard/metrics.ts:45) but
\* by the moves made while its counts were read: one move, at most one person too many.
OverReportsMovesOnly ==
  \A k \in DOMAIN PIPELINE_STAGES :
    reached(k) <= Cardinality({i \in DOMAIN applications : applications[i].got >= k}) + Since

\* "No applications yet" (components/dashboard/FunnelCard.tsx:45, pages/recruiter/DashboardPage.tsx:46)
\* is never said for counts that are not there: every stage was counted, and had none.
NoneYetIsCounted ==
  FunnelCard = "none yet" \/ emptyWorkspace => \A s \in Stages : counts[s].n = 0
=============================================================================
