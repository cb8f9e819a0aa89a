------------------------------- MODULE Toasts -------------------------------
(***************************************************************************)
(* The transient messages in the corner of the console                     *)
(* (components/ui/Toast.tsx).  A message goes after a time unless it is    *)
(* being read; one that stands for a request says "loading" until the      *)
(* request settles, which may be after it was dismissed or pushed out by a *)
(* burst of others.                                                        *)
(***************************************************************************)
EXTENDS Naturals, Sequences, FiniteSets, SequencesExt

CONSTANTS
  MAX_TOASTS,  \* how many are shown at once
  MaxShown     \* bound on the messages

DEFAULT_DURATION == [success |-> 4000, info |-> 5000, error |-> 8000, loading |-> 0]

VARIABLES
  toasts,    \* those shown, oldest first, each with its id, its tone and how long it stays
  nextId,
  pending,   \* the ids that stand for a request under way
  paused,    \* the ids under the pointer or holding the focus
  timers     \* the ids whose time is running

vars == <<toasts, nextId, pending, paused, timers>>

Shown(list) == {list[i].id : i \in DOMAIN list}

\* At most so many are kept, the oldest dropped.
Dropped(list) == IF Len(list) > MAX_TOASTS THEN SubSeq(list, Len(list) - MAX_TOASTS + 1, Len(list)) ELSE list

\* Errors are a list of their own: a message that turns into one is drawn anew there.
MovedAcross(list) ==
  {list[i].id : i \in {i \in DOMAIN list : list[i].tone = "error"
                         /\ \E k \in DOMAIN toasts : toasts[k].id = list[i].id /\ toasts[k].tone # "error"}}

\* Mutation: the time of a message being read runs on.
runningAlways(list, held) == {t.id : t \in {t \in ToSet(list) : t.duration > 0}}

running(list, held) == {t.id : t \in {t \in ToSet(list) : t.duration > 0 /\ t.id \notin held}}

\* A message is drawn with its timer, from the start when it is drawn anew or no longer read; one
\* that is no more, or that moved to the errors, takes its pause with it.
Drawn(list, held) ==
  LET kept == (held \cap Shown(list)) \ MovedAcross(list) IN
  /\ toasts' = list
  /\ paused' = kept
  /\ timers' = running(list, kept)

show(tone, duration) ==
  /\ nextId <= MaxShown /\ nextId' = nextId + 1
  /\ Drawn(Dropped(Append(toasts, [id |-> nextId, tone |-> tone, duration |-> duration])), paused)

\* A message of its own; a duration of zero keeps it until it is closed.
Show ==
  /\ \E tone \in {"success", "error", "info"} : \E duration \in {0, DEFAULT_DURATION[tone]} : show(tone, duration)
  /\ UNCHANGED pending

Promise ==
  /\ show("loading", DEFAULT_DURATION.loading)
  /\ pending' = pending \cup {nextId}

\* Mutation: the message is changed but keeps how long it stays.
updateTone(id, tone) ==
  [i \in DOMAIN toasts |-> IF toasts[i].id = id THEN [toasts[i] EXCEPT !.tone = tone] ELSE toasts[i]]

update(id, tone) ==
  [i \in DOMAIN toasts |->
     IF toasts[i].id = id THEN [toasts[i] EXCEPT !.tone = tone, !.duration = DEFAULT_DURATION[tone]] ELSE toasts[i]]

Settled ==
  /\ \E id \in pending, tone \in {"success", "error"} :
       /\ pending' = pending \ {id}
       /\ Drawn(update(id, tone), paused)
  /\ UNCHANGED nextId

Without(id) == SelectSeq(toasts, LAMBDA t : t.id # id)

\* By its cross, or by its action.
Dismiss ==
  /\ \E id \in Shown(toasts) : Drawn(Without(id), paused)
  /\ UNCHANGED <<nextId, pending>>

TimeOut ==
  /\ \E id \in timers : Drawn(Without(id), paused)
  /\ UNCHANGED <<nextId, pending>>

Pause ==
  /\ \E id \in Shown(toasts) \ paused : Drawn(toasts, paused \cup {id})
  /\ UNCHANGED <<nextId, pending>>

Resume ==
  /\ \E id \in paused : Drawn(toasts, paused \ {id})
  /\ UNCHANGED <<nextId, pending>>

Init == toasts = <<>> /\ nextId = 1 /\ pending = {} /\ paused = {} /\ timers = {}

Next == Show \/ Promise \/ Settled \/ Dismiss \/ TimeOut \/ Pause \/ Resume

\* A timer runs out, and a request settles; nobody has to look away or to click.
Fairness == WF_vars(TimeOut) /\ WF_vars(Settled)

Spec == Init /\ [][Next]_vars

FairSpec == Spec /\ Fairness

-----------------------------------------------------------------------------
(* Properties; what no step may do is written as an action.                *)

TypeOK ==
  /\ \A t \in ToSet(toasts) : t.id < nextId /\ t.duration \in {0} \cup {DEFAULT_DURATION[tone] : tone \in DOMAIN DEFAULT_DURATION}
  /\ Len(toasts) <= MAX_TOASTS /\ nextId \in 1 .. MaxShown + 1
  /\ pending \subseteq 1 .. MaxShown /\ paused \subseteq Shown(toasts) /\ timers \subseteq Shown(toasts) \ paused

\* A message being read is not taken away by the time (components/ui/Toast.tsx:167), however
\* often it is changed, pushed along or left and come back to.
ReadInPeace == TimeOut => paused \subseteq Shown(toasts')

\* A request that settles does not leave a message behind that never goes
\* (components/ui/Toast.tsx:102): whoever is not reading it sees it go.
LoadingGoes == \A id \in 1 .. MaxShown : (id \in pending) ~> (id \notin Shown(toasts) \/ id \in paused)
=============================================================================
