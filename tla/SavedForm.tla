----------------------------- MODULE SavedForm -----------------------------
(***************************************************************************)
(* A form over something that others may change too: the job editor        *)
(* (pages/recruiter/JobEditorPage.tsx) and the candidate's own profile     *)
(* (components/profile/ProfileEditor.tsx).  It keeps a copy of what it was *)
(* opened with, sends only what differs from it, and asks before unsaved   *)
(* edits are thrown away (hooks/useUnsavedChangesGuard.ts).                *)
(***************************************************************************)
EXTENDS Naturals, FiniteSets

CONSTANTS
  Of,        \* what is edited: "job" or "profile"
  MaxTyped,  \* bound on the fields typed into
  MaxSaves,  \* bound on the requests sent
  MaxOthers, \* bound on what others change
  None

Fields == {"title", "location"}
Values == {"", "old", "new"}

VARIABLES
  server,   \* the values in the database
  status,   \* of the job, in the database
  known,    \* of the job, as last read
  baseline, \* what the form was opened with, or last saved
  values,   \* what the inputs hold
  save,     \* the request on its way
  place,    \* where the user is: the form, the page of the job, elsewhere
  asking,   \* whether "Discard unsaved changes?" is up
  shown,    \* the fields whose errors are shown: left once, or every one after a try to save
  typed, saves, others

vars == <<server, status, known, baseline, values, save, place, asking, shown, typed, saves, others>>

-----------------------------------------------------------------------------
JobStatus == {"draft", "processing", "published", "publish_failed", "closed"}

CanEdit(s) == s \notin {"closed", "processing"}
CanPublish(s) == s \in {"draft", "publish_failed"}

\* A location may be left blank; a title, or a full name, may not.
Errors(v) == {f \in Fields : f # "location" /\ v[f] = ""}

IsSame(v, w) == \A f \in Fields : v[f] = w[f]

\* Mutation: the whole form is sent.
AllOfIt(v, before) == [f \in Fields |-> v[f]]

\* Only what differs from the baseline.
Changes(v, before) == [f \in Fields |-> IF v[f] = before[f] THEN None ELSE v[f]]

IsEmptyPatch(p) == \A f \in Fields : p[f] = None

Patched(v, p) == [f \in Fields |-> IF p[f] = None THEN v[f] ELSE p[f]]

ChangesContent(p) == p["title"] # None

Dirty == ~IsSame(values, baseline)
Saving == save.pc # "idle"

Idle == [pc |-> "idle", intent |-> None, sent |-> values, patch |-> Changes(values, values), answer |-> values]

TypeOK ==
  /\ server \in [Fields -> Values] /\ baseline \in [Fields -> Values] /\ values \in [Fields -> Values]
  /\ status \in JobStatus /\ known \in JobStatus
  /\ save \in [pc : {"idle", "sent", "served", "refused", "lost", "publishing"},
               intent : {"save", "publish", None}, sent : [Fields -> Values],
               patch : [Fields -> Values \cup {None}], answer : [Fields -> Values]]
  /\ place \in {"form", "job", "elsewhere"} /\ asking \in BOOLEAN
  /\ shown \subseteq Fields
  /\ typed \in 0 .. MaxTyped /\ saves \in 0 .. MaxSaves /\ others \in 0 .. MaxOthers

-----------------------------------------------------------------------------
(* The form.                                                               *)

Locked == Of = "job" /\ ~CanEdit(known)

\* Mutation: the inputs of the job editor stay live while it saves, like those of the profile.
LiveInputs == ~Locked

\* The job editor's inputs are disabled while it saves; the profile's are not.
Inputs == ~Locked /\ (Of = "job" => ~Saving)

CanSave(intent) ==
  /\ place = "form" /\ ~asking /\ ~Saving /\ ~Locked
  /\ intent = "publish" => Of = "job" /\ CanPublish(known)
  /\ Dirty \/ intent = "publish"

\* What the form shows, and what of it can be used.
Form ==
  [f \in Fields |-> [value |-> values[f], error |-> f \in shown \cap Errors(values), disabled |-> ~Inputs]]

SaveBar ==
  [ dirty      |-> Dirty,
    reanalyses |-> known = "published" /\ ChangesContent(Changes(values, baseline)),
    save       |-> CanSave("save"),
    publish    |-> CanSave("publish") ]

EditNotice ==
  CASE known = "closed"         -> "reopen it first"
    [] known = "processing"     -> "unlocks by itself"
    [] known = "published"      -> "live"
    [] known = "publish_failed" -> "why it failed"
    [] OTHER                    -> None

Type(f, v) ==
  /\ place = "form" /\ ~asking /\ ~Form[f].disabled
  /\ typed < MaxTyped
  /\ v # values[f]
  /\ values' = [values EXCEPT ![f] = v]
  /\ shown' \in {shown, shown \cup {f}}
  /\ typed' = typed + 1
  /\ UNCHANGED <<server, status, known, baseline, save, place, asking, saves, others>>

\* "Discard", of the profile alone.
Discard ==
  /\ place = "form" /\ ~asking /\ Of = "profile" /\ Dirty /\ ~Saving
  /\ values' = baseline
  /\ shown' = {}
  /\ UNCHANGED <<server, status, known, baseline, save, place, asking, typed, saves, others>>

\* A try to save fields in error points at them.
PointAtErrors ==
  /\ \E intent \in {"save", "publish"} : SaveBar[intent]
  /\ Errors(values) # {}
  /\ shown' = Fields
  /\ UNCHANGED <<server, status, known, baseline, values, save, place, asking, typed, saves, others>>

\* With nothing changed there is nothing to send, but a job can still be published.
Save(intent) ==
  /\ SaveBar[intent]
  /\ Errors(values) = {}
  /\ saves < MaxSaves
  /\ LET patch == Changes(values, baseline) IN
       save' = [pc |-> IF IsEmptyPatch(patch) THEN "publishing" ELSE "sent", intent |-> intent,
                sent |-> values, patch |-> patch, answer |-> values]
  /\ shown' = Fields
  /\ saves' = saves + 1
  /\ UNCHANGED <<server, status, known, baseline, values, place, asking, typed, others>>

\* The server refuses a job that is closed or being published.
Serve ==
  /\ save.pc = "sent"
  /\ IF Of = "job" /\ ~CanEdit(status)
       THEN save' = [save EXCEPT !.pc = "refused"] /\ UNCHANGED server
       ELSE /\ server' = Patched(server, save.patch)
            /\ save' = [save EXCEPT !.pc = "served", !.answer = Patched(server, save.patch)]
  /\ UNCHANGED <<status, known, baseline, values, place, asking, shown, typed, saves, others>>

\* The request or its answer is lost.
Lose ==
  /\ save.pc \in {"sent", "served"}
  /\ save' = [save EXCEPT !.pc = "lost"]
  /\ UNCHANGED <<server, status, known, baseline, values, place, asking, shown, typed, saves, others>>

\* The error is shown; what was typed stays.
NotSaved ==
  /\ save.pc \in {"refused", "lost"}
  /\ save' = Idle
  /\ UNCHANGED <<server, status, known, baseline, values, place, asking, shown, typed, saves, others>>

\* allowNavigation, and on to the job's page, from wherever the user has gone meanwhile.
LeaveForJob == place' = "job"

\* The profile begins again from the answer.
ProfileSaved ==
  /\ Of = "profile" /\ save.pc = "served"
  /\ save' = Idle
  /\ IF place = "form" THEN baseline' = save.answer /\ values' = save.answer /\ shown' = {}
                       ELSE UNCHANGED <<baseline, values, shown>>
  /\ UNCHANGED <<server, status, known, place, asking, typed, saves, others>>

\* Saved; or saved and now to be published, whatever that will say.
JobSaved ==
  /\ Of = "job" /\ save.pc = "served"
  /\ IF save.intent = "publish"
       THEN save' = [save EXCEPT !.pc = "publishing"] /\ UNCHANGED <<place, known>>
       ELSE save' = Idle /\ LeaveForJob /\ known' = status
  /\ UNCHANGED <<server, status, baseline, values, asking, shown, typed, saves, others>>

Published ==
  /\ save.pc = "publishing"
  /\ \/ CanPublish(status) /\ status' = "processing"
     \/ UNCHANGED status
  /\ save' = Idle
  /\ LeaveForJob
  /\ known' = status'
  /\ UNCHANGED <<server, baseline, values, asking, shown, typed, saves, others>>

\* "Reopen as draft", in the notice over the form of a closed job; or refused.
Reopen ==
  /\ Of = "job" /\ place = "form" /\ ~asking /\ EditNotice = "reopen it first"
  /\ status' = IF status = "closed" THEN "draft" ELSE status
  /\ known' = status'
  /\ UNCHANGED <<server, baseline, values, save, place, asking, shown, typed, saves, others>>

-----------------------------------------------------------------------------
(* Leaving.                                                                *)

\* The profile lets the user go while it saves.
Guarded == Dirty /\ (Of = "profile" => ~Saving)

\* A link, Back, or the tab being closed.
Go ==
  /\ place = "form" /\ ~asking
  /\ IF Guarded THEN asking' = TRUE /\ UNCHANGED place ELSE place' = "elsewhere" /\ UNCHANGED asking
  /\ UNCHANGED <<server, status, known, baseline, values, save, shown, typed, saves, others>>

\* "Discard changes", or "Keep editing".  A save that ended meanwhile has left the form, and what
\* is answered then changes nothing.
AnswerGuard(leave) ==
  /\ asking
  /\ asking' = FALSE
  /\ place' = IF leave /\ place = "form" THEN "elsewhere" ELSE place
  /\ UNCHANGED <<server, status, known, baseline, values, save, shown, typed, saves, others>>

\* The form is opened again, on what the server has.
Open ==
  /\ place # "form" /\ ~asking /\ ~Saving
  /\ place' = "form"
  /\ baseline' = server /\ values' = server /\ known' = status /\ shown' = {}
  /\ save' = [Idle EXCEPT !.sent = server, !.answer = server, !.patch = Changes(server, server)]
  /\ UNCHANGED <<server, status, asking, typed, saves, others>>

-----------------------------------------------------------------------------
(* What others do, and how the form hears of it.                           *)

OthersEdit(f, v) ==
  /\ others < MaxOthers
  /\ Of = "job" => CanEdit(status)
  /\ v # "" /\ v # server[f]
  /\ server' = [server EXCEPT ![f] = v]
  /\ others' = others + 1
  /\ UNCHANGED <<status, known, baseline, values, save, place, asking, shown, typed, saves>>

\* Published, closed, reopened, or a run of the workflow that ends.
OthersMove(s) ==
  /\ others < MaxOthers /\ Of = "job"
  /\ CASE s = "processing" -> CanPublish(status)
       [] s = "published"  -> status = "processing"
       [] s = "publish_failed" -> status = "processing"
       [] s = "closed"     -> status \in {"processing", "published"}
       [] s = "draft"      -> status = "closed"
  /\ status' = s
  /\ others' = others + 1
  /\ UNCHANGED <<server, known, baseline, values, save, place, asking, shown, typed, saves>>

\* useJob reads the job again: every second while it is being published, and on coming back.
Poll ==
  /\ Of = "job" /\ place = "form" /\ known # status
  /\ known' = status
  /\ UNCHANGED <<server, status, baseline, values, save, place, asking, shown, typed, saves, others>>

Init ==
  /\ server = [f \in Fields |-> "old"]
  /\ status \in {"draft", "published"} /\ known = status
  /\ baseline = server /\ values = server
  /\ save = Idle
  /\ place = "form" /\ asking = FALSE /\ shown = {}
  /\ typed = 0 /\ saves = 0 /\ others = 0

Next ==
  \/ \E f \in Fields, v \in Values : Type(f, v)
  \/ Discard
  \/ \E intent \in {"save", "publish"} : Save(intent)
  \/ PointAtErrors
  \/ Serve \/ Lose \/ NotSaved \/ ProfileSaved \/ JobSaved \/ Published \/ Reopen
  \/ Go
  \/ \E leave \in BOOLEAN : AnswerGuard(leave)
  \/ Open
  \/ \E f \in Fields, v \in Values : OthersEdit(f, v)
  \/ \E s \in JobStatus : OthersMove(s)
  \/ Poll

Spec == Init /\ [][Next]_vars

-----------------------------------------------------------------------------
(* Properties; what no step may do is written as an action.                *)

\* What a field holds that is not saved, nor about to be by a save that has been sent.
Unsaved(f) ==
  values[f] # baseline[f] /\ ~(save.pc \in {"sent", "served", "publishing"} /\ save.sent[f] = values[f])

\* "Asks before throwing away unsaved edits" (hooks/useUnsavedChangesGuard.ts:7): what was typed
\* and is not on its way to the server is gone only if the user typed over it, discarded it, or
\* said that it may be.
NothingLostUnasked ==
  \A f \in Fields :
    place = "form" /\ Unsaved(f) /\ (place' # "form" \/ values'[f] # values[f])
      => asking \/ Discard \/ \E v \in Values : Type(f, v)

\* A save changes nothing in the database that its user did not change in the form
\* (components/profile/profileForm.ts:101): what others saved meanwhile stays.
OthersEditsStay ==
  \A f \in Fields :
    save.pc = "sent" /\ others' = others /\ server'[f] # server[f]
      => baseline[f] # save.sent[f] \/ place # "form"
=============================================================================
