--------------------- MODULE ApplicationProcessingProofs ---------------------
(***************************************************************************)
(* Theorems about ApplicationProcessing, for any number of requests, of    *)
(* attempts and of versions of the profile and the posting.                *)
(*                                                                         *)
(* Whatever fails, times out or strays, a candidate is sent one            *)
(* confirmation: only the attempt that has inserted the notification's row *)
(* may send.  Unless an attempt strays, a run that completes leaves a      *)
(* score no older than its request: runs follow one another, and each has  *)
(* read what it scores after it was asked for.                             *)
(***************************************************************************)
EXTENDS ApplicationProcessing, TLAPS

-----------------------------------------------------------------------------
(* The inductive invariants.                                               *)

\* An attempt of the run is about to send the confirmation.
InTurn(x) == x.step = "running" /\ x.notifying = "inserted"
Sending(q) == InTurn(run[q]) \/ run[q].unsent

\* At most one attempt, of all those of all runs, is about to send, and only if nobody has.
OneSender ==
  /\ \A q \in Requests : ~(InTurn(run[q]) /\ run[q].unsent)
  /\ \A q, p \in Requests : Sending(q) /\ Sending(p) => q = p

NotSent == \A q \in Requests : Sending(q) => delivered = 0

\* The row is there before anyone sends, and goes only with the application.
RowBeforeSending ==
  exists /\ ~recorded => delivered = 0 /\ \A q \in Requests : ~Sending(q)

SentInv == TypeOK /\ OneSender /\ NotSent /\ RowBeforeSending /\ SentAtMostOnce

\* Runs follow one another.
OneLive == \A q, p \in Requests : Live(q) /\ Live(p) => q = p

\* A live run has been asked for after every one that has completed, and all before now.
Since(q) == request[q].since
SinceIsPast == \A q \in Requests : AtLeast(inputs, Since(q))

InOrder ==
  \A q, p \in Requests : Live(q) /\ run[p].step = "completed" => AtLeast(Since(q), Since(p))

\* What the scoring attempt has read is no older than the request, and no attempt has strayed.
ReadSince ==
  \A q \in Requests : Live(q) =>
    /\ run[q].scoring \in {"loaded", "read"} => run[q].have.profile >= Since(q).profile
    /\ run[q].scoring = "read" => run[q].have.posting >= Since(q).posting

NoStrays == \A q \in Requests : run[q].strays = {}

\* What the two activities leave behind, for whoever relies on it.
Scored(q) == score # NoScore /\ AtLeast(score, Since(q))

ScoreIsKept ==
  exists => \A q \in Requests :
    \/ Live(q) /\ run[q].scoring \in {"done", "reported"}
    \/ run[q].step = "completed"
    => Scored(q)

RowIsKept ==
  exists => \A q \in Requests :
    \/ Live(q) /\ run[q].notifying # "waiting"
    \/ run[q].step = "completed"
    => recorded

\* A request that has not been made has started nothing.
Unasked == \A r \in Requests : request[r].pc = "idle" => run[r].step = "not_started"

MarkInv == TypeOK /\ Unasked /\ OneLive /\ SinceIsPast /\ InOrder /\ ReadSince /\ NoStrays /\ ScoreIsKept /\ RowIsKept

-----------------------------------------------------------------------------
(* How a run goes on.                                                      *)

\* An attempt is lost, or the run with it: nobody comes to send who was not about to, and what
\* was read stays as it was.
GaveUp(x, y) ==
  /\ y.step \in {"running", "failed"}
  /\ y.have = x.have
  /\ y.scoring \in {x.scoring, "waiting"}
  /\ y.notifying \in {x.notifying, "waiting"}
  /\ InTurn(y) \/ y.unsent => InTurn(x) \/ x.unsent
  /\ InTurn(y) /\ y.unsent => InTurn(x) /\ x.unsent
  /\ "stray" \notin Faults => y.strays = x.strays

\* The activity that is not this one.
LEMMA OtherActivity ==
  /\ (CHOOSE other \in Activities : other # "scoring") = "notifying"
  /\ (CHOOSE other \in Activities : other # "notifying") = "scoring"
  <1>1. \A a : (a \in Activities /\ a # "scoring") <=> a = "notifying"
    BY DEF Activities
  <1>2. \A a : (a \in Activities /\ a # "notifying") <=> a = "scoring"
    BY DEF Activities
  <1>3. QED
    BY <1>1, <1>2

\* What an abandoned attempt leaves behind is itself, as a stray.
LEMMA AbandonStep ==
  ASSUME NEW x \in Run, NEW activity \in Activities
  PROVE  LET y == Abandon(x, activity)
         IN  /\ y \in Run
             /\ y.step = x.step /\ y.have = x.have /\ y.scoring = x.scoring /\ y.notifying = x.notifying
             /\ y.tries = x.tries
             /\ y.unsent => x.unsent \/ (activity = "notifying" /\ x.notifying = "inserted")
             /\ "stray" \notin Faults => y = x
  <1>1. [x EXCEPT !.strays = @ \cup {x.have}] \in Run
    BY DEF Run
  <1>2. [x EXCEPT !.unsent = TRUE] \in Run
    BY DEF Run
  <1> DEFINE reading == activity = "scoring" /\ x.scoring \in {"loaded", "read"}
             sending == activity = "notifying" /\ x.notifying = "inserted"
  <1>3. CASE "stray" \notin Faults
    BY <1>3 DEF Abandon
  <1>4. CASE "stray" \in Faults /\ reading
    <2>1. Abandon(x, activity) = [x EXCEPT !.strays = @ \cup {x.have}]
      BY <1>4 DEF Abandon
    <2>2. QED
      BY <1>1, <1>4, <2>1 DEF Run
  <1>5. CASE "stray" \in Faults /\ sending
    <2>1. Abandon(x, activity) = [x EXCEPT !.unsent = TRUE]
      BY <1>5 DEF Abandon
    <2>2. QED
      BY <1>2, <1>5, <2>1 DEF Run
  <1>6. CASE "stray" \in Faults /\ ~reading /\ ~sending
    <2>1. Abandon(x, activity) = x
      BY <1>6 DEF Abandon
    <2>2. QED
      BY <1>6, <2>1
  <1>7. QED
    BY <1>3, <1>4, <1>5, <1>6

\* A run that fails leaves at most the other activity's attempt behind.
LEMMA FailStep ==
  ASSUME NEW x \in Run, NEW activity \in Activities
  PROVE  LET y == Fail(x, activity)
         IN  /\ y \in Run
             /\ y.step = "failed" /\ y.have = x.have /\ y.scoring = x.scoring
             /\ y.notifying = x.notifying
             /\ y.unsent => x.unsent \/ (activity = "scoring" /\ x.notifying = "inserted")
             /\ "stray" \notin Faults => y.strays = x.strays
  <1> DEFINE other == IF activity = "scoring" THEN "notifying" ELSE "scoring"
             z == Abandon(x, other)
  <1>1. Fail(x, activity) = [z EXCEPT !.step = "failed"]
    BY OtherActivity DEF Fail, Activities
  <1>2. /\ z \in Run
        /\ z.have = x.have /\ z.scoring = x.scoring /\ z.notifying = x.notifying
        /\ z.unsent => x.unsent \/ (other = "notifying" /\ x.notifying = "inserted")
        /\ "stray" \notin Faults => z = x
    BY AbandonStep DEF Activities
  <1> HIDE DEF z
  <1>3. [z EXCEPT !.step = "failed"] \in Run
    BY <1>2 DEF Run
  <1>4. QED
    BY <1>1, <1>2, <1>3 DEF Run

\* The next attempt waits for its turn, if there is one.
LEMMA AgainStep ==
  ASSUME ConstantsOK, NEW x \in Run, NEW activity \in Activities
  PROVE  LET y == Again(x, activity)
         IN  \/ y = Fail(x, activity)
             \/ /\ y \in Run
                /\ y.step = x.step /\ y.have = x.have /\ y.strays = x.strays /\ y.unsent = x.unsent
                /\ y.scoring = IF activity = "scoring" THEN "waiting" ELSE x.scoring
                /\ y.notifying = IF activity = "notifying" THEN "waiting" ELSE x.notifying
  <1>1. CASE ~(x.tries[activity] < MaxAttempts)
    BY <1>1 DEF Again
  <1>2. CASE x.tries[activity] < MaxAttempts
    <2> DEFINE tries == [x.tries EXCEPT ![activity] = @ + 1]
    <2>1. tries \in [scoring : 1 .. MaxAttempts, notifying : 1 .. MaxAttempts]
      BY <1>2 DEF Run, ConstantsOK, Activities
    <2>2. Again(x, activity) = [x EXCEPT ![activity] = "waiting", !.tries = tries]
      BY <1>2 DEF Again, Activities, Run
    <2> HIDE DEF tries
    <2>3. CASE activity = "scoring"
      <3>1. Again(x, activity) = [x EXCEPT !.scoring = "waiting", !.tries = tries]
        BY <2>2, <2>3
      <3>2. [x EXCEPT !.scoring = "waiting", !.tries = tries] \in Run
        BY <2>1 DEF Run, ScoreStep
      <3>3. QED
        BY <2>3, <3>1, <3>2 DEF Run
    <2>4. CASE activity = "notifying"
      <3>1. Again(x, activity) = [x EXCEPT !.notifying = "waiting", !.tries = tries]
        BY <2>2, <2>4
      <3>2. [x EXCEPT !.notifying = "waiting", !.tries = tries] \in Run
        BY <2>1 DEF Run, NotifyStep
      <3>3. QED
        BY <2>4, <3>1, <3>2 DEF Run
    <2>5. QED
      BY <2>3, <2>4 DEF Activities
  <1>3. QED
    BY <1>1, <1>2

\* An attempt fails or times out, or the application is not found.
LEMMA GivesUp ==
  ASSUME ConstantsOK, TypeOK, NEW q \in Requests,
         (\E activity \in Activities : LoseAttempt(q, activity) \/ TimeOut(q, activity)) \/ NotFound(q)
  PROVE  /\ Live(q) /\ UNCHANGED <<database, request>>
         /\ \E y \in Run : GaveUp(run[q], y) /\ run' = [run EXCEPT ![q] = y]
  <1>0. run[q] \in Run
    BY DEF TypeOK
  <1>1. ASSUME NEW activity \in Activities, LoseAttempt(q, activity)
        PROVE  /\ Live(q) /\ UNCHANGED <<database, request>>
               /\ \E y \in Run : GaveUp(run[q], y) /\ run' = [run EXCEPT ![q] = y]
    <2> DEFINE y == Again(run[q], activity)
    <2>1. Live(q) /\ UNCHANGED <<database, request>> /\ run' = [run EXCEPT ![q] = y]
      BY <1>1 DEF LoseAttempt
    <2>2. y \in Run /\ GaveUp(run[q], y)
      BY <1>0, <2>1, AgainStep, FailStep DEF GaveUp, InTurn, Live
    <2>3. QED
      BY <2>1, <2>2
  <1>2. ASSUME NEW activity \in Activities, TimeOut(q, activity)
        PROVE  /\ Live(q) /\ UNCHANGED <<database, request>>
               /\ \E y \in Run : GaveUp(run[q], y) /\ run' = [run EXCEPT ![q] = y]
    <2> DEFINE x == Abandon(run[q], activity)
               y == Again(x, activity)
    <2>1. Live(q) /\ UNCHANGED <<database, request>> /\ run' = [run EXCEPT ![q] = y]
      BY <1>2 DEF TimeOut
    <2>2. "stray" \in Faults
      BY <1>2 DEF TimeOut
    <2>3. /\ x \in Run
          /\ x.step = run[q].step /\ x.have = run[q].have
          /\ x.scoring = run[q].scoring /\ x.notifying = run[q].notifying
          /\ x.unsent => run[q].unsent \/ (activity = "notifying" /\ run[q].notifying = "inserted")
      BY <1>0, AbandonStep
    <2> HIDE DEF x
    <2>4. y \in Run /\ GaveUp(run[q], y)
      BY <2>1, <2>2, <2>3, AgainStep, FailStep DEF GaveUp, InTurn, Live, Activities
    <2>5. QED
      BY <2>1, <2>4
  <1>3. ASSUME NotFound(q)
        PROVE  /\ Live(q) /\ UNCHANGED <<database, request>>
               /\ \E y \in Run : GaveUp(run[q], y) /\ run' = [run EXCEPT ![q] = y]
    <2>1. PICK activity \in Activities : run' = [run EXCEPT ![q] = Fail(run[q], activity)]
      BY <1>3 DEF NotFound
    <2>2. Live(q) /\ UNCHANGED <<database, request>>
      BY <1>3 DEF NotFound
    <2> DEFINE y == Fail(run[q], activity)
    <2>3. y \in Run /\ GaveUp(run[q], y)
      BY <1>0, <2>2, FailStep DEF GaveUp, InTurn, Live
    <2>4. QED
      BY <2>1, <2>2, <2>3
  <1>4. QED
    BY <1>1, <1>2, <1>3

\* A report that an activity is done; the second completes the run.
Reported(x, y) ==
  /\ y.have = x.have /\ y.strays = x.strays /\ y.unsent = x.unsent
  /\ y.scoring = x.scoring \/ (x.scoring = "done" /\ y.scoring = "reported")
  /\ y.notifying = x.notifying \/ (x.notifying = "done" /\ y.notifying = "reported")
  /\ \/ y.step = "running"
     \/ y.step = "completed" /\ y.scoring = "reported" /\ y.notifying = "reported"

LEMMA Reports ==
  ASSUME TypeOK, NEW q \in Requests, NEW activity \in Activities, Report(q, activity)
  PROVE  /\ Live(q) /\ UNCHANGED <<database, request>>
         /\ \E y \in Run : Reported(run[q], y) /\ run' = [run EXCEPT ![q] = y]
  <1> DEFINE x == run[q]
             z == [x EXCEPT ![activity] = "reported"]
             y == IF \A other \in Activities : z[other] = "reported"
                    THEN [z EXCEPT !.step = "completed"] ELSE z
  <1>0. x \in Run
    BY DEF TypeOK
  <1>1. /\ Live(q) /\ x[activity] = "done" /\ run' = [run EXCEPT ![q] = y]
        /\ UNCHANGED <<database, request>>
    BY DEF Report
  <1>2. /\ z \in Run /\ z.have = x.have /\ z.strays = x.strays /\ z.unsent = x.unsent
        /\ z.step = "running"
        /\ z.scoring = IF activity = "scoring" THEN "reported" ELSE x.scoring
        /\ z.notifying = IF activity = "notifying" THEN "reported" ELSE x.notifying
    <2>1. CASE activity = "scoring"
      <3>1. z = [x EXCEPT !.scoring = "reported"] /\ z \in Run
        BY <1>0, <2>1 DEF Run, ScoreStep
      <3>2. QED
        BY <1>0, <1>1, <2>1, <3>1 DEF Run, Live
    <2>2. CASE activity = "notifying"
      <3>1. z = [x EXCEPT !.notifying = "reported"] /\ z \in Run
        BY <1>0, <2>2 DEF Run, NotifyStep
      <3>2. QED
        BY <1>0, <1>1, <2>2, <3>1 DEF Run, Live
    <2>3. QED
      BY <2>1, <2>2 DEF Activities
  <1>3. x[activity] = IF activity = "scoring" THEN x.scoring ELSE x.notifying
    BY <1>0 DEF Run, Activities
  <1>4. (\A other \in Activities : z[other] = "reported")
          <=> z.scoring = "reported" /\ z.notifying = "reported"
    BY <1>2 DEF Run, Activities
  <1> HIDE DEF z
  <1>5. [z EXCEPT !.step = "completed"] \in Run
    BY <1>2 DEF Run
  <1>6. y \in Run /\ Reported(x, y)
    <2>1. CASE \A other \in Activities : z[other] = "reported"
      <3>1. y = [z EXCEPT !.step = "completed"]
        BY <2>1
      <3>2. QED
        BY <1>1, <1>2, <1>3, <1>4, <1>5, <2>1, <3>1 DEF Reported, Run
    <2>2. CASE ~(\A other \in Activities : z[other] = "reported")
      <3>1. y = z
        BY <2>2
      <3>2. QED
        BY <1>1, <1>2, <1>3, <3>1 DEF Reported
    <2>3. QED
      BY <2>1, <2>2
  <1>7. QED
    BY <1>1, <1>6

\* A request is accepted, or told that it could not be: a run starts if none is live.
LEMMA Starts ==
  ASSUME ConstantsOK, TypeOK, NEW r \in Requests, Start(r) \/ StartFails(r)
  PROVE  /\ request[r].pc = "idle" /\ UNCHANGED database
         /\ \E x \in Request : /\ x.pc # "idle" /\ x.since = inputs
                               /\ request' = [request EXCEPT ![r] = x]
         /\ FreshRun \in Run
         /\ \/ UNCHANGED run
            \/ (\A q \in Requests : ~Live(q)) /\ run' = [run EXCEPT ![r] = FreshRun]
  <1>1. FreshRun \in Run
    BY DEF FreshRun, Run, ScoreStep, NotifyStep, First, Inputs, Version, ConstantsOK
  <1>2. \A pc \in {"accepted", "unavailable"} :
          Accept(r, pc) => \E x \in Request : /\ x.pc # "idle" /\ x.since = inputs
                                              /\ request' = [request EXCEPT ![r] = x]
    BY DEF Accept, Request, TypeOK
  <1>3. QED
    BY <1>1, <1>2 DEF Start, StartFails, StartWorkflow

\* What an attempt reads, writes and sends, and what is left of it then.
LEMMA AttemptSteps ==
  ASSUME TypeOK, NEW q \in Requests
  PROVE  LET x == run[q]
         IN  /\ Load(q) => \E y \in Run :
                  /\ run' = [run EXCEPT ![q] = y]
                  /\ y.step = x.step /\ y.scoring = "loaded" /\ y.have.profile = inputs.profile
                  /\ y.notifying = x.notifying /\ y.strays = x.strays /\ y.unsent = x.unsent
             /\ ReadMentioned(q) => \E y \in Run :
                  /\ run' = [run EXCEPT ![q] = y]
                  /\ y.step = x.step /\ y.scoring = "read"
                  /\ y.have.profile = x.have.profile /\ y.have.posting = inputs.posting
                  /\ y.notifying = x.notifying /\ y.strays = x.strays /\ y.unsent = x.unsent
             /\ WriteScore(q) => \E y \in Run :
                  /\ run' = [run EXCEPT ![q] = y]
                  /\ y.step = x.step /\ y.scoring = "done"
                  /\ y.notifying = x.notifying /\ y.strays = x.strays /\ y.unsent = x.unsent
             /\ \A step \in {"inserted", "done"} :
                  run' = [run EXCEPT ![q].notifying = step] => \E y \in Run :
                  /\ run' = [run EXCEPT ![q] = y]
                  /\ y.step = x.step /\ y.scoring = x.scoring /\ y.have = x.have
                  /\ y.notifying = step /\ y.strays = x.strays /\ y.unsent = x.unsent
             /\ StrayWrites(q) => \E y \in Run :
                  /\ run' = [run EXCEPT ![q] = y]
                  /\ y.step = x.step /\ y.notifying = x.notifying /\ y.unsent = x.unsent
             /\ StraySends(q) => \E y \in Run :
                  /\ run' = [run EXCEPT ![q] = y]
                  /\ y.step = x.step /\ y.scoring = x.scoring /\ y.have = x.have
                  /\ y.notifying = x.notifying /\ y.strays = x.strays /\ ~y.unsent
  <1> DEFINE x == run[q]
  <1>0. x \in Run /\ inputs \in Inputs
    BY DEF TypeOK
  <1>1. ASSUME Load(q)
        PROVE  \E y \in Run :
                  /\ run' = [run EXCEPT ![q] = y]
                  /\ y.step = x.step /\ y.scoring = "loaded" /\ y.have.profile = inputs.profile
                  /\ y.notifying = x.notifying /\ y.strays = x.strays /\ y.unsent = x.unsent
    <2> DEFINE have == [x.have EXCEPT !.profile = inputs.profile]
               y == [x EXCEPT !.scoring = "loaded", !.have = have]
    <2>1. have \in Inputs /\ have.profile = inputs.profile
      BY <1>0 DEF Run, Inputs
    <2>2. run' = [run EXCEPT ![q] = y]
      BY <1>1 DEF Load
    <2> HIDE DEF have
    <2>3. y \in Run
      BY <1>0, <2>1 DEF Run, ScoreStep
    <2>4. QED
      BY <1>0, <2>1, <2>2, <2>3 DEF Run
  <1>2. ASSUME ReadMentioned(q)
        PROVE  \E y \in Run :
                  /\ run' = [run EXCEPT ![q] = y]
                  /\ y.step = x.step /\ y.scoring = "read"
                  /\ y.have.profile = x.have.profile /\ y.have.posting = inputs.posting
                  /\ y.notifying = x.notifying /\ y.strays = x.strays /\ y.unsent = x.unsent
    <2> DEFINE have == [x.have EXCEPT !.posting = inputs.posting]
               y == [x EXCEPT !.scoring = "read", !.have = have]
    <2>1. have \in Inputs /\ have.profile = x.have.profile /\ have.posting = inputs.posting
      BY <1>0 DEF Run, Inputs
    <2>2. run' = [run EXCEPT ![q] = y]
      BY <1>2 DEF ReadMentioned
    <2> HIDE DEF have
    <2>3. y \in Run
      BY <1>0, <2>1 DEF Run, ScoreStep
    <2>4. QED
      BY <1>0, <2>1, <2>2, <2>3 DEF Run
  <1>3. ASSUME WriteScore(q)
        PROVE  \E y \in Run :
                  /\ run' = [run EXCEPT ![q] = y]
                  /\ y.step = x.step /\ y.scoring = "done"
                  /\ y.notifying = x.notifying /\ y.strays = x.strays /\ y.unsent = x.unsent
    <2> DEFINE y == [x EXCEPT !.scoring = "done"]
    <2>1. run' = [run EXCEPT ![q] = y]
      BY <1>3 DEF WriteScore
    <2>2. y \in Run
      BY <1>0 DEF Run, ScoreStep
    <2>3. QED
      BY <1>0, <2>1, <2>2 DEF Run
  <1>4. ASSUME NEW step \in {"inserted", "done"}, run' = [run EXCEPT ![q].notifying = step]
        PROVE  \E y \in Run :
                  /\ run' = [run EXCEPT ![q] = y]
                  /\ y.step = x.step /\ y.scoring = x.scoring /\ y.have = x.have
                  /\ y.notifying = step /\ y.strays = x.strays /\ y.unsent = x.unsent
    <2> DEFINE y == [x EXCEPT !.notifying = step]
    <2>1. y \in Run
      BY <1>0 DEF Run, NotifyStep
    <2>2. QED
      BY <1>0, <1>4, <2>1 DEF Run
  <1>5. ASSUME StrayWrites(q)
        PROVE  \E y \in Run :
                  /\ run' = [run EXCEPT ![q] = y]
                  /\ y.step = x.step /\ y.notifying = x.notifying /\ y.unsent = x.unsent
    <2>1. PICK have \in x.strays : run' = [run EXCEPT ![q].strays = @ \ {have}]
      BY <1>5 DEF StrayWrites
    <2> DEFINE y == [x EXCEPT !.strays = @ \ {have}]
    <2>2. y \in Run
      BY <1>0 DEF Run
    <2>3. QED
      BY <1>0, <2>1, <2>2 DEF Run
  <1>6. ASSUME StraySends(q)
        PROVE  \E y \in Run :
                  /\ run' = [run EXCEPT ![q] = y]
                  /\ y.step = x.step /\ y.scoring = x.scoring /\ y.have = x.have
                  /\ y.notifying = x.notifying /\ y.strays = x.strays /\ ~y.unsent
    <2> DEFINE y == [x EXCEPT !.unsent = FALSE]
    <2>1. run' = [run EXCEPT ![q] = y]
      BY <1>6 DEF StraySends
    <2>2. y \in Run
      BY <1>0 DEF Run
    <2>3. QED
      BY <1>0, <2>1, <2>2 DEF Run
  <1>7. QED
    BY <1>1, <1>2, <1>3, <1>4, <1>5, <1>6

-----------------------------------------------------------------------------
(* Types.                                                                  *)

LEMMA TypeStep == ConstantsOK /\ TypeOK /\ [Next]_vars => TypeOK'
  <1> SUFFICES ASSUME ConstantsOK, TypeOK, [Next]_vars
               PROVE  TypeOK'
    OBVIOUS
  <1>1. CASE EditInput
    <2>1. inputs' \in Inputs
      <3>1. PICK part \in {"profile", "posting"} :
              inputs[part] < MaxVersion /\ inputs' = [inputs EXCEPT ![part] = @ + 1]
        BY <1>1 DEF EditInput
      <3>2. CASE part = "profile"
        BY <3>1, <3>2 DEF TypeOK, Inputs, Version, ConstantsOK
      <3>3. CASE part = "posting"
        BY <3>1, <3>3 DEF TypeOK, Inputs, Version, ConstantsOK
      <3>4. QED
        BY <3>2, <3>3
    <2>2. QED
      BY <1>1, <2>1 DEF EditInput, TypeOK
  <1>2. CASE Delete
    BY <1>2 DEF Delete, TypeOK
  <1>3. ASSUME NEW r \in Requests, Start(r) \/ StartFails(r)
        PROVE  TypeOK'
    BY <1>3, Starts DEF TypeOK, database
  <1>4. ASSUME NEW q \in Requests,
               (\E activity \in Activities :
                  LoseAttempt(q, activity) \/ TimeOut(q, activity) \/ Report(q, activity)) \/ NotFound(q)
        PROVE  TypeOK'
    <2>1. UNCHANGED <<database, request>> /\ \E y \in Run : run' = [run EXCEPT ![q] = y]
      BY <1>4, GivesUp, Reports
    <2>2. QED
      BY <2>1 DEF TypeOK, database
  <1>5. ASSUME NEW q \in Requests,
               Load(q) \/ ReadMentioned(q) \/ WriteScore(q) \/ InsertNotification(q) \/ Send(q)
                 \/ StrayWrites(q) \/ StraySends(q)
        PROVE  TypeOK'
    <2>1. \E y \in Run : run' = [run EXCEPT ![q] = y]
      BY <1>5, AttemptSteps DEF InsertNotification, Send
    <2>2. run' \in [Requests -> Run]
      BY <2>1 DEF TypeOK
    <2>3. score' \in Inputs \cup {NoScore}
      BY <1>5 DEF TypeOK, Run, Load, ReadMentioned, WriteScore, Store, InsertNotification, Send, StrayWrites,
                  StraySends, database
    <2>4. (recorded' = recorded \/ recorded' = TRUE) /\ UNCHANGED <<exists, inputs, request>>
      BY <1>5 DEF Load, ReadMentioned, WriteScore, InsertNotification, Send, StrayWrites, StraySends, database
    <2>5. delivered' = delivered \/ delivered' = delivered + 1
      BY <1>5 DEF Load, ReadMentioned, WriteScore, InsertNotification, Send, StrayWrites, StraySends, database
    <2>6. delivered' \in Nat
      BY <2>5 DEF TypeOK
    <2>7. QED
      BY <2>2, <2>3, <2>4, <2>6 DEF TypeOK
  <1>6. CASE UNCHANGED vars
    BY <1>6 DEF vars, TypeOK
  <1>7. QED
    BY <1>1, <1>2, <1>3, <1>4, <1>5, <1>6 DEF Next, Scoring, Notifying, Activities

\* The state in which the candidate has applied is well typed.
LEMMA TypeInit == ConstantsOK /\ Init => TypeOK
  <1> SUFFICES ASSUME ConstantsOK, Init
               PROVE  TypeOK
    OBVIOUS
  <1>1. First \in Inputs
    BY DEF First, Inputs, Version, ConstantsOK
  <1>2. FreshRun \in Run
    BY <1>1 DEF FreshRun, Run, ScoreStep, NotifyStep, ConstantsOK
  <1>3. [FreshRun EXCEPT !.step = "not_started"] \in Run
    BY <1>2 DEF Run
  <1>4. run \in [Requests -> Run]
    BY <1>3 DEF Init
  <1>5. request \in [Requests -> Request]
    BY <1>1 DEF Init, Request
  <1>6. delivered \in Nat
    BY DEF Init
  <1>7. QED
    BY <1>1, <1>4, <1>5, <1>6 DEF Init, TypeOK

\* Every variable keeps its type.
THEOREM TypeCorrect == ASSUME ConstantsOK PROVE Spec => []TypeOK
  BY TypeInit, TypeStep, PTL DEF Spec

-----------------------------------------------------------------------------
(* One confirmation.                                                       *)

\* Whoever is about to send was before, unless the row has just been inserted.
LEMMA SentKept ==
  ASSUME SentInv, TypeOK', UNCHANGED <<exists, recorded, delivered>>,
         NEW q \in Requests, NEW y, run' = [run EXCEPT ![q] = y],
         InTurn(y) \/ y.unsent => Sending(q),
         InTurn(y) /\ y.unsent => InTurn(run[q]) /\ run[q].unsent
  PROVE  SentInv'
  <1>1. run'[q] = y /\ \A p \in Requests \ {q} : run'[p] = run[p]
    BY DEF SentInv, TypeOK
  <1>2. \A p \in Requests : Sending(p)' => Sending(p)
    BY <1>1 DEF Sending, InTurn
  <1>3. OneSender'
    BY <1>1, <1>2 DEF SentInv, OneSender, Sending, InTurn
  <1>4. QED
    BY <1>2, <1>3 DEF SentInv, NotSent, RowBeforeSending, SentAtMostOnce

LEMMA SentStep ==
  ASSUME ConstantsOK
  PROVE  SentInv /\ [Next]_vars => SentInv'
  <1> SUFFICES ASSUME SentInv, [Next]_vars
               PROVE  SentInv'
    OBVIOUS
  <1>0. TypeOK /\ TypeOK'
    BY TypeStep DEF SentInv
  <1>1. CASE EditInput \/ UNCHANGED vars
    <2>1. UNCHANGED <<exists, recorded, delivered, run>>
      BY <1>1 DEF EditInput, vars
    <2>2. QED
      BY <1>0, <2>1 DEF SentInv, OneSender, Sending, InTurn, NotSent, RowBeforeSending, SentAtMostOnce
  <1>2. CASE Delete
    <2>1. ~exists' /\ UNCHANGED <<delivered, run>>
      BY <1>2 DEF Delete
    <2>2. QED
      BY <1>0, <2>1 DEF SentInv, OneSender, Sending, InTurn, NotSent, RowBeforeSending, SentAtMostOnce
  <1>3. ASSUME NEW r \in Requests, Start(r) \/ StartFails(r)
        PROVE  SentInv'
    <2>1. UNCHANGED <<exists, recorded, delivered>>
      BY <1>0, <1>3, Starts DEF database
    <2>2. CASE run' = run
      BY <1>0, <2>1, <2>2 DEF SentInv, OneSender, Sending, InTurn, NotSent, RowBeforeSending, SentAtMostOnce
    <2>3. CASE run' = [run EXCEPT ![r] = FreshRun]
      <3>1. ~InTurn(FreshRun) /\ ~FreshRun.unsent
        BY DEF FreshRun, InTurn
      <3>2. QED
        BY <1>0, <2>1, <2>3, <3>1, SentKept
    <2>4. QED
      BY <1>0, <1>3, <2>2, <2>3, Starts
  <1>4. ASSUME NEW q \in Requests, Load(q) \/ ReadMentioned(q) \/ WriteScore(q) \/ StrayWrites(q)
        PROVE  SentInv'
    <2>1. PICK y \in Run : /\ run' = [run EXCEPT ![q] = y]
                           /\ y.step = run[q].step /\ y.notifying = run[q].notifying
                           /\ y.unsent = run[q].unsent
      BY <1>0, <1>4, AttemptSteps
    <2>2. UNCHANGED <<exists, recorded, delivered>>
      BY <1>4 DEF Load, ReadMentioned, WriteScore, StrayWrites, database
    <2>3. QED
      BY <1>0, <2>1, <2>2, SentKept DEF Sending, InTurn
  <1>5. ASSUME NEW q \in Requests, InsertNotification(q)
        PROVE  SentInv'
    <2>1. CASE recorded
      <3>1. run' = [run EXCEPT ![q].notifying = "done"] /\ UNCHANGED <<exists, delivered>> /\ recorded'
        BY <1>5, <2>1 DEF InsertNotification
      <3>2. PICK y \in Run : /\ run' = [run EXCEPT ![q] = y]
                             /\ y.notifying = "done" /\ y.unsent = run[q].unsent
        BY <1>0, <3>1, AttemptSteps
      <3>3. recorded' = recorded
        BY <1>0, <2>1, <3>1 DEF TypeOK
      <3>4. QED
        BY <1>0, <3>1, <3>2, <3>3, SentKept DEF Sending, InTurn
    <2>2. CASE ~recorded
      <3>1. /\ run' = [run EXCEPT ![q].notifying = "inserted"]
            /\ exists /\ recorded' /\ UNCHANGED <<exists, delivered>>
        BY <1>5, <2>2 DEF InsertNotification
      <3>2. delivered = 0 /\ \A p \in Requests : ~Sending(p)
        BY <2>2, <3>1 DEF SentInv, RowBeforeSending
      <3>3. PICK y \in Run : run' = [run EXCEPT ![q] = y] /\ y.unsent = run[q].unsent
        BY <1>0, <3>1, AttemptSteps
      <3>4. run'[q] = y /\ \A p \in Requests \ {q} : run'[p] = run[p]
        BY <1>0, <3>3 DEF TypeOK
      <3>5. \A p \in Requests : ~run'[p].unsent /\ (Sending(p)' => p = q)
        BY <3>2, <3>3, <3>4 DEF Sending, InTurn
      <3>6. OneSender'
        BY <3>5 DEF OneSender
      <3>7. QED
        BY <1>0, <3>1, <3>2, <3>6 DEF SentInv, NotSent, RowBeforeSending, SentAtMostOnce
    <2>3. QED
      BY <2>1, <2>2
  <1>6. ASSUME NEW q \in Requests, Send(q) \/ StraySends(q)
        PROVE  SentInv'
    <2>1. PICK y \in Run : run' = [run EXCEPT ![q] = y] /\ ~(InTurn(y) \/ y.unsent)
      <3>1. CASE Send(q)
        <4>1. Live(q) /\ run[q].notifying = "inserted" /\ run' = [run EXCEPT ![q].notifying = "done"]
          BY <3>1 DEF Send
        <4>2. ~run[q].unsent
          BY <4>1 DEF SentInv, OneSender, InTurn, Live
        <4>3. PICK y \in Run : /\ run' = [run EXCEPT ![q] = y]
                               /\ y.notifying = "done" /\ y.unsent = run[q].unsent
          BY <1>0, <4>1, AttemptSteps
        <4>4. ~(InTurn(y) \/ y.unsent)
          BY <4>2, <4>3 DEF InTurn
        <4>5. QED
          BY <4>3, <4>4
      <3>2. CASE StraySends(q)
        <4>1. ~InTurn(run[q])
          BY <3>2 DEF StraySends, SentInv, OneSender
        <4>2. PICK y \in Run : /\ run' = [run EXCEPT ![q] = y]
                               /\ y.step = run[q].step /\ y.notifying = run[q].notifying /\ ~y.unsent
          BY <1>0, <3>2, AttemptSteps
        <4>3. ~(InTurn(y) \/ y.unsent)
          BY <4>1, <4>2 DEF InTurn
        <4>4. QED
          BY <4>2, <4>3
      <3>3. QED
        BY <1>6, <3>1, <3>2
    <2>2. Sending(q) /\ delivered' = delivered + 1 /\ UNCHANGED <<exists, recorded>>
      BY <1>6 DEF Send, StraySends, Sending, InTurn, Live
    <2>3. delivered = 0 /\ ~(exists /\ ~recorded) /\ \A p \in Requests : Sending(p) => p = q
      BY <2>2 DEF SentInv, NotSent, RowBeforeSending, OneSender
    <2>4. run'[q] = y /\ \A p \in Requests \ {q} : run'[p] = run[p]
      BY <1>0, <2>1 DEF TypeOK
    <2>5. \A p \in Requests : ~Sending(p)'
      BY <2>1, <2>3, <2>4 DEF Sending, InTurn
    <2>6. OneSender'
      BY <2>5 DEF OneSender, Sending
    <2>7. QED
      BY <1>0, <2>2, <2>3, <2>5, <2>6 DEF SentInv, NotSent, RowBeforeSending, SentAtMostOnce
  <1>7. ASSUME NEW q \in Requests, NEW activity \in Activities, Report(q, activity)
        PROVE  SentInv'
    <2>1. PICK y \in Run : Reported(run[q], y) /\ run' = [run EXCEPT ![q] = y]
      BY <1>0, <1>7, Reports
    <2>2. Live(q) /\ UNCHANGED <<exists, recorded, delivered>>
      BY <1>0, <1>7, Reports DEF database
    <2>3. QED
      BY <1>0, <2>1, <2>2, SentKept DEF Reported, Sending, InTurn, Live
  <1>8. ASSUME NEW q \in Requests,
               (\E activity \in Activities : LoseAttempt(q, activity) \/ TimeOut(q, activity)) \/ NotFound(q)
        PROVE  SentInv'
    <2>1. PICK y \in Run : GaveUp(run[q], y) /\ run' = [run EXCEPT ![q] = y]
      BY <1>0, <1>8, GivesUp
    <2>2. UNCHANGED <<exists, recorded, delivered>>
      BY <1>0, <1>8, GivesUp DEF database
    <2>3. QED
      BY <1>0, <2>1, <2>2, SentKept DEF GaveUp, Sending
  <1>9. QED
    BY <1>1, <1>2, <1>3, <1>4, <1>5, <1>6, <1>7, <1>8 DEF Next, Scoring, Notifying, Activities

\* A candidate is sent one confirmation at most, whatever the attempts, the runs and the requests
\* to process do: the dedupe key of the notification's row lets one attempt in.
THEOREM OneConfirmation == ASSUME ConstantsOK PROVE Spec => []SentAtMostOnce
  <1>1. Init => SentInv
    <2> SUFFICES ASSUME Init
                 PROVE  SentInv
      OBVIOUS
    <2>1. TypeOK
      BY TypeInit
    <2>2. delivered = 0 /\ \A q \in Requests : ~InTurn(run[q]) /\ ~run[q].unsent
      BY DEF Init, FreshRun, InTurn
    <2>3. QED
      BY <2>1, <2>2 DEF SentInv, OneSender, NotSent, RowBeforeSending, SentAtMostOnce, Sending
  <1>2. SentInv => SentAtMostOnce
    BY DEF SentInv
  <1>3. QED
    BY <1>1, <1>2, SentStep, PTL DEF Spec

-----------------------------------------------------------------------------
(* What a completed run leaves behind.                                     *)

LEMMA AtLeastOrder ==
  /\ \A a \in Inputs : AtLeast(a, a)
  /\ \A a, b, c \in Inputs : AtLeast(a, b) /\ AtLeast(b, c) => AtLeast(a, c)
  BY DEF AtLeast, Inputs, Version

\* A step of one live run that writes neither score nor row.
LEMMA MarkKept ==
  ASSUME MarkInv, TypeOK', UNCHANGED <<database, request>>,
         NEW q \in Requests, Live(q), NEW y \in Run, run' = [run EXCEPT ![q] = y],
         y.strays = {},
         y.step \in {"running", "failed"} \/ (y.step = "completed" /\ y.scoring = "reported"
                                               /\ y.notifying = "reported"),
         y.step = "running" =>
           /\ y.scoring \in {"loaded", "read"} => y.have.profile >= Since(q).profile
           /\ y.scoring = "read" => y.have.posting >= Since(q).posting,
         y.scoring \in {"done", "reported"} => run[q].scoring \in {"done", "reported"},
         y.notifying # "waiting" => run[q].notifying # "waiting"
  PROVE  MarkInv'
  <1>0. TypeOK
    BY DEF MarkInv
  <1>1. run'[q] = y /\ \A p \in Requests \ {q} : run'[p] = run[p]
    BY <1>0 DEF TypeOK
  <1>2. \A p \in Requests : Since(p)' = Since(p)
    BY DEF Since
  <1>3. \A p \in Requests : Live(p)' => Live(p)
    BY <1>1 DEF Live
  <1>4. request[q].pc # "idle"
    BY DEF MarkInv, Unasked, Live
  <1>5. Unasked' /\ OneLive' /\ SinceIsPast'
    BY <1>1, <1>2, <1>3, <1>4 DEF MarkInv, Unasked, OneLive, SinceIsPast, database
  <1>6. InOrder'
    <2> SUFFICES ASSUME NEW a \in Requests, NEW b \in Requests, Live(a)', run'[b].step = "completed"
                 PROVE  AtLeast(Since(a), Since(b))
      BY <1>2 DEF InOrder
    <2>1. a = q
      BY <1>3 DEF MarkInv, OneLive
    <2>2. b # q
      BY <1>1, <2>1 DEF Live
    <2>3. QED
      BY <1>1, <1>3, <2>1, <2>2 DEF MarkInv, InOrder
  <1>7. ReadSince'
    BY <1>1, <1>2, <1>3 DEF MarkInv, ReadSince, Live
  <1>8. NoStrays'
    BY <1>1 DEF MarkInv, NoStrays
  <1>9. ScoreIsKept'
    BY <1>1, <1>2 DEF MarkInv, ScoreIsKept, Scored, Live, database
  <1>10. RowIsKept'
    BY <1>1 DEF MarkInv, RowIsKept, Live, database
  <1>11. QED
    BY <1>5, <1>6, <1>7, <1>8, <1>9, <1>10 DEF MarkInv

LEMMA MarkStep ==
  ASSUME ConstantsOK, "stray" \notin Faults
  PROVE  MarkInv /\ [Next]_vars => MarkInv'
  <1> SUFFICES ASSUME MarkInv, [Next]_vars
               PROVE  MarkInv'
    OBVIOUS
  <1>0. TypeOK /\ TypeOK'
    BY TypeStep DEF MarkInv
  <1>1. CASE EditInput
    <2>1. UNCHANGED <<exists, score, recorded, request, run>>
      BY <1>1 DEF EditInput
    <2>2. AtLeast(inputs', inputs)
      <3>1. PICK part \in {"profile", "posting"} : inputs' = [inputs EXCEPT ![part] = @ + 1]
        BY <1>1 DEF EditInput
      <3>2. CASE part = "profile"
        BY <1>0, <3>1, <3>2 DEF TypeOK, Inputs, Version, ConstantsOK, AtLeast
      <3>3. CASE part = "posting"
        BY <1>0, <3>1, <3>3 DEF TypeOK, Inputs, Version, ConstantsOK, AtLeast
      <3>4. QED
        BY <3>2, <3>3
    <2>3. SinceIsPast'
      <3>1. \A q \in Requests : Since(q) \in Inputs /\ Since(q)' = Since(q)
        BY <1>0, <2>1 DEF TypeOK, Request, Since
      <3>2. QED
        BY <1>0, <2>2, <3>1, AtLeastOrder DEF MarkInv, SinceIsPast, TypeOK
    <2>4. QED
      BY <1>0, <2>1, <2>3 DEF MarkInv, Unasked, OneLive, Live, InOrder, Since, ReadSince, NoStrays, ScoreIsKept,
                              Scored, RowIsKept
  <1>2. CASE Delete
    <2>1. ~exists' /\ UNCHANGED <<inputs, request, run>>
      BY <1>2 DEF Delete
    <2>2. QED
      BY <1>0, <2>1 DEF MarkInv, Unasked, OneLive, Live, SinceIsPast, InOrder, Since, ReadSince, NoStrays,
                        ScoreIsKept, RowIsKept
  <1>3. ASSUME NEW r \in Requests, Start(r) \/ StartFails(r)
        PROVE  MarkInv'
    <2>1. request[r].pc = "idle" /\ UNCHANGED database
      BY <1>0, <1>3, Starts
    <2>2. PICK x \in Request : x.pc # "idle" /\ x.since = inputs /\ request' = [request EXCEPT ![r] = x]
      BY <1>0, <1>3, Starts
    <2>3. /\ Since(r)' = inputs /\ request'[r].pc # "idle"
          /\ \A q \in Requests \ {r} : Since(q)' = Since(q) /\ request'[q] = request[q]
      BY <1>0, <2>2 DEF TypeOK, Since
    <2>4. \/ UNCHANGED run
          \/ (\A q \in Requests : ~Live(q)) /\ run' = [run EXCEPT ![r] = FreshRun]
      BY <1>0, <1>3, Starts
    <2>5. run[r].step = "not_started"
      BY <2>1 DEF MarkInv, Unasked
    <2>6. /\ run'[r].step # "completed" /\ run'[r].strays = {}
          /\ Live(r)' => /\ run'[r].scoring = "waiting" /\ run'[r].notifying = "waiting"
                         /\ \A q \in Requests : ~Live(q)
          /\ \A q \in Requests \ {r} : run'[q] = run[q]
      BY <1>0, <2>4, <2>5 DEF TypeOK, FreshRun, Live, MarkInv, NoStrays
    <2>7. Unasked' /\ NoStrays'
      BY <2>3, <2>6 DEF MarkInv, Unasked, NoStrays
    <2>8. OneLive'
      BY <2>6 DEF MarkInv, OneLive, Live
    <2>9. SinceIsPast'
      BY <1>0, <2>1, <2>3, AtLeastOrder DEF MarkInv, SinceIsPast, TypeOK, database
    <2>10. InOrder'
      <3> SUFFICES ASSUME NEW q \in Requests, NEW p \in Requests, Live(q)', run'[p].step = "completed"
                   PROVE  AtLeast(Since(q)', Since(p)')
        BY DEF InOrder
      <3>1. p # r /\ run[p].step = "completed" /\ Since(p)' = Since(p)
        BY <2>3, <2>6
      <3>2. CASE q = r
        BY <2>3, <3>1, <3>2 DEF MarkInv, SinceIsPast
      <3>3. CASE q # r
        BY <2>3, <2>6, <3>1, <3>3 DEF MarkInv, InOrder, Live
      <3>4. QED
        BY <3>2, <3>3
    <2>11. ReadSince'
      BY <2>3, <2>6 DEF MarkInv, ReadSince, Live
    <2>12. ScoreIsKept'
      BY <2>1, <2>3, <2>6 DEF MarkInv, ScoreIsKept, Scored, Live, database
    <2>13. RowIsKept'
      BY <2>1, <2>6 DEF MarkInv, RowIsKept, Live, database
    <2>14. QED
      BY <1>0, <2>7, <2>8, <2>9, <2>10, <2>11, <2>12, <2>13 DEF MarkInv
  <1>4. ASSUME NEW q \in Requests, Load(q)
        PROVE  MarkInv'
    <2>1. PICK y \in Run : /\ run' = [run EXCEPT ![q] = y]
                           /\ y.step = run[q].step /\ y.scoring = "loaded"
                           /\ y.have.profile = inputs.profile
                           /\ y.notifying = run[q].notifying /\ y.strays = run[q].strays
      BY <1>0, <1>4, AttemptSteps
    <2>2. Live(q) /\ UNCHANGED <<database, request>>
      BY <1>4 DEF Load
    <2>3. y.have.profile >= Since(q).profile
      BY <2>1 DEF MarkInv, SinceIsPast, AtLeast
    <2>4. QED
      BY <1>0, <2>1, <2>2, <2>3, MarkKept DEF MarkInv, NoStrays, Live
  <1>5. ASSUME NEW q \in Requests, ReadMentioned(q)
        PROVE  MarkInv'
    <2>1. PICK y \in Run : /\ run' = [run EXCEPT ![q] = y]
                           /\ y.step = run[q].step /\ y.scoring = "read"
                           /\ y.have.profile = run[q].have.profile /\ y.have.posting = inputs.posting
                           /\ y.notifying = run[q].notifying /\ y.strays = run[q].strays
      BY <1>0, <1>5, AttemptSteps
    <2>2. Live(q) /\ run[q].scoring = "loaded" /\ UNCHANGED <<database, request>>
      BY <1>5 DEF ReadMentioned
    <2>3. y.have.profile >= Since(q).profile
      BY <2>1, <2>2 DEF MarkInv, ReadSince
    <2>4. y.have.posting >= Since(q).posting
      BY <2>1 DEF MarkInv, SinceIsPast, AtLeast
    <2>5. QED
      BY <1>0, <2>1, <2>2, <2>3, <2>4, MarkKept DEF MarkInv, NoStrays, Live
  <1>6. ASSUME NEW q \in Requests, WriteScore(q)
        PROVE  MarkInv'
    <2>1. PICK y \in Run : /\ run' = [run EXCEPT ![q] = y]
                           /\ y.step = run[q].step /\ y.scoring = "done"
                           /\ y.notifying = run[q].notifying /\ y.strays = run[q].strays
      BY <1>0, <1>6, AttemptSteps
    <2>2. /\ Live(q) /\ run[q].scoring = "read" /\ UNCHANGED <<exists, inputs, recorded, request>>
          /\ exists => score' = run[q].have
      BY <1>6 DEF WriteScore, Store
    <2>3. run'[q] = y /\ \A p \in Requests \ {q} : run'[p] = run[p]
      BY <1>0, <2>1 DEF TypeOK
    <2>4. \A p \in Requests : Since(p)' = Since(p) /\ Since(p) \in Inputs /\ (Live(p)' <=> Live(p))
      BY <1>0, <2>1, <2>2, <2>3 DEF TypeOK, Request, Since, Live
    <2>5. AtLeast(run[q].have, Since(q))
      BY <2>2 DEF MarkInv, ReadSince, AtLeast
    <2>6. run[q].have \in Inputs /\ run[q].have # NoScore
      BY <1>0 DEF TypeOK, Run, ConstantsOK
    <2>7. ScoreIsKept'
      <3> SUFFICES ASSUME exists', NEW p \in Requests,
                          \/ Live(p)' /\ run'[p].scoring \in {"done", "reported"}
                          \/ run'[p].step = "completed"
                   PROVE  Scored(p)'
        BY DEF ScoreIsKept
      <3>1. score' = run[q].have
        BY <2>2
      <3>2. p # q => run[p].step = "completed"
        BY <2>2, <2>3 DEF MarkInv, OneLive, Live
      <3>3. AtLeast(Since(q), Since(p))
        BY <2>2, <2>4, <3>2, AtLeastOrder DEF MarkInv, InOrder
      <3>4. QED
        BY <2>4, <2>5, <2>6, <3>1, <3>3, AtLeastOrder DEF Scored
    <2>8. Unasked' /\ OneLive' /\ SinceIsPast' /\ InOrder' /\ NoStrays'
      BY <2>1, <2>2, <2>3, <2>4 DEF MarkInv, Unasked, OneLive, SinceIsPast, InOrder, NoStrays
    <2>9. ReadSince'
      BY <2>1, <2>3, <2>4 DEF MarkInv, ReadSince
    <2>10. RowIsKept'
      BY <2>1, <2>2, <2>3, <2>4 DEF MarkInv, RowIsKept
    <2>11. QED
      BY <1>0, <2>7, <2>8, <2>9, <2>10 DEF MarkInv
  <1>7. ASSUME NEW q \in Requests, InsertNotification(q)
        PROVE  MarkInv'
    <2>1. PICK step \in {"inserted", "done"} : run' = [run EXCEPT ![q].notifying = step]
      BY <1>7 DEF InsertNotification
    <2>2. PICK y \in Run : /\ run' = [run EXCEPT ![q] = y]
                           /\ y.step = run[q].step /\ y.scoring = run[q].scoring /\ y.have = run[q].have
                           /\ y.strays = run[q].strays
      BY <1>0, <2>1, AttemptSteps
    <2>3. Live(q) /\ recorded' /\ UNCHANGED <<exists, inputs, score, request>>
      BY <1>7 DEF InsertNotification
    <2>4. run'[q] = y /\ \A p \in Requests \ {q} : run'[p] = run[p]
      BY <1>0, <2>2 DEF TypeOK
    <2>5. \A p \in Requests : /\ Since(p)' = Since(p) /\ (Live(p)' <=> Live(p))
                              /\ run'[p].step = run[p].step /\ run'[p].scoring = run[p].scoring
                              /\ run'[p].have = run[p].have /\ run'[p].strays = run[p].strays
      BY <2>2, <2>3, <2>4 DEF Since, Live
    <2>6. QED
      BY <1>0, <2>3, <2>5 DEF MarkInv, Unasked, OneLive, SinceIsPast, InOrder, ReadSince, NoStrays, ScoreIsKept,
                              Scored, RowIsKept
  <1>8. ASSUME NEW q \in Requests, Send(q)
        PROVE  MarkInv'
    <2>1. Live(q) /\ run[q].notifying = "inserted" /\ run' = [run EXCEPT ![q].notifying = "done"]
      BY <1>8 DEF Send
    <2>2. PICK y \in Run : /\ run' = [run EXCEPT ![q] = y] /\ y.notifying = "done"
                           /\ y.step = run[q].step /\ y.scoring = run[q].scoring /\ y.have = run[q].have
                           /\ y.strays = run[q].strays
      BY <1>0, <2>1, AttemptSteps
    <2>3. UNCHANGED <<exists, inputs, score, recorded, request>>
      BY <1>8 DEF Send
    <2>4. run'[q] = y /\ \A p \in Requests \ {q} : run'[p] = run[p]
      BY <1>0, <2>2 DEF TypeOK
    <2>5. \A p \in Requests : /\ Since(p)' = Since(p) /\ (Live(p)' <=> Live(p))
                              /\ run'[p].step = run[p].step /\ run'[p].scoring = run[p].scoring
                              /\ run'[p].have = run[p].have /\ run'[p].strays = run[p].strays
                              /\ run'[p].notifying # "waiting" <=> run[p].notifying # "waiting"
      BY <2>1, <2>2, <2>3, <2>4 DEF Since, Live
    <2>6. QED
      BY <1>0, <2>3, <2>5 DEF MarkInv, Unasked, OneLive, SinceIsPast, InOrder, ReadSince, NoStrays, ScoreIsKept,
                              Scored, RowIsKept
  <1>9. ASSUME NEW q \in Requests, NEW activity \in Activities, Report(q, activity)
        PROVE  MarkInv'
    <2>1. PICK y \in Run : Reported(run[q], y) /\ run' = [run EXCEPT ![q] = y]
      BY <1>0, <1>9, Reports
    <2>2. Live(q) /\ UNCHANGED <<database, request>>
      BY <1>0, <1>9, Reports
    <2>3. QED
      BY <1>0, <2>1, <2>2, MarkKept DEF Reported, MarkInv, NoStrays, ReadSince
  <1>10. ASSUME NEW q \in Requests,
                (\E activity \in Activities : LoseAttempt(q, activity) \/ TimeOut(q, activity)) \/ NotFound(q)
         PROVE  MarkInv'
    <2>1. PICK y \in Run : GaveUp(run[q], y) /\ run' = [run EXCEPT ![q] = y]
      BY <1>0, <1>10, GivesUp
    <2>2. Live(q) /\ UNCHANGED <<database, request>>
      BY <1>0, <1>10, GivesUp
    <2>3. QED
      BY <1>0, <2>1, <2>2, MarkKept DEF GaveUp, MarkInv, NoStrays, ReadSince
  <1>11. ASSUME NEW q \in Requests, StrayWrites(q) \/ StraySends(q)
         PROVE  MarkInv'
    <2>1. ~StrayWrites(q)
      BY DEF StrayWrites, MarkInv, NoStrays
    <2>2. StraySends(q)
      BY <1>11, <2>1
    <2>3. PICK y \in Run : /\ run' = [run EXCEPT ![q] = y]
                           /\ y.step = run[q].step /\ y.scoring = run[q].scoring /\ y.have = run[q].have
                           /\ y.notifying = run[q].notifying /\ y.strays = run[q].strays
      BY <1>0, <2>2, AttemptSteps
    <2>4. UNCHANGED <<exists, inputs, score, recorded, request>>
      BY <2>2 DEF StraySends
    <2>5. run'[q] = y /\ \A p \in Requests \ {q} : run'[p] = run[p]
      BY <1>0, <2>3 DEF TypeOK
    <2>6. \A p \in Requests : /\ Since(p)' = Since(p) /\ (Live(p)' <=> Live(p))
                              /\ run'[p].step = run[p].step /\ run'[p].scoring = run[p].scoring
                              /\ run'[p].have = run[p].have /\ run'[p].strays = run[p].strays
                              /\ run'[p].notifying = run[p].notifying
      BY <2>3, <2>4, <2>5 DEF Since, Live
    <2>7. QED
      BY <1>0, <2>4, <2>6 DEF MarkInv, Unasked, OneLive, SinceIsPast, InOrder, ReadSince, NoStrays, ScoreIsKept,
                              Scored, RowIsKept
  <1>12. CASE UNCHANGED vars
    BY <1>0, <1>12 DEF vars, MarkInv, Unasked, OneLive, Live, SinceIsPast, InOrder, Since, ReadSince, NoStrays,
                       ScoreIsKept, Scored, RowIsKept
  <1>13. QED
    BY <1>1, <1>2, <1>3, <1>4, <1>5, <1>6, <1>7, <1>8, <1>9, <1>10, <1>11, <1>12
    DEF Next, Scoring, Notifying, Activities

\* A run that completes, and whose attempts all end with it, leaves the confirmation's row and a
\* score of a profile and a posting no older than its request, for as long as the application
\* is there.
THEOREM MarkIsLeft == ASSUME ConstantsOK, "stray" \notin Faults PROVE Spec => []RunLeavesItsMark
  <1>1. Init => MarkInv
    <2> SUFFICES ASSUME Init
                 PROVE  MarkInv
      OBVIOUS
    <2>1. TypeOK
      BY TypeInit
    <2>2. \A q \in Requests : run[q].step = "not_started" /\ run[q].strays = {}
      BY DEF Init, FreshRun
    <2>3. \A q \in Requests : Since(q) = inputs
      BY DEF Init, Since
    <2>4. SinceIsPast
      BY <2>1, <2>3, AtLeastOrder DEF SinceIsPast, TypeOK
    <2>5. QED
      BY <2>1, <2>2, <2>4 DEF MarkInv, Unasked, OneLive, Live, InOrder, ReadSince, NoStrays, ScoreIsKept, RowIsKept
  <1>2. MarkInv => RunLeavesItsMark
    BY DEF MarkInv, RunLeavesItsMark, ScoreIsKept, Scored, RowIsKept, Since
  <1>3. QED
    BY <1>1, <1>2, MarkStep, PTL DEF Spec
=============================================================================
