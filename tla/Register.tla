------------------------------ MODULE Register ------------------------------
(***************************************************************************)
(* A candidate signs up (pages/RegisterPage.tsx over components/auth): two *)
(* steps, each checked before the next, then one request that creates the  *)
(* account and one that signs in to it.  Answers may be lost, and the      *)
(* email may be one that is taken.                                         *)
(***************************************************************************)
EXTENDS Naturals, FiniteSets

CONSTANTS
  Emails,      \* the addresses the user may type
  MaxEdits,    \* bound on the fields typed into
  MaxAttempts, \* bound on the submits that send something
  None

\* What the form tells passwords apart by.
Passwords ==
  [length : {7, 8, 12, 16, 128, 129}, classes : {1, 3, 4}, guessable : BOOLEAN]

Short  == [length |-> 7,  classes |-> 1, guessable |-> FALSE]
Chosen == [length |-> 12, classes |-> 3, guessable |-> FALSE]

Steps == {"account", "profile"}

VARIABLES
  accounts, \* on the server: the password of each address that has an account
  draft,    \* what the form holds
  step,
  touched,  \* the fields whose errors may be shown
  created,  \* whether this form knows that its account exists
  request,  \* what is on its way
  error,    \* what the server last objected to
  signedIn, \* the address the tab is signed in with
  edits, attempts

vars == <<accounts, draft, step, touched, created, request, error, signedIn, edits, attempts>>

-----------------------------------------------------------------------------
(* The rules.                                                              *)

StepFields(s) == IF s = "account" THEN {"email", "password"} ELSE {"years"}

PASSWORD_MIN_LENGTH == 8
PASSWORD_MAX_LENGTH == 128

Valid(f, d) ==
  CASE f = "email"    -> d.email # ""
    [] f = "password" -> d.password.length \in PASSWORD_MIN_LENGTH .. PASSWORD_MAX_LENGTH
    [] f = "years"    -> d.years # ""

validateStep(s, d) == {f \in StepFields(s) : ~Valid(f, d)}

visibleErrors(s, d, t) == validateStep(s, d) \cap t

\* Mutation: eight characters are too few.
passwordStrengthOfNine(p) ==
  IF p.length > PASSWORD_MAX_LENGTH \/ p.length <= PASSWORD_MIN_LENGTH THEN 0
  ELSE IF p.guessable THEN 1 ELSE 2

\* From 0 to 4: length does most of the work, and what can be guessed is weak however long it is.
passwordStrength(p) ==
  IF p.length > PASSWORD_MAX_LENGTH \/ p.length < PASSWORD_MIN_LENGTH THEN 0
  ELSE IF p.guessable THEN 1
  ELSE 1 + Cardinality({c \in {"long", "varied", "longer"} :
                          CASE c = "long"   -> p.length >= 12
                            [] c = "varied" -> p.classes >= 3
                            [] c = "longer" -> p.length >= 16 \/ (p.length >= 12 /\ p.classes = 4)})

\* The list under the box; only the length is asked for.
passwordChecks(p) ==
  [ length  |-> p.length \in PASSWORD_MIN_LENGTH .. PASSWORD_MAX_LENGTH,
    long    |-> p.length >= 12,
    variety |-> p.classes >= 3 ]

-----------------------------------------------------------------------------
Drafts == [email : Emails \cup {""}, password : Passwords, years : {"", "0"}]

NoRequest == [pc |-> "idle", email |-> "", password |-> Short]

Pending == request.pc # "idle"

TypeOK ==
  /\ accounts \in [Emails -> Passwords \cup {None}]
  /\ draft \in Drafts /\ step \in Steps /\ touched \subseteq {"email", "password", "years"}
  /\ created \in BOOLEAN
  /\ request \in [pc : {"idle", "register", "registered", "taken", "lost", "sign in", "welcome", "refused"},
                  email : Emails \cup {""}, password : Passwords]
  /\ error \in {None, "duplicate_email", "failed"}
  /\ signedIn \in Emails \cup {None}
  /\ edits \in 0 .. MaxEdits /\ attempts \in 0 .. MaxAttempts

AtForm == signedIn = None

\* An edit answers what the server objected to, unless the account is there already.
Update(d) == draft' = d /\ error' = IF created THEN error ELSE None

\* The fields stay live while a request is on its way.
Type(f) ==
  /\ AtForm
  /\ f \in StepFields(step)
  /\ edits < MaxEdits
  /\ \/ f = "email" /\ \E e \in Emails \cup {""} : e # draft.email /\ Update([draft EXCEPT !.email = e])
     \/ f = "password" /\ \E p \in {Short, Chosen} : p # draft.password /\ Update([draft EXCEPT !.password = p])
     \/ f = "years" /\ \E y \in {"", "0"} : y # draft.years /\ Update([draft EXCEPT !.years = y])
  /\ touched' \in {touched, IF f = "years" \/ draft'.email # "" THEN touched \cup {f} ELSE touched}
  /\ edits' = edits + 1
  /\ UNCHANGED <<accounts, step, created, request, signedIn, attempts>>

\* "Edit", or the step above the form, at any time; Back only while nothing is on its way.  The
\* steps after this one are never a button.
GoBack ==
  /\ AtForm /\ step = "profile"
  /\ step' = "account"
  /\ UNCHANGED <<accounts, draft, touched, created, request, error, signedIn, edits, attempts>>

\* The step's errors are shown, and the first is pointed at.
Continue ==
  /\ AtForm /\ ~Pending /\ step = "account"
  /\ touched' = touched \cup StepFields("account")
  /\ step' = IF validateStep("account", draft) = {} THEN "profile" ELSE "account"
  /\ UNCHANGED <<accounts, draft, created, request, error, signedIn, edits, attempts>>

PointAtErrors ==
  /\ AtForm /\ ~Pending /\ step = "profile"
  /\ \E s \in Steps : validateStep(s, draft) # {} /\ step' = s
  /\ touched' = touched \cup StepFields("account") \cup StepFields("profile")
  /\ UNCHANGED <<accounts, draft, created, request, error, signedIn, edits, attempts>>

\* Mutation: every submit registers.
FirstRequestAlways == "register"

\* A sign-in that failed is tried again without registering twice.
FirstRequest == IF created THEN "sign in" ELSE "register"

Submit ==
  /\ AtForm /\ ~Pending /\ step = "profile"
  /\ validateStep("account", draft) = {} /\ validateStep("profile", draft) = {}
  /\ attempts < MaxAttempts
  /\ touched' = touched \cup StepFields("account") \cup StepFields("profile")
  /\ request' = [pc |-> FirstRequest, email |-> draft.email, password |-> draft.password]
  /\ error' = None
  /\ attempts' = attempts + 1
  /\ UNCHANGED <<accounts, draft, step, created, signedIn, edits>>

-----------------------------------------------------------------------------
(* The server, and what the form makes of its answers.                     *)

Becomes(pc) == request' = [request EXCEPT !.pc = pc]

ServeRegister ==
  /\ request.pc = "register"
  /\ IF accounts[request.email] = None
       THEN /\ accounts' = [accounts EXCEPT ![request.email] = request.password]
            /\ Becomes("registered") \/ Becomes("lost")
       ELSE Becomes("taken") /\ UNCHANGED accounts
  /\ UNCHANGED <<draft, step, touched, created, error, signedIn, edits, attempts>>

ServeSignIn ==
  /\ request.pc = "sign in"
  /\ Becomes(IF accounts[request.email] = request.password THEN "welcome" ELSE "refused")
  /\ UNCHANGED <<accounts, draft, step, touched, created, error, signedIn, edits, attempts>>

Lose ==
  /\ request.pc \in {"register", "sign in"}
  /\ Becomes("lost")
  /\ UNCHANGED <<accounts, draft, step, touched, created, error, signedIn, edits, attempts>>

Registered ==
  /\ request.pc = "registered"
  /\ created' = TRUE
  /\ Becomes("sign in")
  /\ UNCHANGED <<accounts, draft, step, touched, error, signedIn, edits, attempts>>

Taken ==
  /\ request.pc = "taken"
  /\ error' = "duplicate_email" /\ step' = "account"
  /\ request' = NoRequest
  /\ UNCHANGED <<accounts, draft, touched, created, signedIn, edits, attempts>>

Failed ==
  /\ request.pc \in {"lost", "refused"}
  /\ error' = "failed"
  /\ request' = NoRequest
  /\ UNCHANGED <<accounts, draft, step, touched, created, signedIn, edits, attempts>>

Welcome ==
  /\ request.pc = "welcome"
  /\ signedIn' = request.email
  /\ request' = NoRequest
  /\ UNCHANGED <<accounts, draft, step, touched, created, error, edits, attempts>>

\* Some addresses have an account already, with a password of somebody else.
Init ==
  /\ accounts \in [Emails -> {None, [Chosen EXCEPT !.length = 16]}]
  /\ draft \in [email : {""}, password : Passwords, years : {"0"}]
  /\ step = "account" /\ touched = {} /\ created = FALSE
  /\ request = NoRequest /\ error = None /\ signedIn = None
  /\ edits = 0 /\ attempts = 0

Next ==
  \/ \E f \in {"email", "password", "years"} : Type(f)
  \/ GoBack \/ Continue \/ PointAtErrors \/ Submit
  \/ ServeRegister \/ ServeSignIn \/ Lose
  \/ Registered \/ Taken \/ Failed \/ Welcome

Spec == Init /\ [][Next]_vars

-----------------------------------------------------------------------------
(* What the page shows.                                                    *)

Notice ==
  CASE error = None              -> None
    [] error = "duplicate_email" -> "that email already has an account"
    [] error # None /\ error # "duplicate_email" /\ created -> "your account is ready, but signing in failed"
    [] OTHER                     -> "what failed"

StepIndicator ==
  [s \in Steps |-> CASE s = step -> "current" [] s = "account" /\ step = "profile" -> "done" [] OTHER -> "upcoming"]

Page ==
  [ steps    |-> StepIndicator,
    errors   |-> visibleErrors(step, draft, touched),
    strength |-> passwordStrength(draft.password),
    checks   |-> passwordChecks(draft.password),
    notice   |-> Notice,
    submit   |-> IF Pending THEN "busy" ELSE IF step = "account" THEN "Continue"
                 ELSE IF created THEN "Sign in" ELSE "Create account" ]

-----------------------------------------------------------------------------
(* Properties.                                                             *)

\* "An edit answers whatever the server last objected to; a stale notice would mislead"
\* (pages/RegisterPage.tsx:83): an address is said to be taken only if it is.
TakenIsOfThisEmail ==
  Page.notice = "that email already has an account" => draft.email # "" /\ accounts[draft.email] # None

\* Once the form knows that its account exists it is not told that the address is taken
\* (RegisterPage.tsx:63), whatever fails and however often it is submitted.
NeverRegisteredTwice == created => error # "duplicate_email" /\ request.pc \notin {"register", "taken"}

\* The meter and the rule that the API enforces agree (components/auth/password.ts:110): a
\* password is scored at all exactly when the first step accepts it.
ScoredIfAccepted == (Page.strength = 0) <=> "password" \in validateStep("account", draft)
=============================================================================
